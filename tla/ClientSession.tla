---------------------------- MODULE ClientSession ----------------------------
(***************************************************************************)
(* The client's session, from Connect to StopThread, and the events a      *)
(* server sends it.  The user's thread, the receive, decode and send       *)
(* threads of the client and the server interleave; a connection can end   *)
(* at any moment, and so can the client process, while the server's        *)
(* subscriptions and its outbound queue stay.                              *)
(*                                                                         *)
(* A message to the client is the verdict on its credentials ("valid" or   *)
(* "invalid") or an event; "misframed" is what is left of the messages of  *)
(* a server that is busy once Authenticate has taken their beginning for a *)
(* challenge.  Framing and the ByteQueue's waits are those of              *)
(* InboundPipeline, requests and responses those of Rpc.  A thread is      *)
(* "off" exactly while the pointer to it is null.                          *)
(***************************************************************************)
EXTENDS Integers, Sequences

CONSTANTS
    Events,                         (* event ids, SV_EVT_*                 *)
    MaxSessions, MaxAsks, MaxEmits, (* bounds: connections, subscribe and  *)
                                    (* unsubscribe calls, events emitted   *)
    None

ASSUME ClientAssumption ==
    /\ {MaxSessions, MaxAsks, MaxEmits} \subseteq Nat
    /\ Events \cap {"valid", "invalid", "misframed", None} = {}
    /\ None \notin {"valid", "invalid"}

VARIABLES
    session,   (* connections so far                                       *)
    srv,       (* the server's side of the last one                        *)
    s2c, c2s,  (* what is on its way to the client, to the server          *)
    subs,      (* subscriptions, of the server's Registry                  *)
    sout,      (* the server's outbound_data_queue                         *)
    emits,     (* events emitted so far                                    *)
    sockOpen,  (* the client has not closed its socket                     *)
    running, connValid,  (* client_running, conn_valid                     *)
    rpc, rsess,(* the receive thread, the connection it was started on     *)
    dpc, inbox, ntf,     (* the decode thread, inbound_bytes, ntf_unblock  *)
    msg,       (* the message the decode thread has fetched                *)
    spc, outq, (* the send thread, outbound_data_queue                     *)
    callbacks, (* evt_callbacks                                            *)
    upc, asks, (* the user's thread, its requests so far                   *)
    culprit,   (* the event whose callback was not found; ends the process *)
    restarted, (* the client process has been replaced                     *)
    verdict,   (* history: the server's verdict in this session            *)
    ret,       (* history: conn_valid by which StartThread decided         *)
    late,      (* history: a verdict stored after the receive thread had   *)
               (* taken it back                                            *)
    missed,    (* history: the send thread missed notify_unblock           *)
    asked, inherited, removed  (* history: events subscribed to by this    *)
                               (* process, by the one before; taken back   *)

net == <<session, srv, s2c, c2s>>
server == <<subs, sout, emits>>
recv == <<rpc, rsess, dpc, inbox, ntf, msg>>
send == <<spc, outq>>
user == <<upc, asks, callbacks, asked, removed>>
history == <<verdict, ret, late, missed, inherited, restarted, culprit>>
vars == <<session, srv, s2c, c2s, subs, sout, emits, sockOpen, running,
          connValid, rpc, rsess, dpc, inbox, ntf, msg, spc, outq, callbacks, upc, asks,
          culprit, restarted, verdict, ret, late, missed, asked, inherited, removed>>

Init ==
    /\ sockOpen = FALSE /\ running = FALSE /\ connValid = "wait"
    /\ rpc = "off" /\ rsess = 0 /\ dpc = "off" /\ inbox = <<>> /\ ntf = FALSE
    /\ msg = None /\ spc = "off" /\ outq = <<>> /\ callbacks = {} /\ upc = "idle"
    /\ culprit = None /\ ret = None /\ late = FALSE /\ missed = FALSE
    /\ asked = {} /\ removed = {}
    /\ session = 0 /\ srv = "none" /\ s2c = <<>> /\ c2s = <<>>
    /\ subs = {} /\ sout = <<>> /\ emits = 0 /\ asks = 0
    /\ restarted = FALSE /\ verdict = None /\ inherited = {}
-----------------------------------------------------------------------------
(* What the server makes of a connection: a challenge, or, if it serves    *)
(* another client, errors and a verdict, and a second later it closes.     *)
Challenged == srv' = "auth" /\ s2c' = <<>>
TurnedAway == srv' = "refused" /\ s2c' = <<"misframed">>

(* The user's thread. *)
Connect ==
    /\ upc = "idle" /\ session < MaxSessions /\ srv \in {"none", "gone"}
    /\ session' = session + 1 /\ c2s' = <<>>
    /\ Challenged \/ TurnedAway
    /\ sockOpen' = TRUE /\ upc' = "auth"
    /\ verdict' = None /\ ret' = None
    /\ UNCHANGED <<server, running, connValid, recv, send, asks, callbacks,
                   asked, removed, late, missed, inherited, restarted, culprit>>

(* Authenticate loops until 48 bytes have come, whatever ReceiveData       *)
(* returns and whatever they are.                                          *)
Authenticate ==
    /\ upc = "auth" /\ upc' = "idle"
    /\ \/ srv = "auth" /\ srv' = "asked"
       \/ s2c # <<>> /\ srv' = srv
    /\ UNCHANGED <<session, s2c, c2s, server, sockOpen, running, connValid,
                   recv, send, asks, callbacks, asked, removed, history>>

(* With a receive thread or a send thread of an earlier session there is a *)
(* warning only, and with both StartThread returns true at once.           *)
StartThread ==
    /\ upc = "idle" /\ sockOpen /\ srv # "auth"
    /\ IF rpc = "off"
       THEN running' = TRUE /\ rpc' = "loop" /\ dpc' = "test" /\ rsess' = session
       ELSE UNCHANGED <<running, rpc, dpc, rsess>>
    /\ upc' = IF spc = "off" THEN "spin" ELSE "idle"
    /\ UNCHANGED <<net, server, sockOpen, connValid, inbox, ntf, msg, send, asks,
                   callbacks, asked, removed, history>>

Spin ==
    /\ upc = "spin" /\ connValid # "wait"
    /\ upc' = "check"
    /\ UNCHANGED <<net, server, sockOpen, running, connValid, recv, send, asks,
                   callbacks, asked, removed, history>>

(* conn_valid is loaded a second time: C_INVALID closes the connection,    *)
(* anything else starts the send thread and returns true.                  *)
Check ==
    /\ upc = "check"
    /\ ret' = connValid
    /\ \/ /\ connValid = "invalid"
          /\ sockOpen' = FALSE /\ running' = FALSE /\ upc' = "refused"
          /\ UNCHANGED spc
       \/ /\ connValid # "invalid"
          /\ spc' = "test" /\ upc' = "idle"
          /\ UNCHANGED <<sockOpen, running>>
    /\ UNCHANGED <<net, server, connValid, recv, outq, asks, callbacks, asked,
                   removed, verdict, late, missed, inherited, restarted, culprit>>

(* The joins of the receive thread, in StartThread and in StopThread. *)
JoinReceive ==
    /\ upc \in {"refused", "stop"} /\ rpc = "over"
    /\ rpc' = "off" /\ dpc' = "off"
    /\ upc' = IF upc = "stop" THEN "stopSend" ELSE "idle"
    /\ UNCHANGED <<net, server, sockOpen, running, connValid, rsess, inbox, ntf,
                   msg, send, asks, callbacks, asked, removed, history>>


(* A session that has ended already keeps its socket. *)
StopThread ==
    /\ upc = "idle" /\ rpc # "off"
    /\ running' = FALSE /\ sockOpen' = (sockOpen /\ ~running)
    /\ upc' = "stop"
    /\ UNCHANGED <<net, server, connValid, recv, send, asks, callbacks, asked,
                   removed, history>>

(* SMessageQueue::notify_unblock: no lock and no flag. *)
StopSend ==
    /\ upc = "stopSend"
    /\ spc' = IF spc = "wait" THEN "woken" ELSE spc
    /\ missed' = (spc = "pop")
    /\ upc' = "joinSend"
    /\ UNCHANGED <<net, server, sockOpen, running, connValid, recv, outq, asks,
                   callbacks, asked, removed, verdict, ret, late, inherited,
                   restarted, culprit>>

JoinSendKeepingPointer ==
    /\ upc = "joinSend" /\ spc = "done"
    /\ spc' = spc /\ upc' = "idle"
    /\ UNCHANGED <<net, server, sockOpen, running, connValid, recv, outq, asks,
                   callbacks, asked, removed, history>>

JoinSend ==
    /\ upc = "joinSend" /\ spc = "done"
    /\ spc' = "off" /\ upc' = "idle"
    /\ UNCHANGED <<net, server, sockOpen, running, connValid, recv, outq, asks,
                   callbacks, asked, removed, history>>

(* SetupEvent and RemoveEvent, each followed by SendAsync. *)
Schedule(m) ==
    /\ outq' = Append(outq, m)
    /\ spc' = IF spc = "wait" THEN "woken" ELSE spc

Subscribe(e) ==
    /\ upc = "idle" /\ asks < MaxAsks
    /\ callbacks' = callbacks \cup {e} /\ asked' = asked \cup {e}
    /\ Schedule(<<"EVT_SUB", e>>)
    /\ asks' = asks + 1
    /\ UNCHANGED <<net, server, sockOpen, running, connValid, recv, upc,
                   removed, history>>

Unsubscribe(e) ==
    /\ upc = "idle" /\ asks < MaxAsks
    /\ callbacks' = callbacks \ {e} /\ removed' = removed \cup {e}
    /\ Schedule(<<"EVT_UNSUB", e>>)
    /\ asks' = asks + 1
    /\ UNCHANGED <<net, server, sockOpen, running, connValid, recv, upc, asked,
                   history>>
-----------------------------------------------------------------------------
(* The receive thread. *)
RecvTest ==
    /\ rpc = "loop"
    /\ rpc' = IF running THEN "recv" ELSE "end"
    /\ UNCHANGED <<net, server, sockOpen, running, connValid, rsess, dpc, inbox,
                   ntf, msg, send, user, history>>

ReceiveData ==
    /\ rpc = "recv" /\ rsess = session /\ sockOpen /\ s2c # <<>>
    /\ inbox' = Append(inbox, Head(s2c)) /\ s2c' = Tail(s2c)
    /\ rpc' = "loop"
    /\ UNCHANGED <<session, srv, c2s, server, sockOpen, running, connValid,
                   rsess, dpc, ntf, msg, send, user, history>>

ReceiveEnd ==
    /\ rpc = "recv"
    /\ rsess # session \/ ~sockOpen \/ (srv = "gone" /\ s2c = <<>>)
    /\ rpc' = "end"
    /\ UNCHANGED <<net, server, sockOpen, running, connValid, rsess, dpc, inbox,
                   ntf, msg, send, user, history>>

RecvStop ==
    /\ rpc = "end"
    /\ running' = FALSE /\ rpc' = "reset"
    /\ UNCHANGED <<net, server, sockOpen, connValid, rsess, dpc, inbox, ntf,
                   msg, send, user, history>>

RecvKeepsValid ==
    /\ rpc = "reset"
    /\ connValid' = connValid /\ rpc' = "unblock"
    /\ UNCHANGED <<net, server, sockOpen, running, rsess, dpc, inbox, ntf,
                   msg, send, user, history>>

RecvResetValid ==
    /\ rpc = "reset"
    /\ connValid' = "wait" /\ rpc' = "unblock"
    /\ UNCHANGED <<net, server, sockOpen, running, rsess, dpc, inbox, ntf,
                   msg, send, user, history>>

notify_unblock ==
    /\ rpc = "unblock"
    /\ ntf' = TRUE /\ rpc' = "join"
    /\ UNCHANGED <<net, server, sockOpen, running, connValid, rsess, dpc, inbox,
                   msg, send, user, history>>

RecvJoin ==
    /\ rpc = "join" /\ dpc = "done"
    /\ ntf' = FALSE /\ inbox' = <<>> /\ rpc' = "over"
    /\ UNCHANGED <<net, server, sockOpen, running, connValid, rsess, dpc, msg,
                   send, user, history>>

(* The decode thread.  With the queue unblocked fetchNextMsg takes nothing.*)
DecodeTest ==
    /\ dpc = "test"
    /\ dpc' = IF running \/ inbox # <<>> THEN "fetch" ELSE "done"
    /\ UNCHANGED <<net, server, sockOpen, running, connValid, rpc, rsess, inbox,
                   ntf, msg, send, user, history>>

FetchNothing ==
    /\ dpc = "fetch" /\ ntf
    /\ dpc' = "test"
    /\ UNCHANGED <<net, server, sockOpen, running, connValid, rpc, rsess, inbox,
                   ntf, msg, send, user, history>>

(* Bytes of a text read as a length announce more than the queue can hold: *)
(* the second wait of fetchNextMsg does not end, unblocked or not.         *)
fetchNextMsg ==
    /\ dpc = "fetch" /\ ~ntf /\ inbox # <<>>
    /\ \/ /\ Head(inbox) = "misframed"
          /\ dpc' = "stuck" /\ UNCHANGED <<inbox, msg>>
       \/ /\ Head(inbox) # "misframed"
          /\ msg' = Head(inbox) /\ inbox' = Tail(inbox) /\ dpc' = "handle"
    /\ UNCHANGED <<net, server, sockOpen, running, connValid, rpc, rsess, ntf,
                   send, user, history>>

DecodeVerdict ==
    /\ dpc = "handle" /\ msg \notin Events
    /\ connValid' = msg
    /\ late' = (late \/ rpc \in {"unblock", "join"})
    /\ msg' = None /\ dpc' = "test"
    /\ UNCHANGED <<net, server, sockOpen, running, rpc, rsess, inbox, ntf, send, user,
                   verdict, ret, missed, inherited, restarted, culprit>>

(* GetEventCallback: at() throws if there is none.  The callback runs.     *)
DecodeEvent ==
    /\ dpc = "handle" /\ msg \in Events
    /\ culprit' = IF msg \in callbacks THEN None ELSE msg
    /\ msg' = None /\ dpc' = "test"
    /\ UNCHANGED <<net, server, sockOpen, running, connValid, rpc, rsess, inbox, ntf,
                   send, user, verdict, ret, late, missed, inherited, restarted>>

(* The send thread.  pop waits without a predicate. *)
SendTest ==
    /\ spc = "test"
    /\ spc' = IF running THEN "pop" ELSE "done"
    /\ UNCHANGED <<net, server, sockOpen, running, connValid, recv, outq, user,
                   history>>

SendData ==
    /\ spc \in {"pop", "woken"} /\ outq # <<>>
    /\ c2s' = IF rsess = session /\ sockOpen /\ srv \in {"asked", "up"}
              THEN Append(c2s, Head(outq)) ELSE c2s
    /\ outq' = Tail(outq) /\ spc' = "test"
    /\ UNCHANGED <<session, srv, s2c, server, sockOpen, running, connValid,
                   recv, user, history>>

SendNothing ==
    /\ spc \in {"pop", "woken"} /\ outq = <<>>
    /\ spc' = IF spc = "pop" THEN "wait" ELSE "test"
    /\ UNCHANGED <<net, server, sockOpen, running, connValid, recv, outq, user,
                   history>>

SpuriousWakeup ==
    /\ spc = "wait" /\ spc' = "woken"
    /\ UNCHANGED <<net, server, sockOpen, running, connValid, recv, outq, user,
                   history>>
-----------------------------------------------------------------------------
(* The server: IssueValidity after the client's credentials have come.     *)
IssueValidity(v) ==
    /\ srv = "asked"
    /\ srv' = IF v = "valid" THEN "up" ELSE "refused"
    /\ s2c' = Append(s2c, v) /\ verdict' = v
    /\ UNCHANGED <<session, c2s, server, sockOpen, running, connValid, recv,
                   send, user, ret, late, missed, inherited, restarted, culprit>>

(* SetEvent, UnsetEvent. *)
HandleRequest ==
    /\ srv = "up" /\ c2s # <<>>
    /\ subs' = IF Head(c2s)[1] = "EVT_SUB" THEN subs \cup {Head(c2s)[2]}
                                          ELSE subs \ {Head(c2s)[2]}
    /\ c2s' = Tail(c2s)
    /\ UNCHANGED <<session, srv, s2c, sout, emits, sockOpen, running, connValid,
                   recv, send, user, history>>

EmitEventUnchecked(e) ==
    /\ emits < MaxEmits
    /\ sout' = Append(sout, e) /\ emits' = emits + 1
    /\ UNCHANGED <<net, subs, sockOpen, running, connValid, recv, send, user,
                   history>>

(* By any thread of the server, with or without a client. *)
EmitEvent(e) ==
    /\ e \in subs /\ emits < MaxEmits
    /\ sout' = Append(sout, e) /\ emits' = emits + 1
    /\ UNCHANGED <<net, subs, sockOpen, running, connValid, recv, send, user,
                   history>>

ServerSend ==
    /\ srv = "up" /\ sout # <<>>
    /\ s2c' = Append(s2c, Head(sout)) /\ sout' = Tail(sout)
    /\ UNCHANGED <<session, srv, c2s, subs, emits, sockOpen, running, connValid,
                   recv, send, user, history>>

(* The server's side ends: it refused the client a second ago, it saw the  *)
(* client's socket close, or its operator stopped the session.             *)
ServerCloses ==
    /\ srv \in {"up", "refused"}
    /\ srv' = "gone" /\ c2s' = <<>>
    /\ UNCHANGED <<session, s2c, server, sockOpen, running, connValid, recv,
                   send, user, history>>

ConnectionLost ==
    /\ srv \notin {"none", "gone"}
    /\ srv' = "gone" /\ s2c' = <<>> /\ c2s' = <<>>
    /\ UNCHANGED <<session, server, sockOpen, running, connValid, recv, send,
                   user, history>>

(* The client process ends, in any state, and another is started. *)
ClientRestart ==
    /\ ~restarted /\ restarted' = TRUE
    /\ sockOpen' = FALSE /\ running' = FALSE /\ connValid' = "wait"
    /\ rpc' = "off" /\ rsess' = 0 /\ dpc' = "off" /\ inbox' = <<>> /\ ntf' = FALSE
    /\ msg' = None /\ spc' = "off" /\ outq' = <<>> /\ callbacks' = {} /\ upc' = "idle"
    /\ culprit' = None /\ ret' = None /\ late' = FALSE /\ missed' = FALSE
    /\ asked' = {} /\ removed' = {}
    /\ inherited' = asked
    /\ UNCHANGED <<net, server, asks, verdict>>
-----------------------------------------------------------------------------
UserCall ==
    \/ Authenticate \/ Spin \/ Check \/ JoinReceive \/ StopSend \/ JoinSend
UserThread ==
    \/ Connect \/ StartThread \/ StopThread \/ UserCall
    \/ \E e \in Events : Subscribe(e) \/ Unsubscribe(e)
RecvThread ==
    \/ RecvTest \/ ReceiveData \/ ReceiveEnd \/ RecvStop \/ RecvResetValid
    \/ notify_unblock \/ RecvJoin
DecodeThread ==
    DecodeTest \/ FetchNothing \/ fetchNextMsg \/ DecodeVerdict \/ DecodeEvent
SendThread == SendTest \/ SendData \/ SendNothing
Verdict == \E v \in {"valid", "invalid"} : IssueValidity(v)

Running == culprit = None
Next ==
    \/ Running /\ (UserThread \/ RecvThread \/ DecodeThread)
    \/ Running /\ (SendThread \/ SpuriousWakeup)
    \/ Verdict \/ HandleRequest \/ \E e \in Events : EmitEvent(e)
    \/ ServerSend \/ ServerCloses \/ ConnectionLost \/ ClientRestart

(* Threads are scheduled, and the server gives its verdict unless the      *)
(* connection ends; no call, event, end of a connection or wake-up is      *)
(* owed to anybody.                                                        *)
Fairness ==
    /\ WF_vars(Running /\ UserCall) /\ WF_vars(Running /\ RecvThread)
    /\ WF_vars(Running /\ DecodeThread) /\ WF_vars(Running /\ SendThread)
    /\ WF_vars(Verdict)

Spec == Init /\ [][Next]_vars /\ Fairness
-----------------------------------------------------------------------------
Verdicts == {"valid", "invalid"}
Messages == Events \cup Verdicts \cup {"misframed"}
Requests == {"EVT_SUB", "EVT_UNSUB"} \X Events

(* Type invariant.  Also what the pointers say between two calls: there is *)
(* a send thread exactly if there is a receive thread, so that StartThread *)
(* never finds one without the other.                                      *)
TypeOK ==
    /\ session \in 0..MaxSessions /\ rsess \in 0..session
    /\ srv \in {"none", "auth", "asked", "up", "refused", "gone"}
    /\ s2c \in Seq(Messages) /\ inbox \in Seq(Messages)
    /\ msg \in Events \cup Verdicts \cup {None} /\ (msg # None <=> dpc = "handle")
    /\ sout \in Seq(Events) /\ c2s \in Seq(Requests) /\ outq \in Seq(Requests)
    /\ subs \subseteq Events /\ callbacks \subseteq Events
    /\ asked \subseteq Events /\ inherited \subseteq Events /\ removed \subseteq Events
    /\ emits \in 0..MaxEmits /\ asks \in 0..MaxAsks
    /\ sockOpen \in BOOLEAN /\ running \in BOOLEAN /\ ntf \in BOOLEAN
    /\ restarted \in BOOLEAN /\ late \in BOOLEAN /\ missed \in BOOLEAN
    /\ connValid \in Verdicts \cup {"wait"}
    /\ verdict \in Verdicts \cup {None} /\ ret \in Verdicts \cup {"wait", None}
    /\ rpc \in {"off", "loop", "recv", "end", "reset", "unblock", "join", "over"}
    /\ dpc \in {"off", "test", "fetch", "stuck", "handle", "done"}
    /\ spc \in {"off", "test", "pop", "wait", "woken", "done"}
    /\ upc \in {"idle", "auth", "spin", "check", "refused", "stop", "stopSend",
                "joinSend"}
    /\ culprit \in Events \cup {None}
    /\ upc = "idle" => (rpc = "off" <=> spc = "off")

(* What StartThread returns is the server's verdict on this connection,    *)
(* not on one before, unless the verdict of an earlier one was stored      *)
(* after its receive thread had put conn_valid back, or the connection     *)
(* ended between the two loads.                                            *)
VerdictHonoured == ret \in Verdicts /\ ~late => ret = verdict

(* The decode thread finds no callback, and the process ends, only for an  *)
(* event that was unsubscribed from or that a process before this one had  *)
(* subscribed to: never for one this process subscribed to and kept.       *)
CallbackFound == culprit # None => culprit \in removed \cup inherited

=============================================================================
