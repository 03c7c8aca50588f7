------------------------ MODULE ClientSession_proofs ------------------------
(***************************************************************************)
(* For any events, sessions, requests and emissions, and wherever a        *)
(* connection or the client process ends: what StartThread decides by is   *)
(* the verdict on this connection, and no event this process subscribed to *)
(* and kept comes without a callback.                                      *)
(***************************************************************************)
EXTENDS ClientSession, SequenceTheorems, TLAPS

(* Which threads there are while the user is in which call.                *)
ThreadInv ==
    /\ upc \in {"idle", "auth"} => (rpc = "off" <=> spc = "off")
    /\ upc \in {"spin", "check", "refused"} => spc = "off" /\ rpc # "off"
    /\ upc = "stop" => spc # "off" /\ rpc # "off"
    /\ upc \in {"stopSend", "joinSend"} => spc # "off" /\ rpc = "off"
    /\ rpc \in {"over", "off"} => dpc \in {"done", "off"}

(* Where the id of an event can be: subscribed to, queued, on the wire or  *)
(* in the inbox it is one that this process or the one before asked for.   *)
Known == asked \cup inherited
Others == Verdicts \cup {"misframed"}
SoundRequests == ({"EVT_SUB"} \X Known) \cup ({"EVT_UNSUB"} \X Events)
EventInv ==
    /\ ~restarted => inherited = {}
    /\ asked \ removed \subseteq callbacks
    /\ subs \subseteq Known /\ sout \in Seq(Known)
    /\ s2c \in Seq(Known \cup Others) /\ inbox \in Seq(Known \cup Others)
    /\ msg \in Known \cup Verdicts \cup {None}
    /\ c2s \in Seq(SoundRequests) /\ outq \in Seq(SoundRequests)

(* The server's verdict on this connection, once it is given, is the only  *)
(* one on the wire and the only one the threads of this connection hand    *)
(* on; between two receive threads there is none at all.                   *)
Told == {"misframed"} \cup {v \in Verdicts : v = verdict}
VerdictInv ==
    /\ verdict # None => srv \in {"up", "refused", "gone"}
    /\ s2c \in Seq(Events \cup Told)
    /\ rsess = session => /\ inbox \in Seq(Events \cup Told)
                          /\ msg \in Events \cup Told \cup {None}
    /\ rpc \in {"over", "off"} => inbox = <<>>
    /\ upc \in {"spin", "check"} => rsess = session
    /\ ~late /\ connValid # "wait" =>
         /\ rpc \in {"loop", "recv", "end", "reset"}
         /\ rsess = session => connValid = verdict

IInv == TypeOK /\ ThreadInv /\ EventInv /\ CallbackFound /\ VerdictInv /\ VerdictHonoured
-----------------------------------------------------------------------------
(* A queue of members of S is one of members of every larger set.          *)
LEMMA SeqOfMore ==
    ASSUME NEW S, NEW T, S \subseteq T, NEW q \in Seq(S)
    PROVE  q \in Seq(T)
<1>1. Len(q) \in Nat /\ q \in [1..Len(q) -> S]
    BY LenProperties
<1>2. q \in [1..Len(q) -> T]
    BY <1>1
<1> QED BY <1>1, <1>2, IsASeq

(* What a queue gives and keeps when its head is taken.                    *)
LEMMA Popped ==
    ASSUME NEW S, NEW q \in Seq(S), q # <<>>
    PROVE  Head(q) \in S /\ Tail(q) \in Seq(S)
    BY HeadTailProperties

(* What a queue holds after a push.                                        *)
LEMMA Pushed ==
    ASSUME NEW S, NEW q \in Seq(S), NEW e \in S
    PROVE  Append(q, e) \in Seq(S)
    BY AppendProperties

UserSteps ==
    \/ Connect \/ StartThread \/ StopThread \/ Authenticate \/ Spin \/ Check
    \/ JoinReceive \/ StopSend \/ JoinSend
    \/ \E e \in Events : Subscribe(e) \/ Unsubscribe(e)
ServerSteps ==
    \/ \E v \in Verdicts : IssueValidity(v)
    \/ HandleRequest \/ \E e \in Events : EmitEvent(e)
    \/ ServerSend \/ ServerCloses \/ ConnectionLost

(* A step is a step of one thread, of the server, or the end of the        *)
(* process.                                                                *)
LEMMA Steps ==
    ASSUME [Next]_vars
    PROVE  \/ UNCHANGED vars
           \/ Running /\ UserSteps
           \/ Running /\ (RecvThread \/ DecodeThread)
           \/ Running /\ (SendThread \/ SpuriousWakeup)
           \/ ServerSteps
           \/ ClientRestart
    BY DEF Next, UserThread, UserCall, UserSteps, ServerSteps, Verdict, Verdicts

(* The types and the pointers are kept by the calls of the user.           *)
LEMMA TypeUser ==
    ASSUME TypeOK, ThreadInv, UserSteps
    PROVE  TypeOK' /\ ThreadInv'
<1> USE ClientAssumption DEF TypeOK, ThreadInv, net, server, recv, send, user, history
<1>1. CASE Connect
  <2>1. s2c' \in Seq(Messages)
    <3>1. <<>> \in Seq(Messages) /\ <<"misframed">> \in Seq(Messages)
        BY DEF Messages
    <3> QED BY <1>1, <3>1 DEF Connect, Challenged, TurnedAway
  <2> QED BY <1>1, <2>1 DEF Connect, Challenged, TurnedAway
<1>2. CASE StartThread
  <2>1. CASE rpc = "off"
      BY <1>2, <2>1 DEF StartThread
  <2>2. CASE rpc # "off"
    <3>1. UNCHANGED <<running, rpc, dpc, rsess>>
        BY <1>2, <2>2 DEF StartThread
    <3> QED BY <1>2, <2>2, <3>1 DEF StartThread
  <2> QED BY <2>1, <2>2
<1>3. CASE StopThread
  <2>1. /\ sockOpen' \in BOOLEAN /\ running' \in BOOLEAN /\ upc = "idle" /\ upc' = "stop"
        /\ rpc # "off" /\ UNCHANGED <<net, server, connValid, recv, send, asks, callbacks,
                                      asked, removed, history>>
      BY <1>3, Zenon DEF StopThread
  <2> QED BY <2>1
<1>4. CASE Authenticate
    BY <1>4 DEF Authenticate
<1>5. CASE Spin
    BY <1>5 DEF Spin
<1>6. CASE Check
  <2>1. CASE connValid = "invalid"
    <3>1. /\ upc' = "refused" /\ UNCHANGED spc
          /\ running' \in BOOLEAN /\ sockOpen' \in BOOLEAN
        BY <1>6, <2>1 DEF Check
    <3> QED BY <1>6, <3>1 DEF Check
  <2>2. CASE connValid # "invalid"
    <3>1. spc' = "test" /\ upc' = "idle" /\ UNCHANGED <<sockOpen, running>>
        BY <1>6, <2>2 DEF Check
    <3> QED BY <1>6, <2>2, <3>1 DEF Check
  <2> QED BY <2>1, <2>2
<1>7. CASE JoinReceive
    BY <1>7 DEF JoinReceive
<1>8. CASE StopSend
    BY <1>8 DEF StopSend
<1>9. CASE JoinSend
    BY <1>9 DEF JoinSend
<1>10. ASSUME NEW e \in Events, Subscribe(e) \/ Unsubscribe(e)
      PROVE  TypeOK' /\ ThreadInv'
  <2>1. /\ <<"EVT_SUB", e>> \in Requests /\ <<"EVT_UNSUB", e>> \in Requests
        /\ outq \in Seq(Requests)
      BY DEF Requests
  <2>2. PICK m \in Requests : Schedule(m)
      BY <1>10, <2>1 DEF Subscribe, Unsubscribe
  <2>3. outq' \in Seq(Requests)
      BY <2>1, <2>2, Pushed, Zenon DEF Schedule
  <2>4. spc' \in {"off", "test", "pop", "wait", "woken", "done"} /\ (spc' = "off" <=> spc = "off")
      BY <2>2 DEF Schedule
  <2>5. CASE Subscribe(e)
      BY <2>3, <2>4, <2>5 DEF Subscribe
  <2>6. CASE Unsubscribe(e)
      BY <2>3, <2>4, <2>6 DEF Unsubscribe
  <2> QED BY <1>10, <2>5, <2>6
<1> QED BY <1>1, <1>2, <1>3, <1>4, <1>5, <1>6, <1>7, <1>8, <1>9, <1>10 DEF UserSteps

(* They are kept by the receive and the decode thread.                     *)
LEMMA TypeRecv ==
    ASSUME TypeOK, ThreadInv, RecvThread \/ DecodeThread
    PROVE  TypeOK' /\ ThreadInv'
<1> USE ClientAssumption DEF TypeOK, ThreadInv, net, server, send, user, history
<1>1. CASE RecvTest
    BY <1>1 DEF RecvTest
<1>2. CASE ReceiveData
  <2>1. /\ Head(s2c) \in Messages /\ s2c' \in Seq(Messages)
        /\ inbox' = Append(inbox, Head(s2c))
      BY <1>2, Popped, Zenon DEF ReceiveData
  <2>2. inbox' \in Seq(Messages)
      BY <2>1, Pushed, Zenon
  <2> QED BY <1>2, <2>1, <2>2 DEF ReceiveData
<1>3. CASE ReceiveEnd
    BY <1>3 DEF ReceiveEnd
<1>4. CASE RecvStop
  <2>1. running' \in BOOLEAN
      BY <1>4, Zenon DEF RecvStop
  <2> QED BY <1>4, <2>1 DEF RecvStop
<1>5. CASE RecvResetValid
    BY <1>5 DEF RecvResetValid
<1>6. CASE notify_unblock
    BY <1>6 DEF notify_unblock
<1>7. CASE RecvJoin
  <2>1. ntf' \in BOOLEAN /\ inbox' \in Seq(Messages)
      BY <1>7, EmptySeq, Zenon DEF RecvJoin
  <2> QED BY <1>7, <2>1 DEF RecvJoin
<1>8. CASE DecodeTest
    BY <1>8 DEF DecodeTest
<1>9. CASE FetchNothing
    BY <1>9 DEF FetchNothing
<1>10. CASE fetchNextMsg
  <2>1. Head(inbox) \in Messages /\ Tail(inbox) \in Seq(Messages)
      BY <1>10, Popped, Zenon DEF fetchNextMsg
  <2>2. CASE Head(inbox) = "misframed"
    <3>1. dpc' = "stuck" /\ UNCHANGED <<inbox, msg>>
        BY <1>10, <2>2 DEF fetchNextMsg
    <3> QED BY <1>10, <3>1 DEF fetchNextMsg
  <2>3. CASE Head(inbox) # "misframed"
    <3>1. /\ msg' \in Events \cup Verdicts /\ dpc' = "handle"
          /\ inbox' \in Seq(Messages)
        BY <1>10, <2>1, <2>3 DEF fetchNextMsg, Messages
    <3>2. msg' # None
        BY <3>1 DEF Verdicts
    <3> QED BY <1>10, <3>1, <3>2 DEF fetchNextMsg
  <2> QED BY <2>2, <2>3
<1>11. CASE DecodeVerdict
  <2>1. msg \in Verdicts /\ late' \in BOOLEAN
      BY <1>11, Zenon DEF DecodeVerdict
  <2> QED BY <1>11, <2>1 DEF DecodeVerdict
<1>12. CASE DecodeEvent
    BY <1>12 DEF DecodeEvent
<1> QED
    BY <1>1, <1>2, <1>3, <1>4, <1>5, <1>6, <1>7, <1>8, <1>9, <1>10, <1>11, <1>12
    DEF RecvThread, DecodeThread

(* They are kept by the send thread.                                       *)
LEMMA TypeSend ==
    ASSUME TypeOK, ThreadInv, SendThread \/ SpuriousWakeup
    PROVE  TypeOK' /\ ThreadInv'
<1> USE ClientAssumption DEF TypeOK, ThreadInv, net, server, recv, user, history
<1>1. CASE SendTest
    BY <1>1 DEF SendTest
<1>2. CASE SendData
  <2>1. Head(outq) \in Requests /\ outq' \in Seq(Requests)
      BY <1>2, Popped, Zenon DEF SendData
  <2>2. c2s' \in Seq(Requests)
    <3>1. c2s' = Append(c2s, Head(outq)) \/ c2s' = c2s
        BY <1>2 DEF SendData
    <3>2. c2s \in Seq(Requests)
        OBVIOUS
    <3>3. Append(c2s, Head(outq)) \in Seq(Requests)
        BY <2>1, <3>2, Pushed, Zenon
    <3> QED BY <3>1, <3>2, <3>3
  <2> QED BY <1>2, <2>1, <2>2 DEF SendData
<1>3. CASE SendNothing
    BY <1>3 DEF SendNothing
<1>4. CASE SpuriousWakeup
    BY <1>4 DEF SpuriousWakeup
<1> QED BY <1>1, <1>2, <1>3, <1>4 DEF SendThread

(* They are kept by the server and by the end of the process.              *)
LEMMA TypeServer ==
    ASSUME TypeOK, ThreadInv, ServerSteps \/ ClientRestart
    PROVE  TypeOK' /\ ThreadInv'
<1> USE ClientAssumption DEF TypeOK, ThreadInv, net, server, recv, send, user, history
<1>1. ASSUME NEW v \in Verdicts, IssueValidity(v)
      PROVE  TypeOK' /\ ThreadInv'
  <2>1. v \in Messages
      BY DEF Messages
  <2>2. s2c' \in Seq(Messages)
      BY <1>1, <2>1, Pushed, Zenon DEF IssueValidity
  <2> QED BY <1>1, <2>2 DEF IssueValidity
<1>2. CASE HandleRequest
  <2>1. Head(c2s) \in Requests /\ c2s' \in Seq(Requests)
      BY <1>2, Popped, Zenon DEF HandleRequest
  <2>2. subs' \subseteq Events
      BY <1>2, <2>1 DEF HandleRequest, Requests
  <2> QED BY <1>2, <2>1, <2>2 DEF HandleRequest
<1>3. ASSUME NEW e \in Events, EmitEvent(e)
      PROVE  TypeOK' /\ ThreadInv'
  <2>1. sout' \in Seq(Events)
      BY <1>3, Pushed, Zenon DEF EmitEvent
  <2> QED BY <1>3, <2>1 DEF EmitEvent
<1>4. CASE ServerSend
  <2>1. Head(sout) \in Messages /\ sout' \in Seq(Events)
      BY <1>4, Popped DEF ServerSend, Messages
  <2>2. s2c' \in Seq(Messages)
      BY <1>4, <2>1, Pushed, Zenon DEF ServerSend
  <2> QED BY <1>4, <2>1, <2>2 DEF ServerSend
<1>5. CASE ServerCloses
    BY <1>5, EmptySeq DEF ServerCloses
<1>6. CASE ConnectionLost
    BY <1>6, EmptySeq DEF ConnectionLost
<1>7. CASE ClientRestart
  <2>1. /\ {sockOpen', running', restarted', ntf', late', missed'} \subseteq BOOLEAN
        /\ inbox' \in Seq(Messages) /\ outq' \in Seq(Requests)
      BY <1>7, EmptySeq, Zenon DEF ClientRestart
  <2>2. /\ sockOpen' \in BOOLEAN /\ running' \in BOOLEAN /\ restarted' \in BOOLEAN
        /\ ntf' \in BOOLEAN /\ late' \in BOOLEAN /\ missed' \in BOOLEAN
      BY <2>1
  <2> QED BY <1>7, <2>1, <2>2 DEF ClientRestart
<1> QED BY <1>1, <1>2, <1>3, <1>4, <1>5, <1>6, <1>7 DEF ServerSteps
-----------------------------------------------------------------------------
EventVars == <<restarted, inherited, asked, removed, callbacks, subs, sout, s2c, inbox,
               msg, c2s, outq, culprit>>

(* Steps that move no event, request or subscription.                      *)
LEMMA EventIdle ==
    ASSUME EventInv, CallbackFound, UNCHANGED EventVars
    PROVE  EventInv' /\ CallbackFound'
    BY DEF EventInv, CallbackFound, EventVars, Known, SoundRequests

(* An id stays one that was asked for, and only the user's calls touch the *)
(* callbacks.                                                              *)
LEMMA EventUser ==
    ASSUME TypeOK, EventInv, CallbackFound, Running, UserSteps
    PROVE  EventInv' /\ CallbackFound'
<1> USE DEF net, server, recv, send, user, history
<1>1. CASE Connect
  <2>1. s2c' \in Seq(Known \cup Others) /\ c2s' \in Seq(SoundRequests)
    <3>1. <<>> \in Seq(Known \cup Others) /\ <<"misframed">> \in Seq(Known \cup Others)
        BY DEF Others
    <3>2. s2c' = <<>> \/ s2c' = <<"misframed">>
        BY <1>1 DEF Connect, Challenged, TurnedAway
    <3>3. c2s' \in Seq(SoundRequests)
        BY <1>1, EmptySeq, Zenon DEF Connect, Challenged, TurnedAway
    <3> QED BY <3>1, <3>2, <3>3
  <2>2. UNCHANGED <<restarted, inherited, asked, removed, callbacks, subs, sout, inbox,
                    msg, outq, culprit>>
      BY <1>1 DEF Connect, Challenged, TurnedAway
  <2> QED BY <2>1, <2>2 DEF EventInv, CallbackFound, Known, SoundRequests
<1>2. CASE \/ StartThread \/ StopThread \/ Authenticate \/ Spin \/ Check
           \/ JoinReceive \/ StopSend \/ JoinSend
  <2>1. UNCHANGED EventVars
      BY <1>2 DEF EventVars, StartThread, StopThread, Authenticate, Spin, Check,
                  JoinReceive, StopSend, JoinSend
  <2> QED BY <2>1, EventIdle
<1>3. ASSUME NEW e \in Events, Subscribe(e) \/ Unsubscribe(e)
      PROVE  EventInv' /\ CallbackFound'
  <2>1. /\ Known \subseteq Known' /\ SoundRequests \subseteq SoundRequests'
        /\ asked' \ removed' \subseteq callbacks'
      BY <1>3 DEF Subscribe, Unsubscribe, Known, SoundRequests, EventInv
  <2>2. PICK m \in SoundRequests' : outq' = Append(outq, m)
      BY <1>3 DEF Subscribe, Unsubscribe, Schedule, Known, SoundRequests
  <2>3. outq \in Seq(SoundRequests') /\ c2s \in Seq(SoundRequests')
      BY <2>1, SeqOfMore, Zenon DEF EventInv
  <2>4. outq' \in Seq(SoundRequests')
      BY <2>2, <2>3, Pushed, Zenon
  <2>5. UNCHANGED <<restarted, inherited, subs, sout, s2c, inbox, msg, c2s, culprit>>
      BY <1>3 DEF Subscribe, Unsubscribe
  <2>6. Known \cup Others \subseteq Known' \cup Others
      BY <2>1
  <2>7. /\ sout \in Seq(Known') /\ s2c \in Seq(Known' \cup Others)
        /\ inbox \in Seq(Known' \cup Others)
      BY <2>1, <2>6, SeqOfMore, Zenon DEF EventInv
  <2>8. CallbackFound'
      BY <2>5 DEF Running, CallbackFound
  <2>9. /\ subs \subseteq Known' /\ (~restarted => inherited = {})
        /\ msg \in Known' \cup Verdicts \cup {None}
      BY <2>1 DEF EventInv
  <2> QED BY <2>1, <2>3, <2>4, <2>5, <2>7, <2>8, <2>9 DEF EventInv, Others, Verdicts
<1> QED BY <1>1, <1>2, <1>3 DEF UserSteps

(* An event without a callback in the inbox was given up, or asked for by  *)
(* the process before.                                                     *)
LEMMA EventRecv ==
    ASSUME TypeOK, EventInv, CallbackFound, RecvThread \/ DecodeThread
    PROVE  EventInv' /\ CallbackFound'
<1> USE DEF net, server, recv, send, user, history
<1>1. CASE \/ RecvTest \/ ReceiveEnd \/ RecvStop \/ RecvResetValid \/ notify_unblock
           \/ DecodeTest \/ FetchNothing
  <2>1. UNCHANGED EventVars
      BY <1>1 DEF EventVars, RecvTest, ReceiveEnd, RecvStop, RecvResetValid,
                  notify_unblock, DecodeTest, FetchNothing
  <2> QED BY <2>1, EventIdle
<1>2. CASE ReceiveData
  <2>1. /\ Head(s2c) \in Known \cup Others /\ s2c' \in Seq(Known \cup Others)
        /\ inbox' = Append(inbox, Head(s2c)) /\ inbox \in Seq(Known \cup Others)
      BY <1>2, Popped, Zenon DEF ReceiveData, EventInv
  <2>2. inbox' \in Seq(Known \cup Others)
      BY <2>1, Pushed, Zenon
  <2>3. UNCHANGED <<restarted, inherited, asked, removed, callbacks, subs, sout, msg, c2s,
                    outq, culprit>>
      BY <1>2 DEF ReceiveData
  <2> QED BY <2>1, <2>2, <2>3 DEF EventInv, CallbackFound, Known, SoundRequests
<1>3. CASE RecvJoin
  <2>1. inbox' \in Seq(Known \cup Others)
      BY <1>3, EmptySeq, Zenon DEF RecvJoin
  <2>2. UNCHANGED <<restarted, inherited, asked, removed, callbacks, subs, sout, s2c, msg,
                    c2s, outq, culprit>>
      BY <1>3 DEF RecvJoin
  <2> QED BY <2>1, <2>2 DEF EventInv, CallbackFound, Known, SoundRequests
<1>4. CASE fetchNextMsg
  <2>1. Head(inbox) \in Known \cup Others /\ Tail(inbox) \in Seq(Known \cup Others)
    <3>1. inbox # <<>> /\ inbox \in Seq(Known \cup Others)
        BY <1>4 DEF fetchNextMsg, EventInv
    <3> QED BY <3>1, Popped, Zenon
  <2>2. UNCHANGED <<restarted, inherited, asked, removed, callbacks, subs, sout, s2c, c2s,
                    outq, culprit>>
      BY <1>4 DEF fetchNextMsg
  <2>3. /\ inbox' \in Seq(Known \cup Others)
        /\ msg' \in Known \cup Verdicts \cup {None}
    <3>1. CASE Head(inbox) = "misframed"
        BY <1>4, <3>1 DEF fetchNextMsg, EventInv
    <3>2. CASE Head(inbox) # "misframed"
        BY <1>4, <2>1, <3>2 DEF fetchNextMsg, Others
    <3> QED BY <3>1, <3>2
  <2> QED BY <2>2, <2>3 DEF EventInv, CallbackFound, Known, SoundRequests
<1>5. CASE DecodeVerdict \/ DecodeEvent
  <2>1. /\ msg' = None
        /\ UNCHANGED <<restarted, inherited, asked, removed, callbacks, subs, sout, s2c,
                       inbox, c2s, outq>>
      BY <1>5 DEF DecodeVerdict, DecodeEvent
  <2>2. EventInv'
      BY <2>1 DEF EventInv, Known, SoundRequests
  <2>3. CASE DecodeVerdict
      BY <2>1, <2>2, <2>3 DEF DecodeVerdict, CallbackFound
  <2>4. CASE DecodeEvent
    <3>1. msg \in Known
        BY <2>4, ClientAssumption DEF DecodeEvent, EventInv, Verdicts
    <3>2. msg \notin callbacks => msg \in removed \cup inherited
        BY <3>1 DEF Known, EventInv
    <3> QED BY <2>1, <2>2, <2>4, <3>2 DEF DecodeEvent, CallbackFound
  <2> QED BY <1>5, <2>3, <2>4
<1> QED BY <1>1, <1>2, <1>3, <1>4, <1>5 DEF RecvThread, DecodeThread

(* The send thread passes on the requests it was given.                    *)
LEMMA EventSend ==
    ASSUME TypeOK, EventInv, CallbackFound, SendThread \/ SpuriousWakeup
    PROVE  EventInv' /\ CallbackFound'
<1> USE DEF net, server, recv, send, user, history
<1>1. CASE SendTest \/ SendNothing \/ SpuriousWakeup
  <2>1. UNCHANGED EventVars
      BY <1>1 DEF EventVars, SendTest, SendNothing, SpuriousWakeup
  <2> QED BY <2>1, EventIdle
<1>2. CASE SendData
  <2>1. Head(outq) \in SoundRequests /\ outq' \in Seq(SoundRequests)
      BY <1>2, Popped, Zenon DEF SendData, EventInv
  <2>2. c2s \in Seq(SoundRequests)
      BY DEF EventInv
  <2>3. Append(c2s, Head(outq)) \in Seq(SoundRequests)
      BY <2>1, <2>2, Pushed, Zenon
  <2>4. c2s' \in Seq(SoundRequests)
      BY <1>2, <2>2, <2>3 DEF SendData
  <2>5. UNCHANGED <<restarted, inherited, asked, removed, callbacks, subs, sout, s2c, inbox,
                    msg, culprit>>
      BY <1>2 DEF SendData
  <2> QED BY <2>1, <2>4, <2>5 DEF EventInv, CallbackFound, Known, SoundRequests
<1> QED BY <1>1, <1>2 DEF SendThread

(* The server subscribes to what was asked for and emits what is           *)
(* subscribed to.                                                          *)
LEMMA EventServer ==
    ASSUME TypeOK, EventInv, CallbackFound, ServerSteps
    PROVE  EventInv' /\ CallbackFound'
<1> USE DEF net, server, recv, send, user, history
<1> DEFINE Rest == <<restarted, inherited, asked, removed, callbacks, inbox, msg, outq, culprit>>
<1>1. ASSUME NEW v \in Verdicts, IssueValidity(v)
      PROVE  EventInv' /\ CallbackFound'
  <2>1. v \in Known \cup Others
      BY DEF Others
  <2>2. s2c' \in Seq(Known \cup Others)
      BY <1>1, <2>1, Pushed, Zenon DEF IssueValidity, EventInv
  <2>3. UNCHANGED <<Rest, subs, sout, c2s>>
      BY <1>1 DEF IssueValidity
  <2> QED BY <2>2, <2>3 DEF EventInv, CallbackFound, Known, SoundRequests
<1>2. CASE HandleRequest
  <2>1. Head(c2s) \in SoundRequests /\ c2s' \in Seq(SoundRequests)
      BY <1>2, Popped, Zenon DEF HandleRequest, EventInv
  <2>2. subs' \subseteq Known
      BY <1>2, <2>1 DEF HandleRequest, EventInv, SoundRequests
  <2>3. UNCHANGED <<Rest, sout, s2c>>
      BY <1>2 DEF HandleRequest
  <2> QED BY <2>1, <2>2, <2>3 DEF EventInv, CallbackFound, Known, SoundRequests
<1>3. ASSUME NEW e \in Events, EmitEvent(e)
      PROVE  EventInv' /\ CallbackFound'
  <2>1. e \in Known
      BY <1>3 DEF EmitEvent, EventInv
  <2>2. sout' \in Seq(Known)
      BY <1>3, <2>1, Pushed, Zenon DEF EmitEvent, EventInv
  <2>3. UNCHANGED <<Rest, subs, s2c, c2s>>
      BY <1>3 DEF EmitEvent
  <2> QED BY <2>2, <2>3 DEF EventInv, CallbackFound, Known, SoundRequests
<1>4. CASE ServerSend
  <2>1. Head(sout) \in Known \cup Others /\ sout' \in Seq(Known)
      BY <1>4, Popped, Zenon DEF ServerSend, EventInv
  <2>2. s2c' \in Seq(Known \cup Others)
      BY <1>4, <2>1, Pushed, Zenon DEF ServerSend, EventInv
  <2>3. UNCHANGED <<Rest, subs, c2s>>
      BY <1>4 DEF ServerSend
  <2> QED BY <2>1, <2>2, <2>3 DEF EventInv, CallbackFound, Known, SoundRequests
<1>5. CASE ServerCloses
  <2>1. c2s' \in Seq(SoundRequests)
      BY <1>5, EmptySeq, Zenon DEF ServerCloses
  <2>2. UNCHANGED <<Rest, subs, sout, s2c>>
      BY <1>5 DEF ServerCloses
  <2> QED BY <2>1, <2>2 DEF EventInv, CallbackFound, Known, SoundRequests
<1>6. CASE ConnectionLost
  <2>1. c2s' \in Seq(SoundRequests) /\ s2c' \in Seq(Known \cup Others)
      BY <1>6, EmptySeq, Zenon DEF ConnectionLost
  <2>2. UNCHANGED <<Rest, subs, sout>>
      BY <1>6 DEF ConnectionLost
  <2> QED BY <2>1, <2>2 DEF EventInv, CallbackFound, Known, SoundRequests
<1> QED BY <1>1, <1>2, <1>3, <1>4, <1>5, <1>6 DEF ServerSteps

(* What the ended process had asked for is what the next one inherits.     *)
LEMMA EventRestart ==
    ASSUME TypeOK, EventInv, ClientRestart
    PROVE  EventInv' /\ CallbackFound'
<1>1. /\ restarted' = TRUE /\ asked' = {} /\ inherited' = asked /\ inherited = {}
      /\ culprit' = None /\ inbox' = <<>> /\ outq' = <<>> /\ msg' = None
      /\ UNCHANGED <<subs, sout, s2c, c2s>>
    BY DEF ClientRestart, EventInv, net, server
<1>2. Known' = Known
    BY <1>1 DEF Known
<1>3. SoundRequests' = SoundRequests
    BY <1>2 DEF SoundRequests
<1>4. inbox' \in Seq(Known \cup Others) /\ outq' \in Seq(SoundRequests)
    BY <1>1, EmptySeq, Zenon
<1>5. CallbackFound'
    BY <1>1 DEF CallbackFound
<1> QED BY <1>1, <1>2, <1>3, <1>4, <1>5 DEF EventInv, Others, Verdicts
-----------------------------------------------------------------------------
(* The user's calls: a connection starts without a verdict, a receive      *)
(* thread with an empty inbox and, unless a verdict came late, without one *)
(* stored, and StartThread decides by what its own thread stored.          *)
LEMMA VerdictUser ==
    ASSUME TypeOK, ThreadInv, VerdictInv, VerdictHonoured, UserSteps
    PROVE  VerdictInv' /\ VerdictHonoured'
<1> USE ClientAssumption DEF TypeOK, net, server, recv, send, user, history
<1>1. CASE Connect
  <2>1. /\ verdict' = None /\ ret' = None /\ upc' = "auth"
        /\ UNCHANGED <<rsess, inbox, msg, rpc, late, connValid>>
      BY <1>1 DEF Connect, Challenged, TurnedAway
  <2>2. rsess' # session'
      BY <1>1 DEF Connect, Challenged, TurnedAway
  <2>3. s2c' \in Seq(Events \cup Told')
    <3>1. <<>> \in Seq(Events \cup Told') /\ <<"misframed">> \in Seq(Events \cup Told')
        BY DEF Told
    <3>2. s2c' = <<>> \/ s2c' = <<"misframed">>
        BY <1>1 DEF Connect, Challenged, TurnedAway
    <3> QED BY <3>1, <3>2
  <2> QED BY <2>1, <2>2, <2>3 DEF VerdictInv, VerdictHonoured, Verdicts
<1>2. CASE StartThread
  <2>1. /\ UNCHANGED <<verdict, ret, s2c, session, srv, inbox, msg, late, connValid>>
        /\ upc = "idle" /\ upc' = IF spc = "off" THEN "spin" ELSE "idle"
      BY <1>2 DEF StartThread
  <2>2. CASE rpc = "off"
    <3>1. rpc' = "loop" /\ rsess' = session /\ inbox = <<>> /\ msg = None
        BY <1>2, <2>2 DEF StartThread, ThreadInv, VerdictInv
    <3>2. inbox \in Seq(Events \cup Told)
        BY <3>1, EmptySeq, Zenon
    <3>3. ~late => connValid = "wait"
        BY <2>2 DEF VerdictInv
    <3> QED BY <2>1, <3>1, <3>2, <3>3 DEF VerdictInv, VerdictHonoured, Told
  <2>3. CASE rpc # "off"
    <3>1. UNCHANGED <<rpc, rsess>> /\ upc' = "idle"
        BY <1>2, <2>1, <2>3 DEF StartThread, ThreadInv
    <3> QED BY <2>1, <3>1 DEF VerdictInv, VerdictHonoured, Told
  <2> QED BY <2>2, <2>3
<1>3. CASE Authenticate
    BY <1>3 DEF Authenticate, VerdictInv, VerdictHonoured, Told
<1>4. CASE Spin
    BY <1>4 DEF Spin, VerdictInv, VerdictHonoured, Told
<1>5. CASE Check
  <2>1. /\ UNCHANGED <<verdict, s2c, session, srv, inbox, msg, late, connValid, rpc, rsess>>
        /\ upc = "check" /\ upc' \in {"refused", "idle"} /\ ret' = connValid
      BY <1>5 DEF Check
  <2>2. VerdictInv'
      BY <2>1 DEF VerdictInv, Told
  <2>3. rsess = session
      BY <2>1 DEF VerdictInv
  <2>4. VerdictHonoured'
      BY <2>1, <2>3 DEF VerdictInv, VerdictHonoured, Verdicts
  <2> QED BY <2>2, <2>4
<1>6. CASE JoinReceive
  <2>1. /\ UNCHANGED <<verdict, ret, s2c, session, srv, inbox, msg, late, connValid, rsess>>
        /\ rpc = "over" /\ rpc' = "off" /\ upc' \in {"stopSend", "idle"}
      BY <1>6 DEF JoinReceive
  <2> QED BY <2>1 DEF VerdictInv, VerdictHonoured, Told
<1>7. CASE StopThread \/ StopSend \/ JoinSend
  <2>1. /\ UNCHANGED <<verdict, ret, s2c, session, srv, inbox, msg, late, connValid, rpc,
                       rsess>>
        /\ upc' \in {"stop", "joinSend", "idle"}
      BY <1>7 DEF StopThread, StopSend, JoinSend
  <2> QED BY <2>1 DEF VerdictInv, VerdictHonoured, Told
<1>8. ASSUME NEW e \in Events, Subscribe(e) \/ Unsubscribe(e)
      PROVE  VerdictInv' /\ VerdictHonoured'
  <2>1. UNCHANGED <<verdict, ret, s2c, session, srv, inbox, msg, late, connValid, rpc, rsess,
                    upc>>
      BY <1>8 DEF Subscribe, Unsubscribe
  <2> QED BY <2>1 DEF VerdictInv, VerdictHonoured, Told
<1> QED BY <1>1, <1>2, <1>3, <1>4, <1>5, <1>6, <1>7, <1>8 DEF UserSteps

(* The receive and the decode thread: conn_valid is put back before the    *)
(* receive thread ends; a verdict stored between that and the join of the  *)
(* decode thread is late, and after the join none is.                      *)
LEMMA VerdictRecv ==
    ASSUME TypeOK, ThreadInv, VerdictInv, VerdictHonoured, RecvThread \/ DecodeThread
    PROVE  VerdictInv' /\ VerdictHonoured'
<1> USE ClientAssumption DEF TypeOK, net, server, send, user, history
<1>1. CASE RecvTest \/ ReceiveEnd \/ RecvStop
  <2>1. /\ UNCHANGED <<verdict, ret, s2c, session, srv, inbox, msg, late, connValid, rsess,
                       upc>>
        /\ rpc' \in {"recv", "end", "reset"}
        /\ rpc \in {"loop", "recv", "end"}
      BY <1>1 DEF RecvTest, ReceiveEnd, RecvStop
  <2> QED BY <2>1 DEF VerdictInv, VerdictHonoured, Told
<1>2. CASE ReceiveData
  <2>1. /\ UNCHANGED <<verdict, ret, session, srv, msg, late, connValid, rsess, upc>>
        /\ rpc' = "loop" /\ rpc = "recv" /\ rsess = session
      BY <1>2 DEF ReceiveData
  <2>2. /\ Head(s2c) \in Events \cup Told /\ s2c' \in Seq(Events \cup Told)
        /\ inbox' = Append(inbox, Head(s2c))
      BY <1>2, Popped, Zenon DEF ReceiveData, VerdictInv
  <2>3. inbox \in Seq(Events \cup Told)
      BY <2>1 DEF VerdictInv
  <2>4. inbox' \in Seq(Events \cup Told)
      BY <2>2, <2>3, Pushed, Zenon
  <2> QED BY <2>1, <2>2, <2>4 DEF VerdictInv, VerdictHonoured, Told
<1>3. CASE RecvResetValid
  <2>1. /\ UNCHANGED <<verdict, ret, s2c, session, srv, inbox, msg, late, rsess, upc>>
        /\ rpc' = "unblock" /\ connValid' = "wait"
      BY <1>3 DEF RecvResetValid
  <2> QED BY <2>1 DEF VerdictInv, VerdictHonoured, Told
<1>4. CASE notify_unblock
  <2>1. /\ UNCHANGED <<verdict, ret, s2c, session, srv, inbox, msg, late, connValid, rsess,
                       upc>>
        /\ rpc = "unblock" /\ rpc' = "join"
      BY <1>4 DEF notify_unblock
  <2> QED BY <2>1 DEF VerdictInv, VerdictHonoured, Told
<1>5. CASE RecvJoin
  <2>1. /\ UNCHANGED <<verdict, ret, s2c, session, srv, msg, late, connValid, rsess, upc>>
        /\ rpc = "join" /\ rpc' = "over" /\ inbox' = <<>>
      BY <1>5 DEF RecvJoin
  <2>2. inbox' \in Seq(Events \cup Told)
      BY <2>1, EmptySeq, Zenon
  <2> QED BY <2>1, <2>2 DEF VerdictInv, VerdictHonoured, Told
<1>6. CASE DecodeTest \/ FetchNothing
  <2>1. UNCHANGED <<verdict, ret, s2c, session, srv, inbox, msg, late, connValid, rpc, rsess,
                    upc>>
      BY <1>6 DEF DecodeTest, FetchNothing
  <2> QED BY <2>1 DEF VerdictInv, VerdictHonoured, Told
<1>7. CASE fetchNextMsg
  <2>1. /\ UNCHANGED <<verdict, ret, s2c, session, srv, late, connValid, rpc, rsess, upc>>
        /\ inbox # <<>> /\ rpc \notin {"over", "off"}
      BY <1>7 DEF fetchNextMsg, VerdictInv
  <2>2. rsess = session => /\ Head(inbox) \in Events \cup Told
                           /\ Tail(inbox) \in Seq(Events \cup Told)
      BY <2>1, Popped, Zenon DEF VerdictInv
  <2>3. \/ UNCHANGED <<inbox, msg>>
        \/ msg' = Head(inbox) /\ inbox' = Tail(inbox)
      BY <1>7 DEF fetchNextMsg
  <2> QED BY <2>1, <2>2, <2>3 DEF VerdictInv, VerdictHonoured, Told
<1>8. CASE DecodeVerdict
  <2>1. /\ UNCHANGED <<verdict, ret, s2c, session, srv, inbox, rpc, rsess, upc>>
        /\ msg' = None /\ connValid' = msg /\ msg \in Verdicts /\ msg \notin Events
        /\ rpc \notin {"over", "off"}
      BY <1>8 DEF DecodeVerdict, ThreadInv
  <2>2. (late' <=> late \/ rpc \in {"unblock", "join"}) /\ late' \in BOOLEAN
      BY <1>8, Zenon DEF DecodeVerdict
  <2>3. ~late' => ~late /\ rpc \in {"loop", "recv", "end", "reset"}
      BY <2>1, <2>2
  <2>4. rsess = session => connValid' = verdict
      BY <2>1 DEF VerdictInv, Told, Verdicts
  <2> QED BY <2>1, <2>2, <2>3, <2>4 DEF VerdictInv, VerdictHonoured, Told
<1>9. CASE DecodeEvent
  <2>1. /\ UNCHANGED <<verdict, ret, s2c, session, srv, inbox, late, connValid, rpc, rsess,
                       upc>>
        /\ msg' = None
      BY <1>9 DEF DecodeEvent
  <2> QED BY <2>1 DEF VerdictInv, VerdictHonoured, Told
<1> QED
    BY <1>1, <1>2, <1>3, <1>4, <1>5, <1>6, <1>7, <1>8, <1>9 DEF RecvThread, DecodeThread

(* The others: the server gives one verdict on a connection, and none on   *)
(* one that it has not accepted.                                           *)
LEMMA VerdictOthers ==
    ASSUME TypeOK, VerdictInv, VerdictHonoured,
           SendThread \/ SpuriousWakeup \/ ServerSteps \/ ClientRestart
    PROVE  VerdictInv' /\ VerdictHonoured'
<1> USE ClientAssumption DEF TypeOK, net, server, recv, send, user, history
<1> DEFINE Rest == <<verdict, ret, session, inbox, msg, late, connValid, rpc, rsess, upc>>
<1>1. CASE SendThread \/ SpuriousWakeup \/ HandleRequest \/ \E e \in Events : EmitEvent(e)
  <2>1. UNCHANGED <<Rest, s2c, srv>>
      BY <1>1 DEF SendThread, SendTest, SendData, SendNothing, SpuriousWakeup,
                  HandleRequest, EmitEvent
  <2> QED BY <2>1 DEF VerdictInv, VerdictHonoured, Told
<1>2. ASSUME NEW v \in Verdicts, IssueValidity(v)
      PROVE  VerdictInv' /\ VerdictHonoured'
  <2>1. /\ UNCHANGED <<ret, session, inbox, msg, late, connValid, rpc, rsess, upc>>
        /\ srv = "asked" /\ srv' \in {"up", "refused"}
        /\ verdict' = v /\ s2c' = Append(s2c, v)
      BY <1>2 DEF IssueValidity
  <2>2. verdict = None
      BY <2>1 DEF VerdictInv
  <2>3. Events \cup Told \subseteq Events \cup Told' /\ v \in Events \cup Told'
      BY <2>1, <2>2 DEF Told, Verdicts
  <2>4. s2c \in Seq(Events \cup Told')
      BY <2>3, SeqOfMore, Zenon DEF VerdictInv
  <2>5. s2c' \in Seq(Events \cup Told')
      BY <2>1, <2>3, <2>4, Pushed, Zenon
  <2>6. rsess = session => /\ inbox \in Seq(Events \cup Told')
                           /\ msg \in Events \cup Told' \cup {None}
      BY <2>3, SeqOfMore, Zenon DEF VerdictInv
  <2>7. ret \in Verdicts => late
      BY <2>2 DEF VerdictHonoured, Verdicts
  <2>8. rsess = session /\ ~late => connValid = "wait"
      BY <2>2 DEF VerdictInv, Verdicts
  <2> QED BY <2>1, <2>5, <2>6, <2>7, <2>8 DEF VerdictInv, VerdictHonoured
<1>3. CASE ServerSend
  <2>1. UNCHANGED <<Rest, srv>>
      BY <1>3 DEF ServerSend
  <2>2. Head(sout) \in Events \cup Told
      BY <1>3, Popped, Zenon DEF ServerSend
  <2>3. s2c' \in Seq(Events \cup Told)
      BY <1>3, <2>2, Pushed, Zenon DEF ServerSend, VerdictInv
  <2> QED BY <2>1, <2>3 DEF VerdictInv, VerdictHonoured, Told
<1>4. CASE ServerCloses \/ ConnectionLost
  <2>1. UNCHANGED Rest /\ srv' = "gone" /\ (s2c' = s2c \/ s2c' = <<>>)
      BY <1>4 DEF ServerCloses, ConnectionLost
  <2>2. <<>> \in Seq(Events \cup Told)
      BY EmptySeq, Zenon
  <2>3. s2c' \in Seq(Events \cup Told)
      BY <2>1, <2>2 DEF VerdictInv
  <2> QED BY <2>1, <2>3 DEF VerdictInv, VerdictHonoured, Told
<1>5. CASE ClientRestart
  <2>1. /\ UNCHANGED <<verdict, session, s2c, srv>>
        /\ ret' = None /\ inbox' = <<>> /\ msg' = None /\ connValid' = "wait" /\ rpc' = "off"
        /\ upc' = "idle"
      BY <1>5 DEF ClientRestart
  <2>2. <<>> \in Seq(Events \cup Told)
      BY EmptySeq, Zenon
  <2> QED BY <2>1, <2>2 DEF VerdictInv, VerdictHonoured, Told, Verdicts
<1> QED BY <1>1, <1>2, <1>3, <1>4, <1>5 DEF ServerSteps
-----------------------------------------------------------------------------
(* The invariant holds at the start.                                       *)
LEMMA InitIInv == Init => IInv
<1> SUFFICES ASSUME Init PROVE IInv
    OBVIOUS
<1>1. \A S : <<>> \in Seq(S)
    BY EmptySeq
<1>2. TypeOK
  <2>1. /\ sockOpen \in BOOLEAN /\ running \in BOOLEAN /\ ntf \in BOOLEAN
        /\ restarted \in BOOLEAN /\ late \in BOOLEAN /\ missed \in BOOLEAN
      BY Zenon DEF Init
  <2> QED BY <1>1, <2>1, ClientAssumption DEF Init, TypeOK
<1>3. ThreadInv /\ CallbackFound /\ VerdictHonoured
    BY ClientAssumption DEF Init, ThreadInv, CallbackFound, VerdictHonoured, Verdicts
<1>4. EventInv
    BY <1>1 DEF Init, EventInv, Known
<1>5. VerdictInv
    BY <1>1 DEF Init, VerdictInv
<1> QED BY <1>2, <1>3, <1>4, <1>5 DEF IInv

(* Every step keeps it.                                                    *)
LEMMA NextIInv == IInv /\ [Next]_vars => IInv'
<1> SUFFICES ASSUME IInv, [Next]_vars PROVE IInv'
    OBVIOUS
<1> USE DEF IInv
<1>1. CASE UNCHANGED vars
    BY <1>1 DEF vars, TypeOK, ThreadInv, EventInv, CallbackFound, VerdictInv,
                VerdictHonoured, Known, SoundRequests, Told
<1>2. CASE Running /\ UserSteps
    BY <1>2, TypeUser, EventUser, VerdictUser
<1>3. CASE RecvThread \/ DecodeThread
    BY <1>3, TypeRecv, EventRecv, VerdictRecv
<1>4. CASE SendThread \/ SpuriousWakeup
    BY <1>4, TypeSend, EventSend, VerdictOthers
<1>5. CASE ServerSteps
    BY <1>5, TypeServer, EventServer, VerdictOthers
<1>6. CASE ClientRestart
    BY <1>6, TypeServer, EventRestart, VerdictOthers
<1> QED BY <1>1, <1>2, <1>3, <1>4, <1>5, <1>6, Steps

(* The client and the server only reach states of the invariant.           *)
THEOREM Invariance == Spec => []IInv
    BY InitIInv, NextIInv, PTL DEF Spec

(* Every variable keeps its type, and between two calls of the user there  *)
(* is a send thread exactly if there is a receive thread.                  *)
THEOREM TypeCorrect == Spec => []TypeOK
<1>1. IInv => TypeOK
    BY DEF IInv
<1> QED BY <1>1, Invariance, PTL

(* However sessions follow and overlap, StartThread decides by the verdict *)
(* on its own connection unless one came late.                             *)
THEOREM OwnVerdict == Spec => []VerdictHonoured
<1>1. IInv => VerdictHonoured
    BY DEF IInv
<1> QED BY <1>1, Invariance, PTL

(* GetEventCallback never throws for an event that this process asked for  *)
(* and has not given up.                                                   *)
THEOREM CallbackThere == Spec => []CallbackFound
<1>1. IInv => CallbackFound
    BY DEF IInv
<1> QED BY <1>1, Invariance, PTL
=============================================================================
