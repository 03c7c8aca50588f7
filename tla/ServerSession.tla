----------------------------- MODULE ServerSession -----------------------------
(***************************************************************************)
(* The life of the one session the server offers.  The listen thread gives *)
(* every accepted client a connection thread, which runs StartThread (is   *)
(* the server free, who is this, start the receive and the send thread)    *)
(* and, if that succeeded, StopThread(WAIT).  The operator's "stop" runs   *)
(* StopThread(IMMEDIATE) from the command line at the same time.  All of   *)
(* them share the thread pointers and flags of server.cpp without a lock.  *)
(*                                                                         *)
(* Client i is the i-th one accepted.  Bytes and messages are those of     *)
(* InboundPipeline and Rpc; here a receive thread lives until its stream   *)
(* ends, and a send thread until it sees server_running cleared.           *)
(***************************************************************************)
EXTENDS Integers

CONSTANT NClients     (* clients that connect                               *)

ASSUME SessionAssumption == NClients \in Nat

Clients == 1..NClients
Nobody == 0            (* nullptr, INVALID_SOCKET, or no user              *)
Cli == 0               (* the command line, among the threads that stop    *)
Stoppers == Clients \cup {Cli}

VARIABLES
    known,      (* the clients whose credentials are right                 *)
    listening,  (* server_listening                                        *)
    pc,         (* where each connection thread and the command line is    *)
    peer,       (* whether each client still has its end open              *)
    closed,     (* whether the server has closed or shut each socket       *)
    recv,       (* the receive thread of each client                       *)
    send,       (* the send thread of each client                          *)
    recvPtr,    (* server_receive_thread: whose it is                      *)
    sendPtr,    (* server_send_thread: whose it is                         *)
    running,    (* server_running                                          *)
    sock,       (* server_client_sock                                      *)
    forced,     (* stop_forced                                             *)
    user,       (* the authenticated user of the database                  *)
    overlaps,   (* history: which operations have overlapped so far        *)
    undefined   (* a thread was joined twice or through a null pointer     *)

threadVars == <<recv, send>>
stateVars == <<running, sock>>
vars == <<known, listening, pc, peer, closed, recv, send, recvPtr, sendPtr, running,
          sock, forced, user, overlaps, undefined>>

Handshake == {"auth", "start"}
Teardown == {"joinrecv", "stopsend", "joinsend"}

Init ==
    /\ known \in SUBSET Clients
    /\ listening = TRUE
    /\ pc = [a \in Stoppers |-> "idle"]
    /\ peer = [i \in Clients |-> FALSE] /\ closed = [i \in Clients |-> FALSE]
    /\ recv = [i \in Clients |-> "none"] /\ send = [i \in Clients |-> "none"]
    /\ recvPtr = Nobody /\ sendPtr = Nobody
    /\ running = FALSE /\ sock = Nobody /\ forced = FALSE /\ user = Nobody
    /\ overlaps = {} /\ undefined = FALSE
-----------------------------------------------------------------------------
(* The listen thread and the clients.                                      *)

Accept(i) ==
    /\ listening /\ pc[i] = "idle"
    /\ \A j \in Clients : j < i => pc[j] # "idle"
    /\ pc' = [pc EXCEPT ![i] = "check"]
    /\ peer' = [peer EXCEPT ![i] = TRUE]
    /\ UNCHANGED <<known, listening, closed, threadVars, recvPtr, sendPtr, stateVars,
                   forced, user, overlaps, undefined>>

Leave(i) ==
    /\ peer[i]
    /\ peer' = [peer EXCEPT ![i] = FALSE]
    /\ UNCHANGED <<known, listening, pc, closed, threadVars, recvPtr, sendPtr, stateVars,
                   forced, user, overlaps, undefined>>
-----------------------------------------------------------------------------
(* StartThread. *)

CheckAlwaysFree(i) ==
    /\ pc[i] = "check"
    /\ pc' = [pc EXCEPT ![i] = "auth"]
    /\ UNCHANGED <<known, listening, peer, closed, threadVars, recvPtr, sendPtr,
                   stateVars, forced, user, overlaps, undefined>>

(* The test of server_receive_thread. The history notes a test that passed *)
(* while another client was in its handshake, or while the send thread of  *)
(* the session before was still there.                                     *)
Check(i) ==
    /\ pc[i] = "check"
    /\ \/ /\ recvPtr = Nobody
          /\ pc' = [pc EXCEPT ![i] = "auth"]
          /\ overlaps' = overlaps
               \cup {o \in {"handshakes"} : \E j \in Clients : pc[j] \in Handshake}
               \cup {o \in {"teardown"} : \E a \in Stoppers : pc[a] \in Teardown}
       \/ /\ recvPtr # Nobody
          /\ pc' = [pc EXCEPT ![i] = "reject"]
          /\ UNCHANGED overlaps
    /\ UNCHANGED <<known, listening, peer, closed, threadVars, recvPtr, sendPtr,
                   stateVars, forced, user, undefined>>

(* The client answers the challenge rightly or not; the receive loops have *)
(* no exit for a client that has gone.                                     *)
Authenticate(i) ==
    /\ pc[i] = "auth"
    /\ \/ /\ i \in known
          /\ user' = i
          /\ pc' = [pc EXCEPT ![i] = "start"]
          /\ UNCHANGED closed
       \/ /\ i \notin known
          /\ pc' = [pc EXCEPT ![i] = "done"]
          /\ closed' = [closed EXCEPT ![i] = TRUE]
          /\ UNCHANGED user
       \/ /\ ~peer[i]
          /\ pc' = [pc EXCEPT ![i] = "spin"]
          /\ UNCHANGED <<closed, user>>
    /\ UNCHANGED <<known, listening, peer, threadVars, recvPtr, sendPtr, stateVars,
                   forced, overlaps, undefined>>

StartReceive(i) ==
    /\ pc[i] = "start"
    /\ sock' = i /\ running' = TRUE
    /\ recv' = [recv EXCEPT ![i] = "live"] /\ recvPtr' = i
    /\ pc' = [pc EXCEPT ![i] = "send"]
    /\ UNCHANGED <<known, listening, peer, closed, send, sendPtr, forced, user, overlaps,
                   undefined>>

(* The connection thread goes on to StopThread only if StartThread made a  *)
(* send thread.                                                            *)
StartSend(i) ==
    /\ pc[i] = "send"
    /\ \/ /\ sendPtr = Nobody
          /\ send' = [send EXCEPT ![i] = "loop"] /\ sendPtr' = i
          /\ pc' = [pc EXCEPT ![i] = "wait"]
       \/ /\ sendPtr # Nobody
          /\ pc' = [pc EXCEPT ![i] = "done"]
          /\ UNCHANGED <<send, sendPtr>>
    /\ UNCHANGED <<known, listening, peer, closed, recv, recvPtr, stateVars, forced, user,
                   overlaps, undefined>>

Reject(i) ==
    /\ pc[i] = "reject"
    /\ closed' = [closed EXCEPT ![i] = TRUE]
    /\ pc' = [pc EXCEPT ![i] = "done"]
    /\ UNCHANGED <<known, listening, peer, threadVars, recvPtr, sendPtr, stateVars, forced,
                   user, overlaps, undefined>>
-----------------------------------------------------------------------------
(* The receive and the send threads. A receive thread ends when its stream *)
(* does or, after the next bytes, when the flag was cleared.               *)

ReceiveEnd(i) ==
    /\ recv[i] = "live"
    /\ ~peer[i] \/ closed[i] \/ ~running
    /\ recv' = [recv EXCEPT ![i] = "ended"]
    /\ running' = FALSE /\ sock' = Nobody
    /\ UNCHANGED <<known, listening, pc, peer, closed, send, recvPtr, sendPtr, forced,
                   user, overlaps, undefined>>

(* The flag is read before pop takes the lock of the queue, so that a      *)
(* notification that falls between the two is lost.                        *)
SendLoop(i) ==
    /\ send[i] = "loop"
    /\ send' = [send EXCEPT ![i] = IF running THEN "enter" ELSE "ended"]
    /\ UNCHANGED <<known, listening, pc, peer, closed, recv, recvPtr, sendPtr,
                   stateVars, forced, user, overlaps, undefined>>

SendPop(i) ==
    /\ send[i] = "enter"
    /\ send' = [send EXCEPT ![i] = "pop"]
    /\ UNCHANGED <<known, listening, pc, peer, closed, recv, recvPtr, sendPtr,
                   stateVars, forced, user, overlaps, undefined>>

(* A message, a reply or an event, is there to be popped or ends the wait. *)
SendMessage(i) ==
    /\ send[i] \in {"enter", "pop"}
    /\ send' = [send EXCEPT ![i] = "loop"]
    /\ UNCHANGED <<known, listening, pc, peer, closed, recv, recvPtr, sendPtr,
                   stateVars, forced, user, overlaps, undefined>>
-----------------------------------------------------------------------------
(* StopThread. *)

(* mode == WAIT: poll until the session is over; leave the rest to a       *)
(* forced stop, if there was one.                                          *)
StopWait(i) ==
    /\ pc[i] = "wait"
    /\ pc' = [pc EXCEPT ![i] = IF recvPtr # Nobody THEN "poll" ELSE "stopsend"]
    /\ UNCHANGED <<known, listening, peer, closed, threadVars, recvPtr, sendPtr, stateVars,
                   forced, user, overlaps, undefined>>

PollIgnoringForced(i) ==
    /\ pc[i] = "poll" /\ ~running
    /\ user' = Nobody /\ closed' = [closed EXCEPT ![i] = TRUE]
    /\ pc' = [pc EXCEPT ![i] = "joinrecv"]
    /\ UNCHANGED <<known, listening, peer, threadVars, recvPtr, sendPtr, stateVars, forced,
                   overlaps, undefined>>

PollKeepingUser(i) ==
    /\ pc[i] = "poll" /\ ~running
    /\ closed' = [closed EXCEPT ![i] = ~forced]
    /\ pc' = [pc EXCEPT ![i] = IF forced THEN "done" ELSE "joinrecv"]
    /\ UNCHANGED <<known, listening, peer, threadVars, recvPtr, sendPtr, stateVars, forced,
                   user, overlaps, undefined>>

Poll(i) ==
    /\ pc[i] = "poll" /\ ~running
    /\ \/ /\ forced
          /\ pc' = [pc EXCEPT ![i] = "done"]
          /\ UNCHANGED <<closed, user>>
       \/ /\ ~forced
          /\ user' = Nobody /\ closed' = [closed EXCEPT ![i] = TRUE]
          /\ pc' = [pc EXCEPT ![i] = "joinrecv"]
    /\ UNCHANGED <<known, listening, peer, threadVars, recvPtr, sendPtr, stateVars, forced,
                   overlaps, undefined>>

(* The operator's "stop": it first looks whether a client is connected,    *)
(* then waits for the operator to confirm, then calls StopThread with the  *)
(* socket that is connected by then, if any.                               *)
CliAsk ==
    /\ pc[Cli] = "idle" /\ running /\ sock # Nobody
    /\ pc' = [pc EXCEPT ![Cli] = "asked"]
    /\ UNCHANGED <<known, listening, peer, closed, threadVars, recvPtr, sendPtr, stateVars,
                   forced, user, overlaps, undefined>>

CliAnswerNo ==
    /\ pc[Cli] = "asked"
    /\ pc' = [pc EXCEPT ![Cli] = "idle"]
    /\ UNCHANGED <<known, listening, peer, closed, threadVars, recvPtr, sendPtr, stateVars,
                   forced, user, overlaps, undefined>>

(* mode == IMMEDIATE. The history notes a forced stop that comes while a   *)
(* session is being set up or torn down, not while its thread polls.       *)
CliStop ==
    /\ pc[Cli] = "asked"
    /\ overlaps' = overlaps
         \cup {o \in {"stops"} : \E i \in Clients :
                                   pc[i] \in Handshake \cup {"send", "wait"} \cup Teardown}
    /\ \/ /\ recvPtr # Nobody
          /\ forced' = TRUE /\ user' = Nobody
          /\ closed' = [i \in Clients |-> closed[i] \/ i = sock]
          /\ pc' = [pc EXCEPT ![Cli] = "joinrecv"]
       \/ /\ recvPtr = Nobody
          /\ pc' = [pc EXCEPT ![Cli] = "stopsend"]
          /\ UNCHANGED <<forced, user, closed>>
    /\ UNCHANGED <<known, listening, peer, threadVars, recvPtr, sendPtr, stateVars,
                   undefined>>

(* server_receive_thread->join(), delete, and the pointer reset. Joining   *)
(* through a null pointer, or what another thread is joining, is undefined.*)
JoinReceive(a) ==
    /\ pc[a] = "joinrecv"
    /\ \/ /\ recvPtr # Nobody /\ recv[recvPtr] = "ended"
          /\ undefined' = (undefined \/ \E b \in Stoppers \ {a} : pc[b] = "joinrecv")
          /\ recvPtr' = Nobody
       \/ /\ recvPtr = Nobody
          /\ undefined' = TRUE
          /\ UNCHANGED recvPtr
    /\ pc' = [pc EXCEPT ![a] = "stopsend"]
    /\ UNCHANGED <<known, listening, peer, closed, threadVars, sendPtr, stateVars, forced,
                   user, overlaps>>

(* outbound_data_queue.notify_unblock().                                   *)
StopSend(a) ==
    /\ pc[a] = "stopsend"
    /\ \/ /\ sendPtr # Nobody
          /\ send' = [send EXCEPT ![sendPtr] = IF @ = "pop" THEN "loop" ELSE @]
          /\ pc' = [pc EXCEPT ![a] = "joinsend"]
       \/ /\ sendPtr = Nobody
          /\ pc' = [pc EXCEPT ![a] = "done"]
          /\ UNCHANGED send
    /\ UNCHANGED <<known, listening, peer, closed, recv, recvPtr, sendPtr, stateVars,
                   forced, user, overlaps, undefined>>

JoinSend(a) ==
    /\ pc[a] = "joinsend"
    /\ \/ /\ sendPtr # Nobody /\ send[sendPtr] = "ended"
          /\ undefined' = (undefined \/ \E b \in Stoppers \ {a} : pc[b] = "joinsend")
          /\ sendPtr' = Nobody
       \/ /\ sendPtr = Nobody
          /\ undefined' = TRUE
          /\ UNCHANGED sendPtr
    /\ pc' = [pc EXCEPT ![a] = "done"]
    /\ UNCHANGED <<known, listening, peer, closed, threadVars, recvPtr, stateVars, forced,
                   user, overlaps>>

(* StopListening shuts the connected socket down and ends the listening.   *)
StopListening ==
    /\ listening
    /\ listening' = FALSE
    /\ closed' = [i \in Clients |-> closed[i] \/ i = sock]
    /\ UNCHANGED <<known, pc, peer, threadVars, recvPtr, sendPtr, stateVars, forced,
                   user, overlaps, undefined>>
-----------------------------------------------------------------------------
ConnectionThread(i) ==
    \/ Check(i) \/ Authenticate(i) \/ StartReceive(i) \/ StartSend(i) \/ Reject(i)
    \/ StopWait(i) \/ Poll(i)
StopTail(a) == JoinReceive(a) \/ StopSend(a) \/ JoinSend(a)

Next ==
    \/ \E i \in Clients : \/ Accept(i) \/ Leave(i) \/ ConnectionThread(i)
                          \/ ReceiveEnd(i) \/ SendLoop(i) \/ SendPop(i)
                          \/ SendMessage(i)
    \/ \E a \in Stoppers : StopTail(a)
    \/ CliAsk \/ CliAnswerNo \/ CliStop \/ StopListening

Spec == Init /\ [][Next]_vars

(* The threads of the server run when they can. Clients and the operator   *)
(* owe nothing: no message is owed to a waiting send thread, and no bytes  *)
(* to a receive thread that would only then look at server_running.        *)
Fairness ==
    /\ \A i \in Clients : /\ WF_vars(ConnectionThread(i))
                          /\ WF_vars(ReceiveEnd(i) /\ (~peer[i] \/ closed[i]))
                          /\ WF_vars(SendLoop(i) \/ SendPop(i))
    /\ \A a \in Stoppers : WF_vars(StopTail(a))

FairSpec == Spec /\ Fairness
-----------------------------------------------------------------------------
(* The values of the shared flags, the pointers and the threads.           *)
TypeOK ==
    /\ known \subseteq Clients
    /\ listening \in BOOLEAN /\ running \in BOOLEAN /\ forced \in BOOLEAN
    /\ pc \in [Stoppers -> {"idle", "check", "auth", "spin", "start", "send",
                            "reject", "wait", "poll", "joinrecv", "stopsend",
                            "joinsend", "asked", "done"}]
    /\ peer \in [Clients -> BOOLEAN] /\ closed \in [Clients -> BOOLEAN]
    /\ recv \in [Clients -> {"none", "live", "ended"}]
    /\ send \in [Clients -> {"none", "loop", "enter", "pop", "ended"}]
    /\ recvPtr \in Stoppers /\ sendPtr \in Stoppers
    /\ sock \in Stoppers /\ user \in Stoppers
    /\ overlaps \subseteq {"handshakes", "teardown", "stops"}
    /\ undefined \in BOOLEAN

(* Two clients are served at once only if their handshakes overlapped: the *)
(* test of server_receive_thread excludes every other way, a client that   *)
(* arrives while a session is being torn down included.                    *)
OneSession ==
    \A i, j \in Clients :
      i # j /\ recv[i] = "live" /\ recv[j] = "live" => "handshakes" \in overlaps

(* A thread is joined once, unless the operator's stop overlaps the end of *)
(* the session, or a client was let in beside another or before the        *)
(* previous session was torn down.                                         *)
JoinedOnce == undefined => overlaps # {}

(* While a session is on and nobody is stopping it, the shared flags, the  *)
(* thread pointers and the user of the database are all its own: nothing   *)
(* of the session before comes late and clears them.                       *)
SessionConsistent ==
    \A i \in Clients :
      recv[i] = "live" /\ pc[i] \in {"wait", "poll"} /\ pc[Cli] \in {"idle", "asked"}
        /\ overlaps = {}
      => running /\ sock = i /\ user = i /\ sendPtr = i /\ recvPtr = i

(* A session takes the statics only when the one before has given them up: *)
(* no thread pointer is overwritten, whose thread nobody could then join,  *)
(* no socket is lost, and nobody is made the user of the database while    *)
(* another is logged in, unless operations overlapped.                     *)
TakenWhenFree ==
    [][overlaps' = {} =>
         /\ recvPtr' \in {recvPtr, Nobody} \/ recvPtr = Nobody
         /\ sendPtr' \in {sendPtr, Nobody} \/ sendPtr = Nobody
         /\ sock' \in {sock, Nobody} \/ sock = Nobody
         /\ user' \in {user, Nobody} \/ user = Nobody]_vars

(* When the receive thread of a session has ended, the session is cleared: *)
(* its place is free for the next client and its user is logged out,       *)
(* unless operations overlapped or the operator has forced a stop. (That   *)
(* the receive thread ends once its stream has is the business of          *)
(* InboundPipeline.)                                                       *)
SessionCleared ==
    \A i \in Clients :
      (recv[i] = "ended" /\ overlaps = {} /\ ~forced)
        ~> ((recvPtr # i /\ user # i) \/ overlaps # {} \/ forced)

(* The same, a forced stop of an earlier session notwithstanding: a client *)
(* that was turned away with "Wait for user ... to disconnect and try      *)
(* again" will find the place free.                                        *)
PlaceFreed ==
    \A i \in Clients :
      (recv[i] = "ended" /\ overlaps = {}) ~> (recvPtr # i \/ overlaps # {})
=============================================================================
