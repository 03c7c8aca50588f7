-------------------------- MODULE ServerSession_proofs --------------------------
(***************************************************************************)
(* For any number of clients: two are served at once only if their         *)
(* handshakes overlapped, and unless operations overlapped each thread is  *)
(* joined once and the statics of server.cpp belong to the session that is *)
(* on and are taken only when they are free.                               *)
(***************************************************************************)
EXTENDS ServerSession, TLAPS

(* As long as no two handshakes have overlapped, at most one client is in  *)
(* its handshake, while it is nobody is served, and the one served is the  *)
(* one server_receive_thread belongs to.                                   *)
ExclusionInv ==
    "handshakes" \notin overlaps =>
      /\ \A i, j \in Clients : pc[i] \in Handshake /\ pc[j] \in Handshake => i = j
      /\ \A i \in Clients : pc[i] \in Handshake => recvPtr = Nobody
      /\ \A i \in Clients : recv[i] = "live" => recvPtr = i

(* A session is being set up, by its connection thread.                    *)
Setup == Handshake \cup {"send", "wait"}

(* What holds of the statics of server.cpp as long as nothing has          *)
(* overlapped. Only one thread at a time sets a session up or tears one    *)
(* down; while it does, the pointers are as far as it has come.            *)
SetupInv ==
    /\ \A a, b \in Stoppers :
         pc[a] \in Setup \cup Teardown /\ pc[b] \in Setup \cup Teardown => a = b
    /\ \A i \in Clients :
         /\ pc[i] \in Handshake => recvPtr = Nobody /\ sendPtr = Nobody
         /\ pc[i] = "start" => user = i
         /\ pc[i] = "send" => recvPtr = i /\ sendPtr = Nobody /\ user = i
         /\ pc[i] = "wait" => recvPtr = i /\ sendPtr = i /\ user = i

(* A connection thread that polls, before any forced stop, owns the whole  *)
(* session, and then nobody sets one up or tears one down. The receive     *)
(* pointer is then that of a client in its session. The command line only  *)
(* tears sessions down, and forces a stop before it does.                  *)
PollInv ==
    /\ ~forced =>
         /\ \A i \in Clients : pc[i] = "poll" =>
              /\ recvPtr = i /\ sendPtr = i /\ user = i
              /\ \A a \in Stoppers : pc[a] \notin Setup \cup Teardown
         /\ recvPtr # Nobody => pc[recvPtr] \in {"send", "wait", "poll", "joinrecv"}
    /\ pc[Cli] \in {"idle", "asked"} => ~forced
    /\ pc[Cli] \in {"idle", "asked", "done"} \cup Teardown

(* A stop finds both threads, joins the receive thread and then the send   *)
(* thread, which is left behind by nobody else.                            *)
TeardownInv ==
    /\ \A a \in Stoppers :
         /\ pc[a] = "joinrecv" => recvPtr # Nobody /\ sendPtr = recvPtr
         /\ pc[a] = "stopsend" => recvPtr = Nobody
         /\ pc[a] = "joinsend" => recvPtr = Nobody /\ sendPtr # Nobody
    /\ \/ sendPtr = Nobody
       \/ recvPtr = sendPtr
       \/ \E a \in Stoppers : pc[a] \in {"stopsend", "joinsend"}
    /\ ~undefined

(* The flag and the socket are those of the receive thread that is live.   *)
LiveInv ==
    \A i \in Clients : recv[i] = "live" => running /\ sock = i /\ recvPtr = i

CleanInv == overlaps = {} => SetupInv /\ PollInv /\ TeardownInv /\ LiveInv

(* Who has the socket and the user: the socket is that of a receive thread *)
(* that is live; without a session the user is the client that has just    *)
(* authenticated; and a session that is being joined has logged out.       *)
OwnedInv ==
    overlaps = {} =>
      /\ sock # Nobody => recv[sock] = "live"
      /\ recvPtr = Nobody /\ user # Nobody => pc[user] = "start"
      /\ \A a \in Stoppers : pc[a] = "joinrecv" => user = Nobody

IInv == TypeOK /\ ExclusionInv /\ CleanInv /\ OwnedInv

(* The two kinds of threads that stop a session are apart.                 *)
LEMMA CliIsNoClient == Cli \notin Clients /\ Clients \subseteq Stoppers
    BY SessionAssumption DEF Cli, Clients, Stoppers

(* The invariant holds when the server starts to listen.                   *)
LEMMA InitIInv == Init => IInv
    BY CliIsNoClient
    DEF Init, IInv, TypeOK, ExclusionInv, Handshake, Nobody,
        Cli, Stoppers, CleanInv, SetupInv, PollInv, TeardownInv, LiveInv, Setup, Teardown,
        OwnedInv

(* The type invariant is kept by every step.                               *)
LEMMA TypeStep == IInv /\ [Next]_vars => TypeOK'
<1> SUFFICES ASSUME TypeOK, [Next]_vars PROVE TypeOK'
    BY DEF IInv
<1> USE CliIsNoClient DEF TypeOK, threadVars, stateVars
<1>1. ASSUME NEW i \in Clients,
             Accept(i) \/ Leave(i) \/ ReceiveEnd(i) \/ SendLoop(i) \/ SendPop(i)
               \/ SendMessage(i)
      PROVE  TypeOK'
  <2>1. CASE Accept(i) \/ Leave(i)
      BY <2>1 DEF Accept, Leave
  <2>2. CASE ReceiveEnd(i)
      BY <2>2 DEF ReceiveEnd, Nobody, Stoppers, Cli
  <2>3. CASE SendLoop(i)
      BY <2>3 DEF SendLoop
  <2>4. CASE SendPop(i) \/ SendMessage(i)
      BY <2>4 DEF SendPop, SendMessage
  <2> QED BY <1>1, <2>1, <2>2, <2>3, <2>4
<1>2. ASSUME NEW i \in Clients, ConnectionThread(i)
      PROVE  TypeOK'
  <2>1. CASE Check(i)
      <3>1. overlaps' \subseteq {"handshakes", "teardown", "stops"}
          BY <2>1 DEF Check
      <3> QED BY <2>1, <3>1 DEF Check
  <2>2. CASE Authenticate(i)
      <3>1. pc' \in {[pc EXCEPT ![i] = p] : p \in {"start", "done", "spin"}}
          BY <2>2 DEF Authenticate
      <3>2. closed' \in [Clients -> BOOLEAN]
          BY <2>2 DEF Authenticate
      <3>3. user' \in Stoppers
          BY <2>2 DEF Authenticate
      <3> QED BY <2>2, <3>1, <3>2, <3>3 DEF Authenticate
  <2>3. CASE StartReceive(i)
      BY <2>3 DEF StartReceive
  <2>4. CASE StartSend(i)
      BY <2>4 DEF StartSend
  <2>5. CASE Reject(i)
      BY <2>5 DEF Reject
  <2>6. CASE StopWait(i)
      <3>1. pc' = [pc EXCEPT ![i] = "poll"] \/ pc' = [pc EXCEPT ![i] = "stopsend"]
          BY <2>6 DEF StopWait
      <3> QED BY <2>6, <3>1 DEF StopWait
  <2>7. CASE Poll(i)
      <3>1. closed' \in [Clients -> BOOLEAN]
          BY <2>7 DEF Poll
      <3>2. user' \in Stoppers
          BY <2>7 DEF Poll, Nobody, Stoppers, Cli
      <3>3. pc' \in {[pc EXCEPT ![i] = p] : p \in {"done", "joinrecv"}}
          BY <2>7 DEF Poll
      <3> QED BY <2>7, <3>1, <3>2, <3>3 DEF Poll
  <2> QED BY <1>2, <2>1, <2>2, <2>3, <2>4, <2>5, <2>6, <2>7 DEF ConnectionThread
<1>3. ASSUME NEW a \in Stoppers, StopTail(a)
      PROVE  TypeOK'
  <2>1. CASE JoinReceive(a)
      <3>1. recvPtr' \in Stoppers /\ undefined' \in BOOLEAN
          BY <2>1 DEF JoinReceive, Nobody, Stoppers, Cli
      <3> QED BY <2>1, <3>1 DEF JoinReceive
  <2>2. CASE StopSend(a)
      <3>1. send' \in [Clients -> {"none", "loop", "enter", "pop", "ended"}]
          BY <2>2 DEF StopSend
      <3>2. pc' \in {[pc EXCEPT ![a] = p] : p \in {"joinsend", "done"}}
          BY <2>2 DEF StopSend
      <3> QED BY <2>2, <3>1, <3>2 DEF StopSend
  <2>3. CASE JoinSend(a)
      <3>1. sendPtr' \in Stoppers /\ undefined' \in BOOLEAN
          BY <2>3 DEF JoinSend, Nobody, Stoppers, Cli
      <3> QED BY <2>3, <3>1 DEF JoinSend
  <2> QED BY <1>3, <2>1, <2>2, <2>3 DEF StopTail
<1>4. CASE CliAsk \/ CliAnswerNo \/ StopListening
  <2>1. CASE CliAsk
      BY <2>1 DEF CliAsk, Cli, Stoppers
  <2>2. CASE CliAnswerNo
      BY <2>2 DEF CliAnswerNo, Cli, Stoppers
  <2>3. CASE StopListening
      BY <2>3 DEF StopListening
  <2> QED BY <1>4, <2>1, <2>2, <2>3
<1>5. CASE CliStop
  <2>1. overlaps' \subseteq {"handshakes", "teardown", "stops"}
      BY <1>5 DEF CliStop
  <2>2. closed' \in [Clients -> BOOLEAN]
    <3>1. \/ closed' = [i \in Clients |-> closed[i] \/ i = sock]
          \/ closed' = closed
        BY <1>5 DEF CliStop
    <3> QED BY <3>1
  <2>3. user' \in Stoppers
      BY <1>5 DEF CliStop, Nobody, Stoppers, Cli
  <2>4. forced' \in BOOLEAN
      BY <1>5 DEF CliStop
  <2>5. pc' \in {[pc EXCEPT ![Cli] = p] : p \in {"joinrecv", "stopsend"}}
      BY <1>5 DEF CliStop
  <2>6. Cli \in Stoppers
      BY DEF Stoppers
  <2> QED BY <1>5, <2>1, <2>2, <2>3, <2>4, <2>5, <2>6 DEF CliStop
<1>6. CASE UNCHANGED vars
    BY <1>6 DEF vars
<1> QED BY <1>1, <1>2, <1>3, <1>4, <1>5, <1>6 DEF Next

(* The exclusion is kept: the test of server_receive_thread, and a pointer *)
(* that is reset only when the thread it belongs to has ended.             *)
LEMMA ExclusionStep == IInv /\ [Next]_vars => ExclusionInv'
<1> SUFFICES ASSUME TypeOK, ExclusionInv, [Next]_vars, "handshakes" \notin overlaps'
             PROVE  ExclusionInv'
    BY DEF IInv, ExclusionInv
<1> USE CliIsNoClient DEF TypeOK, ExclusionInv, Handshake, threadVars, stateVars
<1>1. ASSUME NEW i \in Clients,
             Accept(i) \/ Leave(i) \/ ReceiveEnd(i) \/ SendLoop(i) \/ SendPop(i)
               \/ SendMessage(i)
      PROVE  ExclusionInv'
    BY <1>1 DEF Accept, Leave, ReceiveEnd, SendLoop, SendPop, SendMessage
<1>2. ASSUME NEW i \in Clients, ConnectionThread(i)
      PROVE  ExclusionInv'
  <2>1. CASE Check(i)
    <3>1. CASE recvPtr = Nobody
      <4>1. \A j \in Clients : pc[j] \notin Handshake
          BY <2>1, <3>1 DEF Check, Nobody
      <4> QED BY <2>1, <3>1, <4>1 DEF Check, Nobody
    <3>2. CASE recvPtr # Nobody
        BY <2>1, <3>2 DEF Check, Nobody
    <3> QED BY <3>1, <3>2
  <2>2. CASE Authenticate(i)
      BY <2>2 DEF Authenticate
  <2>3. CASE StartReceive(i)
      BY <2>3, SessionAssumption DEF StartReceive, Nobody, Clients
  <2>4. CASE StartSend(i) \/ Reject(i) \/ StopWait(i) \/ Poll(i)
      BY <2>4 DEF StartSend, Reject, StopWait, Poll
  <2> QED BY <1>2, <2>1, <2>2, <2>3, <2>4 DEF ConnectionThread
<1>3. ASSUME NEW a \in Stoppers, StopTail(a)
      PROVE  ExclusionInv'
  <2>1. CASE JoinReceive(a)
      BY <2>1 DEF JoinReceive, Nobody
  <2>2. CASE StopSend(a) \/ JoinSend(a)
      BY <2>2 DEF StopSend, JoinSend
  <2> QED BY <1>3, <2>1, <2>2 DEF StopTail
<1>4. CASE CliAsk \/ CliAnswerNo \/ CliStop \/ StopListening
    BY <1>4 DEF CliAsk, CliAnswerNo, CliStop, StopListening
<1>5. CASE UNCHANGED vars
    BY <1>5 DEF vars
<1> QED BY <1>1, <1>2, <1>3, <1>4, <1>5 DEF Next

(* The null pointer is no client's, and nothing that has overlapped is     *)
(* forgotten.                                                              *)
LEMMA NobodyIsNoClient == \A i \in Clients : i # Nobody /\ i # Cli
    BY SessionAssumption DEF Nobody, Cli, Clients

LEMMA OverlapsGrow == IInv /\ [Next]_vars => overlaps \subseteq overlaps'
<1> SUFFICES ASSUME [Next]_vars PROVE overlaps \subseteq overlaps'
    OBVIOUS
<1>1. ASSUME NEW i \in Clients, Accept(i) \/ Leave(i) \/ ReceiveEnd(i) \/ SendLoop(i)
                                  \/ SendPop(i) \/ SendMessage(i)
      PROVE  overlaps' = overlaps
    BY <1>1 DEF Accept, Leave, ReceiveEnd, SendLoop, SendPop, SendMessage
<1>2. ASSUME NEW i \in Clients, ConnectionThread(i)
      PROVE  overlaps \subseteq overlaps'
  <2>1. CASE Check(i)
      BY <2>1 DEF Check
  <2>2. CASE ~Check(i)
      BY <1>2, <2>2 DEF ConnectionThread, Authenticate, StartReceive, StartSend, Reject,
                        StopWait, Poll
  <2> QED BY <2>1, <2>2
<1>3. ASSUME NEW a \in Stoppers, StopTail(a)
      PROVE  overlaps' = overlaps
    BY <1>3 DEF StopTail, JoinReceive, StopSend, JoinSend
<1>4. CASE CliAsk \/ CliAnswerNo \/ StopListening
    BY <1>4 DEF CliAsk, CliAnswerNo, StopListening
<1>5. CASE CliStop
    BY <1>5 DEF CliStop
<1>6. CASE UNCHANGED vars
    BY <1>6 DEF vars
<1> QED BY <1>1, <1>2, <1>3, <1>4, <1>5, <1>6 DEF Next

(* As long as nothing overlaps, every step keeps the pointers in order:    *)
(* the test of server_receive_thread lets a client in only when the last   *)
(* session is gone, and a session is torn down by its own connection       *)
(* thread or, after a forced stop, by the command line and nobody else.    *)
LEMMA CleanStep == IInv /\ [Next]_vars => CleanInv'
<1> SUFFICES ASSUME TypeOK, SetupInv, PollInv, TeardownInv, LiveInv, [Next]_vars,
                    overlaps = {}, overlaps' = {}
             PROVE  SetupInv' /\ PollInv' /\ TeardownInv' /\ LiveInv'
    BY OverlapsGrow DEF IInv, CleanInv
<1> USE CliIsNoClient, NobodyIsNoClient DEF threadVars, stateVars
<1>1. ASSUME NEW i \in Clients, Accept(i)
      PROVE  SetupInv' /\ PollInv' /\ TeardownInv' /\ LiveInv'
  <2>1. pc' = [pc EXCEPT ![i] = "check"] /\ pc[i] = "idle"
      BY <1>1 DEF Accept
  <2>2. UNCHANGED <<recvPtr, sendPtr, user, forced, undefined, recv, running, sock>>
      BY <1>1 DEF Accept
  <2>3. SetupInv' /\ LiveInv'
      BY <2>1, <2>2 DEF TypeOK, SetupInv, LiveInv, Setup, Teardown, Handshake
  <2>4. PollInv'
      BY <2>1, <2>2 DEF TypeOK, PollInv, Setup, Teardown, Handshake
  <2>5. TeardownInv'
      BY <2>1, <2>2 DEF TypeOK, TeardownInv
  <2> QED BY <2>3, <2>4, <2>5
<1>2. ASSUME NEW i \in Clients, Leave(i) \/ SendLoop(i) \/ SendPop(i) \/ SendMessage(i)
      PROVE  SetupInv' /\ PollInv' /\ TeardownInv' /\ LiveInv'
  <2>1. UNCHANGED <<pc, recvPtr, sendPtr, user, forced, undefined, recv, running, sock>>
      BY <1>2 DEF Leave, SendLoop, SendPop, SendMessage
  <2> QED BY <2>1 DEF SetupInv, PollInv, TeardownInv, LiveInv
<1>3. ASSUME NEW i \in Clients, ReceiveEnd(i)
      PROVE  SetupInv' /\ PollInv' /\ TeardownInv' /\ LiveInv'
  <2>1. UNCHANGED <<pc, recvPtr, sendPtr, user, forced, undefined>>
      BY <1>3 DEF ReceiveEnd
  <2>2. LiveInv'
      BY <1>3 DEF ReceiveEnd, TypeOK, LiveInv
  <2> QED BY <2>1, <2>2 DEF SetupInv, PollInv, TeardownInv
<1>4. ASSUME NEW i \in Clients, ConnectionThread(i)
      PROVE  SetupInv' /\ PollInv' /\ TeardownInv' /\ LiveInv'
  <2>1. CASE Check(i)
    <3>1. UNCHANGED <<recvPtr, sendPtr, user, forced, undefined, recv, running, sock>>
        BY <2>1 DEF Check
    <3>2. LiveInv'
        BY <3>1 DEF LiveInv
    <3>3. CASE recvPtr # Nobody
      <4>1. pc' = [pc EXCEPT ![i] = "reject"] /\ pc[i] = "check"
          BY <2>1, <3>3 DEF Check
      <4>2. SetupInv'
          BY <3>1, <4>1 DEF TypeOK, SetupInv, Setup, Teardown, Handshake
      <4>3. PollInv'
          BY <3>1, <4>1 DEF TypeOK, PollInv, Setup, Teardown, Handshake
      <4>4. TeardownInv'
          BY <3>1, <4>1 DEF TypeOK, TeardownInv
      <4> QED BY <3>2, <4>2, <4>3, <4>4
    <3>4. CASE recvPtr = Nobody
      <4>1. pc' = [pc EXCEPT ![i] = "auth"] /\ pc[i] = "check"
          BY <2>1, <3>4 DEF Check
      <4>2. (\A j \in Clients : pc[j] \notin Handshake)
              /\ (\A a \in Stoppers : pc[a] \notin Teardown)
          BY <2>1, <3>4 DEF Check
      <4>3. \A j \in Clients : pc[j] \notin Setup
          BY <3>4, <4>2 DEF SetupInv, Setup
      <4>4. sendPtr = Nobody
          BY <3>4, <4>2 DEF TeardownInv, Teardown
      <4>5. pc[Cli] \notin Setup /\ (\A j \in Clients : ~forced => pc[j] # "poll")
          BY <3>4, <4>2 DEF PollInv, Setup, Teardown, Handshake
      <4>6. SetupInv'
          BY <3>1, <3>4, <4>1, <4>2, <4>3, <4>4, <4>5
          DEF TypeOK, SetupInv, Setup, Teardown, Handshake, Stoppers
      <4>7. PollInv'
          BY <3>1, <3>4, <4>1, <4>5 DEF TypeOK, PollInv
      <4>8. TeardownInv'
          BY <3>1, <4>1, <4>4 DEF TypeOK, TeardownInv
      <4> QED BY <3>2, <4>6, <4>7, <4>8
    <3> QED BY <3>3, <3>4
  <2>2. CASE Authenticate(i)
    <3>1. UNCHANGED <<recvPtr, sendPtr, forced, undefined, recv, running, sock>>
        BY <2>2 DEF Authenticate
    <3>2. pc[i] = "auth" /\ recvPtr = Nobody /\ sendPtr = Nobody
        BY <2>2 DEF Authenticate, SetupInv, Handshake
    <3>3. \/ pc' = [pc EXCEPT ![i] = "start"] /\ user' = i
          \/ pc' = [pc EXCEPT ![i] = "done"] /\ user' = user
          \/ pc' = [pc EXCEPT ![i] = "spin"] /\ user' = user
        BY <2>2 DEF Authenticate
    <3>4. \A j \in Clients : pc[j] \notin {"start", "send", "wait"}
                               /\ (~forced => pc[j] # "poll")
        BY <3>2 DEF SetupInv, PollInv, Setup, Handshake
    <3>5. SetupInv'
        BY <3>1, <3>2, <3>3, <3>4 DEF TypeOK, SetupInv, Setup, Teardown, Handshake
    <3>6. PollInv'
      <4>1. \A j \in Clients : ~forced' => pc'[j] # "poll"
          BY <3>1, <3>3, <3>4 DEF TypeOK
      <4>2. pc'[Cli] = pc[Cli]
          BY <3>3 DEF TypeOK, Stoppers
      <4> QED BY <3>1, <3>2, <4>1, <4>2 DEF PollInv
    <3>7. TeardownInv'
        BY <3>1, <3>2, <3>3 DEF TypeOK, TeardownInv
    <3>8. LiveInv'
        BY <3>1 DEF LiveInv
    <3> QED BY <3>5, <3>6, <3>7, <3>8
  <2>3. CASE StartReceive(i)
    <3>1. /\ pc[i] = "start" /\ pc' = [pc EXCEPT ![i] = "send"] /\ recvPtr' = i
          /\ sock' = i /\ running' /\ recv' = [recv EXCEPT ![i] = "live"]
          /\ UNCHANGED <<sendPtr, user, forced, undefined>>
        BY <2>3 DEF StartReceive
    <3>2. recvPtr = Nobody /\ sendPtr = Nobody /\ user = i
        BY <3>1 DEF SetupInv, Handshake
    <3>3. \A a \in Stoppers \ {i} : pc[a] \notin Setup \cup Teardown
        BY <3>1 DEF SetupInv, Setup, Handshake
    <3>4. \A j \in Clients : recv[j] # "live" /\ (~forced => pc[j] # "poll")
        BY <3>2 DEF LiveInv, PollInv
    <3>5. SetupInv'
        BY <3>1, <3>2, <3>3 DEF TypeOK, SetupInv, Setup, Teardown, Handshake
    <3>6. PollInv'
        BY <3>1, <3>2, <3>4 DEF TypeOK, PollInv
    <3>7. TeardownInv'
        BY <3>1, <3>2, <3>3 DEF TypeOK, TeardownInv, Teardown
    <3>8. LiveInv'
        BY <3>1, <3>4 DEF TypeOK, LiveInv
    <3> QED BY <3>5, <3>6, <3>7, <3>8
  <2>4. CASE StartSend(i)
    <3>1. pc[i] = "send" /\ recvPtr = i /\ sendPtr = Nobody /\ user = i
        BY <2>4 DEF StartSend, SetupInv
    <3>2. /\ pc' = [pc EXCEPT ![i] = "wait"] /\ sendPtr' = i
          /\ UNCHANGED <<recvPtr, user, forced, undefined, recv, running, sock>>
        BY <2>4, <3>1 DEF StartSend
    <3>3. \A a \in Stoppers \ {i} : pc[a] \notin Setup \cup Teardown
        BY <3>1 DEF SetupInv, Setup
    <3>4. \A j \in Clients : ~forced => pc[j] # "poll"
        BY <3>1 DEF PollInv, Setup
    <3>5. SetupInv'
        BY <3>1, <3>2, <3>3 DEF TypeOK, SetupInv, Setup, Teardown, Handshake
    <3>6. PollInv'
        BY <3>1, <3>2, <3>4 DEF TypeOK, PollInv
    <3>7. TeardownInv'
        BY <3>1, <3>2, <3>3 DEF TypeOK, TeardownInv, Teardown
    <3>8. LiveInv'
        BY <3>2 DEF LiveInv
    <3> QED BY <3>5, <3>6, <3>7, <3>8
  <2>5. CASE Reject(i)
    <3>1. /\ pc[i] = "reject" /\ pc' = [pc EXCEPT ![i] = "done"]
          /\ UNCHANGED <<recvPtr, sendPtr, user, forced, undefined, recv, running, sock>>
        BY <2>5 DEF Reject
    <3>2. SetupInv' /\ LiveInv'
        BY <3>1 DEF TypeOK, SetupInv, LiveInv, Setup, Teardown, Handshake
    <3>3. PollInv'
        BY <3>1 DEF TypeOK, PollInv, Setup, Teardown, Handshake
    <3>4. TeardownInv'
        BY <3>1 DEF TypeOK, TeardownInv
    <3> QED BY <3>2, <3>3, <3>4
  <2>6. CASE StopWait(i)
    <3>1. pc[i] = "wait" /\ recvPtr = i /\ sendPtr = i /\ user = i
        BY <2>6 DEF StopWait, SetupInv
    <3>2. /\ pc' = [pc EXCEPT ![i] = "poll"]
          /\ UNCHANGED <<recvPtr, sendPtr, user, forced, undefined, recv, running, sock>>
        BY <2>6, <3>1 DEF StopWait
    <3>3. \A a \in Stoppers \ {i} : pc[a] \notin Setup \cup Teardown
        BY <3>1 DEF SetupInv, Setup
    <3>4. \A j \in Clients : ~forced => pc[j] # "poll"
        BY <3>1 DEF PollInv, Setup
    <3>5. SetupInv'
        BY <3>1, <3>2, <3>3 DEF TypeOK, SetupInv, Setup, Teardown, Handshake
    <3>6. PollInv'
        BY <3>1, <3>2, <3>3, <3>4 DEF TypeOK, PollInv, Setup, Teardown, Handshake
    <3>7. TeardownInv'
        BY <3>1, <3>2, <3>3 DEF TypeOK, TeardownInv, Teardown
    <3>8. LiveInv'
        BY <3>2 DEF LiveInv
    <3> QED BY <3>5, <3>6, <3>7, <3>8
  <2>7. CASE Poll(i)
    <3>1. /\ pc[i] = "poll"
          /\ UNCHANGED <<recvPtr, sendPtr, forced, undefined, recv, running, sock>>
        BY <2>7 DEF Poll
    <3>2. LiveInv'
        BY <3>1 DEF LiveInv
    <3>3. CASE forced
      <4>1. pc' = [pc EXCEPT ![i] = "done"] /\ user' = user
          BY <2>7, <3>3 DEF Poll
      <4>2. SetupInv'
          BY <3>1, <4>1 DEF TypeOK, SetupInv, Setup, Teardown, Handshake
      <4>3. PollInv'
          BY <3>1, <3>3, <4>1 DEF TypeOK, PollInv
      <4>4. TeardownInv'
          BY <3>1, <4>1 DEF TypeOK, TeardownInv
      <4> QED BY <3>2, <4>2, <4>3, <4>4
    <3>4. CASE ~forced
      <4>1. pc' = [pc EXCEPT ![i] = "joinrecv"]
          BY <2>7, <3>4 DEF Poll
      <4>2. recvPtr = i /\ sendPtr = i /\ \A a \in Stoppers : pc[a] \notin Setup \cup Teardown
          BY <3>1, <3>4 DEF PollInv
      <4>3. \A j \in Clients : pc'[j] # "poll"
          BY <3>4, <4>1, <4>2 DEF TypeOK, PollInv
      <4>4. SetupInv'
          BY <3>1, <4>1, <4>2 DEF TypeOK, SetupInv, Setup, Teardown, Handshake
      <4>5. PollInv'
          BY <3>1, <4>1, <4>2, <4>3 DEF TypeOK, PollInv
      <4>6. TeardownInv'
          BY <3>1, <4>1, <4>2 DEF TypeOK, TeardownInv, Teardown
      <4> QED BY <3>2, <4>4, <4>5, <4>6
    <3> QED BY <3>3, <3>4
  <2> QED BY <1>4, <2>1, <2>2, <2>3, <2>4, <2>5, <2>6, <2>7 DEF ConnectionThread
<1>5. ASSUME NEW a \in Stoppers, StopTail(a)
      PROVE  SetupInv' /\ PollInv' /\ TeardownInv' /\ LiveInv'
  <2>0. pc[a] \in Teardown
      BY <1>5 DEF StopTail, JoinReceive, StopSend, JoinSend, Teardown
  <2>1. /\ \A b \in Stoppers \ {a} : pc[b] \notin Setup \cup Teardown
        /\ \A i \in Clients : ~forced => pc[i] # "poll"
      BY <2>0 DEF SetupInv, PollInv
  <2>2. UNCHANGED <<user, forced, recv, running, sock>>
      BY <1>5 DEF StopTail, JoinReceive, StopSend, JoinSend
  <2>3. CASE JoinReceive(a)
    <3>1. pc[a] = "joinrecv" /\ recvPtr # Nobody /\ sendPtr = recvPtr
        BY <2>3 DEF JoinReceive, TeardownInv
    <3>2. /\ pc' = [pc EXCEPT ![a] = "stopsend"] /\ recvPtr' = Nobody /\ sendPtr' = sendPtr
          /\ recv[recvPtr] = "ended"
        BY <2>3, <3>1 DEF JoinReceive
    <3>3. ~undefined'
        BY <2>1, <2>3, <3>1 DEF JoinReceive, TeardownInv, Teardown
    <3>4. SetupInv'
        BY <2>1, <2>2, <3>1, <3>2 DEF TypeOK, SetupInv, Setup, Teardown, Handshake
    <3>5. PollInv'
        BY <2>1, <2>2, <3>1, <3>2 DEF TypeOK, PollInv, Teardown
    <3>6. TeardownInv'
        BY <2>1, <3>1, <3>2, <3>3 DEF TypeOK, TeardownInv, Teardown
    <3>7. LiveInv'
        BY <2>2, <3>2 DEF LiveInv
    <3> QED BY <3>4, <3>5, <3>6, <3>7
  <2>4. CASE StopSend(a)
    <3>1. pc[a] = "stopsend" /\ recvPtr = Nobody /\ UNCHANGED <<recvPtr, sendPtr, undefined>>
        BY <2>4 DEF StopSend, TeardownInv
    <3>2. \/ pc' = [pc EXCEPT ![a] = "joinsend"] /\ sendPtr # Nobody
          \/ pc' = [pc EXCEPT ![a] = "done"] /\ sendPtr = Nobody
        BY <2>4 DEF StopSend
    <3>3. SetupInv'
        BY <2>1, <2>2, <3>1, <3>2 DEF TypeOK, SetupInv, Setup, Teardown, Handshake
    <3>4. PollInv'
      <4>1. \A j \in Clients : ~forced' => pc'[j] # "poll"
          BY <2>1, <2>2, <3>2 DEF TypeOK
      <4>2. pc'[Cli] = pc[Cli] \/ pc'[Cli] \in {"joinsend", "done"}
          BY <3>2 DEF TypeOK, Stoppers
      <4>3. pc[Cli] \in {"idle", "asked"} => pc'[Cli] = pc[Cli]
          BY <3>1, <3>2 DEF TypeOK, Stoppers
      <4> QED BY <2>2, <3>1, <4>1, <4>2, <4>3 DEF PollInv, Teardown
    <3>5. TeardownInv'
        BY <2>1, <3>1, <3>2 DEF TypeOK, TeardownInv, Teardown
    <3>6. LiveInv'
        BY <2>2, <3>1 DEF LiveInv
    <3> QED BY <3>3, <3>4, <3>5, <3>6
  <2>5. CASE JoinSend(a)
    <3>1. pc[a] = "joinsend" /\ recvPtr = Nobody /\ sendPtr # Nobody
        BY <2>5 DEF JoinSend, TeardownInv
    <3>2. pc' = [pc EXCEPT ![a] = "done"] /\ sendPtr' = Nobody /\ recvPtr' = recvPtr
        BY <2>5, <3>1 DEF JoinSend
    <3>3. ~undefined'
        BY <2>1, <2>5, <3>1 DEF JoinSend, TeardownInv, Teardown
    <3>4. SetupInv'
        BY <2>1, <2>2, <3>1, <3>2 DEF TypeOK, SetupInv, Setup, Teardown, Handshake
    <3>5. PollInv'
        BY <2>1, <2>2, <3>1, <3>2 DEF TypeOK, PollInv, Teardown
    <3>6. TeardownInv'
        BY <2>1, <3>1, <3>2, <3>3 DEF TypeOK, TeardownInv, Teardown
    <3>7. LiveInv'
        BY <2>2, <3>2 DEF LiveInv
    <3> QED BY <3>4, <3>5, <3>6, <3>7
  <2> QED BY <1>5, <2>3, <2>4, <2>5 DEF StopTail
<1>6. CASE CliAsk \/ CliAnswerNo
  <2>1. /\ pc[Cli] \in {"idle", "asked"}
        /\ pc' \in {[pc EXCEPT ![Cli] = p] : p \in {"idle", "asked"}}
        /\ UNCHANGED <<recvPtr, sendPtr, user, forced, undefined, recv, running, sock>>
      BY <1>6 DEF CliAsk, CliAnswerNo
  <2>2. Cli \in Stoppers
      BY DEF Stoppers
  <2>3. SetupInv' /\ LiveInv'
      BY <2>1, <2>2 DEF TypeOK, SetupInv, LiveInv, Setup, Teardown, Handshake
  <2>4. PollInv'
      BY <2>1, <2>2 DEF TypeOK, PollInv, Setup, Teardown, Handshake, Nobody, Cli
  <2>5. TeardownInv'
      BY <2>1, <2>2 DEF TypeOK, TeardownInv
  <2> QED BY <2>3, <2>4, <2>5
<1>7. CASE CliStop
  <2>1. /\ pc[Cli] = "asked" /\ Cli \in Stoppers
        /\ UNCHANGED <<recvPtr, sendPtr, undefined, recv, running, sock>>
      BY <1>7 DEF CliStop, Stoppers
  <2>2. ~forced
      BY <2>1 DEF PollInv
  <2>3. \A i \in Clients : pc[i] \notin Setup \cup Teardown
      BY <1>7 DEF CliStop, Setup
  <2>4. \A a \in Stoppers : pc[a] \notin Setup \cup Teardown
      BY <2>1, <2>3 DEF Stoppers, Setup, Teardown, Handshake
  <2>5. LiveInv'
      BY <2>1 DEF LiveInv
  <2>6. CASE recvPtr # Nobody
    <3>1. /\ pc' = [pc EXCEPT ![Cli] = "joinrecv"]
        BY <1>7, <2>6 DEF CliStop
    <3>2. forced'
        BY <1>7, <2>6 DEF CliStop
    <3>3. recvPtr \in Clients
        BY <2>6 DEF TypeOK, Stoppers, Nobody, Cli
    <3>4. pc[recvPtr] = "poll"
        BY <2>2, <2>3, <2>6, <3>3 DEF PollInv, Setup, Teardown
    <3>5. sendPtr = recvPtr
        BY <2>2, <3>3, <3>4 DEF PollInv
    <3>6. SetupInv'
        BY <2>1, <2>4, <3>1 DEF TypeOK, SetupInv, Setup, Teardown, Handshake
    <3>7. PollInv'
        BY <2>1, <3>1, <3>2 DEF TypeOK, PollInv, Teardown
    <3>8. TeardownInv'
        BY <2>1, <2>4, <2>6, <3>1, <3>5 DEF TypeOK, TeardownInv, Teardown
    <3> QED BY <2>5, <3>6, <3>7, <3>8
  <2>7. CASE recvPtr = Nobody
    <3>1. pc' = [pc EXCEPT ![Cli] = "stopsend"] /\ user' = user /\ forced' = forced
        BY <1>7, <2>7 DEF CliStop
    <3>2. \A i \in Clients : pc[i] # "poll"
        BY <2>2, <2>7 DEF PollInv
    <3>3. SetupInv'
        BY <2>1, <2>4, <3>1 DEF TypeOK, SetupInv, Setup, Teardown, Handshake
    <3>4. PollInv'
        BY <2>1, <2>7, <3>1, <3>2 DEF TypeOK, PollInv, Teardown
    <3>5. TeardownInv'
        BY <2>1, <2>4, <2>7, <3>1 DEF TypeOK, TeardownInv, Teardown
    <3> QED BY <2>5, <3>3, <3>4, <3>5
  <2> QED BY <2>6, <2>7
<1>8. CASE StopListening
  <2>1. UNCHANGED <<pc, recvPtr, sendPtr, user, forced, undefined, recv, running, sock>>
      BY <1>8 DEF StopListening
  <2> QED BY <2>1 DEF SetupInv, PollInv, TeardownInv, LiveInv
<1>9. CASE UNCHANGED vars
  <2>1. UNCHANGED <<pc, recvPtr, sendPtr, user, forced, undefined, recv, running, sock>>
      BY <1>9 DEF vars
  <2> QED BY <2>1 DEF SetupInv, PollInv, TeardownInv, LiveInv
<1> QED BY <1>1, <1>2, <1>3, <1>4, <1>5, <1>6, <1>7, <1>8, <1>9 DEF Next

(* As long as nothing overlaps, the socket goes when its receive thread    *)
(* ends, and the user when the session that logged in is stopped.          *)
LEMMA OwnedStep == IInv /\ [Next]_vars => OwnedInv'
<1> DEFINE Owned == /\ sock # Nobody => recv[sock] = "live"
                    /\ recvPtr = Nobody /\ user # Nobody => pc[user] = "start"
                    /\ \A a \in Stoppers : pc[a] = "joinrecv" => user = Nobody
<1> SUFFICES ASSUME TypeOK, SetupInv, Owned, [Next]_vars
             PROVE  Owned'
    BY OverlapsGrow DEF IInv, CleanInv, OwnedInv
<1> USE CliIsNoClient, NobodyIsNoClient DEF threadVars, stateVars
<1>0. user \in Stoppers /\ (user # Nobody => user \in Clients)
    BY DEF TypeOK, Stoppers, Cli, Nobody
<1>1. ASSUME NEW a \in Stoppers, NEW p, p \notin {"start", "joinrecv"}, pc[a] # "start",
             pc' = [pc EXCEPT ![a] = p], UNCHANGED <<recvPtr, user, recv, sock>>
      PROVE  Owned'
    BY <1>0, <1>1 DEF TypeOK
<1>2. ASSUME UNCHANGED <<pc, recvPtr, user, recv, sock>>
      PROVE  Owned'
    BY <1>2
<1>3. ASSUME NEW i \in Clients, Accept(i) \/ Leave(i) \/ SendLoop(i) \/ SendPop(i)
                                  \/ SendMessage(i)
      PROVE  Owned'
  <2>1. CASE Accept(i)
      BY <1>1, <2>1 DEF Accept
  <2>2. CASE ~Accept(i)
    <3>1. UNCHANGED <<pc, recvPtr, user, recv, sock>>
        BY <1>3, <2>2 DEF Leave, SendLoop, SendPop, SendMessage
    <3> QED BY <1>2, <3>1
  <2> QED BY <2>1, <2>2
<1>4. ASSUME NEW i \in Clients, ReceiveEnd(i)
      PROVE  Owned'
    BY <1>4 DEF ReceiveEnd
<1>5. ASSUME NEW i \in Clients, ConnectionThread(i)
      PROVE  Owned'
  <2>1. CASE Check(i) \/ StartSend(i) \/ Reject(i) \/ StopWait(i)
    <3>1. /\ pc[i] \in {"check", "send", "reject", "wait"}
          /\ UNCHANGED <<recvPtr, user, recv, sock>>
        BY <2>1 DEF Check, StartSend, Reject, StopWait
    <3>2. PICK p \in {"auth", "reject", "wait", "done", "poll", "stopsend"} :
            pc' = [pc EXCEPT ![i] = p]
        BY <2>1 DEF Check, StartSend, Reject, StopWait
    <3> QED BY <1>1, <3>1, <3>2
  <2>2. CASE Authenticate(i)
    <3>1. UNCHANGED <<recvPtr, recv, sock>> /\ pc[i] = "auth"
        BY <2>2 DEF Authenticate
    <3>2. \/ pc' = [pc EXCEPT ![i] = "start"] /\ user' = i
          \/ \E p \in {"done", "spin"} : pc' = [pc EXCEPT ![i] = p] /\ user' = user
        BY <2>2 DEF Authenticate
    <3>3. CASE user' = user /\ \E p \in {"done", "spin"} : pc' = [pc EXCEPT ![i] = p]
        BY <1>1, <3>1, <3>3
    <3>4. CASE pc' = [pc EXCEPT ![i] = "start"] /\ user' = i
      <4>1. \A a \in Stoppers : pc[a] # "joinrecv"
          BY <3>1 DEF SetupInv, Setup, Teardown, Handshake
      <4>2. \A a \in Stoppers : pc'[a] # "joinrecv"
          BY <3>4, <4>1 DEF TypeOK
      <4>3. pc'[user'] = "start"
          BY <3>4 DEF TypeOK
      <4> QED BY <3>1, <4>2, <4>3
    <3> QED BY <3>2, <3>3, <3>4
  <2>3. CASE StartReceive(i)
    <3>1. /\ pc[i] = "start" /\ pc' = [pc EXCEPT ![i] = "send"] /\ recvPtr' = i
          /\ sock' = i /\ recv' = [recv EXCEPT ![i] = "live"] /\ user' = user
        BY <2>3 DEF StartReceive
    <3>2. \A a \in Stoppers : pc'[a] = "joinrecv" => pc[a] = "joinrecv"
        BY <3>1 DEF TypeOK
    <3>3. recv'[sock'] = "live" /\ recvPtr' # Nobody
        BY <3>1 DEF TypeOK
    <3> QED BY <3>1, <3>2, <3>3
  <2>4. CASE Poll(i)
    <3>1. pc[i] = "poll" /\ UNCHANGED <<recvPtr, recv, sock>>
        BY <2>4 DEF Poll
    <3>2. \/ user' = Nobody
          \/ pc' = [pc EXCEPT ![i] = "done"] /\ user' = user
        BY <2>4 DEF Poll
    <3>3. CASE user' = Nobody
        BY <3>1, <3>3
    <3>4. CASE pc' = [pc EXCEPT ![i] = "done"] /\ user' = user
        BY <1>1, <3>1, <3>4
    <3> QED BY <3>2, <3>3, <3>4
  <2> QED BY <1>5, <2>1, <2>2, <2>3, <2>4 DEF ConnectionThread
<1>6. ASSUME NEW a \in Stoppers, StopTail(a)
      PROVE  Owned'
  <2>1. CASE JoinReceive(a)
    <3>1. /\ pc[a] = "joinrecv" /\ pc' = [pc EXCEPT ![a] = "stopsend"]
          /\ UNCHANGED <<user, recv, sock>>
        BY <2>1 DEF JoinReceive
    <3>2. user = Nobody
        BY <3>1
    <3> QED BY <3>1, <3>2
  <2>2. CASE StopSend(a) \/ JoinSend(a)
    <3>1. pc[a] \in {"stopsend", "joinsend"} /\ UNCHANGED <<recvPtr, user, recv, sock>>
        BY <2>2 DEF StopSend, JoinSend
    <3>2. PICK p \in {"joinsend", "done"} : pc' = [pc EXCEPT ![a] = p]
        BY <2>2 DEF StopSend, JoinSend
    <3> QED BY <1>1, <3>1, <3>2
  <2> QED BY <1>6, <2>1, <2>2 DEF StopTail
<1>7. CASE CliAsk \/ CliAnswerNo
  <2>1. pc[Cli] \in {"idle", "asked"} /\ UNCHANGED <<recvPtr, user, recv, sock>>
      BY <1>7 DEF CliAsk, CliAnswerNo
  <2>2. PICK p \in {"asked", "idle"} : pc' = [pc EXCEPT ![Cli] = p]
      BY <1>7 DEF CliAsk, CliAnswerNo
  <2>3. Cli \in Stoppers
      BY DEF Stoppers
  <2> QED BY <1>1, <2>1, <2>2, <2>3
<1>8. CASE CliStop
  <2>1. pc[Cli] = "asked" /\ UNCHANGED <<recvPtr, recv, sock>> /\ Cli \in Stoppers
      BY <1>8 DEF CliStop, Stoppers
  <2>2. user' = Nobody \/ (pc' = [pc EXCEPT ![Cli] = "stopsend"] /\ user' = user)
      BY <1>8 DEF CliStop
  <2>3. CASE user' = Nobody
      BY <2>1, <2>3
  <2>4. CASE pc' = [pc EXCEPT ![Cli] = "stopsend"] /\ user' = user
      BY <1>1, <2>1, <2>4
  <2> QED BY <2>2, <2>3, <2>4
<1>9. CASE StopListening \/ UNCHANGED vars
  <2>1. UNCHANGED <<pc, recvPtr, user, recv, sock>>
      BY <1>9 DEF StopListening, vars
  <2> QED BY <1>2, <2>1
<1> HIDE DEF Owned
<1> QED BY <1>3, <1>4, <1>5, <1>6, <1>7, <1>8, <1>9 DEF Next

(* The inductive invariant of the session.                                 *)
THEOREM Invariance == Spec => []IInv
<1>1. IInv /\ [Next]_vars => IInv'
    BY TypeStep, ExclusionStep, CleanStep, OwnedStep DEF IInv
<1> QED BY InitIInv, <1>1, PTL DEF Spec

(* The flags, pointers and threads of the server keep their types.         *)
THEOREM TypeCorrect == Spec => []TypeOK
<1>1. IInv => TypeOK
    BY DEF IInv
<1> QED BY Invariance, <1>1, PTL

(* However many clients connect, two are served at once only if            *)
(* StartThread tested server_receive_thread for one while the other was    *)
(* authenticating.                                                         *)
THEOREM OneSessionAlways == Spec => []OneSession
<1>1. IInv => OneSession
    BY DEF IInv, ExclusionInv, OneSession
<1> QED BY Invariance, <1>1, PTL

(* However many clients connect, no thread is joined twice or through a    *)
(* null pointer unless operations overlapped: the operator's stop with the *)
(* set-up or the end of a session, or one client with another's handshake  *)
(* or teardown.                                                            *)
THEOREM JoinedOnceAlways == Spec => []JoinedOnce
<1>1. IInv => JoinedOnce
    BY DEF IInv, CleanInv, TeardownInv, JoinedOnce
<1> QED BY Invariance, <1>1, PTL

(* However many clients connect, the flag, the socket, the pointers and    *)
(* the user are those of the session that is on, as long as nobody stops   *)
(* it and nothing overlapped: StopThread of an earlier session never comes *)
(* late to clear them.                                                     *)
THEOREM SessionConsistentAlways == Spec => []SessionConsistent
<1>1. IInv => SessionConsistent
    BY DEF IInv, CleanInv, SetupInv, PollInv, LiveInv, SessionConsistent
<1> QED BY Invariance, <1>1, PTL

(* However many clients connect, StartThread takes the pointers and the    *)
(* socket, and Authenticate the user of the database, only when the        *)
(* session before has given them up, unless operations overlapped: the     *)
(* test of server_receive_thread, made long before, still protects them.   *)
THEOREM TakenWhenFreeAlways == Spec => TakenWhenFree
<1> DEFINE Step == overlaps' = {} =>
                     /\ recvPtr' \in {recvPtr, Nobody} \/ recvPtr = Nobody
                     /\ sendPtr' \in {sendPtr, Nobody} \/ sendPtr = Nobody
                     /\ sock' \in {sock, Nobody} \/ sock = Nobody
                     /\ user' \in {user, Nobody} \/ user = Nobody
<1>1. ASSUME IInv, [Next]_vars PROVE [Step]_vars
  <2> SUFFICES ASSUME Next, overlaps' = {}
               PROVE  /\ recvPtr' \in {recvPtr, Nobody} \/ recvPtr = Nobody
                      /\ sendPtr' \in {sendPtr, Nobody} \/ sendPtr = Nobody
                      /\ sock' \in {sock, Nobody} \/ sock = Nobody
                      /\ user' \in {user, Nobody} \/ user = Nobody
      BY <1>1
  <2>0. /\ TypeOK /\ SetupInv /\ LiveInv
        /\ sock # Nobody => recv[sock] = "live"
        /\ recvPtr = Nobody /\ user # Nobody => pc[user] = "start"
      BY <1>1, OverlapsGrow DEF IInv, CleanInv, OwnedInv
  <2>1. ASSUME NEW i \in Clients, StartReceive(i)
        PROVE  recvPtr = Nobody /\ sock = Nobody /\ UNCHANGED <<sendPtr, user>>
    <3>1. pc[i] = "start" /\ UNCHANGED <<sendPtr, user>>
        BY <2>1 DEF StartReceive
    <3>2. recvPtr = Nobody
        BY <2>0, <3>1 DEF SetupInv, Handshake
    <3>3. sock = Nobody \/ sock \in Clients
        BY <2>0 DEF TypeOK, Stoppers, Cli, Nobody
    <3>4. sock \notin Clients
        BY <2>0, <3>2, NobodyIsNoClient DEF LiveInv
    <3> QED BY <3>1, <3>2, <3>3, <3>4
  <2>2. ASSUME NEW i \in Clients, Authenticate(i)
        PROVE  (user' = user \/ user = Nobody) /\ UNCHANGED <<recvPtr, sendPtr, sock>>
    <3>1. pc[i] = "auth" /\ UNCHANGED <<recvPtr, sendPtr, sock>>
        BY <2>2 DEF Authenticate, stateVars
    <3>2. recvPtr = Nobody
        BY <2>0, <3>1 DEF SetupInv, Handshake
    <3>3. user = Nobody \/ user \in Clients
        BY <2>0 DEF TypeOK, Stoppers, Cli, Nobody
    <3>4. ASSUME user \in Clients PROVE FALSE
      <4>1. pc[user] = "start"
          BY <2>0, <3>2, <3>4, NobodyIsNoClient
      <4>2. user \in Stoppers /\ i \in Stoppers
          BY <3>4, CliIsNoClient
      <4>3. user = i
          BY <2>0, <3>1, <4>1, <4>2 DEF SetupInv, Setup, Handshake
      <4> QED BY <3>1, <4>1, <4>3
    <3> QED BY <3>1, <3>3, <3>4
  <2>3. ASSUME NEW i \in Clients, StartSend(i)
        PROVE  (sendPtr' = sendPtr \/ sendPtr = Nobody) /\ UNCHANGED <<recvPtr, sock, user>>
      BY <2>3 DEF StartSend, stateVars
  <2>4. ASSUME NEW i \in Clients, Accept(i) \/ Leave(i) \/ SendLoop(i) \/ SendPop(i)
                                    \/ SendMessage(i)
        PROVE  UNCHANGED <<recvPtr, sendPtr, sock, user>>
      BY <2>4 DEF Accept, Leave, SendLoop, SendPop, SendMessage, stateVars
  <2>5. ASSUME NEW i \in Clients, ReceiveEnd(i)
        PROVE  sock' = Nobody /\ UNCHANGED <<recvPtr, sendPtr, user>>
      BY <2>5 DEF ReceiveEnd
  <2>6. ASSUME NEW i \in Clients, Check(i) \/ Reject(i) \/ StopWait(i) \/ Poll(i)
        PROVE  user' \in {user, Nobody} /\ UNCHANGED <<recvPtr, sendPtr, sock>>
      BY <2>6 DEF Check, Reject, StopWait, Poll, stateVars
  <2>7. ASSUME NEW a \in Stoppers, StopTail(a)
        PROVE  /\ recvPtr' \in {recvPtr, Nobody} /\ sendPtr' \in {sendPtr, Nobody}
               /\ UNCHANGED <<sock, user>>
      BY <2>7 DEF StopTail, JoinReceive, StopSend, JoinSend, stateVars
  <2>8. CASE CliAsk \/ CliAnswerNo \/ CliStop \/ StopListening
    <3>1. user' \in {user, Nobody} /\ UNCHANGED <<recvPtr, sendPtr, sock>>
        BY <2>8 DEF CliAsk, CliAnswerNo, CliStop, StopListening, stateVars
    <3> QED BY <3>1
  <2> QED BY <2>1, <2>2, <2>3, <2>4, <2>5, <2>6, <2>7, <2>8 DEF Next, ConnectionThread
<1> QED BY <1>1, Invariance, PTL DEF Spec, TakenWhenFree
=============================================================================
