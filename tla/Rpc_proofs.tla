------------------------------ MODULE Rpc_proofs ------------------------------
(***************************************************************************)
(* For any number of callers, calls and connections: no call returns the   *)
(* response to another one, a caller's calls are executed in order and     *)
(* once, an asynchronous response finds its promise, and the whole         *)
(* implements the at-most-once calls of RemoteCalls.                       *)
(***************************************************************************)
EXTENDS Rpc, SequenceTheorems, TLAPS

(* The id belongs to the call: nid++ handed it out to that call.           *)
Owner(id, call) == id \in 0..(Len(issued) - 1) /\ issued[id + 1] = call

(* The requests and the responses that carry the id of the call they       *)
(* belong to.                                                              *)
OwnRequest == {m \in Request : Owner(m.id, m.call)}
OwnResponse == {m \in Response :
                  \E call \in Calls : Owner(m.id, call) /\ m.ret = ReturnOf(call)}

(* Ids and calls stay together from SetNew through both outbound queues,   *)
(* the wire, the promise map and lmessage.                                 *)
IdInv ==
    /\ outq \in Seq(OwnRequest) /\ c2s \in Seq(OwnRequest)
    /\ sout \in Seq(OwnResponse) /\ s2c \in Seq(OwnResponse)
    /\ slot.full => [sync |-> TRUE, id |-> slot.id, ret |-> slot.ret] \in OwnResponse
    /\ \A p \in proms : Owner(p.id, p.call)
    /\ \A c \in Callers : pc[c] # "idle" => Owner(msgId[c], Call(c))

CallInv == TypeOK /\ IdInv /\ ReplyMatches

(* The calls requested in a queue, and those the server has executed; the  *)
(* last call a caller has scheduled.                                       *)
Requested(q) == {q[i].call : i \in 1..Len(q)}
Executed == UNION {{<<c, executed[c][i]>> : i \in 1..Len(executed[c])} : c \in Callers}
Scheduled(c) == IF pc[c] = "schedule" THEN made[c] - 1 ELSE made[c]

(* No caller has a call of S after one of T.                               *)
Before(S, T) == \A x \in S, y \in T : x[1] = y[1] => x[2] < y[2]
Ordered(q) == \A i, j \in 1..Len(q) :
                i < j /\ q[i].call[1] = q[j].call[1] => q[i].call[2] < q[j].call[2]

(* A caller's calls are in order within each queue and from one queue to   *)
(* the next, and the one it is about to schedule is the last.              *)
OrderInv ==
    /\ ExecutedInOrder /\ Ordered(c2s) /\ Ordered(outq)
    /\ Before(Executed, Requested(c2s)) /\ Before(Executed, Requested(outq))
    /\ Before(Requested(c2s), Requested(outq))
    /\ \A x \in Executed \cup Requested(c2s) \cup Requested(outq) :
         x[2] <= Scheduled(x[1])

(* The ids in a queue, and those of its asynchronous messages.             *)
Ids(q) == {q[i].id : i \in 1..Len(q)}
AsyncIds(q) == {q[i].id : i \in {j \in 1..Len(q) : ~q[j].sync}}
Distinct(q) == \A i, j \in 1..Len(q) : q[i].id = q[j].id => i = j

(* No id is in flight twice, and none of a call that is yet to be          *)
(* scheduled.                                                              *)
OnceInv ==
    /\ Distinct(outq) /\ Distinct(c2s) /\ Distinct(sout) /\ Distinct(s2c)
    /\ Ids(outq) \cap (Ids(c2s) \cup Ids(sout) \cup Ids(s2c)) = {}
    /\ Ids(c2s) \cap (Ids(sout) \cup Ids(s2c)) = {}
    /\ Ids(sout) \cap Ids(s2c) = {}
    /\ \A c \in Callers : pc[c] = "schedule" =>
         msgId[c] \notin Ids(outq) \cup Ids(c2s) \cup Ids(sout) \cup Ids(s2c)

(* The ids a promise is there for, or about to be put there.               *)
Owed == {p.id : p \in proms}
          \cup {msgId[c] : c \in {d \in AsyncCallers : pc[d] = "emplace"}}

(* Every asynchronous call in flight, in either direction, has its promise.*)
PromiseInv ==
    ~crashed => /\ AsyncIds(outq) \subseteq Owed /\ AsyncIds(c2s) \subseteq Owed
                /\ AsyncIds(sout) \subseteq Owed /\ AsyncIds(s2c) \subseteq Owed

(* What is on its way back, or has come back, is the answer to a call that *)
(* was executed.                                                           *)
Earned == {ReturnOf(call) : call \in Executed}
EarnedResponse == {m \in Response : m.ret \in Earned}
AnswerInv ==
    /\ sout \in Seq(EarnedResponse) /\ s2c \in Seq(EarnedResponse)
    /\ slot.full => slot.ret \in Earned

IInv == CallInv /\ OrderInv /\ OnceInv /\ PromiseInv /\ AnswerInv
-----------------------------------------------------------------------------
(* What the operations of a queue keep of its elements.                    *)
LEMMA SeqIsMonotonic ==
    ASSUME NEW S, NEW T, S \subseteq T, NEW q \in Seq(S)
    PROVE  q \in Seq(T)
  <1>1. Len(q) \in Nat /\ q \in [1..Len(q) -> S]
    BY LenProperties
  <1>2. q \in [1..Len(q) -> T]
    BY <1>1
  <1> QED
    BY <1>1, <1>2, IsASeq

LEMMA PopKeeps ==
    ASSUME NEW S, NEW q \in Seq(S), q # <<>>
    PROVE  Head(q) \in S /\ Tail(q) \in Seq(S)
  BY HeadTailProperties

LEMMA PushKeeps ==
    ASSUME NEW S, NEW q \in Seq(S), NEW e \in S
    PROVE  Append(q, e) \in Seq(S)
  BY AppendProperties

LEMMA SuffixKeeps ==
    ASSUME NEW S, NEW q \in Seq(S), NEW i \in 0..Len(q)
    PROVE  SubSeq(q, i + 1, Len(q)) \in Seq(S)
  <1>1. Len(q) \in Nat /\ i + 1 \in Int /\ Len(q) \in Int
    BY LenProperties
  <1>2. \A j \in (i + 1)..Len(q) : q[j] \in S
    BY <1>1, ElementOfSeq
  <1> QED
    BY <1>1, <1>2, SubSeqProperties

(* Every call has an id of its own: an id that is taken stays with its     *)
(* call when nid grows.                                                    *)
LEMMA OwnerStays ==
    ASSUME TypeOK, NEW call \in Calls, issued' = Append(issued, call)
    PROVE  /\ issued' \in Seq(Calls)
           /\ Len(issued) \in 0..(Len(issued') - 1)
           /\ issued'[Len(issued) + 1] = call
           /\ \A id, d : Owner(id, d) => Owner(id, d)'
           /\ OwnRequest \subseteq OwnRequest' /\ OwnResponse \subseteq OwnResponse'
  <1>1. issued \in Seq(Calls) /\ Len(issued) \in Nat
    BY DEF TypeOK
  <1>2. /\ issued' \in Seq(Calls) /\ Len(issued') = Len(issued) + 1
        /\ \A i \in 1..Len(issued) : issued'[i] = issued[i]
        /\ issued'[Len(issued) + 1] = call
    BY <1>1, AppendProperties
  <1>3. Len(issued) \in 0..(Len(issued') - 1)
    BY <1>1, <1>2
  <1>4. ASSUME NEW id, NEW d, Owner(id, d) PROVE Owner(id, d)'
    <2>1. id \in 0..(Len(issued) - 1) /\ issued[id + 1] = d
      BY <1>4 DEF Owner
    <2>2. id \in 0..(Len(issued') - 1) /\ id + 1 \in 1..Len(issued)
      BY <1>1, <1>2, <2>1
    <2> QED
      BY <1>2, <2>1, <2>2 DEF Owner
  <1>5. OwnRequest \subseteq OwnRequest'
    BY <1>4 DEF OwnRequest
  <1>6. OwnResponse \subseteq OwnResponse'
    BY <1>4 DEF OwnResponse
  <1> QED
    BY <1>2, <1>3, <1>4, <1>5, <1>6

LEMMA OwnerSame ==
    ASSUME UNCHANGED issued
    PROVE  /\ \A id, d : Owner(id, d)' <=> Owner(id, d)
           /\ OwnRequest' = OwnRequest /\ OwnResponse' = OwnResponse
  <1>1. \A id, d : Owner(id, d)' <=> Owner(id, d)
    BY DEF Owner
  <1> QED
    BY <1>1 DEF OwnRequest, OwnResponse

LEMMA OwnTypes == OwnRequest \subseteq Request /\ OwnResponse \subseteq Response
  BY DEF OwnRequest, OwnResponse
-----------------------------------------------------------------------------
LEMMA InitCallInv == Init => CallInv
  <1> SUFFICES ASSUME Init PROVE CallInv
    OBVIOUS
  <1>1. \A S : <<>> \in Seq(S)
    BY EmptySeq
  <1>2. TypeOK
    <2>1. slot \in [full : BOOLEAN, id : Nat, ret : Returns \cup {ReturnOf(<<>>)}]
      BY DEF Init
    <2>2. /\ pc \in [Callers -> {"idle", "schedule", "wait", "emplace"}]
          /\ made \in [Callers -> Nat] /\ msgId \in [Callers -> Nat]
      BY DEF Init
    <2>3. executed \in [Callers -> Seq(Nat)]
      BY <1>1 DEF Init
    <2> QED
      BY <1>1, <2>1, <2>2, <2>3 DEF Init, TypeOK
  <1>3. IdInv
    BY <1>1 DEF Init, IdInv
  <1>4. ReplyMatches
    BY DEF Init, ReplyMatches
  <1> QED
    BY <1>2, <1>3, <1>4 DEF CallInv

LEMMA SetNewStep == ASSUME CallInv, NEW c \in Callers, SetNew(c) PROVE CallInv'
  <1> DEFINE call == <<c, made[c] + 1>>
  <1>1. /\ pc[c] = "idle" /\ made[c] < MaxCalls[c]
        /\ made' = [made EXCEPT ![c] = @ + 1]
        /\ msgId' = [msgId EXCEPT ![c] = Len(issued)]
        /\ issued' = Append(issued, call)
        /\ pc' = [pc EXCEPT ![c] = "schedule"]
        /\ UNCHANGED <<outq, c2s, s2c, conn, sessions, executed, sout, slot, proms,
                       results, crashed>>
    BY DEF SetNew, nid, netVars, serverVars
  <1>2. /\ TypeOK /\ made \in [Callers -> Nat] /\ msgId \in [Callers -> Nat]
        /\ pc \in [Callers -> {"idle", "schedule", "wait", "emplace"}]
        /\ Len(issued) \in Nat
    BY DEF CallInv, TypeOK
  <1>3. call \in Calls
    <2>1. MaxCalls[c] \in Nat
      BY RpcAssumption DEF Callers
    <2>2. made[c] + 1 \in 1..MaxCalls[c]
      BY <1>1, <1>2, <2>1
    <2>3. call \in {c} \X (1..MaxCalls[c])
      BY <2>2
    <2> QED
      BY <2>3 DEF Calls
  <1> HIDE DEF call
  <1>4. /\ issued' \in Seq(Calls)
        /\ Len(issued) \in 0..(Len(issued') - 1)
        /\ issued'[Len(issued) + 1] = call
        /\ \A id, d : Owner(id, d) => Owner(id, d)'
        /\ OwnRequest \subseteq OwnRequest' /\ OwnResponse \subseteq OwnResponse'
    BY <1>1, <1>2, <1>3, OwnerStays
  <1>5. TypeOK'
    BY <1>1, <1>2, <1>4 DEF TypeOK
  <1>6. IdInv'
    <2>1. /\ outq' \in Seq(OwnRequest') /\ c2s' \in Seq(OwnRequest')
          /\ sout' \in Seq(OwnResponse') /\ s2c' \in Seq(OwnResponse')
      BY <1>1, <1>4, SeqIsMonotonic DEF CallInv, IdInv
    <2>2. slot'.full => [sync |-> TRUE, id |-> slot'.id, ret |-> slot'.ret]
                          \in OwnResponse'
      BY <1>1, <1>4 DEF CallInv, IdInv
    <2>3. \A p \in proms' : Owner(p.id, p.call)'
      BY <1>1, <1>4 DEF CallInv, IdInv
    <2>4. ASSUME NEW d \in Callers, pc'[d] # "idle"
          PROVE  Owner(msgId[d], Call(d))'
      <3>1. CASE d = c
        <4>1. msgId'[d] = Len(issued) /\ Call(d)' = call
          BY <1>1, <1>2, <3>1 DEF Call, call
        <4> QED
          BY <1>4, <4>1 DEF Owner
      <3>2. CASE d # c
        <4>1. pc[d] # "idle" /\ msgId'[d] = msgId[d] /\ Call(d)' = Call(d)
          BY <1>1, <1>2, <2>4, <3>2 DEF Call
        <4>2. Owner(msgId[d], Call(d))
          BY <4>1 DEF CallInv, IdInv
        <4>3. ASSUME NEW id, id = msgId[d], NEW e, e = Call(d)
              PROVE  Owner(id, e)'
          BY <1>4, <4>2, <4>3
        <4> QED
          BY <4>1, <4>3 DEF Owner
      <3> QED
        BY <3>1, <3>2
    <2> QED
      BY <2>1, <2>2, <2>3, <2>4 DEF IdInv
  <1>7. ReplyMatches'
    BY <1>1 DEF CallInv, ReplyMatches
  <1> QED
    BY <1>5, <1>6, <1>7 DEF CallInv

(* The request a caller schedules and the promise it keeps carry its id.   *)
LEMMA ScheduleStep ==
    ASSUME CallInv, NEW c \in Callers, ScheduleTransmission(c) PROVE CallInv'
  <1> DEFINE m == [sync |-> Sync(c), id |-> msgId[c], call |-> Call(c)]
  <1>1. /\ pc[c] = "schedule" /\ outq' = Append(outq, m)
        /\ pc' = [pc EXCEPT ![c] = IF Sync(c) THEN "wait" ELSE "emplace"]
        /\ UNCHANGED <<issued, made, msgId, c2s, s2c, conn, sessions, executed,
                       sout, slot, proms, results, crashed>>
    BY DEF ScheduleTransmission, netVars, serverVars
  <1>2. /\ TypeOK /\ issued \in Seq(Calls) /\ msgId \in [Callers -> Nat]
        /\ pc \in [Callers -> {"idle", "schedule", "wait", "emplace"}]
    BY DEF CallInv, TypeOK
  <1>3. m \in OwnRequest
    <2>1. Owner(msgId[c], Call(c))
      BY <1>1 DEF CallInv, IdInv
    <2>2. Call(c) \in Calls
      <3>1. msgId[c] + 1 \in 1..Len(issued) /\ issued[msgId[c] + 1] = Call(c)
        BY <1>2, <2>1 DEF Owner
      <3> QED
        BY <1>2, <3>1, ElementOfSeq
    <2>3. m \in Request /\ m.id = msgId[c] /\ m.call = Call(c)
      BY <1>2, <2>2 DEF Request, Sync
    <2> QED
      BY <2>1, <2>3 DEF OwnRequest
  <1> HIDE DEF m
  <1>4. outq' \in Seq(OwnRequest)
    BY <1>1, <1>3, PushKeeps DEF CallInv, IdInv
  <1>5. TypeOK'
    <2>1. outq' \in Seq(Request)
      BY <1>4, OwnTypes, SeqIsMonotonic
    <2>2. pc' \in [Callers -> {"idle", "schedule", "wait", "emplace"}]
      BY <1>1, <1>2
    <2> QED
      BY <1>1, <1>2, <2>1, <2>2 DEF TypeOK
  <1>6. IdInv'
    <2>1. \A d \in Callers : pc'[d] # "idle" => pc[d] # "idle" /\ Call(d)' = Call(d)
      BY <1>1, <1>2 DEF Call
    <2> QED
      BY <1>1, <1>4, <2>1, OwnerSame DEF CallInv, IdInv
  <1>7. ReplyMatches'
    BY <1>1 DEF CallInv, ReplyMatches
  <1> QED
    BY <1>5, <1>6, <1>7 DEF CallInv

(* A call has one id, so the response in lmessage with that id is its own. *)
LEMMA OwnReply ==
    ASSUME NEW m \in OwnResponse, NEW call, Owner(m.id, call)
    PROVE  m.ret = ReturnOf(call) /\ call \in Calls
  BY DEF OwnResponse, Owner

LEMMA WaitForIdStep ==
    ASSUME CallInv, NEW c \in Callers, WaitForId(c) PROVE CallInv'
  <1>1. /\ pc[c] = "wait" /\ slot.full /\ slot.id = msgId[c]
        /\ results' = results \cup {[call |-> Call(c), ret |-> slot.ret]}
        /\ slot' = [slot EXCEPT !.full = FALSE]
        /\ pc' = [pc EXCEPT ![c] = "idle"]
        /\ UNCHANGED <<issued, made, msgId, outq, c2s, s2c, conn, sessions,
                       executed, sout, proms, crashed>>
    BY DEF WaitForId, netVars, serverVars
  <1>2. /\ TypeOK
        /\ slot \in [full : BOOLEAN, id : Nat, ret : Returns \cup {ReturnOf(<<>>)}]
        /\ pc \in [Callers -> {"idle", "schedule", "wait", "emplace"}]
    BY DEF CallInv, TypeOK
  <1>3. slot.ret = ReturnOf(Call(c)) /\ Call(c) \in Calls
    <2> DEFINE m == [sync |-> TRUE, id |-> slot.id, ret |-> slot.ret]
    <2>1. m \in OwnResponse /\ m.id = msgId[c] /\ m.ret = slot.ret
      BY <1>1 DEF CallInv, IdInv
    <2>2. Owner(msgId[c], Call(c))
      BY <1>1 DEF CallInv, IdInv
    <2> HIDE DEF m
    <2> QED
      BY <2>1, <2>2, OwnReply
  <1>4. TypeOK'
    <2>1. results' \subseteq [call : Calls, ret : Returns]
      BY <1>1, <1>2, <1>3 DEF TypeOK, Returns
    <2>2. slot' \in [full : BOOLEAN, id : Nat, ret : Returns \cup {ReturnOf(<<>>)}]
      BY <1>1, <1>2
    <2>3. pc' \in [Callers -> {"idle", "schedule", "wait", "emplace"}]
      BY <1>1, <1>2
    <2> QED
      BY <1>1, <1>2, <2>1, <2>2, <2>3 DEF TypeOK
  <1>5. IdInv'
    <2>1. \A d \in Callers : pc'[d] # "idle" => pc[d] # "idle" /\ Call(d)' = Call(d)
      BY <1>1, <1>2 DEF Call
    <2>2. ~slot'.full
      BY <1>1, <1>2
    <2> QED
      BY <1>1, <2>1, <2>2, OwnerSame DEF CallInv, IdInv
  <1>6. ReplyMatches'
    BY <1>1, <1>3 DEF CallInv, ReplyMatches
  <1> QED
    BY <1>4, <1>5, <1>6 DEF CallInv

LEMMA EmplaceStep == ASSUME CallInv, NEW c \in Callers, Emplace(c) PROVE CallInv'
  <1> DEFINE p == [id |-> msgId[c], call |-> Call(c)]
  <1>1. /\ pc[c] = "emplace"
        /\ pc' = [pc EXCEPT ![c] = "idle"]
        /\ proms' = proms \cup {p}
        /\ crashed' \in BOOLEAN
        /\ UNCHANGED <<issued, made, msgId, outq, c2s, s2c, conn, sessions,
                       executed, sout, slot, results>>
    BY DEF Emplace, netVars, serverVars, Emplacing
  <1>2. /\ TypeOK /\ issued \in Seq(Calls) /\ msgId \in [Callers -> Nat]
        /\ pc \in [Callers -> {"idle", "schedule", "wait", "emplace"}]
    BY DEF CallInv, TypeOK
  <1>3. Owner(msgId[c], Call(c)) /\ p.id = msgId[c] /\ p.call = Call(c)
    BY <1>1 DEF CallInv, IdInv
  <1>4. p \in [id : Nat, call : Calls]
    <2>1. msgId[c] + 1 \in 1..Len(issued) /\ issued[msgId[c] + 1] = Call(c)
      BY <1>2, <1>3 DEF Owner
    <2>2. Call(c) \in Calls
      BY <1>2, <2>1, ElementOfSeq
    <2> QED
      BY <1>2, <2>2
  <1> HIDE DEF p
  <1>5. TypeOK'
    <2>1. proms' \subseteq [id : Nat, call : Calls]
      BY <1>1, <1>2, <1>4 DEF TypeOK
    <2>2. pc' \in [Callers -> {"idle", "schedule", "wait", "emplace"}]
      BY <1>1, <1>2
    <2> QED
      BY <1>1, <1>2, <2>1, <2>2 DEF TypeOK
  <1>6. IdInv'
    <2>1. \A d \in Callers : pc'[d] # "idle" => pc[d] # "idle" /\ Call(d)' = Call(d)
      BY <1>1, <1>2 DEF Call
    <2>2. \A q \in proms' : Owner(q.id, q.call)
      BY <1>1, <1>3 DEF CallInv, IdInv
    <2> QED
      BY <1>1, <2>1, <2>2, OwnerSame DEF CallInv, IdInv
  <1>7. ReplyMatches'
    BY <1>1 DEF CallInv, ReplyMatches
  <1> QED
    BY <1>5, <1>6, <1>7 DEF CallInv

(* A message that moves from one queue to another keeps its id; the        *)
(* connection drops messages and changes none.                             *)
LEMMA TransportStep ==
    ASSUME CallInv, ClientSend \/ ServerSend \/ Execute \/ Connect \/ Disconnect
    PROVE  CallInv'
  <1>1. /\ UNCHANGED <<issued, pc, made, msgId, slot, proms, results, crashed>>
        /\ conn' \in {"down", "up"} /\ sessions' \in Nat
    <2>1. CASE ClientSend
      BY <2>1 DEF ClientSend, callVars, CallInv, TypeOK
    <2>2. CASE ServerSend
      BY <2>2 DEF ServerSend, callVars, CallInv, TypeOK
    <2>3. CASE Execute
      BY <2>3 DEF Execute, callVars, CallInv, TypeOK
    <2>4. CASE Connect \/ Disconnect
      BY <2>4 DEF Connect, Disconnect, callVars, CallInv, TypeOK
    <2> QED
      BY <2>1, <2>2, <2>3, <2>4
  <1>2. /\ outq \in Seq(OwnRequest) /\ c2s \in Seq(OwnRequest)
        /\ sout \in Seq(OwnResponse) /\ s2c \in Seq(OwnResponse)
    BY DEF CallInv, IdInv
  <1>3. /\ outq' \in Seq(OwnRequest) /\ c2s' \in Seq(OwnRequest)
        /\ sout' \in Seq(OwnResponse) /\ s2c' \in Seq(OwnResponse)
        /\ executed' \in [Callers -> Seq(Nat)]
    <2>1. CASE ClientSend
      <3>1. Head(outq) \in OwnRequest /\ Tail(outq) \in Seq(OwnRequest)
        BY <1>2, <2>1, PopKeeps DEF ClientSend
      <3>2. Append(c2s, Head(outq)) \in Seq(OwnRequest)
        BY <1>2, <3>1, PushKeeps
      <3> QED
        BY <1>2, <2>1, <3>1, <3>2 DEF ClientSend, serverVars, CallInv, TypeOK
    <2>2. CASE ServerSend
      <3>1. Head(sout) \in OwnResponse /\ Tail(sout) \in Seq(OwnResponse)
        BY <1>2, <2>2, PopKeeps DEF ServerSend
      <3>2. Append(s2c, Head(sout)) \in Seq(OwnResponse)
        BY <1>2, <3>1, PushKeeps
      <3> QED
        BY <1>2, <2>2, <3>1, <3>2 DEF ServerSend, CallInv, TypeOK
    <2>3. CASE Execute
      <3> DEFINE m == Head(c2s)
                 r == [sync |-> m.sync, id |-> m.id, ret |-> ReturnOf(m.call)]
      <3>1. m \in OwnRequest /\ Tail(c2s) \in Seq(OwnRequest)
        BY <1>2, <2>3, PopKeeps DEF Execute
      <3>2. /\ executed' = [executed EXCEPT ![m.call[1]] = Append(@, m.call[2])]
            /\ sout' = Append(sout, r) /\ c2s' = Tail(c2s)
            /\ UNCHANGED <<outq, s2c>>
        BY <2>3 DEF Execute
      <3> HIDE DEF m
      <3>3. m \in Request /\ Owner(m.id, m.call)
        BY <3>1 DEF OwnRequest
      <3>4. m.sync \in BOOLEAN /\ m.id \in Nat /\ m.call \in Calls
        BY <3>3 DEF Request
      <3>5. /\ r \in Response /\ r.id = m.id /\ r.ret = ReturnOf(m.call)
        BY <3>4 DEF Response, Returns
      <3> HIDE DEF r
      <3>6. r \in OwnResponse
        BY <3>3, <3>4, <3>5 DEF OwnResponse
      <3>7. sout' \in Seq(OwnResponse)
        BY <1>2, <3>2, <3>6, PushKeeps
      <3>8. executed' \in [Callers -> Seq(Nat)]
        <4>1. executed \in [Callers -> Seq(Nat)]
          BY DEF CallInv, TypeOK
        <4>2. PICK d \in Callers : m.call \in {d} \X (1..MaxCalls[d])
          BY <3>4 DEF Calls
        <4>3. m.call[1] = d /\ m.call[2] \in Nat
          BY <4>2, RpcAssumption DEF Callers
        <4>4. Append(executed[d], m.call[2]) \in Seq(Nat)
          BY <4>1, <4>3, PushKeeps
        <4> QED
          BY <3>2, <4>1, <4>3, <4>4
      <3> QED
        BY <1>2, <3>1, <3>2, <3>7, <3>8
    <2>4. CASE Connect
      BY <1>2, <2>4 DEF Connect, serverVars, CallInv, TypeOK
    <2>5. CASE Disconnect
      <3>1. PICK i \in 0..Len(outq) : outq' = SubSeq(outq, i + 1, Len(outq))
        BY <2>5 DEF Disconnect
      <3>2. PICK j \in 0..Len(sout) : sout' = SubSeq(sout, j + 1, Len(sout))
        BY <2>5 DEF Disconnect
      <3>3. outq' \in Seq(OwnRequest)
        BY <1>2, <3>1, SuffixKeeps
      <3>4. sout' \in Seq(OwnResponse)
        BY <1>2, <3>2, SuffixKeeps
      <3>5. c2s' = <<>> /\ s2c' = <<>> /\ UNCHANGED executed
        BY <2>5 DEF Disconnect
      <3> QED
        BY <3>3, <3>4, <3>5, EmptySeq DEF CallInv, TypeOK
    <2> QED
      BY <2>1, <2>2, <2>3, <2>4, <2>5
  <1>4. TypeOK'
    <2>1. /\ outq' \in Seq(Request) /\ c2s' \in Seq(Request)
          /\ sout' \in Seq(Response) /\ s2c' \in Seq(Response)
      BY <1>3, OwnTypes, SeqIsMonotonic
    <2> QED
      BY <1>1, <1>3, <2>1 DEF CallInv, TypeOK
  <1>5. IdInv'
    <2>1. \A d \in Callers : Call(d)' = Call(d)
      BY <1>1 DEF Call
    <2> QED
      BY <1>1, <1>3, <2>1, OwnerSame DEF CallInv, IdInv
  <1>6. ReplyMatches'
    BY <1>1 DEF CallInv, ReplyMatches
  <1> QED
    BY <1>4, <1>5, <1>6 DEF CallInv

(* The decode thread of the client puts a response where its id says.      *)
LEMMA ClientDecodeStep ==
    ASSUME CallInv, SetMsgIdCondition \/ NotifyPromise PROVE CallInv'
  <1> DEFINE m == Head(s2c)
  <1>1. /\ UNCHANGED <<issued, pc, made, msgId, outq, executed, sout, c2s, conn,
                       sessions>>
        /\ s2c # <<>> /\ s2c' = Tail(s2c)
    BY DEF SetMsgIdCondition, NotifyPromise, callVars, serverVars
  <1>2. m \in OwnResponse /\ s2c' \in Seq(OwnResponse)
    BY <1>1, PopKeeps DEF CallInv, IdInv
  <1>3. m \in Response
    BY <1>2, OwnTypes
  <1>4. s2c' \in Seq(Response)
    BY <1>2, OwnTypes, SeqIsMonotonic
  <1>5. \A d \in Callers : Call(d)' = Call(d)
    BY <1>1 DEF Call
  <1>6. CASE SetMsgIdCondition
    <2>1. /\ m.sync /\ slot' = [full |-> TRUE, id |-> m.id, ret |-> m.ret]
          /\ UNCHANGED <<proms, results, crashed>>
      BY <1>6 DEF SetMsgIdCondition
    <2> HIDE DEF m
    <2>2. m = [sync |-> TRUE, id |-> slot'.id, ret |-> slot'.ret] /\ slot'.full
      BY <1>3, <2>1 DEF Response
    <2>3. slot' \in [full : BOOLEAN, id : Nat, ret : Returns \cup {ReturnOf(<<>>)}]
      BY <1>3, <2>1 DEF Response
    <2>4. TypeOK'
      BY <1>1, <1>4, <2>1, <2>3 DEF CallInv, TypeOK
    <2>5. IdInv'
      BY <1>1, <1>2, <1>5, <2>1, <2>2, OwnerSame DEF CallInv, IdInv
    <2>6. ReplyMatches'
      BY <2>1 DEF CallInv, ReplyMatches
    <2> QED
      BY <2>4, <2>5, <2>6 DEF CallInv
  <1>7. CASE NotifyPromise
    <2> DEFINE found == {p \in proms : p.id = m.id}
    <2>1. /\ results' = results \cup {[call |-> p.call, ret |-> m.ret] : p \in found}
          /\ proms' = proms \ found
          /\ crashed' \in BOOLEAN
          /\ UNCHANGED slot
      BY <1>7 DEF NotifyPromise, Emplacing
    <2> HIDE DEF m
    <2>2. ASSUME NEW p \in found
          PROVE  p.call \in Calls /\ m.ret = ReturnOf(p.call)
      <3>1. Owner(m.id, p.call)
        BY <2>2 DEF CallInv, IdInv
      <3> QED
        BY <1>2, <3>1, OwnReply
    <2> HIDE DEF found
    <2>3. ASSUME NEW r \in results'
          PROVE  r \in [call : Calls, ret : Returns] /\ r.ret = ReturnOf(r.call)
      <3>1. CASE r \in results
        BY <3>1 DEF CallInv, TypeOK, ReplyMatches
      <3>2. CASE r \notin results
        <4>1. PICK p \in found : r = [call |-> p.call, ret |-> m.ret]
          BY <2>1, <2>3, <3>2
        <4>2. p.call \in Calls /\ m.ret = ReturnOf(p.call)
          BY <2>2
        <4> QED
          BY <4>1, <4>2 DEF Returns
      <3> QED
        BY <3>1, <3>2
    <2>4. TypeOK'
      BY <1>1, <1>4, <2>1, <2>3 DEF CallInv, TypeOK
    <2>5. IdInv'
      BY <1>1, <1>2, <1>5, <2>1, OwnerSame DEF CallInv, IdInv
    <2>6. ReplyMatches'
      BY <2>3 DEF ReplyMatches
    <2> QED
      BY <2>4, <2>5, <2>6 DEF CallInv
  <1> QED
    BY <1>6, <1>7

LEMMA NextCallInv == CallInv /\ [Next]_vars => CallInv'
  <1> SUFFICES ASSUME CallInv, [Next]_vars PROVE CallInv'
    OBVIOUS
  <1>1. CASE UNCHANGED vars
    BY <1>1, OwnerSame DEF vars, CallInv, TypeOK, IdInv, ReplyMatches, Call
  <1>2. ASSUME NEW c \in Callers, Caller(c) PROVE CallInv'
    BY <1>2, SetNewStep, ScheduleStep, WaitForIdStep, EmplaceStep DEF Caller
  <1> QED
    BY <1>1, <1>2, TransportStep, ClientDecodeStep DEF Next

-----------------------------------------------------------------------------
(* What the operations of a queue keep of the ids and the calls in it.     *)
LEMMA AppendIndices ==
    ASSUME NEW S, NEW q \in Seq(S), NEW m \in S, NEW r, r = Append(q, m)
    PROVE  /\ \A i \in 1..Len(r) : \/ i \in 1..Len(q) /\ r[i] = q[i]
                                   \/ i = Len(q) + 1 /\ r[i] = m
           /\ \A i \in 1..Len(q) : i \in 1..Len(r) /\ r[i] = q[i]
           /\ Len(q) + 1 \in 1..Len(r) /\ r[Len(q) + 1] = m
           /\ Len(q) \in Nat
  <1>1. /\ Len(q) \in Nat /\ Len(r) = Len(q) + 1 /\ r[Len(q) + 1] = m
        /\ \A i \in 1..Len(q) : r[i] = q[i]
    BY AppendProperties
  <1> QED
    BY <1>1

LEMMA IdsAppend ==
    ASSUME NEW S, NEW q \in Seq(S), NEW m \in S
    PROVE  /\ Ids(Append(q, m)) = Ids(q) \cup {m.id}
           /\ Distinct(q) /\ m.id \notin Ids(q) => Distinct(Append(q, m))
  <1>0. PICK r : r = Append(q, m)
    OBVIOUS
  <1>1. /\ \A i \in 1..Len(r) : \/ i \in 1..Len(q) /\ r[i] = q[i]
                                \/ i = Len(q) + 1 /\ r[i] = m
        /\ \A i \in 1..Len(q) : i \in 1..Len(r) /\ r[i] = q[i]
        /\ Len(q) + 1 \in 1..Len(r) /\ r[Len(q) + 1] = m
    BY <1>0, AppendIndices
  <1>2. Ids(r) = Ids(q) \cup {m.id}
    BY <1>1 DEF Ids
  <1>3. ASSUME Distinct(q), m.id \notin Ids(q) PROVE Distinct(r)
    <2>1. \A i \in 1..Len(q) : q[i].id # m.id
      BY <1>3 DEF Ids
    <2> QED
      BY <1>1, <1>3, <2>1 DEF Distinct
  <1> QED
    BY <1>0, <1>2, <1>3

LEMMA AsyncAppend ==
    ASSUME NEW S, NEW q \in Seq(S), NEW m \in S, NEW T,
           AsyncIds(q) \subseteq T, m.sync \/ m.id \in T
    PROVE  AsyncIds(Append(q, m)) \subseteq T
  <1>0. PICK r : r = Append(q, m)
    OBVIOUS
  <1>1. \A i \in 1..Len(r) : \/ i \in 1..Len(q) /\ r[i] = q[i]
                             \/ i = Len(q) + 1 /\ r[i] = m
    BY <1>0, AppendIndices
  <1> QED
    BY <1>0, <1>1 DEF AsyncIds

LEMMA RequestedAppend ==
    ASSUME NEW S, NEW q \in Seq(S), NEW m \in S
    PROVE  /\ Requested(Append(q, m)) = Requested(q) \cup {m.call}
           /\ Ordered(q) /\ Before(Requested(q), {m.call}) => Ordered(Append(q, m))
  <1>0. PICK r : r = Append(q, m)
    OBVIOUS
  <1>1. /\ \A i \in 1..Len(r) : \/ i \in 1..Len(q) /\ r[i] = q[i]
                                \/ i = Len(q) + 1 /\ r[i] = m
        /\ \A i \in 1..Len(q) : i \in 1..Len(r) /\ r[i] = q[i]
        /\ Len(q) + 1 \in 1..Len(r) /\ r[Len(q) + 1] = m
        /\ Len(q) \in Nat
    BY <1>0, AppendIndices
  <1>2. Requested(r) = Requested(q) \cup {m.call}
    BY <1>1 DEF Requested
  <1>3. ASSUME Ordered(q), Before(Requested(q), {m.call}) PROVE Ordered(r)
    <2>1. \A i \in 1..Len(q) : q[i].call[1] = m.call[1] => q[i].call[2] < m.call[2]
      BY <1>3 DEF Before, Requested
    <2> SUFFICES ASSUME NEW i \in 1..Len(r), NEW j \in 1..Len(r), i < j,
                        r[i].call[1] = r[j].call[1]
                 PROVE  r[i].call[2] < r[j].call[2]
      BY DEF Ordered
    <2>2. i \in 1..Len(q) /\ r[i] = q[i]
      BY <1>1, AppendProperties, <1>0
    <2>3. CASE j \in 1..Len(q)
      BY <1>1, <1>3, <2>2, <2>3 DEF Ordered
    <2>4. CASE j = Len(q) + 1
      BY <1>1, <2>1, <2>2, <2>4
    <2> QED
      BY <1>1, <2>3, <2>4
  <1> QED
    BY <1>0, <1>2, <1>3

LEMMA QueueSuffix ==
    ASSUME NEW S, NEW q \in Seq(S), NEW r, NEW k \in Nat,
           Len(r) \in Nat, Len(r) + k = Len(q), \A i \in 1..Len(r) : r[i] = q[i + k]
    PROVE  /\ Ids(r) \subseteq Ids(q) /\ AsyncIds(r) \subseteq AsyncIds(q)
           /\ Requested(r) \subseteq Requested(q)
           /\ Distinct(q) => Distinct(r)
           /\ Ordered(q) => Ordered(r)
  <1>1. Len(q) \in Nat
    BY LenProperties
  <1>2. \A i \in 1..Len(r) : i + k \in 1..Len(q) /\ r[i] = q[i + k]
    BY <1>1
  <1>3. Ids(r) \subseteq Ids(q)
    BY <1>2 DEF Ids
  <1>4. AsyncIds(r) \subseteq AsyncIds(q)
    BY <1>2 DEF AsyncIds
  <1>5. Requested(r) \subseteq Requested(q)
    BY <1>2 DEF Requested
  <1>6. Distinct(q) => Distinct(r)
    <2>1. \A i, j \in 1..Len(r) : i + k = j + k => i = j
      OBVIOUS
    <2> QED
      BY <1>2, <2>1 DEF Distinct
  <1>7. Ordered(q) => Ordered(r)
    <2>1. \A i, j \in 1..Len(r) : i < j => i + k < j + k
      OBVIOUS
    <2> QED
      BY <1>2, <2>1 DEF Ordered
  <1> QED
    BY <1>3, <1>4, <1>5, <1>6, <1>7

LEMMA QueueTail ==
    ASSUME NEW S, NEW q \in Seq(S), q # <<>>
    PROVE  /\ Ids(Tail(q)) \subseteq Ids(q) /\ AsyncIds(Tail(q)) \subseteq AsyncIds(q)
           /\ Requested(Tail(q)) \subseteq Requested(q)
           /\ Head(q).id \in Ids(q) /\ Head(q).call \in Requested(q)
           /\ ~Head(q).sync => Head(q).id \in AsyncIds(q)
           /\ Distinct(q) => Distinct(Tail(q)) /\ Head(q).id \notin Ids(Tail(q))
           /\ Ordered(q) => /\ Ordered(Tail(q))
                            /\ Before({Head(q).call}, Requested(Tail(q)))
  <1> DEFINE r == Tail(q)
  <1>1. /\ Len(q) \in Nat /\ Len(r) = Len(q) - 1
        /\ \A i \in 1..Len(r) : r[i] = q[i + 1]
    BY HeadTailProperties, LenProperties
  <1>2. Head(q) = q[1] /\ 1 \in 1..Len(q)
    BY EmptySeq, LenProperties
  <1>3. Len(r) \in Nat /\ Len(r) + 1 = Len(q) /\ 1 \in Nat
    BY <1>1, <1>2
  <1> HIDE DEF r
  <1>4. /\ Ids(r) \subseteq Ids(q) /\ AsyncIds(r) \subseteq AsyncIds(q)
        /\ Requested(r) \subseteq Requested(q)
        /\ Distinct(q) => Distinct(r)
        /\ Ordered(q) => Ordered(r)
    BY <1>1, <1>3, QueueSuffix
  <1>5. /\ Head(q).id \in Ids(q) /\ Head(q).call \in Requested(q)
        /\ ~Head(q).sync => Head(q).id \in AsyncIds(q)
    BY <1>2 DEF Ids, Requested, AsyncIds
  <1>6. \A i \in 1..Len(r) : i + 1 \in 1..Len(q) /\ 1 < i + 1 /\ r[i] = q[i + 1]
    BY <1>1
  <1>7. Distinct(q) => Head(q).id \notin Ids(r)
    BY <1>2, <1>6 DEF Distinct, Ids
  <1>8. Ordered(q) => Before({Head(q).call}, Requested(r))
    BY <1>2, <1>6 DEF Ordered, Before, Requested
  <1> QED
    BY <1>4, <1>5, <1>7, <1>8 DEF r

LEMMA QueueDrop ==
    ASSUME NEW S, NEW q \in Seq(S), NEW k \in 0..Len(q)
    PROVE  LET r == SubSeq(q, k + 1, Len(q))
           IN  /\ Ids(r) \subseteq Ids(q) /\ AsyncIds(r) \subseteq AsyncIds(q)
               /\ Requested(r) \subseteq Requested(q)
               /\ Distinct(q) => Distinct(r)
               /\ Ordered(q) => Ordered(r)
  <1> DEFINE r == SubSeq(q, k + 1, Len(q))
  <1>1. Len(q) \in Nat /\ k \in Nat
    BY LenProperties
  <1>2. Len(r) = Len(q) - k /\ \A i \in 1..Len(r) : r[i] = q[i + k]
    BY <1>1
  <1>3. Len(r) \in Nat /\ Len(r) + k = Len(q)
    BY <1>1, <1>2
  <1> HIDE DEF r
  <1>4. /\ Ids(r) \subseteq Ids(q) /\ AsyncIds(r) \subseteq AsyncIds(q)
        /\ Requested(r) \subseteq Requested(q)
        /\ Distinct(q) => Distinct(r)
        /\ Ordered(q) => Ordered(r)
    BY <1>1, <1>2, <1>3, QueueSuffix
  <1> QED
    BY <1>4 DEF r

LEMMA QueueEmpty ==
    /\ Ids(<<>>) = {} /\ AsyncIds(<<>>) = {} /\ Requested(<<>>) = {}
    /\ Distinct(<<>>) /\ Ordered(<<>>)
  BY DEF Ids, AsyncIds, Requested, Distinct, Ordered

(* What the steps below need of the invariant they extend.                 *)
LEMMA CallFacts ==
    ASSUME CallInv
    PROVE  /\ outq \in Seq(OwnRequest) /\ c2s \in Seq(OwnRequest)
           /\ sout \in Seq(OwnResponse) /\ s2c \in Seq(OwnResponse)
           /\ pc \in [Callers -> {"idle", "schedule", "wait", "emplace"}]
           /\ made \in [Callers -> Nat] /\ msgId \in [Callers -> Nat]
           /\ executed \in [Callers -> Seq(Nat)]
           /\ \A c \in Callers : pc[c] # "idle" => Owner(msgId[c], Call(c))
  BY DEF CallInv, TypeOK, IdInv

(* The ids in flight have been handed out.                                 *)
LEMMA IdsTaken ==
    ASSUME CallInv
    PROVE  Len(issued) \notin Ids(outq) \cup Ids(c2s) \cup Ids(sout) \cup Ids(s2c)
  <1>1. Len(issued) \in Nat
    BY DEF CallInv, TypeOK
  <1>2. \A m \in OwnRequest \cup OwnResponse : m.id # Len(issued)
    BY <1>1 DEF OwnRequest, OwnResponse, Owner
  <1>3. ASSUME NEW S, S \subseteq OwnRequest \cup OwnResponse, NEW q \in Seq(S)
        PROVE  Len(issued) \notin Ids(q)
    <2>1. \A i \in 1..Len(q) : q[i] \in S
      BY ElementOfSeq
    <2> QED
      BY <1>2, <1>3, <2>1 DEF Ids
  <1> QED
    BY <1>3, CallFacts

(* A request scheduled by c carries c's id and call, a response those of   *)
(* its request.                                                            *)
LEMMA ScheduledRequest ==
    ASSUME CallInv, NEW c \in Callers, ScheduleTransmission(c)
    PROVE  \E m \in OwnRequest :
             /\ outq' = Append(outq, m)
             /\ m.id = msgId[c] /\ m.call = Call(c) /\ m.sync = (c \in SyncCallers)
  <1> DEFINE m == [sync |-> Sync(c), id |-> msgId[c], call |-> Call(c)]
  <1>1. pc[c] = "schedule" /\ outq' = Append(outq, m)
    BY DEF ScheduleTransmission
  <1>2. Owner(msgId[c], Call(c)) /\ msgId[c] \in Nat /\ issued \in Seq(Calls)
    BY <1>1, CallFacts DEF CallInv, TypeOK
  <1>3. Call(c) \in Calls
    <2>1. msgId[c] + 1 \in 1..Len(issued) /\ issued[msgId[c] + 1] = Call(c)
      BY <1>2 DEF Owner
    <2> QED
      BY <1>2, <2>1, ElementOfSeq
  <1>4. m \in Request /\ m.id = msgId[c] /\ m.call = Call(c) /\ m.sync = (c \in SyncCallers)
    BY <1>2, <1>3 DEF Request, Sync
  <1> HIDE DEF m
  <1>5. m \in OwnRequest
    BY <1>2, <1>4 DEF OwnRequest
  <1> QED
    BY <1>1, <1>4, <1>5

LEMMA ExecutedRequest ==
    ASSUME CallInv, Execute
    PROVE  \E r \in OwnResponse :
             /\ sout' = Append(sout, r) /\ c2s' = Tail(c2s) /\ c2s # <<>>
             /\ r.id = Head(c2s).id /\ r.sync = Head(c2s).sync
  <1> DEFINE m == Head(c2s)
             r == [sync |-> m.sync, id |-> m.id, ret |-> ReturnOf(m.call)]
  <1>1. c2s # <<>> /\ sout' = Append(sout, r) /\ c2s' = Tail(c2s)
    BY DEF Execute
  <1>2. m \in OwnRequest
    BY <1>1, PopKeeps, CallFacts
  <1> HIDE DEF m
  <1>3. /\ m.sync \in BOOLEAN /\ m.id \in Nat /\ m.call \in Calls
        /\ Owner(m.id, m.call)
    BY <1>2 DEF OwnRequest, Request
  <1>4. r \in Response /\ r.id = m.id /\ r.ret = ReturnOf(m.call) /\ r.sync = m.sync
    BY <1>3 DEF Response, Returns
  <1> HIDE DEF r
  <1>5. r \in OwnResponse
    BY <1>3, <1>4 DEF OwnResponse
  <1> QED
    BY <1>1, <1>4, <1>5 DEF m

(* An id moves along the queues or is lost with the connection; it is      *)
(* never in two places.                                                    *)
LEMMA OnceStep == IInv /\ [Next]_vars => OnceInv'
  <1> SUFFICES ASSUME CallInv, OnceInv, [Next]_vars PROVE OnceInv'
    BY DEF IInv
  <1>0. /\ outq \in Seq(OwnRequest) /\ c2s \in Seq(OwnRequest)
        /\ sout \in Seq(OwnResponse) /\ s2c \in Seq(OwnResponse)
        /\ pc \in [Callers -> {"idle", "schedule", "wait", "emplace"}]
        /\ msgId \in [Callers -> Nat]
    BY CallFacts
  <1>1. ASSUME NEW c \in Callers, SetNew(c) PROVE OnceInv'
    <2>1. /\ msgId' = [msgId EXCEPT ![c] = Len(issued)]
          /\ pc' = [pc EXCEPT ![c] = "schedule"]
          /\ UNCHANGED <<outq, c2s, sout, s2c>>
      BY <1>1 DEF SetNew, nid, netVars, serverVars
    <2>2. \A d \in Callers \ {c} : msgId'[d] = msgId[d] /\ pc'[d] = pc[d]
      BY <1>0, <2>1
    <2>3. msgId'[c] = Len(issued)
      BY <1>0, <2>1
    <2> QED
      BY <2>1, <2>2, <2>3, IdsTaken DEF OnceInv
  <1>2. ASSUME NEW c \in Callers, ScheduleTransmission(c) PROVE OnceInv'
    <2>1. PICK m \in OwnRequest : outq' = Append(outq, m) /\ m.id = msgId[c]
      BY <1>2, ScheduledRequest
    <2>2. /\ pc[c] = "schedule"
          /\ pc' = [pc EXCEPT ![c] = IF Sync(c) THEN "wait" ELSE "emplace"]
          /\ UNCHANGED <<msgId, c2s, sout, s2c>>
      BY <1>2 DEF ScheduleTransmission, netVars, serverVars
    <2>3. /\ Ids(outq') = Ids(outq) \cup {msgId[c]}
          /\ Distinct(outq) /\ msgId[c] \notin Ids(outq) => Distinct(outq')
      BY <1>0, <2>1, IdsAppend
    <2>4. ASSUME NEW d \in Callers, pc'[d] = "schedule"
          PROVE  pc[d] = "schedule" /\ msgId[d] # msgId[c]
      <3>1. d # c /\ pc[d] = "schedule"
        BY <1>0, <2>2, <2>4
      <3>2. Owner(msgId[c], Call(c)) /\ Owner(msgId[d], Call(d)) /\ Call(c) # Call(d)
        BY <2>2, <3>1, CallFacts DEF Call
      <3> QED
        BY <3>1, <3>2 DEF Owner
    <2> QED
      BY <2>2, <2>3, <2>4 DEF OnceInv
  <1>3. ASSUME NEW c \in Callers, WaitForId(c) \/ Emplace(c) PROVE OnceInv'
    <2>1. pc' = [pc EXCEPT ![c] = "idle"] /\ UNCHANGED <<msgId, outq, c2s, sout, s2c>>
      BY <1>3 DEF WaitForId, Emplace, netVars, serverVars
    <2>2. \A d \in Callers : pc'[d] = "schedule" => pc[d] = "schedule"
      BY <1>0, <2>1
    <2> QED
      BY <2>1, <2>2 DEF OnceInv
  <1>4. CASE ClientSend
    <2>1. /\ outq # <<>> /\ outq' = Tail(outq) /\ c2s' = Append(c2s, Head(outq))
          /\ UNCHANGED <<pc, msgId, sout, s2c>>
      BY <1>4 DEF ClientSend, callVars, serverVars
    <2>2. /\ Ids(outq') \subseteq Ids(outq) /\ Head(outq).id \in Ids(outq)
          /\ Distinct(outq) => Distinct(outq') /\ Head(outq).id \notin Ids(outq')
      BY <2>1, <1>0, QueueTail
    <2>3. Head(outq) \in OwnRequest
      BY <2>1, <1>0, PopKeeps
    <2>4. /\ Ids(c2s') = Ids(c2s) \cup {Head(outq).id}
          /\ Distinct(c2s) /\ Head(outq).id \notin Ids(c2s) => Distinct(c2s')
      BY <2>1, <2>3, <1>0, IdsAppend
    <2> QED
      BY <2>1, <2>2, <2>4 DEF OnceInv
  <1>5. CASE ServerSend
    <2>1. /\ sout # <<>> /\ sout' = Tail(sout) /\ s2c' = Append(s2c, Head(sout))
          /\ UNCHANGED <<pc, msgId, outq, c2s>>
      BY <1>5 DEF ServerSend, callVars
    <2>2. /\ Ids(sout') \subseteq Ids(sout) /\ Head(sout).id \in Ids(sout)
          /\ Distinct(sout) => Distinct(sout') /\ Head(sout).id \notin Ids(sout')
      BY <2>1, <1>0, QueueTail
    <2>3. Head(sout) \in OwnResponse
      BY <2>1, <1>0, PopKeeps
    <2>4. /\ Ids(s2c') = Ids(s2c) \cup {Head(sout).id}
          /\ Distinct(s2c) /\ Head(sout).id \notin Ids(s2c) => Distinct(s2c')
      BY <2>1, <2>3, <1>0, IdsAppend
    <2> QED
      BY <2>1, <2>2, <2>4 DEF OnceInv
  <1>6. CASE Execute
    <2>1. PICK r \in OwnResponse :
            /\ sout' = Append(sout, r) /\ c2s' = Tail(c2s) /\ c2s # <<>>
            /\ r.id = Head(c2s).id
      BY <1>6, ExecutedRequest
    <2>2. UNCHANGED <<pc, msgId, outq, s2c>>
      BY <1>6 DEF Execute, callVars
    <2>3. /\ Ids(c2s') \subseteq Ids(c2s) /\ r.id \in Ids(c2s)
          /\ Distinct(c2s) => Distinct(c2s') /\ r.id \notin Ids(c2s')
      BY <2>1, <1>0, QueueTail
    <2>4. /\ Ids(sout') = Ids(sout) \cup {r.id}
          /\ Distinct(sout) /\ r.id \notin Ids(sout) => Distinct(sout')
      BY <2>1, <1>0, IdsAppend
    <2> QED
      BY <2>2, <2>3, <2>4 DEF OnceInv
  <1>7. CASE SetMsgIdCondition \/ NotifyPromise
    <2>1. s2c # <<>> /\ s2c' = Tail(s2c) /\ UNCHANGED <<pc, msgId, outq, c2s, sout>>
      BY <1>7 DEF SetMsgIdCondition, NotifyPromise, callVars, serverVars
    <2>2. Ids(s2c') \subseteq Ids(s2c) /\ (Distinct(s2c) => Distinct(s2c'))
      BY <2>1, <1>0, QueueTail
    <2> QED
      BY <2>1, <2>2 DEF OnceInv
  <1>8. CASE Connect
    <2>1. UNCHANGED <<pc, msgId, outq, c2s, sout, s2c>>
      BY <1>8 DEF Connect, callVars, serverVars
    <2> QED
      BY <2>1 DEF OnceInv
  <1>9. CASE Disconnect
    <2>1. PICK i \in 0..Len(outq) : outq' = SubSeq(outq, i + 1, Len(outq))
      BY <1>9 DEF Disconnect
    <2>2. PICK j \in 0..Len(sout) : sout' = SubSeq(sout, j + 1, Len(sout))
      BY <1>9 DEF Disconnect
    <2>3. c2s' = <<>> /\ s2c' = <<>> /\ UNCHANGED <<pc, msgId>>
      BY <1>9 DEF Disconnect, callVars
    <2>4. Ids(outq') \subseteq Ids(outq) /\ (Distinct(outq) => Distinct(outq'))
      BY <2>1, <1>0, QueueDrop
    <2>5. Ids(sout') \subseteq Ids(sout) /\ (Distinct(sout) => Distinct(sout'))
      BY <2>2, <1>0, QueueDrop
    <2>6. Ids(c2s') = {} /\ Ids(s2c') = {} /\ Distinct(c2s') /\ Distinct(s2c')
      BY <2>3, QueueEmpty
    <2> QED
      BY <2>3, <2>4, <2>5, <2>6 DEF OnceInv
  <1>10. CASE UNCHANGED vars
    <2>1. UNCHANGED <<pc, msgId, outq, c2s, sout, s2c>>
      BY <1>10 DEF vars
    <2> QED
      BY <2>1 DEF OnceInv
  <1> QED
    BY <1>1, <1>2, <1>3, <1>4, <1>5, <1>6, <1>7, <1>8, <1>9, <1>10 DEF Next, Caller

(* NotifyPromise takes a promise away only with the one response that has  *)
(* its id; SendAsync has its promise in the map before it returns.         *)
LEMMA PromiseStep == IInv /\ [Next]_vars => PromiseInv'
  <1> SUFFICES ASSUME CallInv, OnceInv, PromiseInv, [Next]_vars, ~crashed'
               PROVE  PromiseInv'
    BY DEF IInv, PromiseInv
  <1>0. /\ outq \in Seq(OwnRequest) /\ c2s \in Seq(OwnRequest)
        /\ sout \in Seq(OwnResponse) /\ s2c \in Seq(OwnResponse)
        /\ pc \in [Callers -> {"idle", "schedule", "wait", "emplace"}]
        /\ msgId \in [Callers -> Nat]
    BY CallFacts
  <1>1. ASSUME NEW c \in Callers, SetNew(c) \/ WaitForId(c) \/ Emplace(c)
        PROVE  PromiseInv'
    <2>1. UNCHANGED <<outq, c2s, sout, s2c>> /\ ~crashed
      BY <1>1 DEF SetNew, WaitForId, Emplace, netVars, serverVars
    <2>2. \A d \in Callers \ {c} : msgId'[d] = msgId[d] /\ pc'[d] = pc[d]
      BY <1>0, <1>1 DEF SetNew, WaitForId, Emplace
    <2>3. /\ proms \subseteq proms'
          /\ pc[c] = "emplace" => \E p \in proms' : p.id = msgId[c]
      <3>1. CASE SetNew(c) \/ WaitForId(c)
        BY <3>1 DEF SetNew, WaitForId
      <3>2. CASE Emplace(c)
        <4> DEFINE p == [id |-> msgId[c], call |-> Call(c)]
        <4>1. proms' = proms \cup {p} /\ p.id = msgId[c]
          BY <3>2 DEF Emplace
        <4> QED
          BY <4>1
      <3> QED
        BY <1>1, <3>1, <3>2
    <2>4. Owed \subseteq Owed'
      BY <2>2, <2>3 DEF Owed, Callers
    <2> QED
      BY <2>1, <2>4 DEF PromiseInv
  <1>2. ASSUME NEW c \in Callers, ScheduleTransmission(c) PROVE PromiseInv'
    <2>1. PICK m \in OwnRequest : /\ outq' = Append(outq, m)
                                  /\ m.id = msgId[c] /\ m.sync = (c \in SyncCallers)
      BY <1>2, ScheduledRequest
    <2>2. /\ pc[c] = "schedule" /\ ~crashed
          /\ pc' = [pc EXCEPT ![c] = IF c \in SyncCallers THEN "wait" ELSE "emplace"]
          /\ UNCHANGED <<msgId, c2s, sout, s2c, proms>>
      BY <1>2 DEF ScheduleTransmission, netVars, serverVars, Sync
    <2>3. Owed \subseteq Owed'
      <3>1. \A d \in AsyncCallers : pc[d] = "emplace" => pc'[d] = "emplace"
        BY <1>0, <2>2 DEF Callers
      <3> QED
        BY <2>2, <3>1 DEF Owed
    <2>4. m.sync \/ m.id \in Owed'
      <3>1. c \notin SyncCallers => c \in AsyncCallers /\ pc'[c] = "emplace"
        BY <1>0, <2>2 DEF Callers
      <3> QED
        BY <2>1, <2>2, <3>1 DEF Owed
    <2>5. AsyncIds(outq) \subseteq Owed'
      BY <2>2, <2>3 DEF PromiseInv
    <2>6. AsyncIds(outq') \subseteq Owed'
      BY <1>0, <2>1, <2>4, <2>5, AsyncAppend
    <2> QED
      BY <2>2, <2>3, <2>6 DEF PromiseInv
  <1>3. CASE ClientSend
    <2>1. /\ outq # <<>> /\ outq' = Tail(outq) /\ c2s' = Append(c2s, Head(outq))
          /\ UNCHANGED <<pc, msgId, sout, s2c, proms>> /\ ~crashed
      BY <1>3 DEF ClientSend, callVars, serverVars
    <2>2. Head(outq) \in OwnRequest
      BY <1>0, <2>1, PopKeeps
    <2>3. /\ AsyncIds(outq') \subseteq AsyncIds(outq)
          /\ ~Head(outq).sync => Head(outq).id \in AsyncIds(outq)
      BY <1>0, <2>1, QueueTail
    <2>4. AsyncIds(c2s) \subseteq Owed /\ (Head(outq).sync \/ Head(outq).id \in Owed)
      BY <2>1, <2>3 DEF PromiseInv
    <2>5. AsyncIds(c2s') \subseteq Owed
      BY <1>0, <2>1, <2>2, <2>4, AsyncAppend
    <2>6. Owed' = Owed
      BY <2>1 DEF Owed
    <2> QED
      BY <2>1, <2>3, <2>5, <2>6 DEF PromiseInv
  <1>4. CASE ServerSend
    <2>1. /\ sout # <<>> /\ sout' = Tail(sout) /\ s2c' = Append(s2c, Head(sout))
          /\ UNCHANGED <<pc, msgId, outq, c2s, proms, crashed>>
      BY <1>4 DEF ServerSend, callVars
    <2>2. Head(sout) \in OwnResponse
      BY <1>0, <2>1, PopKeeps
    <2>3. /\ AsyncIds(sout') \subseteq AsyncIds(sout)
          /\ ~Head(sout).sync => Head(sout).id \in AsyncIds(sout)
      BY <1>0, <2>1, QueueTail
    <2>4. AsyncIds(s2c) \subseteq Owed /\ (Head(sout).sync \/ Head(sout).id \in Owed)
      BY <2>1, <2>3 DEF PromiseInv
    <2>5. AsyncIds(s2c') \subseteq Owed
      BY <1>0, <2>1, <2>2, <2>4, AsyncAppend
    <2>6. Owed' = Owed
      BY <2>1 DEF Owed
    <2> QED
      BY <2>1, <2>3, <2>5, <2>6 DEF PromiseInv
  <1>5. CASE Execute
    <2>1. PICK r \in OwnResponse :
            /\ sout' = Append(sout, r) /\ c2s' = Tail(c2s) /\ c2s # <<>>
            /\ r.id = Head(c2s).id /\ r.sync = Head(c2s).sync
      BY <1>5, ExecutedRequest
    <2>2. UNCHANGED <<pc, msgId, outq, s2c, proms, crashed>>
      BY <1>5 DEF Execute, callVars
    <2>3. /\ AsyncIds(c2s') \subseteq AsyncIds(c2s)
          /\ ~Head(c2s).sync => Head(c2s).id \in AsyncIds(c2s)
      BY <1>0, <2>1, QueueTail
    <2>4. AsyncIds(sout) \subseteq Owed /\ (r.sync \/ r.id \in Owed)
      BY <2>1, <2>2, <2>3 DEF PromiseInv
    <2>5. AsyncIds(sout') \subseteq Owed
      BY <1>0, <2>1, <2>4, AsyncAppend
    <2>6. Owed' = Owed
      BY <2>2 DEF Owed
    <2> QED
      BY <2>2, <2>3, <2>5, <2>6 DEF PromiseInv
  <1>6. CASE SetMsgIdCondition
    <2>1. /\ s2c # <<>> /\ s2c' = Tail(s2c) /\ ~crashed
          /\ UNCHANGED <<pc, msgId, outq, c2s, sout, proms>>
      BY <1>6 DEF SetMsgIdCondition, callVars, serverVars
    <2>2. AsyncIds(s2c') \subseteq AsyncIds(s2c)
      BY <1>0, <2>1, QueueTail
    <2>3. Owed' = Owed
      BY <2>1 DEF Owed
    <2> QED
      BY <2>1, <2>2, <2>3 DEF PromiseInv
  <1>7. CASE NotifyPromise
    <2> DEFINE h == Head(s2c).id
    <2>1. /\ s2c # <<>> /\ s2c' = Tail(s2c) /\ ~crashed
          /\ UNCHANGED <<pc, msgId, outq, c2s, sout>>
          /\ \A p \in proms : p.id # h => p \in proms'
      BY <1>7 DEF NotifyPromise, callVars, serverVars
    <2>2. /\ AsyncIds(s2c') \subseteq AsyncIds(s2c) /\ h \in Ids(s2c)
          /\ Distinct(s2c) => h \notin Ids(s2c')
      BY <1>0, <2>1, QueueTail
    <2>3. \A id \in Owed : id # h => id \in Owed'
      BY <2>1 DEF Owed
    <2>4. h \notin Ids(outq) \cup Ids(c2s) \cup Ids(sout) \cup Ids(s2c')
      BY <2>2 DEF OnceInv
    <2>5. h \notin AsyncIds(outq) \cup AsyncIds(c2s) \cup AsyncIds(sout) \cup AsyncIds(s2c')
      BY <2>4 DEF Ids, AsyncIds
    <2> HIDE DEF h
    <2> QED
      BY <2>1, <2>2, <2>3, <2>5 DEF PromiseInv
  <1>8. CASE Connect \/ UNCHANGED vars
    <2>1. UNCHANGED <<pc, msgId, outq, c2s, sout, s2c, proms, crashed>>
      BY <1>8 DEF Connect, vars, callVars, serverVars
    <2> QED
      BY <2>1 DEF PromiseInv, Owed
  <1>9. CASE Disconnect
    <2>1. PICK i \in 0..Len(outq) : outq' = SubSeq(outq, i + 1, Len(outq))
      BY <1>9 DEF Disconnect
    <2>2. PICK j \in 0..Len(sout) : sout' = SubSeq(sout, j + 1, Len(sout))
      BY <1>9 DEF Disconnect
    <2>3. c2s' = <<>> /\ s2c' = <<>> /\ UNCHANGED <<pc, msgId, proms, crashed>>
      BY <1>9 DEF Disconnect, callVars
    <2>4. AsyncIds(outq') \subseteq AsyncIds(outq)
      BY <1>0, <2>1, QueueDrop
    <2>5. AsyncIds(sout') \subseteq AsyncIds(sout)
      BY <1>0, <2>2, QueueDrop
    <2>6. AsyncIds(c2s') = {} /\ AsyncIds(s2c') = {}
      BY <2>3, QueueEmpty
    <2>7. Owed' = Owed
      BY <2>3 DEF Owed
    <2> QED
      BY <2>3, <2>4, <2>5, <2>6, <2>7 DEF PromiseInv
  <1> QED
    BY <1>1, <1>2, <1>3, <1>4, <1>5, <1>6, <1>7, <1>8, <1>9 DEF Next, Caller

(* A call the server executes is the last one of its caller so far.        *)
LEMMA ExecutedAppend ==
    ASSUME executed \in [Callers -> Seq(Nat)], NEW d \in Callers, NEW k \in Nat,
           executed' = [executed EXCEPT ![d] = Append(@, k)]
    PROVE  /\ Executed' = Executed \cup {<<d, k>>}
           /\ ExecutedInOrder /\ Before(Executed, {<<d, k>>}) => ExecutedInOrder'
  <1>1. PICK q \in Seq(Nat) : q = executed[d]
    OBVIOUS
  <1>2. PICK r : r = Append(q, k)
    OBVIOUS
  <1>3. /\ \A i \in 1..Len(r) : \/ i \in 1..Len(q) /\ r[i] = q[i]
                                \/ i = Len(q) + 1 /\ r[i] = k
        /\ \A i \in 1..Len(q) : i \in 1..Len(r) /\ r[i] = q[i]
        /\ Len(q) + 1 \in 1..Len(r) /\ r[Len(q) + 1] = k
        /\ Len(q) \in Nat
    BY <1>2, AppendIndices
  <1>4. executed'[d] = r /\ \A c \in Callers \ {d} : executed'[c] = executed[c]
    BY <1>1, <1>2
  <1>5. Executed' = Executed \cup {<<d, k>>}
    <2>1. ASSUME NEW x \in Executed' PROVE x \in Executed \cup {<<d, k>>}
      <3>1. PICK c \in Callers : \E i \in 1..Len(executed'[c]) : x = <<c, executed'[c][i]>>
        BY <2>1 DEF Executed
      <3>2. PICK i \in 1..Len(executed'[c]) : x = <<c, executed'[c][i]>>
        BY <3>1
      <3>3. CASE c = d
        BY <1>1, <1>3, <1>4, <3>2, <3>3 DEF Executed
      <3>4. CASE c # d
        BY <1>4, <3>2, <3>4 DEF Executed
      <3> QED
        BY <3>3, <3>4
    <2>2. ASSUME NEW x \in Executed PROVE x \in Executed'
      <3>1. PICK c \in Callers : \E i \in 1..Len(executed[c]) : x = <<c, executed[c][i]>>
        BY <2>2 DEF Executed
      <3>2. PICK i \in 1..Len(executed[c]) : x = <<c, executed[c][i]>>
        BY <3>1
      <3>3. i \in 1..Len(executed'[c]) /\ x = <<c, executed'[c][i]>>
        BY <1>1, <1>3, <1>4, <3>2
      <3> QED
        BY <3>3 DEF Executed
    <2>3. <<d, k>> \in Executed'
      <3>1. PICK x : x = <<d, k>>
        OBVIOUS
      <3>2. PICK i \in 1..Len(executed'[d]) : x = <<d, executed'[d][i]>>
        BY <1>3, <1>4, <3>1
      <3>3. x \in Executed'
        BY <3>2 DEF Executed
      <3> QED
        BY <3>1, <3>3
    <2> QED
      BY <2>1, <2>2, <2>3
  <1>6. ASSUME ExecutedInOrder, Before(Executed, {<<d, k>>}) PROVE ExecutedInOrder'
    <2> SUFFICES ASSUME NEW c \in Callers, NEW i \in 1..Len(executed'[c]),
                        NEW j \in 1..Len(executed'[c]), i < j
                 PROVE  executed'[c][i] < executed'[c][j]
      BY DEF ExecutedInOrder
    <2>1. CASE c # d
      BY <1>4, <1>6, <2>1 DEF ExecutedInOrder
    <2>2. CASE c = d
      <3>1. i \in 1..Len(q) /\ r[i] = q[i]
        BY <1>2, <1>3, <1>4, <2>2, AppendProperties
      <3>2. CASE j \in 1..Len(q)
        BY <1>1, <1>3, <1>4, <1>6, <2>2, <3>1, <3>2 DEF ExecutedInOrder
      <3>3. CASE j = Len(q) + 1
        <4>1. <<d, q[i]>> \in Executed
          BY <1>1, <3>1 DEF Executed
        <4>2. q[i] < k
          BY <1>6, <4>1 DEF Before
        <4> QED
          BY <1>3, <1>4, <2>2, <3>1, <3>3, <4>2
      <3> QED
        BY <1>3, <1>4, <2>2, <3>2, <3>3
    <2> QED
      BY <2>1, <2>2
  <1> QED
    BY <1>5, <1>6

LEMMA CallShape ==
    ASSUME NEW call \in Calls
    PROVE  call[1] \in Callers /\ call[2] \in Nat /\ call = <<call[1], call[2]>>
  <1>1. PICK d \in Callers : call \in {d} \X (1..MaxCalls[d])
    BY DEF Calls
  <1>2. MaxCalls[d] \in Nat
    BY RpcAssumption DEF Callers
  <1> QED
    BY <1>1, <1>2

(* The calls that are on their way or executed are calls of the callers.   *)
LEMMA CallsUnderWay ==
    ASSUME CallInv
    PROVE  \A x \in Executed \cup Requested(c2s) \cup Requested(outq) :
             x[1] \in Callers /\ x[2] \in Nat
  <1>1. ASSUME NEW q \in Seq(OwnRequest), NEW x \in Requested(q)
        PROVE  x[1] \in Callers /\ x[2] \in Nat
    <2>1. PICK i \in 1..Len(q) : x = q[i].call
      BY DEF Requested
    <2>2. q[i] \in OwnRequest
      BY ElementOfSeq
    <2>3. x \in Calls
      BY <2>1, <2>2 DEF OwnRequest, Request
    <2> QED
      BY <2>3, CallShape
  <1>2. ASSUME NEW x \in Executed PROVE x[1] \in Callers /\ x[2] \in Nat
    <2>1. PICK c \in Callers : \E i \in 1..Len(executed[c]) : x = <<c, executed[c][i]>>
      BY DEF Executed
    <2>2. PICK i \in 1..Len(executed[c]) : x = <<c, executed[c][i]>>
      BY <2>1
    <2>3. executed[c] \in Seq(Nat)
      BY CallFacts
    <2>4. executed[c][i] \in Nat
      BY <2>3, ElementOfSeq
    <2> QED
      BY <2>2, <2>4
  <1> QED
    BY <1>1, <1>2, CallFacts

(* Both outbound queues and both decode threads are first in, first out:   *)
(* no step lets a call of a caller overtake another one.                   *)
LEMMA OrderStep == IInv /\ [Next]_vars => OrderInv'
  <1> SUFFICES ASSUME CallInv, OrderInv, [Next]_vars PROVE OrderInv'
    BY DEF IInv
  <1>0. /\ outq \in Seq(OwnRequest) /\ c2s \in Seq(OwnRequest)
        /\ pc \in [Callers -> {"idle", "schedule", "wait", "emplace"}]
        /\ made \in [Callers -> Nat] /\ executed \in [Callers -> Seq(Nat)]
        /\ \A x \in Executed \cup Requested(c2s) \cup Requested(outq) :
             x[1] \in Callers /\ x[2] \in Nat
    BY CallFacts, CallsUnderWay
  <1>1. ASSUME NEW c \in Callers, SetNew(c) \/ WaitForId(c) \/ Emplace(c)
        PROVE  OrderInv'
    <2>1. UNCHANGED <<outq, c2s, executed>>
      BY <1>1 DEF SetNew, WaitForId, Emplace, netVars, serverVars
    <2>2. \A d \in Callers : Scheduled(d)' = Scheduled(d)
      <3>1. CASE SetNew(c)
        <4>1. /\ pc[c] = "idle" /\ made' = [made EXCEPT ![c] = @ + 1]
              /\ pc' = [pc EXCEPT ![c] = "schedule"]
          BY <3>1 DEF SetNew
        <4> QED
          BY <1>0, <4>1 DEF Scheduled
      <3>2. CASE WaitForId(c) \/ Emplace(c)
        <4>1. pc[c] # "schedule" /\ made' = made /\ pc' = [pc EXCEPT ![c] = "idle"]
          BY <3>2 DEF WaitForId, Emplace
        <4> QED
          BY <1>0, <4>1 DEF Scheduled
      <3> QED
        BY <1>1, <3>1, <3>2
    <2>3. Executed' = Executed /\ (ExecutedInOrder => ExecutedInOrder')
      BY <2>1 DEF Executed, ExecutedInOrder
    <2> QED
      BY <1>0, <2>1, <2>2, <2>3 DEF OrderInv
  <1>2. ASSUME NEW c \in Callers, ScheduleTransmission(c) PROVE OrderInv'
    <2>1. PICK m \in OwnRequest : outq' = Append(outq, m) /\ m.call = <<c, made[c]>>
      BY <1>2, ScheduledRequest DEF Call
    <2>2. /\ pc[c] = "schedule"
          /\ pc' = [pc EXCEPT ![c] = IF Sync(c) THEN "wait" ELSE "emplace"]
          /\ UNCHANGED <<made, c2s, executed>>
      BY <1>2 DEF ScheduleTransmission, netVars, serverVars
    <2>3. /\ Scheduled(c) = made[c] - 1 /\ Scheduled(c)' = made[c]
          /\ \A d \in Callers \ {c} : Scheduled(d)' = Scheduled(d)
      BY <1>0, <2>2 DEF Scheduled
    <2>4. ASSUME NEW x \in Executed \cup Requested(c2s) \cup Requested(outq)
          PROVE  (x[1] = c => x[2] < made[c]) /\ x[2] <= Scheduled(x[1])'
      <3>1. x[1] \in Callers /\ x[2] \in Nat /\ x[2] <= Scheduled(x[1]) /\ made[c] \in Nat
        BY <1>0 DEF OrderInv
      <3>2. CASE x[1] = c
        <4>1. x[2] <= made[c] - 1
          BY <2>3, <3>1, <3>2
        <4> QED
          BY <2>3, <3>1, <3>2, <4>1
      <3>3. CASE x[1] # c
        BY <2>3, <3>1, <3>3
      <3> QED
        BY <3>2, <3>3
    <2>5. /\ Requested(outq') = Requested(outq) \cup {m.call}
          /\ Ordered(outq) /\ Before(Requested(outq), {m.call}) => Ordered(outq')
      BY <1>0, <2>1, RequestedAppend
    <2>6. /\ Before(Executed, {m.call}) /\ Before(Requested(c2s), {m.call})
          /\ Before(Requested(outq), {m.call})
      BY <2>1, <2>4 DEF Before
    <2>7. Executed' = Executed /\ (ExecutedInOrder => ExecutedInOrder')
      BY <2>2 DEF Executed, ExecutedInOrder
    <2>8. m.call[2] <= Scheduled(m.call[1])'
      BY <1>0, <2>1, <2>3
    <2>9. /\ Before(Executed, Requested(outq')) /\ Before(Requested(c2s), Requested(outq'))
      BY <2>5, <2>6 DEF OrderInv, Before
    <2> QED
      BY <2>2, <2>4, <2>5, <2>6, <2>7, <2>8, <2>9 DEF OrderInv
  <1>3. CASE ClientSend
    <2>1. /\ outq # <<>> /\ outq' = Tail(outq) /\ c2s' = Append(c2s, Head(outq))
          /\ UNCHANGED <<pc, made, executed>>
      BY <1>3 DEF ClientSend, callVars, serverVars
    <2>2. Head(outq) \in OwnRequest
      BY <1>0, <2>1, PopKeeps
    <2>3. /\ Requested(outq') \subseteq Requested(outq)
          /\ Head(outq).call \in Requested(outq)
          /\ Ordered(outq) => /\ Ordered(outq')
                              /\ Before({Head(outq).call}, Requested(outq'))
      BY <1>0, <2>1, QueueTail
    <2>4. /\ Requested(c2s') = Requested(c2s) \cup {Head(outq).call}
          /\ Ordered(c2s) /\ Before(Requested(c2s), {Head(outq).call}) => Ordered(c2s')
      <3>1. PICK m \in OwnRequest : m = Head(outq)
        BY <2>2
      <3>2. c2s \in Seq(OwnRequest) /\ c2s' = Append(c2s, m)
        BY <1>0, <2>1, <3>1
      <3> QED
        BY <3>1, <3>2, RequestedAppend
    <2>5. Executed' = Executed /\ (ExecutedInOrder => ExecutedInOrder')
      BY <2>1 DEF Executed, ExecutedInOrder
    <2>6. \A d : Scheduled(d)' = Scheduled(d)
      BY <2>1 DEF Scheduled
    <2>7. /\ Before(Requested(c2s), {Head(outq).call})
          /\ Before(Executed, Requested(c2s')) /\ Before(Executed, Requested(outq'))
          /\ Before(Requested(c2s'), Requested(outq'))
      BY <2>3, <2>4 DEF OrderInv, Before
    <2> QED
      BY <2>3, <2>4, <2>5, <2>6, <2>7 DEF OrderInv
  <1>4. CASE Execute
    <2> DEFINE call == Head(c2s).call
    <2>1. /\ c2s # <<>> /\ c2s' = Tail(c2s)
          /\ executed' = [executed EXCEPT ![call[1]] = Append(@, call[2])]
          /\ UNCHANGED <<pc, made, outq>>
      BY <1>4 DEF Execute, callVars
    <2>2. /\ Requested(c2s') \subseteq Requested(c2s) /\ call \in Requested(c2s)
          /\ Ordered(c2s) => Ordered(c2s') /\ Before({call}, Requested(c2s'))
      BY <1>0, <2>1, QueueTail
    <2>3. call[1] \in Callers /\ call[2] \in Nat /\ call = <<call[1], call[2]>>
      <3>1. Head(c2s) \in OwnRequest
        BY <1>0, <2>1, PopKeeps
      <3>2. call \in Calls
        BY <3>1 DEF OwnRequest, Request
      <3> QED
        BY <3>2, CallShape
    <2> HIDE DEF call
    <2>4. /\ Executed' = Executed \cup {call}
          /\ ExecutedInOrder /\ Before(Executed, {call}) => ExecutedInOrder'
      BY <1>0, <2>1, <2>3, ExecutedAppend
    <2>5. \A d : Scheduled(d)' = Scheduled(d)
      BY <2>1 DEF Scheduled
    <2>6. /\ Before(Executed, {call})
          /\ Before(Executed', Requested(c2s')) /\ Before(Executed', Requested(outq))
          /\ Before(Requested(c2s'), Requested(outq))
      BY <2>2, <2>4 DEF OrderInv, Before
    <2> QED
      BY <2>1, <2>2, <2>4, <2>5, <2>6 DEF OrderInv
  <1>5. CASE \/ ServerSend \/ SetMsgIdCondition \/ NotifyPromise \/ Connect
             \/ UNCHANGED vars
    <2>1. UNCHANGED <<pc, made, outq, c2s, executed>>
      BY <1>5 DEF ServerSend, SetMsgIdCondition, NotifyPromise, Connect, vars, callVars,
                  serverVars
    <2>2. Executed' = Executed /\ (ExecutedInOrder => ExecutedInOrder')
      BY <2>1 DEF Executed, ExecutedInOrder
    <2>3. \A d : Scheduled(d)' = Scheduled(d)
      BY <2>1 DEF Scheduled
    <2> QED
      BY <2>1, <2>2, <2>3 DEF OrderInv
  <1>6. CASE Disconnect
    <2>1. PICK i \in 0..Len(outq) : outq' = SubSeq(outq, i + 1, Len(outq))
      BY <1>6 DEF Disconnect
    <2>2. c2s' = <<>> /\ UNCHANGED <<pc, made, executed>>
      BY <1>6 DEF Disconnect, callVars
    <2>3. Requested(outq') \subseteq Requested(outq) /\ (Ordered(outq) => Ordered(outq'))
      BY <1>0, <2>1, QueueDrop
    <2>4. Requested(c2s') = {} /\ Ordered(c2s')
      BY <2>2, QueueEmpty
    <2>5. Executed' = Executed /\ (ExecutedInOrder => ExecutedInOrder')
      BY <2>2 DEF Executed, ExecutedInOrder
    <2>6. \A d : Scheduled(d)' = Scheduled(d)
      BY <2>2 DEF Scheduled
    <2>7. /\ Before(Executed, Requested(c2s')) /\ Before(Executed, Requested(outq'))
          /\ Before(Requested(c2s'), Requested(outq'))
      BY <2>3, <2>4 DEF OrderInv, Before
    <2> QED
      BY <2>3, <2>4, <2>5, <2>6, <2>7 DEF OrderInv
  <1> QED
    BY <1>1, <1>2, <1>3, <1>4, <1>5, <1>6 DEF Next, Caller

-----------------------------------------------------------------------------
(* What the server has executed stays executed, and the answers to it stay *)
(* earned.                                                                 *)
LEMMA ExecutedGrows ==
    ASSUME CallInv, [Next]_vars
    PROVE  /\ Executed \subseteq Executed'
           /\ Earned \subseteq Earned' /\ EarnedResponse \subseteq EarnedResponse'
  <1>1. Executed \subseteq Executed'
    <2>1. CASE Execute
      <3> DEFINE call == Head(c2s).call
      <3>1. /\ c2s # <<>>
            /\ executed' = [executed EXCEPT ![call[1]] = Append(@, call[2])]
        BY <2>1 DEF Execute
      <3>2. Head(c2s) \in OwnRequest
        BY <3>1, CallFacts, PopKeeps
      <3>3. call \in Calls
        BY <3>2 DEF OwnRequest, Request
      <3>4. call[1] \in Callers /\ call[2] \in Nat
        BY <3>3, CallShape
      <3> HIDE DEF call
      <3> QED
        BY <3>1, <3>4, CallFacts, ExecutedAppend
    <2>2. CASE ~Execute
      <3>1. UNCHANGED executed
        BY <2>2 DEF Next, Caller, SetNew, ScheduleTransmission, WaitForId, Emplace,
                    ClientSend, ServerSend, SetMsgIdCondition, NotifyPromise, Connect,
                    Disconnect, serverVars, vars
      <3> QED
        BY <3>1 DEF Executed
    <2> QED
      BY <2>1, <2>2
  <1> QED
    BY <1>1 DEF Earned, EarnedResponse

(* The server answers what it has executed, and an answer is only passed   *)
(* on: every response in flight and the one in lmessage are earned.        *)
LEMMA AnswerStep == IInv /\ [Next]_vars => AnswerInv'
  <1> SUFFICES ASSUME CallInv, AnswerInv, [Next]_vars PROVE AnswerInv'
    BY DEF IInv
  <1>1. /\ sout \in Seq(EarnedResponse) /\ s2c \in Seq(EarnedResponse)
        /\ slot.full => slot.ret \in Earned
        /\ slot \in [full : BOOLEAN, id : Nat, ret : Returns \cup {ReturnOf(<<>>)}]
    BY DEF AnswerInv, CallInv, TypeOK
  <1>2. Earned \subseteq Earned' /\ EarnedResponse \subseteq EarnedResponse'
    BY ExecutedGrows
  <1>3. /\ sout \in Seq(EarnedResponse') /\ s2c \in Seq(EarnedResponse')
        /\ slot.full => slot.ret \in Earned'
    BY <1>1, <1>2, SeqIsMonotonic
  <1>4. CASE Execute
    <2> DEFINE m == Head(c2s)
               r == [sync |-> m.sync, id |-> m.id, ret |-> ReturnOf(m.call)]
    <2>1. /\ c2s # <<>> /\ sout' = Append(sout, r) /\ UNCHANGED <<s2c, slot>>
          /\ executed' = [executed EXCEPT ![m.call[1]] = Append(@, m.call[2])]
      BY <1>4 DEF Execute
    <2>2. m \in OwnRequest
      BY <2>1, CallFacts, PopKeeps
    <2> HIDE DEF m
    <2>3. m.sync \in BOOLEAN /\ m.id \in Nat /\ m.call \in Calls
      BY <2>2 DEF OwnRequest, Request
    <2>4. /\ m.call[1] \in Callers /\ m.call[2] \in Nat
          /\ m.call = <<m.call[1], m.call[2]>>
      BY <2>3, CallShape
    <2>5. m.call \in Executed'
      BY <2>1, <2>4, CallFacts, ExecutedAppend
    <2>6. r \in EarnedResponse'
      BY <2>3, <2>5 DEF EarnedResponse, Earned, Response, Returns
    <2> HIDE DEF r
    <2>7. sout' \in Seq(EarnedResponse')
      BY <1>3, <2>1, <2>6, PushKeeps
    <2> QED
      BY <1>3, <2>1, <2>7 DEF AnswerInv
  <1>5. CASE ServerSend
    <2>1. /\ sout # <<>> /\ sout' = Tail(sout) /\ s2c' = Append(s2c, Head(sout))
          /\ UNCHANGED slot
      BY <1>5 DEF ServerSend
    <2>2. Head(sout) \in EarnedResponse' /\ sout' \in Seq(EarnedResponse')
      BY <1>3, <2>1, PopKeeps
    <2>3. s2c' \in Seq(EarnedResponse')
      BY <1>3, <2>1, <2>2, PushKeeps
    <2> QED
      BY <1>3, <2>1, <2>2, <2>3 DEF AnswerInv
  <1>6. CASE SetMsgIdCondition \/ NotifyPromise
    <2>1. s2c # <<>> /\ s2c' = Tail(s2c) /\ UNCHANGED sout
      BY <1>6 DEF SetMsgIdCondition, NotifyPromise, serverVars
    <2>2. Head(s2c) \in EarnedResponse' /\ s2c' \in Seq(EarnedResponse')
      BY <1>3, <2>1, PopKeeps
    <2>3. Head(s2c).ret \in Earned'
      BY <2>2 DEF EarnedResponse
    <2>4. slot' = slot \/ slot' = [full |-> TRUE, id |-> Head(s2c).id, ret |-> Head(s2c).ret]
      BY <1>6 DEF SetMsgIdCondition, NotifyPromise
    <2>5. slot'.full => slot'.ret \in Earned'
      BY <1>3, <2>3, <2>4
    <2> QED
      BY <1>3, <2>1, <2>2, <2>5 DEF AnswerInv
  <1>7. CASE Disconnect
    <2>1. PICK j \in 0..Len(sout) : sout' = SubSeq(sout, j + 1, Len(sout))
      BY <1>7 DEF Disconnect
    <2>2. s2c' = <<>> /\ UNCHANGED slot
      BY <1>7 DEF Disconnect
    <2>3. sout' \in Seq(EarnedResponse')
      BY <1>3, <2>1, SuffixKeeps
    <2> QED
      BY <1>3, <2>2, <2>3, EmptySeq DEF AnswerInv
  <1>8. ASSUME NEW c \in Callers, WaitForId(c) PROVE AnswerInv'
    <2>1. UNCHANGED <<sout, s2c>> /\ slot' = [slot EXCEPT !.full = FALSE]
      BY <1>8 DEF WaitForId, serverVars, netVars
    <2>2. ~slot'.full
      BY <1>1, <2>1
    <2> QED
      BY <1>3, <2>1, <2>2 DEF AnswerInv
  <1>9. CASE UNCHANGED <<sout, s2c, slot>>
    BY <1>3, <1>9 DEF AnswerInv
  <1>10. ASSUME NEW c \in Callers, Caller(c), ~WaitForId(c)
         PROVE  UNCHANGED <<sout, s2c, slot>>
    BY <1>10 DEF Caller, SetNew, ScheduleTransmission, Emplace, serverVars, netVars
  <1>11. ClientSend \/ Connect \/ UNCHANGED vars => UNCHANGED <<sout, s2c, slot>>
    BY DEF ClientSend, Connect, serverVars, vars
  <1> QED
    BY <1>4, <1>5, <1>6, <1>7, <1>8, <1>9, <1>10, <1>11 DEF Next

LEMMA InitIInv == Init => IInv
  <1> SUFFICES ASSUME Init PROVE IInv
    OBVIOUS
  <1>1. CallInv
    BY InitCallInv
  <1>2. outq = <<>> /\ c2s = <<>> /\ sout = <<>> /\ s2c = <<>>
    BY DEF Init
  <1>3. \A c \in Callers : executed[c] = <<>> /\ pc[c] = "idle"
    BY DEF Init
  <1>4. Executed = {} /\ ExecutedInOrder
    BY <1>3 DEF Executed, ExecutedInOrder
  <1>5. OrderInv
    BY <1>2, <1>4, QueueEmpty DEF OrderInv, Before
  <1>6. OnceInv
    BY <1>2, <1>3, QueueEmpty DEF OnceInv
  <1>7. PromiseInv
    BY <1>2, QueueEmpty DEF PromiseInv
  <1>8. AnswerInv
    BY <1>2, EmptySeq DEF Init, AnswerInv
  <1> QED
    BY <1>1, <1>5, <1>6, <1>7, <1>8 DEF IInv

(* The inductive invariant holds in every behaviour.                       *)
THEOREM Invariance == Spec => []IInv
  <1>1. IInv /\ [Next]_vars => IInv'
    BY NextCallInv, OrderStep, OnceStep, PromiseStep, AnswerStep DEF IInv
  <1> QED
    BY InitIInv, <1>1, PTL DEF Spec

(* However many threads call, whatever connections end in between and      *)
(* whatever is left in the outbound queues for the next one, SendSync      *)
(* returns and NotifyPromise sets a promise to the server's answer to that *)
(* call and to no other.                                                   *)
THEOREM ReplyMatchesAlways == Spec => []ReplyMatches
  <1>1. IInv => ReplyMatches
    BY DEF IInv, CallInv
  <1> QED
    BY <1>1, Invariance, PTL

(* Every queue holds well-formed messages, and every result comes from a   *)
(* call that was made.                                                     *)
THEOREM TypeCorrect == Spec => []TypeOK
  <1>1. IInv => TypeOK
    BY DEF IInv, CallInv
  <1> QED
    BY <1>1, Invariance, PTL

(* However many threads call and whatever connections end in between, the  *)
(* decode thread of the server executes the calls of each of them in the   *)
(* order they were made, and none twice.                                   *)
THEOREM ExecutedInOrderAlways == Spec => []ExecutedInOrder
  <1>1. IInv => ExecutedInOrder
    BY DEF IInv, OrderInv
  <1> QED
    BY <1>1, Invariance, PTL

(* Whatever threads call at once, at() of NotifyPromise finds the promise  *)
(* of a response unless its SendAsync is still between scheduling the      *)
(* request and emplacing the promise: no promise is taken away by another  *)
(* call's response.                                                        *)
THEOREM NoOrphanResponseAlways == Spec => []NoOrphanResponse
  <1>1. IInv => NoOrphanResponse
    <2> SUFFICES ASSUME IInv, ~crashed, NEW i \in 1..Len(s2c), ~s2c[i].sync
                 PROVE  HasPromise(s2c[i])
      BY DEF NoOrphanResponse
    <2>1. s2c[i].id \in AsyncIds(s2c)
      BY DEF AsyncIds
    <2>2. s2c[i].id \in Owed
      BY <2>1 DEF IInv, PromiseInv
    <2> QED
      BY <2>2 DEF Owed, HasPromise
  <1> QED
    BY <1>1, Invariance, PTL
-----------------------------------------------------------------------------
(* The answer to a call that was executed is a step of the abstract calls. *)
LEMMA AnswerRefines ==
    ASSUME IInv, NEW call \in Calls, ReturnOf(call) \in Earned,
           results' = results \cup {[call |-> call, ret |-> ReturnOf(call)]},
           UNCHANGED <<made, executed>>
    PROVE  Remote!Answer
  <1>1. call \in Executed
    <2>1. PICK x \in Executed : ReturnOf(call) = ReturnOf(x)
      BY DEF Earned
    <2>2. ReturnOf(call).of = call /\ ReturnOf(x).of = x
      BY DEF ReturnOf
    <2> QED
      BY <2>1, <2>2
  <1>2. call[1] \in Callers /\ call[2] \in Nat /\ call = <<call[1], call[2]>>
    BY CallShape
  <1>3. Remote!WasDone(call)
    <2>1. PICK c \in Callers : \E i \in 1..Len(executed[c]) : call = <<c, executed[c][i]>>
      BY <1>1 DEF Executed
    <2>2. PICK i \in 1..Len(executed[c]) : call = <<c, executed[c][i]>>
      BY <2>1
    <2>3. call[1] = c /\ call[2] = executed[c][i]
      BY <2>2
    <2> QED
      BY <2>3 DEF Remote!WasDone
  <1>4. call \in Asked
    <2>1. call[2] <= Scheduled(call[1])
      BY <1>1 DEF IInv, OrderInv
    <2>2. made[call[1]] \in Nat
      BY <1>2, CallFacts DEF IInv
    <2>3. call[2] <= made[call[1]]
      BY <1>2, <2>1, <2>2 DEF Scheduled
    <2> QED
      BY <2>3 DEF Asked
  <1>5. [x \in Calls |-> ReturnOf(x)][call] = ReturnOf(call)
    OBVIOUS
  <1>6. Asked' = Asked
    BY DEF Asked
  <1> QED
    BY <1>3, <1>4, <1>5, <1>6 DEF Remote!Answer

(* A call that begins is a new one.                                        *)
LEMMA AskRefines ==
    ASSUME IInv, NEW c \in Callers, SetNew(c)
    PROVE  Remote!Ask
  <1>1. /\ made[c] < MaxCalls[c] /\ made' = [made EXCEPT ![c] = @ + 1]
        /\ UNCHANGED <<executed, results>>
    BY DEF SetNew, serverVars
  <1>2. made \in [Callers -> Nat] /\ made[c] \in Nat /\ MaxCalls[c] \in Nat
    BY CallFacts, RpcAssumption DEF IInv, Callers
  <1>3. PICK k \in Nat : k = made[c] + 1
    BY <1>2
  <1>4. PICK call : call = <<c, k>>
    OBVIOUS
  <1>5. call \in Calls /\ call[1] = c /\ call[2] = k
    <2>1. k \in 1..MaxCalls[c]
      BY <1>1, <1>2, <1>3
    <2> QED
      BY <1>4, <2>1 DEF Calls
  <1>6. call \notin Asked
    BY <1>2, <1>3, <1>5 DEF Asked
  <1>7. Asked' = Asked \cup {call}
    <2>1. ASSUME NEW x \in Calls PROVE x \in Asked' <=> x \in Asked \/ x = call
      <3>1. x[1] \in Callers /\ x[2] \in Nat /\ x = <<x[1], x[2]>>
        BY CallShape
      <3>2. made[x[1]] \in Nat /\ made'[x[1]] = IF x[1] = c THEN k ELSE made[x[1]]
        BY <1>1, <1>2, <1>3, <3>1
      <3>3. x = call <=> x[1] = c /\ x[2] = k
        BY <1>4, <1>5, <3>1
      <3>4. x \in Asked' <=> x[2] <= made'[x[1]]
        BY DEF Asked
      <3>5. x \in Asked <=> x[2] <= made[x[1]]
        BY DEF Asked
      <3>6. CASE x[1] # c
        BY <3>2, <3>3, <3>4, <3>5, <3>6
      <3>7. CASE x[1] = c
        <4>1. made'[x[1]] = k /\ made[x[1]] = made[c]
          BY <3>2, <3>7
        <4>2. x[2] <= k <=> x[2] <= made[c] \/ x[2] = k
          BY <1>2, <1>3, <3>1
        <4> QED
          BY <3>3, <3>4, <3>5, <3>7, <4>1, <4>2
      <3> QED
        BY <3>6, <3>7
    <2>2. Asked' \subseteq Calls /\ Asked \subseteq Calls
      BY DEF Asked
    <2> QED
      BY <1>5, <2>1, <2>2
  <1> QED
    BY <1>1, <1>5, <1>6, <1>7 DEF Remote!Ask

(* The decode thread of the server executes a call that was made, and all  *)
(* it has executed for the same caller came before.                        *)
LEMMA DoRefines ==
    ASSUME IInv, Execute
    PROVE  Remote!Do
  <1>1. PICK call : call = Head(c2s).call
    OBVIOUS
  <1>2. /\ c2s # <<>>
        /\ executed' = [executed EXCEPT ![call[1]] = Append(@, call[2])]
        /\ UNCHANGED <<made, results>>
    BY <1>1 DEF Execute, callVars
  <1>3. c2s \in Seq(OwnRequest) /\ made \in [Callers -> Nat]
    BY CallFacts DEF IInv
  <1>4. Head(c2s) \in OwnRequest /\ call \in Requested(c2s)
    BY <1>1, <1>2, <1>3, PopKeeps, QueueTail
  <1>5. call \in Calls
    BY <1>1, <1>4 DEF OwnRequest, Request
  <1>6. call[1] \in Callers /\ call[2] \in Nat
    BY <1>5, CallShape
  <1>7. call \in Asked
    <2>1. call[2] <= Scheduled(call[1]) /\ made[call[1]] \in Nat
      BY <1>3, <1>4, <1>6 DEF IInv, OrderInv
    <2>2. call[2] <= made[call[1]]
      BY <1>6, <2>1 DEF Scheduled
    <2> QED
      BY <1>5, <2>2 DEF Asked
  <1>8. ASSUME NEW i \in 1..Len(executed[call[1]])
        PROVE  executed[call[1]][i] < call[2]
    <2>1. PICK x : x = <<call[1], executed[call[1]][i]>>
      OBVIOUS
    <2>2. x \in Executed
      BY <1>6, <2>1 DEF Executed
    <2>3. x[1] = call[1] => x[2] < call[2]
      BY <1>4, <2>2 DEF IInv, OrderInv, Before
    <2> QED
      BY <2>1, <2>3
  <1>9. Asked' = Asked
    BY <1>2 DEF Asked
  <1> QED
    BY <1>2, <1>7, <1>8, <1>9 DEF Remote!Do

(* Every step is a step of the abstract calls, or not seen.                *)
LEMMA StepRefines ==
    ASSUME IInv, [Next]_vars
    PROVE  [Remote!CNext]_<<Asked, executed, results>>
  <1> USE DEF Remote!CNext
  <1>1. ASSUME NEW c \in Callers, SetNew(c) PROVE Remote!CNext
    BY <1>1, AskRefines
  <1>2. CASE Execute
    BY <1>2, DoRefines
  <1>3. ASSUME NEW c \in Callers, WaitForId(c) PROVE Remote!CNext
    <2>1. /\ pc[c] = "wait" /\ slot.full /\ slot.id = msgId[c]
          /\ results' = results \cup {[call |-> Call(c), ret |-> slot.ret]}
          /\ UNCHANGED <<made, executed>>
      BY <1>3 DEF WaitForId, serverVars
    <2>2. slot.ret = ReturnOf(Call(c)) /\ Call(c) \in Calls
      <3> DEFINE m == [sync |-> TRUE, id |-> slot.id, ret |-> slot.ret]
      <3>1. m \in OwnResponse /\ m.id = msgId[c] /\ m.ret = slot.ret
        BY <2>1 DEF IInv, CallInv, IdInv
      <3>2. Owner(msgId[c], Call(c))
        BY <2>1 DEF IInv, CallInv, IdInv
      <3> HIDE DEF m
      <3> QED
        BY <3>1, <3>2, OwnReply
    <2>3. slot.ret \in Earned
      BY <2>1 DEF IInv, AnswerInv
    <2>4. PICK call \in Calls : call = Call(c)
      BY <2>2
    <2> QED
      BY <2>1, <2>2, <2>3, <2>4, AnswerRefines
  <1>4. CASE NotifyPromise
    <2>1. PICK m : m = Head(s2c)
      OBVIOUS
    <2>2. PICK found : found = {p \in proms : p.id = m.id}
      OBVIOUS
    <2>3. /\ s2c # <<>> /\ UNCHANGED <<made, executed>>
          /\ results' = results \cup {[call |-> p.call, ret |-> m.ret] : p \in found}
      BY <1>4, <2>1, <2>2 DEF NotifyPromise, callVars, serverVars
    <2>4. CASE found = {}
      <3>1. results' = results
        BY <2>3, <2>4
      <3> QED
        BY <2>3, <3>1 DEF Asked
    <2>5. CASE found # {}
      <3>1. PICK p \in found : TRUE
        BY <2>5
      <3>2. m \in OwnResponse /\ m \in EarnedResponse
        BY <2>1, <2>3, PopKeeps, CallFacts DEF IInv, AnswerInv
      <3>3. \A q \in found : Owner(m.id, q.call)
        BY <2>2 DEF IInv, CallInv, IdInv
      <3>4. \A q \in found : q.call = p.call
        BY <3>1, <3>3 DEF Owner
      <3>5. m.ret = ReturnOf(p.call) /\ p.call \in Calls
        BY <3>1, <3>2, <3>3, OwnReply
      <3>6. m.ret \in Earned
        BY <3>2 DEF EarnedResponse
      <3>7. results' = results \cup {[call |-> p.call, ret |-> ReturnOf(p.call)]}
        BY <2>3, <3>1, <3>4, <3>5
      <3>8. PICK call \in Calls : call = p.call
        BY <3>5
      <3> QED
        BY <2>3, <3>5, <3>6, <3>7, <3>8, AnswerRefines
    <2> QED
      BY <2>4, <2>5
  <1>5. CASE UNCHANGED <<made, executed, results>>
    BY <1>5 DEF Asked
  <1>6. ASSUME NEW c \in Callers, Caller(c), ~SetNew(c), ~WaitForId(c)
        PROVE  UNCHANGED <<made, executed, results>>
    BY <1>6 DEF Caller, ScheduleTransmission, Emplace, serverVars
  <1>7. ASSUME \/ ClientSend \/ ServerSend \/ SetMsgIdCondition \/ Connect \/ Disconnect
               \/ UNCHANGED vars
        PROVE  UNCHANGED <<made, executed, results>>
    BY <1>7 DEF ClientSend, ServerSend, SetMsgIdCondition, Connect, Disconnect, callVars,
           serverVars, vars
  <1>8. ASSUME NEW c \in Callers, Caller(c)
        PROVE  [Remote!CNext]_<<Asked, executed, results>>
    BY <1>1, <1>3, <1>5, <1>6, <1>8
  <1> QED
    BY <1>2, <1>4, <1>5, <1>7, <1>8 DEF Next

(* SendSync, SendAsync, the queues and the threads between them implement  *)
(* remote calls that are executed at most once, in the order of their      *)
(* caller, and answered only with what their execution returned, whatever  *)
(* connections break and however many threads call.                        *)
THEOREM CallsRefinement == Spec => ImplementsCalls
  <1>1. Init => Remote!CInit
    <2> SUFFICES ASSUME Init PROVE Asked = {}
      BY DEF Init, Remote!CInit
    <2>1. ASSUME NEW call \in Calls PROVE ~(call[2] <= made[call[1]])
      <3>1. PICK d \in Callers : call \in {d} \X (1..MaxCalls[d])
        BY DEF Calls
      <3>2. call[1] = d /\ call[2] \in 1..MaxCalls[d] /\ MaxCalls[d] \in Nat
        BY <3>1, RpcAssumption DEF Callers
      <3>3. made[call[1]] = 0
        BY <3>2 DEF Init
      <3> QED
        BY <3>2, <3>3
    <2> QED
      BY <2>1 DEF Asked
  <1>2. IInv /\ [Next]_vars => [Remote!CNext]_<<Asked, executed, results>>
    BY StepRefines
  <1>3. [Remote!CNext]_<<Asked, executed, results>> =>
          [Remote!CNext]_(Remote!callsVars)
    BY DEF Remote!callsVars
  <1> QED
    BY <1>1, <1>2, <1>3, Invariance, PTL DEF Spec, ImplementsCalls, Remote!Spec
=============================================================================
