------------------------- MODULE ControlService_proofs -------------------------
(***************************************************************************)
(* For any number of scheduling threads and commands, with or without      *)
(* spurious wakeups: the commands reach the controllers in the order they  *)
(* were scheduled, each once, and the control thread never sleeps on a     *)
(* command that nobody is about to announce.                               *)
(***************************************************************************)
EXTENDS ControlService, SequenceTheorems, TLAPS

(* There is no control thread before StartServices.                        *)
NoThreadYet == started = "null" => cpc = "off"

(* AllFifo and NoStrandedCommand are inductive together with the types and *)
(* the fact that StartServices does not start a second thread.             *)
IInv == TypeOK /\ AllFifo /\ NoStrandedCommand /\ NoThreadYet
-----------------------------------------------------------------------------
(* Taking the first element of the queue in hand, and writing it, keep the *)
(* order of the whole.                                                     *)
LEMMA PopFifo ==
    ASSUME NEW S, NEW a \in Seq(S), NEW b \in Seq(S), b # <<>>
    PROVE  /\ Head(b) \in S /\ Tail(b) \in Seq(S)
           /\ (a \o <<>>) \o b = (a \o <<Head(b)>>) \o Tail(b)
  <1>1. Head(b) \in S /\ Tail(b) \in Seq(S) /\ <<Head(b)>> \in Seq(S)
    BY HeadTailProperties
  <1>2. b = <<Head(b)>> \o Tail(b)
    BY HeadTailProperties, <1>1
  <1>3. a \o <<>> = a
    BY ConcatEmptySeq
  <1>4. a \o (<<Head(b)>> \o Tail(b)) = (a \o <<Head(b)>>) \o Tail(b)
    BY <1>1, ConcatAssociative
  <1> QED
    BY <1>1, <1>2, <1>3, <1>4

LEMMA WriteFifo ==
    ASSUME NEW S, NEW a \in Seq(S), NEW e \in S
    PROVE  Append(a, e) \in Seq(S) /\ Append(a, e) \o <<>> = a \o <<e>>
  <1>1. Append(a, e) \in Seq(S) /\ Append(a, e) = a \o <<e>>
    BY AppendProperties, AppendIsConcat
  <1> QED
    BY <1>1, ConcatEmptySeq
-----------------------------------------------------------------------------
LEMMA InitIInv == Init => IInv
  <1> SUFFICES ASSUME Init PROVE IInv
    OBVIOUS
  <1>1. <<>> \in Seq(Commands) /\ <<>> \o <<>> = <<>>
    BY EmptySeq, ConcatEmptySeq
  <1>2. /\ tpc \in [Threads -> {"idle", "notify", "await", "parked", "woken", "clear"}]
        /\ made \in [Threads -> 0..MaxCmds]
    BY ControlAssumption DEF Init
  <1>3. TypeOK
    BY <1>1, <1>2 DEF Init, TypeOK, Responses
  <1>4. AllFifo /\ NoStrandedCommand /\ NoThreadYet
    BY <1>1 DEF Init, AllFifo, InHand, NoStrandedCommand, NoThreadYet
  <1> QED
    BY <1>3, <1>4 DEF IInv

(* A step that neither fills nor empties the queue nor the hand.           *)
LEMMA FifoSame ==
    ASSUME IInv, UNCHANGED <<scheduled, written, q>>,
           cpc # "write", cpc' # "write"
    PROVE  AllFifo'
  BY DEF IInv, AllFifo, InHand

LEMMA PushStep == ASSUME IInv, NEW t \in Threads, Push(t) PROVE IInv'
  <1> DEFINE c == <<t, made[t] + 1>>
             w == written \o InHand
  <1>1. /\ tpc[t] = "idle" /\ made[t] < MaxCmds
        /\ made' = [made EXCEPT ![t] = @ + 1]
        /\ q' = Append(q, c) /\ scheduled' = Append(scheduled, c)
        /\ tpc' = [tpc EXCEPT ![t] = "notify"]
        /\ UNCHANGED <<started, running, spc, cpc, cmd, response, written, returned>>
    BY DEF Push, serviceVars
  <1>2. /\ tpc \in [Threads -> {"idle", "notify", "await", "parked", "woken", "clear"}]
        /\ made \in [Threads -> 0..MaxCmds]
        /\ q \in Seq(Commands) /\ scheduled \in Seq(Commands)
        /\ written \in Seq(Commands)
    BY DEF IInv, TypeOK
  <1>3. made[t] + 1 \in 1..MaxCmds
    BY <1>1, <1>2, ControlAssumption
  <1>4. c \in Commands
    BY <1>3 DEF Commands
  <1> HIDE DEF c
  <1>5. q' \in Seq(Commands) /\ scheduled' \in Seq(Commands)
    BY <1>1, <1>2, <1>4, AppendProperties
  <1>6. tpc' \in [Threads -> {"idle", "notify", "await", "parked", "woken", "clear"}]
    BY <1>1, <1>2
  <1>7. made' \in [Threads -> 0..MaxCmds]
    BY <1>1, <1>2, <1>3
  <1>8. TypeOK'
    BY <1>1, <1>2, <1>5, <1>6, <1>7 DEF IInv, TypeOK
  <1>9. AllFifo'
    <2>1. InHand \in Seq(Commands) /\ InHand' = InHand
      BY <1>1 DEF InHand, IInv, TypeOK
    <2>2. w \in Seq(Commands)
      BY <1>2, <2>1, ConcatProperties
    <2>3. scheduled = w \o q
      BY DEF IInv, AllFifo
    <2> HIDE DEF w
    <2>4. Append(w \o q, c) = w \o Append(q, c)
      <3>1. q \in Seq(Commands)
        BY <1>2
      <3>2. w \o q \in Seq(Commands) /\ <<c>> \in Seq(Commands)
        BY <1>4, <2>2, <3>1, ConcatProperties
      <3>3. Append(w \o q, c) = (w \o q) \o <<c>>
        BY <1>4, <3>2, AppendIsConcat
      <3>4. Append(q, c) = q \o <<c>>
        BY <1>4, <3>1, AppendIsConcat
      <3>5. (w \o q) \o <<c>> = w \o (q \o <<c>>)
        BY <2>2, <3>1, <3>2, ConcatAssociative
      <3> QED
        BY <3>3, <3>4, <3>5
    <2>5. scheduled' = w \o q'
      BY <1>1, <2>3, <2>4
    <2> QED
      BY <1>1, <2>1, <2>5 DEF AllFifo, w
  <1>10. NoStrandedCommand'
    BY <1>1, <1>2 DEF NoStrandedCommand
  <1>11. NoThreadYet'
    BY <1>1 DEF IInv, NoThreadYet
  <1> QED
    BY <1>8, <1>9, <1>10, <1>11 DEF IInv

(* The other steps of schedule, and a wait that ends spuriously.           *)
LEMMA ScheduleStep ==
    ASSUME IInv,
           \/ \E t \in Threads : NotifyOne(t) \/ AwaitReply(t) \/ TakeResponse(t)
                                 \/ ClearResponse(t)
           \/ SpuriousWakeup
    PROVE  IInv'
  <1> DEFINE PCs == {"idle", "notify", "await", "parked", "woken", "clear"}
  <1>0. tpc \in [Threads -> PCs]
    BY DEF IInv, TypeOK
  <1>1. /\ UNCHANGED <<started, running, spc, cmd, made, q, scheduled, written>>
        /\ cpc' = cpc \/ (cpc = "wait" /\ cpc' = "woken")
    BY DEF NotifyOne, AwaitReply, TakeResponse, ClearResponse, SpuriousWakeup,
           serviceVars, history
  <1>2. tpc' \in [Threads -> PCs]
    BY <1>0 DEF NotifyOne, AwaitReply, TakeResponse, ClearResponse, SpuriousWakeup
  <1>3. response' \in Responses
    BY DEF NotifyOne, AwaitReply, TakeResponse, ClearResponse, SpuriousWakeup,
           Torn, Responses, IInv, TypeOK
  <1>4. TypeOK'
    BY <1>1, <1>2, <1>3 DEF IInv, TypeOK
  <1>5. AllFifo'
    BY <1>1 DEF IInv, AllFifo, InHand
  <1>6. NoStrandedCommand'
    <2> SUFFICES ASSUME cpc' = "wait", q' # <<>>
                 PROVE  \E t \in Threads : tpc'[t] = "notify"
      BY DEF NoStrandedCommand
    <2>1. cpc = "wait" /\ q # <<>>
      BY <1>1
    <2>2. PICK t \in Threads : tpc[t] = "notify"
      BY <2>1 DEF IInv, NoStrandedCommand
    <2>3. ~ \E u \in Threads : NotifyOne(u)
      BY <2>1 DEF NotifyOne
    <2>4. tpc'[t] = "notify"
      BY <1>0, <2>2, <2>3
         DEF AwaitReply, TakeResponse, ClearResponse, SpuriousWakeup
    <2> QED
      BY <2>4
  <1>7. NoThreadYet'
    BY <1>1 DEF IInv, NoThreadYet
  <1> QED
    BY <1>4, <1>5, <1>6, <1>7 DEF IInv

(* process takes the first command in hand, sleeps on an empty queue only, *)
(* or returns to the loop.                                                 *)
LEMMA processStep == ASSUME IInv, process PROVE IInv'
  <1>1. /\ UNCHANGED <<started, running, spc, tpc, made, response, scheduled,
                       written, returned>>
        /\ cpc \in {"process", "woken"}
    BY DEF process, serviceVars, history
  <1>2. q \in Seq(Commands) /\ written \in Seq(Commands)
    BY DEF IInv, TypeOK
  <1>3. CASE q # <<>>
    <2>1. cmd' = Head(q) /\ q' = Tail(q) /\ cpc' = "write"
      BY <1>3 DEF process
    <2>2. /\ Head(q) \in Commands /\ Tail(q) \in Seq(Commands)
          /\ (written \o <<>>) \o q = (written \o <<Head(q)>>) \o Tail(q)
      BY <1>2, <1>3, PopFifo
    <2>3. TypeOK'
      BY <1>1, <2>1, <2>2 DEF IInv, TypeOK
    <2>4. AllFifo'
      BY <1>1, <2>1, <2>2 DEF IInv, AllFifo, InHand
    <2>5. NoStrandedCommand' /\ NoThreadYet'
      BY <1>1, <2>1 DEF NoStrandedCommand, IInv, NoThreadYet
    <2> QED
      BY <2>3, <2>4, <2>5 DEF IInv
  <1>4. CASE q = <<>>
    <2>1. cpc' \in {"wait", "loop"} /\ UNCHANGED <<cmd, q>>
      BY <1>4 DEF process
    <2>2. TypeOK'
      BY <1>1, <2>1 DEF IInv, TypeOK
    <2>3. AllFifo'
      BY <1>1, <2>1, FifoSame
    <2>4. NoStrandedCommand' /\ NoThreadYet'
      BY <1>1, <1>4, <2>1 DEF NoStrandedCommand, IInv, NoThreadYet
    <2> QED
      BY <2>2, <2>3, <2>4 DEF IInv
  <1> QED
    BY <1>3, <1>4

LEMMA WriteStep == ASSUME IInv, WriteCommand PROVE IInv'
  <1>1. /\ cpc = "write" /\ written' = Append(written, cmd)
        /\ cpc' \in {"read", "loop"}
        /\ UNCHANGED <<started, running, spc, cmd, tpc, made, q, response,
                       scheduled, returned>>
    BY DEF WriteCommand, serviceVars
  <1>2. written \in Seq(Commands) /\ cmd \in Commands
    BY <1>1 DEF IInv, TypeOK
  <1>3. /\ Append(written, cmd) \in Seq(Commands)
        /\ Append(written, cmd) \o <<>> = written \o <<cmd>>
    BY <1>2, WriteFifo
  <1>4. TypeOK'
    BY <1>1, <1>2, <1>3 DEF IInv, TypeOK
  <1>5. AllFifo'
    BY <1>1, <1>3 DEF IInv, AllFifo, InHand
  <1>6. NoStrandedCommand' /\ NoThreadYet'
    BY <1>1 DEF NoStrandedCommand, IInv, NoThreadYet
  <1> QED
    BY <1>4, <1>5, <1>6 DEF IInv

(* The remaining steps of the control thread.                              *)
LEMMA ControlStep ==
    ASSUME IInv, ServiceLoop \/ Reply \/ ReplyNotify \/ CloseHandles PROVE IInv'
  <1>1. /\ UNCHANGED <<started, running, spc, cmd, made, q, scheduled, written>>
        /\ cpc \in {"loop", "read", "replied", "close"}
        /\ cpc' \in {"process", "close", "replied", "loop", "ended"}
    BY DEF ServiceLoop, Reply, ReplyNotify, CloseHandles, serviceVars, history
  <1>2. tpc' \in [Threads -> {"idle", "notify", "await", "parked", "woken", "clear"}]
    BY DEF ServiceLoop, Reply, ReplyNotify, CloseHandles, IInv, TypeOK
  <1>3. response' \in Responses
    BY DEF ServiceLoop, Reply, ReplyNotify, CloseHandles, Torn, Responses, IInv,
           TypeOK
  <1>4. TypeOK'
    BY <1>1, <1>2, <1>3 DEF IInv, TypeOK
  <1>5. AllFifo'
    BY <1>1, FifoSame
  <1>6. NoStrandedCommand' /\ NoThreadYet'
    BY <1>1 DEF NoStrandedCommand, IInv, NoThreadYet
  <1> QED
    BY <1>4, <1>5, <1>6 DEF IInv

(* The control thread begins after the pushes it may have missed: it looks *)
(* at the queue before it first waits.                                     *)
LEMMA OwnerStep == ASSUME IInv, Owner PROVE IInv'
  <1>1. /\ UNCHANGED <<cmd, tpc, made, q, response, scheduled, written>>
        /\ \/ cpc' = cpc
           \/ cpc = "wait" /\ cpc' = "woken"
           \/ cpc = "off" /\ cpc' = "loop"
    BY DEF Owner, StartServices, StopServices, notify_unblock, StopJoin, history,
           IInv, NoThreadYet
  <1>2. TypeOK'
    BY <1>1 DEF Owner, StartServices, StopServices, notify_unblock, StopJoin,
                IInv, TypeOK
  <1>3. AllFifo'
    BY <1>1 DEF IInv, AllFifo, InHand
  <1>4. NoStrandedCommand'
    BY <1>1 DEF IInv, NoStrandedCommand
  <1>5. NoThreadYet'
    BY <1>1 DEF Owner, StartServices, StopServices, notify_unblock, StopJoin,
                IInv, NoThreadYet
  <1> QED
    BY <1>2, <1>3, <1>4, <1>5 DEF IInv

LEMMA NextIInv == IInv /\ [Next]_vars => IInv'
  <1> SUFFICES ASSUME IInv, [Next]_vars PROVE IInv'
    OBVIOUS
  <1>1. CASE UNCHANGED vars
    BY <1>1 DEF vars, IInv, TypeOK, AllFifo, InHand, NoStrandedCommand,
                NoThreadYet
  <1>2. CASE \E t \in Threads : Schedule(t)
    BY <1>2, PushStep, ScheduleStep DEF Schedule
  <1>3. CASE ControlThread
    BY <1>3, processStep, WriteStep, ControlStep DEF ControlThread
  <1> QED
    BY <1>1, <1>2, <1>3, ScheduleStep, OwnerStep DEF Next

(* The inductive invariant holds in every behaviour.                       *)
THEOREM Invariance == Spec => []IInv
  BY InitIInv, NextIInv, PTL DEF Spec

(* Every command in the buffer is one a thread scheduled, and the control  *)
(* thread writes no command it did not take from the buffer.               *)
THEOREM TypeCorrect == Spec => []TypeOK
  <1>1. IInv => TypeOK
    BY DEF IInv
  <1> QED
    BY <1>1, Invariance, PTL

(* The CmdBuffer is FIFO over all threads: what was written, what is in    *)
(* hand and what is queued are together what was scheduled, in that order. *)
THEOREM AllFifoAlways == Spec => []AllFifo
  <1>1. IInv => AllFifo
    BY DEF IInv
  <1> QED
    BY <1>1, Invariance, PTL

(* Though process waits without a predicate and schedule notifies after    *)
(* the unlock, no notification of a queued command is lost.                *)
THEOREM NoStrandedCommandAlways == Spec => []NoStrandedCommand
  <1>1. IInv => NoStrandedCommand
    BY DEF IInv
  <1> QED
    BY <1>1, Invariance, PTL
=============================================================================
