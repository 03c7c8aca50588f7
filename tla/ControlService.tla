----------------------------- MODULE ControlService -----------------------------
(***************************************************************************)
(* The motor control service: any thread schedules commands in the shared  *)
(* CmdBuffer (IssueGenericCommand, IssueGenericCommandResponse), and the   *)
(* control thread takes them out one at a time, writes each to its         *)
(* controller and, when the scheduler wants it, reads the controller's     *)
(* answer and hands it back through the one response_buffer.               *)
(*                                                                         *)
(* Both waits of the CmdBuffer are without a predicate, so a thread may    *)
(* also come out of them spuriously.  A command is <<thread, k>>, the k-th *)
(* command of that thread; the controllers are external, and the answer to *)
(* a command is named by the command it answers.                           *)
(***************************************************************************)
EXTENDS Integers, Sequences

CONSTANTS
    Queriers,  (* threads that call IssueGenericCommandResponse            *)
    Senders,   (* threads that call IssueGenericCommand                    *)
    MaxCmds,   (* bound on the commands each thread schedules              *)
    Spurious   (* whether a wait may end without a notification            *)

ASSUME ControlAssumption ==
    /\ Queriers \cap Senders = {}
    /\ MaxCmds \in Nat
    /\ Spurious \in BOOLEAN

Threads == Queriers \cup Senders
Commands == Threads \X (1..MaxCmds)

VARIABLES
    started,    (* control_service_thread: "null", "set", "dangling"       *)
    running,    (* control_service_running                                 *)
    spc,        (* where the thread that calls StopServices is             *)
    cpc,        (* where the control thread is                             *)
    cmd,        (* the command the control thread holds                    *)
    tpc,        (* where each scheduling thread is                         *)
    made,       (* commands each thread has scheduled                      *)
    q,          (* the queue of the CmdBuffer                              *)
    response,   (* response_buffer: whose answer it holds, or "", or junk  *)
    scheduled,  (* every command in the order schedule pushed it           *)
    written,    (* every command in the order it was written to a unit     *)
    returned    (* what schedule returned to each command that wanted it   *)

serviceVars == <<started, running, spc>>
history == <<scheduled, written, returned>>
vars == <<started, running, spc, cpc, cmd, tpc, made, q, response, scheduled,
          written, returned>>

Answer(c) == [to |-> c]
Empty == [to |-> <<>>]
Junk == [to |-> <<"junk">>]
Current(t) == <<t, made[t]>>

Init ==
    /\ started = "null" /\ running = FALSE /\ spc = "idle"
    /\ cpc = "off" /\ cmd = <<>>
    /\ tpc = [t \in Threads |-> "idle"]
    /\ made = [t \in Threads |-> 0]
    /\ q = <<>> /\ response = Empty
    /\ scheduled = <<>> /\ written = <<>> /\ returned = {}
-----------------------------------------------------------------------------
(* CmdBuffer::schedule. The queue is filled under the mutex m; the         *)
(* notification comes after the unlock.                                    *)

PushNotifyingNonEmptyOnly(t) ==
    /\ tpc[t] = "idle" /\ made[t] < MaxCmds
    /\ made' = [made EXCEPT ![t] = @ + 1]
    /\ q' = Append(q, <<t, made[t] + 1>>)
    /\ scheduled' = Append(scheduled, <<t, made[t] + 1>>)
    /\ tpc' = [tpc EXCEPT ![t] = IF q # <<>> THEN "notify"
                                 ELSE IF t \in Queriers THEN "await" ELSE "clear"]
    /\ UNCHANGED <<serviceVars, cpc, cmd, response, written, returned>>

Push(t) ==
    /\ tpc[t] = "idle" /\ made[t] < MaxCmds
    /\ made' = [made EXCEPT ![t] = @ + 1]
    /\ q' = Append(q, <<t, made[t] + 1>>)
    /\ scheduled' = Append(scheduled, <<t, made[t] + 1>>)
    /\ tpc' = [tpc EXCEPT ![t] = "notify"]
    /\ UNCHANGED <<serviceVars, cpc, cmd, response, written, returned>>

NotifyOne(t) ==
    /\ tpc[t] = "notify"
    /\ tpc' = [tpc EXCEPT ![t] = IF t \in Queriers THEN "await" ELSE "clear"]
    /\ cpc' = IF cpc = "wait" THEN "woken" ELSE cpc
    /\ UNCHANGED <<serviceVars, cmd, made, q, response, history>>

(* cr.wait(lock): a reply that came before is not remembered.              *)
AwaitReply(t) ==
    /\ tpc[t] = "await"
    /\ tpc' = [tpc EXCEPT ![t] = "parked"]
    /\ UNCHANGED <<serviceVars, cpc, cmd, made, q, response, history>>

(* response_buffer is cleared without its mutex: a thread at "clear" is    *)
(* about to do it or doing it, and a string that is read or assigned       *)
(* meanwhile can come out as anything.                                     *)
Torn(S) == IF \E t \in S : tpc[t] = "clear" THEN {Junk} ELSE {}

TakeResponse(t) ==
    /\ tpc[t] = "woken"
    /\ tpc' = [tpc EXCEPT ![t] = "idle"]
    /\ \E r \in {response} \cup Torn(Threads) :
         returned' = returned \cup {[cmd |-> Current(t), response |-> r]}
    /\ UNCHANGED <<serviceVars, cpc, cmd, made, q, response, scheduled, written>>

ClearResponse(t) ==
    /\ tpc[t] = "clear"
    /\ tpc' = [tpc EXCEPT ![t] = "idle"]
    /\ response' \in {Empty} \cup Torn(Threads \ {t})
    /\ UNCHANGED <<serviceVars, cpc, cmd, made, q, history>>

SpuriousWakeup ==
    /\ Spurious
    /\ \/ /\ cpc = "wait" /\ cpc' = "woken"
          /\ UNCHANGED tpc
       \/ /\ \E t \in Queriers : tpc[t] = "parked"
                                 /\ tpc' = [tpc EXCEPT ![t] = "woken"]
          /\ UNCHANGED cpc
    /\ UNCHANGED <<serviceVars, cmd, made, q, response, history>>
-----------------------------------------------------------------------------
(* The control thread. *)

ServiceLoop ==
    /\ cpc = "loop"
    /\ cpc' = IF running THEN "process" ELSE "close"
    /\ UNCHANGED <<serviceVars, cmd, tpc, made, q, response, history>>

processPeeks ==
    /\ \/ /\ cpc \in {"process", "woken"} /\ q # <<>>
          /\ cmd' = Head(q)
          /\ q' = IF Len(q) > 1 THEN Tail(q) ELSE q
          /\ cpc' = "write"
       \/ /\ cpc \in {"process", "woken"} /\ q = <<>>
          /\ cpc' = IF cpc = "process" THEN "wait" ELSE "loop"
          /\ UNCHANGED <<cmd, q>>
    /\ UNCHANGED <<serviceVars, tpc, made, response, history>>

processWithoutGuard ==
    /\ \/ /\ cpc \in {"process", "woken"} /\ q # <<>>
          /\ cmd' = Head(q) /\ q' = Tail(q)
          /\ cpc' = "write"
       \/ /\ cpc = "process" /\ q = <<>>
          /\ cpc' = "wait"
          /\ UNCHANGED <<cmd, q>>
       \/ /\ cpc = "woken" /\ q = <<>>
          /\ cmd' = <<>> /\ cpc' = "write"
          /\ UNCHANGED q
    /\ UNCHANGED <<serviceVars, tpc, made, response, history>>

(* CmdBuffer::process. It waits at most once: woken to an empty queue it   *)
(* returns an empty command, which the loop passes over.                   *)
process ==
    /\ \/ /\ cpc \in {"process", "woken"} /\ q # <<>>
          /\ cmd' = Head(q) /\ q' = Tail(q)
          /\ cpc' = "write"
       \/ /\ cpc = "process" /\ q = <<>>
          /\ cpc' = "wait"
          /\ UNCHANGED <<cmd, q>>
       \/ /\ cpc = "woken" /\ q = <<>>
          /\ cpc' = "loop"
          /\ UNCHANGED <<cmd, q>>
    /\ UNCHANGED <<serviceVars, tpc, made, response, history>>

WriteCommand ==
    /\ cpc = "write"
    /\ written' = Append(written, cmd)
    /\ cpc' = IF cmd[1] \in Queriers THEN "read" ELSE "loop"
    /\ UNCHANGED <<serviceVars, cmd, tpc, made, q, response, scheduled, returned>>

(* Read the controller's answer and store it under the mutex mr; then      *)
(* notify one of the threads that wait for an answer, if any does.         *)
Reply ==
    /\ cpc = "read"
    /\ response' \in {Answer(cmd)} \cup Torn(Threads)
    /\ cpc' = "replied"
    /\ UNCHANGED <<serviceVars, cmd, tpc, made, q, history>>

ReplyNotify ==
    /\ cpc = "replied"
    /\ LET parked == {t \in Threads : tpc[t] = "parked"}
       IN  \/ /\ parked # {}
              /\ \E t \in parked : tpc' = [tpc EXCEPT ![t] = "woken"]
           \/ /\ parked = {}
              /\ UNCHANGED tpc
    /\ cpc' = "loop"
    /\ UNCHANGED <<serviceVars, cmd, made, q, response, history>>

CloseHandles ==
    /\ cpc = "close"
    /\ cpc' = "ended"
    /\ UNCHANGED <<serviceVars, cmd, tpc, made, q, response, history>>
-----------------------------------------------------------------------------
(* StartServices does nothing unless the thread pointer is null, and       *)
(* StopServices leaves it dangling: the service starts once.               *)

StartServices ==
    /\ started = "null"
    /\ started' = "set" /\ running' = TRUE /\ cpc' = "loop"
    /\ UNCHANGED <<spc, cmd, tpc, made, q, response, history>>

StopServices ==
    /\ started = "set" /\ spc = "idle"
    /\ running' = FALSE /\ spc' = "unblock"
    /\ UNCHANGED <<started, cpc, cmd, tpc, made, q, response, history>>

(* notify_unblock: notify_all without the mutex and without a flag.        *)
notify_unblock ==
    /\ spc = "unblock"
    /\ spc' = "join"
    /\ cpc' = IF cpc = "wait" THEN "woken" ELSE cpc
    /\ UNCHANGED <<started, running, cmd, tpc, made, q, response, history>>

StopJoin ==
    /\ spc = "join" /\ cpc = "ended"
    /\ spc' = "idle" /\ started' = "dangling"
    /\ UNCHANGED <<running, cpc, cmd, tpc, made, q, response, history>>
-----------------------------------------------------------------------------
Schedule(t) == \/ Push(t) \/ NotifyOne(t) \/ AwaitReply(t) \/ TakeResponse(t)
               \/ ClearResponse(t)
ControlThread == \/ ServiceLoop \/ process \/ WriteCommand \/ Reply
                 \/ ReplyNotify \/ CloseHandles
Owner == StartServices \/ StopServices \/ notify_unblock \/ StopJoin

Next == \/ \E t \in Threads : Schedule(t)
        \/ ControlThread \/ SpuriousWakeup \/ Owner

Spec == Init /\ [][Next]_vars

(* The control thread runs when it can, which takes the controllers to     *)
(* accept and to answer; a thread that has pushed gets to its notify_one.  *)
(* Nothing obliges the owner to start or to stop the service, and nothing  *)
(* obliges a wait to end spuriously.                                       *)
Fairness ==
    /\ WF_vars(ControlThread)
    /\ \A t \in Threads : WF_vars(NotifyOne(t))

FairSpec == Spec /\ Fairness
-----------------------------------------------------------------------------
Responses == {Answer(c) : c \in Commands} \cup {Empty, Junk}

(* The values of the buffer and of the threads that share it.              *)
TypeOK ==
    /\ started \in {"null", "set", "dangling"}
    /\ running \in BOOLEAN
    /\ spc \in {"idle", "unblock", "join"}
    /\ cpc \in {"off", "loop", "process", "wait", "woken", "write", "read",
                "replied", "close", "ended"}
    /\ cpc \in {"write", "read"} => cmd \in Commands
    /\ tpc \in [Threads -> {"idle", "notify", "await", "parked", "woken", "clear"}]
    /\ made \in [Threads -> 0..MaxCmds]
    /\ q \in Seq(Commands)
    /\ response \in Responses
    /\ scheduled \in Seq(Commands) /\ written \in Seq(Commands)

InHand == IF cpc = "write" THEN <<cmd>> ELSE <<>>

(* "All FIFO": the commands are written to the controllers in the order in *)
(* which schedule took them, none is lost and none is written twice, over  *)
(* all threads together and across wakeups that find the queue empty.      *)
AllFifo == scheduled = (written \o InHand) \o q

(* The control thread never sleeps on a queue with a command in it, unless *)
(* the thread that pushed it is about to notify.                           *)
NoStrandedCommand ==
    cpc = "wait" /\ q # <<>> => \E t \in Threads : tpc[t] = "notify"

Written(c) == \E i \in 1..Len(written) : written[i] = c

(* A command that was scheduled is written to its controller, unless the   *)
(* service is not running.                                                 *)
CommandWritten ==
    \A t \in Threads, k \in 1..MaxCmds :
      (running /\ made[t] >= k) ~> (Written(<<t, k>>) \/ ~running)

(* schedule is "Thread-safe": what it returns to a thread that waits for a *)
(* response is the controller's answer to the command of that thread.      *)
ReplyIsOwn == \A r \in returned : r.response = Answer(r.cmd)
=============================================================================
