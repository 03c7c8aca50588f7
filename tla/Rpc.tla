---------------------------------- MODULE Rpc ----------------------------------
(***************************************************************************)
(* Remote calls over one client/server pair.  Threads of the client call   *)
(* SendSync and SendAsync; a message gets its id from the counter nid and  *)
(* goes through the outbound queue of the client; the decode thread of the *)
(* server executes requests in the order they arrive and answers through   *)
(* its own outbound queue; the decode thread of the client hands a         *)
(* SYNC_RESPONSE to the one slot lmessage, where WaitForId looks for its   *)
(* id, and an ASYNC_RESPONSE to the promise map.                           *)
(*                                                                         *)
(* A connection can break at any moment and be replaced by a new one: what *)
(* was on the wire is lost, what is in an outbound queue stays there.      *)
(*                                                                         *)
(* A call is <<caller, k>>, the k-th call of that thread; its arguments    *)
(* travel with the request, and ReturnOf stands for what the registered    *)
(* server function makes of them.  The sockets and the byte streams are    *)
(* those of InboundPipeline, here FIFO sequences of messages, which is what *)
(* MessageStream promises and InboundPipeline implements.                  *)
(***************************************************************************)
EXTENDS Integers, Sequences

CONSTANTS
    SyncCallers,   (* threads that call SendSync                           *)
    AsyncCallers,  (* threads that call SendAsync                          *)
    MaxCalls,      (* MaxCalls[c] bounds the calls thread c makes          *)
    MaxSessions    (* bound on the number of connections                   *)

ASSUME RpcAssumption ==
    /\ SyncCallers \cap AsyncCallers = {}
    /\ MaxCalls \in [SyncCallers \cup AsyncCallers -> Nat]
    /\ MaxSessions \in Nat

Callers == SyncCallers \cup AsyncCallers
Calls == UNION {{c} \X (1..MaxCalls[c]) : c \in Callers}
ReturnOf(call) == [of |-> call]

VARIABLES
    issued,    (* the calls in the order of their ids; nid is its length   *)
    pc,        (* where each caller is in SendSync or SendAsync            *)
    made,      (* the number of calls each caller has begun                *)
    msgId,     (* msg.id of each caller's current call                     *)
    outq,      (* outbound_data_queue of the client                        *)
    c2s,       (* requests on the wire or in the server's inbound_bytes    *)
    executed,  (* each caller's calls the server has executed              *)
    sout,      (* outbound_data_queue of the server                        *)
    s2c,       (* responses on the wire or in the client's inbound_bytes   *)
    conn,      (* "down" or "up"                                           *)
    sessions,  (* connections made so far                                  *)
    slot,      (* lmessage; full is ptr != nullptr                         *)
    proms,     (* async_mess_prom                                          *)
    results,   (* what SendSync returned and promises were set to          *)
    crashed    (* the client process was terminated                        *)

callVars == <<issued, pc, made, msgId>>
netVars == <<c2s, s2c, conn, sessions>>
serverVars == <<executed, sout>>
vars == <<issued, pc, made, msgId, outq, c2s, executed, sout, s2c, conn,
          sessions, slot, proms, results, crashed>>

nid == Len(issued)
Call(c) == <<c, made[c]>>
Sync(c) == c \in SyncCallers

Init ==
    /\ issued = <<>>
    /\ pc = [c \in Callers |-> "idle"]
    /\ made = [c \in Callers |-> 0]
    /\ msgId = [c \in Callers |-> 0]
    /\ outq = <<>> /\ c2s = <<>> /\ sout = <<>> /\ s2c = <<>>
    /\ executed = [c \in Callers |-> <<>>]
    /\ conn = "down" /\ sessions = 0
    /\ slot = [full |-> FALSE, id |-> 0, ret |-> ReturnOf(<<>>)]
    /\ proms = {} /\ results = {} /\ crashed = FALSE
-----------------------------------------------------------------------------
(* The callers. *)

SetNewPerCaller(c) ==
    /\ ~crashed
    /\ pc[c] = "idle" /\ made[c] < MaxCalls[c]
    /\ made' = [made EXCEPT ![c] = @ + 1]
    /\ msgId' = [msgId EXCEPT ![c] = made[c]]
    /\ issued' = Append(issued, <<c, made[c] + 1>>)
    /\ pc' = [pc EXCEPT ![c] = "schedule"]
    /\ UNCHANGED <<outq, netVars, serverVars, slot, proms, results, crashed>>

(* The call begins and takes the next id (nid++ is atomic).                *)
SetNew(c) ==
    /\ ~crashed
    /\ pc[c] = "idle" /\ made[c] < MaxCalls[c]
    /\ made' = [made EXCEPT ![c] = @ + 1]
    /\ msgId' = [msgId EXCEPT ![c] = nid]
    /\ issued' = Append(issued, <<c, made[c] + 1>>)
    /\ pc' = [pc EXCEPT ![c] = "schedule"]
    /\ UNCHANGED <<outq, netVars, serverVars, slot, proms, results, crashed>>

ScheduleTransmission(c) ==
    /\ ~crashed
    /\ pc[c] = "schedule"
    /\ outq' = Append(outq, [sync |-> Sync(c), id |-> msgId[c], call |-> Call(c)])
    /\ pc' = [pc EXCEPT ![c] = IF Sync(c) THEN "wait" ELSE "emplace"]
    /\ UNCHANGED <<issued, made, msgId, netVars, serverVars, slot, proms,
                   results, crashed>>

WaitForIdNoNullCheck(c) ==
    /\ ~crashed
    /\ pc[c] = "wait"
    /\ slot.id = msgId[c]
    /\ results' = results \cup {[call |-> Call(c), ret |-> slot.ret]}
    /\ slot' = [slot EXCEPT !.full = FALSE]
    /\ pc' = [pc EXCEPT ![c] = "idle"]
    /\ UNCHANGED <<issued, made, msgId, outq, netVars, serverVars, proms, crashed>>

(* The wait of WaitForId is over: copy the response and empty the slot.    *)
WaitForId(c) ==
    /\ ~crashed
    /\ pc[c] = "wait"
    /\ slot.full /\ slot.id = msgId[c]
    /\ results' = results \cup {[call |-> Call(c), ret |-> slot.ret]}
    /\ slot' = [slot EXCEPT !.full = FALSE]
    /\ pc' = [pc EXCEPT ![c] = "idle"]
    /\ UNCHANGED <<issued, made, msgId, outq, netVars, serverVars, proms, crashed>>

(* async_mess_prom.emplace, after the message was scheduled. The map has   *)
(* no lock: what an insertion that overlaps another insertion or a lookup  *)
(* does is undefined, taken here as either its effect or the end of the    *)
(* process. A caller at "emplace" is about to insert or is inserting.      *)
Emplacing(S) == \E d \in S : pc[d] = "emplace"

Emplace(c) ==
    /\ ~crashed
    /\ pc[c] = "emplace"
    /\ pc' = [pc EXCEPT ![c] = "idle"]
    /\ proms' = proms \cup {[id |-> msgId[c], call |-> Call(c)]}
    /\ crashed' \in {FALSE, Emplacing(Callers \ {c})}
    /\ UNCHANGED <<issued, made, msgId, outq, netVars, serverVars, slot, results>>
-----------------------------------------------------------------------------
(* The send threads. *)

ClientSendPeeks ==
    /\ ~crashed /\ conn = "up" /\ outq # <<>>
    /\ outq' \in {outq, Tail(outq)}
    /\ c2s = <<>> /\ c2s' = Append(c2s, Head(outq))
    /\ UNCHANGED <<callVars, serverVars, s2c, conn, sessions, slot, proms,
                   results, crashed>>

ClientSend ==
    /\ ~crashed /\ conn = "up" /\ outq # <<>>
    /\ outq' = Tail(outq)
    /\ c2s' = Append(c2s, Head(outq))
    /\ UNCHANGED <<callVars, serverVars, s2c, conn, sessions, slot, proms,
                   results, crashed>>

ServerSend ==
    /\ conn = "up" /\ sout # <<>>
    /\ sout' = Tail(sout)
    /\ s2c' = Append(s2c, Head(sout))
    /\ UNCHANGED <<callVars, outq, executed, c2s, conn, sessions, slot, proms,
                   results, crashed>>

ExecuteNoVoidResponse ==
    /\ conn = "up" /\ c2s # <<>>
    /\ LET m == Head(c2s)
       IN  /\ executed' = [executed EXCEPT ![m.call[1]] = Append(@, m.call[2])]
           /\ sout' \in {sout, Append(sout, [sync |-> m.sync, id |-> m.id,
                                             ret |-> ReturnOf(m.call)])}
    /\ c2s' = Tail(c2s)
    /\ UNCHANGED <<callVars, outq, s2c, conn, sessions, slot, proms, results,
                   crashed>>

(* The decode thread of the server: SYNC_REQUEST and ASYNC_REQUEST.        *)
Execute ==
    /\ conn = "up" /\ c2s # <<>>
    /\ LET m == Head(c2s)
       IN  /\ executed' = [executed EXCEPT ![m.call[1]] = Append(@, m.call[2])]
           /\ sout' = Append(sout, [sync |-> m.sync, id |-> m.id,
                                    ret |-> ReturnOf(m.call)])
    /\ c2s' = Tail(c2s)
    /\ UNCHANGED <<callVars, outq, s2c, conn, sessions, slot, proms, results,
                   crashed>>

(* The decode thread of the client. *)
SetMsgIdCondition ==
    /\ ~crashed /\ conn = "up" /\ s2c # <<>> /\ Head(s2c).sync
    /\ slot' = [full |-> TRUE, id |-> Head(s2c).id, ret |-> Head(s2c).ret]
    /\ s2c' = Tail(s2c)
    /\ UNCHANGED <<callVars, outq, serverVars, c2s, conn, sessions, proms,
                   results, crashed>>

(* at() throws when the promise is not there (yet), and no one catches it. *)
NotifyPromise ==
    /\ ~crashed /\ conn = "up" /\ s2c # <<>> /\ ~Head(s2c).sync
    /\ s2c' = Tail(s2c)
    /\ LET found == {p \in proms : p.id = Head(s2c).id}
       IN  /\ results' = results \cup
                           {[call |-> p.call, ret |-> Head(s2c).ret] : p \in found}
           /\ proms' = proms \ found
           /\ crashed' \in {found = {}, found = {} \/ Emplacing(Callers)}
    /\ UNCHANGED <<callVars, outq, serverVars, c2s, conn, sessions, slot>>
-----------------------------------------------------------------------------
(* The connection. When it ends, what was on the wire or not yet decoded   *)
(* is lost, and so is what a send thread popped before it noticed; what is *)
(* left in an outbound queue is sent on the next connection.               *)

Connect ==
    /\ ~crashed /\ conn = "down" /\ sessions < MaxSessions
    /\ conn' = "up"
    /\ sessions' = sessions + 1
    /\ UNCHANGED <<callVars, outq, c2s, serverVars, s2c, slot, proms, results,
                   crashed>>

Disconnect ==
    /\ conn = "up"
    /\ conn' = "down"
    /\ c2s' = <<>> /\ s2c' = <<>>
    /\ \E i \in 0..Len(outq) : outq' = SubSeq(outq, i + 1, Len(outq))
    /\ \E i \in 0..Len(sout) : sout' = SubSeq(sout, i + 1, Len(sout))
    /\ UNCHANGED <<callVars, executed, sessions, slot, proms, results, crashed>>
-----------------------------------------------------------------------------
Caller(c) == \/ SetNew(c) \/ ScheduleTransmission(c) \/ WaitForId(c)
             \/ Emplace(c)

Next ==
    \/ \E c \in Callers : Caller(c)
    \/ ClientSend \/ ServerSend \/ Execute \/ SetMsgIdCondition \/ NotifyPromise
    \/ Connect \/ Disconnect

Spec == Init /\ [][Next]_vars

(* A thread inside a call, the send threads and the decode threads run     *)
(* whenever they can; nothing obliges a connection to be made or to break. *)
Fairness ==
    /\ \A c \in Callers : WF_vars(ScheduleTransmission(c) \/ WaitForId(c)
                                  \/ Emplace(c))
    /\ WF_vars(ClientSend) /\ WF_vars(ServerSend) /\ WF_vars(Execute)
    /\ WF_vars(SetMsgIdCondition \/ NotifyPromise)

FairSpec == Spec /\ Fairness
-----------------------------------------------------------------------------
Request == [sync : BOOLEAN, id : Nat, call : Calls]
Returns == {ReturnOf(call) : call \in Calls}
Response == [sync : BOOLEAN, id : Nat, ret : Returns]

(* The types of the queues, the slot and the callers' states.              *)
TypeOK ==
    /\ issued \in Seq(Calls)
    /\ pc \in [Callers -> {"idle", "schedule", "wait", "emplace"}]
    /\ made \in [Callers -> Nat]
    /\ msgId \in [Callers -> Nat]
    /\ outq \in Seq(Request) /\ c2s \in Seq(Request)
    /\ executed \in [Callers -> Seq(Nat)]
    /\ sout \in Seq(Response) /\ s2c \in Seq(Response)
    /\ conn \in {"down", "up"}
    /\ sessions \in Nat
    /\ slot \in [full : BOOLEAN, id : Nat, ret : Returns \cup {ReturnOf(<<>>)}]
    /\ proms \subseteq [id : Nat, call : Calls]
    /\ results \subseteq [call : Calls, ret : Returns]
    /\ crashed \in BOOLEAN

(* A call never returns the response to another call: whatever threads     *)
(* call at once, whatever connections break in between and however late a  *)
(* response arrives, SendSync returns and a promise is set to what the     *)
(* server function returned for that very call.                            *)
ReplyMatches == \A r \in results : r.ret = ReturnOf(r.call)

(* The server executes a caller's calls in the order that caller made      *)
(* them, and none of them twice.                                           *)
ExecutedInOrder ==
    \A c \in Callers : \A i, j \in 1..Len(executed[c]) :
      i < j => executed[c][i] < executed[c][j]

HasPromise(m) ==
    \/ \E p \in proms : p.id = m.id
    \/ \E c \in AsyncCallers : pc[c] = "emplace" /\ msgId[c] = m.id

(* A response to SendAsync finds its promise in the map, unless SendAsync  *)
(* itself has not yet got to putting it there.                             *)
NoOrphanResponse ==
    ~crashed => \A i \in 1..Len(s2c) : s2c[i].sync \/ HasPromise(s2c[i])

(* A call scheduled on a connection is answered, unless that connection    *)
(* ends or the client does.                                                *)
Answered(call) == \E r \in results : r.call = call

AnsweredEventually(c) ==
    \A k \in 1..MaxCalls[c] :
      (conn = "up" /\ pc[c] = "schedule" /\ made[c] = k)
        ~> (Answered(<<c, k>>) \/ conn # "up" \/ crashed)

(* SendSync returns: a response that arrives while its caller waits stays  *)
(* in lmessage until WaitForId takes it. One synchronous caller at a time  *)
(* is what this needs.                                                     *)
SyncReturns == \A c \in SyncCallers : AnsweredEventually(c)

(* The item SendAsync returned gets its value.                             *)
AsyncResolved == \A c \in AsyncCallers : AnsweredEventually(c)

(* The calls made so far.                                                  *)
Asked == {call \in Calls : call[2] <= made[call[1]]}
Remote == INSTANCE RemoteCalls WITH Return <- [call \in Calls |-> ReturnOf(call)],
                                    asked <- Asked, done <- executed

(* Queues, threads and connections together make remote calls that are     *)
(* executed at most once and in order, and answered, if at all, with what  *)
(* executing that call returned: none twice because it was queued when a   *)
(* connection broke, and no answer from before its call was executed.      *)
ImplementsCalls == Remote!Spec
=============================================================================
