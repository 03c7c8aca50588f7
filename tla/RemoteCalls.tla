----------------------------- MODULE RemoteCalls -----------------------------
(***************************************************************************)
(* What SendSync and SendAsync promise: a call is carried out by the       *)
(* server at most once, not before it was made and not before an earlier   *)
(* call of the same thread that is carried out at all, and it is answered  *)
(* only with what carrying it out returned.  Connections are not seen: a   *)
(* call that is lost is one that is never carried out or never answered.   *)
(*                                                                         *)
(* A call is <<thread, number of the call of that thread>>.                *)
(***************************************************************************)
EXTENDS Naturals, Sequences

CONSTANTS
    Callers,  (* the threads that call                                     *)
    Calls,    (* the calls there can be                                    *)
    Return    (* Return[call] is what the server function returns          *)

VARIABLES
    asked,    (* the calls that were made                                  *)
    done,     (* each thread's calls in the order they were carried out    *)
    results   (* the answers given, as [call, ret]                         *)

callsVars == <<asked, done, results>>

CInit == asked = {} /\ done = [c \in Callers |-> <<>>] /\ results = {}

Ask ==
    /\ \E call \in Calls \ asked : asked' = asked \cup {call}
    /\ UNCHANGED <<done, results>>

Do ==
    /\ \E call \in asked :
         /\ \A i \in 1..Len(done[call[1]]) : done[call[1]][i] < call[2]
         /\ done' = [done EXCEPT ![call[1]] = Append(@, call[2])]
    /\ UNCHANGED <<asked, results>>

WasDone(call) == \E i \in 1..Len(done[call[1]]) : done[call[1]][i] = call[2]

Answer ==
    /\ \E call \in asked :
         /\ WasDone(call)
         /\ results' = results \cup {[call |-> call, ret |-> Return[call]]}
    /\ UNCHANGED <<asked, done>>

CNext == Ask \/ Do \/ Answer
Spec == CInit /\ [][CNext]_callsVars
=============================================================================
