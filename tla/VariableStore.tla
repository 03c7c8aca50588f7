---------------------------- MODULE VariableStore ----------------------------
(***************************************************************************)
(* What DCS::Database promises its callers: a store of numbers under keys. *)
(* Operations take time.  A read returns the number its key holds, to six  *)
(* decimals, unless its key is disturbed: an operation on it overlapped a  *)
(* write of it (or the clearing of the whole cache), and no write since    *)
(* then had the key to itself.  What a disturbed key reads as is left      *)
(* open.  A fault costs a read its number, which then is 0, a write its    *)
(* effect, or everybody the operation they are in: the caller of the read  *)
(* cannot tell, the count of the faults can.  Numbers are counted in units *)
(* of 10^-7, so that half of the last decimal is 5.                        *)
(***************************************************************************)
EXTENDS Integers

CONSTANTS Threads, Keys, Numbers, None

VARIABLES
    store,      (* the number under each key, or None                      *)
    ongoing,    (* what each thread is doing: [kind, key], or None         *)
    disturbed,  (* the keys whose reads are not guaranteed                 *)
    result,     (* what the last read that ended returned                  *)
    faults,     (* how many faults there have been                         *)
    up          (* whether the database could be opened                    *)

storeVars == <<store, ongoing, disturbed, result, faults, up>>

On(t, k) == ongoing[t] # None /\ ongoing[t].key = k
OthersOn(t, k) == {u \in Threads \ {t} : On(u, k)}

SInit == /\ store = [k \in Keys |-> None]
         /\ ongoing = [t \in Threads |-> None]
         /\ disturbed = {}
         /\ result = 0 /\ faults = 0
         /\ up \in BOOLEAN

Begin(t) ==
    /\ ongoing[t] = None
    /\ \E k \in Keys, kind \in {"read", "write"} :
         /\ ongoing' = [ongoing EXCEPT ![t] = [kind |-> kind, key |-> k]]
         /\ disturbed' = IF \E u \in OthersOn(t, k) :
                               "write" \in {kind, ongoing[u].kind}
                         THEN disturbed \cup {k} ELSE disturbed
    /\ UNCHANGED <<store, result, faults, up>>

Change(t) ==
    /\ ongoing[t] # None /\ ongoing[t].kind = "write" /\ up
    /\ \E v \in Numbers \cup {None} :
         store' = [store EXCEPT ![ongoing[t].key] = v]
    /\ UNCHANGED <<ongoing, disturbed, result, faults, up>>

EndWrite(t) ==
    /\ ongoing[t] # None /\ ongoing[t].kind = "write"
    /\ ongoing' = [ongoing EXCEPT ![t] = None]
    /\ disturbed' = IF OthersOn(t, ongoing[t].key) = {}
                    THEN disturbed \ {ongoing[t].key} ELSE disturbed
    /\ UNCHANGED <<store, result, faults, up>>

Near(r, v) == IF v = None \/ ~up THEN r = 0 ELSE r - v \in -5..5

EndRead(t) ==
    /\ ongoing[t] # None /\ ongoing[t].kind = "read"
    /\ ongoing' = [ongoing EXCEPT ![t] = None]
    /\ \/ /\ result' \in Int
          /\ ongoing[t].key \notin disturbed => Near(result', store[ongoing[t].key])
          /\ UNCHANGED faults
       \/ result' = 0 /\ faults' = faults + 1
    /\ UNCHANGED <<store, disturbed, up>>

(* A write comes to nothing, or what is no business of the store fails.    *)
Fault ==
    /\ faults' = faults + 1
    /\ UNCHANGED <<store, ongoing, disturbed, result, up>>

Forget ==
    /\ disturbed' = {k \in Keys : \E u \in Threads : On(u, k)}
    /\ UNCHANGED <<store, ongoing, result, faults, up>>

Restart ==
    /\ ongoing' = [t \in Threads |-> None]
    /\ disturbed' = {}
    /\ up' \in BOOLEAN
    /\ faults' \in {faults, faults + 1}
    /\ UNCHANGED <<store, result>>

SNext == \/ \E t \in Threads : Begin(t) \/ Change(t) \/ EndWrite(t) \/ EndRead(t)
         \/ Fault \/ Forget \/ Restart
Spec == SInit /\ [][SNext]_storeVars
=============================================================================
