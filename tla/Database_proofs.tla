--------------------------- MODULE Database_proofs ---------------------------
(***************************************************************************)
(* For any number of threads, variables, users and faults: the cache of a  *)
(* variable that nobody disturbed agrees with the table, the audit log     *)
(* replays to the tables, and the database implements VariableStore.       *)
(***************************************************************************)
EXTENDS Database, TLAPS

(* An idle thread has no operation; one that is not idle has a key.  Only  *)
(* the thread of the remote calls writes records.                          *)
OpSound(t, o) ==
    /\ IF o.pc = "idle" THEN o = NoOp ELSE o.key \in Keys
    /\ o.pc \in {"exists", "log", "insert"} =>
         o.text = IF o.num = None THEN Empty ELSE to_string(o.num)
    /\ o.pc = "log" \/ o.logged => o.what \in {"VAR_CREATE", "VAR_UPDATE"}
    /\ o.pc \in {"lookup", "delete", "logdel"} => o.what = "VAR_DELETE"
    /\ o.pc \in {"exists", "log", "lookup", "delete", "logdel"} \/ o.logged => t = Remote

OpInv == \A t \in Threads : OpSound(t, op[t])

(* The text in a row is the number last written to it, rounded.            *)
TextInv ==
    \A k \in Keys : IF value[k] = None THEN table[k] \in {None, Empty}
                                       ELSE table[k] = to_string(value[k])

(* A database that could not be opened fills no cache.                     *)
DownInv ==
    ~up => /\ \A k \in Keys : cache[k] \in {None, Empty}
           /\ \A t \in Threads : ~At(t, "store")

(* On a key that is not disturbed a writer is alone, the cache is filled   *)
(* from the row as it is, and an entry that was seen is still there.       *)
CacheInv ==
    \A k \in Keys \ disturbed :
      /\ \A t, u \in Threads :
           op[t].key = k /\ op[u].key = k /\ op[t].pc \in Writing => t = u
      /\ cache[k] # None /\ ~BeingWritten(k) => cache[k] = table[k]
      /\ \A t \in Threads : op[t].key = k =>
           /\ At(t, "store") => op[t].text = table[k]
           /\ At(t, "index") => cache[k] # None

(* The row the record says a variable has.                                 *)
Replayed(record) == IF record = None \/ record.what = "VAR_DELETE" THEN None
                                                                  ELSE record.text

(* Whether a row and its record are apart because only one of the two has  *)
(* been written yet.                                                       *)
Pending(k) ==
    op[Remote].key = k /\ ((At(Remote, "insert") /\ op[Remote].logged) \/ At(Remote, "logdel"))

(* Between the two steps the record announces the row, or the row is gone. *)
LogInv ==
    \A k \in Keys :
      /\ op[Remote].key = k /\ At(Remote, "insert") /\ op[Remote].logged =>
           varLog[k] # None /\ varLog[k].what # "VAR_DELETE" /\ varLog[k].text = op[Remote].text
      /\ k \notin unlogged =>
           IF Pending(k) THEN At(Remote, "logdel") => table[k] = None
                         ELSE table[k] = Replayed(varLog[k])

(* The audit log of the users replays to the table.                        *)
UserInv == \A u \in Users \ unlogged : u \in users <=> usrLog[u] = "USR_CREATE"

IInv == TypeOK /\ OpInv /\ TextInv /\ DownInv /\ CacheInv /\ LogInv /\ UserInv
-----------------------------------------------------------------------------
(* A statement can only succeed on an open database, and only fail there   *)
(* while faults are left.                                                  *)
LEMMA OutcomesAre ==
    ASSUME TypeOK, NEW ok \in Outcomes
    PROVE  ok \in BOOLEAN /\ (ok => up) /\ (up /\ ~ok => faults < MaxFaults)
<1>1. CASE up
  <2>1. ok = TRUE \/ (ok = FALSE /\ \E i \in 1..(MaxFaults - faults) : TRUE)
      BY <1>1 DEF Outcomes
  <2>2. ok \in BOOLEAN
      BY <2>1
  <2>3. (\E i \in 1..(MaxFaults - faults) : TRUE) => faults < MaxFaults
      BY DatabaseAssumption DEF TypeOK
  <2> QED BY <1>1, <2>1, <2>2, <2>3
<1>2. CASE ~up
  <2>1. ok = FALSE
      BY <1>2 DEF Outcomes
  <2> QED BY <1>2, <2>1
<1> QED BY <1>1, <1>2

(* Counting the outcome of up to three statements keeps the bound.         *)
LEMMA CountKeeps ==
    ASSUME TypeOK, NEW found \in Outcomes, NEW ok \in Outcomes, NEW ok2 \in Outcomes
    PROVE  /\ Count(ok) => faults' \in 0..MaxFaults
           /\ Count(ok /\ ok2) => faults' \in 0..MaxFaults
           /\ Count(found /\ ok /\ ok2) => faults' \in 0..MaxFaults
<1>1. /\ (up /\ ~ok => faults < MaxFaults) /\ (up /\ ~ok2 => faults < MaxFaults)
      /\ (up /\ ~found => faults < MaxFaults)
    BY OutcomesAre
<1>2. ASSUME NEW all \in BOOLEAN, up /\ ~all => faults < MaxFaults, Count(all)
      PROVE  faults' \in 0..MaxFaults
    BY <1>2, DatabaseAssumption DEF Count, TypeOK
<1>3. found \in BOOLEAN /\ ok \in BOOLEAN /\ ok2 \in BOOLEAN
    BY OutcomesAre
<1>4. /\ Count(ok) => faults' \in 0..MaxFaults
      /\ Count(ok /\ ok2) => faults' \in 0..MaxFaults
    BY <1>1, <1>2, <1>3
<1>5. Count(found /\ ok /\ ok2) => faults' \in 0..MaxFaults
    BY <1>1, <1>2, <1>3
<1> QED BY <1>4, <1>5

(* What a conversion to text yields.                                       *)
LEMMA TextIsNat == \A v \in Numbers : to_string(v) \in Nat
    BY DatabaseAssumption DEF to_string

(* What a query reads is a number or the empty text.                       *)
LEMMA ReadIsText ==
    ASSUME TypeOK, NEW k \in Keys, NEW ok \in Outcomes
    PROVE  ReadVariable(k, ok) \in Nat \cup {Empty}
    BY DatabaseAssumption DEF TypeOK, Row, ReadVariable

(* The invariant holds when the database has been opened.                  *)
LEMMA InitIInv == Init => IInv
<1> SUFFICES ASSUME Init PROVE IInv
    OBVIOUS
<1> USE DatabaseAssumption DEF Init
<1>1. TypeOK
    BY DEF TypeOK, Row, NoOp, Reading, Writing, Empty
<1>2. OpInv
    BY DEF OpInv, OpSound, NoOp
<1>3. TextInv /\ DownInv
    BY DEF TextInv, DownInv, At, NoOp
<1>4. CacheInv
    BY DEF CacheInv, At, NoOp
<1>5. LogInv
    BY DEF LogInv, At, NoOp, Replayed, Pending
<1>6. UserInv
    BY NoneIsNoRecord DEF UserInv
<1> QED BY <1>1, <1>2, <1>3, <1>4, <1>5, <1>6 DEF IInv
-----------------------------------------------------------------------------
Operations == [pc : {"idle"} \cup Reading \cup Writing,
               who : {"SYS", "USER"}, key : Keys \cup {None},
               text : Nat \cup {Empty}, num : Numbers \cup {None},
               what : {"NONE", "VAR_CREATE", "VAR_UPDATE", "VAR_DELETE"},
               logged : BOOLEAN]

(* A thread moves on within its operation.                                 *)
LEMMA GotoKeeps ==
    ASSUME TypeOK, NEW t \in Threads, NEW p \in {"idle"} \cup Reading \cup Writing,
           Goto(t, p)
    PROVE  /\ op' \in [Threads -> Operations]
           /\ op'[t] = [op[t] EXCEPT !.pc = p]
           /\ \A u \in Threads \ {t} : op'[u] = op[u]
    BY DEF TypeOK, Operations, Goto

(* A thread moves on with the text it read, with the kind of its record,   *)
(* or with the outcome of writing the record.                              *)
LEMMA MoveKeeps ==
    ASSUME TypeOK, NEW t \in Threads, NEW p \in {"idle"} \cup Reading \cup Writing,
           NEW r \in Operations,
           \/ /\ op' = [op EXCEPT ![t].pc = p, ![t].text = r.text]
              /\ r = [op[t] EXCEPT !.pc = p, !.text = r.text]
           \/ /\ op' = [op EXCEPT ![t].pc = p, ![t].what = r.what]
              /\ r = [op[t] EXCEPT !.pc = p, !.what = r.what]
           \/ /\ op' = [op EXCEPT ![t].pc = p, ![t].logged = r.logged]
              /\ r = [op[t] EXCEPT !.pc = p, !.logged = r.logged]
    PROVE  /\ op' = [op EXCEPT ![t] = r]
           /\ op' \in [Threads -> Operations]
           /\ op'[t] = r
           /\ \A u \in Threads \ {t} : op'[u] = op[u]
<1>1. op' = [op EXCEPT ![t] = r]
    BY DEF TypeOK, Operations
<1>2. op \in [Threads -> Operations]
    BY DEF TypeOK, Operations
<1> QED BY <1>1, <1>2

(* A thread leaves its operation.                                          *)
LEMMA ReturnKeeps ==
    ASSUME TypeOK, NEW t \in Threads, op' = [op EXCEPT ![t] = NoOp]
    PROVE  /\ op' \in [Threads -> Operations]
           /\ op'[t] = NoOp
           /\ \A u \in Threads \ {t} : op'[u] = op[u]
    BY DEF TypeOK, Operations, NoOp, Reading, Writing, Empty

(* The operations a thread can begin.                                      *)
ReadCall(k) == [NoOp EXCEPT !.key = k, !.pc = IF cache[k] = None THEN "query" ELSE "index"]
WriteCall(who, k, v) ==
    [NoOp EXCEPT !.pc = IF who = "USER" THEN "exists" ELSE "insert",
       !.who = who, !.key = k, !.num = v, !.text = IF v = None THEN Empty ELSE to_string(v)]
DeleteCall(who, k) ==
    [NoOp EXCEPT !.pc = "lookup", !.who = who, !.key = k, !.what = "VAR_DELETE"]

(* A thread begins an operation: the three kinds, and what all have in     *)
(* common.                                                                 *)
LEMMA OperationStarts ==
    ASSUME TypeOK, NEW t \in Threads, NEW k \in Keys, Operation(t, k)
    PROVE  \E call \in Operations :
             /\ Start(t, call)
             /\ \/ call = ReadCall(k)
                \/ \E v \in Numbers \cup {None} : call = WriteCall("SYS", k, v)
                \/ t = Remote /\ \E v \in Numbers \cup {None} : call = WriteCall("USER", k, v)
                \/ t = Remote /\ \E who \in {"SYS", "USER"} : call = DeleteCall(who, k)
             /\ UNCHANGED <<rows, cache, logs, people, up, result, faults, unlogged>>
<1>1. NoOp \in Operations
    BY DEF Operations, NoOp, Reading, Writing, Empty
<1>2. CASE ReadValue(t, k)
  <2>1. ReadCall(k) \in Operations
      BY DEF Operations, NoOp, Reading, Writing, Empty, ReadCall
  <2> QED BY <1>2, <2>1 DEF ReadValue, ReadCall
<1>3. ASSUME NEW who \in {"SYS", "USER"}, WriteValue(t, who, k)
      PROVE  \E v \in Numbers \cup {None} :
               /\ WriteCall(who, k, v) \in Operations
               /\ Start(t, WriteCall(who, k, v))
               /\ UNCHANGED <<rows, cache, logs, people, up, result, faults, unlogged>>
  <2>1. PICK v \in Numbers \cup {None} : Start(t, WriteCall(who, k, v))
      BY <1>3 DEF WriteValue, WriteCall
  <2>2. (IF v = None THEN Empty ELSE to_string(v)) \in Nat \cup {Empty}
      BY TextIsNat
  <2>3. WriteCall(who, k, v) \in Operations
      BY <2>2 DEF Operations, NoOp, Reading, Writing, WriteCall
  <2> QED BY <1>3, <2>1, <2>3 DEF WriteValue
<1>4. ASSUME NEW who \in {"SYS", "USER"}, DeleteValue(t, who, k)
      PROVE  /\ DeleteCall(who, k) \in Operations
             /\ Start(t, DeleteCall(who, k))
             /\ UNCHANGED <<rows, cache, logs, people, up, result, faults, unlogged>>
  <2>1. DeleteCall(who, k) \in Operations
      BY DEF Operations, NoOp, Reading, Writing, Empty, DeleteCall
  <2> QED BY <1>4, <2>1 DEF DeleteValue, DeleteCall
<1> QED BY <1>2, <1>3, <1>4 DEF Operation

(* A thread that begins an operation.                                      *)
LEMMA StartKeeps ==
    ASSUME TypeOK, NEW t \in Threads, NEW call \in Operations, call.key \in Keys,
           Start(t, call)
    PROVE  /\ op' \in [Threads -> Operations]
           /\ op'[t] = call
           /\ \A u \in Threads \ {t} : op'[u] = op[u]
           /\ disturbed' \subseteq Keys /\ disturbed \subseteq disturbed'
    BY DEF TypeOK, Operations, Start

(* What a query does to the operation it is part of.                       *)
QueryYields(t, ok) ==
    LET text == ReadVariable(op[t].key, ok)
    IN  \/ text = Empty /\ op'[t] = NoOp /\ result' = 0
        \/ text # Empty /\ result' = result /\ op'[t] = [op[t] EXCEPT !.pc = "store", !.text = text]

(* What each step of an operation does to the threads' operations.         *)
LEMMA OpAfter ==
    ASSUME TypeOK, OpInv, NEW t \in Threads, Continue(t)
    PROVE  /\ op' \in [Threads -> Operations]
           /\ op[t].key \in Keys
           /\ \A u \in Threads \ {t} : op'[u] = op[u]
           /\ ReadQuery(t) => \E ok \in Outcomes : Count(ok) /\ QueryYields(t, ok)
           /\ ReadStore(t) => op'[t] = [op[t] EXCEPT !.pc = "index"]
           /\ ReadIndex(t) => op'[t] = NoOp
           /\ WriteExists(t) => \E w \in {"VAR_CREATE", "VAR_UPDATE"} :
                                   op'[t] = [op[t] EXCEPT !.pc = "log", !.what = w]
           /\ WriteLog(t) => \E ok \in Outcomes :
                 /\ LogEvent(t, ok, "System") /\ Count(ok)
                 /\ op'[t] = [op[t] EXCEPT !.pc = "insert", !.logged = ok]
           /\ WriteInsert(t) => op'[t] = [op[t] EXCEPT !.pc = "erase"]
           /\ DeleteLookup(t) => \E p \in {"erase", "delete"} : op'[t] = [op[t] EXCEPT !.pc = p]
           /\ DeleteRow(t) => \E p \in {"erase", "logdel"} : op'[t] = [op[t] EXCEPT !.pc = p]
           /\ DeleteLog(t) => op'[t] = [op[t] EXCEPT !.pc = "erase"]
           /\ Erase(t) => op'[t] = NoOp
<1> DEFINE Same == op' \in [Threads -> Operations] /\ \A u \in Threads \ {t} : op'[u] = op[u]
<1>0. op[t].key \in Keys
    BY DEF OpInv, OpSound, At, Continue, ReadQuery, ReadStore, ReadIndex, WriteExists, WriteLog,
           WriteInsert, DeleteLookup, DeleteRow, DeleteLog, Erase
<1>1. ASSUME ReadQuery(t)
      PROVE  Same /\ \E ok \in Outcomes : Count(ok) /\ QueryYields(t, ok)
  <2>0. PICK ok \in Outcomes :
          /\ Count(ok)
          /\ \/ ReadVariable(op[t].key, ok) = Empty /\ Return(t, Empty)
             \/ /\ ReadVariable(op[t].key, ok) # Empty /\ UNCHANGED result
                /\ op' = [op EXCEPT ![t].pc = "store", ![t].text = ReadVariable(op[t].key, ok)]
      BY <1>1 DEF ReadQuery
  <2>1. CASE ReadVariable(op[t].key, ok) = Empty /\ Return(t, Empty)
      BY <2>0, <2>1, ReturnKeeps DEF Return, atof, QueryYields
  <2>2. CASE /\ ReadVariable(op[t].key, ok) # Empty /\ UNCHANGED result
             /\ op' = [op EXCEPT ![t].pc = "store", ![t].text = ReadVariable(op[t].key, ok)]
    <3> DEFINE r == [op[t] EXCEPT !.pc = "store", !.text = ReadVariable(op[t].key, ok)]
    <3>1. r \in Operations /\ r.text = ReadVariable(op[t].key, ok)
        BY <1>0, ReadIsText DEF TypeOK, Operations, Reading
    <3>2. Same /\ op'[t] = r
        BY <2>2, <3>1, MoveKeeps DEF Reading
    <3> QED BY <2>0, <2>2, <3>2 DEF QueryYields
  <2> QED BY <2>0, <2>1, <2>2
<1>2. ASSUME ReadStore(t) PROVE Same /\ op'[t] = [op[t] EXCEPT !.pc = "index"]
    BY <1>2, GotoKeeps DEF ReadStore, Reading
<1>3. ASSUME ReadIndex(t) PROVE Same /\ op'[t] = NoOp
    BY <1>3, ReturnKeeps DEF ReadIndex, Return
<1>4. ASSUME WriteExists(t)
      PROVE  Same /\ \E w \in {"VAR_CREATE", "VAR_UPDATE"} :
                        op'[t] = [op[t] EXCEPT !.pc = "log", !.what = w]
  <2>2. PICK w \in {"VAR_CREATE", "VAR_UPDATE"} :
          op' = [op EXCEPT ![t].pc = "log", ![t].what = w]
      BY <1>4 DEF WriteExists
  <2> DEFINE r == [op[t] EXCEPT !.pc = "log", !.what = w]
  <2>1. r \in Operations /\ r.what = w
      BY DEF TypeOK, Operations, Writing
  <2>4. Same /\ op'[t] = r
      BY <2>1, <2>2, MoveKeeps DEF Writing
  <2> QED BY <2>4
<1>5. ASSUME WriteLog(t)
      PROVE  Same /\ \E ok \in Outcomes :
                       /\ LogEvent(t, ok, "System") /\ Count(ok)
                       /\ op'[t] = [op[t] EXCEPT !.pc = "insert", !.logged = ok]
  <2>1. PICK ok \in Outcomes :
          /\ LogEvent(t, ok, "System") /\ Count(ok)
          /\ op' = [op EXCEPT ![t].pc = "insert", ![t].logged = ok]
      BY <1>5 DEF WriteLog
  <2> DEFINE r == [op[t] EXCEPT !.pc = "insert", !.logged = ok]
  <2>2. r \in Operations /\ r.logged = ok
      BY OutcomesAre DEF TypeOK, Operations, Writing
  <2> QED BY <2>1, <2>2, MoveKeeps DEF Writing
<1>6. ASSUME WriteInsert(t) PROVE Same /\ op'[t] = [op[t] EXCEPT !.pc = "erase"]
    BY <1>6, GotoKeeps DEF WriteInsert, Writing
<1>7. ASSUME DeleteLookup(t)
      PROVE  Same /\ \E p \in {"erase", "delete"} : op'[t] = [op[t] EXCEPT !.pc = p]
  <2>1. PICK p \in {"erase", "delete"} : Goto(t, p)
      BY <1>7 DEF DeleteLookup
  <2> QED BY <2>1, GotoKeeps DEF Writing
<1>8. ASSUME DeleteRow(t)
      PROVE  Same /\ \E p \in {"erase", "logdel"} : op'[t] = [op[t] EXCEPT !.pc = p]
    BY <1>8, GotoKeeps DEF DeleteRow, Writing
<1>9. ASSUME DeleteLog(t) PROVE Same /\ op'[t] = [op[t] EXCEPT !.pc = "erase"]
    BY <1>9, GotoKeeps DEF DeleteLog, Writing
<1>10. ASSUME Erase(t) PROVE Same /\ op'[t] = NoOp
    BY <1>10, ReturnKeeps DEF Erase
<1>11. Same
    BY <1>1, <1>2, <1>3, <1>4, <1>5, <1>6, <1>7, <1>8, <1>9, <1>10 DEF Continue
<1> HIDE DEF Same
<1> QED BY <1>0, <1>1, <1>2, <1>3, <1>4, <1>5, <1>6, <1>7, <1>8, <1>9, <1>10, <1>11 DEF Same
-----------------------------------------------------------------------------
(* The type invariant is kept by every step of a thread.                   *)
LEMMA TypeThread ==
    ASSUME TypeOK, OpInv, NEW t \in Threads, Continue(t)
    PROVE  TypeOK'
<1> USE DEF TypeOK, rows, logs, people
<1>k. op[t].key \in Keys
    BY OpAfter
<1>o. op' \in [Threads -> Operations]
    BY OpAfter
<1>1. CASE ReadQuery(t)
  <2>1. PICK ok \in Outcomes : Count(ok) /\ QueryYields(t, ok)
      BY <1>1, OpAfter
  <2>2. result' \in Nat
      BY <2>1 DEF QueryYields
  <2>3. faults' \in 0..MaxFaults
      BY <2>1, CountKeeps
  <2> QED BY <1>1, <1>o, <2>2, <2>3 DEF ReadQuery, Operations
<1>2. CASE ReadStore(t)
  <2>1. cache' \in [Keys -> Row]
      BY <1>2, <1>k DEF ReadStore, Row
  <2> QED BY <1>2, <1>o, <2>1 DEF ReadStore, Operations
<1>3. CASE ReadIndex(t)
  <2> DEFINE text == IF cache[op[t].key] = None THEN Empty ELSE cache[op[t].key]
  <2>1. text \in Nat \cup {Empty}
      BY <1>k DEF Row
  <2>2. cache' \in [Keys -> Row]
      BY <1>3, <1>k, <2>1 DEF ReadIndex, Row
  <2>3. result' \in Nat
      BY <1>3, <2>1 DEF ReadIndex, Return, atof, Empty
  <2> QED BY <1>3, <1>o, <2>2, <2>3 DEF ReadIndex, Operations
<1>4. CASE WriteExists(t) \/ DeleteLookup(t)
  <2>1. faults' \in 0..MaxFaults
    <3>1. \E ok \in Outcomes : Count(ok)
        BY <1>4 DEF WriteExists, DeleteLookup
    <3> QED BY <3>1, CountKeeps
  <2> QED BY <1>4, <1>o, <2>1 DEF WriteExists, DeleteLookup, Operations
<1>5. CASE WriteLog(t)
  <2>1. op[t].what \in {"VAR_CREATE", "VAR_UPDATE"}
      BY <1>5 DEF WriteLog, At, OpInv, OpSound
  <2>2. PICK ok \in Outcomes : LogEvent(t, ok, "System") /\ Count(ok)
      BY <1>5 DEF WriteLog
  <2>3. [what |-> op[t].what, text |-> op[t].text, by |-> "System"] \in Record
      BY <2>1 DEF Record
  <2>4. varLog' \in [Keys -> Record \cup {None}]
      BY <1>k, <2>2, <2>3 DEF LogEvent
  <2>5. faults' \in 0..MaxFaults
      BY <2>2, CountKeeps
  <2> QED BY <1>5, <1>o, <2>4, <2>5 DEF WriteLog, Operations
<1>6. CASE WriteInsert(t)
  <2>3. PICK ok \in Outcomes :
         /\ table' = IF ok THEN [table EXCEPT ![op[t].key] = op[t].text] ELSE table
         /\ value' = IF ok THEN [value EXCEPT ![op[t].key] = op[t].num] ELSE value
         /\ Recorded(op[t].key, ok, op[t].logged) /\ Count(ok)
      BY <1>6 DEF WriteInsert
  <2>4. table' \in [Keys -> Row] /\ value' \in [Keys -> Numbers \cup {None}]
      BY <1>k, <2>3 DEF Row
  <2>5. unlogged' \subseteq Keys \cup Users
      BY <1>k, <2>3 DEF Recorded
  <2>6. faults' \in 0..MaxFaults
      BY <2>3, CountKeeps
  <2> QED BY <1>6, <1>o, <2>4, <2>5, <2>6 DEF WriteInsert, Operations
<1>8. CASE DeleteRow(t)
  <2>2. PICK ok \in Outcomes :
         /\ table' = IF ok THEN [table EXCEPT ![op[t].key] = None] ELSE table
         /\ value' = IF ok THEN [value EXCEPT ![op[t].key] = None] ELSE value
         /\ unlogged' = IF ok THEN unlogged \ {op[t].key} ELSE unlogged
         /\ Goto(t, IF ok THEN "logdel" ELSE "erase")
         /\ Count(ok)
      BY <1>8 DEF DeleteRow
  <2>4. table' \in [Keys -> Row] /\ value' \in [Keys -> Numbers \cup {None}]
      BY <1>k, <2>2 DEF Row
  <2>5. unlogged' \subseteq Keys \cup Users
      BY <2>2
  <2>6. faults' \in 0..MaxFaults
      BY <2>2, CountKeeps
  <2> QED BY <1>8, <1>o, <2>4, <2>5, <2>6 DEF DeleteRow, Operations
<1>9. CASE DeleteLog(t)
  <2> DEFINE by == IF op[t].who = "USER" THEN auth ELSE "System"
  <2>1. op[t].what = "VAR_DELETE"
      BY <1>9 DEF DeleteLog, At, OpInv, OpSound
  <2>2. PICK ok \in Outcomes :
         /\ LogEvent(t, ok, by)
         /\ unlogged' = IF ok THEN unlogged ELSE unlogged \cup {op[t].key}
         /\ Count(ok)
      BY <1>9 DEF DeleteLog
  <2>4. [what |-> op[t].what, text |-> op[t].text, by |-> by] \in Record
      BY <2>1 DEF Record
  <2>5. varLog' \in [Keys -> Record \cup {None}]
      BY <1>k, <2>1, <2>2, <2>4 DEF LogEvent
  <2>6. unlogged' \subseteq Keys \cup Users
      BY <1>k, <2>2
  <2>7. faults' \in 0..MaxFaults
      BY <2>2, CountKeeps
  <2> QED BY <1>9, <1>o, <2>5, <2>6, <2>7 DEF DeleteLog, Operations
<1>10. CASE Erase(t)
  <2>3. cache' \in [Keys -> Row]
      BY <1>10, <1>k DEF Erase, Row
  <2>4. disturbed' \subseteq Keys
      BY <1>10 DEF Erase
  <2> QED BY <1>10, <1>o, <2>3, <2>4 DEF Erase, Operations
<1> QED BY <1>1, <1>2, <1>3, <1>4, <1>5, <1>6, <1>8, <1>9, <1>10 DEF Continue

(* What a new process starts from.                                         *)
LEMMA ReopenKeeps ==
    ASSUME TypeOK, OpInv, Reopen
    PROVE  /\ op' \in [Threads -> Operations] /\ \A t \in Threads : op'[t] = NoOp
           /\ cache' \in [Keys -> Row] /\ \A k \in Keys : cache'[k] = None
           /\ up' \in BOOLEAN /\ auth' = None /\ disturbed' = {}
           /\ unlogged' \subseteq Keys \cup Users /\ unlogged \subseteq unlogged'
           /\ \A k \in Keys : Pending(k) => k \in unlogged'
           /\ unlogged' \ unlogged \subseteq Keys
           /\ UNCHANGED <<table, value, varLog, usrLog, users, result>>
<1>1. NoOp \in Operations
    BY DEF Operations, NoOp, Reading, Writing, Empty
<1>2. \A t \in Threads : At(t, "insert") \/ At(t, "logdel") => op[t].key \in Keys
    BY DEF OpInv, OpSound, At
<1>3. unlogged' \subseteq Keys \cup Users /\ unlogged' \ unlogged \subseteq Keys
    BY <1>2 DEF Reopen, TypeOK
<1>4. \A k \in Keys : Pending(k) => k \in unlogged'
    BY DatabaseAssumption DEF Reopen, Pending
<1> QED BY <1>1, <1>3, <1>4 DEF Reopen, Row, rows, logs

(* What a step that begins an operation does to it.                        *)
LEMMA OpBegins ==
    ASSUME TypeOK, OpInv, NEW t \in Threads, NEW k \in Keys, Operation(t, k)
    PROVE  /\ op' \in [Threads -> Operations] /\ disturbed' \subseteq Keys
           /\ op[t] = NoOp /\ op'[t] \in Operations /\ op'[t].key = k
           /\ \A u \in Threads \ {t} : op'[u] = op[u]
           /\ \/ op'[t] = ReadCall(k)
              \/ \E v \in Numbers \cup {None} : op'[t] = WriteCall("SYS", k, v)
              \/ t = Remote /\ \E v \in Numbers \cup {None} : op'[t] = WriteCall("USER", k, v)
              \/ t = Remote /\ \E who \in {"SYS", "USER"} : op'[t] = DeleteCall(who, k)
           /\ op'[t].pc \in {"query", "index", "exists", "insert", "lookup"}
           /\ op'[t].logged = FALSE
           /\ op'[t].pc = "index" => cache[k] # None
           /\ disturbed' = IF \E u \in Others(t, k) :
                               op'[t].pc \in Writing \/ op[u].pc \in Writing
                           THEN disturbed \cup {k} ELSE disturbed
           /\ UNCHANGED <<table, value, cache, varLog, usrLog, users, auth, up, result,
                          faults, unlogged>>
<1>1. PICK call \in Operations :
        /\ Start(t, call)
        /\ \/ call = ReadCall(k)
           \/ \E v \in Numbers \cup {None} : call = WriteCall("SYS", k, v)
           \/ t = Remote /\ \E v \in Numbers \cup {None} : call = WriteCall("USER", k, v)
           \/ t = Remote /\ \E who \in {"SYS", "USER"} : call = DeleteCall(who, k)
        /\ UNCHANGED <<rows, cache, logs, people, up, result, faults, unlogged>>
    BY OperationStarts
<1> DEFINE Fresh(c) == /\ c.key = k /\ c.logged = FALSE
                       /\ c.pc \in {"query", "index", "exists", "insert", "lookup"}
                       /\ c.pc = "index" => cache[k] # None
<1>2. Fresh(call)
  <2>1. Fresh(ReadCall(k))
      BY DEF ReadCall, NoOp
  <2>2. \A v, who : Fresh(WriteCall(who, k, v))
      BY DEF WriteCall, NoOp
  <2>3. \A who : Fresh(DeleteCall(who, k))
      BY DEF DeleteCall, NoOp
  <2> HIDE DEF Fresh
  <2> QED BY <1>1, <2>1, <2>2, <2>3
<1>3. /\ op' \in [Threads -> Operations] /\ disturbed' \subseteq Keys
      /\ op'[t] = call /\ \A u \in Threads \ {t} : op'[u] = op[u]
    BY <1>1, <1>2, StartKeeps
<1>4. op[t] = NoOp
    BY <1>1 DEF Start, OpInv, OpSound, At
<1>5. disturbed' = IF \E u \in Others(t, k) : call.pc \in Writing \/ op[u].pc \in Writing
                   THEN disturbed \cup {k} ELSE disturbed
    BY <1>1, <1>2 DEF Start
<1> QED BY <1>1, <1>2, <1>3, <1>4, <1>5 DEF rows, logs, people

(* The type invariant is kept by every step.                               *)
LEMMA TypeStep == IInv /\ [Next]_vars => TypeOK'
<1> SUFFICES ASSUME TypeOK, OpInv, [Next]_vars PROVE TypeOK'
    BY DEF IInv
<1> USE DEF TypeOK, rows, logs, people
<1>1. ASSUME NEW t \in Threads, NEW k \in Keys, Operation(t, k)
      PROVE  TypeOK'
  <2>1. /\ op' \in [Threads -> Operations] /\ disturbed' \subseteq Keys
        /\ UNCHANGED <<table, value, cache, varLog, usrLog, users, auth, up, result,
                       faults, unlogged>>
      BY <1>1, OpBegins
  <2> QED BY <2>1 DEF Operations
<1>2. ASSUME NEW t \in Threads, Continue(t)
      PROVE  TypeOK'
    BY <1>2, TypeThread
<1>3. CASE InvalidateCache(Remote)
    BY <1>3 DEF InvalidateCache, Row
<1>4. ASSUME NEW u \in Users, AddUser(u) \/ RemoveUser(u)
      PROVE  TypeOK'
  <2>1. users' \subseteq Users /\ unlogged' \subseteq Keys \cup Users
      BY <1>4 DEF AddUser, RemoveUser, Recorded
  <2>2. usrLog' \in {usrLog, [usrLog EXCEPT ![u] = "USR_CREATE"],
                     [usrLog EXCEPT ![u] = "USR_DELETE"]}
      BY <1>4 DEF AddUser, RemoveUser
  <2>3. usrLog' \in [Users -> {"USR_CREATE", "USR_DELETE", None}]
      BY <2>2
  <2>4. faults' \in 0..MaxFaults
    <3>1. \E found, ok, ok2 \in Outcomes : Count(found /\ ok /\ ok2) \/ Count(ok /\ ok2)
        BY <1>4 DEF AddUser, RemoveUser
    <3> QED BY <3>1, CountKeeps
  <2> QED BY <1>4, <2>1, <2>3, <2>4 DEF AddUser, RemoveUser
<1>5. CASE SetAuthenticatedUser
  <2>1. auth' \in Users \cup {None}
      BY <1>5 DEF SetAuthenticatedUser
  <2> QED BY <1>5, <2>1 DEF SetAuthenticatedUser
<1>6. CASE Restart \/ GetAllUsers
  <2>1. Reopen /\ faults' \in 0..MaxFaults
      BY <1>6, DatabaseAssumption DEF Restart, GetAllUsers
  <2> QED BY <2>1, ReopenKeeps DEF Operations
<1>7. CASE UNCHANGED vars
    BY <1>7 DEF vars
<1> QED BY <1>1, <1>2, <1>3, <1>4, <1>5, <1>6, <1>7 DEF Next
-----------------------------------------------------------------------------
(* Threads are idle without an operation, have a key otherwise, and only   *)
(* the thread of the remote calls writes records.                          *)
LEMMA OpStep == IInv /\ [Next]_vars => OpInv'
<1> SUFFICES ASSUME TypeOK, OpInv, [Next]_vars PROVE OpInv'
    BY DEF IInv
<1>0. ASSUME NEW t \in Threads, \A u \in Threads \ {t} : op'[u] = op[u], OpSound(t, op'[t])
      PROVE  OpInv'
    BY <1>0 DEF OpInv
<1>n. \A t \in Threads : OpSound(t, NoOp)
    BY DEF OpSound, NoOp
<1>1. ASSUME NEW t \in Threads, NEW k \in Keys, Operation(t, k)
      PROVE  OpInv'
  <2>1. \A u \in Threads \ {t} : op'[u] = op[u]
      BY <1>1, OpBegins
  <2>2. OpSound(t, ReadCall(k))
      BY DEF OpSound, ReadCall, NoOp
  <2>3. ASSUME NEW v \in Numbers \cup {None}, NEW who \in {"SYS", "USER"},
               who = "USER" => t = Remote
        PROVE  OpSound(t, WriteCall(who, k, v))
      BY <2>3 DEF OpSound, WriteCall, NoOp
  <2>4. ASSUME NEW who \in {"SYS", "USER"}, t = Remote
        PROVE  OpSound(t, DeleteCall(who, k))
      BY <2>4 DEF OpSound, DeleteCall, NoOp
  <2>5. \/ op'[t] = ReadCall(k)
        \/ \E v \in Numbers \cup {None} : op'[t] = WriteCall("SYS", k, v)
        \/ t = Remote /\ \E v \in Numbers \cup {None} : op'[t] = WriteCall("USER", k, v)
        \/ t = Remote /\ \E who \in {"SYS", "USER"} : op'[t] = DeleteCall(who, k)
      BY <1>1, OpBegins
  <2>6. OpSound(t, op'[t])
      BY <2>2, <2>3, <2>4, <2>5
  <2> QED BY <1>0, <2>1, <2>6
<1>2. ASSUME NEW t \in Threads, Continue(t)
      PROVE  OpInv'
  <2>1. \A u \in Threads \ {t} : op'[u] = op[u]
      BY <1>2, OpAfter
  <2>2. op[t] \in Operations /\ OpSound(t, op[t]) /\ op[t].key \in Keys
      BY <1>2, OpAfter DEF TypeOK, Operations, OpInv
  <2>3. CASE ReadQuery(t) /\ op'[t] # NoOp
    <3>1. PICK text : op'[t] = [op[t] EXCEPT !.pc = "store", !.text = text]
        BY <1>2, <2>3, OpAfter DEF QueryYields
    <3>2. OpSound(t, op'[t])
        BY <2>2, <3>1 DEF OpSound, Operations
    <3> QED BY <1>0, <2>1, <3>2
  <2>4. CASE ReadStore(t)
    <3>1. op'[t] = [op[t] EXCEPT !.pc = "index"]
        BY <1>2, <2>4, OpAfter
    <3>2. OpSound(t, op'[t])
        BY <2>2, <3>1 DEF OpSound, Operations
    <3> QED BY <1>0, <2>1, <3>2
  <2>5. CASE WriteExists(t)
    <3>1. PICK w \in {"VAR_CREATE", "VAR_UPDATE"} :
            op'[t] = [op[t] EXCEPT !.pc = "log", !.what = w]
        BY <1>2, <2>5, OpAfter
    <3>2. op[t].pc = "exists"
        BY <2>5 DEF WriteExists, At
    <3>3. OpSound(t, op'[t])
        BY <2>2, <3>1, <3>2 DEF OpSound, Operations
    <3> QED BY <1>0, <2>1, <3>3
  <2>6. CASE WriteLog(t)
    <3>1. PICK ok \in Outcomes : op'[t] = [op[t] EXCEPT !.pc = "insert", !.logged = ok]
        BY <1>2, <2>6, OpAfter
    <3>2. op[t].pc = "log"
        BY <2>6 DEF WriteLog, At
    <3>3. OpSound(t, op'[t])
        BY <2>2, <3>1, <3>2 DEF OpSound, Operations
    <3> QED BY <1>0, <2>1, <3>3
  <2>7. CASE WriteInsert(t) \/ DeleteLog(t)
    <3>1. op'[t] = [op[t] EXCEPT !.pc = "erase"]
        BY <1>2, <2>7, OpAfter
    <3>2. OpSound(t, op'[t])
        BY <2>2, <3>1 DEF OpSound, Operations
    <3> QED BY <1>0, <2>1, <3>2
  <2>8. CASE DeleteLookup(t) \/ DeleteRow(t)
    <3>1. PICK p \in {"erase", "delete", "logdel"} : op'[t] = [op[t] EXCEPT !.pc = p]
        BY <1>2, <2>8, OpAfter
    <3>2. op[t].pc \in {"lookup", "delete"}
        BY <2>8 DEF DeleteLookup, DeleteRow, At
    <3>3. OpSound(t, op'[t])
        BY <2>2, <3>1, <3>2 DEF OpSound, Operations
    <3> QED BY <1>0, <2>1, <3>3
  <2>9. CASE op'[t] = NoOp
      BY <1>0, <1>n, <2>1, <2>9
  <2>10. ReadIndex(t) \/ Erase(t) => op'[t] = NoOp
      BY <1>2, OpAfter
  <2> QED BY <1>2, <2>3, <2>4, <2>5, <2>6, <2>7, <2>8, <2>9, <2>10 DEF Continue
<1>3. CASE UNCHANGED op
    BY <1>3 DEF OpInv
<1>4. CASE Restart \/ GetAllUsers
    BY <1>4, <1>n, ReopenKeeps DEF Restart, GetAllUsers, OpInv
<1> QED BY <1>1, <1>2, <1>3, <1>4 DEF Next, InvalidateCache, AddUser, RemoveUser,
                                     SetAuthenticatedUser, vars
-----------------------------------------------------------------------------
(* A row is written together with its history.                             *)
LEMMA TextStep == IInv /\ [Next]_vars => TextInv'
<1> SUFFICES ASSUME TypeOK, OpInv, TextInv, [Next]_vars PROVE TextInv'
    BY DEF IInv
<1>1. CASE UNCHANGED <<table, value>>
    BY <1>1 DEF TextInv
<1>2. ASSUME NEW t \in Threads, WriteInsert(t)
      PROVE  TextInv'
  <2>1. /\ op[t].key \in Keys /\ op[t].num \in Numbers \cup {None}
        /\ op[t].text = IF op[t].num = None THEN Empty ELSE to_string(op[t].num)
      BY <1>2 DEF WriteInsert, At, OpInv, OpSound, TypeOK
  <2>2. PICK ok :
         /\ table' = IF ok THEN [table EXCEPT ![op[t].key] = op[t].text] ELSE table
         /\ value' = IF ok THEN [value EXCEPT ![op[t].key] = op[t].num] ELSE value
      BY <1>2 DEF WriteInsert
  <2>3. CASE ok
      BY <2>1, <2>2, <2>3 DEF TextInv, TypeOK
  <2>4. CASE ~ok
      BY <2>2, <2>4 DEF TextInv
  <2> QED BY <2>3, <2>4
<1>3. ASSUME NEW t \in Threads, DeleteRow(t)
      PROVE  TextInv'
  <2>1. PICK ok :
         /\ table' = IF ok THEN [table EXCEPT ![op[t].key] = None] ELSE table
         /\ value' = IF ok THEN [value EXCEPT ![op[t].key] = None] ELSE value
      BY <1>3 DEF DeleteRow
  <2>2. CASE ok
      BY <2>1, <2>2 DEF TextInv, TypeOK
  <2>3. CASE ~ok
      BY <2>1, <2>3 DEF TextInv
  <2> QED BY <2>2, <2>3
<1>4. ASSUME NEW t \in Threads, NEW k \in Keys, Operation(t, k)
      PROVE  UNCHANGED <<table, value>>
    BY <1>4, OpBegins
<1>5. CASE Restart \/ GetAllUsers
    BY <1>1, <1>5 DEF Restart, GetAllUsers, Reopen, rows
<1> QED BY <1>1, <1>2, <1>3, <1>4, <1>5
        DEF Next, Continue, ReadQuery, ReadStore, ReadIndex, WriteExists, WriteLog,
            DeleteLookup, DeleteLog, Erase, InvalidateCache, AddUser, RemoveUser,
            SetAuthenticatedUser, rows, vars

(* Without a database no text gets into the cache.                         *)
LEMMA DownStep == IInv /\ [Next]_vars => DownInv'
<1> SUFFICES ASSUME TypeOK, OpInv, DownInv, [Next]_vars PROVE DownInv'
    BY DEF IInv
<1>1. ASSUME NEW t \in Threads, NEW k \in Keys, Operation(t, k)
      PROVE  DownInv'
  <2>1. op'[t].pc # "store"
      BY <1>1, OpBegins
  <2>2. /\ \A u \in Threads \ {t} : op'[u] = op[u]
        /\ cache' = cache /\ up' = up
      BY <1>1, OpBegins
  <2> QED BY <2>1, <2>2 DEF DownInv, At
<1>2. ASSUME NEW t \in Threads, Continue(t), ~up'
      PROVE  DownInv'
  <2>1. ~up
      BY <1>2 DEF Continue, ReadQuery, ReadStore, ReadIndex, WriteExists, WriteLog,
                  WriteInsert, DeleteLookup, DeleteRow, DeleteLog, Erase
  <2>2. /\ op[t] \in Operations /\ op[t].key \in Keys
        /\ \A u \in Threads \ {t} : op'[u] = op[u]
      BY <1>2, OpAfter DEF TypeOK, Operations
  <2>3. op'[t].pc # "store"
    <3>1. CASE ReadQuery(t)
      <4>1. PICK ok \in Outcomes : QueryYields(t, ok)
          BY <1>2, <3>1, OpAfter
      <4>2. ~ok
          BY <2>1, OutcomesAre
      <4>3. op'[t] = NoOp
          BY <4>1, <4>2 DEF ReadVariable, QueryYields
      <4> QED BY <4>3 DEF NoOp
    <3>2. CASE ReadStore(t) \/ WriteInsert(t) \/ DeleteLog(t)
      <4>1. PICK p \in {"index", "erase"} : op'[t] = [op[t] EXCEPT !.pc = p]
          BY <1>2, <3>2, OpAfter
      <4> QED BY <2>2, <4>1 DEF Operations
    <3>3. CASE ReadIndex(t) \/ Erase(t)
      <4>1. op'[t] = NoOp
          BY <1>2, <3>3, OpAfter
      <4> QED BY <4>1 DEF NoOp
    <3>4. CASE WriteExists(t)
      <4>1. PICK w : op'[t] = [op[t] EXCEPT !.pc = "log", !.what = w]
          BY <1>2, <3>4, OpAfter
      <4> QED BY <2>2, <4>1 DEF Operations
    <3>5. CASE WriteLog(t)
      <4>1. PICK ok : op'[t] = [op[t] EXCEPT !.pc = "insert", !.logged = ok]
          BY <1>2, <3>5, OpAfter
      <4> QED BY <2>2, <4>1 DEF Operations
    <3>6. CASE DeleteLookup(t) \/ DeleteRow(t)
      <4>1. PICK p \in {"erase", "delete", "logdel"} : op'[t] = [op[t] EXCEPT !.pc = p]
          BY <1>2, <3>6, OpAfter
      <4> QED BY <2>2, <4>1 DEF Operations
    <3> QED BY <1>2, <3>1, <3>2, <3>3, <3>4, <3>5, <3>6 DEF Continue
  <2>4. ~At(t, "store")
      BY <2>1 DEF DownInv
  <2>5. \A k \in Keys : cache'[k] \in {None, Empty}
    <3>1. CASE UNCHANGED cache
        BY <2>1, <3>1 DEF DownInv
    <3>2. CASE ReadIndex(t) \/ Erase(t)
        BY <2>1, <2>2, <3>2 DEF ReadIndex, Erase, DownInv, TypeOK
    <3> QED BY <1>2, <2>4, <3>1, <3>2
            DEF Continue, ReadQuery, ReadStore, WriteExists, WriteLog, WriteInsert,
                DeleteLookup, DeleteRow, DeleteLog
  <2> QED BY <2>2, <2>3, <2>1, <2>5 DEF DownInv, At
<1>3. CASE InvalidateCache(Remote)
    BY <1>3 DEF InvalidateCache, DownInv, At
<1>4. CASE Restart \/ GetAllUsers
    BY <1>4, ReopenKeeps DEF Restart, GetAllUsers, DownInv, At, NoOp
<1>5. CASE UNCHANGED <<cache, up, op>>
    BY <1>5 DEF DownInv, At
<1>6. CASE up'
    BY <1>6 DEF DownInv
<1> QED BY <1>1, <1>2, <1>3, <1>4, <1>5, <1>6
        DEF Next, AddUser, RemoveUser, SetAuthenticatedUser, vars
-----------------------------------------------------------------------------
(* A step within a write keeps its key and its text and is not its last.   *)
LEMMA WriteMoves ==
    ASSUME TypeOK, OpInv, NEW t \in Threads,
           WriteExists(t) \/ WriteLog(t) \/ WriteInsert(t) \/ DeleteLookup(t)
             \/ DeleteRow(t) \/ DeleteLog(t)
    PROVE  /\ op'[t].key = op[t].key /\ op'[t].text = op[t].text
           /\ op[t].pc \in Writing /\ op'[t].pc \in Writing
           /\ UNCHANGED <<cache, disturbed>>
<1> USE DEF Writing
<1>0. Continue(t) /\ op[t] \in Operations
    BY DEF Continue, TypeOK, Operations
<1>1. CASE WriteExists(t)
  <2>1. PICK w : op'[t] = [op[t] EXCEPT !.pc = "log", !.what = w]
      BY <1>0, <1>1, OpAfter
  <2>2. op[t].pc = "exists" /\ UNCHANGED <<cache, disturbed>>
      BY <1>1 DEF WriteExists, At
  <2> QED BY <1>0, <2>1, <2>2 DEF Operations
<1>2. CASE WriteLog(t)
  <2>1. PICK ok : op'[t] = [op[t] EXCEPT !.pc = "insert", !.logged = ok]
      BY <1>0, <1>2, OpAfter
  <2> QED BY <1>0, <1>2, <2>1 DEF WriteLog, At, Operations
<1>3. CASE WriteInsert(t) \/ DeleteLog(t)
  <2>1. op'[t] = [op[t] EXCEPT !.pc = "erase"]
      BY <1>0, <1>3, OpAfter
  <2> QED BY <1>0, <1>3, <2>1 DEF WriteInsert, DeleteLog, At, Operations
<1>4. CASE DeleteLookup(t) \/ DeleteRow(t)
  <2>1. PICK p \in {"erase", "delete", "logdel"} : op'[t] = [op[t] EXCEPT !.pc = p]
      BY <1>0, <1>4, OpAfter
  <2>2. op[t].pc \in {"lookup", "delete"} /\ UNCHANGED <<cache, disturbed>>
      BY <1>4 DEF DeleteLookup, DeleteRow, At
  <2> QED BY <1>0, <2>1, <2>2 DEF Operations
<1> QED BY <1>1, <1>2, <1>3, <1>4

(* A row changes only under a write of its key that goes on.               *)
LEMMA RowsChange ==
    ASSUME TypeOK, OpInv, NEW t \in Threads, Continue(t), NEW k \in Keys, k # op[t].key
    PROVE  table'[k] = table[k] /\ cache'[k] = cache[k]
<1>1. op[t].key \in Keys
    BY OpAfter
<1>2. CASE WriteInsert(t) \/ DeleteRow(t)
    BY <1>1, <1>2 DEF WriteInsert, DeleteRow, TypeOK
<1>3. CASE ReadStore(t) \/ ReadIndex(t) \/ Erase(t)
    BY <1>1, <1>3 DEF ReadStore, ReadIndex, Erase, TypeOK, rows
<1>4. CASE UNCHANGED <<table, cache>>
    BY <1>4
<1> QED BY <1>2, <1>3, <1>4
        DEF Continue, ReadQuery, WriteExists, WriteLog, DeleteLookup, DeleteLog, rows

(* What the cache promises about one key.                                  *)
KeySound(k) ==
    /\ \A t, u \in Threads :
         op[t].key = k /\ op[u].key = k /\ op[t].pc \in Writing => t = u
    /\ cache[k] # None /\ ~BeingWritten(k) => cache[k] = table[k]
    /\ \A t \in Threads : op[t].key = k =>
         /\ op[t].pc = "store" => op[t].text = table[k]
         /\ op[t].pc = "index" => cache[k] # None

(* On a key nobody has disturbed, every step keeps that promise.           *)
LEMMA CacheStep == IInv /\ [Next]_vars => CacheInv'
<1> SUFFICES ASSUME TypeOK, OpInv, CacheInv, [Next]_vars, NEW k \in Keys, k \notin disturbed'
             PROVE  KeySound(k)'
    BY DEF IInv, CacheInv, KeySound, At
<1>0. k \notin disturbed => KeySound(k)
    BY DEF CacheInv, KeySound, At
<1>i. \A t \in Threads : op[t].pc = "idle" => op[t].key # k /\ op[t].key = None
    BY DatabaseAssumption DEF OpInv, OpSound, NoOp
<1>n. NoOp.key # k /\ NoOp.pc \notin Writing
    BY DatabaseAssumption DEF NoOp, Writing
<1>q. ASSUME \A t \in Threads : op'[t].key # k, cache'[k] = None
      PROVE  KeySound(k)'
    BY <1>q DEF KeySound
<1>1. ASSUME NEW t \in Threads, NEW j \in Keys, Operation(t, j)
      PROVE  KeySound(k)'
  <2>1. /\ op[t] = NoOp /\ op'[t].key = j /\ \A u \in Threads \ {t} : op'[u] = op[u]
        /\ op'[t].pc # "store" /\ (op'[t].pc = "index" => cache[j] # None)
        /\ UNCHANGED <<table, cache>>
        /\ disturbed' = IF \E u \in Others(t, j) :
                               op'[t].pc \in Writing \/ op[u].pc \in Writing
                        THEN disturbed \cup {j} ELSE disturbed
      BY <1>1, OpBegins
  <2>2. KeySound(k)
      BY <1>0, <2>1
  <2>3. k = j => \A u \in Threads \ {t} : op[u].key = k =>
                    op'[t].pc \notin Writing /\ op[u].pc \notin Writing
      BY <2>1 DEF Others
  <2>4. BeingWritten(k) => BeingWritten(k)'
      BY <1>n, <2>1 DEF BeingWritten
  <2>5. \A s, u \in Threads :
          op'[s].key = k /\ op'[u].key = k /\ op'[s].pc \in Writing => s = u
      BY <2>1, <2>2, <2>3 DEF KeySound
  <2>6. \A s \in Threads : op'[s].key = k =>
         /\ op'[s].pc = "store" => op'[s].text = table'[k]
         /\ op'[s].pc = "index" => cache'[k] # None
      BY <2>1, <2>2 DEF KeySound
  <2> QED BY <2>1, <2>2, <2>4, <2>5, <2>6 DEF KeySound
<1>2. ASSUME NEW t \in Threads, Continue(t)
      PROVE  KeySound(k)'
  <2>1. op[t] \in Operations /\ op[t].key \in Keys /\ \A u \in Threads \ {t} : op'[u] = op[u]
      BY <1>2, OpAfter DEF TypeOK, Operations
  <2>2. CASE ReadQuery(t)
    <3>1. UNCHANGED <<table, cache, disturbed>> /\ op[t].pc = "query"
        BY <2>2 DEF ReadQuery, rows, At
    <3>2. \/ op'[t] = NoOp
          \/ /\ op'[t].key = op[t].key /\ op'[t].pc = "store"
             /\ op'[t].text = table[op[t].key]
      <4>1. PICK ok \in Outcomes : QueryYields(t, ok)
          BY <1>2, <2>2, OpAfter
      <4>2. \/ op'[t] = NoOp
            \/ op'[t] = [op[t] EXCEPT !.pc = "store", !.text = table[op[t].key]]
          BY <4>1 DEF QueryYields, ReadVariable
      <4> QED BY <2>1, <4>2 DEF Operations
    <3>3. KeySound(k)
        BY <1>0, <3>1
    <3>4. BeingWritten(k) => BeingWritten(k)'
        BY <2>1, <3>1 DEF BeingWritten, Writing
    <3>5. \A s, u \in Threads :
            op'[s].key = k /\ op'[u].key = k /\ op'[s].pc \in Writing => s = u
        BY <1>n, <2>1, <3>2, <3>3 DEF KeySound, Writing
    <3> QED BY <1>n, <2>1, <3>1, <3>2, <3>3, <3>4, <3>5 DEF KeySound
  <2>3. CASE ReadStore(t) \/ ReadIndex(t)
    <3>1. UNCHANGED <<table, disturbed>> /\ op[t].pc \in {"store", "index"}
        BY <2>3 DEF ReadStore, ReadIndex, rows, At
    <3>2. op'[t] = NoOp \/ (op'[t].key = op[t].key /\ op'[t].pc = "index")
      <4>1. op'[t] = NoOp \/ op'[t] = [op[t] EXCEPT !.pc = "index"]
          BY <1>2, <2>3, OpAfter
      <4> QED BY <2>1, <4>1 DEF Operations
    <3>3. KeySound(k)
        BY <1>0, <3>1
    <3>4. BeingWritten(k) <=> BeingWritten(k)'
        BY <1>n, <2>1, <3>1, <3>2 DEF BeingWritten, Writing
    <3>5. \A s, u \in Threads :
            op'[s].key = k /\ op'[u].key = k /\ op'[s].pc \in Writing => s = u
        BY <1>n, <2>1, <3>2, <3>3 DEF KeySound, Writing
    <3>6. cache'[k] = cache[k] \/ (op[t].key = k /\ cache'[k] = table[k] /\ cache'[k] # None)
      <4>1. CASE k # op[t].key
          BY <1>2, <4>1, RowsChange
      <4>2. CASE k = op[t].key /\ ReadStore(t)
          BY <2>1, <3>3, <4>2, DatabaseAssumption
             DEF ReadStore, KeySound, TypeOK, Operations, At, Empty
      <4>3. CASE k = op[t].key /\ ReadIndex(t)
        <5>1. cache[k] # None
            BY <3>3, <4>3 DEF KeySound, ReadIndex, At
        <5> QED BY <4>3, <5>1 DEF ReadIndex, TypeOK
      <4> QED BY <2>3, <4>1, <4>2, <4>3
    <3>7. op'[t].key = k /\ op'[t].pc = "index" => cache'[k] # None
        BY <1>n, <2>1, <2>3, <3>2, <3>3, <3>6, DatabaseAssumption
           DEF KeySound, ReadStore, ReadIndex, TypeOK, Empty, Operations, At
    <3> QED BY <1>n, <2>1, <3>1, <3>2, <3>3, <3>4, <3>5, <3>6, <3>7 DEF KeySound
  <2>4. CASE WriteExists(t) \/ WriteLog(t) \/ WriteInsert(t) \/ DeleteLookup(t)
               \/ DeleteRow(t) \/ DeleteLog(t)
    <3>1. /\ op'[t].key = op[t].key /\ op[t].pc \in Writing /\ op'[t].pc \in Writing
          /\ UNCHANGED <<cache, disturbed>>
        BY <2>4, WriteMoves
    <3>2. KeySound(k)
        BY <1>0, <3>1
    <3>3. BeingWritten(k) <=> BeingWritten(k)'
        BY <2>1, <3>1 DEF BeingWritten
    <3>4. CASE k # op[t].key
      <4>1. table'[k] = table[k]
          BY <1>2, <3>4, RowsChange
      <4> QED BY <2>1, <3>1, <3>2, <3>3, <3>4, <4>1 DEF KeySound
    <3>5. CASE k = op[t].key
      <4>1. BeingWritten(k)'
          BY <3>1, <3>5 DEF BeingWritten
      <4>2. \A s \in Threads : op'[s].key = k => s = t
          BY <2>1, <3>1, <3>2, <3>5 DEF KeySound
      <4> QED BY <3>1, <4>1, <4>2 DEF KeySound, Writing
    <3> QED BY <3>4, <3>5
  <2>5. CASE Erase(t)
    <3>1. op'[t] = NoOp /\ op[t].pc \in Writing
        BY <1>2, <2>5, OpAfter DEF Erase, At, Writing
    <3>2. CASE k # op[t].key
      <4>1. UNCHANGED table /\ cache'[k] = cache[k] /\ KeySound(k)
          BY <1>0, <1>2, <2>5, <3>2, RowsChange DEF Erase, rows
      <4>2. BeingWritten(k) <=> BeingWritten(k)'
          BY <1>n, <2>1, <3>1, <3>2 DEF BeingWritten
      <4> QED BY <1>n, <2>1, <3>1, <3>2, <4>1, <4>2 DEF KeySound
    <3>3. CASE k = op[t].key
      <4>1. cache'[k] = None
          BY <2>5, <3>3 DEF Erase, TypeOK
      <4>2. Others(t, k) = {}
          BY <1>0, <2>5, <3>1, <3>3 DEF Erase, KeySound, Others
      <4>3. \A s \in Threads : op'[s].key # k
          BY <1>n, <2>1, <3>1, <4>2 DEF Others
      <4> QED BY <1>q, <4>1, <4>3
    <3> QED BY <3>2, <3>3
  <2> QED BY <1>2, <2>2, <2>3, <2>4, <2>5 DEF Continue
<1>3. CASE InvalidateCache(Remote)
  <2>1. cache'[k] = None /\ op' = op
      BY <1>3 DEF InvalidateCache
  <2>2. Others(Remote, k) = {} /\ op[Remote].pc = "idle"
      BY <1>3 DEF InvalidateCache, At
  <2>3. \A s \in Threads : op'[s].key # k
      BY <1>i, <2>1, <2>2 DEF Others
  <2> QED BY <1>q, <2>1, <2>3
<1>4. CASE Restart \/ GetAllUsers
    BY <1>4, <1>n, <1>q, ReopenKeeps DEF Restart, GetAllUsers
<1>5. CASE UNCHANGED <<table, cache, op, disturbed>>
    BY <1>0, <1>5 DEF KeySound, BeingWritten
<1> QED BY <1>1, <1>2, <1>3, <1>4, <1>5
        DEF Next, AddUser, RemoveUser, SetAuthenticatedUser, rows, vars
-----------------------------------------------------------------------------
(* What the audit log says about one variable.                             *)
Announced == At(Remote, "insert") /\ op[Remote].logged
LogSound(k) ==
    /\ op[Remote].key = k /\ Announced =>
         varLog[k] # None /\ varLog[k].what # "VAR_DELETE" /\ varLog[k].text = op[Remote].text
    /\ k \notin unlogged =>
         IF Pending(k) THEN At(Remote, "logdel") => table[k] = None
                       ELSE table[k] = Replayed(varLog[k])

(* A variable's records are kept up by the steps of the thread of the      *)
(* remote calls; the writes of the other threads leave a key unrecorded.   *)
LEMMA LogStep == IInv /\ [Next]_vars => LogInv'
<1> SUFFICES ASSUME TypeOK, OpInv, LogInv, [Next]_vars, NEW k \in Keys
             PROVE  LogSound(k)'
    BY DEF IInv, LogInv, LogSound, Announced
<1>0. LogSound(k)
    BY DEF LogInv, LogSound, Announced
<1>r. Remote \in Threads
    BY DatabaseAssumption
<1>q. ASSUME ~(op'[Remote].key = k /\ Announced'), ~Pending(k)',
             k \notin unlogged' => table'[k] = Replayed(varLog'[k])
      PROVE  LogSound(k)'
    BY <1>q DEF LogSound
<1>1. ASSUME NEW t \in Threads, NEW j \in Keys, Operation(t, j)
      PROVE  LogSound(k)'
  <2>1. /\ op[t] = NoOp /\ \A u \in Threads \ {t} : op'[u] = op[u]
        /\ op'[t].logged = FALSE /\ op'[t].pc # "logdel"
        /\ UNCHANGED <<table, varLog, unlogged>>
      BY <1>1, OpBegins
  <2>2. CASE t # Remote
    <3>1. op'[Remote] = op[Remote]
        BY <1>r, <2>1, <2>2
    <3> QED BY <1>0, <2>1, <3>1 DEF LogSound, Pending, Announced, At
  <2>3. CASE t = Remote
    <3>1. ~Pending(k)' /\ ~Announced'
        BY <2>1, <2>3 DEF Pending, Announced, At
    <3>2. ~Pending(k)
        BY <2>1, <2>3 DEF Pending, At, NoOp
    <3> QED BY <1>0, <1>q, <2>1, <3>1, <3>2 DEF LogSound
  <2> QED BY <2>2, <2>3
<1>2. ASSUME NEW t \in Threads, Continue(t)
      PROVE  LogSound(k)'
  <2>1. op[t] \in Operations /\ op[t].key \in Keys /\ \A u \in Threads \ {t} : op'[u] = op[u]
      BY <1>2, OpAfter DEF TypeOK, Operations
  <2>s. OpSound(t, op[t])
      BY DEF OpInv
  <2>2. CASE ReadQuery(t) \/ ReadStore(t) \/ ReadIndex(t) \/ Erase(t) \/ DeleteLookup(t)
               \/ WriteExists(t)
    <3>1. UNCHANGED <<table, varLog, unlogged>> /\ op[t].pc # "insert" /\ op[t].pc # "logdel"
        BY <2>2 DEF ReadQuery, ReadStore, ReadIndex, Erase, DeleteLookup, WriteExists,
                    rows, logs, At
    <3>2. CASE t # Remote
      <4>1. op'[Remote] = op[Remote]
          BY <1>r, <2>1, <3>2
      <4> QED BY <1>0, <3>1, <4>1 DEF LogSound, Pending, Announced, At
    <3>3. CASE t = Remote
      <4>1. op'[t].pc # "insert" /\ op'[t].pc # "logdel"
        <5>1. CASE ReadQuery(t)
          <6>1. op'[t] = NoOp
                \/ \E text : op'[t] = [op[t] EXCEPT !.pc = "store", !.text = text]
              BY <1>2, <5>1, OpAfter DEF QueryYields
          <6>2. CASE op'[t] = NoOp
              BY <6>2 DEF NoOp
          <6>3. CASE \E text : op'[t] = [op[t] EXCEPT !.pc = "store", !.text = text]
              BY <2>1, <6>3 DEF Operations
          <6> QED BY <6>1, <6>2, <6>3
        <5>2. CASE ReadStore(t)
          <6>1. op'[t] = [op[t] EXCEPT !.pc = "index"]
              BY <1>2, <5>2, OpAfter
          <6> QED BY <2>1, <6>1 DEF Operations
        <5>3. CASE ReadIndex(t) \/ Erase(t)
          <6>1. op'[t] = NoOp
              BY <1>2, <5>3, OpAfter
          <6> QED BY <6>1 DEF NoOp
        <5>4. CASE DeleteLookup(t)
          <6>1. PICK p \in {"erase", "delete"} : op'[t] = [op[t] EXCEPT !.pc = p]
              BY <1>2, <5>4, OpAfter
          <6> QED BY <2>1, <6>1 DEF Operations
        <5>5. CASE WriteExists(t)
          <6>1. PICK w : op'[t] = [op[t] EXCEPT !.pc = "log", !.what = w]
              BY <1>2, <5>5, OpAfter
          <6> QED BY <2>1, <6>1 DEF Operations
        <5> QED BY <2>2, <5>1, <5>2, <5>3, <5>4, <5>5
      <4>2. ~Pending(k) /\ ~Pending(k)' /\ ~Announced'
          BY <3>1, <3>3, <4>1 DEF Pending, Announced, At
      <4> QED BY <1>0, <1>q, <3>1, <4>2 DEF LogSound
    <3> QED BY <3>2, <3>3
  <2>3. CASE WriteLog(t)
    <3>1. t = Remote /\ op[t].pc = "log" /\ op[t].what # "VAR_DELETE"
        BY <2>s, <2>3 DEF WriteLog, At, OpSound
    <3>2. PICK ok \in Outcomes :
            /\ LogEvent(t, ok, "System")
            /\ op'[t] = [op[t] EXCEPT !.pc = "insert", !.logged = ok]
        BY <1>2, <2>3, OpAfter
    <3>3. UNCHANGED <<table, unlogged>> /\ ~Pending(k)
        BY <2>3, <3>1 DEF WriteLog, rows, Pending, At
    <3>4. /\ op'[t].key = op[t].key /\ op'[t].text = op[t].text /\ op'[t].pc = "insert"
          /\ op'[t].logged = ok
        BY <2>1, <3>2 DEF Operations
    <3>5. CASE ~ok
      <4>1. varLog' = varLog /\ ~Pending(k)' /\ ~Announced'
          BY <3>1, <3>2, <3>4, <3>5 DEF LogEvent, Pending, Announced, At
      <4> QED BY <1>0, <1>q, <3>3, <4>1 DEF LogSound
    <3>6. CASE ok /\ k # op[t].key
      <4>1. varLog'[k] = varLog[k] /\ ~Pending(k)'
          BY <2>1, <3>1, <3>2, <3>4, <3>6 DEF LogEvent, Pending, TypeOK
      <4> QED BY <1>0, <1>q, <3>1, <3>3, <3>4, <3>6, <4>1 DEF LogSound
    <3>7. CASE ok /\ k = op[t].key
      <4>1. varLog'[k] = [what |-> op[t].what, text |-> op[t].text, by |-> "System"]
          BY <3>2, <3>7 DEF LogEvent, TypeOK
      <4>2. varLog'[k] # None /\ varLog'[k].what # "VAR_DELETE" /\ varLog'[k].text = op[t].text
        <5>1. varLog'[k] \in Record
            BY <2>1, <2>s, <2>3, <4>1 DEF Record, Operations, OpSound, WriteLog, At
        <5> QED BY <3>1, <4>1, <5>1, NoneIsNoRecord
      <4>3. Pending(k)' /\ ~At(Remote, "logdel")'
          BY <3>1, <3>4, <3>7 DEF Pending, At
      <4> QED BY <3>1, <3>4, <4>2, <4>3 DEF LogSound
    <3> QED BY <3>5, <3>6, <3>7
  <2>4. CASE WriteInsert(t)
    <3>1. PICK ok \in Outcomes :
            /\ table' = IF ok THEN [table EXCEPT ![op[t].key] = op[t].text] ELSE table
            /\ Recorded(op[t].key, ok, op[t].logged)
        BY <2>4 DEF WriteInsert
    <3>2. varLog' = varLog /\ op[t].pc = "insert" /\ op'[t].pc = "erase"
      <4>1. op'[t] = [op[t] EXCEPT !.pc = "erase"]
          BY <1>2, <2>4, OpAfter
      <4> QED BY <2>1, <2>4, <4>1 DEF Operations, WriteInsert, logs, At
    <3>3. ok \in BOOLEAN /\ op[t].logged \in BOOLEAN
        BY <2>1, OutcomesAre DEF Operations
    <3>4. CASE k # op[t].key
      <4>1. table'[k] = table[k] /\ (k \in unlogged' <=> k \in unlogged)
          BY <2>1, <3>1, <3>4 DEF Recorded, TypeOK
      <4>2. (op'[Remote].key = k /\ Announced' => op'[Remote] = op[Remote])
            /\ (Pending(k) <=> Pending(k)') /\ (Pending(k) => op'[Remote] = op[Remote])
        <5>1. op'[t].key = op[t].key
            BY <2>4, WriteMoves
        <5> QED BY <1>r, <2>1, <3>2, <3>4, <5>1 DEF Pending, Announced, At
      <4> QED BY <1>0, <3>2, <4>1, <4>2 DEF LogSound, Announced, At
    <3>5. CASE k = op[t].key /\ t # Remote
      <4>1. op[t].logged = FALSE /\ op'[Remote] = op[Remote]
          BY <1>r, <2>1, <2>s, <3>3, <3>5 DEF OpSound
      <4>2. CASE ok
        <5>1. k \in unlogged'
            BY <3>1, <3>5, <4>1, <4>2 DEF Recorded
        <5> QED BY <1>0, <3>2, <4>1, <5>1 DEF LogSound, Announced, At
      <4>3. CASE ~ok
        <5>1. UNCHANGED <<table, unlogged>>
            BY <3>1, <3>3, <4>1, <4>3 DEF Recorded
        <5> QED BY <1>0, <3>2, <4>1, <5>1 DEF LogSound, Announced, Pending, At
      <4> QED BY <4>2, <4>3
    <3>6. CASE k = op[t].key /\ t = Remote
      <4>1. ~Pending(k)' /\ ~Announced'
          BY <3>2, <3>6 DEF Pending, Announced, At
      <4>2. CASE op[t].logged
        <5>1. Replayed(varLog[k]) = op[t].text
            BY <1>0, <3>2, <3>6, <4>2 DEF LogSound, Announced, At, Replayed
        <5>2. ok => table'[k] = op[t].text
            BY <2>1, <3>1, <3>6 DEF TypeOK
        <5>3. ~ok => k \in unlogged'
            BY <3>1, <3>3, <3>6, <4>2 DEF Recorded
        <5> QED BY <1>q, <3>2, <4>1, <5>1, <5>2, <5>3
      <4>3. CASE ~op[t].logged
        <5>1. ok => k \in unlogged'
            BY <3>1, <3>3, <3>6, <4>3 DEF Recorded
        <5>2. ~ok => UNCHANGED <<table, unlogged>>
            BY <3>1, <3>3, <4>3 DEF Recorded
        <5>3. ~Pending(k)
            BY <3>2, <3>6, <4>3 DEF Pending, At
        <5> QED BY <1>0, <1>q, <3>2, <4>1, <5>1, <5>2, <5>3 DEF LogSound
      <4> QED BY <4>2, <4>3
    <3> QED BY <3>4, <3>5, <3>6
  <2>5. CASE DeleteRow(t)
    <3>1. t = Remote /\ op[t].pc = "delete"
        BY <2>s, <2>5 DEF DeleteRow, At, OpSound
    <3>2. PICK ok \in Outcomes :
            /\ table' = IF ok THEN [table EXCEPT ![op[t].key] = None] ELSE table
            /\ unlogged' = IF ok THEN unlogged \ {op[t].key} ELSE unlogged
            /\ Goto(t, IF ok THEN "logdel" ELSE "erase")
        BY <2>5 DEF DeleteRow
    <3>3. varLog' = varLog /\ ~Pending(k) /\ op'[t].key = op[t].key
        BY <2>5, <3>1, WriteMoves DEF DeleteRow, logs, Pending, At
    <3>4. op'[t].pc = IF ok THEN "logdel" ELSE "erase"
      <4> DEFINE p == IF ok THEN "logdel" ELSE "erase"
      <4>1. p \in Writing
          BY DEF Writing
      <4>2. op'[t] = [op[t] EXCEPT !.pc = p]
          BY <3>2, <4>1, GotoKeeps
      <4> QED BY <2>1, <4>2 DEF Operations
    <3>5. ~Announced'
        BY <3>1, <3>4 DEF Announced, At
    <3>6. CASE ok /\ k = op[t].key
      <4>1. table'[k] = None /\ Pending(k)'
          BY <2>1, <3>1, <3>2, <3>3, <3>4, <3>6 DEF TypeOK, Pending, At
      <4> QED BY <3>5, <4>1 DEF LogSound
    <3>7. CASE ~(ok /\ k = op[t].key)
      <4>1. table'[k] = table[k] /\ ~Pending(k)' /\ (k \in unlogged' <=> k \in unlogged)
          BY <2>1, <3>1, <3>2, <3>3, <3>4, <3>7 DEF TypeOK, Pending, At
      <4> QED BY <1>0, <1>q, <3>3, <3>5, <4>1 DEF LogSound
    <3> QED BY <3>6, <3>7
  <2>6. CASE DeleteLog(t)
    <3>1. t = Remote /\ op[t].pc = "logdel" /\ op[t].what = "VAR_DELETE"
        BY <2>s, <2>6 DEF DeleteLog, At, OpSound
    <3>2. PICK ok \in Outcomes, by \in {auth, "System"} :
            /\ LogEvent(t, ok, by)
            /\ unlogged' = IF ok THEN unlogged ELSE unlogged \cup {op[t].key}
        BY <2>6 DEF DeleteLog
    <3>3. table' = table /\ op'[t].pc = "erase"
      <4>1. op'[t] = [op[t] EXCEPT !.pc = "erase"]
          BY <1>2, <2>6, OpAfter
      <4> QED BY <2>1, <2>6, <4>1 DEF Operations, DeleteLog, rows
    <3>4. ~Announced' /\ ~Pending(k)'
        BY <3>1, <3>3 DEF Announced, Pending, At
    <3>5. CASE k # op[t].key
      <4>1. varLog'[k] = varLog[k] /\ ~Pending(k) /\ (k \in unlogged' <=> k \in unlogged)
          BY <2>1, <3>1, <3>2, <3>5 DEF TypeOK, LogEvent, Pending
      <4> QED BY <1>0, <1>q, <3>3, <3>4, <4>1 DEF LogSound
    <3>6. CASE k = op[t].key
      <4>1. k \notin unlogged' => table[k] = None
          BY <1>0, <3>1, <3>2, <3>6 DEF LogSound, Pending, At
      <4>2. ok => Replayed(varLog'[k]) = None
          BY <3>1, <3>2, <3>6 DEF TypeOK, LogEvent, Replayed
      <4>3. ~ok => k \in unlogged'
          BY <3>2, <3>6
      <4> QED BY <1>q, <3>3, <3>4, <4>1, <4>2, <4>3
    <3> QED BY <3>5, <3>6
  <2> QED BY <1>2, <2>2, <2>3, <2>4, <2>5, <2>6 DEF Continue
<1>3. ASSUME NEW u \in Users, AddUser(u) \/ RemoveUser(u)
      PROVE  LogSound(k)'
  <2>1. k # u
      BY DatabaseAssumption
  <2>2. k \in unlogged' <=> k \in unlogged
      BY <1>3, <2>1 DEF AddUser, RemoveUser, Recorded
  <2>3. UNCHANGED <<table, varLog, op>>
      BY <1>3 DEF AddUser, RemoveUser, rows
  <2> QED BY <1>0, <2>2, <2>3 DEF LogSound, Announced, Pending, At
<1>4. CASE Restart \/ GetAllUsers
  <2>1. /\ op'[Remote] = NoOp /\ UNCHANGED <<table, varLog>> /\ unlogged \subseteq unlogged'
        /\ Pending(k) => k \in unlogged'
      BY <1>4, <1>r, ReopenKeeps DEF Restart, GetAllUsers
  <2>2. ~Announced' /\ ~Pending(k)'
      BY <2>1 DEF Announced, Pending, At, NoOp
  <2> QED BY <1>0, <1>q, <2>1, <2>2 DEF LogSound
<1>5. CASE UNCHANGED <<table, varLog, op, unlogged>>
    BY <1>0, <1>5 DEF LogSound, Announced, Pending, At
<1> QED BY <1>1, <1>2, <1>3, <1>4, <1>5
        DEF Next, InvalidateCache, SetAuthenticatedUser, rows, logs, vars

(* A user's records are kept up by adding and removing the user.           *)
LEMMA UserStep == IInv /\ [Next]_vars => UserInv'
<1> SUFFICES ASSUME TypeOK, OpInv, UserInv, [Next]_vars, NEW x \in Users, x \notin unlogged'
             PROVE  x \in users' <=> usrLog'[x] = "USR_CREATE"
    BY DEF IInv, UserInv
<1>0. x \notin unlogged => (x \in users <=> usrLog[x] = "USR_CREATE")
    BY DEF UserInv
<1>k. x \notin Keys
    BY DatabaseAssumption
<1>1. CASE UNCHANGED <<users, usrLog>> /\ (x \in unlogged => x \in unlogged')
    BY <1>0, <1>1
<1>2. ASSUME NEW t \in Threads, NEW k \in Keys, Operation(t, k)
      PROVE  UNCHANGED <<users, usrLog, unlogged>>
    BY <1>2, OpBegins
<1>3. ASSUME NEW t \in Threads, Continue(t)
      PROVE  UNCHANGED <<users, usrLog>> /\ (x \in unlogged => x \in unlogged')
  <2>1. op[t].key # x
      BY <1>3, <1>k, OpAfter
  <2>2. UNCHANGED <<users, usrLog>>
      BY <1>3 DEF Continue, ReadQuery, ReadStore, ReadIndex, WriteExists, WriteLog,
                  WriteInsert, DeleteLookup, DeleteRow, DeleteLog, Erase, people, logs
  <2>3. x \in unlogged => x \in unlogged'
      BY <1>3, <2>1 DEF Continue, ReadQuery, ReadStore, ReadIndex, WriteExists, WriteLog,
            WriteInsert, DeleteLookup, DeleteRow, DeleteLog, Erase, Recorded
  <2> QED BY <2>2, <2>3
<1>4. ASSUME NEW u \in Users, AddUser(u)
      PROVE  x \in users' <=> usrLog'[x] = "USR_CREATE"
  <2>1. PICK ok \in Outcomes, ok2 \in Outcomes :
          /\ users' = IF ok THEN users \cup {u} ELSE users
          /\ usrLog' = IF ok2 THEN [usrLog EXCEPT ![u] = "USR_CREATE"] ELSE usrLog
          /\ Recorded(u, ok, ok2)
      BY <1>4 DEF AddUser
  <2>2. ok \in BOOLEAN /\ ok2 \in BOOLEAN
      BY OutcomesAre
  <2>3. CASE x # u
      BY <1>0, <2>1, <2>3 DEF Recorded, TypeOK
  <2>4. CASE x = u /\ ok /\ ok2
      BY <2>1, <2>4 DEF TypeOK
  <2>5. CASE x = u /\ ~ok /\ ~ok2
      BY <1>0, <2>1, <2>2, <2>5 DEF Recorded
  <2>6. CASE x = u /\ (ok # ok2)
      BY <2>1, <2>6 DEF Recorded
  <2> QED BY <2>2, <2>3, <2>4, <2>5, <2>6
<1>5. ASSUME NEW u \in Users, RemoveUser(u)
      PROVE  x \in users' <=> usrLog'[x] = "USR_CREATE"
  <2>1. PICK ok \in Outcomes, ok2 \in Outcomes :
          /\ users' = IF ok THEN users \ {u} ELSE users
          /\ usrLog' = IF ok /\ ok2 THEN [usrLog EXCEPT ![u] = "USR_DELETE"] ELSE usrLog
          /\ Recorded(u, ok, ok /\ ok2)
      BY <1>5 DEF RemoveUser
  <2>2. ok \in BOOLEAN /\ ok2 \in BOOLEAN
      BY OutcomesAre
  <2>3. CASE x # u
      BY <1>0, <2>1, <2>3 DEF Recorded, TypeOK
  <2>4. CASE x = u /\ ok /\ ok2
      BY <2>1, <2>4 DEF TypeOK
  <2>5. CASE x = u /\ ~ok
      BY <1>0, <2>1, <2>2, <2>5 DEF Recorded
  <2>6. CASE x = u /\ ok /\ ~ok2
      BY <2>1, <2>6 DEF Recorded
  <2> QED BY <2>2, <2>3, <2>4, <2>5, <2>6
<1>6. CASE Restart \/ GetAllUsers
    BY <1>1, <1>6, ReopenKeeps DEF Restart, GetAllUsers
<1> QED BY <1>1, <1>2, <1>3, <1>4, <1>5, <1>6
        DEF Next, InvalidateCache, SetAuthenticatedUser, logs, people, vars

(* The invariant holds of every behaviour of the database, for any number  *)
(* of threads, variables, users and faults.                                *)
THEOREM Invariance == Spec => []IInv
<1>1. Init => IInv
    BY InitIInv
<1>2. IInv /\ [Next]_vars => IInv'
    BY TypeStep, OpStep, TextStep, DownStep, CacheStep, LogStep, UserStep DEF IInv
<1> QED BY <1>1, <1>2, PTL DEF Spec

(* Every value stays of its type; a read returns nothing but a number.     *)
THEOREM TypeCorrect == Spec => []TypeOK
<1>1. IInv => TypeOK
    BY DEF IInv
<1> QED BY <1>1, Invariance, PTL

(* The cache of a key nobody has disturbed agrees with the table.          *)
THEOREM CoherentCache == Spec => []CoherentUnlessDisturbed
<1>1. IInv => CoherentUnlessDisturbed
    BY DEF IInv, CacheInv, CoherentUnlessDisturbed
<1> QED BY <1>1, Invariance, PTL

(* The audit log replays to the tables, but for what is marked unlogged.   *)
THEOREM AuditTrail == Spec => []AuditReplays
<1>1. IInv => AuditReplays
  <2> SUFFICES ASSUME IInv PROVE AuditReplays
      OBVIOUS
  <2>1. ASSUME NEW k \in Keys \ unlogged, ~BeingWritten(k)
        PROVE  table[k] = Replayed(varLog[k])
    <3>1. ~Pending(k)
        BY <2>1, DatabaseAssumption DEF BeingWritten, Pending, At, Writing
    <3> QED BY <2>1, <3>1 DEF IInv, LogInv
  <2> QED BY <2>1 DEF IInv, UserInv, AuditReplays, Replayed
<1> QED BY <1>1, Invariance, PTL
-----------------------------------------------------------------------------
(* What a caller sees of an operation.                                     *)
LEMMA OngoingIs ==
    ASSUME TypeOK, OpInv, NEW t \in Threads
    PROVE  /\ Ongoing[t] = None <=> op[t].pc = "idle"
           /\ op[t].pc # "idle" =>
                /\ Ongoing[t] = [kind |-> IF op[t].pc \in Reading THEN "read" ELSE "write",
                                 key |-> op[t].key]
                /\ Ongoing[t].key = op[t].key /\ op[t].key \in Keys
                /\ Ongoing[t].kind = "read" <=> op[t].pc \in Reading
                /\ Ongoing[t].kind = "write" <=> op[t].pc \in Writing
<1>1. op[t].pc # "idle" => op[t].key \in Keys
    BY DEF OpInv, OpSound
<1>2. CASE op[t].pc = "idle"
    BY <1>2 DEF Ongoing, At
<1>3. CASE op[t].pc # "idle"
  <2> DEFINE r == [kind |-> IF op[t].pc \in Reading THEN "read" ELSE "write",
                   key |-> op[t].key]
  <2>1. Ongoing[t] = r
      BY <1>3 DEF Ongoing, At
  <2>2. r \in [kind : {"read", "write"}, key : Keys]
      BY <1>1, <1>3
  <2>3. r # None
      BY <2>2, NoneIsNoRecord
  <2>4. op[t].pc \in Reading \/ op[t].pc \in Writing
      BY <1>3 DEF TypeOK
  <2>5. ~(op[t].pc \in Reading /\ op[t].pc \in Writing)
      BY DEF Reading, Writing
  <2> QED BY <1>1, <1>3, <2>1, <2>3, <2>4, <2>5
<1> QED BY <1>2, <1>3

(* The threads on a key are the same in both specifications.               *)
LEMMA OnIs ==
    ASSUME TypeOK, OpInv, NEW k \in Keys
    PROVE  /\ \A t \in Threads : Store!On(t, k) <=> op[t].key = k
           /\ \A t \in Threads : Store!OthersOn(t, k) = Others(t, k)
           /\ \A t \in Threads : op[t].key = k => op[t].pc # "idle"
<1>1. \A t \in Threads : op[t].key = k => op[t].pc # "idle"
    BY DatabaseAssumption DEF OpInv, OpSound, NoOp
<1>2. \A t \in Threads : Store!On(t, k) <=> op[t].key = k
    BY <1>1, OngoingIs DEF Store!On
<1>3. \A t \in Threads : Store!OthersOn(t, k) = Others(t, k)
    BY <1>2 DEF Store!OthersOn, Others
<1> QED BY <1>1, <1>2, <1>3

(* A step of one thread changes what is seen of that thread only.          *)
LEMMA OngoingMoves ==
    ASSUME NEW t \in Threads, \A u \in Threads \ {t} : op'[u] = op[u]
    PROVE  Ongoing' = [Ongoing EXCEPT ![t] = Ongoing'[t]]
    BY DEF Ongoing, At

(* A number comes back from its text to six decimals.                      *)
LEMMA RoundTrip ==
    ASSUME NEW v \in Nat
    PROVE  to_string(v) # Empty /\ atof(to_string(v)) - v \in -5..5
<1>1. to_string(v) \in Nat /\ to_string(v) # Empty
    BY DEF to_string, Empty
<1>2. 10 * to_string(v) - v \in -5..5
    BY DEF to_string
<1> QED BY <1>1, <1>2 DEF atof

(* Reading a row that is there yields the number last written.             *)
LEMMA RowIsNear ==
    ASSUME IInv, up, NEW k \in Keys, table[k] # None
    PROVE  Store!Near(atof(table[k]), value[k])
<1>1. CASE value[k] = None
    BY <1>1 DEF IInv, TextInv, atof, Store!Near
<1>2. CASE value[k] # None
  <2>1. value[k] \in Nat /\ table[k] = to_string(value[k])
      BY <1>2, DatabaseAssumption DEF IInv, TextInv, TypeOK
  <2> QED BY <1>2, <2>1, RoundTrip DEF Store!Near
<1> QED BY <1>1, <1>2

(* A call is seen to begin.                                                *)
LEMMA BeginRefines ==
    ASSUME IInv, NEW t \in Threads, NEW k \in Keys, Operation(t, k), IInv'
    PROVE  Store!Begin(t)
<1>0. TypeOK /\ OpInv /\ TypeOK' /\ OpInv'
    BY DEF IInv
<1>1. /\ op[t] = NoOp /\ op'[t].key = k /\ \A u \in Threads \ {t} : op'[u] = op[u]
      /\ op'[t].pc \in {"query", "index", "exists", "insert", "lookup"}
      /\ disturbed' = IF \E u \in Others(t, k) :
                            op'[t].pc \in Writing \/ op[u].pc \in Writing
                      THEN disturbed \cup {k} ELSE disturbed
      /\ UNCHANGED <<value, result, faults, up>>
    BY <1>0, OpBegins
<1>2. Ongoing[t] = None
    BY <1>1 DEF Ongoing, At, NoOp
<1> DEFINE kind == IF op'[t].pc \in Reading THEN "read" ELSE "write"
<1>3. Ongoing'[t] = [kind |-> kind, key |-> k]
    BY <1>1 DEF Ongoing, At
<1>4. Ongoing' = [Ongoing EXCEPT ![t] = [kind |-> kind, key |-> k]]
    BY <1>1, <1>3, OngoingMoves
<1>5. kind = "write" <=> op'[t].pc \in Writing
    BY <1>1 DEF Reading, Writing
<1>6. \A u \in Others(t, k) : Ongoing[u].kind = "write" <=> op[u].pc \in Writing
    BY <1>0, OnIs, OngoingIs DEF Others
<1>7. Store!OthersOn(t, k) = Others(t, k)
    BY <1>0, OnIs
<1>8. disturbed' = IF \E u \in Store!OthersOn(t, k) : "write" \in {kind, Ongoing[u].kind}
                   THEN disturbed \cup {k} ELSE disturbed
    BY <1>1, <1>5, <1>6, <1>7
<1>9. kind \in {"read", "write"}
    OBVIOUS
<1> HIDE DEF kind
<1> QED BY <1>1, <1>2, <1>4, <1>8, <1>9 DEF Store!Begin

(* Within an operation the caller sees nothing, or the row changing.       *)
LEMMA WithinRefines ==
    ASSUME IInv, NEW t \in Threads, Continue(t),
           op'[t].key = op[t].key, op[t].pc # "idle", op'[t].pc # "idle",
           op'[t].pc \in Reading <=> op[t].pc \in Reading
    PROVE  Ongoing' = Ongoing
<1>1. \A u \in Threads \ {t} : op'[u] = op[u]
    BY OpAfter DEF IInv
<1>2. \A u \in Threads : Ongoing'[u] = Ongoing[u]
    BY <1>1 DEF Ongoing, At
<1> QED BY <1>2 DEF Ongoing

(* A read that ends returns the number, if nobody disturbed it.            *)
LEMMA ReadRefines ==
    ASSUME IInv, NEW t \in Threads, IInv',
           ReadIndex(t) \/ (ReadQuery(t) /\ op'[t] = NoOp)
    PROVE  Store!EndRead(t)
<1>0. TypeOK /\ OpInv /\ TypeOK' /\ OpInv' /\ Continue(t)
    BY DEF IInv, Continue
<1> DEFINE k == op[t].key
<1>1. k \in Keys /\ op'[t] = NoOp /\ \A u \in Threads \ {t} : op'[u] = op[u]
    BY <1>0, OpAfter
<1>2. op[t].pc \in {"query", "index"} /\ UNCHANGED <<value, disturbed, up>>
    BY DEF ReadIndex, ReadQuery, At, rows
<1>3. Ongoing[t] # None /\ Ongoing[t].kind = "read" /\ Ongoing[t].key = k
    BY <1>0, <1>2, OngoingIs DEF Reading
<1>4. Ongoing' = [Ongoing EXCEPT ![t] = None]
  <2>1. Ongoing'[t] = None
      BY <1>1 DEF Ongoing, At, NoOp
  <2> QED BY <1>1, <2>1, OngoingMoves
<1>5. \/ (k \notin disturbed => Store!Near(result', value[k])) /\ UNCHANGED faults
      \/ result' = 0 /\ faults' = faults + 1
  <2>1. CASE ReadQuery(t)
    <3>1. PICK ok \in Outcomes :
            Count(ok) /\ ReadVariable(k, ok) = Empty /\ result' = 0
      <4>1. PICK ok \in Outcomes : Count(ok) /\ QueryYields(t, ok)
          BY <1>0, <2>1, OpAfter
      <4>2. \A text : NoOp.pc # [op[t] EXCEPT !.pc = "store", !.text = text].pc
          BY <1>0 DEF NoOp, TypeOK
      <4> QED BY <1>1, <4>1, <4>2 DEF QueryYields
    <3>2. CASE ~up
        BY <3>1, <3>2 DEF Store!Near, Count
    <3>3. CASE up /\ value[k] = None
        BY <3>1, <3>3 DEF Store!Near, Count
    <3>4. CASE up /\ value[k] # None /\ ~ok
        BY <3>1, <3>4 DEF Count
    <3>5. CASE up /\ value[k] # None /\ ok
      <4>1. value[k] \in Nat /\ table[k] = to_string(value[k])
          BY <1>1, <3>5, DatabaseAssumption DEF IInv, TextInv, TypeOK
      <4>2. table[k] = Empty
          BY <3>1, <3>5, <4>1, RoundTrip, TextIsNat, DatabaseAssumption DEF ReadVariable, to_string
      <4> QED BY <4>1, <4>2, RoundTrip
    <3> QED BY <3>2, <3>3, <3>4, <3>5
  <2>2. CASE ReadIndex(t) /\ k \notin disturbed
    <3>1. op[t].pc = "index" /\ cache[k] # None /\ UNCHANGED faults
        BY <1>1, <2>2 DEF ReadIndex, At, IInv, CacheInv
    <3>2. result' = atof(cache[k])
        BY <2>2, <3>1 DEF ReadIndex, Return
    <3>3. CASE ~up
      <4>1. cache[k] = Empty
          BY <1>1, <3>1, <3>3 DEF IInv, DownInv
      <4> QED BY <3>1, <3>2, <3>3, <4>1 DEF atof, Store!Near
    <3>4. CASE up
      <4>1. ~BeingWritten(k)
        <5>1. \A u \in Threads : op[u].key = k /\ op[u].pc \in Writing => u = t
            BY <1>1, <2>2 DEF IInv, CacheInv
        <5> QED BY <3>1, <5>1 DEF BeingWritten, Writing
      <4>2. cache[k] = table[k]
          BY <1>1, <2>2, <3>1, <4>1 DEF IInv, CacheInv
      <4> QED BY <1>1, <3>1, <3>2, <3>4, <4>2, RowIsNear
    <3> QED BY <3>3, <3>4
  <2>3. CASE ReadIndex(t) /\ k \in disturbed
      BY <2>3 DEF ReadIndex
  <2> QED BY <2>1, <2>2, <2>3
<1>6. result' \in Int
    BY <1>0 DEF TypeOK
<1> HIDE DEF k
<1> QED BY <1>2, <1>3, <1>4, <1>5, <1>6 DEF Store!EndRead

(* A write that ends gives up its key.                                     *)
LEMMA EraseRefines ==
    ASSUME IInv, NEW t \in Threads, Erase(t)
    PROVE  Store!EndWrite(t)
<1>0. TypeOK /\ OpInv /\ Continue(t)
    BY DEF IInv, Continue
<1> DEFINE k == op[t].key
<1>1. k \in Keys /\ op'[t] = NoOp /\ \A u \in Threads \ {t} : op'[u] = op[u]
    BY <1>0, OpAfter
<1>2. op[t].pc = "erase" /\ UNCHANGED <<value, result, faults, up>>
    BY DEF Erase, At, rows
<1>3. Ongoing[t] # None /\ Ongoing[t].kind = "write" /\ Ongoing[t].key = k
    BY <1>0, <1>2, OngoingIs DEF Writing
<1>4. Ongoing' = [Ongoing EXCEPT ![t] = None]
  <2>1. Ongoing'[t] = None
      BY <1>1 DEF Ongoing, At, NoOp
  <2> QED BY <1>1, <2>1, OngoingMoves
<1>5. disturbed' = IF Store!OthersOn(t, k) = {} THEN disturbed \ {k} ELSE disturbed
    BY <1>0, <1>1, OnIs DEF Erase
<1> HIDE DEF k
<1> QED BY <1>2, <1>3, <1>4, <1>5 DEF Store!EndWrite

(* A statement that changes the row changes the number under the key; one  *)
(* that fails is seen as a fault.                                          *)
LEMMA WriteRefines ==
    ASSUME IInv, NEW t \in Threads,
           WriteExists(t) \/ WriteLog(t) \/ WriteInsert(t) \/ DeleteLookup(t)
             \/ DeleteRow(t) \/ DeleteLog(t)
    PROVE  \/ Store!Change(t) \/ Store!Fault
           \/ UNCHANGED <<value, Ongoing, disturbed, result, faults, up>>
<1>0. TypeOK /\ OpInv /\ Continue(t)
    BY DEF IInv, Continue
<1>1. /\ op'[t].key = op[t].key /\ op[t].pc \in Writing /\ op'[t].pc \in Writing
      /\ UNCHANGED disturbed
    BY <1>0, WriteMoves
<1>2. Ongoing' = Ongoing
    BY <1>0, <1>1, WithinRefines DEF Reading, Writing
<1>3. UNCHANGED <<result, up>>
    BY DEF WriteExists, WriteLog, WriteInsert, DeleteLookup, DeleteRow, DeleteLog
<1>4. Ongoing[t] # None /\ Ongoing[t].kind = "write" /\ Ongoing[t].key = op[t].key
    BY <1>0, <1>1, OngoingIs DEF Writing
<1>5. PICK ok \in Outcomes :
        /\ Count(ok)
        /\ \/ UNCHANGED value
           \/ ok /\ \E v \in Numbers \cup {None} : value' = [value EXCEPT ![op[t].key] = v]
  <2>1. CASE WriteInsert(t)
    <3>1. PICK ok \in Outcomes :
            /\ value' = IF ok THEN [value EXCEPT ![op[t].key] = op[t].num] ELSE value
            /\ Count(ok)
        BY <2>1 DEF WriteInsert
    <3>2. op[t].num \in Numbers \cup {None}
        BY <1>0 DEF TypeOK
    <3> QED BY <3>1, <3>2
  <2>2. CASE DeleteRow(t)
    <3>1. PICK ok \in Outcomes :
            /\ value' = IF ok THEN [value EXCEPT ![op[t].key] = None] ELSE value
            /\ Count(ok)
        BY <2>2 DEF DeleteRow
    <3> QED BY <3>1
  <2>3. CASE WriteExists(t) \/ WriteLog(t) \/ DeleteLookup(t) \/ DeleteLog(t)
    <3>1. UNCHANGED value /\ \E ok \in Outcomes : Count(ok)
        BY <2>3 DEF WriteExists, WriteLog, DeleteLookup, DeleteLog, rows
    <3> QED BY <3>1
  <2> QED BY <2>1, <2>2, <2>3
<1>6. ok \in BOOLEAN /\ (ok => up)
    BY <1>0, OutcomesAre
<1>7. CASE ok
    BY <1>1, <1>2, <1>3, <1>4, <1>5, <1>6, <1>7 DEF Store!Change, Count
<1>8. CASE ~ok
    BY <1>1, <1>2, <1>3, <1>5, <1>8 DEF Store!Fault, Count
<1> QED BY <1>7, <1>8

(* Clearing the cache is seen to disturb the keys that are in use.         *)
LEMMA ForgetRefines ==
    ASSUME IInv, InvalidateCache(Remote)
    PROVE  Store!Forget
<1>0. TypeOK /\ OpInv /\ Remote \in Threads
    BY DatabaseAssumption DEF IInv
<1>1. Ongoing' = Ongoing /\ UNCHANGED <<value, result, faults, up>>
    BY DEF InvalidateCache, Ongoing, At, rows
<1>2. \A k \in Keys : Others(Remote, k) # {} <=> \E u \in Threads : Store!On(u, k)
  <2> SUFFICES ASSUME NEW k \in Keys
               PROVE  Others(Remote, k) # {} <=> \E u \in Threads : op[u].key = k
      BY <1>0, OnIs
  <2>1. op[Remote].key # k
      BY <1>0, OnIs DEF InvalidateCache, At
  <2> QED BY <2>1 DEF Others
<1>3. disturbed' = {k \in Keys : \E u \in Threads : Store!On(u, k)}
    BY <1>2 DEF InvalidateCache
<1> QED BY <1>1, <1>3 DEF Store!Forget

(* Every step of the database is a step of the store, or not seen.         *)
LEMMA StepRefines ==
    ASSUME IInv, IInv', [Next]_vars
    PROVE  [Store!SNext]_<<value, Ongoing, disturbed, result, faults, up>>
<1> USE DEF Store!SNext
<1>1. ASSUME NEW t \in Threads, NEW k \in Keys, Operation(t, k)
      PROVE  Store!SNext
    BY <1>1, BeginRefines
<1>2. ASSUME NEW t \in Threads, Continue(t)
      PROVE  [Store!SNext]_<<value, Ongoing, disturbed, result, faults, up>>
  <2>0. TypeOK /\ OpInv /\ op[t] \in Operations
      BY DEF IInv, TypeOK, Operations
  <2>1. CASE ReadIndex(t) \/ (ReadQuery(t) /\ op'[t] = NoOp)
      BY <2>1, ReadRefines
  <2>2. CASE Erase(t)
      BY <2>2, EraseRefines
  <2>3. CASE WriteExists(t) \/ WriteLog(t) \/ WriteInsert(t) \/ DeleteLookup(t)
               \/ DeleteRow(t) \/ DeleteLog(t)
      BY <2>3, WriteRefines
  <2>4. CASE ReadStore(t)
    <3>1. op'[t] = [op[t] EXCEPT !.pc = "index"] /\ op[t].pc = "store"
        BY <1>2, <2>0, <2>4, OpAfter DEF ReadStore, At
    <3>2. Ongoing' = Ongoing
        BY <1>2, <2>0, <3>1, WithinRefines DEF Operations, Reading
    <3> QED BY <2>4, <3>2 DEF ReadStore, rows
  <2>5. CASE ReadQuery(t) /\ op'[t] # NoOp
    <3>1. PICK ok \in Outcomes : Count(ok) /\ QueryYields(t, ok)
        BY <1>2, <2>0, <2>5, OpAfter
    <3>2. /\ op'[t] = [op[t] EXCEPT !.pc = "store", !.text = ReadVariable(op[t].key, ok)]
          /\ result' = result /\ op[t].pc = "query"
        BY <2>5, <3>1 DEF ReadQuery, At, QueryYields
    <3>3. ok
        BY <2>5, <3>1 DEF ReadVariable, QueryYields
    <3>4. Ongoing' = Ongoing
        BY <1>2, <2>0, <3>2, WithinRefines DEF Operations, Reading
    <3> QED BY <2>5, <3>1, <3>2, <3>3, <3>4 DEF ReadQuery, rows, Count
  <2> QED BY <1>2, <2>1, <2>2, <2>3, <2>4, <2>5 DEF Continue
<1>3. CASE InvalidateCache(Remote)
    BY <1>3, ForgetRefines
<1>4. CASE Restart \/ GetAllUsers
  <2>1. /\ \A t \in Threads : op'[t] = NoOp
        /\ disturbed' = {} /\ up' \in BOOLEAN /\ UNCHANGED <<value, result>>
        /\ faults' \in {faults, faults + 1}
      BY <1>4, ReopenKeeps DEF Restart, GetAllUsers, IInv
  <2>2. Ongoing' = [t \in Threads |-> None]
      BY <2>1 DEF Ongoing, At, NoOp
  <2> QED BY <2>1, <2>2 DEF Store!Restart
<1>5. CASE UNCHANGED <<value, op, disturbed, result, faults, up>>
    BY <1>5 DEF Ongoing, At
<1>6. ASSUME NEW u \in Users, AddUser(u) \/ RemoveUser(u)
      PROVE  [Store!SNext]_<<value, Ongoing, disturbed, result, faults, up>>
  <2>1. UNCHANGED <<value, op, disturbed, result, up>>
      BY <1>6 DEF AddUser, RemoveUser, rows
  <2>2. \E found, ok, ok2 \in Outcomes : Count(found /\ ok /\ ok2) \/ Count(ok /\ ok2)
      BY <1>6 DEF AddUser, RemoveUser
  <2>3. faults' = faults \/ faults' = faults + 1
      BY <2>2 DEF Count
  <2> QED BY <2>1, <2>3 DEF Ongoing, At, Store!Fault
<1> QED BY <1>1, <1>2, <1>3, <1>4, <1>5, <1>6
        DEF Next, SetAuthenticatedUser, rows, vars

(* The database behind its cache implements the store of numbers: whatever *)
(* the cache holds, whatever failed and however often the process ended, a *)
(* read that nobody disturbed returns the number last written.             *)
THEOREM DatabaseRefinement == Spec => ImplementsStore
<1>1. Init => Store!SInit
    BY DEF Init, Store!SInit, Ongoing, At, NoOp
<1>2. IInv /\ IInv' /\ [Next]_vars => [Store!SNext]_<<value, Ongoing, disturbed, result, faults, up>>
    BY StepRefines
<1>3. [Store!SNext]_<<value, Ongoing, disturbed, result, faults, up>> =>
        [Store!SNext]_(Store!storeVars)
    BY DEF Store!storeVars
<1> QED BY <1>1, <1>2, <1>3, Invariance, PTL DEF Spec, ImplementsStore, Store!Spec
=============================================================================
