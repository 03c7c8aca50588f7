------------------------------ MODULE Database ------------------------------
(***************************************************************************)
(* DCS::Database and DCS::RDB: the table VARIABLES of the sqlite file, the *)
(* in-memory cache in front of it, the audit log EVENTS and the table      *)
(* USERS.  Remote calls (the server's decode thread), the encoder loop and *)
(* the DAQ callbacks use the variables concurrently; the command line and  *)
(* the connection threads use the users.  sqlite serialises statements,    *)
(* the cache is a std::unordered_map without a lock: every statement and   *)
(* every operation on the map is one step here.                            *)
(*                                                                         *)
(* A text in VALUE is the empty string or a number with six decimals, n    *)
(* standing for n * 10^-6; an f64 argument is counted in 10^-7.  EVENTS is *)
(* kept as the last record about each variable and each user.              *)
(***************************************************************************)
EXTENDS Integers, FiniteSets

CONSTANTS
    Threads,    (* the threads that use variables                          *)
    Remote,     (* the one of them that executes remote calls              *)
    Keys,       (* variable names                                          *)
    Numbers,    (* f64 arguments, in 10^-7                                 *)
    Users,      (* user names                                              *)
    None,       (* no row, no entry, no user                               *)
    MaxFaults   (* bound on statements that fail and processes that end    *)

(* Keys and Users name the rows of two tables, so they have none in common. *)
ASSUME DatabaseAssumption ==
    /\ Remote \in Threads
    /\ Numbers \subseteq Nat /\ MaxFaults \in Nat
    /\ None \notin Keys \cup Users \cup Int
    /\ Keys \cap Users = {}

VARIABLES
    table,      (* VALUE of each row of VARIABLES, or None                 *)
    cache,      (* db_var_cache                                            *)
    varLog,     (* the last record of EVENTS about each variable           *)
    users,      (* the rows of USERS                                       *)
    usrLog,     (* the last record of EVENTS about each user               *)
    auth,       (* authenticated_username                                  *)
    up,         (* whether sqlite3_open succeeded                          *)
    op,         (* the operation each thread is in                         *)
    result,     (* what the last read that ended returned                  *)
    faults,
    value,      (* history: the f64 last written to each row               *)
    disturbed,  (* history: keys whose operations overlapped a write       *)
    unlogged    (* history: keys and users changed without a record        *)

rows == <<table, value>>
logs == <<varLog, usrLog>>
people == <<users, auth>>
vars == <<table, cache, varLog, users, usrLog, auth, up, op, result, faults,
          value, disturbed, unlogged>>

Empty == -1
to_stringTruncating(v) == v \div 10

to_string(v) == (v + 5) \div 10

atofNoDefault(text) == text

atof(text) == IF text = Empty THEN 0 ELSE 10 * text

NoOp == [pc |-> "idle", who |-> "SYS", key |-> None, text |-> Empty,
         num |-> None, what |-> "NONE", logged |-> FALSE]
Reading == {"query", "store", "index"}
Writing == {"exists", "log", "insert", "lookup", "delete", "logdel", "erase"}

(* Whether a statement succeeds, a query included.                         *)
Outcomes == IF up THEN {TRUE} \cup {FALSE : i \in 1..(MaxFaults - faults)}
                  ELSE {FALSE}
Count(ok) == faults' = IF up /\ ~ok THEN faults + 1 ELSE faults

(* RDB::ReadVariable: the empty string stands for a row that is not there, *)
(* and for a query that failed, which nobody can tell from it.             *)
ReadVariable(k, ok) == IF ok /\ table[k] # None THEN table[k] ELSE Empty

(* History: x changed, and a record of the change was written, or not. *)
Recorded(x, changed, recorded) ==
    unlogged' = IF changed # recorded THEN unlogged \cup {x}
                ELSE IF changed THEN unlogged \ {x} ELSE unlogged

At(t, label) == op[t].pc = label
Goto(t, label) == op' = [op EXCEPT ![t].pc = label]
Others(t, k) == {u \in Threads \ {t} : op[u].key = k}
-----------------------------------------------------------------------------
Init ==
    /\ table = [k \in Keys |-> None] /\ cache = [k \in Keys |-> None]
    /\ varLog = [k \in Keys |-> None] /\ usrLog = [u \in Users |-> None]
    /\ users = {} /\ auth = None /\ up \in BOOLEAN
    /\ op = [t \in Threads |-> NoOp]
    /\ result = 0 /\ faults = 0
    /\ value = [k \in Keys |-> None] /\ disturbed = {} /\ unlogged = {}

Start(t, call) ==
    /\ At(t, "idle")
    /\ op' = [op EXCEPT ![t] = call]
    /\ disturbed' = IF \E u \in Others(t, call.key) :
                          {call.pc, op[u].pc} \cap Writing # {}
                    THEN disturbed \cup {call.key} ELSE disturbed

(* ReadValuef64 and ReadValueString: look in the cache, else query the     *)
(* table and put the text in the cache, then take it out of the cache.     *)
ReadValue(t, k) ==
    /\ Start(t, [NoOp EXCEPT !.key = k,
                   !.pc = IF cache[k] = None THEN "query" ELSE "index"])
    /\ UNCHANGED <<rows, cache, logs, people, up, result, faults, unlogged>>

Return(t, text) ==
    /\ op' = [op EXCEPT ![t] = NoOp]
    /\ result' = atof(text)

ReadQuery(t) ==
    /\ At(t, "query")
    /\ \E ok \in Outcomes :
         LET text == ReadVariable(op[t].key, ok)
         IN  /\ \/ text = Empty /\ Return(t, Empty)
                \/ /\ text # Empty
                   /\ op' = [op EXCEPT ![t].pc = "store", ![t].text = text]
                   /\ UNCHANGED result
             /\ Count(ok)
    /\ UNCHANGED <<rows, cache, logs, people, up, disturbed, unlogged>>

ReadStore(t) ==
    /\ At(t, "store")
    /\ cache' = [cache EXCEPT ![op[t].key] = op[t].text]
    /\ Goto(t, "index")
    /\ UNCHANGED <<rows, logs, people, up, result, faults, disturbed, unlogged>>

(* operator[] enters an empty string if the entry has gone meanwhile. *)
ReadIndex(t) ==
    LET text == IF cache[op[t].key] = None THEN Empty ELSE cache[op[t].key]
    IN  /\ At(t, "index")
        /\ cache' = [cache EXCEPT ![op[t].key] = text]
        /\ Return(t, text)
        /\ UNCHANGED <<rows, logs, people, up, faults, disturbed, unlogged>>
-----------------------------------------------------------------------------
(* WriteValuef64 and WriteValueString, which can also write an empty text. *)
(* A USER write is recorded before it is made, a SYS write is not.         *)
WriteValue(t, who, k) ==
    /\ \E v \in Numbers \cup {None} :
         Start(t, [NoOp EXCEPT !.pc = IF who = "USER" THEN "exists" ELSE "insert",
                     !.who = who, !.key = k, !.num = v,
                     !.text = IF v = None THEN Empty ELSE to_string(v)])
    /\ UNCHANGED <<rows, cache, logs, people, up, result, faults, unlogged>>

WriteExists(t) ==
    /\ At(t, "exists")
    /\ \E ok \in Outcomes :
         /\ op' = [op EXCEPT ![t].pc = "log",
                     ![t].what = IF ReadVariable(op[t].key, ok) = Empty THEN "VAR_CREATE"
                                                                        ELSE "VAR_UPDATE"]
         /\ Count(ok)
    /\ UNCHANGED <<rows, cache, logs, people, up, result, disturbed, unlogged>>

LogEvent(t, ok, who) ==
    varLog' = IF ok THEN [varLog EXCEPT ![op[t].key] =
                            [what |-> op[t].what, text |-> op[t].text, by |-> who]]
                    ELSE varLog

WriteLog(t) ==
    /\ At(t, "log")
    /\ \E ok \in Outcomes :
         /\ LogEvent(t, ok, "System") /\ Count(ok)
         /\ op' = [op EXCEPT ![t].pc = "insert", ![t].logged = ok]
    /\ UNCHANGED <<rows, cache, usrLog, people, up, result, disturbed, unlogged>>

(* INSERT OR REPLACE: nothing is told the caller when it fails. *)
WriteInsert(t) ==
    /\ At(t, "insert")
    /\ \E ok \in Outcomes :
         /\ table' = IF ok THEN [table EXCEPT ![op[t].key] = op[t].text] ELSE table
         /\ value' = IF ok THEN [value EXCEPT ![op[t].key] = op[t].num] ELSE value
         /\ Recorded(op[t].key, ok, op[t].logged) /\ Count(ok)
    /\ Goto(t, "erase")
    /\ UNCHANGED <<cache, logs, people, up, result, disturbed>>

DeleteValue(t, who, k) ==
    /\ Start(t, [NoOp EXCEPT !.pc = "lookup", !.who = who, !.key = k,
                             !.what = "VAR_DELETE"])
    /\ UNCHANGED <<rows, cache, logs, people, up, result, faults, unlogged>>

DeleteLookup(t) ==
    /\ At(t, "lookup")
    /\ \E ok \in Outcomes :
         /\ Goto(t, IF ReadVariable(op[t].key, ok) = Empty THEN "erase" ELSE "delete")
         /\ Count(ok)
    /\ UNCHANGED <<rows, cache, logs, people, up, result, disturbed, unlogged>>

DeleteRowUnrecorded(t) ==
    /\ At(t, "delete")
    /\ \E ok \in Outcomes :
         /\ table' = IF ok THEN [table EXCEPT ![op[t].key] = None] ELSE table
         /\ value' = IF ok THEN [value EXCEPT ![op[t].key] = None] ELSE value
         /\ unlogged' = IF ok THEN unlogged \ {op[t].key} ELSE unlogged
         /\ Count(ok)
    /\ Goto(t, "erase")
    /\ UNCHANGED <<cache, logs, people, up, result, disturbed>>

DeleteRow(t) ==
    /\ At(t, "delete")
    /\ \E ok \in Outcomes :
         /\ table' = IF ok THEN [table EXCEPT ![op[t].key] = None] ELSE table
         /\ value' = IF ok THEN [value EXCEPT ![op[t].key] = None] ELSE value
         /\ unlogged' = IF ok THEN unlogged \ {op[t].key} ELSE unlogged
         /\ Goto(t, IF ok THEN "logdel" ELSE "erase")
         /\ Count(ok)
    /\ UNCHANGED <<cache, logs, people, up, result, disturbed>>

DeleteLog(t) ==
    /\ At(t, "logdel")
    /\ \E ok \in Outcomes :
         /\ LogEvent(t, ok, IF op[t].who = "USER" THEN auth ELSE "System")
         /\ unlogged' = IF ok THEN unlogged ELSE unlogged \cup {op[t].key}
         /\ Count(ok)
    /\ Goto(t, "erase")
    /\ UNCHANGED <<rows, cache, usrLog, people, up, result, disturbed>>

(* The entry leaves the cache "even if the write fails". *)
EraseFirstTimeOnly(t) ==
    /\ At(t, "erase")
    /\ cache' = IF op[t].what = "VAR_UPDATE" THEN cache
                ELSE [cache EXCEPT ![op[t].key] = None]
    /\ op' = [op EXCEPT ![t] = NoOp]
    /\ disturbed' = IF Others(t, op[t].key) = {} THEN disturbed \ {op[t].key}
                                                 ELSE disturbed
    /\ UNCHANGED <<rows, logs, people, up, result, faults, unlogged>>

Erase(t) ==
    /\ At(t, "erase")
    /\ cache' = [cache EXCEPT ![op[t].key] = None]
    /\ op' = [op EXCEPT ![t] = NoOp]
    /\ disturbed' = IF Others(t, op[t].key) = {} THEN disturbed \ {op[t].key}
                                                 ELSE disturbed
    /\ UNCHANGED <<rows, logs, people, up, result, faults, unlogged>>

InvalidateCache(t) ==
    /\ At(t, "idle")
    /\ cache' = [k \in Keys |-> None]
    /\ disturbed' = {k \in Keys : Others(t, k) # {}}
    /\ UNCHANGED <<rows, logs, people, up, op, result, faults, unlogged>>
-----------------------------------------------------------------------------
(* addusr and delusr, and a connection thread that logs a user in and out. *)
(* GetUser yields INVALID_USER if there is no such row, or the query fails.*)
GetUser(u, ok) == ok /\ u \in users

(* If the query fails, a user who exists is replaced.                      *)
AddUser(u) ==
    /\ \E found, ok, ok2 \in Outcomes :
         /\ ~GetUser(u, found)
         /\ users' = IF ok THEN users \cup {u} ELSE users
         /\ usrLog' = IF ok2 THEN [usrLog EXCEPT ![u] = "USR_CREATE"] ELSE usrLog
         /\ Recorded(u, ok, ok2) /\ Count(found /\ ok /\ ok2)
    /\ UNCHANGED <<rows, cache, varLog, auth, up, op, result, disturbed>>

(* If the query fails, nothing is done.                                    *)
RemoveUser(u) ==
    /\ up /\ GetUser(u, TRUE)
    /\ \E ok, ok2 \in Outcomes :
         /\ users' = IF ok THEN users \ {u} ELSE users
         /\ usrLog' = IF ok /\ ok2 THEN [usrLog EXCEPT ![u] = "USR_DELETE"] ELSE usrLog
         /\ Recorded(u, ok, ok /\ ok2) /\ Count(ok /\ ok2)
    /\ UNCHANGED <<rows, cache, varLog, auth, up, op, result, disturbed>>

SetAuthenticatedUser ==
    /\ \/ auth = None /\ up /\ auth' \in users
       \/ auth # None /\ auth' = None
    /\ UNCHANGED <<rows, cache, logs, users, up, op, result, faults, disturbed, unlogged>>

(* The process ends; the next one opens the same file with an empty cache. *)
(* An operation it was in has written its record without its row, or its   *)
(* row without its record.  A query of texts that fails in sqlite3_step is *)
(* one of the ways it ends: it makes a std::string from a null pointer.    *)
Reopen ==
    /\ cache' = [k \in Keys |-> None]
    /\ auth' = None /\ up' \in BOOLEAN
    /\ op' = [t \in Threads |-> NoOp]
    /\ disturbed' = {}
    /\ unlogged' = unlogged \cup {op[t].key : t \in {s \in Threads :
                      (At(s, "insert") /\ op[s].logged) \/ At(s, "logdel")}}
    /\ UNCHANGED <<rows, logs, users, result>>

Restart == faults < MaxFaults /\ faults' = faults + 1 /\ Reopen

(* QueryEntries moves on a column with every row, so the second row yields *)
(* such a null pointer.                                                    *)
SecondRowIsNull(found) == Cardinality(found) > 1

(* lstusr; without a failure it changes nothing. *)
GetAllUsers ==
    /\ up /\ SecondRowIsNull(users)
    /\ Reopen /\ UNCHANGED faults
-----------------------------------------------------------------------------
(* The thread Remote executes the calls of a client, the other threads     *)
(* read, and write as the system.                                          *)
Operation(t, k) == \/ ReadValue(t, k) \/ WriteValue(t, "SYS", k)
                   \/ t = Remote /\ WriteValue(t, "USER", k)
                   \/ t = Remote /\ \E who \in {"SYS", "USER"} : DeleteValue(t, who, k)
Continue(t) == \/ ReadQuery(t) \/ ReadStore(t) \/ ReadIndex(t) \/ WriteExists(t)
               \/ WriteLog(t) \/ WriteInsert(t) \/ DeleteLookup(t) \/ DeleteRow(t)
               \/ DeleteLog(t) \/ Erase(t)
Next == \/ \E t \in Threads, k \in Keys : Operation(t, k)
        \/ \E t \in Threads : Continue(t)
        \/ InvalidateCache(Remote)
        \/ \E u \in Users : AddUser(u) \/ RemoveUser(u)
        \/ SetAuthenticatedUser \/ Restart \/ GetAllUsers

Spec == Init /\ [][Next]_vars
-----------------------------------------------------------------------------
Row == Nat \cup {Empty, None}
Record == [what : {"VAR_CREATE", "VAR_UPDATE", "VAR_DELETE"},
           text : Nat \cup {Empty}, by : Users \cup {"System", None}]
ASSUME NoneIsNoRecord ==
    /\ None \notin Record \cup {"USR_CREATE", "USR_DELETE"}
    /\ None \notin [kind : {"read", "write"}, key : Keys]

(* The values the tables, the cache and the threads' operations take: in   *)
(* particular nothing but a number is ever returned by a read.             *)
TypeOK ==
    /\ table \in [Keys -> Row] /\ cache \in [Keys -> Row]
    /\ varLog \in [Keys -> Record \cup {None}]
    /\ users \subseteq Users /\ auth \in Users \cup {None}
    /\ usrLog \in [Users -> {"USR_CREATE", "USR_DELETE", None}]
    /\ up \in BOOLEAN /\ faults \in 0..MaxFaults
    /\ op \in [Threads -> [pc : {"idle"} \cup Reading \cup Writing,
                  who : {"SYS", "USER"}, key : Keys \cup {None},
                  text : Nat \cup {Empty}, num : Numbers \cup {None},
                  what : {"NONE", "VAR_CREATE", "VAR_UPDATE", "VAR_DELETE"},
                  logged : BOOLEAN]]
    /\ result \in Nat
    /\ value \in [Keys -> Numbers \cup {None}]
    /\ disturbed \subseteq Keys /\ unlogged \subseteq Keys \cup Users

BeingWritten(k) == \E t \in Threads : op[t].key = k /\ op[t].pc \in Writing

(* What the cache holds is what the table holds, through failed writes and *)
(* restarts, except for a key on which a read and a write overlapped and   *)
(* that nobody has written alone since: an entry filled from an old query, *)
(* or made empty by operator[], stays there (db.cpp:549, 551).             *)
CoherentUnlessDisturbed ==
    \A k \in Keys \ disturbed :
      cache[k] # None /\ ~BeingWritten(k) => cache[k] = table[k]

(* The audit log replays to the tables: the last record about a variable   *)
(* or a user says what the row is, unless the last change was made as the  *)
(* system, a statement failed, or the process ended between the two.       *)
AuditReplays ==
    /\ \A k \in Keys \ unlogged : ~BeingWritten(k) =>
         table[k] = IF varLog[k] = None \/ varLog[k].what = "VAR_DELETE"
                    THEN None ELSE varLog[k].text
    /\ \A u \in Users \ unlogged : u \in users <=> usrLog[u] = "USR_CREATE"

(* What each thread is doing, as its caller sees it. *)
Ongoing == [t \in Threads |->
              IF At(t, "idle") THEN None
              ELSE [kind |-> IF op[t].pc \in Reading THEN "read" ELSE "write",
                    key |-> op[t].key]]
Store == INSTANCE VariableStore WITH store <- value, ongoing <- Ongoing

(* The database behind its cache is a store of numbers: a read that no     *)
(* write of its key disturbed returns the number last written, to six      *)
(* decimals, whatever the cache holds and whatever failed before; only a   *)
(* failure of its own query makes it return 0.                             *)
ImplementsStore == Store!Spec
=============================================================================
