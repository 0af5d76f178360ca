----------------------------- MODULE Statements -----------------------------
(***************************************************************************)
(* How text statements run on the engine (src/src/engine.rs) at the grain  *)
(* of its locks: the cache of parsed statements, the read-write lock of    *)
(* the map of databases, the one of each database, and the statements that *)
(* take them more than once: subqueries, INSERT ... SELECT, CREATE TABLE   *)
(* AS, joins, snapshots, DROP of several objects, batches.                 *)
(*                                                                         *)
(* The actors are the worker threads of the runtime: a statement never     *)
(* awaits, so it keeps its thread from the query to the answer.  Each      *)
(* database has one table, which is there or not.                          *)
(***************************************************************************)
EXTENDS Integers, Sequences, FiniteSets

CONSTANTS
    Threads,
    Dbs,
    Offered,     \* the statements that clients send
    CacheLimit,  \* entries of STMT_CACHE above which it is cleared
    Nothing

ASSUME LimitAssumption == CacheLimit \in Nat

ASSUME NothingAssumption == Nothing \notin Dbs

VARIABLES
    databases,  \* the databases in the map
    table,      \* the database's table is there
    parsed,     \* number of entries in the cache of parsed statements
    pc,         \* what the thread is doing
    parts,      \* what is left of the current statement
    left,       \* databases that the current part has yet to visit
    target,     \* the database that it visits
    map_lock,   \* what it holds of the lock of the map
    db_lock,    \* what it holds of the lock of its target
    uncounted   \* its query has changed something that it is yet to count

data == <<databases, table>>
progress == <<parts, left, target>>
locks == <<map_lock, db_lock>>
vars == <<data, parsed, pc, progress, locks, uncounted>>

-----------------------------------------------------------------------------
(* A statement is a sequence of parts.  A part locks the map, then one     *)
(* database after the other, and does something to each.                   *)
Doings == {"look", "copy", "change_rows", "change_table", "create_table",
           "create_table_as", "drop_table", "restore", "create_db", "drop_db"}

(* Unless "needed", something missing is passed over. *)
Part == [does : Doings, over : SUBSET Dbs, needed : BOOLEAN]

(* Databases are created and dropped, and tables dropped, under the write  *)
(* lock of the map.                                                        *)
MapMode(part) ==
    IF part.does \in {"drop_table", "create_db", "drop_db"}
    THEN "write" ELSE "read"

DbMode(part) == IF part.does \in {"look", "copy"} THEN "read" ELSE "write"

(* These bump the write generation themselves, while they hold locks. *)
CountsItself(part) ==
    part.does \in {"change_table", "create_table_as", "drop_table", "restore",
                   "drop_db"}

Each(does, ds) == [does |-> does, over |-> ds, needed |-> TRUE]
One(does, d) == Each(does, {d})
Try(part) == [part EXCEPT !.needed = FALSE]

Simple(d) ==
    { <<One(does, d)>> : does \in {"look", "change_rows", "change_table",
                                   "create_table", "create_db"} }

(* A subquery in WHERE; INSERT ... SELECT, which looks up the types of its *)
(* columns first; CREATE TABLE ... AS SELECT.                              *)
Composite(d, e) ==
    { <<Try(One("look", e)), One("look", d)>>,
      <<Try(One("look", d)), One("look", e), One("change_rows", d)>>,
      <<One("look", e), One("create_table_as", d)>> }

Drops(ds) ==
    { <<part>> : part \in {Each(does, ds) : does \in {"drop_table", "drop_db"}}
                     \cup {Try(Each(does, ds)) :
                               does \in {"drop_table", "drop_db"}} }

(* Joins, snapshots and dumps, ROLLBACK. *)
Wide == { <<Each("look", Dbs)>>, <<Each("copy", Dbs)>>,
          <<Try(Each("restore", Dbs))>> }

Statement ==
    (UNION {Simple(d) : d \in Dbs})
    \cup (UNION {Composite(d, e) : d, e \in Dbs})
    \cup (UNION {Drops(ds) : ds \in (SUBSET Dbs) \ {{}}})
    \cup Wide

ASSUME OfferedAssumption == Offered \subseteq Statement

(* The results of a statement. *)
Outcomes == {"rows", "ok", "error"}

Stages == {"idle", "store", "next", "map", "visit", "db", "work"}
          \cup Outcomes

TypeOK ==
    /\ databases \subseteq Dbs
    /\ table \in [Dbs -> BOOLEAN]
    /\ parsed \in Nat
    /\ pc \in [Threads -> Stages]
    /\ parts \in [Threads -> Seq(Part)]
    /\ left \in [Threads -> SUBSET Dbs]
    /\ target \in [Threads -> Dbs \cup {Nothing}]
    /\ map_lock \in [Threads -> {"none", "read", "write"}]
    /\ db_lock \in [Threads -> {"none", "read", "write"}]
    /\ uncounted \in [Threads -> BOOLEAN]
    /\ \A t \in Threads :
          /\ pc[t] \in {"map", "visit", "db", "work"} => parts[t] # <<>>
          /\ pc[t] \in {"db", "work"} <=> target[t] # Nothing
          /\ map_lock[t] = IF pc[t] \in {"visit", "db", "work"}
                           THEN MapMode(parts[t][1]) ELSE "none"
          /\ db_lock[t] = IF pc[t] = "work"
                          THEN DbMode(parts[t][1]) ELSE "none"

-----------------------------------------------------------------------------
Enter(t, stage) == pc' = [pc EXCEPT ![t] = stage]

(* The part of its statement that a thread is executing. *)
Now(t) == parts[t][1]

At(t, stage, doings) == pc[t] = stage /\ Now(t).does \in doings

(* A reader does not pass a writer that waits. *)
MapFree(t) ==
    IF MapMode(Now(t)) = "write"
    THEN \A u \in Threads : map_lock[u] = "none"
    ELSE \A u \in Threads :
            /\ map_lock[u] # "write"
            /\ ~(pc[u] = "map" /\ MapMode(Now(u)) = "write")

DbFree(t) ==
    LET Same == {u \in Threads : target[u] = target[t]}
    IN  IF DbMode(Now(t)) = "write"
        THEN \A u \in Same : db_lock[u] = "none"
        ELSE \A u \in Same :
                /\ db_lock[u] # "write"
                /\ ~(pc[u] = "db" /\ DbMode(Now(u)) = "write")

Unlocked(t) ==
    /\ map_lock' = [map_lock EXCEPT ![t] = "none"]
    /\ db_lock' = [db_lock EXCEPT ![t] = "none"]

Changed(t) == uncounted' = [uncounted EXCEPT ![t] = TRUE]

Bumped(t) == uncounted' = [uncounted EXCEPT ![t] = FALSE]

-----------------------------------------------------------------------------
(* A query arrives.  If its text is in the cache of parsed statements, it  *)
(* is not parsed again; one that does not parse is answered at once.       *)

Receive(t) ==
    /\ pc[t] = "idle"
    /\ UNCHANGED <<data, progress, locks, uncounted>>

ParseHit(t) ==
    /\ Receive(t)
    /\ parsed > 0
    /\ Enter(t, "next")
    /\ UNCHANGED parsed

(* Mutant: == for > in the test of the size. *)
ParseMissExact(t) ==
    /\ Receive(t)
    /\ parsed' = IF parsed = CacheLimit + 1 THEN 0 ELSE parsed
    /\ Enter(t, "store")

(* The text is parsed and the size of the cache is looked at. *)
ParseMiss(t) ==
    /\ Receive(t)
    /\ parsed' = IF parsed > CacheLimit THEN 0 ELSE parsed
    /\ Enter(t, "store")

(* Another thread may have stored the same text since. *)
Store(t) ==
    /\ pc[t] = "store"
    /\ \/ parsed' = parsed + 1
       \/ parsed > 0 /\ UNCHANGED parsed
    /\ Enter(t, "next")
    /\ UNCHANGED <<data, progress, locks, uncounted>>

(* The user lacks a privilege, or the query is empty. *)
Refuse(t) ==
    /\ pc[t] = "next"
    /\ Enter(t, "idle")
    /\ UNCHANGED <<data, parsed, progress, locks, uncounted>>

Begin(t, statement) ==
    /\ pc[t] = "next"
    /\ parts' = [parts EXCEPT ![t] = statement]
    /\ Enter(t, "map")
    /\ UNCHANGED <<data, parsed, left, target, locks, uncounted>>

-----------------------------------------------------------------------------
(* A part of a statement. *)

LockMap(t) ==
    /\ pc[t] = "map"
    /\ MapFree(t)
    /\ map_lock' = [map_lock EXCEPT ![t] = MapMode(Now(t))]
    /\ left' = [left EXCEPT ![t] = IF Now(t).does = "copy"
                                   THEN databases ELSE Now(t).over]
    /\ Enter(t, "visit")
    /\ UNCHANGED <<data, parsed, parts, target, db_lock, uncounted>>

(* Mutant: the map is unlocked once the database is found. *)
VisitUnlocked(t, d) ==
    /\ pc[t] = "visit"
    /\ Now(t).does \notin {"create_db", "drop_db"}
    /\ d \in left[t] \cap databases
    /\ left' = [left EXCEPT ![t] = @ \ {d}]
    /\ target' = [target EXCEPT ![t] = d]
    /\ map_lock' = [map_lock EXCEPT ![t] = "none"]
    /\ Enter(t, "db")
    /\ UNCHANGED <<data, parsed, parts, db_lock, uncounted>>

Visit(t, d) ==
    /\ pc[t] = "visit"
    /\ Now(t).does \notin {"create_db", "drop_db"}
    /\ d \in left[t] \cap databases
    /\ left' = [left EXCEPT ![t] = @ \ {d}]
    /\ target' = [target EXCEPT ![t] = d]
    /\ Enter(t, "db")
    /\ UNCHANGED <<data, parsed, parts, locks, uncounted>>

LockDb(t) ==
    /\ pc[t] = "db"
    /\ DbFree(t)
    /\ db_lock' = [db_lock EXCEPT ![t] = DbMode(Now(t))]
    /\ Enter(t, "work")
    /\ UNCHANGED <<data, parsed, progress, map_lock, uncounted>>

(* The thread is done with a database and goes to the next. *)
Leave(t) ==
    /\ Enter(t, "visit")
    /\ target' = [target EXCEPT ![t] = Nothing]
    /\ db_lock' = [db_lock EXCEPT ![t] = "none"]
    /\ UNCHANGED <<parts, left, map_lock>>

(* The statement ends with an error.  What it has done stays, and is never *)
(* counted.                                                                *)
Fail(t) ==
    /\ Enter(t, "error")
    /\ parts' = [parts EXCEPT ![t] = <<>>]
    /\ left' = [left EXCEPT ![t] = {}]
    /\ target' = [target EXCEPT ![t] = Nothing]
    /\ uncounted' = [uncounted EXCEPT ![t] = FALSE]
    /\ Unlocked(t)

NotFound(t) ==
    IF Now(t).needed THEN Fail(t) ELSE Leave(t) /\ UNCHANGED uncounted

(* Mutant: what is missing is waited for. *)
MissingAgain(t, d) ==
    /\ pc[t] = "visit"
    /\ Now(t).does # "create_db"
    /\ d \in left[t] \ databases
    /\ UNCHANGED vars

(* The database is not in the map. *)
Missing(t, d) ==
    /\ pc[t] = "visit"
    /\ Now(t).does # "create_db"
    /\ d \in left[t] \ databases
    /\ IF Now(t).needed
       THEN Fail(t)
       ELSE /\ left' = [left EXCEPT ![t] = @ \ {d}]
            /\ UNCHANGED <<pc, parts, target, locks, uncounted>>
    /\ UNCHANGED <<data, parsed>>

CreateDb(t, d) ==
    /\ At(t, "visit", {"create_db"})
    /\ d \in left[t]
    /\ databases' = databases \cup {d}
    /\ table' = [table EXCEPT ![d] = @ /\ d \in databases]
    /\ left' = [left EXCEPT ![t] = @ \ {d}]
    /\ Changed(t)
    /\ UNCHANGED <<parsed, pc, parts, target, locks>>

DropDb(t, d) ==
    /\ At(t, "visit", {"drop_db"})
    /\ d \in left[t] \cap databases
    /\ databases' = databases \ {d}
    /\ left' = [left EXCEPT ![t] = @ \ {d}]
    /\ Changed(t)
    /\ UNCHANGED <<table, parsed, pc, parts, target, locks>>

(* SELECT, SHOW, DESCRIBE. *)
Look(t) ==
    /\ At(t, "work", {"look"})
    /\ IF table[target[t]] THEN Leave(t) /\ UNCHANGED uncounted ELSE NotFound(t)
    /\ UNCHANGED <<data, parsed>>

Copy(t) ==
    /\ At(t, "work", {"copy"})
    /\ Leave(t)
    /\ UNCHANGED <<data, parsed, uncounted>>

(* INSERT, REPLACE, UPDATE, DELETE. *)
ChangeRows(t) ==
    /\ At(t, "work", {"change_rows"})
    /\ IF table[target[t]] THEN Leave(t) /\ Changed(t) ELSE NotFound(t)
    /\ UNCHANGED <<data, parsed>>

(* TRUNCATE and ALTER TABLE; of several operations the first may be done   *)
(* and a later one fail.                                                   *)
ChangeTable(t) ==
    /\ At(t, "work", {"change_table"})
    /\ IF table[target[t]]
       THEN \/ Leave(t) /\ Changed(t)
            \/ Fail(t)
       ELSE NotFound(t)
    /\ UNCHANGED <<data, parsed>>

(* CREATE TABLE, with AS SELECT or without, replaces a table; with IF NOT  *)
(* EXISTS it leaves it.                                                    *)
CreateTable(t) ==
    /\ At(t, "work", {"create_table", "create_table_as"})
    /\ \/ table' = [table EXCEPT ![target[t]] = TRUE] /\ Changed(t)
       \/ table[target[t]] /\ UNCHANGED <<table, uncounted>>
    /\ Leave(t)
    /\ UNCHANGED <<databases, parsed>>

DropTable(t) ==
    /\ At(t, "work", {"drop_table"})
    /\ IF table[target[t]] THEN Leave(t) /\ Changed(t) ELSE NotFound(t)
    /\ table' = [table EXCEPT ![target[t]] = FALSE]
    /\ UNCHANGED <<databases, parsed>>

(* ROLLBACK puts back the table of the snapshot, if it had one. *)
Restore(t) ==
    /\ At(t, "work", {"restore"})
    /\ \E there \in BOOLEAN : table' = [table EXCEPT ![target[t]] = there]
    /\ Leave(t)
    /\ Changed(t)
    /\ UNCHANGED <<databases, parsed>>

Outcome(part) == IF part.does \in {"look", "copy"} THEN "rows" ELSE "ok"

(* All databases of the part have been visited. *)
PartIsOver(t) ==
    /\ pc[t] = "visit"
    /\ left[t] = {}
    /\ parts' = [parts EXCEPT ![t] = Tail(@)]
    /\ Enter(t, IF Len(parts[t]) = 1 THEN Outcome(Now(t)) ELSE "map")
    /\ IF CountsItself(Now(t)) THEN Bumped(t) ELSE UNCHANGED uncounted

(* Mutant: the inner part of a statement runs under the outer one's lock.  *)
EndPartHolding(t) ==
    /\ PartIsOver(t)
    /\ IF Len(parts[t]) = 1 THEN Unlocked(t) ELSE UNCHANGED locks
    /\ UNCHANGED <<data, parsed, left, target>>

EndPart(t) ==
    /\ PartIsOver(t)
    /\ Unlocked(t)
    /\ UNCHANGED <<data, parsed, left, target>>

(* Mutant: only the last result of a batch is looked at. *)
CountLast(t, stage) ==
    /\ pc[t] \in Outcomes
    /\ Enter(t, stage)
    /\ IF pc[t] = "ok" /\ stage = "idle" THEN Bumped(t) ELSE UNCHANGED uncounted
    /\ UNCHANGED <<data, parsed, progress, locks>>

(* An OK counts as a write, whatever it is the result of.  The query goes  *)
(* on with its next statement or is answered with this result.             *)
Count(t, stage) ==
    /\ pc[t] \in Outcomes
    /\ Enter(t, stage)
    /\ IF pc[t] = "ok" THEN Bumped(t) ELSE UNCHANGED uncounted
    /\ UNCHANGED <<data, parsed, progress, locks>>

-----------------------------------------------------------------------------
Init ==
    /\ databases \in SUBSET Dbs
    /\ table = [d \in Dbs |-> FALSE]
    /\ parsed = 0
    /\ pc = [t \in Threads |-> "idle"]
    /\ parts = [t \in Threads |-> <<>>]
    /\ left = [t \in Threads |-> {}]
    /\ target = [t \in Threads |-> Nothing]
    /\ map_lock = [t \in Threads |-> "none"]
    /\ db_lock = [t \in Threads |-> "none"]
    /\ uncounted = [t \in Threads |-> FALSE]

Visiting(t) ==
    \E d \in Dbs : Visit(t, d) \/ Missing(t, d) \/ CreateDb(t, d) \/ DropDb(t, d)

Working(t) ==
    \/ Look(t) \/ Copy(t) \/ ChangeRows(t) \/ ChangeTable(t)
    \/ CreateTable(t) \/ DropTable(t) \/ Restore(t)

(* Whatever a thread does inside a statement. *)
Execution(t) ==
    \/ LockMap(t) \/ Visiting(t) \/ LockDb(t) \/ Working(t) \/ EndPart(t)

Query(t) ==
    \/ ParseHit(t) \/ ParseMiss(t) \/ Store(t) \/ Refuse(t)
    \/ \E statement \in Offered : Begin(t, statement)
    \/ \E stage \in {"next", "idle"} : Count(t, stage)

Next == \E t \in Threads : Query(t) \/ Execution(t)

Spec == Init /\ [][Next]_vars

FairSpec == Spec /\ \A t \in Threads : WF_vars(Execution(t))

-----------------------------------------------------------------------------
(* Properties. *)

(* A thread that has found a database in the map works on one that is      *)
(* there until it is done: no acknowledged change goes to a database that  *)
(* was dropped meanwhile, and a snapshot visits exactly what is there.     *)
WorkOnLive ==
    \A t \in Threads :
        /\ target[t] # Nothing => target[t] \in databases
        /\ pc[t] = "visit" /\ Now(t).does = "copy" => left[t] \subseteq databases

InStatement(t) == pc[t] \in {"map", "visit", "db", "work"}

CanStep(t) ==
    \/ pc[t] \in {"visit", "work"}
    \/ pc[t] = "map" /\ MapFree(t)
    \/ pc[t] = "db" /\ DbFree(t)

(* Whenever a thread is inside a statement, some thread inside one can go  *)
(* on: no cycle of threads wait for each other's locks, subqueries, joins, *)
(* ROLLBACK and DROP included.                                             *)
NobodyStuck ==
    (\E t \in Threads : InStatement(t))
        => \E t \in Threads : CanStep(t)

(* When a query has been answered, all it has changed is counted in the    *)
(* write generation, but for what a statement did before it failed.        *)
ChangesCounted == \A t \in Threads : pc[t] = "idle" => ~uncounted[t]

(* The size of the cache is looked at before the insertion, so it exceeds  *)
(* the limit, but never by more than the threads that are at it.           *)
ParseCacheBounded == parsed <= CacheLimit + Cardinality(Threads)

(* If no more statements are begun, those that are begun end.              *)
StatementsEnd ==
    <>[][\A t \in Threads : ~(pc[t] = "next" /\ pc'[t] = "map")]_vars
        => <>[](\A t \in Threads : ~InStatement(t))
=============================================================================
