------------------------------ MODULE Sessions ------------------------------
(***************************************************************************)
(* The connections of the server (command loop of src/src/server.rs) on    *)
(* the shared engine: text statements with the per-connection L0 result    *)
(* cache and the engine's write generation, prepared statements, USE, and  *)
(* BEGIN / COMMIT / ROLLBACK by snapshot.                                  *)
(*                                                                         *)
(* Each connection is a task of its own.  A step is what one task does     *)
(* under one lock or on one atomic variable; between two steps any other   *)
(* connection may run.  Each database holds one table, of which only the   *)
(* number of rows that each session inserted is kept.                      *)
(***************************************************************************)
EXTENDS Integers

CONSTANTS
    Sessions,
    Dbs,
    AllowedDbs,   \* the databases each session's user may use
    Transacting,  \* the sessions whose clients use transactions
    RepeatWrites, \* whether clients send the text of a write twice in a row
    MaxRows,      \* bound on the rows of one session in one database
    MaxGen,       \* bound on the write generation that statements reach
    Ok, Error, None

ASSUME ClientsAssumption ==
    Transacting \subseteq Sessions /\ RepeatWrites \in BOOLEAN

ASSUME AllowedAssumption == AllowedDbs \in [Sessions -> SUBSET Dbs]

ASSUME BoundAssumption == MaxRows \in Nat /\ MaxGen \in Nat

VARIABLES
    contents,    \* database -> session -> number of its rows
    write_gen,   \* Engine::write_gen
    current_db,  \* the session's current database
    l0,          \* the session's cache entry: query, generation, bytes
    txn,         \* the session's transaction snapshot
    pc,          \* what the session's task is doing
    work,        \* the statement it executes and its result
    copy,        \* databases copied so far by BEGIN, left to ROLLBACK
    standing,    \* history: what changed since the session's last read
    kept,        \* history: rows acknowledged outside open transactions
    open_rows,   \* history: what the open transaction has added to them
    mixed        \* history: a transaction was not alone

engine == <<contents, write_gen>>
books == <<kept, open_rows, mixed>>
history == <<standing, books>>
vars == <<contents, write_gen, current_db, l0, txn, pc, work, copy,
          standing, kept, open_rows, mixed>>

Rows == [Sessions -> Nat]

Query == [kind : {"read", "insert", "delete_all", "failing_write"}, to : {None}]
         \cup [kind : {"use"}, to : Dbs]

Answer == Rows \cup {Ok}

(* A statement at work: what it is and what it has resulted in. *)
Work == [query : Query, bytes : Answer \cup {Error}]

ASSUME ResultAssumption ==
    /\ {Ok, Error, None} \cap Rows = {}
    /\ Ok # Error /\ None # Ok /\ None # Error
    /\ None \notin Work
    /\ None \notin [query : Query, gen : Nat, bytes : Answer]
    /\ None \notin [Dbs -> Rows]

(* What has happened to the tables since a session read the answer that it *)
(* is about to cache or has cached, in a way that the write generation     *)
(* does not tell:                                                          *)
(*   current    nothing                                                    *)
(*   overtaken  another session has written, before the answer was cached  *)
(*              or without counting the write                              *)
(*   outdated   another session has rolled back before the answer was      *)
(*              cached, or the session itself has written without counting *)
(*              it or left the database that the answer was read from      *)
Standing == {"current", "overtaken", "outdated"}

NoCopy == [d \in {} |-> 0]

(* An entry never has a generation of the future. *)
Entry == [query : Query, gen : 0 .. write_gen, bytes : Answer]

TypeOK ==
    /\ contents \in [Dbs -> Rows]
    /\ write_gen \in Nat
    /\ current_db \in [Sessions -> Dbs]
    /\ l0 \in [Sessions -> Entry \cup {None}]
    /\ txn \in [Sessions -> [Dbs -> Rows] \cup {None}]
    /\ pc \in [Sessions -> {"idle", "execute", "bump", "reply",
                            "begin", "restore"}]
    /\ work \in [Sessions -> Work \cup {None}]
    /\ \A s \in Sessions :
          pc[s] \in {"execute", "bump", "reply"} <=> work[s] # None
    /\ DOMAIN copy = Sessions
    /\ \A s \in Sessions : /\ DOMAIN copy[s] \subseteq Dbs
                           /\ copy[s] \in [DOMAIN copy[s] -> Rows]
    /\ standing \in [Sessions -> Standing]
    /\ kept \in [Dbs -> [Sessions -> Int]]
    /\ open_rows \in [Dbs -> [Sessions -> Int]]
    /\ mixed \in BOOLEAN

-----------------------------------------------------------------------------
Others(s) == Sessions \ {s}

(* No other session has a transaction open, opening or rolling back. *)
Alone(s) == \A t \in Others(s) : txn[t] = None /\ pc[t] \notin {"begin", "restore"}

MayUse(s) == current_db[s] \in AllowedDbs[s]

-----------------------------------------------------------------------------
(* A text statement: look it up in the cache, execute it, bump the write   *)
(* generation if its result is an OK, send the answer and cache it.        *)

IsWrite(q) == q.kind \in {"insert", "delete_all", "failing_write"}

CacheHolds(s, q) ==
    /\ l0[s] # None
    /\ l0[s].query = q
    /\ l0[s].gen = write_gen

(* A USE statement names the new database before the cache is consulted. *)
Entered(s, q) ==
    IF q.kind = "use" THEN [current_db EXCEPT ![s] = q.to] ELSE current_db

(* The answers that s overtakes by a write: those in flight, and, when the *)
(* write is not counted, those in the caches too.                          *)
Overtaken(s, stages) ==
    [t \in Sessions |->
        IF t # s /\ pc[t] \in stages /\ standing[t] = "current"
        THEN "overtaken" ELSE standing[t]]

InFlight == {"reply"}
ReadOrCached == {"idle", "begin", "restore", "bump", "reply"}

CountedWrite(s) == standing' = Overtaken(s, InFlight)

UncountedWrite(s) ==
    standing' = [Overtaken(s, ReadOrCached) EXCEPT ![s] = "outdated"]

(* The accounts of the rows are kept while transactions are alone. *)
Blank == [d \in Dbs |-> [s \in Sessions |-> 0]]

Account(s, closed, open) ==
    /\ mixed' = (mixed \/ ~Alone(s))
    /\ kept' = IF mixed' THEN Blank ELSE closed
    /\ open_rows' = IF mixed' THEN Blank ELSE open

Credited(book, s) == [book EXCEPT ![current_db[s]][s] = @ + 1]

(* The row a client expects after an acknowledged INSERT. *)
Acknowledge(s) ==
    IF txn[s] = None
    THEN Account(s, Credited(kept, s), open_rows)
    ELSE Account(s, kept, Credited(open_rows, s))

(* The answer is sent from the cache and nothing is executed. *)
CacheHit(s, q) ==
    /\ pc[s] = "idle"
    /\ CacheHolds(s, q)
    /\ IsWrite(q) => RepeatWrites
    /\ q.kind = "insert" =>
          kept[current_db[s]][s] + open_rows[current_db[s]][s] < MaxRows
    /\ current_db' = Entered(s, q)
    /\ IF q.kind = "insert" THEN Acknowledge(s) ELSE UNCHANGED books
    /\ UNCHANGED <<engine, l0, txn, pc, work, copy, standing>>

(* A write may also be worded differently from the cached one. *)
CacheMiss(s, q) ==
    /\ pc[s] = "idle"
    /\ ~CacheHolds(s, q) \/ IsWrite(q)
    /\ current_db' = Entered(s, q)
    /\ pc' = [pc EXCEPT ![s] = "execute"]
    /\ work' = [work EXCEPT ![s] = [query |-> q, bytes |-> Error]]
    /\ standing' = [standing EXCEPT ![s] = "current"]
    /\ UNCHANGED <<engine, l0, txn, copy, books>>

(* The engine is done: an OK still has to be counted. *)
Executed(s, result) ==
    /\ pc' = [pc EXCEPT ![s] = IF result = Ok THEN "bump" ELSE "reply"]
    /\ work' = [work EXCEPT ![s].bytes = result]
    /\ UNCHANGED <<write_gen, current_db, l0, txn, copy>>

Executing(s, kind) ==
    /\ pc[s] = "execute"
    /\ work[s].query.kind = kind
    /\ MayUse(s)

(* The privilege check on the current database. *)
Refuse(s) ==
    /\ pc[s] = "execute"
    /\ ~MayUse(s)
    /\ Executed(s, Error)
    /\ standing' = [standing EXCEPT ![s] = "outdated"]
    /\ UNCHANGED <<contents, books>>

ExecuteRead(s) ==
    /\ Executing(s, "read")
    /\ Executed(s, contents[current_db[s]])
    /\ UNCHANGED <<contents, history>>

ExecuteUse(s) ==
    /\ Executing(s, "use")
    /\ write_gen < MaxGen
    /\ Executed(s, Ok)
    /\ UNCHANGED <<contents, history>>

InsertRow(s) ==
    /\ write_gen < MaxGen
    /\ contents[current_db[s]][s] < MaxRows
    /\ contents' = Credited(contents, s)
    /\ Acknowledge(s)

ExecuteInsert(s) ==
    /\ Executing(s, "insert")
    /\ InsertRow(s)
    /\ CountedWrite(s)
    /\ Executed(s, Ok)

Emptied(book, s) == [book EXCEPT ![current_db[s]] = [t \in Sessions |-> 0]]

(* What a transaction takes away comes back when it is rolled back. *)
TakenAway(s) ==
    [open_rows EXCEPT ![current_db[s]] =
        [t \in Sessions |-> 0 - kept[current_db[s]][t]]]

DeleteRows(s) ==
    /\ write_gen < MaxGen
    /\ contents' = Emptied(contents, s)
    /\ IF txn[s] = None
       THEN Account(s, Emptied(kept, s), Emptied(open_rows, s))
       ELSE Account(s, kept, TakenAway(s))

ExecuteDeleteAll(s) ==
    /\ Executing(s, "delete_all")
    /\ DeleteRows(s)
    /\ CountedWrite(s)
    /\ Executed(s, Ok)

(* The statement fails after it has dropped a table. *)
ExecuteFailingWrite(s) ==
    /\ Executing(s, "failing_write")
    /\ DeleteRows(s)
    /\ UncountedWrite(s)
    /\ Executed(s, Error)

Bump(s) ==
    /\ pc[s] = "bump"
    /\ write_gen' = write_gen + 1
    /\ pc' = [pc EXCEPT ![s] = "reply"]
    /\ UNCHANGED <<contents, current_db, l0, txn, work, copy, history>>

(* Send the answer; one that is not an error is cached under the write     *)
(* generation read now.                                                    *)
Reply(s) ==
    /\ pc[s] = "reply"
    /\ l0' = IF work[s].bytes = Error THEN l0
             ELSE [l0 EXCEPT ![s] = [query |-> work[s].query,
                                     gen   |-> write_gen,
                                     bytes |-> work[s].bytes]]
    /\ pc' = [pc EXCEPT ![s] = "idle"]
    /\ work' = [work EXCEPT ![s] = None]
    /\ UNCHANGED <<engine, current_db, txn, copy, history>>

-----------------------------------------------------------------------------
(* A prepared INSERT neither consults the cache nor counts as a write.     *)
ExecutePrepared(s) ==
    /\ pc[s] = "idle"
    /\ MayUse(s)
    /\ InsertRow(s)
    /\ UncountedWrite(s)
    /\ UNCHANGED <<write_gen, current_db, l0, txn, pc, work, copy>>

(* Mutant: the cache entry survives the change of database. *)
InitDbCached(s, d) ==
    /\ pc[s] = "idle"
    /\ current_db' = [current_db EXCEPT ![s] = d]
    /\ UNCHANGED <<engine, l0, txn, pc, work, copy, history>>

(* COM_INIT_DB changes the database and drops the cache entry. *)
InitDb(s, d) ==
    /\ pc[s] = "idle"
    /\ current_db' = [current_db EXCEPT ![s] = d]
    /\ l0' = [l0 EXCEPT ![s] = None]
    /\ standing' = [standing EXCEPT ![s] = "current"]
    /\ UNCHANGED <<engine, txn, pc, work, copy, books>>

-----------------------------------------------------------------------------
(* Transactions.  A snapshot copies the databases one after the other,     *)
(* each under its own lock; ROLLBACK writes them back the same way.        *)

(* The rows of the session's transaction are there for good. *)
Settle(s) ==
    IF txn[s] = None
    THEN UNCHANGED books
    ELSE Account(s, [d \in Dbs |-> [t \in Sessions |->
                        kept[d][t] + open_rows[d][t]]], Blank)

Begin(s) ==
    /\ s \in Transacting
    /\ pc[s] = "idle"
    /\ pc' = [pc EXCEPT ![s] = "begin"]
    /\ copy' = [copy EXCEPT ![s] = NoCopy]
    /\ Account(s, kept, open_rows)
    /\ UNCHANGED <<engine, current_db, l0, txn, work, standing>>

CopyDatabase(s, d) ==
    /\ pc[s] = "begin"
    /\ d \notin DOMAIN copy[s]
    /\ copy' = [copy EXCEPT ![s] =
                  [e \in DOMAIN copy[s] \cup {d} |->
                      IF e = d THEN contents[d] ELSE copy[s][e]]]
    /\ UNCHANGED <<engine, current_db, l0, txn, pc, work, history>>

(* Mutant: a second BEGIN keeps the first one's snapshot. *)
BegunOnce(s) ==
    /\ pc[s] = "begin"
    /\ DOMAIN copy[s] = Dbs
    /\ txn' = [txn EXCEPT ![s] = IF @ = None THEN copy[s] ELSE @]
    /\ copy' = [copy EXCEPT ![s] = NoCopy]
    /\ pc' = [pc EXCEPT ![s] = "idle"]
    /\ Settle(s)
    /\ UNCHANGED <<engine, current_db, l0, work, standing>>

(* A snapshot that was already there is forgotten. *)
Begun(s) ==
    /\ pc[s] = "begin"
    /\ DOMAIN copy[s] = Dbs
    /\ txn' = [txn EXCEPT ![s] = copy[s]]
    /\ copy' = [copy EXCEPT ![s] = NoCopy]
    /\ pc' = [pc EXCEPT ![s] = "idle"]
    /\ Settle(s)
    /\ UNCHANGED <<engine, current_db, l0, work, standing>>

Commit(s) ==
    /\ pc[s] = "idle"
    /\ txn[s] # None
    /\ txn' = [txn EXCEPT ![s] = None]
    /\ Settle(s)
    /\ UNCHANGED <<engine, current_db, l0, pc, work, copy, standing>>

Rollback(s) ==
    /\ pc[s] = "idle"
    /\ txn[s] # None
    /\ write_gen <= MaxGen
    /\ copy' = [copy EXCEPT ![s] = txn[s]]
    /\ txn' = [txn EXCEPT ![s] = None]
    /\ pc' = [pc EXCEPT ![s] = "restore"]
    /\ UNCHANGED <<engine, current_db, l0, work, history>>

RestoreDatabase(s, d) ==
    /\ pc[s] = "restore"
    /\ d \in DOMAIN copy[s]
    /\ contents' = [contents EXCEPT ![d] = copy[s][d]]
    /\ copy' = [copy EXCEPT ![s] =
                  [e \in DOMAIN copy[s] \ {d} |-> copy[s][e]]]
    /\ standing' = [t \in Sessions |->
                       IF t # s /\ pc[t] \in InFlight THEN "outdated"
                       ELSE standing[t]]
    /\ UNCHANGED <<write_gen, current_db, l0, txn, pc, work, books>>

(* Mutant: a ROLLBACK does not count as a write. *)
RolledBackUncounted(s) ==
    /\ pc[s] = "restore"
    /\ DOMAIN copy[s] = {}
    /\ pc' = [pc EXCEPT ![s] = "idle"]
    /\ Account(s, kept, Blank)
    /\ UNCHANGED <<engine, current_db, l0, txn, work, copy, standing>>

RolledBack(s) ==
    /\ pc[s] = "restore"
    /\ DOMAIN copy[s] = {}
    /\ write_gen' = write_gen + 1
    /\ pc' = [pc EXCEPT ![s] = "idle"]
    /\ Account(s, kept, Blank)
    /\ UNCHANGED <<contents, current_db, l0, txn, work, copy, standing>>

(* Mutant: the new connection takes over the old one's statement. *)
ReconnectAtWork(s, d) ==
    /\ pc[s] \in {"idle", "reply"}
    /\ current_db' = [current_db EXCEPT ![s] = d]
    /\ l0' = [l0 EXCEPT ![s] = None]
    /\ txn' = [txn EXCEPT ![s] = None]
    /\ pc' = [pc EXCEPT ![s] = "idle"]
    /\ Settle(s)
    /\ standing' = [standing EXCEPT ![s] = "current"]
    /\ UNCHANGED <<engine, work, copy>>

(* The connection ends, if need be before the answer is out; the client    *)
(* comes back on a new one.  An open transaction's rows stay.              *)
Reconnect(s, d) ==
    /\ pc[s] \in {"idle", "reply"}
    /\ current_db' = [current_db EXCEPT ![s] = d]
    /\ l0' = [l0 EXCEPT ![s] = None]
    /\ txn' = [txn EXCEPT ![s] = None]
    /\ pc' = [pc EXCEPT ![s] = "idle"]
    /\ work' = [work EXCEPT ![s] = None]
    /\ Settle(s)
    /\ standing' = [standing EXCEPT ![s] = "current"]
    /\ UNCHANGED <<engine, copy>>

-----------------------------------------------------------------------------
Init ==
    /\ contents = [d \in Dbs |-> [s \in Sessions |-> 0]]
    /\ write_gen = 0
    /\ current_db \in [Sessions -> Dbs]
    /\ l0 = [s \in Sessions |-> None]
    /\ txn = [s \in Sessions |-> None]
    /\ pc = [s \in Sessions |-> "idle"]
    /\ work = [s \in Sessions |-> None]
    /\ copy = [s \in Sessions |-> NoCopy]
    /\ standing = [s \in Sessions |-> "current"]
    /\ kept = Blank
    /\ open_rows = Blank
    /\ mixed = FALSE

Statement(s) ==
    \/ \E q \in Query : CacheHit(s, q) \/ CacheMiss(s, q)
    \/ Refuse(s)
    \/ ExecuteRead(s) \/ ExecuteUse(s)
    \/ ExecuteInsert(s) \/ ExecuteDeleteAll(s) \/ ExecuteFailingWrite(s)
    \/ Bump(s) \/ Reply(s)

Transaction(s) ==
    \/ Begin(s) \/ Begun(s)
    \/ Commit(s) \/ Rollback(s) \/ RolledBack(s)
    \/ \E d \in Dbs : CopyDatabase(s, d) \/ RestoreDatabase(s, d)

Next ==
    \E s \in Sessions :
        \/ Statement(s)
        \/ ExecutePrepared(s)
        \/ Transaction(s)
        \/ \E d \in Dbs : InitDb(s, d) \/ Reconnect(s, d)

Spec == Init /\ [][Next]_vars

-----------------------------------------------------------------------------
(* Properties. *)

(* No session has changed a table without having bumped the generation.    *)
AllCounted == \A s \in Sessions : pc[s] \notin {"bump", "restore"}

(* A cached SELECT answer that the server would send from the cache.       *)
Served(s) ==
    /\ pc[s] = "idle" /\ AllCounted
    /\ l0[s] # None
    /\ l0[s].query.kind = "read" /\ l0[s].gen = write_gen

(* A cache entry that the server would answer a SELECT from holds what the *)
(* SELECT would find in the session's current database, unless the answer  *)
(* was overtaken or outdated: whoever writes, begins, rolls back, changes  *)
(* database or reconnects, nothing else makes the L0 cache stale.          *)
EntriesCurrent ==
    \A s \in Sessions :
        Served(s) /\ standing[s] = "current"
            => l0[s].bytes = contents[current_db[s]]

(* Even an overtaken answer never misses a row that the session itself has *)
(* inserted: a session that races others reads its own writes.             *)
OwnRowsNotMissed ==
    \A s \in Sessions :
        Served(s) /\ standing[s] # "outdated"
            => l0[s].bytes[s] >= contents[current_db[s]][s]

(* As long as transactions are alone, the tables hold the rows             *)
(* acknowledged outside transactions and the ones of committed             *)
(* transactions, with what the open one has added or taken away: COMMIT    *)
(* and a second BEGIN lose nothing, ROLLBACK undoes exactly what happened  *)
(* since BEGIN.                                                            *)
RowsAccounted ==
    ~mixed /\ (\A s \in Sessions : pc[s] # "restore") =>
        \A d \in Dbs, s \in Sessions :
            contents[d][s] = kept[d][s] + open_rows[d][s]

(* An INSERT that was answered with an OK has put its row in the table, as *)
(* long as transactions are alone: the ROLLBACK of one that others overlap *)
(* takes their rows with it.                                               *)
AcksKept ==
    ~mixed /\ (\A s \in Sessions : pc[s] # "restore") =>
        \A d \in Dbs, s \in Sessions :
            contents[d][s] >= kept[d][s] + open_rows[d][s]
=============================================================================
