# A TLA+ model of RunAlexDB

RunAlexDB is an in-memory SQL server that speaks the MySQL wire protocol: a
tokio server, an engine that keeps every database in memory behind read-write
locks, an SQL dump as its only persistence, and a small admin web UI.  This
directory holds TLA+ modules translated from its source, TLC configurations
that check them on small instances, and TLAPS proofs of theorems about them
for every instance.  Sources are cited as paths from the project directory,
e.g. `src/src/engine.rs:1225`.

Contents: [inventory](#inventory), [modules](#modules-and-the-code),
[runs](#runs-and-bounds), [fairness](#fairness), [proofs](#proofs),
[what the model found](#where-the-code-and-its-documentation-disagree),
[abstractions](#abstractions), [plan](#plan).

## Inventory

### Table storage (`src/src/engine.rs`, `struct Table`)

State: `rows`, and three structures derived from them: `pk_index` (key text to
position), `col_int_data`/`col_str_data` (a typed vector per column for SIMD
scans), `next_auto`.
Operations: INSERT (text, multi-row, `INSERT ... SELECT`), REPLACE, UPDATE and
DELETE by key and by scan, TRUNCATE, ALTER TABLE, CREATE TABLE with and without
AS SELECT, and their prepared forms, which are separate code.
Hard: nine statements maintain three derived structures by hand, each with a
path of its own; `swap_remove` moves rows, `remove` shifts them, and the index
has to follow.  Nothing rechecks the structures afterwards.
Correct when: every index entry leads to a row with its key and every row is
found by its key; the stores mirror the rows; index lookup, SIMD scan and row
scan answer alike; a generated key is fresh; positions, index and stores are
invisible, i.e. the table is a dictionary.

### Statement execution and locks (`Engine::execute`, `exec_stmt`)

State: the map of databases behind one read-write lock, each database behind
its own, the parsed statements cached by their text's hash, what each worker
thread holds of the locks.
Operations: queries of one or several statements, each of which locks the map
and then a database once or several times: subqueries, `INSERT ... SELECT`,
CREATE TABLE AS, joins, DROP of several objects, snapshots, ROLLBACK, dumps.
Hard: the locks are taken and given back in the middle of statements; a
database may go away between two parts; a statement fails after part of its
work; a guard kept too long would hang every thread.
Correct when: nobody works on what is no longer there, threads never wait in a
cycle, statements end, what they change is counted, the cache is bounded.

### SELECT results (`Engine::select`, `select_joined`, `engine.rs:1400-2531`)

State: the rows on their way from the table to the answer.
Operations: join, grouping and aggregates, HAVING, ORDER BY, projection,
OFFSET, LIMIT, DISTINCT, UNION.
Hard: there are eight paths, each with an order of these passes of its own and
with passes it leaves out; a sort by several keys is made of stable sorts by
one; values compare as integers or as texts depending on the pair.
Correct when: a page is a part of the one sorted result, nothing is lost or
counted twice by grouping, joining or removing duplicates.

### Sessions, L0 cache and transactions (`src/src/server.rs:203-442`)

State: per session its current database, one cached answer tagged with the
query and with the engine's `write_gen`, a transaction snapshot; in the engine
the databases and `write_gen`.
Operations: text statements, prepared statements, USE, `COM_INIT_DB`, BEGIN,
COMMIT, ROLLBACK, disconnection.
Hard: a statement executes, bumps the generation, answers and fills the cache
in separate steps, between which other sessions run; snapshots are taken and
written back one database at a time.
Correct when: a cached answer is the current one; an acknowledged row is in the
table; ROLLBACK removes what the session did and no more.

### Persistence (`src/src/main.rs:83-126`, `Engine::dump_sql`, `restore_sql`)

State: the databases in memory, `runalexdb.sql`, `runalexdb.sql.tmp`, what the
checkpoint task and the shutdown task are doing.
Hard: the process may crash between any two steps; two tasks write dumps; the
dump is SQL text that the engine's own parser has to read back.
Correct when: the file is never replaced by a torn one; a clean exit leaves
what was in memory; a restart has what the file had; the signal ends the
process.

### Connections (`src/src/server.rs:91-316, 435-441`)

State: 256 permits, per connection its phase, its read buffer and what of its
answers the client has yet to read, the worker threads.
Hard: TCP cuts and joins packets, and so do the reads, whose buffers have 4096
bytes, or 64; clients fall silent, stop reading or hang up anywhere; a task that
does not yield keeps a worker thread.
Correct when: what has arrived is answered, permits come back, nobody blocks
the others.

### Host rules (`src/src/firewall/backend.rs`, `src/src/icmp_guard/mod.rs`)

State: the packet filter of the host, the lock file shared with the sibling
programs RunNginx and Runbound, and what each process remembers of its rules.
Hard: crashes, failed starts and several processes that check the lock first
and write it last; commands fail half-way.
Correct when: nobody takes the owner's rules away; opened ports are closed
again.

### Parts not modelled, or only at their border

| part | state and behaviour | status |
|---|---|---|
| expressions, dates, window functions (`engine.rs:2248-2345, 2780-3660`) | pure functions of a row or of the rows | four kinds of condition are in `TableStore`; formatting and scalar functions depend on nothing but their arguments and are left to unit tests |
| prepared parameters (`engine.rs:4283-4766`) | pure | one placeholder in SET and one in WHERE; the rest is planned |
| users and privileges (`engine.rs:3943-4175`) | map of users | the check of the current database in `Sessions`, refusals in `Statements`; accounts are planned |
| wire codec (`protocol.rs`) | pure | packet framing in `Connections`; planned |
| SIMD kernels (`simd_scan.rs`) | pure | `SimdRead` says what they yield; planned |
| web UI (`webui.rs`) | login tokens with expiry | planned |
| configuration (`config.rs`) | read once | its values are constants of the modules |
| `numa_pin.rs`, `xdp.rs`, HTML, build files | none at run time | nothing to check |

Interactions: a connection that is admitted becomes a session; sessions call
the engine under the lock of a database; the checkpoint and shutdown tasks read
the engine through `dump_sql` and are cut off by `process::exit`; the shutdown
task first closes the firewall's ports.  The 39 hazards of the code, each at its
line with the properties that would catch it or the reason why none does, are
listed in `PROJECT.json`.

## Modules and the code

`TableValues` <- `TableStore` <- `TableRefinement` (INSTANCE of `KeyedTable`);
the other components stand alone, since they share state with each other only
through the engine, which each models as far as it uses it.

* **`TableValues`**: values, column types, keys and WHERE conditions.  `Cell` is
  what a column store keeps for a value, `RowKey` is `row_pk_key`, `Matches` is
  `eval_where`.
* **`TableStore`**: one table.  Each statement runs under the write lock of its
  database, so each is one action: `Insert`, `Replace`, `ReplaceNew`,
  `InsertPrepared`, `UpdateByKey`, `UpdateScan`, `UpdateScanPrepared`,
  `DeleteByKey`, `DeleteScan`, `DeletePrepared`, `Truncate`, `AddColumn`,
  `DropColumn`, `CreateTable`, `CreateTableAs`.  `PointRead`, `SimdRead` and
  `ScanRead` are the ways a SELECT finds rows; `Select` is the choice the
  engine makes among them.
* **`KeyedTable`**: what a table with a PRIMARY KEY promises, a dictionary from
  keys to rows, without positions.  **`TableRefinement`** maps a `TableStore`
  to it.
* **`Statements`**: the engine at the grain of its locks.  A statement is a
  sequence of parts; a part says what it does, to which databases, and whether
  something missing is an error.  A thread goes through `LockMap`, `Visit`,
  `LockDb`, the work of the part (`Look`, `Copy`, `ChangeRows`, ...), and gives
  the locks back at the end of the part.  `MapMode` and `DbMode` say which side
  of a lock the code takes.  `ParseHit`, `ParseMiss` and `Store` are the cache
  of parsed statements, `Count` is the bump of the generation.  The statements
  (`Simple`, `Composite`, `Drops`, `Wide`) list the parts in which the code
  runs each kind; a batch is several `Begin`s before an answer.
* **`Select`**: one query at a time; `stage` says which pass comes next and
  `rows` what has become of the rows.  `Ask` picks the query and the rows that
  pass WHERE; `Join`, `GroupTable`, `GroupJoined`, `AggregateAll`,
  `SelectExpressions`, `SelectByKey` (WHERE asks for one row by its PRIMARY KEY),
  `SelectPlain`, `SelectOrdered`, `Union` are the paths,
  `SortPass`, `Project`, `Page`, `Distinct` the passes.  A comparison that goes
  round in a circle makes `SortPass` yield any arrangement, or `SortPanic`,
  since Rust's `sort_by` promises no more.  Sorting, joining, grouping and
  removing duplicates all order a set of places by what is ahead of each
  (`InTurn`), so that the order of a result is a statement about sets;
  only sums are recursive functions.  `AskedAssumption` says what a client can
  ask for: columns that exist, over rows that have them.
* **`Sessions`**: a session's `pc` says where its task is between two steps: a
  statement is looked up in the cache (`CacheHit`, `CacheMiss`), executed
  (`Execute...`), counted (`Bump`), answered and cached (`Reply`); BEGIN copies
  and ROLLBACK writes back database by database (`CopyDatabase`,
  `RestoreDatabase`).  A table is kept as the number of rows each session has
  inserted.  `kept`, `open_rows` and `mixed` are history for the accounts of
  transactions, `standing` for the cache: whether the answer that a session has
  read was overtaken by another session's write, or outdated, in a way that the
  write generation cannot tell.
* **`Persistence`**: `StartDump`, `DumpDatabase`, `StartWrite`, `FinishWrite`
  for either task, `Rename` for the checkpoint, `Exit` for the shutdown,
  `Crash` anywhere, and `Start`, which loads the dump as `restore_sql` does,
  backticks included.  `late` is history: something ran past the signal, or the
  final write failed.
* **`Connections`**: `Accept`/`Reject` by the permits, `ReadFirst`,
  `ReadSslRequest`, `Upgrade`/`UpgradeFails`, `ReadHandshake`,
  `Admit`/`BreakOff`/`Deny`, `ReadCommands`, `Answer` and the `Write` of the
  answer (or `WriteFails`), `CloseStatement`, `Quit`, `IdleTimeout`, `ReadEnd`,
  and the client's `Connect`, `Send`, `ReadAnswer`, `HangUp`.  Packets are
  counted in halves, so that one may arrive in two pieces; `Read` takes what the
  buffer has room for, which in a TLS session may be half of a long handshake
  response (`Fitting`).  A socket takes `Room` answers that the client has not
  read; `Write` waits, without a timeout, for the client to read.
* **`HostRules`**: the life of a process, as `async_main` orders it: open the
  ports, check the lock, add the guard's rules, write the lock, bind, serve;
  then a signal closes the ports and exits, a taken port returns and drops the
  guard, or a crash ends it anywhere.  `disputed` is history: two processes set
  the guard up at the same time, or an owner could not write the lock, and not
  all of them are gone.
* **`TableStoreProofs`, `TableRefinementProofs`, `SessionsProofs`,
  `StatementsProofs`, `SelectProofs`, `PersistenceProofs`, `ConnectionsProofs`,
  `HostRulesProofs`**: theorems, each module about the component it is named
  after.
* **`MCTable`, `MCSessions`, `MCStatements`, `MCSelect`, `MCPersistence`,
  `MCConnections`, `MCHostRules`**: the instances for TLC.

Operators commented `Mutant` are plausible wrong versions of the definition
that follows them; no specification uses them.  `PROJECT.json` pairs each
checked property with one that breaks it.

### Workloads

The engine accepts statements under which its own structures diverge.  Hiding
them would make the model unfaithful, and allowing them always would leave
nothing to check but that.  So `TableStore` has a constant `Workload`: the kinds
of statement, beyond the plain ones, that clients send.  The guards test it with
`Allowed`.  Every statement is in the model under some workload, and each run
says under which its properties hold.  `Connections` has `Conducts`, how the
packets of each client's handshake arrive, all of them in one run.  `Sessions`
and `HostRules` do without: their histories
name the moment at which a property is no longer owed, so all behaviours are in
one run.  Its constants `Transacting` and `RepeatWrites` bound the instance and
separate the one behaviour, a write sent twice in a row, that has a run of its
own.  `Statements` has `Offered`, the statements that are sent.

## Runs and bounds

| run | checks | bounds |
|---|---|---|
| `MCTable_plain` | `IndexComplete`, `StoresMirrorRows`, `ReadPathsAgree`, `AutoKeyFresh`, and the refinement `ImplementsKeyedTable` | integer key, text column; 3 integers, 2 texts; 3 rows; workload ADD COLUMN |
| `MCTable_any` | `TypeOK`, `IndexSound`, `StoresNeverLonger` | two integer columns, 2 rows; every workload but `update_key` |
| `MCTable_update_key` | violates `IndexComplete` | as the first, workload `update_key` |
| `MCSessions_cache` | `TypeOK`, `EntriesCurrent`, `OwnRowsNotMissed`, `RowsAccounted` | 2 sessions, one limited to one of 2 databases, the other without transactions; 1 row each, statements up to generation 1 and what follows from them |
| `MCSessions_repeated_write` | violates `AcksKept` | 2 sessions, 1 database |
| `MCStatements_locks` | `TypeOK`, `WorkOnLive`, `NobodyStuck`, `ChangesCounted`, `ParseCacheBounded`, `StatementsEnd` | 2 threads, 2 databases; single locks on the first, several in both orders; 1 cached statement before the cache is cleared |
| `MCSelect_results` | `TypeOK`, `PagesOfOneOrder`, `DistinctPage`, `GroupsAddUp`, `UnionKeepsRows`, `JoinCounts` | every table of up to 3 rows (2 and 2 in joins, unions and groupings, 1 by key) over 9, 10, a word and NULL; up to 2 keys, 5 pages |
| `MCPersistence_shutdown` | `TypeOK`, `FinalDump`, `CheckpointAtomic`, `SignalEndsProcess` | 1 user database besides `test`, 1 row, any number of crashes and restarts |
| `MCPersistence_restart` | violates `RestartKeepsData` | the same |
| `MCConnections_served` | `TypeOK`, `OnlyPiecesSpin`, `WholeHandshakesAnswered`, `CommandsAnswered`, `SilentSessionsEnd`, `HungUpSessionsEnd` | a plain client (2 packets), a TLS client (4 packets, every conduct), a silent one; 2 permits, 2 worker threads, 1 unread answer |
| `MCConnections_split` | violates `HandshakeAnswered` | a TLS client with a long handshake response; 1 worker thread |
| `MCHostRules_guard` | `TypeOK`, `OwnerProtected`, `PortsClosed` | 2 processes, 4 kinds of host; any number of lives |

Why the bounds are enough to be interesting.  Three rows are the least with a
row before, at and after the one that `swap_remove` or `remove` takes out;
`MaxAuto` is above the largest integer clients write, so that generated and
explicit keys meet and pass each other.  Two sessions are enough for any race
on one cache entry, which belongs to one session and is outdated by another;
two databases are needed for USE and for snapshots taken in steps.  In the
first, states that differ only in a cache entry that will never be sent, or in
the history of one, count as one (`View` in `MCSessions`).  In `Statements` two
threads and two databases are the least that can wait for each other in a
cycle, and every statement that takes several locks meets every other one in
both orders.  In `Select` the texts are in the order "10" < the word < "9", the
least with which comparison goes round in a circle; three rows are the least in
which equal rows are no neighbours.  In `Connections` three clients compete for
two permits; one of them may spin on one of two worker threads, beside which the
others are to be served, and four packets are what a TLS client needs to have a
command come behind its handshake.  In `Persistence` the built-in
database and a user's are the two cases that dumping and loading tell apart.
In `HostRules` leftovers are bounded when a process starts (`MaxRules`,
`MaxEchoRules`), not how often processes start.

`CHECK_DEADLOCK FALSE` is set where a bound ends every behaviour:
`MCSessions_*`, when all rows and generations are used up, and `MCHostRules`,
when too many rules are left over to start again; and in `MCConnections_*`,
where a connection may be left spinning and the server itself stops with it.

What the runs show, beyond their invariants: that `AcksKept` and
`IndexComplete` hold in one run and fail in another is deliberate; it locates
the kind of statement that breaks them.

## Fairness

* `Connections`: weak fairness of `Serve(c)`, the steps of the server for a
  connection: accepting it, every step of its session's task, its idle timeout.
  The tokio runtime polls every task that is ready as long as a worker thread
  is free, which is a guard of the steps (`WorkerFree`), and its timers fire.
  Clients are not fair: they may never send, never read and never hang up.
  `Accept` needs a permit, and no property asks that a client get one.  The
  properties except what the code leaves without a bound: a client that stops
  reading keeps its session in `write_all` (`Unread`), and when sessions that
  spin hold every worker thread nothing goes on (`Stalled`).
* `Statements`: weak fairness of `Execution(t)`, the steps of a thread inside a
  statement.  Such a thread never awaits, and the operating system runs it; the
  holder of a lock releases it and the waiting are woken.  No fairness of the
  queries themselves: the client may be silent.  A lock under an endless stream
  of readers or writers need not be granted by weak fairness, so
  `StatementsEnd` speaks of runs in which from some moment on no further
  statement is begun: the begun ones then end, whatever locks they want.
* `Persistence`: `FairSpec` has weak fairness of `ShutdownStep`, the steps of
  the shutdown task once it has started.  A write ends, with or without an
  error.  Neither the checkpoint nor clients are fair.
* `TableStore`, `Sessions`, `Select`, `HostRules`: safety only.

## Proofs

All in first-order logic with SMT and Zenon, temporal steps with PTL.  Constants
have the named assumptions of their modules and nothing else; no theorem
depends on the bounds of a run.  What a theorem assumes beyond that is a
premise of its statement and is given here.

### One table

* **`TypeCorrect`**: `Spec => []TypeOK` for every schema and every workload.
  The lemmas say what `Without`, `SwapRemove`, the listings of the rows that
  are kept and `Rebuilt` yield.
* **`IndexSoundness`**: `IndexSound`, unless keys are assigned (`update_key`).
  With `TypeOK` it is inductive; the interesting case is `DeleteByKey`, where
  the entry of the last row is moved into the hole after the removed key is
  gone, and the two rows may have the same key.  `IndexSound` does not need
  keys to be unique, which is why it survives duplicate inserts.
* **`IndexCompleteness`**: `IndexComplete` for workloads outside `Unreachable`
  (a key inserted again or assigned, CREATE TABLE AS).  It says that keys are
  unique, too, and needs `IndexSound` at every step that removes a row.
* **`StoresFollowRows`**: `StoresMirrorRows` for workloads outside `Unmirrored`
  (values of another type, updates by scan, CREATE TABLE AS).  Removal by
  position, by `swap_remove` and by rebuilding are shown to do to a store what
  they do to the rows.
* **`ScansStayInside`**: `StoresNeverLonger` under every workload, the ones
  that break the previous two included: a stale store is never longer than the
  table.
* **`GeneratedKeysAreFresh`**: `AutoKeyFresh` for workloads outside `Uncounted`.
* **`PathIsInvisible`**: `ReadPathsAgree` from the three invariants, under the
  premises of them all.
* **`TableIsADictionary`** (`TableRefinementProofs`): `Spec =>
  ImplementsKeyedTable` for workloads outside `Unfaithful`.  The inductive
  `RefinementInv` is `TypeOK`, `IndexSound` and `IndexComplete`; with unique
  keys each statement is one step of the dictionary, or none if no row is
  concerned.

The excluded kinds are as few as they can be: TLC finds `IndexComplete`,
`StoresMirrorRows` and `AutoKeyFresh` violated with any one of theirs added.

### Statements

* **`TypeCorrect`**: a thread holds exactly the locks that its place in a
  statement calls for.
* **`LiveWork`**: `WorkOnLive`.  `LiveInv` adds that the write lock of the map
  excludes every other holder: whoever has found a database keeps the map's
  read lock until it is done with it, so DROP has to wait.
* **`NoWaitCycle`**: `NobodyStuck`, for any number of threads and any
  statements, from `TypeOK` alone: who waits for the map holds nothing, who
  waits for a database holds the map, who works on a database waits for nothing.
* **`NoChangeUncounted`**: `ChangesCounted`.  `CountInv` follows what a
  statement has changed to its last part, the only one that may change
  anything and still fail to be counted only if the statement fails.
* **`ParseCacheIsBounded`**: `ParseCacheBounded`, assuming that there are
  finitely many threads.  The limit is read before the entry is stored, without
  a lock over both; the parse-cache invariant bounds entries and threads about
  to store together.

### SELECT

The passes are about sequences of any length, so these proofs need induction
over data.  The library's induction theorems take an operator and cannot be
instantiated; `SelectProofs!SetInduction` takes the SET of the numbers for
which something holds instead, which is enough for every induction here.  On it
rest `RankFacts` and `TurnFacts`: counting what is ahead of each element of a
finite set numbers the elements, if "ahead" is a linear order (`Linear`).
`Kept`, `SortedBy`, `InOrder`, `Joined` and `Groups` are instances of that.

* **`TypeCorrect`**: a result has the columns that were asked for.  `Frame` says
  which queries are at which stage and that the keys still to be sorted by are
  columns that the rows have; `RowsFit` what the rows are at each stage.
* **`UnionIsComplete`**: `UnionKeepsRows`.  A row that is dropped equals the one
  before it, so the first of each run of equal rows stays.
* **`JoinsAreComplete`**: `JoinCounts`.  The pairs of the nested loops are
  counted by row of the left side; sorting permutes them.
* **`PagesAreConsistent`** and **`DistinctKeepsThePage`**: `PagesOfOneOrder` and
  `DistinctPage`.  `SortInv` says that while keys are left over, the rows are
  sorted by the keys after them, lexicographically, ties in the order of the
  table (`SortedSoFar`, with a permutation as witness); `StablePass` is the
  step: a stable pass by one more key in front.  It covers the second sort of a
  join over the projected rows, where the keys used are a prefix of all keys
  unless one is overtaken (`InResultPrefix`, `SortedAgain`).  `SortedByAll` then
  gives the arrangement that the lexicographic comparison defines, and `PageInv`
  takes it through projection, OFFSET, LIMIT and DISTINCT.  A row found by its
  key is a page by itself (`OneRowIsAPage`), unless OFFSET or LIMIT leave it out.
* **`GroupsAreComplete`**: `GroupsAddUp`.  `GroupInv` says that the rows list the
  groups of the rows the query starts from, those with more rows than HAVING
  asks for, each once and in any order (`ListsGroups`, with the list of their
  values as witness).  `KeptSum` and `PartsAddUp` are the arithmetic: the sum of
  a part of a sequence is the sum of all of it with the rest masked by zeros,
  and masked sums of disjoint parts add up; counts are sums of ones.  `Total`
  and `SumOf`, the two recursive functions of the model, are tied to the same
  `Sum` by `SumByRecursion`.

### Sessions

* **`TypeCorrect`**: a session has a statement in hand exactly in the three
  steps of executing it, and no cache entry is from a future generation; the
  latter needs `write_gen` never to decrease.
* **`CacheSoundness`** and **`OwnWritesRead`**: `EntriesCurrent` and
  `OwnRowsNotMissed`, whatever clients send and users may use.  Both say nothing
  while a session is between its write and its `Bump`.  The inductive `CacheInv`
  therefore speaks of every entry and every answer in flight at every step: an
  entry of the current generation is right for its session's database as far as
  its `standing` promises, or some session has changed the tables and has yet
  to count that.
* **`RowsAreAccounted`**: `RowsAccounted`, assuming `~RepeatWrites`.
  `AccountsInv` has a part for each step at which a transaction may be: while
  its snapshot is copied, while it is open, and while ROLLBACK writes back one
  database after the other.
* **`AcksAreKept`**: `AcksKept`, assuming `~RepeatWrites`, a consequence of the
  former.  There are two ways to lose an acknowledged row: a write sent twice in
  a row, which the assumption excludes and `MCSessions_repeated_write` shows, and
  the ROLLBACK of a transaction that other sessions' statements overlapped, from
  which on `AcksKept` makes no claim (`mixed`).  Without either, none is lost.

### Persistence, connections, host rules

* **`PersistenceProofs!TypeCorrect`**, **`CheckpointsAreAtomic`**,
  **`FinalDumpKept`**: `TypeOK`, `CheckpointAtomic` and `FinalDump`, for any
  databases and rows.  `PersistenceInv` says what each task has of a dump at
  each of its steps, that the temporary file is whole whenever the checkpoint
  can rename it, and that the dump of the shutdown agrees with memory at each of
  its steps, unless something ran past the signal.
* **`ConnectionsProofs!TypeCorrect`**; **`OthersDoNotSpin`**: `OnlyPiecesSpin`,
  for any conduct of the clients; `WholeInv` says what of a whole handshake is
  in the socket and in the buffer at each phase, whether the hello was read by
  the acceptor or dropped; **`PermitBound`**: sessions never outnumber the
  permits, for any set of clients, finite or not.
* **`HostRulesProofs!TypeCorrect`**: with the rules of a process counted.
* **`PortsAreClosed`**: `PortsClosed`.  `PortInv` relates the rules in the
  filter to what was left when the process started plus what it has opened and
  has not failed to delete.
* **`OwnerIsProtected`**: `OwnerProtected`, for any number of processes.
  `LockInv` ties ownership to the lock file as long as nothing is `disputed`: an
  owner's process id is in it, whoever sets up has found it without a live
  process, one process sets up at a time; and only owners tear down.  `GuardInv`
  adds that the rules of the one who owns are in place.

### Model-checked only

Every invariant and action property of the runs that expect none to be violated
is a theorem.  What remains is liveness: `StatementsEnd`, `SignalEndsProcess`,
`WholeHandshakesAnswered`, `CommandsAnswered`, `SilentSessionsEnd` and
`HungUpSessionsEnd`.  The prover handles neither ENABLED nor fairness.

## Where the code and its documentation disagree

Shown by a run:

1. `MCTable_update_key`: UPDATE of the PRIMARY KEY assigns the row and leaves
   `pk_index` at the old key, against the comment at `engine.rs:131`.
2. `MCSessions_repeated_write`: the OK of an INSERT is cached like an answer to
   a SELECT; the same INSERT sent again is answered from the cache and not
   executed (`server.rs:380`; the README speaks of repeat reads).
3. `MCPersistence_restart`: the dump quotes names in backticks;
   `create_database` keeps them, `insert` does not strip them, so tables come
   back empty or not at all (`engine.rs:1076`, CHANGELOG line 71).
4. `MCConnections_split`: with a piece of a packet in the buffer, the handshake
   loop neither reads nor yields (`server.rs:222`, comment at 292).  The server
   makes such pieces itself: after a TLS upgrade it reads into
   `BytesMut::new()` (193), at most 64 bytes, less than a handshake response
   with a password and a plugin name.

Further ones, to be reproduced by adding a kind to `Workload` (or a property to
a configuration):

| set | property | what happens |
|---|---|---|
| `MCTable_plain`, `update_scan` | `StoresMirrorRows` | an UPDATE by scan leaves the column stores behind; SIMD scans answer from the old values |
| `MCTable_plain`, `prepared_scan` | `StoresMirrorRows` | the same; besides, SET stores the text `?`, and WHERE compares with the first parameter, which belongs to SET |
| `MCTable_plain`, `untyped_value`, `ReadPathsAgree` without `Typed` | `ReadPathsAgree` | a NULL is 0 to a SIMD scan |
| `MCTable_plain`, `create_as` | `IndexComplete` | the rows of CREATE TABLE AS are in no index |
| `MCTable_plain`, `duplicate_key` | `IndexComplete` | INSERT accepts an existing key |
| `MCTable_plain`, `prepared_key` | `AutoKeyFresh` | a prepared INSERT does not advance the counter |
| `MCSessions_cache`, `EntriesCurrent` without `standing` | `EntriesCurrent` | the generation of an entry is read after the answer was computed; prepared writes and those that fail half-way are not counted; a refused USE has already moved the session |
| `MCSelect_results`, `PagesOfOneOrder` without `KeyOvertaken` | `PagesOfOneOrder` | a join is sorted before the projection (the comment at `engine.rs:1641` gives the reason) and again after it, by the projected keys only: ORDER BY a, b that selects b comes back sorted by b |
| `MCSelect_results`, `PagesOfOneOrder` without `AllComparable` | `PagesOfOneOrder` | integers and texts in one column have no order; `sort_by` may panic, which ends the connection |
| `MCSelect_results`, `PagesOfOneOrder` or `DistinctPage` without `PageIgnored` | the same | a row found by its PRIMARY KEY is returned before OFFSET and LIMIT are looked at: `WHERE id = 1 LIMIT 0` has a row (`engine.rs:2419`) |
| `MCSelect_results`, `PagesOfOneOrder` with groupings and unions | `PagesOfOneOrder` | ORDER BY and LIMIT are passed over by GROUP BY without a join and by UNION |
| `MCSelect_results`, `DistinctPage` without `~Plain(query)` | `DistinctPage` | DISTINCT is passed over without ORDER BY, LIMIT or OFFSET |
| `MCSelect_results`, `UnionKeepsRows` with rows all different | `UnionKeepsRows` | UNION removes a row only if its equal is its neighbour |
| `MCStatements_locks`, `ChangesCounted` for failing statements | `ChangesCounted` | what a statement did before it failed is not counted |
| `MCConnections_served`, property `TlsUpgraded` | `TlsUpgraded` | a TLS hello read together with the SSLRequest is dropped with the buffer (`server.rs:193`; CHANGELOG line 55 has such clients upgraded transparently) |
| `MCConnections_served`, `CommandsAnswered` or `SilentSessionsEnd` without `Unread` | the same | `write_all` has no timeout: a client that stops reading keeps its session and its permit |
| `MCConnections_served`, property `HandshakesEnd` | `HandshakesEnd` | `handshake_timeout_secs` (`config.rs:40`) is not used |
| `MCPersistence_shutdown`, `FinalDump` without `late` | `FinalDump` | statements are acknowledged after their database was dumped |
| `MCHostRules_guard`, property `EchoRateLimited` | `EchoRateLimited` | `iptables -I` puts the DROP rule, added second, before the ACCEPT rule |
| `MCHostRules_guard`, property `OneOwner` | `OneOwner` | the lock is checked first and written last, so that processes that start together all set the guard up, against CHANGELOG line 24 |
| `MCHostRules_guard`, `OwnerProtected` without `~disputed` | `OwnerProtected` | the first of those owners to leave takes rules of the others with it |

ROLLBACK undoes acknowledged statements of other sessions, since it writes
whole databases back (`engine.rs:219`): `RowsAccounted` and `AcksKept` end their
accounts when transactions overlap with other writes (`mixed`).

Seen while reading and not in a model: `exec_grant` calls `unwrap_err` on
the position of ` TO `, which panics whenever the statement has one
(`engine.rs:4001`; CHANGELOG line 35 lists GRANT among what works).
`LAST_INSERT_ID()` is one variable of the engine, set after the locks are given
back (`engine.rs:1396`), against the comment at 167.  The backups of the web UI
that the README describes have no code in `webui.rs`.  `nft add rule` is called
without `-a` and `-e` (`firewall/backend.rs:189`), so that it prints no handle,
and `close` deletes by handle only: ports opened with nftables stay open, against
CHANGELOG line 123.

## Abstractions

* Positions count from 1.  `col_int_data` and `col_str_data` are one
  `col_store`, since a column has exactly one of them.  Integers are those a
  literal can write (no minus sign); texts neither spell numbers nor are empty,
  besides one empty text.
* A multi-row INSERT is consecutive single-row ones under one lock, so it is
  not an action of its own.  Rows shorter or longer than the table, tables
  without a PRIMARY KEY, RENAME COLUMN and keys written in a type other than
  the column's are left out.  REPLACE through an index entry past the end would
  panic; `IndexSound` excludes that.
* `Statements` keeps of a database whether it is there and whether its table
  is; what is in the rows is in `TableStore`.  Statements are chosen among
  `Offered`, their texts are opaque, so two texts never share a hash.
* `Select` has one addend for SUM and MAX, and HAVING asks for a number of rows.
  The paths of MIN, AVG and GROUP_CONCAT differ from these by the function
  applied to a group.  Texts do not spell numbers, and a row of the table stands
  for a row that passes WHERE.  A projection with an expression is the
  projection to the columns of that name, since only the path it takes matters.
  Clients that get an arrangement of rows without an order are not owed any.
* `Select` has UNION only; EXCEPT and INTERSECT, which the code answers like a
  UNION, are left out.
* `Sessions` compares the cached query with the new one, where the code compares
  32-bit hashes of their texts (`server.rs:367`), so a collision is left out.
  `InitDb` drops the cache entry, where the code sets its hash to 0 (327).
* `Sessions` and `Persistence` keep counts of rows, not rows; `Sessions` has one
  table per database, one statement per query, and no CREATE or DROP DATABASE
  inside transactions.
* `Persistence` has no failing rename: the code ignores it (`main.rs:97`), and
  the dump that was written stays in the temporary file.  It does
  not look inside the text of a dump, but for the quoting of names.  A torn dump
  restores any subset of its databases.
* `Connections` does not look inside packets; whether a handshake response is
  admitted, denied or too short (`BreakOff`) is a choice.  The greeting always
  fits into the socket, and an answer takes one place in it, whatever its length.
  A read that fails, for a reset connection, is the end of the stream.
* `HostRules`: rules for IPv6, added and deleted after the others with every
  failure ignored, change nothing else and are left out; so are the dry-run
  mode and a backend named in the configuration.  Processes listen on ports of
  their own, and process ids are not used again.  What `nft` prints is not the
  code's to decide, so a rule may come with or without a handle.  The teardown
  for nftables deletes all rules of the guard or none, where the code deletes
  them one by one and goes on after a failure.  A listener that fails to bind
  after the signal came is left out.

## Plan

Later work, in order of what it would show:

1. `Accounts` and `WebSessions`: CREATE USER, REVOKE, DROP USER and what
   sessions see of them through the L0 cache; login, expiry, purge and logout
   against concurrent requests.
2. `WireCodec`, `SimdScan`: pure algorithms against reference definitions over
   bounded inputs.
3. The text of the dump: statements that end in the middle of a value, counters
   and users that are not in it.
4. A composition of `Connections` and `Sessions`, and of `Sessions` and
   `Persistence`, over one engine.

Theorems planned: that the premises about workloads are needed is shown by TLC
only; the index, the stores and the counter could be shown to recover when the
table is truncated.  Then the invariants of the modules above.
