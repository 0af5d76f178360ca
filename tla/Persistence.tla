---------------------------- MODULE Persistence ----------------------------
(***************************************************************************)
(* How the databases reach the disk and come back: the periodic checkpoint *)
(* and the shutdown of src/src/main.rs, Engine::dump_sql, and the loading  *)
(* of the dump by Engine::new and Engine::restore_sql.                     *)
(*                                                                         *)
(* A database is known by the name it was stored under: CREATE DATABASE    *)
(* keeps the backticks of a quoted name, connecting and USE strip them.    *)
(* Each database holds at most one table, kept as its number of rows.      *)
(***************************************************************************)
EXTENDS Integers

CONSTANTS
    UserDbs,     \* names of databases clients create
    Test,        \* the built-in database that clients write to
    NoTable, NoFile,
    MaxRows      \* bound on the rows of a table

ASSUME NameAssumption == Test \notin UserDbs

ASSUME BoundAssumption == MaxRows \in Nat

VARIABLES
    up,         \* the process runs
    content,    \* database name -> rows of its table
    file,       \* data_dir/runalexdb.sql
    tmp,        \* data_dir/runalexdb.sql.tmp
    task,       \* what the checkpoint task and the shutdown task are doing
    dump,       \* the dump each of the two has in hand
    late        \* history: something ran past the signal, or could not write

files == <<file, tmp>>
vars == <<up, content, file, tmp, task, dump, late>>

Tasks == {"checkpoint", "shutdown"}

Plain(b) == [base |-> b, quoted |-> FALSE]
Quoted(b) == [base |-> b, quoted |-> TRUE]

Names == [base : UserDbs \cup {Test}, quoted : BOOLEAN]

TableState == 0 .. MaxRows \cup {NoTable}

(* The built-in databases are not dumped. *)
Dumped == Names \ {Plain(Test)}

UserPart(c) == [n \in DOMAIN c \cap Dumped |-> c[n]]

Whole(d) == [dbs |-> d, whole |-> TRUE]
Torn(d) == [dbs |-> d, whole |-> FALSE]

NothingDumped == [n \in {} |-> NoTable]

IsPart(c) ==
    /\ DOMAIN c \subseteq Dumped
    /\ \A n \in DOMAIN c : c[n] \in TableState

IsFile(f) == f # NoFile => f.whole \in BOOLEAN /\ IsPart(f.dbs)

TypeOK ==
    /\ up \in BOOLEAN
    /\ Plain(Test) \in DOMAIN content
    /\ DOMAIN content \subseteq Names
    /\ \A n \in DOMAIN content : content[n] \in TableState
    /\ IsFile(file) /\ IsFile(tmp)
    /\ task \in [Tasks -> {"waiting", "dumping", "writing", "written", "over"}]
    /\ \A t \in Tasks : IsPart(dump[t])
    /\ late \in BOOLEAN

-----------------------------------------------------------------------------
Signalled == task["shutdown"] # "waiting"

Stored(n, state) ==
    content' = [m \in DOMAIN content \cup {n} |->
                   IF m = n THEN state ELSE content[m]]

(* Statements of clients, also past the signal. *)
OnlyContent ==
    /\ up
    /\ late' = (late \/ Signalled)
    /\ UNCHANGED <<up, files, task, dump>>

(* The map of databases is not held by a dump. *)
MapFree == \A t \in Tasks : task[t] # "dumping"

(* CREATE DATABASE b or `b`, and a handshake that names b. *)
CreateDatabase(n) ==
    /\ MapFree
    /\ n \notin DOMAIN content
    /\ Stored(n, NoTable)
    /\ OnlyContent

CreateTable(b) ==
    /\ Plain(b) \in DOMAIN content
    /\ Stored(Plain(b), 0)
    /\ OnlyContent

Insert(b) ==
    /\ Plain(b) \in DOMAIN content
    /\ content[Plain(b)] \in 0 .. (MaxRows - 1)
    /\ Stored(Plain(b), content[Plain(b)] + 1)
    /\ OnlyContent

(* DROP DATABASE strips the backticks. *)
DropDatabase(b) ==
    /\ MapFree
    /\ Plain(b) \in DOMAIN content
    /\ content' = [m \in DOMAIN content \ {Plain(b)} |-> content[m]]
    /\ OnlyContent

-----------------------------------------------------------------------------
(* dump_sql, by either task: one database after the other, each under its  *)
(* own lock, while the map of databases is held for reading.               *)

MoveTo(t, state) == task' = [task EXCEPT ![t] = state]

StartDump(t) ==
    /\ up
    /\ task[t] = "waiting"
    /\ MoveTo(t, "dumping")
    /\ dump' = [dump EXCEPT ![t] = NothingDumped]
    /\ late' = (late \/ (IF t = "checkpoint" THEN Signalled
                         ELSE task["checkpoint"] # "waiting"))
    /\ UNCHANGED <<up, content, files>>

DumpDatabase(t, n) ==
    /\ up
    /\ task[t] = "dumping"
    /\ n \in DOMAIN UserPart(content) \ DOMAIN dump[t]
    /\ dump' = [dump EXCEPT ![t] =
                  [m \in DOMAIN dump[t] \cup {n} |->
                      IF m = n THEN content[n] ELSE dump[t][m]]]
    /\ UNCHANGED <<up, content, files, task, late>>

(* Mutant: the checkpoint, too, writes the dump itself. *)
StartWriteInPlace(t) ==
    /\ up
    /\ task[t] = "dumping"
    /\ DOMAIN UserPart(content) \subseteq DOMAIN dump[t]
    /\ MoveTo(t, "writing")
    /\ file' = Torn(dump[t])
    /\ UNCHANGED <<up, content, tmp, dump, late>>

(* std::fs::write truncates its file first: the checkpoint's is the        *)
(* temporary one, the shutdown's is the dump itself.                       *)
StartWrite(t) ==
    /\ up
    /\ task[t] = "dumping"
    /\ DOMAIN UserPart(content) \subseteq DOMAIN dump[t]
    /\ MoveTo(t, "writing")
    /\ IF t = "checkpoint"
       THEN tmp' = Torn(dump[t]) /\ UNCHANGED file
       ELSE file' = Torn(dump[t]) /\ UNCHANGED tmp
    /\ UNCHANGED <<up, content, dump, late>>

FinishWrite(t) ==
    /\ up
    /\ task[t] = "writing"
    /\ MoveTo(t, "written")
    /\ IF t = "checkpoint"
       THEN tmp' = Whole(dump[t]) /\ UNCHANGED file
       ELSE file' = Whole(dump[t]) /\ UNCHANGED tmp
    /\ UNCHANGED <<up, content, dump, late>>

(* Mutant: the final dump is tried again until it succeeds. *)
FailWriteRetried(t) ==
    /\ up
    /\ task[t] = "writing"
    /\ MoveTo(t, IF t = "checkpoint" THEN "waiting" ELSE "dumping")
    /\ UNCHANGED <<up, content, files, dump, late>>

(* A failed checkpoint is not renamed; a failed final dump is ignored.     *)
FailWrite(t) ==
    /\ up
    /\ task[t] = "writing"
    /\ MoveTo(t, IF t = "checkpoint" THEN "waiting" ELSE "written")
    /\ late' = (late \/ t = "shutdown")
    /\ UNCHANGED <<up, content, files, dump>>

Rename ==
    /\ up
    /\ task["checkpoint"] = "written"
    /\ file' = tmp
    /\ tmp' = NoFile
    /\ MoveTo("checkpoint", "waiting")
    /\ UNCHANGED <<up, content, dump, late>>

(* Mutant: the exit does not wait for the end of the write. *)
ExitEarly ==
    /\ up
    /\ task["shutdown"] \in {"writing", "written"}
    /\ up' = FALSE
    /\ MoveTo("shutdown", "over")
    /\ UNCHANGED <<content, files, dump, late>>

(* std::process::exit: every other task stops where it is. *)
Exit ==
    /\ up
    /\ task["shutdown"] = "written"
    /\ up' = FALSE
    /\ MoveTo("shutdown", "over")
    /\ UNCHANGED <<content, files, dump, late>>

Crash ==
    /\ up
    /\ up' = FALSE
    /\ MoveTo("shutdown", "waiting")
    /\ late' = FALSE
    /\ UNCHANGED <<content, files, dump>>

-----------------------------------------------------------------------------
(* restore_sql.  The dump names every database and table in backticks.     *)

(* CREATE DATABASE `b` keeps them; a name that already has backticks is    *)
(* not parsed.                                                             *)
Created(D) == {Quoted(n.base) : n \in {m \in D : ~m.quoted}}

(* Mutant: the built-in databases are made only when there is no dump. *)
RestoredBare(D, dbs) == [n \in Created(D) |-> NoTable]

(* CREATE TABLE finds the database that USE named without backticks, if    *)
(* there is one, and INSERT INTO `t` does not find the table t: a table    *)
(* comes back empty, or not at all.                                        *)
Restored(D, dbs) ==
    [n \in Created(D) \cup {Plain(Test)} |->
        IF \E m \in D : Plain(m.base) = n /\ dbs[m] # NoTable THEN 0
        ELSE NoTable]

(* Engine::new: of a torn dump only the statements that are complete run.  *)
Start ==
    /\ ~up
    /\ up' = TRUE
    /\ task' = [t \in Tasks |-> "waiting"]
    /\ dump' = [t \in Tasks |-> NothingDumped]
    /\ IF file = NoFile
       THEN content' = Restored({}, NothingDumped)
       ELSE \E D \in SUBSET DOMAIN file.dbs :
               /\ file.whole => D = DOMAIN file.dbs
               /\ content' = Restored(D, file.dbs)
    /\ late' = FALSE
    /\ UNCHANGED files

-----------------------------------------------------------------------------
Init ==
    /\ up = TRUE
    /\ content = Restored({}, NothingDumped)
    /\ file = NoFile
    /\ tmp = NoFile
    /\ task = [t \in Tasks |-> "waiting"]
    /\ dump = [t \in Tasks |-> NothingDumped]
    /\ late = FALSE

ShutdownStep ==
    \/ StartWrite("shutdown")
    \/ FinishWrite("shutdown")
    \/ FailWrite("shutdown")
    \/ \E n \in Dumped : DumpDatabase("shutdown", n)
    \/ Exit

Next ==
    \/ \E b \in UserDbs : CreateDatabase(Plain(b)) \/ CreateDatabase(Quoted(b))
    \/ \E b \in UserDbs \cup {Test} : CreateTable(b) \/ Insert(b)
    \/ \E b \in UserDbs : DropDatabase(b)
    \/ \E t \in Tasks : StartDump(t)
    \/ \E n \in Dumped : DumpDatabase("checkpoint", n)
    \/ StartWrite("checkpoint")
    \/ FinishWrite("checkpoint")
    \/ FailWrite("checkpoint")
    \/ Rename
    \/ ShutdownStep
    \/ Crash
    \/ Start

Spec == Init /\ [][Next]_vars

(* The runtime keeps running the shutdown task once the signal has come.   *)
FairSpec == Spec /\ WF_vars(ShutdownStep)

-----------------------------------------------------------------------------
(* Properties. *)

(* The dump in place is whole but for what the shutdown's own write does   *)
(* to it: a checkpoint that fails, is cut short by a crash or was cut      *)
(* short in an earlier life of the process never replaces it by a torn one.*)
CheckpointAtomic ==
    [][file' # file =>
          task'["shutdown"] # task["shutdown"] \/ file'.whole]_vars

(* A clean exit leaves on the disk every row that was acknowledged in a    *)
(* database clients created, unless a statement or a checkpoint ran past   *)
(* the signal, or the final dump could not be written.                     *)
FinalDump ==
    ~up /\ task["shutdown"] = "over" /\ ~late => file = Whole(UserPart(content))

(* A server that was shut down cleanly comes back with the tables it had,  *)
(* and their rows.                                                         *)
RestartKeepsData ==
    [][~up /\ up' /\ task["shutdown"] = "over" /\ ~late =>
          \A n \in DOMAIN UserPart(content) :
              content[n] # NoTable =>
                  n \in DOMAIN content' /\ content'[n] = content[n]]_vars

(* The termination signal ends the process, also when the disk is full.    *)
SignalEndsProcess == Signalled ~> ~up
=============================================================================
