------------------------- MODULE PersistenceProofs -------------------------
(***************************************************************************)
(* Proofs about Persistence, for every number of databases and of rows:    *)
(* type correctness, that a checkpoint never leaves a torn dump in place,  *)
(* and that the final dump holds what the clients' databases held.         *)
(***************************************************************************)
EXTENDS Persistence, TLAPS

Dumping == {"dumping", "writing", "written"}

-----------------------------------------------------------------------------
(* Type correctness.  That the dumps are functions is what an assignment   *)
(* to one of them needs.                                                   *)

DumpsAreFunctions ==
    /\ dump = [t \in Tasks |-> dump[t]]
    /\ \A t \in Tasks : dump[t] = [n \in DOMAIN dump[t] |-> dump[t][n]]

Typed == TypeOK /\ DumpsAreFunctions

-----------------------------------------------------------------------------
(* The operators of the model. *)

LEMMA NothingIsAPart ==
    IsPart(NothingDumped) /\ NothingDumped = [n \in DOMAIN NothingDumped |-> NothingDumped[n]]
BY DEF IsPart, NothingDumped

LEMMA PlainQuotedNames ==
    \A b \in UserDbs \cup {Test} : Plain(b) \in Names /\ Quoted(b) \in Names
BY DEF Plain, Quoted, Names

(* What is restored from some of the databases of a dump. *)
LEMMA RestoredTyped ==
    ASSUME NEW D, D \subseteq Dumped, NEW dbs
    PROVE  /\ Plain(Test) \in DOMAIN Restored(D, dbs)
           /\ DOMAIN Restored(D, dbs) \subseteq Names
           /\ \A n \in DOMAIN Restored(D, dbs) : Restored(D, dbs)[n] \in TableState
<1>1. Created(D) \subseteq Names
  BY PlainQuotedNames DEF Created, Dumped, Names
<1>2. Plain(Test) \in Names
  BY PlainQuotedNames
<1>3. DOMAIN Restored(D, dbs) = Created(D) \cup {Plain(Test)}
  BY DEF Restored
<1>4. 0 \in TableState /\ NoTable \in TableState
  BY BoundAssumption DEF TableState
<1>5. \A n \in Created(D) \cup {Plain(Test)} : Restored(D, dbs)[n] \in {0, NoTable}
  BY DEF Restored
<1>. QED  BY <1>1, <1>2, <1>3, <1>4, <1>5

ContentOK(c) ==
    /\ Plain(Test) \in DOMAIN c
    /\ DOMAIN c \subseteq Names
    /\ \A n \in DOMAIN c : c[n] \in TableState

(* What a file holds while and after it is written. *)
LEMMA WrittenFile ==
    ASSUME NEW d, IsPart(d)
    PROVE  IsFile(Torn(d)) /\ IsFile(Whole(d))
BY DEF IsFile, Torn, Whole

LEMMA StoredTyped ==
    ASSUME TypeOK, NEW n \in Names, NEW state \in TableState, Stored(n, state)
    PROVE  ContentOK(content')
<1>1. DOMAIN content' = DOMAIN content \cup {n}
  BY DEF Stored
<1>2. \A m \in DOMAIN content \cup {n} :
          content'[m] = IF m = n THEN state ELSE content[m]
  BY DEF Stored
<1>. QED  BY <1>1, <1>2 DEF TypeOK, ContentOK

(* Statements of clients. *)
ContentStep ==
    \/ \E b \in UserDbs : CreateDatabase(Plain(b)) \/ CreateDatabase(Quoted(b))
    \/ \E b \in UserDbs \cup {Test} : CreateTable(b) \/ Insert(b)
    \/ \E b \in UserDbs : DropDatabase(b)

LEMMA ContentStepFacts ==
    ASSUME TypeOK, ContentStep
    PROVE  OnlyContent /\ ContentOK(content')
<1>1. ASSUME NEW n \in Names, CreateDatabase(n)
      PROVE  OnlyContent /\ ContentOK(content')
  <2>1. NoTable \in TableState
    BY DEF TableState
  <2>. QED  BY <1>1, <2>1, StoredTyped DEF CreateDatabase
<1>2. ASSUME NEW b \in UserDbs \cup {Test}, CreateTable(b)
      PROVE  OnlyContent /\ ContentOK(content')
  <2>1. 0 \in TableState
    BY BoundAssumption DEF TableState
  <2>. QED  BY <1>2, <2>1, StoredTyped, PlainQuotedNames DEF CreateTable
<1>3. ASSUME NEW b \in UserDbs \cup {Test}, Insert(b)
      PROVE  OnlyContent /\ ContentOK(content')
  <2>1. content[Plain(b)] \in 0 .. (MaxRows - 1)
    BY <1>3 DEF Insert
  <2>2. content[Plain(b)] + 1 \in TableState
    BY <2>1, BoundAssumption DEF TableState
  <2>. QED  BY <1>3, <2>2, StoredTyped, PlainQuotedNames DEF Insert
<1>4. ASSUME NEW b \in UserDbs, DropDatabase(b)
      PROVE  OnlyContent /\ ContentOK(content')
  <2>1. Plain(Test) # Plain(b)
    BY NameAssumption DEF Plain
  <2>2. DOMAIN content' = DOMAIN content \ {Plain(b)}
    BY <1>4 DEF DropDatabase
  <2>3. \A m \in DOMAIN content \ {Plain(b)} : content'[m] = content[m]
    BY <1>4 DEF DropDatabase
  <2>. QED  BY <1>4, <2>1, <2>2, <2>3 DEF DropDatabase, TypeOK, ContentOK
<1>. QED  BY <1>1, <1>2, <1>3, <1>4, PlainQuotedNames DEF ContentStep

(* Giving a task another dump. *)
LEMMA DumpChanged ==
    ASSUME Typed, NEW t \in Tasks, NEW d, IsPart(d), d = [n \in DOMAIN d |-> d[n]],
           dump' = [dump EXCEPT ![t] = d]
    PROVE  /\ \A u \in Tasks : dump'[u] = IF u = t THEN d ELSE dump[u]
           /\ \A u \in Tasks : IsPart(dump'[u])
           /\ DumpsAreFunctions'
<1>1. DOMAIN dump = Tasks
  BY DEF Typed, DumpsAreFunctions
<1>2. dump' = [u \in Tasks |-> IF u = t THEN d ELSE dump[u]]
  BY <1>1
<1>3. \A u \in Tasks : dump'[u] = IF u = t THEN d ELSE dump[u]
  BY <1>2
<1>4. dump' = [u \in Tasks |-> dump'[u]]
  BY <1>2
<1>. QED  BY <1>3, <1>4 DEF Typed, TypeOK, DumpsAreFunctions

(* Moving a task on. *)
LEMMA TaskMoved ==
    ASSUME TypeOK, NEW t \in Tasks,
           NEW state \in {"waiting", "dumping", "writing", "written", "over"},
           MoveTo(t, state)
    PROVE  /\ task' \in [Tasks -> {"waiting", "dumping", "writing", "written", "over"}]
           /\ \A u \in Tasks : task'[u] = IF u = t THEN state ELSE task[u]
BY DEF TypeOK, MoveTo

LEMMA InitTyped == Init => Typed
<1>. SUFFICES ASSUME Init PROVE Typed
  OBVIOUS
<1>1. ContentOK(content)
  BY RestoredTyped DEF Init, ContentOK
<1>2. DumpsAreFunctions
  BY NothingIsAPart DEF Init, DumpsAreFunctions
<1>. QED  BY <1>1, <1>2, NothingIsAPart DEF Init, Typed, TypeOK, ContentOK, IsFile

LEMMA StartDumpTyped ==
    ASSUME Typed, NEW t \in Tasks, StartDump(t)
    PROVE  Typed'
<1>1. /\ \A u \in Tasks : IsPart(dump'[u])
      /\ DumpsAreFunctions'
  BY DumpChanged, NothingIsAPart DEF StartDump
<1>2. task' \in [Tasks -> {"waiting", "dumping", "writing", "written", "over"}]
  BY TaskMoved DEF StartDump, Typed
<1>3. late' \in BOOLEAN
  BY DEF StartDump, Typed, TypeOK, Signalled
<1>. QED  BY <1>1, <1>2, <1>3 DEF StartDump, Typed, TypeOK, files

(* The dump of one more database. *)
WithOneMore(t, n) ==
    [m \in DOMAIN dump[t] \cup {n} |-> IF m = n THEN content[n] ELSE dump[t][m]]

LEMMA DumpDatabaseTyped ==
    ASSUME Typed, NEW t \in Tasks, NEW n, DumpDatabase(t, n)
    PROVE  /\ \A u \in Tasks : dump'[u] = IF u = t THEN WithOneMore(t, n) ELSE dump[u]
           /\ Typed'
<1>1. n \in DOMAIN content /\ n \in Dumped
  BY DEF DumpDatabase, UserPart
<1>2. IsPart(dump[t]) /\ content[n] \in TableState
  BY <1>1 DEF Typed, TypeOK
<1>3. DOMAIN WithOneMore(t, n) = DOMAIN dump[t] \cup {n}
  BY DEF WithOneMore
<1>4. \A m \in DOMAIN dump[t] \cup {n} :
          WithOneMore(t, n)[m] = IF m = n THEN content[n] ELSE dump[t][m]
  BY DEF WithOneMore
<1>5. IsPart(WithOneMore(t, n))
  BY <1>1, <1>2, <1>3, <1>4 DEF IsPart
<1>6. WithOneMore(t, n) = [m \in DOMAIN WithOneMore(t, n) |-> WithOneMore(t, n)[m]]
  BY DEF WithOneMore
<1>7. dump' = [dump EXCEPT ![t] = WithOneMore(t, n)]
  BY DEF DumpDatabase, WithOneMore
<1>8. /\ \A u \in Tasks : dump'[u] = IF u = t THEN WithOneMore(t, n) ELSE dump[u]
      /\ \A u \in Tasks : IsPart(dump'[u])
      /\ DumpsAreFunctions'
  BY <1>5, <1>6, <1>7, DumpChanged
<1>. QED  BY <1>8 DEF DumpDatabase, Typed, TypeOK, files

LEMMA WriteTyped ==
    ASSUME Typed, NEW t \in Tasks, StartWrite(t) \/ FinishWrite(t) \/ FailWrite(t)
    PROVE  Typed'
<1>1. IsFile(Torn(dump[t])) /\ IsFile(Whole(dump[t]))
  BY WrittenFile DEF Typed, TypeOK
<1>2. task' \in [Tasks -> {"waiting", "dumping", "writing", "written", "over"}]
  BY TaskMoved DEF StartWrite, FinishWrite, FailWrite, Typed
<1>3. UNCHANGED <<up, content, dump>>
  BY DEF StartWrite, FinishWrite, FailWrite
<1>4. IsFile(file') /\ IsFile(tmp')
  BY <1>1 DEF StartWrite, FinishWrite, FailWrite, files, Typed, TypeOK
<1>5. late' \in BOOLEAN
  BY DEF StartWrite, FinishWrite, FailWrite, Typed, TypeOK
<1>. QED  BY <1>2, <1>3, <1>4, <1>5 DEF Typed, TypeOK, DumpsAreFunctions

LEMMA EndTyped ==
    ASSUME Typed, Rename \/ Exit \/ Crash
    PROVE  Typed'
<1>1. task' \in [Tasks -> {"waiting", "dumping", "writing", "written", "over"}]
  BY TaskMoved DEF Rename, Exit, Crash, Typed, Tasks
<1>2. IsFile(NoFile)
  BY DEF IsFile
<1>. QED  BY <1>1, <1>2 DEF Rename, Exit, Crash, Typed, TypeOK, DumpsAreFunctions, files

LEMMA StartTyped ==
    ASSUME Typed, Start
    PROVE  Typed'
<1>1. \A D \in SUBSET Dumped : \A dbs : ContentOK(Restored(D, dbs))
  BY RestoredTyped DEF ContentOK
<1>2. ContentOK(content')
  <2>1. CASE file = NoFile
    BY <1>1, <2>1 DEF Start
  <2>2. CASE file # NoFile
    <3>1. DOMAIN file.dbs \subseteq Dumped
      BY <2>2 DEF Typed, TypeOK, IsFile, IsPart
    <3>. QED  BY <1>1, <2>2, <3>1 DEF Start
  <2>. QED  BY <2>1, <2>2
<1>3. DumpsAreFunctions' /\ \A t \in Tasks : IsPart(dump'[t])
  BY NothingIsAPart DEF Start, DumpsAreFunctions
<1>4. task' \in [Tasks -> {"waiting", "dumping", "writing", "written", "over"}]
  BY DEF Start
<1>. QED  BY <1>2, <1>3, <1>4 DEF Start, Typed, TypeOK, ContentOK, files

LEMMA NextTyped ==
    ASSUME Typed, [Next]_vars
    PROVE  Typed'
<1>1. CASE ContentStep
  <2>1. OnlyContent /\ ContentOK(content')
    BY <1>1, ContentStepFacts DEF Typed
  <2>. QED  BY <2>1 DEF OnlyContent, Signalled, ContentOK, Typed, TypeOK,
                DumpsAreFunctions, files
<1>2. ASSUME NEW t \in Tasks, StartDump(t) PROVE Typed'
  BY <1>2, StartDumpTyped
<1>3. ASSUME NEW t \in Tasks, NEW n \in Dumped, DumpDatabase(t, n) PROVE Typed'
  BY <1>3, DumpDatabaseTyped
<1>4. ASSUME NEW t \in Tasks, StartWrite(t) \/ FinishWrite(t) \/ FailWrite(t)
      PROVE  Typed'
  BY <1>4, WriteTyped
<1>5. CASE Rename \/ Exit \/ Crash
  BY <1>5, EndTyped
<1>6. CASE Start
  BY <1>6, StartTyped
<1>7. CASE UNCHANGED vars
  BY <1>7 DEF vars, files, Typed, TypeOK, DumpsAreFunctions
<1>. QED  BY <1>1, <1>2, <1>3, <1>4, <1>5, <1>6, <1>7
         DEF Next, ShutdownStep, ContentStep, Tasks

(* The variables keep their types, whatever clients, checkpoints, crashes  *)
(* and restarts do: in particular what restore_sql makes of a dump, torn   *)
(* or whole, is again a set of databases that holds the built-in one.      *)
THEOREM TypeCorrect == Spec => []TypeOK
<1>1. Typed => TypeOK
  BY DEF Typed
<1>2. Typed /\ [Next]_vars => Typed'
  BY NextTyped
<1>. QED  BY <1>1, <1>2, InitTyped, PTL DEF Spec

-----------------------------------------------------------------------------
(* What the two tasks rely on. *)

(* The temporary file is complete before it is renamed. *)
CompleteBeforeRename ==
    task["checkpoint"] = "written" => tmp = Whole(dump["checkpoint"])

(* No checkpoint runs beside the final dump. *)
AloneAtTheEnd ==
    up /\ task["shutdown"] \in Dumping => task["checkpoint"] = "waiting"

(* The final dump has no value that is no longer there ... *)
DumpUpToDate ==
    up /\ task["shutdown"] = "dumping" =>
        \A n \in DOMAIN dump["shutdown"] :
            n \in DOMAIN UserPart(content) /\ dump["shutdown"][n] = content[n]

(* ... and is all there is when it is written. *)
DumpComplete ==
    up /\ task["shutdown"] \in {"writing", "written"} =>
        dump["shutdown"] = UserPart(content)

DumpInPlace ==
    up /\ task["shutdown"] = "written" => file = Whole(UserPart(content))

Undisturbed ==
    ~late => AloneAtTheEnd /\ DumpUpToDate /\ DumpComplete /\ DumpInPlace

PersistenceInv == Typed /\ CompleteBeforeRename /\ Undisturbed /\ FinalDump

LEMMA InitPersistenceInv == Init => PersistenceInv
<1>. SUFFICES ASSUME Init PROVE PersistenceInv
  OBVIOUS
<1>1. task["checkpoint"] = "waiting" /\ task["shutdown"] = "waiting"
  BY DEF Init, Tasks
<1>. QED  BY <1>1, InitTyped DEF Init, PersistenceInv, CompleteBeforeRename, Undisturbed,
          AloneAtTheEnd, DumpUpToDate, DumpComplete, DumpInPlace, FinalDump, Dumping

(* Past the signal, a statement marks the run as late. *)
LEMMA ContentStepInv ==
    ASSUME PersistenceInv, ContentStep
    PROVE  CompleteBeforeRename' /\ Undisturbed' /\ FinalDump'
<1>1. OnlyContent
  BY ContentStepFacts DEF PersistenceInv, Typed
<1>. QED  BY <1>1 DEF OnlyContent, files, Signalled, PersistenceInv, CompleteBeforeRename,
          Undisturbed, AloneAtTheEnd, DumpUpToDate, DumpComplete, DumpInPlace, FinalDump,
          Dumping

(* A dump that starts while the other one runs marks it, too. *)
LEMMA StartDumpInv ==
    ASSUME PersistenceInv, NEW t \in Tasks, StartDump(t)
    PROVE  CompleteBeforeRename' /\ Undisturbed' /\ FinalDump'
<1>1. \A u \in Tasks : task'[u] = IF u = t THEN "dumping" ELSE task[u]
  BY TaskMoved DEF StartDump, PersistenceInv, Typed
<1>2. \A u \in Tasks : dump'[u] = IF u = t THEN NothingDumped ELSE dump[u]
  BY DumpChanged, NothingIsAPart DEF StartDump, PersistenceInv
<1>3. DOMAIN NothingDumped = {}
  BY DEF NothingDumped
<1>4. UNCHANGED <<up, content, file, tmp>> /\ up
  BY DEF StartDump, files
<1>5. CASE t = "checkpoint"
  <2>1. late' = (late \/ Signalled)
    BY <1>5 DEF StartDump
  <2>. QED  BY <1>1, <1>2, <1>4, <1>5, <2>1 DEF Tasks, Signalled, PersistenceInv,
            CompleteBeforeRename, Undisturbed, AloneAtTheEnd, DumpUpToDate, DumpComplete,
            DumpInPlace, FinalDump, Dumping
<1>6. CASE t = "shutdown"
  <2>1. late' = (late \/ task["checkpoint"] # "waiting")
    BY <1>6 DEF StartDump
  <2>. QED  BY <1>1, <1>2, <1>3, <1>4, <1>6, <2>1 DEF Tasks, PersistenceInv,
            CompleteBeforeRename, Undisturbed, AloneAtTheEnd, DumpUpToDate, DumpComplete,
            DumpInPlace, FinalDump, Dumping
<1>. QED  BY <1>5, <1>6 DEF Tasks

LEMMA DumpDatabaseInv ==
    ASSUME PersistenceInv, NEW t \in Tasks, NEW n, DumpDatabase(t, n)
    PROVE  CompleteBeforeRename' /\ Undisturbed' /\ FinalDump'
<1>1. \A u \in Tasks : dump'[u] = IF u = t THEN WithOneMore(t, n) ELSE dump[u]
  BY DumpDatabaseTyped DEF PersistenceInv
<1>2. /\ DOMAIN WithOneMore(t, n) = DOMAIN dump[t] \cup {n}
      /\ \A m \in DOMAIN dump[t] \cup {n} :
            WithOneMore(t, n)[m] = IF m = n THEN content[n] ELSE dump[t][m]
  BY DEF WithOneMore
<1>3. /\ UNCHANGED <<up, content, file, tmp, task, late>> /\ up
      /\ task[t] = "dumping" /\ n \in DOMAIN UserPart(content)
  BY DEF DumpDatabase, files
<1>4. UserPart(content)' = UserPart(content)
  BY <1>3 DEF UserPart
<1>5. CompleteBeforeRename' /\ AloneAtTheEnd' = AloneAtTheEnd /\ FinalDump'
  BY <1>1, <1>3, <1>4 DEF Tasks, PersistenceInv, CompleteBeforeRename, AloneAtTheEnd,
     FinalDump, Dumping
<1>6. DumpUpToDate => DumpUpToDate'
  BY <1>1, <1>2, <1>3, <1>4 DEF Tasks, DumpUpToDate
<1>7. (DumpComplete => DumpComplete') /\ (DumpInPlace => DumpInPlace')
  BY <1>1, <1>3, <1>4 DEF Tasks, DumpComplete, DumpInPlace
<1>. QED  BY <1>3, <1>5, <1>6, <1>7 DEF PersistenceInv, Undisturbed

(* The dump that is written has every database, and only what is there. *)
LEMMA WriteInv ==
    ASSUME PersistenceInv, NEW t \in Tasks, StartWrite(t) \/ FinishWrite(t) \/ FailWrite(t)
    PROVE  CompleteBeforeRename' /\ Undisturbed' /\ FinalDump'
<1>1. UNCHANGED <<up, content, dump>> /\ up
  BY DEF StartWrite, FinishWrite, FailWrite
<1>2. UserPart(content)' = UserPart(content)
  BY <1>1 DEF UserPart
<1>. USE DEF PersistenceInv, Typed
<1>3. CASE StartWrite(t)
  <2>1. \A u \in Tasks : task'[u] = IF u = t THEN "writing" ELSE task[u]
    BY <1>3, TaskMoved DEF StartWrite
  <2>2. t = "shutdown" /\ ~late => dump["shutdown"] = UserPart(content)
    <3>1. SUFFICES ASSUME t = "shutdown", ~late
                   PROVE  dump["shutdown"] = UserPart(content)
      OBVIOUS
    <3>2. DumpUpToDate /\ up /\ task["shutdown"] = "dumping"
      BY <1>3, <3>1 DEF StartWrite, Undisturbed
    <3>3. DOMAIN dump["shutdown"] = DOMAIN UserPart(content)
      BY <1>3, <3>1, <3>2 DEF StartWrite, DumpUpToDate
    <3>4. \A n \in DOMAIN UserPart(content) : dump["shutdown"][n] = content[n]
      BY <3>2, <3>3 DEF DumpUpToDate
    <3>5. dump["shutdown"] = [n \in DOMAIN dump["shutdown"] |-> dump["shutdown"][n]]
      BY DEF DumpsAreFunctions, Tasks
    <3>6. UserPart(content) = [n \in DOMAIN UserPart(content) |-> content[n]]
      BY DEF UserPart
    <3>. QED  BY <3>3, <3>4, <3>5, <3>6
  <2>3. late' = late /\ (t = "checkpoint" => file' = file) /\ (t = "shutdown" => tmp' = tmp)
        /\ task[t] = "dumping"
    BY <1>3 DEF StartWrite
  <2>. QED  BY <1>1, <1>2, <2>1, <2>2, <2>3 DEF Tasks, CompleteBeforeRename, Undisturbed,
            AloneAtTheEnd, DumpUpToDate, DumpComplete, DumpInPlace, FinalDump, Dumping
<1>4. CASE FinishWrite(t)
  <2>1. \A u \in Tasks : task'[u] = IF u = t THEN "written" ELSE task[u]
    BY <1>4, TaskMoved DEF FinishWrite
  <2>2. /\ late' = late
        /\ t = "checkpoint" => file' = file /\ tmp' = Whole(dump[t])
        /\ t = "shutdown" => tmp' = tmp /\ file' = Whole(dump[t])
        /\ task[t] = "writing"
    BY <1>4 DEF FinishWrite
  <2>. QED  BY <1>1, <1>2, <2>1, <2>2 DEF Tasks, CompleteBeforeRename, Undisturbed,
            AloneAtTheEnd, DumpUpToDate, DumpComplete, DumpInPlace, FinalDump, Dumping
<1>5. CASE FailWrite(t)
  <2>1. \A u \in Tasks : task'[u] = IF u = t
                              THEN IF t = "checkpoint" THEN "waiting" ELSE "written"
                              ELSE task[u]
    BY <1>5, TaskMoved DEF FailWrite
  <2>2. late' = (late \/ t = "shutdown") /\ file' = file /\ tmp' = tmp
        /\ task[t] = "writing"
    BY <1>5 DEF FailWrite, files
  <2>. QED  BY <1>1, <1>2, <2>1, <2>2 DEF Tasks, CompleteBeforeRename, Undisturbed,
            AloneAtTheEnd, DumpUpToDate, DumpComplete, DumpInPlace, FinalDump, Dumping
<1>. QED  BY <1>3, <1>4, <1>5

(* The process ends, and comes back. *)
LEMMA EndInv ==
    ASSUME PersistenceInv, Rename \/ Exit \/ Crash \/ Start
    PROVE  CompleteBeforeRename' /\ Undisturbed' /\ FinalDump'
<1>. USE DEF PersistenceInv, Typed
<1>1. CASE Rename
  <2>1. \A u \in Tasks : task'[u] = IF u = "checkpoint" THEN "waiting" ELSE task[u]
    BY <1>1, TaskMoved DEF Rename, Tasks
  <2>. QED  BY <1>1, <2>1 DEF Rename, Tasks, CompleteBeforeRename, Undisturbed,
            AloneAtTheEnd, DumpUpToDate, DumpComplete, DumpInPlace, FinalDump, Dumping
<1>2. CASE Exit
  <2>1. \A u \in Tasks : task'[u] = IF u = "shutdown" THEN "over" ELSE task[u]
    BY <1>2, TaskMoved DEF Exit, Tasks
  <2>. QED  BY <1>2, <2>1 DEF Exit, files, Tasks, CompleteBeforeRename, Undisturbed,
            AloneAtTheEnd, DumpUpToDate, DumpComplete, DumpInPlace, FinalDump, Dumping
<1>3. CASE Crash
  <2>1. \A u \in Tasks : task'[u] = IF u = "shutdown" THEN "waiting" ELSE task[u]
    BY <1>3, TaskMoved DEF Crash, Tasks
  <2>. QED  BY <1>3, <2>1 DEF Crash, files, Tasks, CompleteBeforeRename, Undisturbed,
            AloneAtTheEnd, DumpUpToDate, DumpComplete, DumpInPlace, FinalDump, Dumping
<1>4. CASE Start
  <2>1. \A u \in Tasks : task'[u] = "waiting"
    BY <1>4 DEF Start
  <2>. QED  BY <1>4, <2>1 DEF Start, Tasks, CompleteBeforeRename, Undisturbed,
            AloneAtTheEnd, DumpUpToDate, DumpComplete, DumpInPlace, FinalDump, Dumping
<1>. QED  BY <1>1, <1>2, <1>3, <1>4

LEMMA NextPersistenceInv ==
    ASSUME PersistenceInv, [Next]_vars
    PROVE  PersistenceInv'
<1>1. Typed'
  BY NextTyped DEF PersistenceInv
<1>2. CompleteBeforeRename' /\ Undisturbed' /\ FinalDump'
  <2>1. CASE ContentStep
    BY <2>1, ContentStepInv
  <2>2. ASSUME NEW t \in Tasks, StartDump(t)
        PROVE  CompleteBeforeRename' /\ Undisturbed' /\ FinalDump'
    BY <2>2, StartDumpInv
  <2>3. ASSUME NEW t \in Tasks, NEW n, DumpDatabase(t, n)
        PROVE  CompleteBeforeRename' /\ Undisturbed' /\ FinalDump'
    BY <2>3, DumpDatabaseInv
  <2>4. ASSUME NEW t \in Tasks, StartWrite(t) \/ FinishWrite(t) \/ FailWrite(t)
        PROVE  CompleteBeforeRename' /\ Undisturbed' /\ FinalDump'
    BY <2>4, WriteInv
  <2>5. CASE Rename \/ Exit \/ Crash \/ Start
    BY <2>5, EndInv
  <2>6. CASE UNCHANGED vars
    BY <2>6 DEF vars, files, PersistenceInv, CompleteBeforeRename, Undisturbed,
       AloneAtTheEnd, DumpUpToDate, DumpComplete, DumpInPlace, FinalDump, UserPart
  <2>. QED  BY <2>1, <2>2, <2>3, <2>4, <2>5, <2>6 DEF Next, ShutdownStep, ContentStep, Tasks
<1>. QED  BY <1>1, <1>2 DEF PersistenceInv

LEMMA PersistenceInvariant == Spec => []PersistenceInv
<1>1. PersistenceInv /\ [Next]_vars => PersistenceInv'
  BY NextPersistenceInv
<1>. QED  BY <1>1, InitPersistenceInv, PTL DEF Spec

(* Main, after the signal: a clean exit leaves on the disk every row that  *)
(* was acknowledged in a database clients created.  The dump is taken      *)
(* database by database while nothing changes them, and the only other     *)
(* writer of the file is a checkpoint, which does not run then.            *)
THEOREM FinalDumpKept == Spec => []FinalDump
<1>1. PersistenceInv => FinalDump
  BY DEF PersistenceInv
<1>. QED  BY <1>1, PersistenceInvariant, PTL

-----------------------------------------------------------------------------
(* Every step but the final dump's own writes leaves a whole dump. *)
LEMMA CheckpointStep ==
    ASSUME PersistenceInv, [Next]_vars, file' # file
    PROVE  task'["shutdown"] # task["shutdown"] \/ file'.whole
<1>1. CASE Rename
  <2>1. file' = Whole(dump["checkpoint"])
    BY <1>1 DEF Rename, PersistenceInv, CompleteBeforeRename
  <2>. QED  BY <2>1 DEF Whole
<1>2. CASE StartWrite("shutdown") \/ FinishWrite("shutdown")
  <2>1. PICK state \in {"writing", "written"} :
           MoveTo("shutdown", state) /\ task["shutdown"] # state
    BY <1>2 DEF StartWrite, FinishWrite
  <2>2. task'["shutdown"] = state
    BY <2>1, TaskMoved DEF Tasks, PersistenceInv, Typed
  <2>. QED  BY <2>1, <2>2
<1>3. CASE ContentStep
  BY <1>3, ContentStepFacts DEF PersistenceInv, Typed, OnlyContent, files
<1>4. ASSUME NEW t \in Tasks, NEW n,
             StartDump(t) \/ DumpDatabase(t, n) \/ FailWrite(t)
      PROVE  file' = file
  BY <1>4 DEF StartDump, DumpDatabase, FailWrite, files
<1>5. CASE StartWrite("checkpoint") \/ FinishWrite("checkpoint")
  BY <1>5 DEF StartWrite, FinishWrite
<1>6. CASE Exit \/ Crash \/ Start \/ UNCHANGED vars
  BY <1>6 DEF Exit, Crash, Start, vars, files
<1>. QED  BY <1>1, <1>2, <1>3, <1>4, <1>5, <1>6 DEF Next, ShutdownStep, ContentStep, Tasks

(* The checkpoint of main: whatever fails, stops or crashes, and whatever  *)
(* an earlier life of the process left in the temporary file, the dump in  *)
(* place is only ever replaced by a whole one, but for the final dump.     *)
THEOREM CheckpointsAreAtomic == Spec => CheckpointAtomic
<1>1. PersistenceInv /\ [Next]_vars =>
          [file' # file =>
              task'["shutdown"] # task["shutdown"] \/ file'.whole]_vars
  BY CheckpointStep
<1>. QED  BY <1>1, PersistenceInvariant, PTL DEF Spec, CheckpointAtomic
=============================================================================
