-------------------------- MODULE StatementsProofs --------------------------
(***************************************************************************)
(* Proofs about Statements, for every number of threads and databases and  *)
(* whatever statements clients send: type correctness, that no thread      *)
(* works on a database that is not in the map, that threads never wait for *)
(* each other in a cycle, that an answered query has counted what it       *)
(* changed, and that the cache of parsed statements is bounded.            *)
(***************************************************************************)
EXTENDS Statements, TLAPS, FiniteSetTheorems

-----------------------------------------------------------------------------
(* Statements are sequences of parts. *)

LEMMA PartType ==
    ASSUME NEW does \in Doings, NEW ds \in SUBSET Dbs
    PROVE  /\ Each(does, ds) \in Part
           /\ Try(Each(does, ds)) \in Part
BY DEF Each, Try, Part

LEMMA SingletonType ==
    ASSUME NEW part \in Part
    PROVE  <<part>> \in Seq(Part) \ {<<>>}
OBVIOUS

LEMMA TailType ==
    ASSUME NEW statement \in Seq(Part), statement # <<>>
    PROVE  /\ Tail(statement) \in Seq(Part)
           /\ Len(statement) # 1 => Tail(statement) # <<>>
<1>. DEFINE rest == Tail(statement)
<1>1. Len(statement) \in Nat \ {0}
  OBVIOUS
<1>2. rest \in Seq(Part) /\ Len(rest) = Len(statement) - 1
  BY <1>1
<1>3. rest = <<>> => Len(rest) = 0
  <2>. HIDE DEF rest
  <2>. QED  OBVIOUS
<1>4. Len(statement) # 1 => rest # <<>>
  <2>. HIDE DEF rest
  <2>. QED  BY <1>1, <1>2, <1>3
<1>. QED  BY <1>2, <1>4

LEMMA OneType ==
    ASSUME NEW does \in Doings, NEW d \in Dbs
    PROVE  One(does, d) \in Part /\ Try(One(does, d)) \in Part
BY PartType DEF One

LEMMA StatementType == Statement \subseteq Seq(Part) \ {<<>>}
<1>1. \A d \in Dbs : Simple(d) \subseteq Seq(Part) \ {<<>>}
  BY OneType, SingletonType DEF Simple, Doings
<1>2. \A d, e \in Dbs : Composite(d, e) \subseteq Seq(Part) \ {<<>>}
  BY OneType DEF Composite, Doings
<1>3. \A ds \in SUBSET Dbs : Drops(ds) \subseteq Seq(Part) \ {<<>>}
  BY PartType, SingletonType DEF Drops, Doings
<1>4. Wide \subseteq Seq(Part) \ {<<>>}
  BY PartType, SingletonType DEF Wide, Doings
<1>. QED  BY <1>1, <1>2, <1>3, <1>4 DEF Statement

-----------------------------------------------------------------------------
(* Type correctness. *)

(* What TypeOK says of a single thread. *)
ThreadOK(t) ==
    /\ pc[t] \in {"map", "visit", "db", "work"} => parts[t] # <<>>
    /\ pc[t] \in {"db", "work"} <=> target[t] # Nothing
    /\ map_lock[t] = IF pc[t] \in {"visit", "db", "work"}
                     THEN MapMode(parts[t][1]) ELSE "none"
    /\ db_lock[t] = IF pc[t] = "work"
                    THEN DbMode(parts[t][1]) ELSE "none"

LEMMA NowType ==
    ASSUME TypeOK, NEW t \in Threads, InStatement(t)
    PROVE  Now(t) \in Part
BY DEF TypeOK, InStatement, Now

(* A step of one thread leaves the others' state alone. *)
LEMMA OthersOK ==
    ASSUME TypeOK, NEW t \in Threads, NEW u \in Threads \ {t},
           pc'[u] = pc[u], parts'[u] = parts[u], target'[u] = target[u],
           map_lock'[u] = map_lock[u], db_lock'[u] = db_lock[u]
    PROVE  ThreadOK(u)'
BY DEF TypeOK, ThreadOK, MapMode, DbMode

LEMMA ChangedType ==
    ASSUME TypeOK, NEW t \in Threads
    PROVE  /\ Changed(t) => uncounted' \in [Threads -> BOOLEAN]
           /\ Bumped(t) => uncounted' \in [Threads -> BOOLEAN]
           /\ UNCHANGED uncounted => uncounted' \in [Threads -> BOOLEAN]
BY DEF TypeOK, Changed, Bumped

LEMMA QueryType ==
    ASSUME TypeOK, NEW t \in Threads, Query(t)
    PROVE  TypeOK'
<1>1. CASE ParseHit(t) \/ ParseMiss(t) \/ Store(t) \/ Refuse(t)
  BY <1>1 DEF ParseHit, ParseMiss, Store, Refuse, Receive, Enter, TypeOK,
     Stages, Outcomes, data, progress, locks, MapMode, DbMode
<1>2. ASSUME NEW statement \in Offered, Begin(t, statement)
      PROVE  TypeOK'
  <2>1. statement \in Seq(Part) \ {<<>>}
    BY StatementType, OfferedAssumption
  <2>. QED  BY <1>2, <2>1 DEF Begin, Enter, TypeOK, Stages, data, locks,
            MapMode, DbMode
<1>3. ASSUME NEW stage \in {"next", "idle"}, Count(t, stage)
      PROVE  TypeOK'
  <2>1. uncounted' \in [Threads -> BOOLEAN]
    BY <1>3, ChangedType DEF Count
  <2>2. pc' \in [Threads -> Stages] /\ pc' = [pc EXCEPT ![t] = stage]
    BY <1>3 DEF Count, Enter, TypeOK, Stages
  <2>3. UNCHANGED <<data, parsed, progress, locks>> /\ pc[t] \in Outcomes
    BY <1>3 DEF Count
  <2>. QED  BY <2>1, <2>2, <2>3 DEF TypeOK, Outcomes, data, progress, locks
<1>. QED  BY <1>1, <1>2, <1>3 DEF Query

LEMMA LockType ==
    ASSUME TypeOK, NEW t \in Threads, LockMap(t) \/ LockDb(t)
    PROVE  TypeOK'
<1>1. Now(t) \in Part
  BY NowType DEF LockMap, LockDb, InStatement
<1>2. MapMode(Now(t)) \in {"read", "write"} /\ DbMode(Now(t)) \in {"read", "write"}
  BY DEF MapMode, DbMode
<1>3. CASE LockMap(t)
  BY <1>1, <1>2, <1>3 DEF LockMap, Enter, TypeOK, Stages, data, Part, Now,
     MapMode, DbMode
<1>4. CASE LockDb(t)
  BY <1>1, <1>2, <1>4 DEF LockDb, Enter, TypeOK, Stages, data, progress, Now,
     MapMode, DbMode
<1>. QED  BY <1>3, <1>4

(* Going on to the next database, and ending with an error. *)
LEMMA LeaveType ==
    ASSUME TypeOK, NEW t \in Threads, pc[t] = "work",
           Leave(t), table' \in [Dbs -> BOOLEAN], parsed' = parsed,
           uncounted' \in [Threads -> BOOLEAN], databases' = databases
    PROVE  TypeOK'
BY DEF Leave, Enter, TypeOK, Stages, MapMode, DbMode

LEMMA FailType ==
    ASSUME TypeOK, NEW t \in Threads, pc[t] \in {"visit", "work"},
           Fail(t), table' \in [Dbs -> BOOLEAN], parsed' = parsed,
           databases' = databases
    PROVE  TypeOK'
<1>1. /\ uncounted' \in [Threads -> BOOLEAN]
      /\ parts' \in [Threads -> Seq(Part)]
      /\ left' \in [Threads -> SUBSET Dbs]
      /\ target' \in [Threads -> Dbs \cup {Nothing}]
      /\ pc' \in [Threads -> Stages]
  BY DEF Fail, Enter, TypeOK, Stages, Outcomes
<1>2. /\ map_lock' \in [Threads -> {"none", "read", "write"}]
      /\ db_lock' \in [Threads -> {"none", "read", "write"}]
  BY DEF Fail, Unlocked, TypeOK
<1>3. ThreadOK(t)'
  BY DEF Fail, Unlocked, Enter, TypeOK, ThreadOK
<1>4. \A u \in Threads \ {t} : ThreadOK(u)'
  BY OthersOK DEF Fail, Unlocked, Enter, TypeOK
<1>. QED  BY <1>1, <1>2, <1>3, <1>4 DEF TypeOK, ThreadOK

LEMMA NotFoundType ==
    ASSUME TypeOK, NEW t \in Threads, pc[t] = "work", NotFound(t),
           table' \in [Dbs -> BOOLEAN], parsed' = parsed, databases' = databases
    PROVE  TypeOK'
<1>1. CASE Fail(t)
  BY <1>1, FailType
<1>2. CASE Leave(t) /\ UNCHANGED uncounted
  BY <1>2, LeaveType DEF TypeOK
<1>. QED  BY <1>1, <1>2 DEF NotFound

LEMMA VisitingType ==
    ASSUME TypeOK, NEW t \in Threads, Visiting(t)
    PROVE  TypeOK'
<1>. SUFFICES ASSUME NEW d \in Dbs,
                     Visit(t, d) \/ Missing(t, d) \/ CreateDb(t, d) \/ DropDb(t, d)
              PROVE  TypeOK'
  BY DEF Visiting
<1>1. CASE Visit(t, d)
  BY <1>1, NothingAssumption DEF Visit, Enter, TypeOK, Stages, data, locks,
     MapMode, DbMode
<1>2. CASE Missing(t, d)
  <2>1. CASE Now(t).needed
    BY <1>2, <2>1, FailType DEF Missing, data, TypeOK
  <2>2. CASE ~Now(t).needed
    <3>1. left' = [left EXCEPT ![t] = left[t] \ {d}]
      BY <1>2, <2>2 DEF Missing
    <3>2. left \in [Threads -> SUBSET Dbs] /\ left[t] \ {d} \in SUBSET Dbs
      BY DEF TypeOK
    <3>3. left' \in [Threads -> SUBSET Dbs]
      BY <3>1, <3>2
    <3>4. UNCHANGED <<data, parsed, pc, parts, target, locks, uncounted>>
      BY <1>2, <2>2 DEF Missing
    <3>. QED  BY <3>3, <3>4 DEF TypeOK, data, locks
  <2>. QED  BY <2>1, <2>2
<1>3. CASE CreateDb(t, d)
  BY <1>3 DEF CreateDb, At, Changed, TypeOK, locks, MapMode, DbMode
<1>4. CASE DropDb(t, d)
  BY <1>4 DEF DropDb, At, Changed, TypeOK, locks, MapMode, DbMode
<1>. QED  BY <1>1, <1>2, <1>3, <1>4

LEMMA WorkingType ==
    ASSUME TypeOK, NEW t \in Threads, Working(t)
    PROVE  TypeOK'
<1>1. CASE Look(t)
  BY <1>1, LeaveType, NotFoundType DEF Look, At, data, TypeOK
<1>2. CASE Copy(t)
  BY <1>2, LeaveType DEF Copy, At, data, TypeOK
<1>3. CASE ChangeRows(t)
  BY <1>3, LeaveType, NotFoundType, ChangedType DEF ChangeRows, At, data, TypeOK
<1>4. CASE ChangeTable(t)
  <2>1. pc[t] = "work" /\ table' \in [Dbs -> BOOLEAN] /\ UNCHANGED <<data, parsed>>
    BY <1>4 DEF ChangeTable, At, data, TypeOK
  <2>2. (Leave(t) /\ Changed(t)) \/ Fail(t) \/ NotFound(t)
    BY <1>4 DEF ChangeTable
  <2>. QED  BY <2>1, <2>2, LeaveType, FailType, NotFoundType, ChangedType DEF data
<1>5. CASE CreateTable(t)
  <2>1. pc[t] = "work" /\ Leave(t) /\ databases' = databases /\ parsed' = parsed
    BY <1>5 DEF CreateTable, At
  <2>2. table' \in [Dbs -> BOOLEAN] /\ uncounted' \in [Threads -> BOOLEAN]
    BY <1>5, ChangedType DEF CreateTable, TypeOK
  <2>. QED  BY <2>1, <2>2, LeaveType
<1>6. CASE DropTable(t)
  <2>1. table' \in [Dbs -> BOOLEAN]
    BY <1>6 DEF DropTable, TypeOK
  <2>. QED  BY <1>6, <2>1, LeaveType, NotFoundType, ChangedType DEF DropTable, At
<1>7. CASE Restore(t)
  <2>1. table' \in [Dbs -> BOOLEAN]
    BY <1>7 DEF Restore, TypeOK
  <2>. QED  BY <1>7, <2>1, LeaveType, ChangedType DEF Restore, At
<1>. QED  BY <1>1, <1>2, <1>3, <1>4, <1>5, <1>6, <1>7 DEF Working

LEMMA EndPartType ==
    ASSUME TypeOK, NEW t \in Threads, EndPart(t)
    PROVE  TypeOK'
<1>1. pc[t] = "visit" /\ parts[t] \in Seq(Part) /\ parts[t] # <<>>
  BY DEF EndPart, PartIsOver, TypeOK
<1>2. Tail(parts[t]) \in Seq(Part) /\ (Len(parts[t]) # 1 => Tail(parts[t]) # <<>>)
  BY <1>1, TailType
<1>3. target[t] = Nothing
  BY <1>1 DEF TypeOK
<1>4. /\ pc' \in [Threads -> Stages]
      /\ parts' \in [Threads -> Seq(Part)]
      /\ parts'[t] = Tail(parts[t])
      /\ pc'[t] \in Outcomes \cup {"map"}
      /\ pc'[t] = "map" => Len(parts[t]) # 1
  BY <1>1, <1>2 DEF EndPart, PartIsOver, Enter, TypeOK, Stages, Outcomes, Outcome
<1>5. /\ map_lock' \in [Threads -> {"none", "read", "write"}]
      /\ db_lock' \in [Threads -> {"none", "read", "write"}]
      /\ map_lock'[t] = "none" /\ db_lock'[t] = "none"
  BY DEF EndPart, Unlocked, TypeOK
<1>6. uncounted' \in [Threads -> BOOLEAN]
  BY ChangedType DEF EndPart, PartIsOver
<1>7. UNCHANGED <<data, parsed, left, target>>
  BY DEF EndPart
<1>8. ThreadOK(t)'
  BY <1>2, <1>3, <1>4, <1>5, <1>7 DEF ThreadOK, Outcomes
<1>9. \A u \in Threads \ {t} : ThreadOK(u)'
  BY OthersOK DEF EndPart, PartIsOver, Unlocked, Enter, TypeOK
<1>. QED  BY <1>4, <1>5, <1>6, <1>7, <1>8, <1>9 DEF TypeOK, ThreadOK, data

LEMMA TypeInit == Init => TypeOK
BY DEF Init, TypeOK, Stages, Outcomes, MapMode, DbMode

LEMMA TypeStep == TypeOK /\ [Next]_vars => TypeOK'
<1>. SUFFICES ASSUME TypeOK, [Next]_vars PROVE TypeOK'
  OBVIOUS
<1>1. CASE UNCHANGED vars
  BY <1>1 DEF vars, data, progress, locks, TypeOK, MapMode, DbMode
<1>2. ASSUME NEW t \in Threads, Query(t) PROVE TypeOK'
  BY <1>2, QueryType
<1>3. ASSUME NEW t \in Threads, Execution(t) PROVE TypeOK'
  BY <1>3, LockType, VisitingType, WorkingType, EndPartType DEF Execution
<1>. QED  BY <1>1, <1>2, <1>3 DEF Next

(* The engine's and the threads' state keeps its types; besides, a thread  *)
(* holds exactly the locks that its place in a statement calls for.        *)
THEOREM TypeCorrect == Spec => []TypeOK
<1>1. Init => TypeOK
  BY TypeInit
<1>2. TypeOK /\ [Next]_vars => TypeOK'
  BY TypeStep
<1>. QED  BY <1>1, <1>2, PTL DEF Spec
-----------------------------------------------------------------------------
(* No thread works on a database that is not in the map. *)

(* Whoever holds the write lock of the map holds it alone. *)
Exclusive ==
    \A t, u \in Threads :
        t # u /\ map_lock[t] = "write" => map_lock[u] = "none"

(* A thread that copies what is in the map holds the lock of the map while *)
(* it visits one database after the other, so that what it has yet to      *)
(* visit is there.                                                         *)
Live(t) ==
    /\ target[t] # Nothing => target[t] \in databases
    /\ pc[t] \in {"visit", "db", "work"} /\ Now(t).does = "copy"
          => left[t] \subseteq databases

LiveInv == TypeOK /\ Exclusive /\ \A t \in Threads : Live(t)

(* Only LockMap takes the lock of the map. *)
Releases == \A u \in Threads : map_lock'[u] \in {map_lock[u], "none"}

LEMMA ReleaseExclusive ==
    ASSUME Exclusive, Releases
    PROVE  Exclusive'
BY DEF Exclusive, Releases

LEMMA FailReleases ==
    ASSUME TypeOK, NEW t \in Threads, Fail(t)
    PROVE  Releases
BY DEF Fail, Unlocked, TypeOK, Releases

LEMMA LeaveReleases ==
    ASSUME TypeOK, NEW t \in Threads, Leave(t) \/ NotFound(t)
    PROVE  Releases
BY FailReleases DEF NotFound, Leave, Releases

LEMMA VisitingReleases ==
    ASSUME TypeOK, NEW t \in Threads, NEW d \in Dbs,
           Visit(t, d) \/ Missing(t, d) \/ CreateDb(t, d) \/ DropDb(t, d)
    PROVE  Releases
<1>1. CASE Missing(t, d)
  <2>1. Fail(t) \/ UNCHANGED locks
    BY <1>1 DEF Missing
  <2>. QED  BY <2>1, FailReleases DEF locks, Releases
<1>2. CASE Visit(t, d) \/ CreateDb(t, d) \/ DropDb(t, d)
  BY <1>2 DEF Visit, CreateDb, DropDb, locks, Releases
<1>. QED  BY <1>1, <1>2

LEMMA WorkingReleases ==
    ASSUME TypeOK, NEW t \in Threads, Working(t)
    PROVE  Releases
<1>1. Leave(t) \/ NotFound(t) \/ Fail(t)
  BY DEF Working, Look, Copy, ChangeRows, ChangeTable, CreateTable, DropTable,
     Restore
<1>. QED  BY <1>1, LeaveReleases, FailReleases

LEMMA ExclusiveStep ==
    ASSUME TypeOK, Exclusive, [Next]_vars
    PROVE  Exclusive'
<1>1. CASE UNCHANGED vars
  BY <1>1, ReleaseExclusive DEF vars, locks, Releases
<1>2. ASSUME NEW t \in Threads, Query(t) PROVE Exclusive'
  <2>1. UNCHANGED locks
    BY <1>2 DEF Query, ParseHit, ParseMiss, Store, Refuse, Begin, Count, Receive
  <2>. QED  BY <2>1, ReleaseExclusive DEF locks, Releases
<1>3. ASSUME NEW t \in Threads, LockMap(t) PROVE Exclusive'
  <2>1. map_lock' = [map_lock EXCEPT ![t] = MapMode(Now(t))]
    BY <1>3 DEF LockMap
  <2>2. CASE MapMode(Now(t)) = "write"
    <3>1. \A u \in Threads : map_lock[u] = "none"
      BY <1>3, <2>2 DEF LockMap, MapFree
    <3>. QED  BY <2>1, <3>1 DEF Exclusive, TypeOK
  <2>3. CASE MapMode(Now(t)) # "write"
    <3>1. \A u \in Threads : map_lock[u] # "write"
      BY <1>3, <2>3 DEF LockMap, MapFree
    <3>. QED  BY <2>1, <2>3, <3>1 DEF Exclusive, TypeOK
  <2>. QED  BY <2>2, <2>3
<1>4. ASSUME NEW t \in Threads, Visiting(t) PROVE Exclusive'
  BY <1>4, VisitingReleases, ReleaseExclusive DEF Visiting
<1>5. ASSUME NEW t \in Threads, Working(t) PROVE Exclusive'
  BY <1>5, WorkingReleases, ReleaseExclusive
<1>6. ASSUME NEW t \in Threads, LockDb(t) PROVE Exclusive'
  BY <1>6, ReleaseExclusive DEF LockDb, Releases
<1>7. ASSUME NEW t \in Threads, EndPart(t) PROVE Exclusive'
  <2>1. Releases
    BY <1>7 DEF EndPart, Unlocked, TypeOK, Releases
  <2>. QED  BY <2>1, ReleaseExclusive
<1>. QED  BY <1>1, <1>2, <1>3, <1>4, <1>5, <1>6, <1>7 DEF Next, Execution

(* A thread that keeps its place, or loses its target and its statement,   *)
(* stays live while no database leaves the map.                            *)
LEMMA OthersLive ==
    ASSUME NEW u \in Threads, Live(u), databases \subseteq databases',
           pc'[u] = pc[u], parts'[u] = parts[u], target'[u] = target[u],
           left'[u] = left[u]
    PROVE  Live(u)'
BY DEF Live, Now

LEMMA FailLive ==
    ASSUME TypeOK, NEW t \in Threads, \A u \in Threads : Live(u), Fail(t),
           databases' = databases
    PROVE  \A u \in Threads : Live(u)'
<1>1. target'[t] = Nothing /\ pc'[t] = "error"
  BY DEF Fail, Enter, TypeOK
<1>2. Live(t)'
  BY <1>1 DEF Live
<1>3. \A u \in Threads \ {t} : Live(u)'
  BY OthersLive DEF Fail, Enter, TypeOK
<1>. QED  BY <1>2, <1>3

LEMMA LeaveLive ==
    ASSUME TypeOK, NEW t \in Threads, \A u \in Threads : Live(u), Leave(t),
           pc[t] = "work", databases' = databases
    PROVE  \A u \in Threads : Live(u)'
BY DEF Leave, Enter, Live, Now, TypeOK

LEMMA LiveInit == Init => LiveInv
BY TypeInit DEF Init, LiveInv, Exclusive, Live, TypeOK

LEMMA LiveStep == LiveInv /\ [Next]_vars => LiveInv'
<1>. SUFFICES ASSUME LiveInv, [Next]_vars PROVE LiveInv'
  OBVIOUS
<1>. USE DEF LiveInv
<1>1. TypeOK' /\ Exclusive'
  BY TypeStep, ExclusiveStep
<1>. SUFFICES \A u \in Threads : Live(u)'
  BY <1>1
<1>2. CASE UNCHANGED vars
  BY <1>2, OthersLive DEF vars, data, progress
<1>3. ASSUME NEW t \in Threads, Query(t) PROVE \A u \in Threads : Live(u)'
  <2>1. /\ UNCHANGED <<databases, left, target>>
        /\ pc'[t] \notin {"visit", "db", "work"}
        /\ \A u \in Threads \ {t} : pc'[u] = pc[u] /\ parts'[u] = parts[u]
    BY <1>3 DEF Query, ParseHit, ParseMiss, Store, Refuse, Begin, Count, Receive,
       Enter, TypeOK, data, progress
  <2>2. Live(t)'
    BY <2>1 DEF Live
  <2>. QED  BY <2>1, <2>2, OthersLive
<1>4. ASSUME NEW t \in Threads, LockMap(t) PROVE \A u \in Threads : Live(u)'
  <2>1. Live(t)'
    BY <1>4 DEF LockMap, Live, Now, data, TypeOK
  <2>2. \A u \in Threads \ {t} : Live(u)'
    BY <1>4, OthersLive DEF LockMap, Enter, data, TypeOK
  <2>. QED  BY <2>1, <2>2
<1>5. ASSUME NEW t \in Threads, Visiting(t) PROVE \A u \in Threads : Live(u)'
  <2>. PICK d \in Dbs : Visit(t, d) \/ Missing(t, d) \/ CreateDb(t, d) \/ DropDb(t, d)
    BY <1>5 DEF Visiting
  <2>1. CASE Visit(t, d)
    <3>1. Live(t)'
      BY <2>1 DEF Visit, Enter, Live, Now, data, TypeOK
    <3>2. \A u \in Threads \ {t} : Live(u)'
      BY <2>1, OthersLive DEF Visit, Enter, data, TypeOK
    <3>. QED  BY <3>1, <3>2
  <2>2. CASE Missing(t, d)
    <3>1. CASE Now(t).needed
      BY <2>2, <3>1, FailLive DEF Missing, data
    <3>2. CASE ~Now(t).needed
      <4>1. /\ left' = [left EXCEPT ![t] = left[t] \ {d}]
            /\ UNCHANGED <<data, pc, parts, target>>
        BY <2>2, <3>2 DEF Missing
      <4>. QED  BY <4>1 DEF Live, Now, data, TypeOK
    <3>. QED  BY <3>1, <3>2
  <2>3. CASE CreateDb(t, d)
    <3>1. Live(t)'
      BY <2>3 DEF CreateDb, At, Live, Now, TypeOK
    <3>2. \A u \in Threads \ {t} : Live(u)'
      BY <2>3, OthersLive DEF CreateDb, TypeOK
    <3>. QED  BY <3>1, <3>2
  <2>4. CASE DropDb(t, d)
    <3>1. map_lock[t] = "write"
      BY <2>4 DEF DropDb, At, TypeOK, Now, MapMode
    <3>2. \A u \in Threads \ {t} : pc[u] \notin {"visit", "db", "work"}
      BY <3>1 DEF Exclusive, TypeOK, MapMode
    <3>3. UNCHANGED <<pc, parts, target>>
      BY <2>4 DEF DropDb
    <3>4. \A u \in Threads : target[u] = Nothing
      BY <2>4, <3>2 DEF DropDb, At, TypeOK
    <3>5. Live(t)'
      BY <2>4, <3>3, <3>4 DEF DropDb, At, Live, Now
    <3>6. \A u \in Threads \ {t} : Live(u)'
      BY <3>2, <3>3, <3>4 DEF Live
    <3>. QED  BY <3>5, <3>6
  <2>. QED  BY <2>1, <2>2, <2>3, <2>4
<1>6. ASSUME NEW t \in Threads, LockDb(t) PROVE \A u \in Threads : Live(u)'
  BY <1>6 DEF LockDb, Enter, Live, Now, data, progress, TypeOK
<1>7. ASSUME NEW t \in Threads, Working(t) PROVE \A u \in Threads : Live(u)'
  <2>1. Leave(t) \/ Fail(t)
    BY <1>7 DEF Working, Look, Copy, ChangeRows, ChangeTable, CreateTable,
       DropTable, Restore, NotFound
  <2>2. pc[t] = "work" /\ databases' = databases
    BY <1>7 DEF Working, Look, Copy, ChangeRows, ChangeTable, CreateTable,
       DropTable, Restore, At, data
  <2>. QED  BY <2>1, <2>2, FailLive, LeaveLive
<1>8. ASSUME NEW t \in Threads, EndPart(t) PROVE \A u \in Threads : Live(u)'
  <2>1. /\ UNCHANGED <<databases, left, target>>
        /\ pc'[t] \notin {"visit", "db", "work"}
        /\ \A u \in Threads \ {t} : pc'[u] = pc[u] /\ parts'[u] = parts[u]
    BY <1>8 DEF EndPart, PartIsOver, Outcome, Enter, TypeOK, data
  <2>2. target[t] = Nothing
    BY <1>8 DEF EndPart, PartIsOver, TypeOK
  <2>3. Live(t)'
    BY <2>1, <2>2 DEF Live
  <2>. QED  BY <2>1, <2>3, OthersLive
<1>. QED  BY <1>2, <1>3, <1>4, <1>5, <1>6, <1>7, <1>8 DEF Next, Execution

(* An acknowledged change never goes to a database that was dropped        *)
(* between the lookup in the map and the change.                           *)
THEOREM LiveWork == Spec => []WorkOnLive
<1>1. Init => LiveInv
  BY LiveInit
<1>2. LiveInv /\ [Next]_vars => LiveInv'
  BY LiveStep
<1>3. LiveInv => WorkOnLive
  BY DEF LiveInv, Live, WorkOnLive
<1>. QED  BY <1>1, <1>2, <1>3, PTL DEF Spec

-----------------------------------------------------------------------------
(* No cycle of waiting threads. *)

(* While nobody holds the lock of the map, of the threads that wait for it *)
(* a writer can take it, or else anyone.                                   *)
LEMMA MapGoesOn ==
    ASSUME TypeOK, \A u \in Threads : map_lock[u] = "none",
           NEW t \in Threads, pc[t] = "map"
    PROVE  \E u \in Threads : CanStep(u)
<1>1. CASE \E u \in Threads : pc[u] = "map" /\ MapMode(Now(u)) = "write"
  BY <1>1 DEF CanStep, MapFree
<1>2. CASE ~ \E u \in Threads : pc[u] = "map" /\ MapMode(Now(u)) = "write"
  BY <1>2 DEF CanStep, MapFree
<1>. QED  BY <1>1, <1>2

LEMMA DbGoesOn ==
    ASSUME TypeOK, \A u \in Threads : db_lock[u] = "none",
           NEW t \in Threads, pc[t] = "db"
    PROVE  \E u \in Threads : CanStep(u)
<1>1. CASE \E u \in Threads : pc[u] = "db" /\ DbMode(Now(u)) = "write"
  BY <1>1 DEF CanStep, DbFree
<1>2. CASE ~ \E u \in Threads : pc[u] = "db" /\ DbMode(Now(u)) = "write"
  BY <1>2 DEF CanStep, DbFree
<1>. QED  BY <1>1, <1>2

(* Locks are taken in one order, the map before a database, and a thread   *)
(* that waits for the map holds nothing.                                   *)
LEMMA SomeoneGoesOn == TypeOK => NobodyStuck
<1>. SUFFICES ASSUME TypeOK, NEW t \in Threads, InStatement(t)
              PROVE  \E u \in Threads : CanStep(u)
  BY DEF NobodyStuck
<1>1. CASE \E u \in Threads : pc[u] \in {"visit", "work"}
  BY <1>1 DEF CanStep
<1>2. CASE /\ \A u \in Threads : pc[u] \notin {"visit", "work"}
           /\ \E u \in Threads : pc[u] = "db"
  <2>1. \A u \in Threads : db_lock[u] = "none"
    BY <1>2 DEF TypeOK
  <2>. QED  BY <1>2, <2>1, DbGoesOn
<1>3. CASE \A u \in Threads : pc[u] \notin {"visit", "work", "db"}
  <2>1. \A u \in Threads : map_lock[u] = "none"
    BY <1>3 DEF TypeOK
  <2>2. pc[t] = "map"
    BY <1>3 DEF InStatement
  <2>. QED  BY <2>1, <2>2, MapGoesOn
<1>. QED  BY <1>1, <1>2, <1>3

(* Whatever statements meet, subqueries and joins included, some thread    *)
(* can always go on.                                                       *)
THEOREM NoWaitCycle == Spec => []NobodyStuck
<1>1. TypeOK => NobodyStuck
  BY SomeoneGoesOn
<1>. QED  BY <1>1, TypeCorrect, PTL
-----------------------------------------------------------------------------
(* What a query has changed is counted when it is answered.                *)

Reads(part) == part.does \in {"look", "copy"}

(* Of the parts of a statement only the last one changes anything. *)
ChangesLast(statement) ==
    \A i \in 1..Len(statement) : i < Len(statement) => Reads(statement[i])

(* A thread that has an uncounted change is at the last part of its        *)
(* statement, which is one that changes things, or has its OK.             *)
Counts(t) ==
    /\ InStatement(t) => ChangesLast(parts[t])
    /\ uncounted[t] =>
          \/ pc[t] = "ok"
          \/ /\ pc[t] \in {"visit", "db", "work"}
             /\ ~Reads(Now(t))
             /\ Len(parts[t]) = 1

CountInv == TypeOK /\ \A t \in Threads : Counts(t)

LEMMA StatementChangesLast == \A statement \in Statement : ChangesLast(statement)
<1>1. \A part : ChangesLast(<<part>>)
  BY DEF ChangesLast
<1>2. \A d \in Dbs : \A statement \in Simple(d) : ChangesLast(statement)
  BY <1>1 DEF Simple
<1>3. ASSUME NEW d \in Dbs, NEW e \in Dbs, NEW statement \in Composite(d, e)
      PROVE  ChangesLast(statement)
  <2>1. \A x \in Dbs : Reads(One("look", x)) /\ Reads(Try(One("look", x)))
    BY DEF Reads, One, Each, Try
  <2>2. CASE statement = <<Try(One("look", e)), One("look", d)>>
    BY <2>1, <2>2 DEF ChangesLast
  <2>3. CASE statement = <<Try(One("look", d)), One("look", e), One("change_rows", d)>>
    BY <2>1, <2>3 DEF ChangesLast
  <2>4. CASE statement = <<One("look", e), One("create_table_as", d)>>
    BY <2>1, <2>4 DEF ChangesLast
  <2>. QED  BY <2>2, <2>3, <2>4 DEF Composite
<1>4. \A ds \in SUBSET Dbs : \A statement \in Drops(ds) : ChangesLast(statement)
  BY <1>1 DEF Drops
<1>5. \A statement \in Wide : ChangesLast(statement)
  BY <1>1 DEF Wide
<1>. QED  BY <1>2, <1>3, <1>4, <1>5 DEF Statement

LEMMA ChangerIsLast ==
    ASSUME TypeOK, NEW t \in Threads, Counts(t),
           pc[t] \in {"visit", "db", "work"}, ~Reads(Now(t))
    PROVE  Len(parts[t]) = 1
<1>1. parts[t] \in Seq(Part) /\ parts[t] # <<>>
  BY DEF TypeOK
<1>2. Len(parts[t]) \in Nat \ {0}
  BY <1>1
<1>3. ~(1 < Len(parts[t]))
  BY <1>2 DEF Counts, InStatement, ChangesLast, Now
<1>. DEFINE n == Len(parts[t])
<1>4. n \in Nat \ {0} /\ ~(1 < n)
  BY <1>2, <1>3
<1>. HIDE DEF n
<1>5. n = 1
  BY <1>4
<1>. QED  BY <1>5 DEF n

LEMMA OthersCount ==
    ASSUME NEW u \in Threads, Counts(u), pc'[u] = pc[u], parts'[u] = parts[u],
           uncounted'[u] = uncounted[u]
    PROVE  Counts(u)'
BY DEF Counts, InStatement, Now

LEMMA FailCounts ==
    ASSUME TypeOK, NEW t \in Threads, \A u \in Threads : Counts(u), Fail(t)
    PROVE  \A u \in Threads : Counts(u)'
<1>1. Counts(t)'
  BY DEF Fail, Enter, TypeOK, Counts, InStatement
<1>2. \A u \in Threads \ {t} : Counts(u)'
  BY OthersCount DEF Fail, Enter, TypeOK
<1>. QED  BY <1>1, <1>2

(* Whoever leaves a database of a part that changes things may have a      *)
(* change to count.                                                        *)
LEMMA LeaveCounts ==
    ASSUME TypeOK, NEW t \in Threads, \A u \in Threads : Counts(u), Leave(t),
           pc[t] = "work",
           \/ UNCHANGED uncounted
           \/ Changed(t) /\ ~Reads(Now(t))
    PROVE  \A u \in Threads : Counts(u)'
<1>1. /\ UNCHANGED parts
      /\ pc'[t] = "visit"
      /\ \A u \in Threads \ {t} : pc'[u] = pc[u]
  BY DEF Leave, Enter, TypeOK
<1>2. \A u \in Threads \ {t} : Counts(u)'
  BY <1>1, OthersCount DEF Changed, TypeOK
<1>3. CASE UNCHANGED uncounted
  BY <1>1, <1>2, <1>3 DEF Counts, InStatement, Now
<1>4. CASE Changed(t) /\ ~Reads(Now(t))
  <2>1. Len(parts[t]) = 1
    BY <1>4, ChangerIsLast
  <2>. QED  BY <1>1, <1>2, <1>4, <2>1 DEF Counts, InStatement, Now
<1>. QED  BY <1>3, <1>4

LEMMA CountInit == Init => CountInv
BY TypeInit DEF Init, CountInv, Counts, InStatement

LEMMA CountStep == CountInv /\ [Next]_vars => CountInv'
<1>. SUFFICES ASSUME CountInv, [Next]_vars PROVE CountInv'
  OBVIOUS
<1>. USE DEF CountInv
<1>. SUFFICES \A u \in Threads : Counts(u)'
  BY TypeStep
<1>1. CASE UNCHANGED vars
  BY <1>1, OthersCount DEF vars, progress
<1>2. ASSUME NEW t \in Threads, Query(t) PROVE \A u \in Threads : Counts(u)'
  <2>1. /\ \A u \in Threads \ {t} : /\ pc'[u] = pc[u] /\ parts'[u] = parts[u]
                                    /\ uncounted'[u] = uncounted[u]
        /\ pc'[t] \notin {"visit", "db", "work", "ok"}
    BY <1>2 DEF Query, ParseHit, ParseMiss, Store, Refuse, Begin, Count, Receive,
       Enter, Bumped, TypeOK, progress
  <2>2. ~uncounted'[t]
    BY <1>2 DEF Query, ParseHit, ParseMiss, Store, Refuse, Begin, Count, Receive,
       Outcomes, Bumped, TypeOK, Counts
  <2>3. InStatement(t)' => ChangesLast(parts'[t])
    <3>1. ASSUME NEW statement \in Offered, Begin(t, statement)
          PROVE  ChangesLast(parts'[t])
      <4>1. parts'[t] = statement
        BY <3>1 DEF Begin, TypeOK
      <4>. QED  BY <4>1, StatementChangesLast, OfferedAssumption
    <3>2. pc'[t] = "map" => \E statement \in Offered : Begin(t, statement)
      BY <1>2 DEF Query, ParseHit, ParseMiss, Store, Refuse, Count, Receive, Enter,
         TypeOK
    <3>. QED  BY <2>1, <3>1, <3>2 DEF InStatement
  <2>4. Counts(t)'
    BY <2>2, <2>3 DEF Counts
  <2>. QED  BY <2>1, <2>4, OthersCount
<1>3. ASSUME NEW t \in Threads, LockMap(t) \/ LockDb(t)
      PROVE  \A u \in Threads : Counts(u)'
  <2>1. \A u \in Threads \ {t} : Counts(u)'
    BY <1>3, OthersCount DEF LockMap, LockDb, Enter, progress, TypeOK
  <2>2. Counts(t)'
    BY <1>3 DEF LockMap, LockDb, Enter, progress, TypeOK, Counts, InStatement, Now
  <2>. QED  BY <2>1, <2>2
<1>4. ASSUME NEW t \in Threads, Visiting(t) PROVE \A u \in Threads : Counts(u)'
  <2>. PICK d \in Dbs : Visit(t, d) \/ Missing(t, d) \/ CreateDb(t, d) \/ DropDb(t, d)
    BY <1>4 DEF Visiting
  <2>1. CASE Visit(t, d)
    <3>1. \A u \in Threads \ {t} : Counts(u)'
      BY <2>1, OthersCount DEF Visit, Enter, TypeOK
    <3>2. Counts(t)'
      BY <2>1 DEF Visit, Enter, TypeOK, Counts, InStatement, Now
    <3>. QED  BY <3>1, <3>2
  <2>2. CASE Missing(t, d)
    BY <2>2, FailCounts, OthersCount DEF Missing
  <2>3. CASE CreateDb(t, d) \/ DropDb(t, d)
    <3>1. pc[t] = "visit" /\ ~Reads(Now(t))
      BY <2>3 DEF CreateDb, DropDb, At, Reads
    <3>2. Len(parts[t]) = 1
      BY <3>1, ChangerIsLast
    <3>3. UNCHANGED <<pc, parts>> /\ Changed(t)
      BY <2>3 DEF CreateDb, DropDb
    <3>4. Counts(t)'
      BY <3>1, <3>2, <3>3 DEF Counts, InStatement, Now
    <3>5. \A u \in Threads \ {t} : Counts(u)'
      BY <3>3, OthersCount DEF Changed, TypeOK
    <3>. QED  BY <3>4, <3>5
  <2>. QED  BY <2>1, <2>2, <2>3
<1>5. ASSUME NEW t \in Threads, Working(t) PROVE \A u \in Threads : Counts(u)'
  <2>1. pc[t] = "work"
    BY <1>5 DEF Working, Look, Copy, ChangeRows, ChangeTable, CreateTable,
       DropTable, Restore, At
  <2>2. \/ Fail(t)
        \/ Leave(t) /\ UNCHANGED uncounted
        \/ Leave(t) /\ Changed(t) /\ ~Reads(Now(t))
    BY <1>5 DEF Working, Look, Copy, ChangeRows, ChangeTable, CreateTable,
       DropTable, Restore, NotFound, At, Reads
  <2>. QED  BY <2>1, <2>2, FailCounts, LeaveCounts
<1>6. ASSUME NEW t \in Threads, EndPart(t) PROVE \A u \in Threads : Counts(u)'
  <2>1. /\ \A u \in Threads \ {t} : /\ pc'[u] = pc[u] /\ parts'[u] = parts[u]
                                    /\ uncounted'[u] = uncounted[u]
        /\ pc[t] = "visit"
        /\ parts'[t] = Tail(parts[t])
        /\ pc'[t] = IF Len(parts[t]) = 1 THEN Outcome(Now(t)) ELSE "map"
    BY <1>6 DEF EndPart, PartIsOver, Enter, Bumped, TypeOK
  <2>2. ChangesLast(Tail(parts[t]))
    <3>. DEFINE rest == Tail(parts[t])
    <3>1. parts[t] \in Seq(Part) /\ parts[t] # <<>> /\ ChangesLast(parts[t])
      BY <2>1 DEF TypeOK, Counts, InStatement
    <3>2. Len(parts[t]) \in Nat \ {0} /\ Len(rest) = Len(parts[t]) - 1
      BY <3>1
    <3>3. \A i \in 1..Len(rest) : rest[i] = parts[t][i + 1]
      BY <3>1, <3>2
    <3>. HIDE DEF rest
    <3>4. ChangesLast(rest)
      BY <3>1, <3>2, <3>3 DEF ChangesLast
    <3>. QED  BY <3>4 DEF rest
  <2>3. uncounted'[t] => uncounted[t] /\ ~CountsItself(Now(t))
    BY <1>6 DEF EndPart, PartIsOver, Bumped, TypeOK
  <2>4. uncounted'[t] => pc'[t] = "ok"
    BY <2>1, <2>3 DEF Counts, Outcome, Reads
  <2>5. Counts(t)'
    BY <2>1, <2>2, <2>4 DEF Counts
  <2>. QED  BY <2>1, <2>5, OthersCount
<1>. QED  BY <1>1, <1>2, <1>3, <1>4, <1>5, <1>6 DEF Next, Execution

(* The write generation tells every change: when a query is answered, none *)
(* of what its statements did, failed ones apart, is left uncounted,       *)
(* whether by the statement itself or by the OK it ended with.             *)
THEOREM NoChangeUncounted == Spec => []ChangesCounted
<1>1. Init => CountInv
  BY CountInit
<1>2. CountInv /\ [Next]_vars => CountInv'
  BY CountStep
<1>3. CountInv => ChangesCounted
  BY DEF CountInv, Counts, ChangesCounted
<1>. QED  BY <1>1, <1>2, <1>3, PTL DEF Spec

-----------------------------------------------------------------------------
(* The cache of parsed statements is bounded. *)

(* The threads that have looked at the size of the cache and are yet to    *)
(* insert.                                                                 *)
Storing == {t \in Threads : pc[t] = "store"}

(* Each of them may add an entry. *)
CacheInv ==
    /\ TypeOK
    /\ parsed + Cardinality(Storing) <= CacheLimit + Cardinality(Threads)

LEMMA CacheStep ==
    ASSUME IsFiniteSet(Threads), CacheInv, [Next]_vars
    PROVE  CacheInv'
<1>. USE DEF CacheInv
<1>1. TypeOK'
  BY TypeStep
<1>2. /\ Cardinality(Threads) \in Nat
      /\ IsFiniteSet(Storing) /\ Cardinality(Storing) \in Nat
      /\ IsFiniteSet(Storing') /\ Cardinality(Storing') \in Nat
      /\ Cardinality(Storing') <= Cardinality(Threads)
  BY FS_Subset, FS_CardinalityType DEF Storing
<1>3. parsed \in Nat /\ parsed' \in Nat /\ CacheLimit \in Nat
  BY <1>1, LimitAssumption DEF TypeOK
<1>4. ASSUME parsed' = parsed, Storing' = Storing
      PROVE  parsed' + Cardinality(Storing') <= CacheLimit + Cardinality(Threads)
  BY <1>4
<1>5. CASE UNCHANGED vars
  BY <1>1, <1>4, <1>5 DEF vars, Storing
<1>6. ASSUME NEW t \in Threads, Query(t) PROVE CacheInv'
  <2>1. CASE ParseMiss(t)
    <3>1. parsed' <= CacheLimit
      BY <2>1, <1>3 DEF ParseMiss
    <3>. QED  BY <3>1, <1>1, <1>2, <1>3
  <2>2. CASE Store(t)
    <3>1. t \in Storing /\ Storing' = Storing \ {t}
      BY <2>2 DEF Store, Enter, Storing, TypeOK
    <3>2. Cardinality(Storing') = Cardinality(Storing) - 1
      BY <3>1, <1>2, FS_RemoveElement
    <3>3. parsed' <= parsed + 1
      BY <2>2, <1>3 DEF Store
    <3>. QED  BY <3>2, <3>3, <1>1, <1>2, <1>3
  <2>3. CASE \/ ParseHit(t) \/ Refuse(t)
             \/ \E statement \in Offered : Begin(t, statement)
             \/ \E stage \in {"next", "idle"} : Count(t, stage)
    <3>1. parsed' = parsed /\ Storing' = Storing
      BY <2>3 DEF ParseHit, Receive, Refuse, Begin, Count, Enter, Storing,
         Outcomes, TypeOK
    <3>. QED  BY <3>1, <1>1, <1>4
  <2>. QED  BY <1>6, <2>1, <2>2, <2>3 DEF Query
<1>7. ASSUME NEW t \in Threads, Execution(t) PROVE CacheInv'
  <2>1. parsed' = parsed
    BY <1>7 DEF Execution, LockMap, Visiting, Visit, Missing, CreateDb, DropDb,
       LockDb, Working, Look, Copy, ChangeRows, ChangeTable, CreateTable,
       DropTable, Restore, EndPart
  <2>2. /\ pc[t] # "store"
        /\ pc' = pc \/ \E stage \in Stages \ {"store"} : Enter(t, stage)
    <3>1. ASSUME Leave(t) \/ Fail(t) \/ NotFound(t)
          PROVE  \E stage \in Stages \ {"store"} : Enter(t, stage)
      BY <3>1 DEF Leave, Fail, NotFound, Stages, Outcomes
    <3>2. CASE LockMap(t) \/ LockDb(t)
      BY <3>2 DEF LockMap, LockDb, Stages
    <3>3. CASE Visiting(t)
      BY <3>1, <3>3 DEF Visiting, Visit, Missing, CreateDb, DropDb, At, Stages
    <3>4. CASE Working(t)
      BY <3>1, <3>4 DEF Working, Look, Copy, ChangeRows, ChangeTable, CreateTable,
         DropTable, Restore, At
    <3>5. CASE EndPart(t)
      BY <3>5 DEF EndPart, PartIsOver, Outcome, Stages, Outcomes
    <3>. QED  BY <1>7, <3>2, <3>3, <3>4, <3>5 DEF Execution
  <2>3. Storing' = Storing
    BY <2>2 DEF Enter, Storing, TypeOK
  <2>. QED  BY <2>1, <2>3, <1>1, <1>4
<1>. QED  BY <1>5, <1>6, <1>7 DEF Next

(* With finitely many worker threads the cache of parsed statements does   *)
(* not grow past its limit by more than their number, though its size is   *)
(* looked at long before the insertion, without a lock.                    *)
THEOREM ParseCacheIsBounded ==
    ASSUME IsFiniteSet(Threads)
    PROVE  Spec => []ParseCacheBounded
<1>1. Init => CacheInv
  <2>. SUFFICES ASSUME Init PROVE CacheInv
    OBVIOUS
  <2>1. Storing = {} /\ parsed = 0
    BY DEF Init, Storing
  <2>2. Cardinality(Storing) = 0 /\ Cardinality(Threads) \in Nat
    BY <2>1, FS_EmptySet, FS_CardinalityType
  <2>. QED  BY <2>1, <2>2, TypeInit, LimitAssumption DEF CacheInv
<1>2. CacheInv /\ [Next]_vars => CacheInv'
  BY CacheStep
<1>3. CacheInv => ParseCacheBounded
  <2>1. Cardinality(Storing) \in Nat /\ Cardinality(Threads) \in Nat
    BY FS_Subset, FS_CardinalityType DEF Storing
  <2>. QED  BY <2>1, LimitAssumption DEF CacheInv, TypeOK, ParseCacheBounded
<1>. QED  BY <1>1, <1>2, <1>3, PTL DEF Spec
=============================================================================
