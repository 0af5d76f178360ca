--------------------------- MODULE SessionsProofs ---------------------------
(***************************************************************************)
(* Proofs about Sessions, for every number of sessions and databases: type *)
(* correctness and the soundness of the L0 result cache, whatever the      *)
(* clients do, and the accounts of the rows through transactions, when     *)
(* clients do not repeat the text of a write.                              *)
(***************************************************************************)
EXTENDS Sessions, TLAPS

-----------------------------------------------------------------------------
(* Type correctness. *)

LEMMA ConstantFacts ==
    /\ Ok # Error /\ None # Ok /\ None # Error
    /\ Ok \notin Rows /\ Error \notin Rows /\ None \notin Rows
BY ResultAssumption

(* The rows that the accounts and the tables hold per session. *)
Book(N) == [Dbs -> [Sessions -> N]]

(* Crediting a session with a row, and emptying a database. *)
LEMMA BookType ==
    ASSUME TypeOK, NEW s \in Sessions
    PROVE  /\ \A book \in Book(Nat) : /\ Credited(book, s) \in Book(Nat)
                                     /\ Emptied(book, s) \in Book(Nat)
           /\ \A book \in Book(Int) : /\ Credited(book, s) \in Book(Int)
                                     /\ Emptied(book, s) \in Book(Int)
<1>1. current_db[s] \in Dbs
  BY DEF TypeOK
<1>. QED  BY <1>1 DEF Credited, Emptied, Book

LEMMA BooksTyped ==
    ASSUME TypeOK
    PROVE  kept \in Book(Int) /\ open_rows \in Book(Int) /\ contents \in Book(Nat)
BY DEF TypeOK, Book, Rows

BooksTypeOK == kept \in Book(Int) /\ open_rows \in Book(Int) /\ mixed \in BOOLEAN

LEMMA AccountType ==
    ASSUME TypeOK, NEW s \in Sessions, NEW closed \in Book(Int),
           NEW open \in Book(Int), Account(s, closed, open)
    PROVE  BooksTypeOK'
<1>1. Blank \in Book(Int)
  BY DEF Blank, Book
<1>. QED  BY <1>1 DEF Account, BooksTypeOK, TypeOK, Book

LEMMA SettleType ==
    ASSUME TypeOK, NEW s \in Sessions, Settle(s)
    PROVE  BooksTypeOK'
<1>. DEFINE closed == [d \in Dbs |-> [t \in Sessions |->
                          kept[d][t] + open_rows[d][t]]]
<1>1. closed \in Book(Int) /\ Blank \in Book(Int)
  BY BooksTyped DEF Book, Blank
<1>2. CASE txn[s] = None
  BY <1>2, BooksTyped DEF Settle, books, BooksTypeOK, TypeOK
<1>3. CASE txn[s] # None
  <2>1. Account(s, closed, Blank)
    BY <1>3 DEF Settle
  <2>. HIDE DEF closed
  <2>. QED  BY <1>1, <2>1, AccountType
<1>. QED  BY <1>2, <1>3

LEMMA AcknowledgeType ==
    ASSUME TypeOK, NEW s \in Sessions, Acknowledge(s)
    PROVE  BooksTypeOK'
BY BookType, BooksTyped, AccountType DEF Acknowledge

(* The marks of answers that are overtaken. *)
LEMMA StandingType ==
    ASSUME TypeOK, NEW s \in Sessions
    PROVE  /\ \A m \in Standing :
                 [standing EXCEPT ![s] = m] \in [Sessions -> Standing]
           /\ CountedWrite(s) => standing' \in [Sessions -> Standing]
           /\ UncountedWrite(s) => standing' \in [Sessions -> Standing]
BY DEF TypeOK, Standing, CountedWrite, UncountedWrite, Overtaken

LEMMA EnteredType ==
    ASSUME TypeOK, NEW s \in Sessions, NEW q \in Query
    PROVE  Entered(s, q) \in [Sessions -> Dbs]
BY DEF TypeOK, Entered, Query

(* Looking a statement up. *)
LEMMA LookupType ==
    ASSUME TypeOK, NEW s \in Sessions, NEW q \in Query,
           CacheHit(s, q) \/ CacheMiss(s, q)
    PROVE  TypeOK'
<1>1. CASE CacheHit(s, q)
  <2>1. BooksTypeOK'
    BY <1>1, AcknowledgeType, BooksTyped DEF CacheHit, books, BooksTypeOK, TypeOK
  <2>2. current_db' \in [Sessions -> Dbs]
    BY <1>1, EnteredType DEF CacheHit
  <2>3. UNCHANGED <<contents, write_gen, l0, txn, pc, work, copy, standing>>
    BY <1>1 DEF CacheHit, engine
  <2>. QED  BY <2>1, <2>2, <2>3 DEF TypeOK, Entry, BooksTypeOK, Book
<1>2. CASE CacheMiss(s, q)
  <2>1. current_db' \in [Sessions -> Dbs]
    BY <1>2, EnteredType DEF CacheMiss
  <2>2. [query |-> q, bytes |-> Error] \in Work
    BY DEF Work
  <2>3. [query |-> q, bytes |-> Error] # None
    BY <2>2, ResultAssumption
  <2>4. standing' \in [Sessions -> Standing]
    BY <1>2, StandingType DEF CacheMiss, Standing
  <2>. QED  BY <1>2, <2>1, <2>2, <2>3, <2>4 DEF CacheMiss, TypeOK, engine, books, Entry
<1>. QED  BY <1>1, <1>2

(* The engine's result of a statement. *)
LEMMA ExecutedType ==
    ASSUME TypeOK, NEW s \in Sessions, pc[s] = "execute",
           NEW result \in Answer \cup {Error}, Executed(s, result)
    PROVE  /\ pc' \in [Sessions -> {"idle", "execute", "bump", "reply",
                                    "begin", "restore"}]
           /\ work' \in [Sessions -> Work \cup {None}]
           /\ \A t \in Sessions :
                 pc'[t] \in {"execute", "bump", "reply"} <=> work'[t] # None
           /\ work'[s].query = work[s].query /\ work'[s].bytes = result
           /\ UNCHANGED <<write_gen, current_db, l0, txn, copy>>
<1>1. work[s] \in Work
  BY DEF TypeOK
<1>2. [work[s] EXCEPT !.bytes = result] \in Work
  BY <1>1 DEF Work
<1>3. work' = [work EXCEPT ![s] = [work[s] EXCEPT !.bytes = result]]
  BY DEF Executed
<1>4. [work[s] EXCEPT !.bytes = result] # None
  BY <1>2, ResultAssumption
<1>5. work' \in [Sessions -> Work \cup {None}]
  BY <1>2, <1>3 DEF TypeOK
<1>6. /\ work'[s] = [work[s] EXCEPT !.bytes = result]
      /\ \A t \in Sessions \ {s} : work'[t] = work[t]
  BY <1>3 DEF TypeOK
<1>7. /\ pc' \in [Sessions -> {"idle", "execute", "bump", "reply",
                               "begin", "restore"}]
      /\ pc'[s] \in {"bump", "reply"}
      /\ \A t \in Sessions \ {s} : pc'[t] = pc[t]
  BY DEF Executed, TypeOK
<1>8. ASSUME NEW t \in Sessions
      PROVE  pc'[t] \in {"execute", "bump", "reply"} <=> work'[t] # None
  <2>1. CASE t = s
    BY <1>4, <1>6, <1>7, <2>1
  <2>2. CASE t # s
    BY <1>6, <1>7, <2>2 DEF TypeOK
  <2>. QED  BY <2>1, <2>2
<1>9. work'[s].query = work[s].query /\ work'[s].bytes = result
  BY <1>1, <1>6 DEF Work
<1>10. UNCHANGED <<write_gen, current_db, l0, txn, copy>>
  BY DEF Executed
<1>. QED  BY <1>5, <1>7, <1>8, <1>9, <1>10

LEMMA DeleteRowsType ==
    ASSUME TypeOK, NEW s \in Sessions, DeleteRows(s)
    PROVE  contents' \in Book(Nat) /\ BooksTypeOK'
<1>1. contents' \in Book(Nat)
  BY BookType, BooksTyped DEF DeleteRows
<1>2. TakenAway(s) \in Book(Int)
  <2>1. current_db[s] \in Dbs
    BY DEF TypeOK
  <2>. QED  BY <2>1, BooksTyped DEF TakenAway, Book
<1>3. BooksTypeOK'
  BY <1>2, BookType, BooksTyped, AccountType DEF DeleteRows
<1>. QED  BY <1>1, <1>3

LEMMA InsertRowType ==
    ASSUME TypeOK, NEW s \in Sessions, InsertRow(s)
    PROVE  contents' \in Book(Nat) /\ BooksTypeOK'
BY BookType, BooksTyped, AcknowledgeType DEF InsertRow

LEMMA ExecuteType ==
    ASSUME TypeOK, NEW s \in Sessions,
           \/ Refuse(s) \/ ExecuteRead(s) \/ ExecuteUse(s)
           \/ ExecuteInsert(s) \/ ExecuteDeleteAll(s) \/ ExecuteFailingWrite(s)
    PROVE  TypeOK'
<1>1. \E result \in Answer \cup {Error} : Executed(s, result)
  BY DEF TypeOK, Answer, Refuse, ExecuteRead, ExecuteUse, ExecuteInsert,
         ExecuteDeleteAll, ExecuteFailingWrite
<1>2. pc[s] = "execute"
  BY DEF Refuse, ExecuteRead, ExecuteUse, ExecuteInsert, ExecuteDeleteAll,
         ExecuteFailingWrite, Executing
<1>3. contents' \in Book(Nat) /\ BooksTypeOK'
  <2>1. CASE InsertRow(s)
    BY <2>1, InsertRowType
  <2>2. CASE DeleteRows(s)
    BY <2>2, DeleteRowsType
  <2>3. CASE UNCHANGED <<contents, books>>
    BY <2>3, BooksTyped DEF books, BooksTypeOK, TypeOK
  <2>. QED
    BY <2>1, <2>2, <2>3
       DEF Refuse, ExecuteRead, ExecuteUse, ExecuteInsert, ExecuteDeleteAll,
           ExecuteFailingWrite, history
<1>4. /\ pc' \in [Sessions -> {"idle", "execute", "bump", "reply",
                               "begin", "restore"}]
      /\ work' \in [Sessions -> Work \cup {None}]
      /\ \A t \in Sessions :
            pc'[t] \in {"execute", "bump", "reply"} <=> work'[t] # None
      /\ UNCHANGED <<write_gen, current_db, l0, txn, copy>>
  BY <1>1, <1>2, ExecutedType
<1>5. standing' \in [Sessions -> Standing]
  BY StandingType
     DEF Refuse, ExecuteRead, ExecuteUse, ExecuteInsert, ExecuteDeleteAll,
         ExecuteFailingWrite, history, Standing, TypeOK
<1>. QED  BY <1>3, <1>4, <1>5 DEF TypeOK, Entry, BooksTypeOK, Book, Rows

LEMMA ReplyType ==
    ASSUME TypeOK, NEW s \in Sessions, Bump(s) \/ Reply(s)
    PROVE  TypeOK'
<1>1. CASE Bump(s)
  <2>1. l0 \in [Sessions -> Entry' \cup {None}]
    BY <1>1 DEF Bump, TypeOK, Entry
  <2>2. write_gen' \in Nat
    BY <1>1 DEF Bump, TypeOK
  <2>. QED  BY <1>1, <2>1, <2>2 DEF Bump, TypeOK, history, books, Entry
<1>2. CASE Reply(s)
  <2>1. work[s] \in Work
    BY <1>2 DEF TypeOK, Reply
  <2>2. work[s].bytes # Error =>
           [query |-> work[s].query, gen |-> write_gen, bytes |-> work[s].bytes]
               \in Entry
    BY <2>1 DEF Work, Entry, TypeOK
  <2>3. l0' \in [Sessions -> Entry \cup {None}]
    BY <1>2, <2>2 DEF Reply, TypeOK
  <2>. QED  BY <1>2, <2>3 DEF Reply, TypeOK, engine, history, books, Entry
<1>. QED  BY <1>1, <1>2

LEMMA OtherType ==
    ASSUME TypeOK, NEW s \in Sessions, NEW d \in Dbs,
           ExecutePrepared(s) \/ InitDb(s, d) \/ Reconnect(s, d)
    PROVE  TypeOK'
<1>1. CASE ExecutePrepared(s)
  <2>1. contents' \in Book(Nat) /\ BooksTypeOK'
    BY <1>1, InsertRowType DEF ExecutePrepared
  <2>2. standing' \in [Sessions -> Standing]
    BY <1>1, StandingType DEF ExecutePrepared
  <2>. QED  BY <1>1, <2>1, <2>2
            DEF ExecutePrepared, TypeOK, Entry, BooksTypeOK, Book, Rows
<1>2. CASE InitDb(s, d)
  <2>1. standing' \in [Sessions -> Standing]
    BY <1>2, StandingType DEF InitDb, Standing
  <2>. QED  BY <1>2, <2>1 DEF InitDb, TypeOK, engine, books, Entry
<1>3. CASE Reconnect(s, d)
  <2>1. BooksTypeOK'
    BY <1>3, SettleType DEF Reconnect
  <2>2. standing' \in [Sessions -> Standing]
    BY <1>3, StandingType DEF Reconnect, Standing
  <2>. QED  BY <1>3, <2>1, <2>2
            DEF Reconnect, TypeOK, engine, Entry, BooksTypeOK, Book
<1>. QED  BY <1>1, <1>2, <1>3

(* A session's copy of databases stays a partial copy. *)
LEMMA CopyType ==
    ASSUME TypeOK, NEW s \in Sessions, NEW c,
           DOMAIN c \subseteq Dbs, c \in [DOMAIN c -> Rows],
           copy' = [copy EXCEPT ![s] = c]
    PROVE  /\ DOMAIN copy' = Sessions
           /\ \A t \in Sessions : /\ DOMAIN copy'[t] \subseteq Dbs
                                  /\ copy'[t] \in [DOMAIN copy'[t] -> Rows]
<1>1. DOMAIN copy' = Sessions
  BY DEF TypeOK
<1>2. ASSUME NEW t \in Sessions
      PROVE  DOMAIN copy'[t] \subseteq Dbs /\ copy'[t] \in [DOMAIN copy'[t] -> Rows]
  <2>1. CASE t = s
    BY <2>1 DEF TypeOK
  <2>2. CASE t # s
    BY <2>2 DEF TypeOK
  <2>. QED  BY <2>1, <2>2
<1>. QED  BY <1>1, <1>2

LEMMA BeginType ==
    ASSUME TypeOK, NEW s \in Sessions, NEW d \in Dbs,
           Begin(s) \/ CopyDatabase(s, d) \/ Begun(s)
    PROVE  TypeOK'
<1>1. NoCopy \in [DOMAIN NoCopy -> Rows] /\ DOMAIN NoCopy \subseteq Dbs
  BY DEF NoCopy
<1>2. CASE Begin(s)
  <2>1. copy' = [copy EXCEPT ![s] = NoCopy]
    BY <1>2 DEF Begin
  <2>2. /\ DOMAIN copy' = Sessions
        /\ \A t \in Sessions : /\ DOMAIN copy'[t] \subseteq Dbs
                               /\ copy'[t] \in [DOMAIN copy'[t] -> Rows]
    BY <1>1, <2>1, CopyType
  <2>3. BooksTypeOK'
    BY <1>2, BooksTyped, AccountType DEF Begin
  <2>. QED  BY <1>2, <2>2, <2>3
            DEF Begin, TypeOK, engine, Entry, BooksTypeOK, Book
<1>3. CASE CopyDatabase(s, d)
  <2>. DEFINE c == [e \in DOMAIN copy[s] \cup {d} |->
                       IF e = d THEN contents[d] ELSE copy[s][e]]
  <2>1. copy' = [copy EXCEPT ![s] = c]
    BY <1>3 DEF CopyDatabase
  <2>2. DOMAIN c \subseteq Dbs /\ c \in [DOMAIN c -> Rows]
    BY DEF TypeOK
  <2>3. /\ DOMAIN copy' = Sessions
        /\ \A t \in Sessions : /\ DOMAIN copy'[t] \subseteq Dbs
                               /\ copy'[t] \in [DOMAIN copy'[t] -> Rows]
    <3>. HIDE DEF c
    <3>. QED  BY <2>1, <2>2, CopyType
  <2>. QED  BY <1>3, <2>3 DEF CopyDatabase, TypeOK, engine, history, books, Entry
<1>4. CASE Begun(s)
  <2>1. copy' = [copy EXCEPT ![s] = NoCopy]
    BY <1>4 DEF Begun
  <2>2. /\ DOMAIN copy' = Sessions
        /\ \A t \in Sessions : /\ DOMAIN copy'[t] \subseteq Dbs
                               /\ copy'[t] \in [DOMAIN copy'[t] -> Rows]
    BY <1>1, <2>1, CopyType
  <2>3. txn' \in [Sessions -> [Dbs -> Rows] \cup {None}]
    BY <1>4 DEF Begun, TypeOK
  <2>4. BooksTypeOK'
    BY <1>4, SettleType DEF Begun
  <2>. QED  BY <1>4, <2>2, <2>3, <2>4
            DEF Begun, TypeOK, engine, Entry, BooksTypeOK, Book
<1>. QED  BY <1>2, <1>3, <1>4

LEMMA EndType ==
    ASSUME TypeOK, NEW s \in Sessions, NEW d \in Dbs,
           \/ Commit(s) \/ Rollback(s) \/ RestoreDatabase(s, d)
           \/ RolledBack(s)
    PROVE  TypeOK'
<1>1. CASE Commit(s)
  <2>1. BooksTypeOK'
    BY <1>1, SettleType DEF Commit
  <2>. QED  BY <1>1, <2>1 DEF Commit, TypeOK, engine, Entry, BooksTypeOK, Book
<1>2. CASE Rollback(s)
  <2>1. txn[s] \in [Dbs -> Rows] /\ copy' = [copy EXCEPT ![s] = txn[s]]
    BY <1>2 DEF Rollback, TypeOK
  <2>2. DOMAIN txn[s] \subseteq Dbs /\ txn[s] \in [DOMAIN txn[s] -> Rows]
    BY <2>1
  <2>3. /\ DOMAIN copy' = Sessions
        /\ \A t \in Sessions : /\ DOMAIN copy'[t] \subseteq Dbs
                               /\ copy'[t] \in [DOMAIN copy'[t] -> Rows]
    BY <2>1, <2>2, CopyType
  <2>. QED  BY <1>2, <2>3 DEF Rollback, TypeOK, engine, history, books, Entry
<1>3. CASE RestoreDatabase(s, d)
  <2>. DEFINE c == [e \in DOMAIN copy[s] \ {d} |-> copy[s][e]]
  <2>1. copy' = [copy EXCEPT ![s] = c]
    BY <1>3 DEF RestoreDatabase
  <2>2. DOMAIN c \subseteq Dbs /\ c \in [DOMAIN c -> Rows]
    BY DEF TypeOK
  <2>3. /\ DOMAIN copy' = Sessions
        /\ \A t \in Sessions : /\ DOMAIN copy'[t] \subseteq Dbs
                               /\ copy'[t] \in [DOMAIN copy'[t] -> Rows]
    <3>. HIDE DEF c
    <3>. QED  BY <2>1, <2>2, CopyType
  <2>4. contents' \in [Dbs -> Rows]
    BY <1>3 DEF RestoreDatabase, TypeOK
  <2>5. standing' \in [Sessions -> Standing]
    BY <1>3 DEF RestoreDatabase, TypeOK, Standing
  <2>. QED  BY <1>3, <2>3, <2>4, <2>5 DEF RestoreDatabase, TypeOK, books, Entry
<1>4. CASE RolledBack(s)
  <2>1. l0 \in [Sessions -> Entry' \cup {None}] /\ write_gen' \in Nat
    BY <1>4 DEF RolledBack, TypeOK, Entry
  <2>2. Blank \in Book(Int)
    BY DEF Blank, Book
  <2>3. BooksTypeOK'
    BY <1>4, <2>2, BooksTyped, AccountType DEF RolledBack
  <2>. QED  BY <1>4, <2>1, <2>3 DEF RolledBack, TypeOK, Entry, BooksTypeOK, Book
<1>. QED  BY <1>1, <1>2, <1>3, <1>4

LEMMA InitType == Init => TypeOK
<1>. SUFFICES ASSUME Init PROVE TypeOK
  OBVIOUS
<1>1. [s \in Sessions |-> 0] \in Rows
  BY DEF Rows
<1>2. NoCopy \in [DOMAIN NoCopy -> Rows] /\ DOMAIN NoCopy \subseteq Dbs
  BY DEF NoCopy
<1>3. copy = [s \in Sessions |-> NoCopy]
  BY DEF Init
<1>4. Blank \in Book(Int)
  BY DEF Blank, Book
<1>5. kept \in Book(Int) /\ open_rows \in Book(Int) /\ mixed \in BOOLEAN
  BY <1>4 DEF Init
<1>6. /\ DOMAIN copy = Sessions
      /\ \A s \in Sessions : /\ DOMAIN copy[s] \subseteq Dbs
                             /\ copy[s] \in [DOMAIN copy[s] -> Rows]
  <2>. HIDE DEF NoCopy
  <2>. QED  BY <1>2, <1>3
<1>7. /\ contents \in [Dbs -> Rows]
      /\ write_gen \in Nat
      /\ current_db \in [Sessions -> Dbs]
      /\ l0 \in [Sessions -> Entry \cup {None}]
      /\ txn \in [Sessions -> [Dbs -> Rows] \cup {None}]
      /\ pc \in [Sessions -> {"idle"}]
      /\ work = [s \in Sessions |-> None]
      /\ standing \in [Sessions -> Standing]
  BY <1>1 DEF Init, Standing
<1>8. /\ pc \in [Sessions -> {"idle", "execute", "bump", "reply",
                              "begin", "restore"}]
      /\ work \in [Sessions -> Work \cup {None}]
      /\ \A s \in Sessions :
            pc[s] \in {"execute", "bump", "reply"} <=> work[s] # None
  BY <1>7
<1>. QED  BY <1>5, <1>6, <1>7, <1>8 DEF TypeOK, Book

LEMMA NextType == TypeOK /\ [Next]_vars => TypeOK'
<1>1. CASE Next
  <2>1. SUFFICES ASSUME TypeOK, Next PROVE TypeOK'
    BY <1>1
  <2>2. PICK s \in Sessions :
            \/ Statement(s)
            \/ ExecutePrepared(s)
            \/ Transaction(s)
            \/ \E d \in Dbs : InitDb(s, d) \/ Reconnect(s, d)
    BY <2>1 DEF Next
  <2>3. \E d : d \in Dbs
    BY <2>1 DEF TypeOK
  <2>4. CASE Statement(s)
    BY <2>1, <2>4, LookupType, ExecuteType, ReplyType DEF Statement
  <2>5. CASE Transaction(s)
    BY <2>1, <2>3, <2>5, BeginType, EndType DEF Transaction
  <2>. QED  BY <2>1, <2>2, <2>3, <2>4, <2>5, OtherType
<1>2. CASE UNCHANGED vars
  BY <1>2 DEF vars, engine, history, books, TypeOK, Entry
<1>. QED  BY <1>1, <1>2

(* Whatever the clients do the tables hold counts of rows, a cache entry has  *)
(* a generation that has been reached, and a task at work knows on what.   *)
THEOREM TypeCorrect == Spec => []TypeOK
BY InitType, NextType, PTL DEF Spec

-----------------------------------------------------------------------------
(* Soundness of the L0 cache. *)

(* What an answer promises to the session that has read it, as long as its *)
(* standing lasts.                                                         *)
Sound(s, bytes) ==
    /\ standing[s] # "outdated" => bytes \in Rows
    /\ standing[s] = "current" => bytes = contents[current_db[s]]
    /\ standing[s] # "outdated" => bytes[s] >= contents[current_db[s]][s]

(* The answer a session is about to send and to cache is sound, and an     *)
(* error leaves a cache entry that promises nothing.                       *)
AnswerSound(s) ==
    pc[s] = "reply" =>
       /\ work[s].bytes = Error => standing[s] = "outdated"
       /\ work[s].bytes # Error /\ work[s].query.kind = "read"
              => Sound(s, work[s].bytes)

(* Only an OK is counted, and a read has none. *)
OkCounted(s) ==
    pc[s] = "bump" => work[s].bytes = Ok /\ work[s].query.kind # "read"

(* An entry that may serve the next SELECT is sound, while the session     *)
(* copies databases for BEGIN too.                                         *)
EntrySound(s) ==
    /\ pc[s] \in {"idle", "begin"} /\ AllCounted
    /\ l0[s] # None
    /\ l0[s].query.kind = "read" /\ l0[s].gen = write_gen
    => Sound(s, l0[s].bytes)

CacheInv ==
    /\ TypeOK
    /\ \A s \in Sessions : AnswerSound(s) /\ OkCounted(s) /\ EntrySound(s)

(* The session t has no part in the step. *)
Bystander(t) ==
    /\ pc'[t] = pc[t]
    /\ work'[t] = work[t]
    /\ l0'[t] = l0[t]
    /\ current_db'[t] = current_db[t]

(* A step that changes no table and not the generation leaves bystanders   *)
(* as they are.                                                            *)
LEMMA QuietBystander ==
    ASSUME CacheInv, UNCHANGED <<contents, write_gen>>, AllCounted' => AllCounted,
           NEW t \in Sessions, Bystander(t), standing'[t] = standing[t]
    PROVE  AnswerSound(t)' /\ OkCounted(t)' /\ EntrySound(t)'
BY DEF CacheInv, AnswerSound, OkCounted, EntrySound, Sound, Bystander

(* Once counted, a write leaves no entry that could be used. *)
LEMMA CountedEntry ==
    ASSUME TypeOK, write_gen' = write_gen + 1, l0' = l0, NEW t \in Sessions
    PROVE  EntrySound(t)'
<1>1. l0[t] # None => l0[t].gen \in 0 .. write_gen
  BY DEF TypeOK, Entry
<1>2. l0[t] # None => l0[t].gen # write_gen + 1
  BY <1>1 DEF TypeOK
<1>. QED  BY <1>2 DEF EntrySound

(* The rows of a bystander never grow by the write of another session.     *)
LEMMA WriteShrinksOthers ==
    ASSUME TypeOK, NEW s \in Sessions, InsertRow(s) \/ DeleteRows(s),
           NEW t \in Sessions, t # s, NEW d \in Dbs
    PROVE  /\ contents[d][t] \in Nat /\ contents'[d][t] \in Nat
           /\ contents'[d][t] =< contents[d][t]
<1>1. current_db[s] \in Dbs /\ contents[d][t] \in Nat /\ contents \in Book(Nat)
  BY DEF TypeOK, Rows, Book
<1>2. CASE InsertRow(s)
  BY <1>1, <1>2 DEF InsertRow, Credited, Book
<1>3. CASE DeleteRows(s)
  BY <1>1, <1>3 DEF DeleteRows, Emptied, Book
<1>. QED  BY <1>2, <1>3

(* A write leaves the promise to a bystander that it overtakes.            *)
LEMMA OvertakenSound ==
    ASSUME TypeOK, NEW s \in Sessions, InsertRow(s) \/ DeleteRows(s),
           NEW t \in Sessions, t # s, current_db'[t] = current_db[t],
           standing'[t] = IF standing[t] = "current" THEN "overtaken"
                          ELSE standing[t],
           NEW bytes, Sound(t, bytes)
    PROVE  Sound(t, bytes)'
<1>1. current_db[t] \in Dbs
  BY DEF TypeOK
<1>2. /\ contents[current_db[t]][t] \in Nat
      /\ contents'[current_db[t]][t] \in Nat
      /\ contents'[current_db[t]][t] =< contents[current_db[t]][t]
  BY <1>1, WriteShrinksOthers
<1>3. standing[t] # "outdated" => bytes \in Rows /\ bytes[t] \in Nat
  BY DEF Sound, Rows
<1>4. CASE standing[t] = "outdated"
  BY <1>4 DEF Sound
<1>5. CASE standing[t] # "outdated"
  <2>1. bytes[t] >= contents[current_db[t]][t]
    BY <1>5 DEF Sound
  <2>2. bytes[t] >= contents'[current_db'[t]][t]
    BY <1>2, <1>3, <1>5, <2>1
  <2>3. standing'[t] # "current"
    BY DEF TypeOK, Standing
  <2>. QED  BY <1>3, <1>5, <2>2, <2>3 DEF Sound
<1>. QED  BY <1>4, <1>5

LEMMA LookupCache ==
    ASSUME CacheInv, NEW s \in Sessions, NEW q \in Query,
           CacheHit(s, q) \/ CacheMiss(s, q), TypeOK'
    PROVE  CacheInv'
<1>0. TypeOK
  BY DEF CacheInv
<1>1. /\ UNCHANGED <<contents, write_gen, l0>>
      /\ \A t \in Sessions \ {s} : Bystander(t) /\ standing'[t] = standing[t]
      /\ pc'[s] \in {"idle", "execute"}
      /\ pc[s] = "idle"
  BY <1>0 DEF CacheHit, CacheMiss, engine, books, Entered, TypeOK, Bystander
<1>2. AllCounted' => AllCounted
  BY <1>1 DEF AllCounted, Bystander
<1>3. AnswerSound(s)' /\ OkCounted(s)'
  BY <1>1 DEF AnswerSound, OkCounted
<1>4. EntrySound(s)'
  <2>1. CASE CacheHit(s, q) /\ q.kind = "use"
    BY <2>1 DEF CacheHit, CacheHolds, EntrySound
  <2>2. CASE CacheHit(s, q) /\ q.kind # "use"
    <3>1. UNCHANGED <<current_db, standing, pc>>
      BY <2>2 DEF CacheHit, Entered
    <3>. QED  BY <1>1, <1>2, <3>1 DEF CacheInv, EntrySound, Sound
  <2>3. CASE CacheMiss(s, q)
    BY <1>0, <2>3 DEF CacheMiss, EntrySound, TypeOK
  <2>. QED  BY <2>1, <2>2, <2>3
<1>. QED  BY <1>1, <1>2, <1>3, <1>4, QuietBystander DEF CacheInv

(* The engine's result reaches its session only. *)
LEMMA ExecutedCache ==
    ASSUME CacheInv, NEW s \in Sessions, pc[s] = "execute",
           NEW result \in Answer \cup {Error}, Executed(s, result)
    PROVE  /\ UNCHANGED <<write_gen, current_db, l0>>
           /\ \A t \in Sessions \ {s} : Bystander(t)
           /\ work'[s].query = work[s].query /\ work'[s].bytes = result
           /\ pc'[s] = IF result = Ok THEN "bump" ELSE "reply"
<1>1. /\ UNCHANGED <<write_gen, current_db, l0>>
      /\ work'[s].query = work[s].query /\ work'[s].bytes = result
  BY ExecutedType DEF CacheInv
<1>2. /\ \A t \in Sessions \ {s} : pc'[t] = pc[t] /\ work'[t] = work[t]
      /\ pc'[s] = IF result = Ok THEN "bump" ELSE "reply"
  BY DEF CacheInv, Executed, TypeOK
<1>. QED  BY <1>1, <1>2 DEF Bystander

(* The answer in flight of a bystander of a counted write. *)
LEMMA CountedBystander ==
    ASSUME CacheInv, NEW s \in Sessions, InsertRow(s) \/ DeleteRows(s),
           CountedWrite(s), NEW t \in Sessions, t # s, Bystander(t)
    PROVE  AnswerSound(t)' /\ OkCounted(t)'
<1>1. OkCounted(t)'
  BY DEF CacheInv, OkCounted, Bystander
<1>2. SUFFICES ASSUME pc[t] = "reply", work[t].bytes # Error
               PROVE  work[t].query.kind = "read" => Sound(t, work[t].bytes)'
  <2>1. pc[t] = "reply" /\ work[t].bytes = Error => standing'[t] = standing[t]
    BY DEF CacheInv, AnswerSound, CountedWrite, Overtaken, TypeOK
  <2>. QED  BY <1>1, <2>1 DEF CacheInv, AnswerSound, Bystander
<1>3. standing'[t] = IF standing[t] = "current" THEN "overtaken"
                     ELSE standing[t]
  BY <1>2 DEF CacheInv, TypeOK, CountedWrite, Overtaken, InFlight
<1>4. SUFFICES ASSUME work[t].query.kind = "read"
               PROVE  Sound(t, work[t].bytes)'
  OBVIOUS
<1>5. Sound(t, work[t].bytes)
  BY <1>2, <1>4 DEF CacheInv, AnswerSound
<1>. DEFINE bytes == work[t].bytes
<1>6. Sound(t, bytes)'
  <2>1. bytes' = bytes /\ current_db'[t] = current_db[t]
    BY DEF Bystander
  <2>2. ASSUME NEW b, Sound(t, b), TypeOK
        PROVE  /\ standing'[t] # "outdated" => b \in Rows
               /\ standing'[t] = "current" => b = contents'[current_db'[t]]
               /\ standing'[t] # "outdated" =>
                     b[t] >= contents'[current_db'[t]][t]
    <3>1. Sound(t, b)'
      BY <1>3, <2>1, <2>2, OvertakenSound
    <3>. QED  BY <3>1 DEF Sound
  <2>. QED  BY <1>5, <2>1, <2>2 DEF Sound, CacheInv
<1>. QED  BY <1>6

(* The entry or the answer in flight of a bystander of an uncounted write. *)
LEMMA UncountedBystander ==
    ASSUME CacheInv, NEW s \in Sessions, InsertRow(s) \/ DeleteRows(s),
           UncountedWrite(s), write_gen' = write_gen, AllCounted' => AllCounted,
           NEW t \in Sessions, t # s, Bystander(t)
    PROVE  AnswerSound(t)' /\ OkCounted(t)' /\ EntrySound(t)'
<1>1. OkCounted(t)'
  BY DEF CacheInv, OkCounted, Bystander
<1>2. current_db'[t] = current_db[t] /\ TypeOK
  BY DEF CacheInv, Bystander
<1>3. standing'[t] = IF pc[t] \in ReadOrCached /\ standing[t] = "current"
                     THEN "overtaken" ELSE standing[t]
  BY <1>2 DEF TypeOK, UncountedWrite, Overtaken
<1>4. ASSUME pc[t] \in {"idle", "begin", "reply"}, NEW b, Sound(t, b)
      PROVE  Sound(t, b)'
  <2>1. standing'[t] = IF standing[t] = "current" THEN "overtaken"
                       ELSE standing[t]
    BY <1>3, <1>4 DEF ReadOrCached
  <2>. QED  BY <1>2, <1>4, <2>1, OvertakenSound
<1>5. AnswerSound(t)'
  <2>1. SUFFICES ASSUME pc[t] = "reply"
                 PROVE  /\ work[t].bytes = Error => standing'[t] = "outdated"
                        /\ work[t].bytes # Error /\ work[t].query.kind = "read"
                              => Sound(t, work[t].bytes)'
    BY DEF AnswerSound, Bystander
  <2>2. work[t].bytes = Error => standing'[t] = "outdated"
    BY <1>3, <2>1 DEF CacheInv, AnswerSound
  <2>3. ASSUME work[t].bytes # Error, work[t].query.kind = "read"
        PROVE  Sound(t, work[t].bytes)'
    <3>1. Sound(t, work[t].bytes) /\ work'[t] = work[t]
      BY <2>1, <2>3 DEF CacheInv, AnswerSound, Bystander
    <3>. QED  BY <1>4, <2>1, <3>1 DEF Sound
  <2>. QED  BY <2>2, <2>3
<1>6. EntrySound(t)'
  <2>1. SUFFICES ASSUME pc[t] \in {"idle", "begin"}, AllCounted,
                        l0[t] # None, l0[t].query.kind = "read",
                        l0[t].gen = write_gen
                 PROVE  Sound(t, l0[t].bytes)'
    BY DEF EntrySound, Bystander
  <2>2. Sound(t, l0[t].bytes) /\ l0'[t] = l0[t]
    BY <2>1 DEF CacheInv, EntrySound, Bystander
  <2>. QED  BY <1>4, <2>1, <2>2 DEF Sound
<1>. QED  BY <1>1, <1>5, <1>6

LEMMA ExecuteCache ==
    ASSUME CacheInv, NEW s \in Sessions,
           \/ Refuse(s) \/ ExecuteRead(s) \/ ExecuteUse(s)
           \/ ExecuteInsert(s) \/ ExecuteDeleteAll(s) \/ ExecuteFailingWrite(s),
           TypeOK'
    PROVE  CacheInv'
<1>0. TypeOK
  BY DEF CacheInv
<1>1. CASE ExecuteRead(s)
  <2>1. /\ contents[current_db[s]] \in Rows
        /\ contents[current_db[s]] \in Answer \cup {Error}
        /\ contents[current_db[s]] # Ok
        /\ contents[current_db[s]] # Error
    BY <1>0, ConstantFacts DEF TypeOK, Answer
  <2>2. /\ pc[s] = "execute" /\ Executed(s, contents[current_db[s]])
        /\ UNCHANGED <<contents, standing>>
    BY <1>1 DEF ExecuteRead, Executing, history
  <2>3. /\ UNCHANGED <<write_gen, current_db, l0>>
        /\ \A t \in Sessions \ {s} : Bystander(t)
        /\ work'[s].bytes = contents[current_db[s]]
        /\ pc'[s] = "reply"
    BY <2>1, <2>2, ExecutedCache
  <2>4. AllCounted' => AllCounted
    BY <2>2, <2>3 DEF AllCounted, Bystander
  <2>5. contents'[current_db'[s]] = contents[current_db[s]]
    BY <2>2, <2>3
  <2>6. contents[current_db[s]][s] >= contents[current_db[s]][s]
    BY <2>1 DEF Rows
  <2>7. AnswerSound(s)' /\ OkCounted(s)' /\ EntrySound(s)'
    BY <2>1, <2>3, <2>5, <2>6 DEF AnswerSound, OkCounted, EntrySound, Sound
  <2>. QED  BY <2>2, <2>3, <2>4, <2>7, QuietBystander DEF CacheInv
<1>2. CASE Refuse(s)
  <2>1. /\ pc[s] = "execute" /\ Executed(s, Error)
        /\ contents' = contents
        /\ standing' = [standing EXCEPT ![s] = "outdated"]
    BY <1>2 DEF Refuse
  <2>2. /\ UNCHANGED <<write_gen, current_db, l0>>
        /\ \A t \in Sessions \ {s} : Bystander(t)
        /\ work'[s].bytes = Error
        /\ pc'[s] = "reply"
    BY <2>1, ExecutedCache, ConstantFacts
  <2>3. AllCounted' => AllCounted
    BY <2>1, <2>2 DEF AllCounted, Bystander
  <2>4. /\ standing'[s] = "outdated"
        /\ \A t \in Sessions \ {s} : standing'[t] = standing[t]
    BY <1>0, <2>1 DEF TypeOK
  <2>5. AnswerSound(s)' /\ OkCounted(s)' /\ EntrySound(s)'
    BY <2>2, <2>4 DEF AnswerSound, OkCounted, EntrySound
  <2>. QED  BY <2>1, <2>2, <2>3, <2>4, <2>5, QuietBystander DEF CacheInv
<1>3. CASE ExecuteUse(s) \/ ExecuteInsert(s) \/ ExecuteDeleteAll(s)
  <2>1. /\ pc[s] = "execute"
        /\ Executed(s, Ok)
        /\ work[s].query.kind # "read"
    BY <1>3 DEF ExecuteUse, ExecuteInsert, ExecuteDeleteAll, Executing
  <2>2. /\ UNCHANGED <<write_gen, current_db, l0>>
        /\ \A t \in Sessions \ {s} : Bystander(t)
        /\ work'[s].query = work[s].query /\ work'[s].bytes = Ok
        /\ pc'[s] = "bump"
    BY <2>1, ExecutedCache DEF Answer
  <2>3. ~AllCounted'
    BY <2>2 DEF AllCounted
  <2>4. \A t \in Sessions : EntrySound(t)'
    BY <2>3 DEF EntrySound
  <2>5. AnswerSound(s)' /\ OkCounted(s)'
    BY <2>1, <2>2 DEF AnswerSound, OkCounted
  <2>6. ASSUME NEW t \in Sessions, t # s
        PROVE  AnswerSound(t)' /\ OkCounted(t)'
    <3>1. CASE ExecuteUse(s)
      <4>1. UNCHANGED <<contents, standing>>
        BY <3>1 DEF ExecuteUse, history
      <4>. QED  BY <2>2, <2>6, <4>1
                DEF CacheInv, AnswerSound, OkCounted, Sound, Bystander
    <3>2. CASE ExecuteInsert(s) \/ ExecuteDeleteAll(s)
      <4>1. CountedWrite(s) /\ (InsertRow(s) \/ DeleteRows(s))
        BY <3>2 DEF ExecuteInsert, ExecuteDeleteAll
      <4>. QED  BY <2>2, <2>6, <4>1, CountedBystander
    <3>. QED  BY <1>3, <3>1, <3>2
  <2>. QED  BY <2>4, <2>5, <2>6 DEF CacheInv
<1>4. CASE ExecuteFailingWrite(s)
  <2>1. /\ pc[s] = "execute" /\ Executed(s, Error)
        /\ DeleteRows(s) /\ UncountedWrite(s)
    BY <1>4 DEF ExecuteFailingWrite, Executing
  <2>2. /\ UNCHANGED <<write_gen, current_db, l0>>
        /\ \A t \in Sessions \ {s} : Bystander(t)
        /\ work'[s].bytes = Error
        /\ pc'[s] = "reply"
    BY <2>1, ExecutedCache, ConstantFacts
  <2>3. AllCounted' => AllCounted
    BY <2>1, <2>2 DEF AllCounted, Bystander
  <2>4. standing'[s] = "outdated"
    BY <1>0, <2>1 DEF UncountedWrite, Overtaken, TypeOK
  <2>5. AnswerSound(s)' /\ OkCounted(s)' /\ EntrySound(s)'
    BY <2>2, <2>4 DEF AnswerSound, OkCounted, EntrySound
  <2>6. ASSUME NEW t \in Sessions, t # s
        PROVE  AnswerSound(t)' /\ OkCounted(t)' /\ EntrySound(t)'
    BY <2>1, <2>2, <2>3, <2>6, UncountedBystander
  <2>. QED  BY <2>5, <2>6 DEF CacheInv
<1>. QED  BY <1>1, <1>2, <1>3, <1>4

LEMMA ReplyCache ==
    ASSUME CacheInv, NEW s \in Sessions, Bump(s) \/ Reply(s), TypeOK'
    PROVE  CacheInv'
<1>0. TypeOK
  BY DEF CacheInv
<1>1. CASE Bump(s)
  <2>1. /\ UNCHANGED <<contents, current_db, work, standing, l0>>
        /\ write_gen' = write_gen + 1
        /\ pc[s] = "bump" /\ pc'[s] = "reply"
        /\ \A t \in Sessions \ {s} : pc'[t] = pc[t]
    BY <1>0, <1>1 DEF Bump, TypeOK, history
  <2>2. \A t \in Sessions : AnswerSound(t)' /\ OkCounted(t)'
    BY <2>1, ConstantFacts DEF CacheInv, AnswerSound, OkCounted, Sound
  <2>3. \A t \in Sessions : EntrySound(t)'
    BY <1>0, <2>1, CountedEntry
  <2>. QED  BY <2>2, <2>3 DEF CacheInv
<1>2. CASE Reply(s)
  <2>1. /\ UNCHANGED <<contents, write_gen, current_db, standing>>
        /\ pc[s] = "reply" /\ pc'[s] = "idle"
        /\ \A t \in Sessions \ {s} : Bystander(t)
    BY <1>0, <1>2 DEF Reply, TypeOK, engine, history, Bystander
  <2>2. AllCounted' => AllCounted
    BY <2>1 DEF AllCounted, Bystander
  <2>3. AnswerSound(s)' /\ OkCounted(s)'
    BY <2>1 DEF AnswerSound, OkCounted
  <2>4. EntrySound(s)'
    <3>1. CASE work[s].bytes = Error
      <4>1. l0' = l0 /\ standing[s] = "outdated"
        BY <1>2, <2>1, <3>1 DEF Reply, CacheInv, AnswerSound
      <4>. QED  BY <2>1, <4>1 DEF EntrySound, Sound
    <3>2. CASE work[s].bytes # Error
      <4>1. work[s].query.kind = "read" => Sound(s, work[s].bytes)
        BY <2>1, <3>2 DEF CacheInv, AnswerSound
      <4>2. l0'[s] = [query |-> work[s].query, gen |-> write_gen,
                      bytes |-> work[s].bytes]
        BY <1>0, <1>2, <3>2 DEF Reply, TypeOK
      <4>. QED  BY <2>1, <4>1, <4>2 DEF EntrySound, Sound
    <3>. QED  BY <3>1, <3>2
  <2>. QED  BY <2>1, <2>2, <2>3, <2>4, QuietBystander DEF CacheInv
<1>. QED  BY <1>1, <1>2

LEMMA OtherCache ==
    ASSUME CacheInv, NEW s \in Sessions, NEW d \in Dbs,
           ExecutePrepared(s) \/ InitDb(s, d) \/ Reconnect(s, d), TypeOK'
    PROVE  CacheInv'
<1>0. TypeOK
  BY DEF CacheInv
<1>1. CASE ExecutePrepared(s)
  <2>1. /\ InsertRow(s) /\ UncountedWrite(s)
        /\ UNCHANGED <<write_gen, current_db, l0, pc, work>>
        /\ pc[s] = "idle"
    BY <1>1 DEF ExecutePrepared
  <2>2. AllCounted' => AllCounted
    BY <2>1 DEF AllCounted
  <2>3. standing'[s] = "outdated"
    BY <1>0, <2>1 DEF UncountedWrite, Overtaken, TypeOK
  <2>4. AnswerSound(s)' /\ OkCounted(s)' /\ EntrySound(s)'
    BY <2>1, <2>3 DEF AnswerSound, OkCounted, EntrySound, Sound
  <2>5. ASSUME NEW t \in Sessions, t # s
        PROVE  AnswerSound(t)' /\ OkCounted(t)' /\ EntrySound(t)'
    <3>1. Bystander(t)
      BY <2>1 DEF Bystander
    <3>. QED  BY <2>1, <2>2, <2>5, <3>1, UncountedBystander
  <2>. QED  BY <2>4, <2>5 DEF CacheInv
<1>2. CASE InitDb(s, d) \/ Reconnect(s, d)
  <2>1. /\ UNCHANGED <<contents, write_gen>>
        /\ \A t \in Sessions \ {s} : Bystander(t) /\ standing'[t] = standing[t]
        /\ pc[s] \in {"idle", "reply"}
        /\ pc'[s] = "idle"
        /\ l0'[s] = None
    BY <1>0, <1>2 DEF InitDb, Reconnect, engine, TypeOK, Bystander
  <2>2. AllCounted' => AllCounted
    BY <2>1 DEF AllCounted, Bystander
  <2>3. AnswerSound(s)' /\ OkCounted(s)' /\ EntrySound(s)'
    BY <2>1 DEF AnswerSound, OkCounted, EntrySound
  <2>. QED  BY <2>1, <2>2, <2>3, QuietBystander DEF CacheInv
<1>. QED  BY <1>1, <1>2

LEMMA TransactionCache ==
    ASSUME CacheInv, NEW s \in Sessions, Transaction(s), TypeOK'
    PROVE  CacheInv'
<1>0. TypeOK
  BY DEF CacheInv
<1>1. CASE \/ Begin(s) \/ Begun(s) \/ Commit(s) \/ Rollback(s)
           \/ \E d \in Dbs : CopyDatabase(s, d)
  <2>1. /\ UNCHANGED <<contents, write_gen, current_db, l0, work, standing>>
        /\ \A t \in Sessions \ {s} : pc'[t] = pc[t]
        /\ pc[s] \in {"idle", "begin"}
        /\ pc'[s] \in {"idle", "begin", "restore"}
    BY <1>0, <1>1
       DEF Begin, Begun, Commit, Rollback, CopyDatabase, engine, history, TypeOK
  <2>2. AllCounted' => AllCounted
    BY <2>1 DEF AllCounted
  <2>3. AnswerSound(s)' /\ OkCounted(s)'
    BY <2>1 DEF AnswerSound, OkCounted
  <2>4. EntrySound(s)'
    BY <2>1, <2>2 DEF CacheInv, EntrySound, Sound
  <2>5. \A t \in Sessions \ {s} : Bystander(t)
    BY <2>1 DEF Bystander
  <2>. QED  BY <2>1, <2>2, <2>3, <2>4, <2>5, QuietBystander DEF CacheInv
<1>2. CASE \E d \in Dbs : RestoreDatabase(s, d)
  <2>1. /\ UNCHANGED <<current_db, pc, work, l0>>
        /\ pc[s] = "restore"
        /\ standing' = [t \in Sessions |->
                          IF t # s /\ pc[t] \in InFlight THEN "outdated"
                          ELSE standing[t]]
    BY <1>2 DEF RestoreDatabase
  <2>2. ~AllCounted'
    BY <2>1 DEF AllCounted
  <2>3. ASSUME NEW t \in Sessions
        PROVE  AnswerSound(t)' /\ OkCounted(t)' /\ EntrySound(t)'
    <3>1. pc[t] = "reply" => standing'[t] = "outdated"
      BY <2>1 DEF InFlight
    <3>. QED  BY <2>1, <2>2, <3>1
              DEF CacheInv, AnswerSound, OkCounted, EntrySound, Sound
  <2>. QED  BY <2>3 DEF CacheInv
<1>3. CASE RolledBack(s)
  <2>1. /\ UNCHANGED <<contents, current_db, work, l0, standing>>
        /\ write_gen' = write_gen + 1
        /\ pc'[s] = "idle"
        /\ \A t \in Sessions \ {s} : pc'[t] = pc[t]
    BY <1>0, <1>3 DEF RolledBack, TypeOK
  <2>2. \A t \in Sessions : AnswerSound(t)' /\ OkCounted(t)'
    BY <2>1 DEF CacheInv, AnswerSound, OkCounted, Sound
  <2>3. \A t \in Sessions : EntrySound(t)'
    BY <1>0, <2>1, CountedEntry
  <2>. QED  BY <2>2, <2>3 DEF CacheInv
<1>. QED  BY <1>1, <1>2, <1>3 DEF Transaction

LEMMA CacheInvInit == Init => CacheInv
BY InitType DEF Init, CacheInv, AnswerSound, OkCounted, EntrySound

LEMMA CacheInvNext == CacheInv /\ [Next]_vars => CacheInv'
<1>. SUFFICES ASSUME CacheInv, [Next]_vars
              PROVE  CacheInv'
  OBVIOUS
<1>1. TypeOK'
  BY NextType DEF CacheInv
<1>2. CASE Next
  <2>1. PICK s \in Sessions :
            \/ Statement(s)
            \/ ExecutePrepared(s)
            \/ Transaction(s)
            \/ \E d \in Dbs : InitDb(s, d) \/ Reconnect(s, d)
    BY <1>2 DEF Next
  <2>2. \E d : d \in Dbs
    BY <2>1 DEF CacheInv, TypeOK
  <2>3. CASE Statement(s)
    BY <1>1, <2>3, LookupCache, ExecuteCache, ReplyCache DEF Statement
  <2>. QED  BY <1>1, <2>1, <2>2, <2>3, OtherCache, TransactionCache
<1>3. CASE UNCHANGED vars
  BY <1>1, <1>3
     DEF vars, engine, history, books, CacheInv, AnswerSound, OkCounted,
         EntrySound, Sound, AllCounted
<1>. QED  BY <1>2, <1>3

LEMMA CacheInvHolds == Spec => []CacheInv
BY CacheInvInit, CacheInvNext, PTL DEF Spec

(* A SELECT that the server answers from the L0 cache is answered with the *)
(* rows that are in the session's current database, unless a write that    *)
(* was not counted, or one between the read and the caching of its answer, *)
(* has overtaken the entry: for any number of sessions, any databases they *)
(* may use, and through USE, COM_INIT_DB, transactions that interleave,    *)
(* failing and refused statements and reconnections.                       *)
THEOREM CacheSoundness == Spec => []EntriesCurrent
<1>1. CacheInv => EntriesCurrent
  BY DEF CacheInv, EntrySound, Sound, EntriesCurrent, Served
<1>. QED  BY <1>1, CacheInvHolds, PTL

(* An overtaken entry still holds every row that the session itself has    *)
(* inserted by text statements: sessions read their own writes.            *)
THEOREM OwnWritesRead == Spec => []OwnRowsNotMissed
<1>1. CacheInv => OwnRowsNotMissed
  BY DEF CacheInv, EntrySound, Sound, OwnRowsNotMissed, Served
<1>. QED  BY <1>1, CacheInvHolds, PTL

-----------------------------------------------------------------------------
(* The accounts of the rows.  As long as transactions are alone, at most   *)
(* one session has a transaction; what it has changed is in open_rows,     *)
(* its snapshot is what was acknowledged before it, and a BEGIN or a       *)
(* ROLLBACK that is half done has met no change of anyone else.            *)

Transacts(s) == txn[s] # None \/ pc[s] \in {"begin", "restore"}

OneTransacts ==
    \A s, t \in Sessions : Transacts(s) /\ Transacts(t) => s = t

(* Nothing is open: no transaction, and none that rolls back. *)
NothingOpen == \A s \in Sessions : txn[s] = None /\ pc[s] # "restore"

NothingRestored == \A s \in Sessions : pc[s] # "restore"

OpenBelongs == NothingOpen =>
    \A d \in Dbs : \A t \in Sessions : open_rows[d][t] = 0

Balanced == NothingRestored =>
    \A d \in Dbs : \A t \in Sessions :
        contents[d][t] = kept[d][t] + open_rows[d][t]

(* What BEGIN has copied so far is still what the tables hold. *)
CopiedCurrent(s) == pc[s] = "begin" =>
    \A d \in DOMAIN copy[s] : \A t \in Sessions : copy[s][d][t] = contents[d][t]

SnapshotKept(s) == txn[s] # None =>
    \A d \in Dbs : \A t \in Sessions : txn[s][d][t] = kept[d][t]

(* ROLLBACK brings every database back to what was kept. *)
RestoresKept(s) == pc[s] = "restore" =>
    \A d \in Dbs : \A t \in Sessions :
        IF d \in DOMAIN copy[s] THEN copy[s][d][t] = kept[d][t]
                                ELSE contents[d][t] = kept[d][t]

AccountsHold ==
    /\ OneTransacts
    /\ OpenBelongs
    /\ Balanced
    /\ \A s \in Sessions : CopiedCurrent(s) /\ SnapshotKept(s) /\ RestoresKept(s)

AccountsInv == TypeOK /\ (~mixed => AccountsHold)

Quietly == {"idle", "execute", "bump", "reply"}

(* A step keeps out of transactions: nobody starts, ends or undoes one. *)
KeepsOut ==
    \A t \in Sessions : pc'[t] = pc[t] \/ (pc[t] \in Quietly /\ pc'[t] \in Quietly)

LEMMA AloneAccount ==
    ASSUME TypeOK, NEW s \in Sessions, NEW closed, NEW open,
           Account(s, closed, open), ~mixed'
    PROVE  ~mixed /\ Alone(s) /\ kept' = closed /\ open_rows' = open
BY DEF Account, TypeOK

LEMMA AloneTransacts ==
    ASSUME NEW s \in Sessions, Alone(s)
    PROVE  \A t \in Sessions \ {s} : ~Transacts(t)
BY DEF Alone, Others, Transacts

LEMMA QuietAccounts ==
    ASSUME AccountsHold, KeepsOut,
           UNCHANGED <<contents, txn, copy, kept, open_rows>>
    PROVE  AccountsHold'
<1>1. \A t \in Sessions : /\ Transacts(t)' <=> Transacts(t)
                          /\ pc'[t] = "begin" <=> pc[t] = "begin"
                          /\ pc'[t] = "restore" <=> pc[t] = "restore"
  BY DEF KeepsOut, Quietly, Transacts
<1>2. NothingOpen' = NothingOpen /\ NothingRestored' = NothingRestored
  BY <1>1 DEF NothingOpen, NothingRestored
<1>3. OneTransacts' /\ OpenBelongs' /\ Balanced'
  BY <1>1, <1>2 DEF AccountsHold, OneTransacts, OpenBelongs, Balanced
<1>4. ASSUME NEW t \in Sessions
      PROVE  CopiedCurrent(t)' /\ SnapshotKept(t)' /\ RestoresKept(t)'
  BY <1>1 DEF AccountsHold, CopiedCurrent, SnapshotKept, RestoresKept
<1>. QED  BY <1>3, <1>4 DEF AccountsHold

(* A session's row in its current database, and no other. *)
LEMMA CreditedAt ==
    ASSUME TypeOK, NEW s \in Sessions
    PROVE  \A book \in Book(Int) : \A d \in Dbs : \A t \in Sessions :
               Credited(book, s)[d][t] =
                   IF d = current_db[s] /\ t = s THEN book[d][t] + 1 ELSE book[d][t]
<1>1. current_db[s] \in Dbs
  BY DEF TypeOK
<1>2. ASSUME NEW book \in Book(Int), NEW d \in Dbs, NEW t \in Sessions
      PROVE  Credited(book, s)[d][t] =
                 IF d = current_db[s] /\ t = s THEN book[d][t] + 1 ELSE book[d][t]
  <2>1. CASE d = current_db[s]
    BY <1>1, <2>1 DEF Credited, Book
  <2>2. CASE d # current_db[s]
    BY <1>1, <2>2 DEF Credited, Book
  <2>. QED  BY <2>1, <2>2
<1>. QED  BY <1>2

(* What an INSERT or a DELETE does to the tables it does to the accounts. *)
LEMMA WriteBooks ==
    ASSUME TypeOK, NEW s \in Sessions, InsertRow(s) \/ DeleteRows(s), ~mixed',
           \A d \in Dbs : \A t \in Sessions :
               contents[d][t] = kept[d][t] + open_rows[d][t]
    PROVE  /\ ~mixed /\ Alone(s)
           /\ \A d \in Dbs : \A t \in Sessions :
                 contents'[d][t] = kept'[d][t] + open_rows'[d][t]
           /\ txn[s] # None => kept' = kept
           /\ txn[s] = None
              /\ (\A d \in Dbs : \A t \in Sessions : open_rows[d][t] = 0)
              => \A d \in Dbs : \A t \in Sessions : open_rows'[d][t] = 0
<1>1. current_db[s] \in Dbs
  BY DEF TypeOK
<1>2. /\ contents \in Book(Nat)
      /\ kept \in Book(Int) /\ open_rows \in Book(Int)
  BY BooksTyped
<1>2a. /\ contents \in Book(Int)
       /\ \A d \in Dbs : \A t \in Sessions : /\ contents[d][t] \in Int
                                            /\ kept[d][t] \in Int
                                            /\ open_rows[d][t] \in Int
  BY <1>2 DEF Book
<1>3. CASE InsertRow(s) /\ txn[s] = None
  <2>1. /\ contents' = Credited(contents, s)
        /\ ~mixed /\ Alone(s)
        /\ kept' = Credited(kept, s) /\ open_rows' = open_rows
    BY <1>3, AloneAccount DEF InsertRow, Acknowledge
  <2>. QED  BY <1>2, <1>2a, <1>3, <2>1, CreditedAt
<1>4. CASE InsertRow(s) /\ txn[s] # None
  <2>1. /\ contents' = Credited(contents, s)
        /\ ~mixed /\ Alone(s)
        /\ kept' = kept /\ open_rows' = Credited(open_rows, s)
    BY <1>4, AloneAccount DEF InsertRow, Acknowledge
  <2>. QED  BY <1>2, <1>2a, <1>4, <2>1, CreditedAt
<1>5. CASE DeleteRows(s) /\ txn[s] = None
  <2>1. /\ contents' = Emptied(contents, s)
        /\ ~mixed /\ Alone(s)
        /\ kept' = Emptied(kept, s) /\ open_rows' = Emptied(open_rows, s)
    BY <1>5, AloneAccount DEF DeleteRows
  <2>. QED  BY <1>1, <1>2, <1>5, <2>1 DEF Emptied, Book
<1>6. CASE DeleteRows(s) /\ txn[s] # None
  <2>1. /\ contents' = Emptied(contents, s)
        /\ ~mixed /\ Alone(s)
        /\ kept' = kept /\ open_rows' = TakenAway(s)
    BY <1>6, AloneAccount DEF DeleteRows
  <2>. QED  BY <1>1, <1>2, <1>6, <2>1 DEF Emptied, TakenAway, Book
<1>. QED  BY <1>3, <1>4, <1>5, <1>6

LEMMA WriteAccounts ==
    ASSUME TypeOK, AccountsHold, NEW s \in Sessions,
           InsertRow(s) \/ DeleteRows(s), ~mixed',
           pc[s] \in Quietly, KeepsOut, UNCHANGED <<txn, copy>>
    PROVE  AccountsHold'
<1>1. Alone(s)
  BY AloneAccount DEF InsertRow, DeleteRows, Acknowledge
<1>2. \A t \in Sessions \ {s} : ~Transacts(t)
  BY <1>1, AloneTransacts
<1>3. \A t \in Sessions : pc[t] \notin {"begin", "restore"}
  BY <1>2 DEF Transacts, Quietly
<1>4. \A t \in Sessions : pc'[t] \notin {"begin", "restore"}
  BY <1>3 DEF KeepsOut, Quietly
<1>5. NothingRestored
  BY <1>3 DEF NothingRestored
<1>6. /\ \A d \in Dbs : \A t \in Sessions :
            contents'[d][t] = kept'[d][t] + open_rows'[d][t]
      /\ txn[s] # None => kept' = kept
      /\ txn[s] = None
         /\ (\A d \in Dbs : \A t \in Sessions : open_rows[d][t] = 0)
         => \A d \in Dbs : \A t \in Sessions : open_rows'[d][t] = 0
  BY <1>5, WriteBooks DEF AccountsHold, Balanced
<1>7. OneTransacts'
  BY <1>3, <1>4 DEF AccountsHold, OneTransacts, Transacts
<1>8. OpenBelongs'
  BY <1>3, <1>6 DEF AccountsHold, OpenBelongs, NothingOpen
<1>9. Balanced'
  BY <1>6 DEF Balanced
<1>10. ASSUME NEW t \in Sessions
       PROVE  CopiedCurrent(t)' /\ SnapshotKept(t)' /\ RestoresKept(t)'
  <2>1. txn[t] # None => t = s
    BY <1>2 DEF Transacts
  <2>2. SnapshotKept(t)'
    BY <1>6, <2>1 DEF AccountsHold, SnapshotKept
  <2>. QED  BY <1>4, <2>2 DEF CopiedCurrent, RestoresKept
<1>. QED  BY <1>7, <1>8, <1>9, <1>10 DEF AccountsHold

(* BEGIN looks at the tables while nobody else changes them. *)
LEMMA BeginAccounts ==
    ASSUME TypeOK, AccountsHold, NEW s \in Sessions,
           Begin(s) \/ (\E d \in Dbs : CopyDatabase(s, d)), ~mixed'
    PROVE  AccountsHold'
<1>1. /\ UNCHANGED <<contents, txn, kept, open_rows>>
      /\ pc'[s] = "begin"
      /\ pc[s] \in {"idle", "begin"}
      /\ \A t \in Sessions \ {s} : pc'[t] = pc[t] /\ copy'[t] = copy[t]
  <2>1. CASE Begin(s)
    BY <2>1, AloneAccount DEF Begin, TypeOK, engine
  <2>2. CASE \E d \in Dbs : CopyDatabase(s, d)
    BY <2>2 DEF CopyDatabase, TypeOK, engine, history, books
  <2>. QED  BY <2>1, <2>2
<1>2. \A t \in Sessions \ {s} : ~Transacts(t)
  <2>1. CASE Begin(s)
    BY <2>1, AloneAccount, AloneTransacts DEF Begin
  <2>2. CASE \E d \in Dbs : CopyDatabase(s, d)
    BY <2>2 DEF CopyDatabase, AccountsHold, OneTransacts, Transacts
  <2>. QED  BY <2>1, <2>2
<1>3. \A t \in Sessions : Transacts(t)' => t = s
  BY <1>1, <1>2 DEF Transacts
<1>4. NothingRestored /\ NothingRestored'
  BY <1>1, <1>2 DEF NothingRestored, Transacts
<1>5. OneTransacts'
  BY <1>3 DEF OneTransacts
<1>6. OpenBelongs'
  BY <1>1, <1>4 DEF AccountsHold, OpenBelongs, NothingOpen, NothingRestored
<1>7. Balanced'
  BY <1>1, <1>4 DEF AccountsHold, Balanced
<1>8. CopiedCurrent(s)'
  <2>1. CASE Begin(s)
    <3>1. DOMAIN copy'[s] = {}
      BY <2>1 DEF Begin, NoCopy, TypeOK
    <3>. QED  BY <3>1 DEF CopiedCurrent
  <2>2. ASSUME NEW d \in Dbs, CopyDatabase(s, d)
        PROVE  CopiedCurrent(s)'
    <3>. DEFINE c == [e \in DOMAIN copy[s] \cup {d} |->
                         IF e = d THEN contents[d] ELSE copy[s][e]]
    <3>1. copy'[s] = c
      BY <2>2 DEF CopyDatabase, TypeOK
    <3>2. pc[s] = "begin"
      BY <2>2 DEF CopyDatabase
    <3>3. \A e \in DOMAIN c : \A t \in Sessions : c[e][t] = contents[e][t]
      BY <3>2 DEF AccountsHold, CopiedCurrent
    <3>. HIDE DEF c
    <3>. QED  BY <1>1, <3>1, <3>3 DEF CopiedCurrent
  <2>. QED  BY <2>1, <2>2
<1>9. ASSUME NEW t \in Sessions
      PROVE  CopiedCurrent(t)' /\ SnapshotKept(t)' /\ RestoresKept(t)'
  <2>1. SnapshotKept(t)'
    BY <1>1 DEF AccountsHold, SnapshotKept
  <2>2. RestoresKept(t)'
    BY <1>4 DEF NothingRestored, RestoresKept
  <2>3. CASE t = s
    BY <1>8, <2>1, <2>2, <2>3
  <2>4. CASE t # s
    BY <1>1, <2>1, <2>2, <2>4 DEF AccountsHold, CopiedCurrent
  <2>. QED  BY <2>3, <2>4
<1>. QED  BY <1>5, <1>6, <1>7, <1>9 DEF AccountsHold

(* The books once the session's transaction counts for good. *)
LEMMA SettledBooks ==
    ASSUME TypeOK, AccountsHold, NEW s \in Sessions, Settle(s), ~mixed',
           pc[s] # "restore"
    PROVE  /\ txn[s] # None => \A t \in Sessions \ {s} : ~Transacts(t)
           /\ txn[s] = None => UNCHANGED books
           /\ txn[s] # None \/ pc[s] = "begin" =>
                 /\ \A d \in Dbs : \A t \in Sessions :
                       kept'[d][t] = contents[d][t]
                 /\ \A d \in Dbs : \A t \in Sessions : open_rows'[d][t] = 0
<1>1. CASE txn[s] = None
  <2>1. UNCHANGED <<kept, open_rows>>
    BY <1>1 DEF Settle, books
  <2>2. ASSUME pc[s] = "begin"
        PROVE  NothingOpen /\ NothingRestored
    BY <1>1, <2>2
       DEF AccountsHold, OneTransacts, Transacts, NothingOpen, NothingRestored
  <2>3. ASSUME pc[s] = "begin", NEW d \in Dbs, NEW t \in Sessions
        PROVE  kept'[d][t] = contents[d][t] /\ open_rows'[d][t] = 0
    <3>1. open_rows[d][t] = 0 /\ contents[d][t] = kept[d][t] + open_rows[d][t]
      BY <2>2, <2>3 DEF AccountsHold, OpenBelongs, Balanced
    <3>2. kept[d][t] \in Int
      BY DEF TypeOK
    <3>. QED  BY <2>1, <3>1, <3>2
  <2>. QED  BY <1>1, <2>3 DEF Settle
<1>2. CASE txn[s] # None
  <2>1. /\ Alone(s)
        /\ kept' = [d \in Dbs |-> [t \in Sessions |->
                       kept[d][t] + open_rows[d][t]]]
        /\ open_rows' = Blank
    BY <1>2, AloneAccount DEF Settle
  <2>2. \A t \in Sessions \ {s} : ~Transacts(t)
    BY <2>1, AloneTransacts
  <2>3. NothingRestored
    BY <2>2 DEF NothingRestored, Transacts
  <2>4. \A d \in Dbs : \A t \in Sessions :
           contents[d][t] = kept[d][t] + open_rows[d][t]
    BY <2>3 DEF AccountsHold, Balanced
  <2>. QED  BY <1>2, <2>1, <2>2, <2>4 DEF Blank
<1>. QED  BY <1>1, <1>2

LEMMA BegunAccounts ==
    ASSUME TypeOK, AccountsHold, NEW s \in Sessions, Begun(s), ~mixed'
    PROVE  AccountsHold'
<1>1. /\ pc[s] = "begin" /\ pc'[s] = "idle"
      /\ DOMAIN copy[s] = Dbs
      /\ txn'[s] = copy[s]
      /\ Settle(s)
      /\ UNCHANGED contents
      /\ \A t \in Sessions \ {s} : pc'[t] = pc[t] /\ txn'[t] = txn[t]
  BY DEF Begun, TypeOK, engine
<1>2. \A t \in Sessions \ {s} : ~Transacts(t)
  BY <1>1 DEF AccountsHold, OneTransacts, Transacts
<1>3. /\ \A d \in Dbs : \A t \in Sessions : kept'[d][t] = contents[d][t]
      /\ \A d \in Dbs : \A t \in Sessions : open_rows'[d][t] = 0
  BY <1>1, SettledBooks
<1>4. \A t \in Sessions : Transacts(t)' => t = s
  BY <1>1, <1>2 DEF Transacts
<1>5. \A t \in Sessions : pc'[t] \notin {"begin", "restore"}
  BY <1>1, <1>2 DEF Transacts
<1>6. OneTransacts' /\ OpenBelongs'
  BY <1>3, <1>4 DEF OneTransacts, OpenBelongs
<1>7. Balanced'
  BY <1>1, <1>3 DEF Balanced, TypeOK, Rows
<1>8. SnapshotKept(s)'
  BY <1>1, <1>3 DEF AccountsHold, CopiedCurrent, SnapshotKept
<1>9. ASSUME NEW t \in Sessions
      PROVE  CopiedCurrent(t)' /\ SnapshotKept(t)' /\ RestoresKept(t)'
  <2>1. CASE t = s
    BY <1>5, <1>8, <2>1 DEF CopiedCurrent, RestoresKept
  <2>2. CASE t # s
    BY <1>1, <1>2, <1>5, <2>2
       DEF CopiedCurrent, SnapshotKept, RestoresKept, Transacts
  <2>. QED  BY <2>1, <2>2
<1>. QED  BY <1>6, <1>7, <1>9 DEF AccountsHold

(* COMMIT, and a connection that ends: the open rows stay. *)
LEMMA SettledAccounts ==
    ASSUME TypeOK, AccountsHold, NEW s \in Sessions, NEW d \in Dbs,
           Commit(s) \/ Reconnect(s, d), ~mixed'
    PROVE  AccountsHold'
<1>1. /\ UNCHANGED <<contents, copy>>
      /\ txn' = [txn EXCEPT ![s] = None]
      /\ pc[s] \in Quietly
      /\ KeepsOut
      /\ Settle(s)
  BY DEF Commit, Reconnect, KeepsOut, Quietly, TypeOK, engine
<1>2. CASE txn[s] = None
  <2>1. txn' = txn
    BY <1>1, <1>2 DEF TypeOK
  <2>. QED  BY <1>1, <1>2, <2>1, QuietAccounts DEF Settle, books
<1>3. CASE txn[s] # None
  <2>1. /\ \A t \in Sessions \ {s} : ~Transacts(t)
        /\ \A e \in Dbs : \A t \in Sessions : kept'[e][t] = contents[e][t]
        /\ \A e \in Dbs : \A t \in Sessions : open_rows'[e][t] = 0
    BY <1>1, <1>3, SettledBooks DEF Quietly
  <2>2. \A t \in Sessions : ~Transacts(t)'
    BY <1>1, <2>1 DEF Transacts, KeepsOut, Quietly, TypeOK
  <2>3. OneTransacts' /\ OpenBelongs'
    BY <2>1, <2>2 DEF OneTransacts, OpenBelongs
  <2>4. Balanced'
    BY <1>1, <2>1 DEF Balanced, TypeOK, Rows
  <2>5. ASSUME NEW t \in Sessions
        PROVE  CopiedCurrent(t)' /\ SnapshotKept(t)' /\ RestoresKept(t)'
    BY <2>2 DEF CopiedCurrent, SnapshotKept, RestoresKept, Transacts
  <2>. QED  BY <2>3, <2>4, <2>5 DEF AccountsHold
<1>. QED  BY <1>2, <1>3

LEMMA RollbackAccounts ==
    ASSUME TypeOK, AccountsHold, NEW s \in Sessions, Rollback(s)
    PROVE  AccountsHold'
<1>1. /\ UNCHANGED <<contents, kept, open_rows>>
      /\ txn[s] # None /\ txn'[s] = None
      /\ copy'[s] = txn[s]
      /\ pc'[s] = "restore"
      /\ \A t \in Sessions \ {s} : pc'[t] = pc[t] /\ txn'[t] = txn[t]
  BY DEF Rollback, TypeOK, engine, history, books
<1>2. \A t \in Sessions \ {s} : ~Transacts(t)
  BY <1>1 DEF AccountsHold, OneTransacts, Transacts
<1>3. \A t \in Sessions \ {s} : ~Transacts(t)'
  BY <1>1, <1>2 DEF Transacts
<1>4. ~NothingOpen' /\ ~NothingRestored'
  BY <1>1 DEF NothingOpen, NothingRestored
<1>5. OneTransacts' /\ OpenBelongs' /\ Balanced'
  BY <1>3, <1>4 DEF OneTransacts, OpenBelongs, Balanced
<1>6. RestoresKept(s)'
  <2>1. txn[s] \in [Dbs -> Rows]
    BY <1>1 DEF TypeOK
  <2>2. \A d \in Dbs : \A t \in Sessions : txn[s][d][t] = kept[d][t]
    BY <1>1 DEF AccountsHold, SnapshotKept
  <2>. QED  BY <1>1, <2>1, <2>2 DEF RestoresKept
<1>7. ASSUME NEW t \in Sessions
      PROVE  CopiedCurrent(t)' /\ SnapshotKept(t)' /\ RestoresKept(t)'
  <2>1. CASE t = s
    BY <1>1, <1>6, <2>1 DEF CopiedCurrent, SnapshotKept
  <2>2. CASE t # s
    BY <1>3, <2>2 DEF CopiedCurrent, SnapshotKept, RestoresKept, Transacts
  <2>. QED  BY <2>1, <2>2
<1>. QED  BY <1>5, <1>7 DEF AccountsHold

LEMMA RestoreAccounts ==
    ASSUME TypeOK, AccountsHold, NEW s \in Sessions, NEW d \in Dbs,
           RestoreDatabase(s, d)
    PROVE  AccountsHold'
<1>. DEFINE c == [e \in DOMAIN copy[s] \ {d} |-> copy[s][e]]
<1>1. /\ UNCHANGED <<pc, txn, kept, open_rows>>
      /\ pc[s] = "restore"
      /\ d \in DOMAIN copy[s]
      /\ copy'[s] = c
      /\ contents' = [contents EXCEPT ![d] = copy[s][d]]
  BY DEF RestoreDatabase, TypeOK, books
<1>2. \A t \in Sessions \ {s} : ~Transacts(t)
  BY <1>1 DEF AccountsHold, OneTransacts, Transacts
<1>3. \A t \in Sessions : Transacts(t)' <=> Transacts(t)
  BY <1>1 DEF Transacts
<1>4. ~NothingOpen' /\ ~NothingRestored'
  BY <1>1 DEF NothingOpen, NothingRestored
<1>5. OneTransacts' /\ OpenBelongs' /\ Balanced'
  BY <1>3, <1>4 DEF AccountsHold, OneTransacts, OpenBelongs, Balanced
<1>6. RestoresKept(s)'
  <2>1. SUFFICES ASSUME NEW e \in Dbs, NEW t \in Sessions
                 PROVE  IF e \in DOMAIN c THEN c[e][t] = kept[e][t]
                                          ELSE contents'[e][t] = kept[e][t]
    <3>. HIDE DEF c
    <3>. QED  BY <1>1, <2>1 DEF RestoresKept
  <2>2. IF e \in DOMAIN copy[s] THEN copy[s][e][t] = kept[e][t]
                                ELSE contents[e][t] = kept[e][t]
    BY <1>1 DEF AccountsHold, RestoresKept
  <2>3. CASE e = d
    <3>1. contents'[e] = copy[s][d]
      BY <1>1, <2>3 DEF TypeOK
    <3>. QED  BY <1>1, <2>2, <2>3, <3>1
  <2>4. CASE e # d
    <3>1. contents'[e] = contents[e]
      BY <1>1, <2>4 DEF TypeOK
    <3>. QED  BY <2>2, <2>4, <3>1
  <2>. QED  BY <2>3, <2>4
<1>. HIDE DEF c
<1>7. ASSUME NEW t \in Sessions
      PROVE  CopiedCurrent(t)' /\ SnapshotKept(t)' /\ RestoresKept(t)'
  <2>1. SnapshotKept(t)'
    BY <1>1 DEF AccountsHold, SnapshotKept
  <2>2. CASE t = s
    BY <1>1, <1>6, <2>1, <2>2 DEF CopiedCurrent
  <2>3. CASE t # s
    BY <1>2, <1>3, <2>1, <2>3 DEF CopiedCurrent, RestoresKept, Transacts
  <2>. QED  BY <2>2, <2>3
<1>. QED  BY <1>5, <1>7 DEF AccountsHold

LEMMA RolledBackAccounts ==
    ASSUME TypeOK, AccountsHold, NEW s \in Sessions, RolledBack(s), ~mixed'
    PROVE  AccountsHold'
<1>1. /\ UNCHANGED <<contents, txn, copy>>
      /\ pc[s] = "restore" /\ pc'[s] = "idle"
      /\ DOMAIN copy[s] = {}
      /\ \A t \in Sessions \ {s} : pc'[t] = pc[t]
      /\ Alone(s) /\ kept' = kept /\ open_rows' = Blank
  BY AloneAccount DEF RolledBack, TypeOK
<1>2. \A t \in Sessions \ {s} : ~Transacts(t)
  BY <1>1, AloneTransacts
<1>3. \A t \in Sessions \ {s} : ~Transacts(t)'
  BY <1>1, <1>2 DEF Transacts
<1>4. \A d \in Dbs : \A t \in Sessions :
         contents[d][t] = kept[d][t] /\ open_rows'[d][t] = 0
  BY <1>1 DEF AccountsHold, RestoresKept, Blank
<1>5. OneTransacts' /\ OpenBelongs'
  BY <1>3, <1>4 DEF OneTransacts, OpenBelongs
<1>6. Balanced'
  BY <1>1, <1>4 DEF Balanced, TypeOK, Rows
<1>7. ASSUME NEW t \in Sessions
      PROVE  CopiedCurrent(t)' /\ SnapshotKept(t)' /\ RestoresKept(t)'
  <2>1. SnapshotKept(t)'
    BY <1>1 DEF AccountsHold, SnapshotKept
  <2>. QED  BY <1>1, <1>3, <2>1 DEF CopiedCurrent, RestoresKept, Transacts
<1>. QED  BY <1>5, <1>6, <1>7 DEF AccountsHold

(* Text statements, unless the server answers a write from the cache. *)
LEMMA StatementAccounts ==
    ASSUME ~RepeatWrites, TypeOK, AccountsHold, NEW s \in Sessions,
           Statement(s), ~mixed'
    PROVE  AccountsHold'
<1>1. CASE InsertRow(s) \/ DeleteRows(s)
  <2>1. pc[s] \in Quietly /\ KeepsOut /\ UNCHANGED <<txn, copy>>
    BY <1>1
       DEF Statement, CacheHit, CacheMiss, Refuse, ExecuteRead, ExecuteUse,
           ExecuteInsert, ExecuteDeleteAll, ExecuteFailingWrite, Executing,
           Executed, Bump, Reply, TypeOK, KeepsOut, Quietly
  <2>. QED  BY <1>1, <2>1, WriteAccounts
<1>2. CASE ~(InsertRow(s) \/ DeleteRows(s))
  <2>1. \/ \E q \in Query : CacheHit(s, q) \/ CacheMiss(s, q)
        \/ Refuse(s) \/ ExecuteRead(s) \/ ExecuteUse(s) \/ Bump(s) \/ Reply(s)
    BY <1>2
       DEF Statement, ExecuteInsert, ExecuteDeleteAll, ExecuteFailingWrite
  <2>2. ASSUME NEW q \in Query, CacheHit(s, q)
        PROVE  UNCHANGED <<contents, txn, copy, pc, kept, open_rows>>
    BY <2>2 DEF CacheHit, IsWrite, engine, books
  <2>3. UNCHANGED <<contents, txn, copy, kept, open_rows>> /\ KeepsOut
    BY <2>1, <2>2
       DEF CacheMiss, Refuse, ExecuteRead, ExecuteUse, Executing, Executed,
           Bump, Reply, TypeOK, KeepsOut, Quietly, engine, history, books
  <2>. QED  BY <2>3, QuietAccounts
<1>. QED  BY <1>1, <1>2

LEMMA OtherAccounts ==
    ASSUME TypeOK, AccountsHold, NEW s \in Sessions, NEW d \in Dbs,
           ExecutePrepared(s) \/ InitDb(s, d) \/ Reconnect(s, d), ~mixed'
    PROVE  AccountsHold'
<1>1. CASE ExecutePrepared(s)
  <2>1. /\ InsertRow(s) /\ pc[s] \in Quietly /\ KeepsOut
        /\ UNCHANGED <<txn, copy>>
    BY <1>1 DEF ExecutePrepared, KeepsOut, Quietly
  <2>. QED  BY <2>1, WriteAccounts
<1>2. CASE InitDb(s, d)
  <2>1. UNCHANGED <<contents, txn, copy, kept, open_rows>> /\ KeepsOut
    BY <1>2 DEF InitDb, KeepsOut, engine, books
  <2>. QED  BY <2>1, QuietAccounts
<1>. QED  BY <1>1, <1>2, SettledAccounts

LEMMA TransactionAccounts ==
    ASSUME TypeOK, AccountsHold, NEW s \in Sessions, NEW e \in Dbs,
           Transaction(s), ~mixed'
    PROVE  AccountsHold'
BY BeginAccounts, BegunAccounts, SettledAccounts, RollbackAccounts,
   RestoreAccounts, RolledBackAccounts
   DEF Transaction

(* Once mixed, transactions count as mixed for good. *)
LEMMA MixedForGood == TypeOK /\ [Next]_vars /\ mixed => mixed'
<1>. SUFFICES ASSUME TypeOK, [Next]_vars, mixed
              PROVE  mixed'
  OBVIOUS
<1>1. ASSUME NEW s \in Sessions, NEW closed, NEW open, Account(s, closed, open)
      PROVE  mixed'
  BY <1>1 DEF Account
<1>2. ASSUME NEW s \in Sessions, Acknowledge(s) \/ DeleteRows(s) \/ Settle(s)
      PROVE  mixed'
  BY <1>1, <1>2 DEF Acknowledge, DeleteRows, Settle, books
<1>3. ASSUME NEW s \in Sessions, Statement(s)
      PROVE  mixed'
  BY <1>2, <1>3
     DEF Statement, CacheHit, CacheMiss, Refuse, ExecuteRead, ExecuteUse,
         ExecuteInsert, InsertRow, ExecuteDeleteAll, ExecuteFailingWrite,
         Bump, Reply, history, books
<1>4. ASSUME NEW s \in Sessions, Transaction(s)
      PROVE  mixed'
  BY <1>1, <1>2, <1>4
     DEF Transaction, Begin, CopyDatabase, Begun, Commit, Rollback,
         RestoreDatabase, RolledBack, history, books
<1>5. ASSUME NEW s \in Sessions, NEW d \in Dbs,
             ExecutePrepared(s) \/ InitDb(s, d) \/ Reconnect(s, d)
      PROVE  mixed'
  BY <1>2, <1>5 DEF ExecutePrepared, InsertRow, InitDb, Reconnect, books
<1>6. CASE Next
  <2>1. PICK s \in Sessions :
            \/ Statement(s)
            \/ ExecutePrepared(s)
            \/ Transaction(s)
            \/ \E d \in Dbs : InitDb(s, d) \/ Reconnect(s, d)
    BY <1>6 DEF Next
  <2>2. current_db[s] \in Dbs
    BY DEF TypeOK
  <2>. QED  BY <1>3, <1>4, <1>5, <2>1, <2>2
<1>7. CASE UNCHANGED vars
  BY <1>7 DEF vars
<1>. QED  BY <1>6, <1>7

LEMMA AccountsInvInit == Init => AccountsInv
<1>. SUFFICES ASSUME Init PROVE AccountsInv
  OBVIOUS
<1>1. \A s \in Sessions : txn[s] = None /\ pc[s] = "idle"
  BY DEF Init
<1>2. \A d \in Dbs : \A t \in Sessions :
         contents[d][t] = 0 /\ kept[d][t] = 0 /\ open_rows[d][t] = 0
  BY DEF Init, Blank
<1>3. OneTransacts /\ OpenBelongs /\ Balanced
  BY <1>1, <1>2 DEF OneTransacts, Transacts, OpenBelongs, Balanced
<1>4. \A s \in Sessions : CopiedCurrent(s) /\ SnapshotKept(s) /\ RestoresKept(s)
  BY <1>1 DEF CopiedCurrent, SnapshotKept, RestoresKept
<1>. QED  BY <1>3, <1>4, InitType DEF AccountsInv, AccountsHold

LEMMA AccountsInvNext ==
    ~RepeatWrites /\ AccountsInv /\ [Next]_vars => AccountsInv'
<1>. SUFFICES ASSUME ~RepeatWrites, AccountsInv, [Next]_vars
              PROVE  AccountsInv'
  OBVIOUS
<1>1. TypeOK /\ TypeOK'
  BY NextType DEF AccountsInv
<1>. SUFFICES ASSUME ~mixed' PROVE AccountsHold'
  BY <1>1 DEF AccountsInv
<1>2. AccountsHold
  BY <1>1, MixedForGood DEF AccountsInv
<1>3. CASE Next
  <2>1. PICK s \in Sessions :
            \/ Statement(s)
            \/ ExecutePrepared(s)
            \/ Transaction(s)
            \/ \E d \in Dbs : InitDb(s, d) \/ Reconnect(s, d)
    BY <1>3 DEF Next
  <2>2. current_db[s] \in Dbs
    BY <1>1 DEF TypeOK
  <2>. QED  BY <1>1, <1>2, <2>1, <2>2, StatementAccounts, OtherAccounts,
               TransactionAccounts
<1>4. CASE UNCHANGED vars
  <2>1. UNCHANGED <<contents, txn, copy, kept, open_rows>> /\ KeepsOut
    BY <1>4 DEF vars, KeepsOut
  <2>. QED  BY <1>2, <2>1, QuietAccounts
<1>. QED  BY <1>3, <1>4

(* As long as transactions are alone, the tables hold exactly the rows     *)
(* acknowledged outside them and in committed ones, with what the open one *)
(* has changed: no COMMIT, no second BEGIN and no lost connection drops a  *)
(* row, and a ROLLBACK, database by database, restores precisely what      *)
(* BEGIN found.  For any number of sessions and databases, whose clients   *)
(* do not send the text of a write twice in a row: the cache would answer  *)
(* the second one without executing it.                                    *)
THEOREM RowsAreAccounted ==
    ASSUME ~RepeatWrites
    PROVE  Spec => []RowsAccounted
<1>1. AccountsInv => RowsAccounted
  BY DEF AccountsInv, AccountsHold, Balanced, NothingRestored, RowsAccounted
<1>2. AccountsInv /\ [Next]_vars => AccountsInv'
  BY AccountsInvNext
<1>. QED  BY <1>1, <1>2, AccountsInvInit, PTL DEF Spec

(* An INSERT that was answered with an OK has put its row in the table and *)
(* keeps it there, up to the deletions of its own session, in the runs in  *)
(* which neither of the two ways to lose it occurs: a write that is sent   *)
(* twice in a row (the run MCSessions_repeated_write shows it), and the    *)
(* ROLLBACK of a transaction that another session's statements overlapped, *)
(* from which on AcksKept makes no claim (mixed).                          *)
THEOREM AcksAreKept ==
    ASSUME ~RepeatWrites
    PROVE  Spec => []AcksKept
<1>1. TypeOK /\ RowsAccounted => AcksKept
  <2>1. SUFFICES ASSUME TypeOK, RowsAccounted, ~mixed,
                        \A s \in Sessions : pc[s] # "restore",
                        NEW d \in Dbs, NEW s \in Sessions
                 PROVE  contents[d][s] >= kept[d][s] + open_rows[d][s]
    BY DEF AcksKept
  <2>2. contents[d][s] = kept[d][s] + open_rows[d][s]
    BY <2>1 DEF RowsAccounted
  <2>3. contents[d][s] \in Int
    BY <2>1 DEF TypeOK, Rows
  <2>. QED  BY <2>2, <2>3
<1>. QED  BY <1>1, RowsAreAccounted, TypeCorrect, PTL
=============================================================================
