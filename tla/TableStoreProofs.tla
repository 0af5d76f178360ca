-------------------------- MODULE TableStoreProofs --------------------------
(***************************************************************************)
(* Proofs about TableStore, for every set of columns, values and bounds:   *)
(* type correctness, the soundness and the completeness of the PRIMARY KEY *)
(* index, the column stores as a mirror of the rows, the freshness of      *)
(* generated keys, and from these that no way of reading a table can be    *)
(* told from another.  Each result names the kinds of statements that      *)
(* would break it, and holds for every workload without them.              *)
(***************************************************************************)
EXTENDS TableStore, SequenceTheorems, TLAPS

(* A vector written as a function on 1 .. n is a sequence. *)
LEMMA VectorIsSeq ==
    ASSUME NEW S, NEW n \in Nat, NEW f \in [1 .. n -> S]
    PROVE  f \in Seq(S) /\ Len(f) = n /\ DOMAIN f = 1 .. n
BY SeqDef

(* Vec::remove of an element leaves a vector one shorter. *)
LEMMA WithoutProperties ==
    ASSUME NEW S, NEW s \in Seq(S), NEW i \in DOMAIN s
    PROVE  /\ Without(s, i) \in Seq(S)
           /\ Len(Without(s, i)) = Len(s) - 1
           /\ DOMAIN Without(s, i) = 1 .. (Len(s) - 1)
<1>1. /\ Len(s) \in Nat
      /\ DOMAIN s = 1 .. Len(s)
      /\ \A j \in 1 .. Len(s) : s[j] \in S
  BY LenProperties, ElementOfSeq
<1>2. Len(s) - 1 \in Nat
  BY <1>1
<1>3. Without(s, i) \in [1 .. (Len(s) - 1) -> S]
  BY <1>1, <1>2 DEF Without
<1>. QED  BY <1>2, <1>3, VectorIsSeq

(* Vec::swap_remove of an element leaves a vector one shorter. *)
LEMMA SwapRemoveProperties ==
    ASSUME NEW S, NEW s \in Seq(S), NEW i \in DOMAIN s
    PROVE  /\ SwapRemove(s, i) \in Seq(S)
           /\ Len(SwapRemove(s, i)) = Len(s) - 1
           /\ DOMAIN SwapRemove(s, i) = 1 .. (Len(s) - 1)
<1>1. /\ Len(s) \in Nat
      /\ DOMAIN s = 1 .. Len(s)
      /\ \A j \in 1 .. Len(s) : s[j] \in S
  BY LenProperties, ElementOfSeq
<1>2. Len(s) - 1 \in Nat
  BY <1>1
<1>3. SwapRemove(s, i) \in [1 .. (Len(s) - 1) -> S]
  BY <1>1, <1>2 DEF SwapRemove
<1>. QED  BY <1>2, <1>3, VectorIsSeq

-----------------------------------------------------------------------------
(* Values. *)

LEMMA ValueFacts ==
    /\ Literal \subseteq Value
    /\ NULL \in Value /\ PlaceholderText \in Value
    /\ \A v \in Value : KeyOf(v) \in Keys
    /\ \A c, v : v \in Value => Cell(c, v) \in Int \cup AllTexts
<1>1. Literal \subseteq Value /\ NULL \in Value /\ PlaceholderText \in Value
  <2>1. Ints \subseteq Int
    BY ValueAssumption
  <2>. QED  BY <2>1 DEF Literal, Value, AllTexts
<1>2. \A v \in Value : KeyOf(v) \in Keys
  BY DEF Value, KeyOf, Keys, AllTexts
<1>3. ASSUME NEW c, NEW v \in Value
      PROVE  Cell(c, v) \in Int \cup AllTexts
  BY DEF Cell, WellTyped, AllTexts
<1>. QED  BY <1>1, <1>2, <1>3

LEMMA RowKeyType ==
    ASSUME TypeOK, NEW row \in Row
    PROVE  RowKey(row) \in Keys
BY ValueFacts DEF TypeOK, Row, RowKey

(* The rows an INSERT can be offered are rows of the table. *)
LEMMA OfferedRowsAreRows ==
    ASSUME TypeOK
    PROVE  OfferedRows \cup AutoRows \subseteq Row
<1>1. OfferedRows \subseteq Row
  BY ValueFacts DEF OfferedRows, Row
<1>2. next_auto \in Value
  BY DEF TypeOK, Value
<1>3. AutoRows \subseteq Row
  BY <1>1, <1>2 DEF AutoRows, Row
<1>. QED  BY <1>1, <1>3

LEMMA AdvancedType ==
    ASSUME TypeOK, NEW v
    PROVE  Advanced(v) \in Nat \ {0}
BY DEF TypeOK, Advanced

LEMMA RowsFacts ==
    ASSUME TypeOK
    PROVE  /\ Len(rows) \in Nat
           /\ DOMAIN rows = 1 .. Len(rows)
           /\ \A i \in DOMAIN rows : rows[i] \in Row
BY LenProperties, ElementOfSeq DEF TypeOK

-----------------------------------------------------------------------------
(* Type correctness. *)

(* Appending a row to well-typed vectors and indexing it. *)
LEMMA PushType ==
    ASSUME TypeOK,
           NEW rs \in Seq(Row), NEW row \in Row,
           NEW ix, DOMAIN ix \subseteq Keys, ix \in [DOMAIN ix -> Nat \ {0}],
           NEW cs \in [columns -> Seq(Int \cup AllTexts)],
           Push(rs, ix, cs, row)
    PROVE  /\ rows' \in Seq(Row)
           /\ DOMAIN pk_index' \subseteq Keys
           /\ pk_index' \in [DOMAIN pk_index' -> Nat \ {0}]
           /\ col_store' \in [columns -> Seq(Int \cup AllTexts)]
<1>1. rows' \in Seq(Row)
  BY AppendProperties DEF Push
<1>2. Len(rs) + 1 \in Nat \ {0}
  BY LenProperties
<1>3. RowKey(row) \in Keys
  BY RowKeyType
<1>4. pk_index' = [j \in DOMAIN ix \cup {RowKey(row)} |->
                      IF j = RowKey(row) THEN Len(rs) + 1 ELSE ix[j]]
  BY DEF Push, Indexed
<1>5. /\ DOMAIN pk_index' \subseteq Keys
      /\ pk_index' \in [DOMAIN pk_index' -> Nat \ {0}]
  BY <1>2, <1>3, <1>4
<1>6. \A c \in columns : row[c] \in Value
  BY DEF Row
<1>7. \A c \in columns :
        Append(cs[c], Cell(c, row[c])) \in Seq(Int \cup AllTexts)
  BY <1>6, ValueFacts, AppendProperties
<1>8. col_store' \in [columns -> Seq(Int \cup AllTexts)]
  BY <1>7 DEF Push
<1>. QED  BY <1>1, <1>5, <1>8

(* An index rebuilt from rows is well typed. *)
LEMMA RebuiltType ==
    ASSUME TypeOK, NEW rs \in Seq(Row), NEW ix \in Rebuilt(rs)
    PROVE  /\ DOMAIN ix = RowKeys(rs)
           /\ DOMAIN ix \subseteq Keys
           /\ ix \in [DOMAIN ix -> Nat \ {0}]
<1>1. DOMAIN rs \subseteq Nat \ {0} /\ \A i \in DOMAIN rs : rs[i] \in Row
  BY LenProperties, ElementOfSeq
<1>2. ix \in [RowKeys(rs) -> DOMAIN rs]
  BY DEF Rebuilt
<1>3. RowKeys(rs) \subseteq Keys
  BY <1>1, RowKeyType DEF RowKeys
<1>. QED  BY <1>1, <1>2, <1>3

(* The stores rebuilt from rows are well typed. *)
LEMMA MirrorType ==
    ASSUME TypeOK, NEW rs \in Seq(Row)
    PROVE  Mirror(rs) \in [columns -> Seq(Int \cup AllTexts)]
<1>1. /\ Len(rs) \in Nat
      /\ DOMAIN rs = 1 .. Len(rs)
      /\ \A i \in DOMAIN rs : rs[i] \in Row
  BY LenProperties, ElementOfSeq
<1>2. ASSUME NEW c \in columns
      PROVE  [i \in DOMAIN rs |-> Cell(c, rs[i][c])] \in Seq(Int \cup AllTexts)
  <2>1. \A i \in DOMAIN rs : rs[i][c] \in Value
    BY <1>1 DEF Row
  <2>2. \A i \in DOMAIN rs : Cell(c, rs[i][c]) \in Int \cup AllTexts
    BY <2>1, ValueFacts
  <2>3. [i \in DOMAIN rs |-> Cell(c, rs[i][c])]
            \in [1 .. Len(rs) -> Int \cup AllTexts]
    BY <1>1, <2>2
  <2>. QED  BY <1>1, <2>3, VectorIsSeq
<1>. QED  BY <1>2 DEF Mirror

LEMMA InsertType ==
    ASSUME TypeOK, NEW row \in OfferedRows \cup AutoRows,
           Insert(row) \/ ReplaceNew(row) \/ InsertPrepared(row)
    PROVE  TypeOK'
<1>1. row \in Row
  BY OfferedRowsAreRows
<1>2. Push(rows, pk_index, col_store, row) /\ columns' = columns
  BY DEF Insert, ReplaceNew, InsertPrepared
<1>3. next_auto' \in Nat \ {0}
  BY AdvancedType DEF Insert, ReplaceNew, InsertPrepared, TypeOK
<1>4. /\ rows' \in Seq(Row)
      /\ DOMAIN pk_index' \subseteq Keys
      /\ pk_index' \in [DOMAIN pk_index' -> Nat \ {0}]
      /\ col_store' \in [columns -> Seq(Int \cup AllTexts)]
  <2>1. /\ rows \in Seq(Row)
        /\ DOMAIN pk_index \subseteq Keys
        /\ pk_index \in [DOMAIN pk_index -> Nat \ {0}]
        /\ col_store \in [columns -> Seq(Int \cup AllTexts)]
    BY DEF TypeOK
  <2>. QED  BY <1>1, <1>2, <2>1, PushType
<1>. QED  BY <1>2, <1>3, <1>4 DEF TypeOK, Row

LEMMA ReplaceType ==
    ASSUME TypeOK, NEW row \in OfferedRows \cup AutoRows, Replace(row)
    PROVE  TypeOK'
<1>. DEFINE old == pk_index[RowKey(row)]
            kept == Without(rows, old)
            stores == [c \in columns |->
                         IfWithin(col_store[c], old, Without(col_store[c], old))]
<1>1. row \in Row
  BY OfferedRowsAreRows
<1>2. old \in DOMAIN rows /\ rows \in Seq(Row)
  BY DEF Replace, TypeOK
<1>3. kept \in Seq(Row)
  BY <1>2, WithoutProperties
<1>4. stores \in [columns -> Seq(Int \cup AllTexts)]
  <2>1. ASSUME NEW c \in columns
        PROVE  IfWithin(col_store[c], old, Without(col_store[c], old))
                  \in Seq(Int \cup AllTexts)
    <3>1. col_store[c] \in Seq(Int \cup AllTexts)
      BY DEF TypeOK
    <3>. QED  BY <3>1, WithoutProperties DEF IfWithin
  <2>. QED  BY <2>1
<1>5. PICK ix \in Rebuilt(kept) : Push(kept, ix, stores, row)
  BY DEF Replace
<1>6. DOMAIN ix \subseteq Keys /\ ix \in [DOMAIN ix -> Nat \ {0}]
  BY <1>3, <1>5, RebuiltType
<1>7. /\ rows' \in Seq(Row)
      /\ DOMAIN pk_index' \subseteq Keys
      /\ pk_index' \in [DOMAIN pk_index' -> Nat \ {0}]
      /\ col_store' \in [columns -> Seq(Int \cup AllTexts)]
  <2>. HIDE DEF kept, stores
  <2>. QED  BY <1>1, <1>3, <1>4, <1>5, <1>6, PushType
<1>8. columns' = columns /\ next_auto' \in Nat \ {0}
  BY AdvancedType DEF Replace
<1>. QED  BY <1>7, <1>8 DEF TypeOK, Row

LEMMA UpdateType ==
    ASSUME TypeOK, NEW c \in columns, NEW v \in Literal \cup {NULL},
           \/ \E k \in Literal : UpdateByKey(k, c, v)
           \/ \E w \in Conditions(columns) : UpdateScan(w, c, v)
           \/ \E d \in columns : UpdateScanPrepared(d, c, v)
    PROVE  TypeOK'
<1>1. v \in Value /\ PlaceholderText \in Value
  BY ValueFacts
<1>2. \A row \in Row, x \in Value : Assigned(row, c, x) \in Row
  BY DEF Row, Assigned
<1>3. CASE \E k \in Literal : UpdateByKey(k, c, v)
  <2>1. PICK k \in Literal : UpdateByKey(k, c, v)
    BY <1>3
  <2>2. PICK ri \in DOMAIN rows :
            /\ rows' = [rows EXCEPT ![ri] = Assigned(@, c, v)]
            /\ col_store' =
                 IF WellTyped(c, v)
                 THEN [col_store EXCEPT
                         ![c] = IfWithin(@, ri, [@ EXCEPT ![ri] = v])]
                 ELSE col_store
    BY <2>1 DEF UpdateByKey
  <2>3. rows' \in Seq(Row)
    <3>1. rows[ri] \in Row /\ rows \in Seq(Row) /\ ri \in 1 .. Len(rows)
      BY <2>2, RowsFacts DEF TypeOK
    <3>2. Assigned(rows[ri], c, v) \in Row
      BY <1>1, <1>2, <3>1
    <3>. QED  BY <2>2, <3>1, <3>2, ExceptSeq
  <2>4. col_store' \in [columns -> Seq(Int \cup AllTexts)]
    <3>1. col_store \in [columns -> Seq(Int \cup AllTexts)]
      BY DEF TypeOK
    <3>2. CASE WellTyped(c, v)
      <4>1. v \in Int \cup AllTexts
        BY <3>2 DEF WellTyped
      <4>2. col_store[c] \in Seq(Int \cup AllTexts)
        BY <3>1
      <4>3. IfWithin(col_store[c], ri, [col_store[c] EXCEPT ![ri] = v])
                \in Seq(Int \cup AllTexts)
        BY <4>1, <4>2, LenProperties, ExceptSeq DEF IfWithin
      <4>. QED  BY <2>2, <3>1, <3>2, <4>3
    <3>. QED  BY <2>2, <3>1, <3>2
  <2>. QED  BY <2>1, <2>3, <2>4 DEF UpdateByKey, TypeOK, Row
<1>4. ASSUME NEW w, NEW x \in Value, AssignMatching(w, c, x)
      PROVE  TypeOK'
  <2>1. rows' \in [1 .. Len(rows) -> Row] /\ Len(rows) \in Nat
    BY <1>2, <1>4, RowsFacts DEF AssignMatching
  <2>2. rows' \in Seq(Row)
    BY <2>1, VectorIsSeq
  <2>. QED  BY <1>4, <2>2 DEF AssignMatching, TypeOK, Row
<1>. QED  BY <1>1, <1>3, <1>4 DEF UpdateScan, UpdateScanPrepared

LEMMA DeleteByKeyType ==
    ASSUME TypeOK, NEW k \in Literal, DeleteByKey(k)
    PROVE  TypeOK'
<1>. DEFINE ri == pk_index[k]
            rest == Unindexed(pk_index, k)
<1>1. /\ DOMAIN rest \subseteq Keys
      /\ rest \in [DOMAIN rest -> Nat \ {0}]
  BY DEF TypeOK, Unindexed
<1>2. CASE ri \in DOMAIN rows
  <2>1. rows' = SwapRemove(rows, ri) /\ rows \in Seq(Row)
    BY <1>2 DEF DeleteByKey, TypeOK
  <2>2. rows' \in Seq(Row)
    BY <1>2, <2>1, SwapRemoveProperties
  <2>3. col_store' \in [columns -> Seq(Int \cup AllTexts)]
    <3>1. ASSUME NEW c \in columns
          PROVE  IfWithin(col_store[c], ri, SwapRemove(col_store[c], ri))
                    \in Seq(Int \cup AllTexts)
      <4>1. col_store[c] \in Seq(Int \cup AllTexts)
        BY DEF TypeOK
      <4>. QED  BY <4>1, SwapRemoveProperties DEF IfWithin
    <3>2. col_store' = [c \in columns |->
                IfWithin(col_store[c], ri, SwapRemove(col_store[c], ri))]
      BY <1>2 DEF DeleteByKey
    <3>. QED  BY <3>1, <3>2
  <2>4. /\ DOMAIN pk_index' \subseteq Keys
        /\ pk_index' \in [DOMAIN pk_index' -> Nat \ {0}]
    <3>1. pk_index' = IF ri = Len(rows) THEN rest
                      ELSE Indexed(rest, RowKey(rows[Len(rows)]), ri)
      BY <1>2 DEF DeleteByKey
    <3>2. rows[Len(rows)] \in Row /\ ri \in Nat \ {0}
      BY <1>2, RowsFacts
    <3>3. RowKey(rows[Len(rows)]) \in Keys
      BY <3>2, RowKeyType
    <3>. HIDE DEF rest, ri
    <3>. QED  BY <1>1, <3>1, <3>2, <3>3 DEF Indexed
  <2>. QED  BY <2>2, <2>3, <2>4 DEF DeleteByKey, TypeOK, Row
<1>3. CASE ri \notin DOMAIN rows
  <2>1. pk_index' = rest
    BY <1>3 DEF DeleteByKey
  <2>2. UNCHANGED <<rows, col_store, columns, next_auto>>
    BY <1>3 DEF DeleteByKey
  <2>. QED  BY <1>1, <2>1, <2>2 DEF TypeOK, Row
<1>. QED  BY <1>2, <1>3

(* The rows a listing of positions picks are a vector of rows. *)
LEMMA ListingType ==
    ASSUME TypeOK, NEW K, K \subseteq DOMAIN rows, NEW f \in Listings(K)
    PROVE  [i \in DOMAIN f |-> rows[f[i]]] \in Seq(Row)
<1>1. PICK m \in 0 .. Len(rows) : f \in [1 .. m -> K]
  BY DEF Listings
<1>2. m \in Nat
  BY <1>1, RowsFacts
<1>3. [i \in DOMAIN f |-> rows[f[i]]] \in [1 .. m -> Row]
  BY <1>1, RowsFacts
<1>. QED  BY <1>2, <1>3, VectorIsSeq

LEMMA DeleteScanType ==
    ASSUME TypeOK, NEW w, DeleteScan(w)
    PROVE  TypeOK'
<1>. DEFINE K == {i \in DOMAIN rows : ~Matches(rows[i], w)}
<1>1. PICK f \in Listings(K) :
          /\ rows' = [i \in DOMAIN f |-> rows[f[i]]]
          /\ pk_index' \in Rebuilt([i \in DOMAIN f |-> rows[f[i]]])
          /\ col_store' = Mirror([i \in DOMAIN f |-> rows[f[i]]])
  BY DEF DeleteScan
<1>2. rows' \in Seq(Row)
  BY <1>1, ListingType
<1>3. pk_index' \in Rebuilt(rows') /\ col_store' = Mirror(rows')
  BY <1>1
<1>4. /\ DOMAIN pk_index' \subseteq Keys
      /\ pk_index' \in [DOMAIN pk_index' -> Nat \ {0}]
      /\ col_store' \in [columns -> Seq(Int \cup AllTexts)]
  BY <1>2, <1>3, RebuiltType, MirrorType
<1>. QED  BY <1>2, <1>4 DEF DeleteScan, TypeOK, Row

(* TRUNCATE and both forms of CREATE TABLE. *)
LEMMA ResetType ==
    ASSUME TypeOK, Truncate \/ CreateTable \/ CreateTableAs
    PROVE  TypeOK'
<1>1. columns' \in SUBSET Cols /\ PkCol \in columns'
  <2>1. PkCol \in Cols
    BY ColumnAssumption
  <2>. QED  BY <2>1 DEF TypeOK, Truncate, CreateTable, CreateTableAs
<1>2. next_auto' \in Nat \ {0}
  BY DEF TypeOK, Truncate, CreateTable, CreateTableAs
<1>3. rows' \in Seq([columns' -> Value])
  <2>1. CASE rows' = <<>>
    BY <2>1, EmptySeq
  <2>2. CASE UNCHANGED <<columns, rows>>
    BY <2>2 DEF TypeOK, Row
  <2>. QED  BY <2>1, <2>2 DEF Truncate, CreateTable, CreateTableAs
<1>4. pk_index' = [k \in {} |-> 1]
  BY DEF Truncate, CreateTable, CreateTableAs
<1>5. /\ DOMAIN pk_index' \subseteq Keys
      /\ pk_index' \in [DOMAIN pk_index' -> Nat \ {0}]
  BY <1>4
<1>6. col_store' = [c \in columns' |-> <<>>]
  BY DEF Truncate, CreateTable, CreateTableAs
<1>7. col_store' \in [columns' -> Seq(Int \cup AllTexts)]
  BY <1>6, EmptySeq
<1>. QED  BY <1>1, <1>2, <1>3, <1>5, <1>7 DEF TypeOK, Row

LEMMA AlterType ==
    ASSUME TypeOK, NEW c \in Cols, AddColumn(c) \/ DropColumn(c)
    PROVE  TypeOK'
<1>1. NULL \in Value /\ Cell(c, NULL) \in Int \cup AllTexts
  BY ValueFacts
<1>2. /\ columns' \in SUBSET Cols
      /\ PkCol \in columns'
      /\ UNCHANGED <<pk_index, next_auto>>
  BY DEF TypeOK, AddColumn, DropColumn
<1>3. \A r \in Row : \A d \in columns : r[d] \in Value
  BY DEF Row
<1>4. rows' \in [1 .. Len(rows) -> [columns' -> Value]] /\ Len(rows) \in Nat
  <2>1. CASE AddColumn(c)
    BY <1>1, <1>3, <2>1, RowsFacts DEF AddColumn
  <2>2. CASE DropColumn(c)
    BY <1>3, <2>2, RowsFacts DEF DropColumn
  <2>. QED  BY <2>1, <2>2
<1>5. rows' \in Seq([columns' -> Value])
  BY <1>4, VectorIsSeq
<1>6. col_store' \in [columns' -> Seq(Int \cup AllTexts)]
  <2>1. CASE AddColumn(c)
    <3>1. [i \in DOMAIN rows |-> Cell(c, NULL)]
              \in [1 .. Len(rows) -> Int \cup AllTexts]
      BY <1>1, RowsFacts
    <3>2. [i \in DOMAIN rows |-> Cell(c, NULL)] \in Seq(Int \cup AllTexts)
      BY <1>4, <3>1, VectorIsSeq
    <3>. QED  BY <2>1, <3>2 DEF AddColumn, TypeOK
  <2>2. CASE DropColumn(c)
    BY <2>2 DEF DropColumn, TypeOK
  <2>. QED  BY <2>1, <2>2
<1>. QED  BY <1>2, <1>5, <1>6 DEF TypeOK, Row

LEMMA InitType == Init => TypeOK
BY EmptySeq, ColumnAssumption DEF Init, TypeOK, Row

LEMMA NextType == TypeOK /\ [Next]_vars => TypeOK'
<1>1. SUFFICES ASSUME TypeOK, Next
               PROVE  TypeOK'
  BY DEF vars, TypeOK, Row
<1>. QED
  BY <1>1, InsertType, ReplaceType, UpdateType, DeleteByKeyType,
     DeleteScanType, ResetType, AlterType DEF Next, DeletePrepared

(* A table keeps its shape under every workload: rows have the table's     *)
(* columns, keys and positions are keys and positions, each column has one *)
(* store of its type, and the AUTO_INCREMENT counter is positive.          *)
THEOREM TypeCorrect == Spec => []TypeOK
BY InitType, NextType, PTL DEF Spec

-----------------------------------------------------------------------------
(* Soundness of the index. *)

(* An index into a vector of rows is sound when each key leads to a row    *)
(* with that key.                                                          *)
Sound(ix, rs) ==
    \A k \in DOMAIN ix : ix[k] \in DOMAIN rs /\ RowKey(rs[ix[k]]) = k

LEMMA SoundIsIndexSound == IndexSound <=> Sound(pk_index, rows)
BY DEF IndexSound, Sound

(* Indexing the row that is appended keeps a sound index sound.            *)
LEMMA PushSound ==
    ASSUME TypeOK, NEW rs \in Seq(Row), NEW row \in Row, NEW ix, NEW cs,
           Sound(ix, rs), Push(rs, ix, cs, row)
    PROVE  Sound(pk_index', rows')
<1>1. /\ Len(rs) \in Nat
      /\ DOMAIN rs = 1 .. Len(rs)
  BY LenProperties
<1>2. /\ DOMAIN rows' = 1 .. (Len(rs) + 1)
      /\ \A i \in 1 .. Len(rs) : rows'[i] = rs[i]
      /\ rows'[Len(rs) + 1] = row
  BY <1>1, AppendProperties DEF Push
<1>3. pk_index' = [j \in DOMAIN ix \cup {RowKey(row)} |->
                      IF j = RowKey(row) THEN Len(rs) + 1 ELSE ix[j]]
  BY DEF Push, Indexed
<1>4. ASSUME NEW k \in DOMAIN pk_index'
      PROVE  pk_index'[k] \in DOMAIN rows' /\ RowKey(rows'[pk_index'[k]]) = k
  <2>1. CASE k = RowKey(row)
    <3>1. pk_index'[k] = Len(rs) + 1
      BY <1>3, <2>1
    <3>. QED  BY <1>1, <1>2, <2>1, <3>1
  <2>2. CASE k # RowKey(row)
    <3>1. k \in DOMAIN ix /\ pk_index'[k] = ix[k]
      BY <1>3, <2>2
    <3>2. ix[k] \in 1 .. Len(rs) /\ RowKey(rs[ix[k]]) = k
      BY <1>1, <3>1 DEF Sound
    <3>. QED  BY <1>1, <1>2, <3>1, <3>2
  <2>. QED  BY <2>1, <2>2
<1>. QED  BY <1>4 DEF Sound

(* An index rebuilt from the rows is sound. *)
LEMMA RebuiltSound ==
    ASSUME NEW rs, NEW ix \in Rebuilt(rs)
    PROVE  Sound(ix, rs)
BY DEF Rebuilt, Sound

LEMMA InsertSound ==
    ASSUME TypeOK, IndexSound, NEW row \in OfferedRows \cup AutoRows,
           \/ Insert(row)
           \/ Replace(row)
           \/ ReplaceNew(row)
           \/ InsertPrepared(row)
    PROVE  IndexSound'
<1>1. row \in Row /\ rows \in Seq(Row)
  BY OfferedRowsAreRows DEF TypeOK
<1>2. CASE Insert(row) \/ ReplaceNew(row) \/ InsertPrepared(row)
  <2>1. Push(rows, pk_index, col_store, row)
    BY <1>2 DEF Insert, ReplaceNew, InsertPrepared
  <2>2. Sound(pk_index, rows)
    BY SoundIsIndexSound
  <2>3. Sound(pk_index', rows')
    BY <1>1, <2>1, <2>2, PushSound
  <2>. QED  BY <2>3 DEF IndexSound, Sound
<1>3. CASE Replace(row)
  <2>. DEFINE old == pk_index[RowKey(row)]
              kept == Without(rows, old)
              stores == [c \in columns |->
                           IfWithin(col_store[c], old, Without(col_store[c], old))]
  <2>1. old \in DOMAIN rows
    BY <1>3 DEF Replace
  <2>2. kept \in Seq(Row)
    BY <1>1, <2>1, WithoutProperties
  <2>3. PICK ix \in Rebuilt(kept) : Push(kept, ix, stores, row)
    BY <1>3 DEF Replace
  <2>4. Sound(pk_index', rows')
    <3>. HIDE DEF kept, stores
    <3>. QED  BY <1>1, <2>2, <2>3, RebuiltSound, PushSound
  <2>. QED  BY <2>4 DEF IndexSound, Sound
<1>. QED  BY <1>2, <1>3

(* An UPDATE that leaves the key column alone leaves the keys alone. *)
LEMMA UpdateKeepsKeys ==
    ASSUME TypeOK, "update_key" \notin Workload,
           NEW c \in columns, NEW v \in Literal \cup {NULL},
           \/ \E k \in Literal : UpdateByKey(k, c, v)
           \/ \E w \in Conditions(columns) : UpdateScan(w, c, v)
           \/ \E d \in columns : UpdateScanPrepared(d, c, v)
    PROVE  /\ pk_index' = pk_index
           /\ DOMAIN rows' = DOMAIN rows
           /\ \A i \in DOMAIN rows : rows'[i][PkCol] = rows[i][PkCol]
           /\ \A i \in DOMAIN rows : RowKey(rows'[i]) = RowKey(rows[i])
<1>1. c # PkCol /\ pk_index' = pk_index
  BY DEF UpdateByKey, UpdateScan, UpdateScanPrepared, AssignMatching,
         MayUpdate, Allowed
<1>2. \A row \in Row : \A x : Assigned(row, c, x)[PkCol] = row[PkCol]
  BY <1>1 DEF Row, Assigned, TypeOK
<1>3. /\ DOMAIN rows' = DOMAIN rows
      /\ \A i \in DOMAIN rows :
            rows'[i] = rows[i] \/ \E x : rows'[i] = Assigned(rows[i], c, x)
  <2>1. CASE \E k \in Literal : UpdateByKey(k, c, v)
    <3>1. PICK ri \in DOMAIN rows :
              rows' = [rows EXCEPT ![ri] = Assigned(@, c, v)]
      BY <2>1 DEF UpdateByKey
    <3>. QED  BY <3>1, RowsFacts
  <2>2. ASSUME NEW w, NEW x, AssignMatching(w, c, x)
        PROVE  /\ DOMAIN rows' = DOMAIN rows
               /\ \A i \in DOMAIN rows :
                     \/ rows'[i] = rows[i]
                     \/ \E y : rows'[i] = Assigned(rows[i], c, y)
    BY <2>2 DEF AssignMatching
  <2>. QED  BY <2>1, <2>2 DEF UpdateScan, UpdateScanPrepared
<1>4. \A i \in DOMAIN rows : rows'[i][PkCol] = rows[i][PkCol]
  BY <1>2, <1>3, RowsFacts
<1>. QED  BY <1>1, <1>3, <1>4 DEF RowKey

LEMMA UpdateSound ==
    ASSUME TypeOK, IndexSound, "update_key" \notin Workload,
           NEW c \in columns, NEW v \in Literal \cup {NULL},
           \/ \E k \in Literal : UpdateByKey(k, c, v)
           \/ \E w \in Conditions(columns) : UpdateScan(w, c, v)
           \/ \E d \in columns : UpdateScanPrepared(d, c, v)
    PROVE  IndexSound'
BY UpdateKeepsKeys DEF IndexSound

(* DELETE by key: swap_remove moves the last row, and its entry with it. *)
LEMMA DeleteByKeySound ==
    ASSUME TypeOK, IndexSound, NEW k \in Literal, DeleteByKey(k)
    PROVE  IndexSound'
<1>. DEFINE ri == pk_index[k]
            last == Len(rows)
            rest == Unindexed(pk_index, k)
            moved == RowKey(rows[last])
<1>1. /\ k \in DOMAIN pk_index
      /\ ri \in DOMAIN rows
      /\ RowKey(rows[ri]) = k
  BY DEF DeleteByKey, IndexSound
<1>2. /\ rows' = SwapRemove(rows, ri)
      /\ pk_index' = IF ri = last THEN rest ELSE Indexed(rest, moved, ri)
  BY <1>1 DEF DeleteByKey
<1>3. /\ last \in Nat
      /\ DOMAIN rows = 1 .. last
      /\ ri \in 1 .. last
  BY <1>1, RowsFacts
<1>4. /\ DOMAIN rows' = 1 .. (last - 1)
      /\ \A j \in 1 .. (last - 1) :
            rows'[j] = IF j = ri THEN rows[last] ELSE rows[j]
  BY <1>2 DEF SwapRemove
<1>5. ASSUME NEW j \in DOMAIN pk_index, j # k
      PROVE  /\ pk_index[j] \in 1 .. last
             /\ pk_index[j] # ri
             /\ RowKey(rows[pk_index[j]]) = j
  BY <1>1, <1>3, <1>5 DEF IndexSound
<1>6. rest = [j \in DOMAIN pk_index \ {k} |-> pk_index[j]]
  BY DEF Unindexed
<1>. HIDE DEF ri, last, rest, moved
<1>7. CASE ri = last
  <2>1. ASSUME NEW j \in DOMAIN pk_index'
        PROVE  pk_index'[j] \in DOMAIN rows' /\ RowKey(rows'[pk_index'[j]]) = j
    <3>1. j \in DOMAIN pk_index /\ j # k /\ pk_index'[j] = pk_index[j]
      BY <1>2, <1>6, <1>7
    <3>2. pk_index[j] \in 1 .. (last - 1)
      BY <1>3, <1>5, <1>7, <3>1
    <3>. QED  BY <1>4, <1>5, <3>1, <3>2
  <2>. QED  BY <2>1 DEF IndexSound
<1>8. CASE ri # last
  <2>1. pk_index' = [j \in DOMAIN rest \cup {moved} |->
                        IF j = moved THEN ri ELSE rest[j]]
    BY <1>2, <1>8 DEF Indexed
  <2>2. ri \in 1 .. (last - 1)
    BY <1>3, <1>8
  <2>3. ASSUME NEW j \in DOMAIN pk_index'
        PROVE  pk_index'[j] \in DOMAIN rows' /\ RowKey(rows'[pk_index'[j]]) = j
    <3>1. CASE j = moved
      BY <1>4, <2>1, <2>2, <3>1 DEF moved
    <3>2. CASE j # moved
      <4>1. j \in DOMAIN pk_index /\ j # k /\ pk_index'[j] = pk_index[j]
        BY <1>6, <2>1, <3>2
      <4>2. pk_index[j] # last
        BY <1>5, <3>2, <4>1 DEF moved
      <4>3. pk_index[j] \in 1 .. (last - 1)
        BY <1>3, <1>5, <4>1, <4>2
      <4>. QED  BY <1>4, <1>5, <4>1, <4>3
    <3>. QED  BY <3>1, <3>2
  <2>. QED  BY <2>3 DEF IndexSound
<1>. QED  BY <1>7, <1>8

LEMMA DeleteScanSound ==
    ASSUME NEW w, DeleteScan(w)
    PROVE  IndexSound'
<1>1. pk_index' \in Rebuilt(rows')
  BY DEF DeleteScan
<1>2. Sound(pk_index', rows')
  BY <1>1, RebuiltSound
<1>. QED  BY <1>2 DEF IndexSound, Sound

(* TRUNCATE and CREATE TABLE empty the index. *)
LEMMA ResetSound ==
    ASSUME Truncate \/ CreateTable \/ CreateTableAs
    PROVE  IndexSound'
BY DEF IndexSound, Truncate, CreateTable, CreateTableAs

(* ALTER TABLE reshapes the rows in place, around their keys. *)
LEMMA AlterKeepsKeys ==
    ASSUME TypeOK, NEW c \in Cols, AddColumn(c) \/ DropColumn(c)
    PROVE  /\ pk_index' = pk_index
           /\ DOMAIN rows' = DOMAIN rows
           /\ \A i \in DOMAIN rows : rows'[i][PkCol] = rows[i][PkCol]
           /\ \A i \in DOMAIN rows : RowKey(rows'[i]) = RowKey(rows[i])
<1>1. pk_index' = pk_index /\ DOMAIN rows' = DOMAIN rows
  BY DEF AddColumn, DropColumn
<1>2. PkCol \in columns /\ PkCol \in columns'
  BY DEF TypeOK, AddColumn, DropColumn
<1>3. \A i \in DOMAIN rows : rows'[i][PkCol] = rows[i][PkCol]
  BY <1>2 DEF AddColumn, DropColumn
<1>. QED  BY <1>1, <1>3 DEF RowKey

LEMMA AlterSound ==
    ASSUME TypeOK, IndexSound, NEW c \in Cols, AddColumn(c) \/ DropColumn(c)
    PROVE  IndexSound'
BY AlterKeepsKeys DEF IndexSound

(* As long as no UPDATE assigns the key column, every entry of the index   *)
(* leads to a row with its key: lookups, point updates and point deletes   *)
(* touch the row they name, and REPLACE never removes past the end.  This  *)
(* includes tables with duplicate keys, prepared statements, values of the *)
(* wrong type, schema changes and CREATE TABLE ... AS.                     *)
THEOREM IndexSoundness ==
    ASSUME "update_key" \notin Workload
    PROVE  Spec => []IndexSound
<1>1. Init => IndexSound
  BY DEF Init, IndexSound
<1>2. TypeOK /\ IndexSound /\ [Next]_vars => IndexSound'
  <2>1. SUFFICES ASSUME TypeOK, IndexSound, Next
                 PROVE  IndexSound'
    BY DEF vars, IndexSound
  <2>. QED
    BY <2>1, InsertSound, UpdateSound, DeleteByKeySound, DeleteScanSound,
       ResetSound, AlterSound DEF Next, DeletePrepared
<1>. QED  BY <1>1, <1>2, TypeCorrect, PTL DEF Spec

-----------------------------------------------------------------------------
(* The column stores never outgrow the table. *)

LEMMA RowsLength ==
    ASSUME TypeOK
    PROVE  /\ Len(rows) \in Nat
           /\ \A c \in columns : /\ col_store[c] \in Seq(Int \cup AllTexts)
                                 /\ Len(col_store[c]) \in Nat
                                 /\ DOMAIN col_store[c] = 1 .. Len(col_store[c])
BY RowsFacts, LenProperties DEF TypeOK

LEMMA MirrorLength ==
    ASSUME NEW rs \in Seq(Row), NEW c \in columns
    PROVE  Len(Mirror(rs)[c]) = Len(rs)
<1>1. DOMAIN Mirror(rs)[c] = 1 .. Len(rs) /\ Len(rs) \in Nat
  BY LenProperties DEF Mirror
<1>2. Mirror(rs)[c] = [i \in 1 .. Len(rs) |-> Cell(c, rs[i][c])]
  BY LenProperties DEF Mirror
<1>. QED  BY <1>1, <1>2

(* The store of a column after a row has been pushed. *)
LEMMA PushStore ==
    ASSUME TypeOK, NEW rs \in Seq(Row), NEW row \in Row, NEW ix,
           NEW cs \in [columns -> Seq(Int \cup AllTexts)],
           Push(rs, ix, cs, row), NEW c \in columns
    PROVE  /\ Len(rows') = Len(rs) + 1
           /\ Len(col_store'[c]) = Len(cs[c]) + 1
           /\ \A i \in 1 .. Len(cs[c]) : col_store'[c][i] = cs[c][i]
           /\ col_store'[c][Len(cs[c]) + 1] = Cell(c, row[c])
<1>1. Cell(c, row[c]) \in Int \cup AllTexts
  BY ValueFacts DEF Row
<1>2. cs[c] \in Seq(Int \cup AllTexts)
  OBVIOUS
<1>3. col_store'[c] = Append(cs[c], Cell(c, row[c])) /\ rows' = Append(rs, row)
  BY DEF Push
<1>. QED  BY <1>1, <1>2, <1>3, AppendProperties

(* Removing a position of the rows from a store that is not longer than    *)
(* they are leaves one that is not longer than what is left of them.       *)
LEMMA RemovalShortens ==
    ASSUME NEW S, NEW s \in Seq(S), NEW n \in Nat, Len(s) <= n, NEW i \in 1 .. n
    PROVE  /\ Len(IfWithin(s, i, Without(s, i))) <= n - 1
           /\ Len(IfWithin(s, i, SwapRemove(s, i))) <= n - 1
<1>1. Len(s) \in Nat /\ DOMAIN s = 1 .. Len(s)
  BY LenProperties
<1>2. CASE i \in DOMAIN s
  BY <1>1, <1>2, WithoutProperties, SwapRemoveProperties DEF IfWithin
<1>3. CASE i \notin DOMAIN s
  BY <1>1, <1>3 DEF IfWithin
<1>. QED  BY <1>2, <1>3

LEMMA InsertShort ==
    ASSUME TypeOK, StoresNeverLonger, NEW row \in OfferedRows \cup AutoRows,
           \/ Insert(row)
           \/ Replace(row)
           \/ ReplaceNew(row)
           \/ InsertPrepared(row)
    PROVE  StoresNeverLonger'
<1>1. /\ row \in Row /\ rows \in Seq(Row)
      /\ col_store \in [columns -> Seq(Int \cup AllTexts)]
      /\ columns' = columns
  BY OfferedRowsAreRows DEF TypeOK, Insert, Replace, ReplaceNew, InsertPrepared
<1>2. CASE Insert(row) \/ ReplaceNew(row) \/ InsertPrepared(row)
  <2>1. Push(rows, pk_index, col_store, row)
    BY <1>2 DEF Insert, ReplaceNew, InsertPrepared
  <2>. QED  BY <1>1, <2>1, PushStore, RowsLength DEF StoresNeverLonger
<1>3. CASE Replace(row)
  <2>. DEFINE old == pk_index[RowKey(row)]
              kept == Without(rows, old)
              stores == [c \in columns |->
                           IfWithin(col_store[c], old, Without(col_store[c], old))]
  <2>1. old \in 1 .. Len(rows)
    BY <1>3, RowsFacts DEF Replace
  <2>2. kept \in Seq(Row) /\ Len(kept) = Len(rows) - 1
    BY <1>1, <2>1, RowsFacts, WithoutProperties
  <2>3. /\ stores \in [columns -> Seq(Int \cup AllTexts)]
        /\ \A c \in columns : Len(stores[c]) <= Len(rows) - 1
    BY <1>1, <2>1, RowsLength, RemovalShortens, WithoutProperties
       DEF StoresNeverLonger, IfWithin
  <2>4. PICK ix \in Rebuilt(kept) : Push(kept, ix, stores, row)
    BY <1>3 DEF Replace
  <2>5. \A c \in columns : Len(stores[c]) \in Nat
    BY <2>3, LenProperties
  <2>. HIDE DEF kept, stores
  <2>6. \A c \in columns : Len(col_store'[c]) <= Len(rows')
    <3>1. ASSUME NEW c \in columns
          PROVE  /\ Len(rows') = Len(kept) + 1
                 /\ Len(col_store'[c]) = Len(stores[c]) + 1
      <4>1. row \in Row /\ kept \in Seq(Row)
        BY <1>1, <2>2
      <4>2. stores \in [columns -> Seq(Int \cup AllTexts)]
        BY <2>3
      <4>. QED  BY <2>4, <4>1, <4>2, PushStore
    <3>. QED  BY <2>2, <2>3, <2>5, <3>1, RowsLength
  <2>. QED  BY <1>1, <2>6 DEF StoresNeverLonger
<1>. QED  BY <1>2, <1>3

(* An UPDATE never changes the length of anything. *)
LEMMA UpdateShort ==
    ASSUME TypeOK, StoresNeverLonger, NEW c \in columns,
           NEW v \in Literal \cup {NULL},
           \/ \E k \in Literal : UpdateByKey(k, c, v)
           \/ \E w \in Conditions(columns) : UpdateScan(w, c, v)
           \/ \E d \in columns : UpdateScanPrepared(d, c, v)
    PROVE  StoresNeverLonger'
<1>1. DOMAIN rows' = DOMAIN rows /\ columns' = columns
  BY DEF UpdateByKey, UpdateScan, UpdateScanPrepared, AssignMatching
<1>2. \A d \in columns : DOMAIN col_store'[d] = DOMAIN col_store[d]
  BY DEF UpdateByKey, UpdateScan, UpdateScanPrepared, AssignMatching, IfWithin,
     TypeOK
<1>3. TypeOK'
  BY UpdateType
<1>4. Len(rows') = Len(rows)
  BY <1>1, <1>3, LenProperties DEF TypeOK
<1>5. \A d \in columns : Len(col_store'[d]) = Len(col_store[d])
  <2>1. ASSUME NEW d \in columns
        PROVE  Len(col_store'[d]) = Len(col_store[d])
    <3>1. /\ col_store'[d] \in Seq(Int \cup AllTexts)
          /\ col_store[d] \in Seq(Int \cup AllTexts)
      BY <1>1, <1>3 DEF TypeOK
    <3>. QED  BY <1>2, <3>1, LenProperties
  <2>. QED  BY <2>1
<1>. QED  BY <1>1, <1>4, <1>5 DEF StoresNeverLonger

LEMMA DeleteByKeyShort ==
    ASSUME TypeOK, StoresNeverLonger, NEW k \in Literal, DeleteByKey(k)
    PROVE  StoresNeverLonger'
<1>. DEFINE ri == pk_index[k]
<1>1. columns' = columns
  BY DEF DeleteByKey
<1>2. CASE ri \in DOMAIN rows
  <2>1. ri \in 1 .. Len(rows) /\ rows \in Seq(Row)
    BY <1>2, RowsFacts DEF TypeOK
  <2>2. Len(rows') = Len(rows) - 1
    BY <1>2, <2>1, SwapRemoveProperties DEF DeleteByKey
  <2>3. \A c \in columns :
            col_store'[c] = IfWithin(col_store[c], ri, SwapRemove(col_store[c], ri))
    BY <1>2 DEF DeleteByKey
  <2>4. \A c \in columns : Len(col_store'[c]) <= Len(rows) - 1
    BY <2>1, <2>3, RowsLength, RemovalShortens DEF StoresNeverLonger
  <2>. QED  BY <1>1, <2>2, <2>4 DEF StoresNeverLonger
<1>3. CASE ri \notin DOMAIN rows
  <2>1. UNCHANGED <<rows, col_store>>
    BY <1>3 DEF DeleteByKey
  <2>. QED  BY <1>1, <2>1 DEF StoresNeverLonger
<1>. QED  BY <1>2, <1>3

LEMMA DeleteScanShort ==
    ASSUME TypeOK, NEW w, DeleteScan(w)
    PROVE  StoresNeverLonger'
<1>1. columns' = columns /\ col_store' = Mirror(rows')
  BY DEF DeleteScan
<1>2. rows' \in Seq(Row)
  BY <1>1, DeleteScanType DEF TypeOK, Row
<1>3. Len(rows') \in Nat
  BY <1>2, LenProperties
<1>. QED  BY <1>1, <1>2, <1>3, MirrorLength DEF StoresNeverLonger

LEMMA ResetShort ==
    ASSUME TypeOK, Truncate \/ CreateTable \/ CreateTableAs
    PROVE  StoresNeverLonger'
<1>1. \A c \in columns' : col_store'[c] = <<>>
  BY DEF Truncate, CreateTable, CreateTableAs
<1>2. Len(rows') \in Nat
  <2>1. TypeOK'
    BY ResetType
  <2>. QED  BY <2>1, LenProperties DEF TypeOK
<1>3. Len(<<>>) = 0
  BY EmptySeq
<1>. QED  BY <1>1, <1>2, <1>3 DEF StoresNeverLonger

(* ALTER TABLE fills the store of a new column up, and keeps the others.   *)
LEMMA AlterShort ==
    ASSUME TypeOK, StoresNeverLonger, NEW c \in Cols, AddColumn(c) \/ DropColumn(c)
    PROVE  StoresNeverLonger'
<1>1. Len(rows') = Len(rows) /\ Len(rows) \in Nat
  <2>1. TypeOK' /\ DOMAIN rows' = DOMAIN rows
    BY AlterType DEF AddColumn, DropColumn
  <2>. QED  BY <2>1, RowsFacts, LenProperties DEF TypeOK
<1>2. CASE DropColumn(c)
  BY <1>1, <1>2 DEF DropColumn, StoresNeverLonger
<1>3. CASE AddColumn(c)
  <2>1. col_store'[c] = [i \in 1 .. Len(rows) |-> Cell(c, NULL)]
    BY <1>3, RowsFacts DEF AddColumn
  <2>2. Len(col_store'[c]) = Len(rows)
    BY <1>1, <2>1
  <2>3. \A d \in columns' : d # c => d \in columns /\ col_store'[d] = col_store[d]
    BY <1>3 DEF AddColumn
  <2>. QED  BY <1>1, <2>2, <2>3 DEF StoresNeverLonger
<1>. QED  BY <1>2, <1>3

(* Whatever clients do - stale index entries, stores that REPLACE and      *)
(* DELETE leave alone, CREATE TABLE ... AS included - a SIMD scan never    *)
(* yields a position past the last row.                                    *)
THEOREM ScansStayInside == Spec => []StoresNeverLonger
<1>1. Init => StoresNeverLonger
  <2>1. Len(<<>>) = 0
    BY EmptySeq
  <2>2. ASSUME Init, NEW c \in columns
        PROVE  Len(col_store[c]) <= Len(rows)
    <3>1. col_store[c] = <<>> /\ rows = <<>>
      BY <2>2 DEF Init
    <3>. QED  BY <2>1, <3>1
  <2>. QED  BY <2>2 DEF StoresNeverLonger
<1>2. TypeOK /\ StoresNeverLonger /\ [Next]_vars => StoresNeverLonger'
  <2>1. SUFFICES ASSUME TypeOK, StoresNeverLonger, Next
                 PROVE  StoresNeverLonger'
    BY DEF vars, StoresNeverLonger
  <2>. QED
    BY <2>1, InsertShort, UpdateShort, DeleteByKeyShort, DeleteScanShort,
       ResetShort, AlterShort DEF Next, DeletePrepared
<1>. QED  BY <1>1, <1>2, TypeCorrect, PTL DEF Spec

-----------------------------------------------------------------------------
(* The column stores mirror the rows. *)

(* Statements that leave a store behind: those that put a value of another *)
(* type into an existing cell, those that scan for the rows they update,   *)
(* and CREATE TABLE ... AS.                                                *)
Unmirrored == {"untyped_value", "update_scan", "prepared_scan", "create_as"}

(* Stores cs hold, cell by cell, what rows rs hold of the columns C. *)
Mirrors(C, cs, rs) ==
    \A c \in C :
        /\ Len(cs[c]) = Len(rs)
        /\ \A i \in 1 .. Len(rs) : cs[c][i] = Cell(c, rs[i][c])

LEMMA MirrorsIsMirror ==
    ASSUME NEW C, NEW S, NEW rs \in Seq(S), NEW cs \in [C -> Seq(Int \cup AllTexts)]
    PROVE  Mirrors(C, cs, rs)
              <=> cs = [c \in C |-> [i \in DOMAIN rs |-> Cell(c, rs[i][c])]]
<1>1. Len(rs) \in Nat /\ DOMAIN rs = 1 .. Len(rs)
  BY LenProperties
<1>2. ASSUME NEW c \in C
      PROVE  /\ Len(cs[c]) \in Nat
             /\ DOMAIN cs[c] = 1 .. Len(cs[c])
             /\ cs[c] = [i \in 1 .. Len(cs[c]) |-> cs[c][i]]
  <2>1. cs[c] \in Seq(Int \cup AllTexts)
    OBVIOUS
  <2>. QED  BY <2>1, LenProperties
<1>3. ASSUME Mirrors(C, cs, rs)
      PROVE  cs = [c \in C |-> [i \in DOMAIN rs |-> Cell(c, rs[i][c])]]
  <2>1. ASSUME NEW c \in C
        PROVE  cs[c] = [i \in DOMAIN rs |-> Cell(c, rs[i][c])]
    <3>1. /\ cs[c] = [i \in 1 .. Len(rs) |-> cs[c][i]]
          /\ \A i \in 1 .. Len(rs) : cs[c][i] = Cell(c, rs[i][c])
      BY <1>2, <1>3 DEF Mirrors
    <3>. QED  BY <1>1, <3>1
  <2>. QED  BY <2>1
<1>4. ASSUME cs = [c \in C |-> [i \in DOMAIN rs |-> Cell(c, rs[i][c])]]
      PROVE  Mirrors(C, cs, rs)
  <2>1. ASSUME NEW c \in C
        PROVE  /\ Len(cs[c]) = Len(rs)
               /\ \A i \in 1 .. Len(rs) : cs[c][i] = Cell(c, rs[i][c])
    <3>1. cs[c] = [i \in 1 .. Len(rs) |-> Cell(c, rs[i][c])]
      BY <1>1, <1>4
    <3>. QED  BY <1>1, <3>1
  <2>. QED  BY <2>1 DEF Mirrors
<1>. QED  BY <1>3, <1>4

LEMMA StoresMirrorIsMirrors ==
    ASSUME TypeOK
    PROVE  StoresMirrorRows <=> Mirrors(columns, col_store, rows)
BY MirrorsIsMirror DEF TypeOK, StoresMirrorRows, Mirror

(* The same of the next state. *)
LEMMA NextMirrors ==
    ASSUME TypeOK', Mirrors(columns', col_store', rows')
    PROVE  StoresMirrorRows'
BY MirrorsIsMirror DEF TypeOK, StoresMirrorRows, Mirror

LEMMA PushMirrors ==
    ASSUME TypeOK, NEW rs \in Seq(Row), NEW row \in Row, NEW ix,
           NEW cs \in [columns -> Seq(Int \cup AllTexts)],
           Mirrors(columns, cs, rs), Push(rs, ix, cs, row)
    PROVE  Mirrors(columns, col_store', rows')
<1>1. /\ Len(rs) \in Nat
      /\ Len(rows') = Len(rs) + 1
      /\ \A i \in 1 .. Len(rs) : rows'[i] = rs[i]
      /\ rows'[Len(rs) + 1] = row
  BY LenProperties, AppendProperties DEF Push
<1>2. ASSUME NEW c \in columns, NEW i \in 1 .. Len(rows')
      PROVE  /\ Len(col_store'[c]) = Len(rows')
             /\ col_store'[c][i] = Cell(c, rows'[i][c])
  <2>1. /\ Len(cs[c]) = Len(rs)
        /\ \A j \in 1 .. Len(rs) : cs[c][j] = Cell(c, rs[j][c])
    BY DEF Mirrors
  <2>2. /\ Len(col_store'[c]) = Len(cs[c]) + 1
        /\ \A j \in 1 .. Len(cs[c]) : col_store'[c][j] = cs[c][j]
        /\ col_store'[c][Len(cs[c]) + 1] = Cell(c, row[c])
    BY PushStore
  <2>3. CASE i \in 1 .. Len(rs)
    BY <1>1, <2>1, <2>2, <2>3
  <2>4. CASE i = Len(rs) + 1
    BY <1>1, <2>1, <2>2, <2>4
  <2>. QED  BY <1>1, <2>1, <2>2, <2>3, <2>4
<1>3. 1 \in 1 .. Len(rows')
  BY <1>1
<1>. QED  BY <1>2, <1>3 DEF Mirrors

(* Both ways of removing a position keep stores and rows in step. *)
LEMMA RemovalMirrors ==
    ASSUME TypeOK, StoresMirrorRows, NEW i \in DOMAIN rows, NEW c \in columns
    PROVE  /\ i \in DOMAIN col_store[c]
           /\ Len(Without(col_store[c], i)) = Len(Without(rows, i))
           /\ \A j \in 1 .. Len(Without(rows, i)) :
                 Without(col_store[c], i)[j] = Cell(c, Without(rows, i)[j][c])
           /\ Len(SwapRemove(col_store[c], i)) = Len(SwapRemove(rows, i))
           /\ \A j \in 1 .. Len(SwapRemove(rows, i)) :
                 SwapRemove(col_store[c], i)[j] = Cell(c, SwapRemove(rows, i)[j][c])
<1>. DEFINE n == Len(rows)
<1>1. /\ n \in Nat /\ DOMAIN rows = 1 .. n /\ rows \in Seq(Row)
      /\ col_store[c] \in Seq(Int \cup AllTexts)
      /\ Len(col_store[c]) = n
      /\ DOMAIN col_store[c] = 1 .. n
      /\ \A j \in 1 .. n : col_store[c][j] = Cell(c, rows[j][c])
  BY RowsFacts, RowsLength, StoresMirrorIsMirrors DEF Mirrors, TypeOK
<1>2. /\ Len(Without(rows, i)) = n - 1
      /\ Len(Without(col_store[c], i)) = n - 1
      /\ Len(SwapRemove(rows, i)) = n - 1
      /\ Len(SwapRemove(col_store[c], i)) = n - 1
  <2>1. /\ Len(Without(rows, i)) = n - 1
        /\ Len(SwapRemove(rows, i)) = n - 1
    BY <1>1, WithoutProperties, SwapRemoveProperties
  <2>2. i \in DOMAIN col_store[c]
    BY <1>1
  <2>3. /\ Len(Without(col_store[c], i)) = Len(col_store[c]) - 1
        /\ Len(SwapRemove(col_store[c], i)) = Len(col_store[c]) - 1
    BY <1>1, <2>2, WithoutProperties, SwapRemoveProperties
  <2>. QED  BY <1>1, <2>1, <2>3
<1>3. ASSUME NEW j \in 1 .. n - 1
      PROVE  /\ Without(col_store[c], i)[j] = Cell(c, Without(rows, i)[j][c])
             /\ SwapRemove(col_store[c], i)[j] = Cell(c, SwapRemove(rows, i)[j][c])
  <2>1. j \in 1 .. n /\ j + 1 \in 1 .. n /\ n \in 1 .. n
    BY <1>1
  <2>2. Without(col_store[c], i)[j] = Cell(c, Without(rows, i)[j][c])
    BY <1>1, <2>1 DEF Without
  <2>3. SwapRemove(col_store[c], i)[j] = Cell(c, SwapRemove(rows, i)[j][c])
    BY <1>1, <2>1 DEF SwapRemove
  <2>. QED  BY <2>2, <2>3
<1>. QED  BY <1>1, <1>2, <1>3

LEMMA InsertMirrors ==
    ASSUME TypeOK, StoresMirrorRows, NEW row \in OfferedRows \cup AutoRows,
           \/ Insert(row)
           \/ Replace(row)
           \/ ReplaceNew(row)
           \/ InsertPrepared(row)
    PROVE  StoresMirrorRows'
<1>1. /\ row \in Row /\ rows \in Seq(Row)
      /\ col_store \in [columns -> Seq(Int \cup AllTexts)]
      /\ columns' = columns
  BY OfferedRowsAreRows DEF TypeOK, Insert, Replace, ReplaceNew, InsertPrepared
<1>2. TypeOK'
  BY InsertType, ReplaceType
<1>3. CASE Insert(row) \/ ReplaceNew(row) \/ InsertPrepared(row)
  <2>1. Push(rows, pk_index, col_store, row)
    BY <1>3 DEF Insert, ReplaceNew, InsertPrepared
  <2>2. Mirrors(columns, col_store, rows)
    BY StoresMirrorIsMirrors
  <2>3. Mirrors(columns, col_store', rows')
    BY <1>1, <2>1, <2>2, PushMirrors
  <2>. QED  BY <1>1, <1>2, <2>3, NextMirrors
<1>4. CASE Replace(row)
  <2>. DEFINE old == pk_index[RowKey(row)]
              kept == Without(rows, old)
              stores == [c \in columns |->
                           IfWithin(col_store[c], old, Without(col_store[c], old))]
  <2>1. old \in DOMAIN rows
    BY <1>4 DEF Replace
  <2>2. kept \in Seq(Row)
    BY <1>1, <2>1, WithoutProperties
  <2>3. \A c \in columns : stores[c] = Without(col_store[c], old)
    BY <2>1, RemovalMirrors DEF IfWithin
  <2>4. stores \in [columns -> Seq(Int \cup AllTexts)]
    <3>1. \A c \in columns : stores[c] \in Seq(Int \cup AllTexts)
      BY <2>1, <2>3, RowsLength, RemovalMirrors, WithoutProperties
    <3>. QED  BY <3>1
  <2>5. Mirrors(columns, stores, kept)
    <3>1. ASSUME NEW c \in columns
          PROVE  /\ Len(stores[c]) = Len(kept)
                 /\ \A i \in 1 .. Len(kept) : stores[c][i] = Cell(c, kept[i][c])
      <4>1. stores[c] = Without(col_store[c], old)
        BY <2>3
      <4>. HIDE DEF stores
      <4>. QED  BY <2>1, <4>1, RemovalMirrors
    <3>. HIDE DEF stores, kept
    <3>. QED  BY <3>1 DEF Mirrors
  <2>6. PICK ix \in Rebuilt(kept) : Push(kept, ix, stores, row)
    BY <1>4 DEF Replace
  <2>7. Mirrors(columns, col_store', rows')
    <3>. HIDE DEF kept, stores
    <3>. QED  BY <1>1, <2>2, <2>4, <2>5, <2>6, PushMirrors
  <2>. QED  BY <1>1, <1>2, <2>7, NextMirrors
<1>. QED  BY <1>3, <1>4

LEMMA UpdateMirrors ==
    ASSUME TypeOK, StoresMirrorRows, Workload \cap Unmirrored = {},
           NEW c \in columns, NEW v \in Literal \cup {NULL},
           \/ \E k \in Literal : UpdateByKey(k, c, v)
           \/ \E w \in Conditions(columns) : UpdateScan(w, c, v)
           \/ \E d \in columns : UpdateScanPrepared(d, c, v)
    PROVE  StoresMirrorRows'
<1>1. PICK k \in Literal : UpdateByKey(k, c, v)
  BY DEF UpdateScan, UpdateScanPrepared, Allowed, Unmirrored
<1>2. WellTyped(c, v) /\ columns' = columns
  BY <1>1 DEF UpdateByKey, MayUpdate, MayAssign, Allowed, Unmirrored
<1>3. PICK ri \in DOMAIN rows :
          /\ rows' = [rows EXCEPT ![ri] = Assigned(@, c, v)]
          /\ col_store' =
               [col_store EXCEPT ![c] = IfWithin(@, ri, [@ EXCEPT ![ri] = v])]
  BY <1>1, <1>2 DEF UpdateByKey
<1>4. TypeOK'
  BY UpdateType
<1>5. /\ Len(rows) \in Nat /\ DOMAIN rows = 1 .. Len(rows)
      /\ \A i \in DOMAIN rows : rows[i] \in Row
      /\ Mirrors(columns, col_store, rows)
      /\ \A d \in columns : DOMAIN col_store[d] = 1 .. Len(rows)
  BY RowsFacts, RowsLength, StoresMirrorIsMirrors DEF Mirrors
<1>6. Len(rows') = Len(rows)
  BY <1>3, <1>4, <1>5, LenProperties DEF TypeOK
<1>7. ASSUME NEW d \in columns
      PROVE  /\ Len(col_store'[d]) = Len(rows')
             /\ \A i \in 1 .. Len(rows') : col_store'[d][i] = Cell(d, rows'[i][d])
  <2>1. col_store'[d] = IF d = c THEN [col_store[c] EXCEPT ![ri] = v]
                        ELSE col_store[d]
    BY <1>3, <1>5 DEF IfWithin, TypeOK
  <2>2. Len(col_store'[d]) = Len(rows')
    <3>1. col_store'[d] \in Seq(Int \cup AllTexts)
      BY <1>2, <1>4 DEF TypeOK
    <3>2. DOMAIN col_store'[d] = 1 .. Len(rows)
      BY <1>5, <2>1
    <3>. QED  BY <1>5, <1>6, <3>1, <3>2, LenProperties
  <2>3. ASSUME NEW i \in 1 .. Len(rows')
        PROVE  col_store'[d][i] = Cell(d, rows'[i][d])
    <3>1. i \in DOMAIN rows /\ col_store[d][i] = Cell(d, rows[i][d])
      BY <1>5, <1>6 DEF Mirrors
    <3>2. rows'[i][d] = IF i = ri /\ d = c THEN v ELSE rows[i][d]
      BY <1>3, <1>5, <3>1 DEF Assigned, Row
    <3>3. Cell(c, v) = v
      BY <1>2 DEF Cell
    <3>4. col_store'[d][i] = IF i = ri /\ d = c THEN v ELSE col_store[d][i]
      BY <1>5, <2>1, <3>1
    <3>. QED  BY <3>1, <3>2, <3>3, <3>4
  <2>. QED  BY <2>2, <2>3
<1>8. Mirrors(columns', col_store', rows')
  BY <1>2, <1>7 DEF Mirrors
<1>. QED  BY <1>4, <1>8, NextMirrors

LEMMA DeleteByKeyMirrors ==
    ASSUME TypeOK, StoresMirrorRows, NEW k \in Literal, DeleteByKey(k)
    PROVE  StoresMirrorRows'
<1>. DEFINE ri == pk_index[k]
<1>1. columns' = columns /\ TypeOK'
  BY DeleteByKeyType DEF DeleteByKey
<1>2. CASE ri \in DOMAIN rows
  <2>1. /\ rows' = SwapRemove(rows, ri)
        /\ col_store' = [c \in columns |->
              IfWithin(col_store[c], ri, SwapRemove(col_store[c], ri))]
    BY <1>2 DEF DeleteByKey
  <2>2. \A c \in columns : col_store'[c] = SwapRemove(col_store[c], ri)
    BY <1>2, <2>1, RemovalMirrors DEF IfWithin
  <2>3. Mirrors(columns, col_store', rows')
    <3>1. ASSUME NEW c \in columns
          PROVE  /\ Len(col_store'[c]) = Len(rows')
                 /\ \A i \in 1 .. Len(rows') :
                       col_store'[c][i] = Cell(c, rows'[i][c])
      <4>1. rows' = SwapRemove(rows, ri) /\ col_store'[c] = SwapRemove(col_store[c], ri)
        BY <2>1, <2>2
      <4>. QED  BY <1>2, <4>1, RemovalMirrors
    <3>. QED  BY <3>1 DEF Mirrors
  <2>. QED  BY <1>1, <2>3, NextMirrors
<1>3. CASE ri \notin DOMAIN rows
  BY <1>1, <1>3 DEF DeleteByKey, StoresMirrorRows, Mirror
<1>. QED  BY <1>2, <1>3

LEMMA DeleteScanMirrors ==
    ASSUME TypeOK, NEW w, DeleteScan(w)
    PROVE  StoresMirrorRows'
BY DEF DeleteScan, StoresMirrorRows, Mirror

LEMMA ResetMirrors ==
    ASSUME TypeOK, Truncate \/ CreateTable
    PROVE  StoresMirrorRows'
<1>1. /\ TypeOK'
      /\ rows' = <<>>
      /\ \A c \in columns' : col_store'[c] = <<>>
  BY ResetType DEF Truncate, CreateTable
<1>2. Len(<<>>) = 0
  BY EmptySeq
<1>3. ASSUME NEW c \in columns'
      PROVE  /\ Len(col_store'[c]) = Len(rows')
             /\ \A i \in 1 .. Len(rows') : col_store'[c][i] = Cell(c, rows'[i][c])
  <2>1. Len(col_store'[c]) = 0 /\ Len(rows') = 0
    BY <1>1, <1>2
  <2>. QED  BY <2>1
<1>4. Mirrors(columns', col_store', rows')
  BY <1>3 DEF Mirrors
<1>. QED  BY <1>1, <1>4, NextMirrors

(* The store of a column added is filled with what NULL becomes. *)
LEMMA AlterMirrors ==
    ASSUME TypeOK, StoresMirrorRows, NEW c \in Cols, AddColumn(c) \/ DropColumn(c)
    PROVE  StoresMirrorRows'
<1>1. TypeOK' /\ DOMAIN rows' = DOMAIN rows
  BY AlterType DEF AddColumn, DropColumn
<1>2. /\ Len(rows) \in Nat /\ DOMAIN rows = 1 .. Len(rows)
      /\ Len(rows') = Len(rows)
      /\ Mirrors(columns, col_store, rows)
  BY <1>1, RowsFacts, LenProperties, StoresMirrorIsMirrors DEF TypeOK
<1>3. ASSUME NEW d \in columns'
      PROVE  /\ Len(col_store'[d]) = Len(rows')
             /\ \A i \in 1 .. Len(rows') : col_store'[d][i] = Cell(d, rows'[i][d])
  <2>1. CASE d \in columns /\ ~(AddColumn(c) /\ d = c)
    <3>1. col_store'[d] = col_store[d]
      BY <2>1 DEF AddColumn, DropColumn
    <3>2. \A i \in DOMAIN rows : rows'[i][d] = rows[i][d]
      BY <2>1 DEF AddColumn, DropColumn
    <3>. QED  BY <1>2, <2>1, <3>1, <3>2 DEF Mirrors
  <2>2. CASE AddColumn(c) /\ d = c
    <3>1. col_store'[d] = [i \in 1 .. Len(rows) |-> Cell(c, NULL)]
      BY <1>2, <2>2 DEF AddColumn
    <3>2. \A i \in DOMAIN rows : rows'[i][d] = NULL
      BY <2>2 DEF AddColumn
    <3>. QED  BY <1>2, <2>2, <3>1, <3>2
  <2>. QED  BY <2>1, <2>2 DEF AddColumn, DropColumn
<1>4. Mirrors(columns', col_store', rows')
  BY <1>3 DEF Mirrors
<1>. QED  BY <1>1, <1>4, NextMirrors

(* The stores that SIMD scans read hold what the rows hold, whatever paths *)
(* INSERT, REPLACE, UPDATE by key, DELETE and ALTER take, and even when    *)
(* keys are duplicate or assigned.  Each kind in Unmirrored is needed: it  *)
(* alone leaves a store behind.                                            *)
THEOREM StoresFollowRows ==
    ASSUME Workload \cap Unmirrored = {}
    PROVE  Spec => []StoresMirrorRows
<1>1. Init => StoresMirrorRows
  BY DEF Init, StoresMirrorRows, Mirror
<1>2. TypeOK /\ StoresMirrorRows /\ [Next]_vars => StoresMirrorRows'
  <2>1. SUFFICES ASSUME TypeOK, StoresMirrorRows, Next
                 PROVE  StoresMirrorRows'
    BY DEF vars, StoresMirrorRows, Mirror
  <2>2. ~CreateTableAs
    BY DEF CreateTableAs, Allowed, Unmirrored
  <2>. QED
    BY <2>1, <2>2, InsertMirrors, UpdateMirrors, DeleteByKeyMirrors,
       DeleteScanMirrors, ResetMirrors, AlterMirrors DEF Next, DeletePrepared
<1>. QED  BY <1>1, <1>2, TypeCorrect, PTL DEF Spec

-----------------------------------------------------------------------------
(* Every row is found by its key. *)

(* The kinds of statement that put a row out of the index's reach. *)
Unreachable == {"duplicate_key", "update_key", "create_as"}

(* An index of a vector of rows is complete when it leads from the key of  *)
(* each row to the row's position.                                         *)
Complete(ix, rs) ==
    \A i \in DOMAIN rs : RowKey(rs[i]) \in DOMAIN ix /\ ix[RowKey(rs[i])] = i

Distinct(rs) ==
    \A i, j \in DOMAIN rs : RowKey(rs[i]) = RowKey(rs[j]) => i = j

LEMMA CompleteIsDistinct ==
    ASSUME NEW ix, NEW rs, Complete(ix, rs)
    PROVE  Distinct(rs)
BY DEF Complete, Distinct

LEMMA RebuiltComplete ==
    ASSUME NEW rs, Distinct(rs), NEW ix \in Rebuilt(rs)
    PROVE  Complete(ix, rs)
<1>1. ix \in [RowKeys(rs) -> DOMAIN rs]
  BY DEF Rebuilt
<1>2. \A k \in RowKeys(rs) : RowKey(rs[ix[k]]) = k
  BY DEF Rebuilt
<1>3. \A i \in DOMAIN rs : RowKey(rs[i]) \in RowKeys(rs)
  BY DEF RowKeys
<1>4. ASSUME NEW i \in DOMAIN rs
      PROVE  RowKey(rs[i]) \in DOMAIN ix /\ ix[RowKey(rs[i])] = i
  <2>. DEFINE k == RowKey(rs[i])
  <2>1. k \in RowKeys(rs) /\ RowKey(rs[ix[k]]) = k /\ ix[k] \in DOMAIN rs
    BY <1>1, <1>2, <1>3
  <2>2. ix[k] = i
    BY <2>1 DEF Distinct
  <2>. QED  BY <1>1, <2>1, <2>2
<1>. QED  BY <1>4 DEF Complete

(* Rows taken from different positions of distinct rows are distinct. *)
LEMMA PickedDistinct ==
    ASSUME NEW rs, Distinct(rs), NEW kept, NEW from,
           \A j \in DOMAIN kept : from[j] \in DOMAIN rs /\ kept[j] = rs[from[j]],
           \A i, j \in DOMAIN kept : from[i] = from[j] => i = j
    PROVE  Distinct(kept)
BY DEF Distinct

LEMMA PushComplete ==
    ASSUME NEW rs \in Seq(Row), NEW row \in Row, NEW ix, NEW cs,
           Complete(ix, rs), RowKey(row) \notin RowKeys(rs), Push(rs, ix, cs, row)
    PROVE  Complete(pk_index', rows')
<1>1. /\ Len(rs) \in Nat /\ DOMAIN rs = 1 .. Len(rs)
      /\ DOMAIN rows' = 1 .. (Len(rs) + 1)
      /\ \A i \in 1 .. Len(rs) : rows'[i] = rs[i]
      /\ rows'[Len(rs) + 1] = row
  BY LenProperties, AppendProperties DEF Push
<1>2. pk_index' = [j \in DOMAIN ix \cup {RowKey(row)} |->
                      IF j = RowKey(row) THEN Len(rs) + 1 ELSE ix[j]]
  BY DEF Push, Indexed
<1>3. ASSUME NEW i \in DOMAIN rows'
      PROVE  /\ RowKey(rows'[i]) \in DOMAIN pk_index'
             /\ pk_index'[RowKey(rows'[i])] = i
  <2>1. CASE i = Len(rs) + 1
    BY <1>1, <1>2, <2>1
  <2>2. CASE i \in 1 .. Len(rs)
    <3>1. /\ rows'[i] = rs[i]
          /\ RowKey(rs[i]) \in DOMAIN ix
          /\ ix[RowKey(rs[i])] = i
          /\ RowKey(rs[i]) # RowKey(row)
      BY <1>1, <2>2 DEF Complete, RowKeys
    <3>. QED  BY <1>2, <3>1
  <2>. QED  BY <1>1, <2>1, <2>2
<1>. QED  BY <1>3 DEF Complete

LEMMA CompleteIsIndexComplete == IndexComplete <=> Complete(pk_index, rows)
BY DEF IndexComplete, Complete

LEMMA InsertComplete ==
    ASSUME TypeOK, IndexSound, IndexComplete, Workload \cap Unreachable = {},
           NEW row \in OfferedRows \cup AutoRows,
           \/ Insert(row)
           \/ Replace(row)
           \/ ReplaceNew(row)
           \/ InsertPrepared(row)
    PROVE  IndexComplete'
<1>1. row \in Row /\ rows \in Seq(Row) /\ Complete(pk_index, rows)
  BY OfferedRowsAreRows, CompleteIsIndexComplete DEF TypeOK
<1>2. CASE Insert(row) \/ ReplaceNew(row) \/ InsertPrepared(row)
  <2>1. Push(rows, pk_index, col_store, row)
    BY <1>2 DEF Insert, ReplaceNew, InsertPrepared
  <2>2. RowKey(row) \notin RowKeys(rows)
    BY <1>1, <1>2 DEF Insert, ReplaceNew, InsertPrepared, Allowed, Unreachable,
       Complete, RowKeys
  <2>3. Complete(pk_index', rows')
    BY <1>1, <2>1, <2>2, PushComplete
  <2>. QED  BY <2>3 DEF IndexComplete, Complete
<1>3. CASE Replace(row)
  <2>. DEFINE old == pk_index[RowKey(row)]
              kept == Without(rows, old)
              stores == [c \in columns |->
                           IfWithin(col_store[c], old, Without(col_store[c], old))]
              from == [j \in 1 .. Len(rows) |-> IF j < old THEN j ELSE j + 1]
  <2>1. old \in 1 .. Len(rows) /\ RowKey(rows[old]) = RowKey(row)
    BY <1>3, RowsFacts DEF Replace, IndexSound
  <2>2. kept \in Seq(Row) /\ DOMAIN kept = 1 .. (Len(rows) - 1)
    BY <1>1, <2>1, RowsFacts, WithoutProperties
  <2>3. ASSUME NEW j \in DOMAIN kept
        PROVE  /\ from[j] \in DOMAIN rows /\ from[j] # old
               /\ kept[j] = rows[from[j]]
    BY <2>1, <2>2, RowsFacts DEF Without
  <2>4. ASSUME NEW i \in DOMAIN kept, NEW j \in DOMAIN kept, from[i] = from[j]
        PROVE  i = j
    BY <2>1, <2>2, <2>4, RowsFacts
  <2>5. Distinct(rows)
    BY <1>1, CompleteIsDistinct
  <2>6. RowKey(row) \notin RowKeys(kept)
    <3>1. ASSUME NEW j \in DOMAIN kept, RowKey(kept[j]) = RowKey(row)
          PROVE  FALSE
      <4>1. from[j] \in DOMAIN rows /\ from[j] # old /\ kept[j] = rows[from[j]]
        BY <2>3
      <4>. HIDE DEF kept, from
      <4>. QED  BY <2>1, <2>5, <3>1, <4>1, RowsFacts DEF Distinct
    <3>. QED  BY <3>1 DEF RowKeys
  <2>7. PICK ix \in Rebuilt(kept) : Push(kept, ix, stores, row)
    BY <1>3 DEF Replace
  <2>8. Distinct(kept)
    <3>. HIDE DEF kept, from, old
    <3>. QED  BY <2>3, <2>4, <2>5, PickedDistinct
  <2>9. Complete(pk_index', rows')
    <3>. HIDE DEF kept, stores
    <3>. QED  BY <1>1, <2>2, <2>6, <2>7, <2>8, RebuiltComplete, PushComplete
  <2>. QED  BY <2>9 DEF IndexComplete, Complete
<1>. QED  BY <1>2, <1>3

LEMMA UpdateComplete ==
    ASSUME TypeOK, IndexComplete, Workload \cap Unreachable = {},
           NEW c \in columns, NEW v \in Literal \cup {NULL},
           \/ \E k \in Literal : UpdateByKey(k, c, v)
           \/ \E w \in Conditions(columns) : UpdateScan(w, c, v)
           \/ \E d \in columns : UpdateScanPrepared(d, c, v)
    PROVE  IndexComplete'
<1>1. "update_key" \notin Workload
  BY DEF Unreachable
<1>. QED  BY <1>1, UpdateKeepsKeys DEF IndexComplete

LEMMA DeleteByKeyComplete ==
    ASSUME TypeOK, IndexSound, IndexComplete, NEW k \in Literal, DeleteByKey(k)
    PROVE  IndexComplete'
<1>. DEFINE ri == pk_index[k]
            last == Len(rows)
            rest == Unindexed(pk_index, k)
            moved == RowKey(rows[last])
<1>1. /\ k \in DOMAIN pk_index
      /\ ri \in DOMAIN rows
      /\ RowKey(rows[ri]) = k
  BY DEF DeleteByKey, IndexSound
<1>2. /\ rows' = SwapRemove(rows, ri)
      /\ pk_index' = IF ri = last THEN rest ELSE Indexed(rest, moved, ri)
  BY <1>1 DEF DeleteByKey
<1>3. /\ last \in Nat
      /\ DOMAIN rows = 1 .. last
      /\ ri \in 1 .. last
  BY <1>1, RowsFacts
<1>4. /\ DOMAIN rows' = 1 .. (last - 1)
      /\ \A j \in 1 .. (last - 1) :
            rows'[j] = IF j = ri THEN rows[last] ELSE rows[j]
  BY <1>2 DEF SwapRemove
<1>5. rest = [j \in DOMAIN pk_index \ {k} |-> pk_index[j]]
  BY DEF Unindexed
<1>6. \A i \in 1 .. last : /\ RowKey(rows[i]) \in DOMAIN pk_index
                           /\ pk_index[RowKey(rows[i])] = i
                           /\ RowKey(rows[i]) = k => i = ri
  BY <1>3 DEF IndexComplete
<1>7. moved = RowKey(rows[last]) /\ (ri # last => moved # k)
  BY <1>3, <1>6
<1>. HIDE DEF ri, last, rest, moved
<1>8. ASSUME NEW i \in 1 .. (last - 1), i # ri
      PROVE  /\ RowKey(rows'[i]) \in DOMAIN rest
             /\ rest[RowKey(rows'[i])] = i
             /\ ri # last => RowKey(rows'[i]) # moved
  <2>1. rows'[i] = rows[i] /\ i \in 1 .. last /\ i # last /\ last \in 1 .. last
    BY <1>3, <1>4, <1>8
  <2>. QED  BY <1>5, <1>6, <1>7, <1>8, <2>1
<1>9. ASSUME NEW i \in DOMAIN rows'
      PROVE  /\ RowKey(rows'[i]) \in DOMAIN pk_index'
             /\ pk_index'[RowKey(rows'[i])] = i
  <2>1. CASE ri = last
    BY <1>2, <1>3, <1>4, <1>8, <2>1
  <2>2. CASE ri # last
    <3>1. pk_index' = [j \in DOMAIN rest \cup {moved} |->
                          IF j = moved THEN ri ELSE rest[j]]
      BY <1>2, <2>2 DEF Indexed
    <3>2. CASE i = ri
      <4>1. RowKey(rows'[i]) = moved
        BY <1>4, <1>7, <3>2
      <4>. QED  BY <3>1, <3>2, <4>1
    <3>3. CASE i # ri
      BY <1>4, <1>8, <2>2, <3>1, <3>3
    <3>. QED  BY <3>2, <3>3
  <2>. QED  BY <2>1, <2>2
<1>. QED  BY <1>9 DEF IndexComplete

(* The rows that stay, in their order, and the index rebuilt from them. *)
LEMMA DeleteScanComplete ==
    ASSUME TypeOK, IndexComplete, NEW w, DeleteScan(w)
    PROVE  IndexComplete'
<1>. DEFINE K == {i \in DOMAIN rows : ~Matches(rows[i], w)}
<1>1. PICK f \in Listings(K) :
          /\ rows' = [i \in DOMAIN f |-> rows[f[i]]]
          /\ pk_index' \in Rebuilt([i \in DOMAIN f |-> rows[f[i]]])
  BY DEF DeleteScan
<1>2. PICK m \in 0 .. Len(rows) : f \in [1 .. m -> K]
  BY <1>1 DEF Listings
<1>3. \A i, j \in DOMAIN f : i < j => f[i] < f[j]
  BY <1>1 DEF Listings
<1>4. K \subseteq DOMAIN rows /\ DOMAIN rows \subseteq Nat /\ m \in Nat
  BY <1>2, RowsFacts
<1>5. ASSUME NEW i \in DOMAIN f, NEW j \in DOMAIN f, f[i] = f[j]
      PROVE  i = j
  <2>. HIDE DEF K
  <2>1. i \in Nat /\ j \in Nat /\ f[i] \in Nat /\ f[j] \in Nat
    BY <1>2, <1>4
  <2>2. ~(i < j) /\ ~(j < i)
    BY <1>3, <1>5, <2>1
  <2>. QED  BY <2>1, <2>2
<1>6. Distinct(rows)
  BY CompleteIsIndexComplete, CompleteIsDistinct
<1>7. DOMAIN rows' = DOMAIN f /\ \A i \in DOMAIN f : rows'[i] = rows[f[i]]
  BY <1>1
<1>8. Distinct(rows')
  <2>. HIDE DEF K
  <2>1. \A i \in DOMAIN rows' : f[i] \in DOMAIN rows /\ rows'[i] = rows[f[i]]
    BY <1>2, <1>4, <1>7
  <2>. QED  BY <1>5, <1>6, <1>7, <2>1 DEF Distinct
<1>9. pk_index' \in Rebuilt(rows')
  BY <1>1
<1>10. Complete(pk_index', rows')
  BY <1>8, <1>9, RebuiltComplete
<1>. QED  BY <1>10 DEF IndexComplete, Complete

LEMMA AlterComplete ==
    ASSUME TypeOK, IndexComplete, NEW c \in Cols, AddColumn(c) \/ DropColumn(c)
    PROVE  IndexComplete'
BY AlterKeepsKeys DEF IndexComplete

(* As long as clients neither insert keys that are there nor assign keys   *)
(* nor create tables from a query, no row is out of reach of a lookup by   *)
(* its key and no two rows have one key, through REPLACE, swap_remove and  *)
(* ALTER TABLE, for text and prepared statements and NULLs alike.          *)
THEOREM IndexCompleteness ==
    ASSUME Workload \cap Unreachable = {}
    PROVE  Spec => []IndexComplete
<1>1. Init => IndexComplete
  BY DEF Init, IndexComplete
<1>2. TypeOK /\ IndexSound /\ IndexComplete /\ [Next]_vars => IndexComplete'
  <2>1. SUFFICES ASSUME TypeOK, IndexSound, IndexComplete, Next
                 PROVE  IndexComplete'
    BY DEF vars, IndexComplete
  <2>2. Truncate \/ CreateTable => IndexComplete'
    BY DEF Truncate, CreateTable, IndexComplete
  <2>3. ~CreateTableAs
    BY DEF CreateTableAs, Allowed, Unreachable
  <2>. QED
    BY <2>1, <2>2, <2>3, InsertComplete, UpdateComplete, DeleteByKeyComplete,
       DeleteScanComplete, AlterComplete DEF Next, DeletePrepared
<1>3. Spec => []IndexSound
  <2>1. "update_key" \notin Workload
    BY DEF Unreachable
  <2>. QED  BY <2>1, IndexSoundness
<1>. QED  BY <1>1, <1>2, <1>3, TypeCorrect, PTL DEF Spec

-----------------------------------------------------------------------------
(* Generated keys are fresh. *)

(* The kinds of statement that leave the counter behind the keys. *)
Uncounted == {"prepared_key", "update_key", "create_as"}

(* All integer keys of some rows are below a number. *)
KeysBelow(rs, n) ==
    \A i \in DOMAIN rs : rs[i][PkCol] \in Int => rs[i][PkCol] < n

LEMMA AdvancedAbove ==
    ASSUME TypeOK, NEW v
    PROVE  next_auto <= Advanced(v) /\ (v \in Int => v < Advanced(v))
BY DEF TypeOK, Advanced

LEMMA PushFresh ==
    ASSUME NEW rs \in Seq(Row), NEW row \in Row, NEW ix, NEW cs, NEW n \in Int,
           NEW m \in Int, m <= n, KeysBelow(rs, m),
           row[PkCol] \in Int => row[PkCol] < n, Push(rs, ix, cs, row)
    PROVE  KeysBelow(rows', n)
<1>1. /\ Len(rs) \in Nat /\ DOMAIN rs = 1 .. Len(rs)
      /\ DOMAIN rows' = 1 .. (Len(rs) + 1)
      /\ \A i \in 1 .. Len(rs) : rows'[i] = rs[i]
      /\ rows'[Len(rs) + 1] = row
  BY LenProperties, AppendProperties DEF Push
<1>2. ASSUME NEW i \in DOMAIN rows', rows'[i][PkCol] \in Int
      PROVE  rows'[i][PkCol] < n
  <2>1. CASE i = Len(rs) + 1
    BY <1>1, <1>2, <2>1
  <2>2. CASE i \in 1 .. Len(rs)
    <3>1. rows'[i] = rs[i] /\ i \in DOMAIN rs
      BY <1>1, <2>2
    <3>. QED  BY <1>2, <3>1 DEF KeysBelow
  <2>. QED  BY <1>1, <2>1, <2>2
<1>. QED  BY <1>2 DEF KeysBelow

LEMMA InsertFresh ==
    ASSUME TypeOK, AutoKeyFresh, Workload \cap Uncounted = {},
           NEW row \in OfferedRows \cup AutoRows,
           \/ Insert(row)
           \/ Replace(row)
           \/ ReplaceNew(row)
           \/ InsertPrepared(row)
    PROVE  AutoKeyFresh'
<1>1. row \in Row /\ rows \in Seq(Row) /\ KeysBelow(rows, next_auto)
  BY OfferedRowsAreRows DEF TypeOK, AutoKeyFresh, KeysBelow
<1>2. /\ next_auto \in Int /\ next_auto' \in Int /\ next_auto <= next_auto'
      /\ row[PkCol] \in Int => row[PkCol] < next_auto'
  <2>1. CASE Insert(row) \/ Replace(row) \/ ReplaceNew(row)
    <3>1. next_auto' = Advanced(row[PkCol])
      BY <2>1 DEF Insert, Replace, ReplaceNew
    <3>2. next_auto \in Int
      BY DEF TypeOK
    <3>. QED  BY <3>1, <3>2, AdvancedType, AdvancedAbove
  <2>2. CASE InsertPrepared(row)
    BY <2>2 DEF InsertPrepared, Allowed, Uncounted, TypeOK
  <2>. QED  BY <2>1, <2>2
<1>3. CASE Insert(row) \/ ReplaceNew(row) \/ InsertPrepared(row)
  <2>1. Push(rows, pk_index, col_store, row)
    BY <1>3 DEF Insert, ReplaceNew, InsertPrepared
  <2>2. KeysBelow(rows', next_auto')
    BY <1>1, <1>2, <2>1, PushFresh
  <2>. QED  BY <2>2 DEF AutoKeyFresh, KeysBelow
<1>4. CASE Replace(row)
  <2>. DEFINE old == pk_index[RowKey(row)]
              kept == Without(rows, old)
              stores == [c \in columns |->
                           IfWithin(col_store[c], old, Without(col_store[c], old))]
  <2>1. old \in 1 .. Len(rows)
    BY <1>4, RowsFacts DEF Replace
  <2>2. kept \in Seq(Row) /\ DOMAIN kept = 1 .. (Len(rows) - 1)
    BY <1>1, <2>1, RowsFacts, WithoutProperties
  <2>3. \A j \in DOMAIN kept : \E i \in DOMAIN rows : kept[j] = rows[i]
    BY <2>1, <2>2, RowsFacts DEF Without
  <2>4. PICK ix \in Rebuilt(kept) : Push(kept, ix, stores, row)
    BY <1>4 DEF Replace
  <2>. HIDE DEF kept, stores
  <2>5. KeysBelow(kept, next_auto)
    BY <1>1, <2>3 DEF KeysBelow
  <2>6. KeysBelow(rows', next_auto')
    BY <1>1, <1>2, <2>2, <2>4, <2>5, PushFresh
  <2>. QED  BY <2>6 DEF AutoKeyFresh, KeysBelow
<1>. QED  BY <1>3, <1>4

(* A DELETE only takes rows away. *)
LEMMA DeleteFresh ==
    ASSUME TypeOK, AutoKeyFresh,
           \/ \E k \in Literal : DeleteByKey(k)
           \/ \E w : DeleteScan(w)
    PROVE  AutoKeyFresh'
<1>1. next_auto' = next_auto
  BY DEF DeleteByKey, DeleteScan
<1>2. ASSUME NEW j \in DOMAIN rows'
      PROVE  \E i \in DOMAIN rows : rows'[j] = rows[i]
  <2>1. ASSUME NEW k \in Literal, DeleteByKey(k)
        PROVE  \E i \in DOMAIN rows : rows'[j] = rows[i]
    <3>1. CASE rows' = rows
      BY <3>1
    <3>2. CASE /\ pk_index[k] \in DOMAIN rows
               /\ rows' = SwapRemove(rows, pk_index[k])
      BY <3>2, RowsFacts DEF SwapRemove
    <3>. QED  BY <2>1, <3>1, <3>2 DEF DeleteByKey
  <2>2. ASSUME NEW w, DeleteScan(w)
        PROVE  \E i \in DOMAIN rows : rows'[j] = rows[i]
    <3>. DEFINE K == {i \in DOMAIN rows : ~Matches(rows[i], w)}
    <3>1. PICK f \in Listings(K) : rows' = [i \in DOMAIN f |-> rows[f[i]]]
      BY <2>2 DEF DeleteScan
    <3>2. PICK m \in 0 .. Len(rows) : f \in [1 .. m -> K]
      BY <3>1 DEF Listings
    <3>3. f[j] \in K /\ rows'[j] = rows[f[j]]
      BY <3>1, <3>2
    <3>. QED  BY <3>3
  <2>. QED  BY <2>1, <2>2
<1>. QED  BY <1>1, <1>2 DEF AutoKeyFresh

(* As long as a prepared INSERT does not run ahead of the counter, keys    *)
(* are not assigned and no table is created from a query, the next         *)
(* AUTO_INCREMENT value is above every key, so that an INSERT that leaves  *)
(* the key to the engine never meets a row that has it.                    *)
THEOREM GeneratedKeysAreFresh ==
    ASSUME Workload \cap Uncounted = {}
    PROVE  Spec => []AutoKeyFresh
<1>1. Init => AutoKeyFresh
  BY DEF Init, AutoKeyFresh
<1>2. TypeOK /\ AutoKeyFresh /\ [Next]_vars => AutoKeyFresh'
  <2>1. SUFFICES ASSUME TypeOK, AutoKeyFresh, Next
                 PROVE  AutoKeyFresh'
    BY DEF vars, AutoKeyFresh
  <2>2. ASSUME NEW c \in columns, NEW v \in Literal \cup {NULL},
               \/ \E k \in Literal : UpdateByKey(k, c, v)
               \/ \E w \in Conditions(columns) : UpdateScan(w, c, v)
               \/ \E d \in columns : UpdateScanPrepared(d, c, v)
        PROVE  AutoKeyFresh'
    <3>1. "update_key" \notin Workload
      BY DEF Uncounted
    <3>2. next_auto' = next_auto
      BY <2>2 DEF UpdateByKey, UpdateScan, UpdateScanPrepared, AssignMatching
    <3>. QED  BY <2>1, <2>2, <3>1, <3>2, UpdateKeepsKeys DEF AutoKeyFresh
  <2>3. ASSUME NEW c \in Cols, AddColumn(c) \/ DropColumn(c)
        PROVE  AutoKeyFresh'
    <3>1. next_auto' = next_auto
      BY <2>3 DEF AddColumn, DropColumn
    <3>. QED  BY <2>1, <2>3, <3>1, AlterKeepsKeys DEF AutoKeyFresh
  <2>4. Truncate \/ CreateTable => AutoKeyFresh'
    BY DEF Truncate, CreateTable, AutoKeyFresh
  <2>5. ~CreateTableAs
    BY DEF CreateTableAs, Allowed, Uncounted
  <2>6. ASSUME NEW row \in OfferedRows \cup AutoRows,
               Insert(row) \/ Replace(row) \/ ReplaceNew(row) \/ InsertPrepared(row)
        PROVE  AutoKeyFresh'
    BY <2>1, <2>6, InsertFresh
  <2>. QED
    BY <2>1, <2>2, <2>3, <2>4, <2>5, <2>6, DeleteFresh DEF Next, DeletePrepared
<1>. QED  BY <1>1, <1>2, TypeCorrect, PTL DEF Spec

-----------------------------------------------------------------------------
(* All ways of finding rows agree. *)

LEMMA NullIsNoValue == NULL \notin Int \cup AllTexts /\ EmptyText \notin Int
BY ValueAssumption DEF AllTexts

LEMMA PointReadIsScan ==
    ASSUME TypeOK, IndexSound, IndexComplete,
           NEW w \in Conditions(columns), ByKey(w), Typed(w)
    PROVE  PointRead(w.val) = ScanRead(w)
<1>1. w.op = "eq" /\ w.col = PkCol
  BY DEF ByKey
<1>2. ASSUME NEW i \in DOMAIN rows
      PROVE  /\ RowKey(rows[i]) = rows[i][PkCol]
             /\ Matches(rows[i], w) <=> rows[i][PkCol] = w.val
  <2>1. WellTyped(PkCol, rows[i][PkCol])
    BY <1>1 DEF Typed
  <2>2. rows[i][PkCol] # NULL
    BY <2>1, NullIsNoValue DEF WellTyped
  <2>. QED  BY <1>1, <2>2 DEF RowKey, KeyOf, Matches
<1>3. ASSUME NEW i \in DOMAIN rows
      PROVE  (w.val \in DOMAIN pk_index /\ pk_index[w.val] = i)
                <=> Matches(rows[i], w)
  BY <1>2 DEF IndexSound, IndexComplete
<1>. QED  BY <1>3 DEF PointRead, ScanRead

LEMMA SimdReadIsScan ==
    ASSUME TypeOK, StoresMirrorRows,
           NEW w \in Conditions(columns), SimdApplies(w), Typed(w)
    PROVE  SimdRead(w) = ScanRead(w)
<1>1. w.op \in {"eq", "lt", "gt"} /\ w.col \in columns
  BY DEF SimdApplies, Conditions, NoWhere
<1>2. /\ w.op = "eq" => WellTyped(w.col, w.val)
      /\ w.op \in {"lt", "gt"} => ColType[w.col] = "int" /\ w.val \in Int
  <2>1. w.op = "eq" => WellTyped(w.col, w.val)
    BY DEF SimdApplies
  <2>2. ASSUME w.op \in {"lt", "gt"}
        PROVE  w \in [op : {"lt", "gt"}, col : {c \in columns : ColType[c] = "int"},
                      val : Ints]
    BY <2>2 DEF Conditions, NoWhere
  <2>3. Ints \subseteq Int
    BY ValueAssumption
  <2>. QED  BY <2>1, <2>2, <2>3
<1>3. DOMAIN col_store[w.col] = DOMAIN rows
  BY <1>1 DEF StoresMirrorRows, Mirror
<1>4. ASSUME NEW i \in DOMAIN rows
      PROVE  /\ WellTyped(w.col, rows[i][w.col])
             /\ col_store[w.col][i] = rows[i][w.col]
  BY <1>1 DEF Typed, StoresMirrorRows, Mirror, Cell
<1>5. ASSUME NEW i \in DOMAIN rows
      PROVE  (\/ w.op = "eq" /\ col_store[w.col][i] = w.val
              \/ w.op = "lt" /\ col_store[w.col][i] < w.val
              \/ w.op = "gt" /\ col_store[w.col][i] > w.val)
                <=> Matches(rows[i], w)
  <2>. DEFINE v == rows[i][w.col]
  <2>1. WellTyped(w.col, v) /\ col_store[w.col][i] = v
    BY <1>4
  <2>2. CASE w.op = "eq"
    <3>1. v # NULL
      BY <2>1, NullIsNoValue DEF WellTyped
    <3>. QED  BY <2>1, <2>2, <3>1 DEF Matches
  <2>3. CASE w.op \in {"lt", "gt"}
    <3>1. v \in Int /\ v \notin AllTexts /\ v # NULL
      BY <1>2, <2>1, <2>3, ValueAssumption, NullIsNoValue DEF WellTyped, AllTexts
    <3>2. LessThan(v, w.val) <=> v < w.val
      BY <3>1 DEF LessThan, AllTexts
    <3>3. GreaterThan(v, w.val) <=> v > w.val
      BY <3>1 DEF GreaterThan
    <3>. QED  BY <2>1, <2>3, <3>2, <3>3 DEF Matches
  <2>. QED  BY <1>1, <2>2, <2>3
<1>. QED  BY <1>3, <1>5 DEF SimdRead, ScanRead

(* For statements that keep index and stores up to date, a SELECT returns  *)
(* the same rows by index lookup, by SIMD scan and by evaluating WHERE on  *)
(* each row, as text and prepared: the choice of the path is invisible.    *)
THEOREM PathIsInvisible ==
    ASSUME Workload \cap (Unreachable \cup Unmirrored) = {}
    PROVE  Spec => []ReadPathsAgree
<1>1. TypeOK /\ IndexSound /\ IndexComplete /\ StoresMirrorRows => ReadPathsAgree
  BY PointReadIsScan, SimdReadIsScan DEF ReadPathsAgree, Select, SelectPrepared
<1>2. /\ "update_key" \notin Workload
      /\ Workload \cap Unreachable = {}
      /\ Workload \cap Unmirrored = {}
  BY DEF Unreachable
<1>. QED
  BY <1>1, <1>2, TypeCorrect, IndexSoundness, IndexCompleteness,
     StoresFollowRows, PTL
=============================================================================
