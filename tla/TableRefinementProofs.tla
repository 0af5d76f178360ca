------------------------ MODULE TableRefinementProofs ------------------------
(***************************************************************************)
(* TableStore implements KeyedTable, for every set of columns and values:  *)
(* the initial states are dictionaries that are empty, and every statement *)
(* does to the dictionary what KeyedTable says, or nothing.                *)
(*                                                                         *)
(* The dictionary of a table exists because its keys are distinct, which   *)
(* is what IndexComplete says; that and IndexSound are the invariants the  *)
(* simulation rests on.                                                    *)
(***************************************************************************)
EXTENDS TableRefinement, TableStoreProofs

(* Besides what puts rows out of reach of the index, an UPDATE by scan of  *)
(* a prepared statement is no statement of KeyedTable: it stores "?".      *)
Unfaithful == Unreachable \cup {"prepared_scan"}

RefinementInv == TypeOK /\ IndexSound /\ IndexComplete

LEMMA RefinementInvariant ==
    ASSUME Workload \cap Unfaithful = {}
    PROVE  Spec => []RefinementInv
<1>1. "update_key" \notin Workload /\ Workload \cap Unreachable = {}
  BY DEF Unfaithful, Unreachable
<1>2. Spec => []IndexSound
  BY <1>1, IndexSoundness
<1>3. Spec => []IndexComplete
  BY <1>1, IndexCompleteness
<1>. QED  BY <1>2, <1>3, TypeCorrect, PTL DEF RefinementInv

-----------------------------------------------------------------------------
(* The dictionary of a table. *)

(* The definitions of TableValues mean the same on both sides.             *)
LEMMA SameValues ==
    /\ Abstract!Literal = Literal
    /\ Abstract!NoWhere = NoWhere
    /\ \A cs : Abstract!Conditions(cs) = Conditions(cs)
    /\ \A row : Abstract!RowKey(row) = RowKey(row)
    /\ \A row, w : Abstract!Matches(row, w) <=> Matches(row, w)
BY DEF Abstract!Literal, Literal, Abstract!NoWhere, NoWhere,
   Abstract!Conditions, Conditions, Abstract!RowKey, RowKey, Abstract!KeyOf,
   KeyOf, Abstract!Matches, Matches, Abstract!LessThan, LessThan,
   Abstract!GreaterThan, GreaterThan, Abstract!AllTexts, AllTexts

(* A dictionary of distinct rows is the one that leads from each key to    *)
(* the row that has it.                                                    *)
LEMMA DictionaryOf ==
    ASSUME NEW rs, Distinct(rs), NEW d, d = [k \in DOMAIN d |-> d[k]],
           DOMAIN d = RowKeys(rs), \A i \in DOMAIN rs : d[RowKey(rs[i])] = rs[i]
    PROVE  d = [k \in RowKeys(rs) |->
                   rs[CHOOSE i \in DOMAIN rs : RowKey(rs[i]) = k]]
<1>1. ASSUME NEW k \in RowKeys(rs)
      PROVE  d[k] = rs[CHOOSE i \in DOMAIN rs : RowKey(rs[i]) = k]
  <2>. DEFINE p == CHOOSE i \in DOMAIN rs : RowKey(rs[i]) = k
  <2>1. p \in DOMAIN rs /\ RowKey(rs[p]) = k
    BY DEF RowKeys
  <2>. HIDE DEF p
  <2>2. d[k] = rs[p]
    BY <2>1
  <2>. QED  BY <2>2 DEF p
<1>. QED  BY <1>1

LEMMA ContentsFacts ==
    ASSUME RefinementInv
    PROVE  /\ DOMAIN Contents = RowKeys(rows)
           /\ RowKeys(rows) = DOMAIN pk_index
           /\ \A i \in DOMAIN rows : Contents[RowKey(rows[i])] = rows[i]
<1>1. Distinct(rows)
  BY CompleteIsIndexComplete, CompleteIsDistinct DEF RefinementInv
<1>2. ASSUME NEW i \in DOMAIN rows
      PROVE  Contents[RowKey(rows[i])] = rows[i]
  <2>. DEFINE k == RowKey(rows[i])
              p == CHOOSE j \in DOMAIN rows : RowKey(rows[j]) = k
  <2>1. k \in RowKeys(rows)
    BY DEF RowKeys
  <2>2. Contents[k] = rows[p]
    BY <2>1 DEF Contents
  <2>3. p \in DOMAIN rows /\ RowKey(rows[p]) = k
    OBVIOUS
  <2>. HIDE DEF p
  <2>4. p = i
    BY <1>1, <2>3 DEF Distinct
  <2>. QED  BY <2>2, <2>4
<1>3. RowKeys(rows) = DOMAIN pk_index
  BY DEF RefinementInv, IndexSound, IndexComplete, RowKeys
<1>. QED  BY <1>2, <1>3 DEF Contents

LEMMA NextContents ==
    ASSUME IndexComplete', NEW d, d = [k \in DOMAIN d |-> d[k]],
           DOMAIN d = RowKeys(rows'),
           \A i \in DOMAIN rows' : d[RowKey(rows'[i])] = rows'[i]
    PROVE  Contents' = d
<1>1. Distinct(rows')
  BY DEF IndexComplete, Distinct
<1>2. d = [k \in RowKeys(rows') |->
              rows'[CHOOSE i \in DOMAIN rows' : RowKey(rows'[i]) = k]]
  BY <1>1, DictionaryOf
<1>. QED  BY <1>2 DEF Contents

(* Rows that are changed in place, but for their keys, are changed in the  *)
(* dictionary.                                                             *)
LEMMA ChangedInPlace ==
    ASSUME RefinementInv, IndexComplete', DOMAIN rows' = DOMAIN rows,
           \A i \in DOMAIN rows : RowKey(rows'[i]) = RowKey(rows[i]),
           NEW d, d = [k \in DOMAIN d |-> d[k]], DOMAIN d = DOMAIN Contents,
           \A i \in DOMAIN rows : d[RowKey(rows[i])] = rows'[i]
    PROVE  Contents' = d
<1>1. RowKeys(rows') = RowKeys(rows)
  BY DEF RowKeys
<1>2. DOMAIN d = RowKeys(rows')
  BY <1>1, ContentsFacts
<1>. QED  BY <1>2, NextContents

(* Deleting rows deletes their keys. *)
LEMMA RowsDeleted ==
    ASSUME RefinementInv, IndexComplete', columns' = columns, NEW S,
           \A j \in DOMAIN rows' :
              \E i \in DOMAIN rows : rows'[j] = rows[i] /\ RowKey(rows[i]) \notin S,
           \A i \in DOMAIN rows :
              RowKey(rows[i]) \notin S => \E j \in DOMAIN rows' : rows'[j] = rows[i]
    PROVE  Abstract!Delete(S)
<1>. DEFINE d == [k \in DOMAIN Contents \ S |-> Contents[k]]
<1>1. /\ DOMAIN Contents = RowKeys(rows)
      /\ \A i \in DOMAIN rows : Contents[RowKey(rows[i])] = rows[i]
  BY ContentsFacts
<1>2. DOMAIN d = RowKeys(rows')
  BY <1>1 DEF RowKeys
<1>3. \A j \in DOMAIN rows' : d[RowKey(rows'[j])] = rows'[j]
  <2>1. ASSUME NEW j \in DOMAIN rows'
        PROVE  d[RowKey(rows'[j])] = rows'[j]
    <3>1. PICK i \in DOMAIN rows : rows'[j] = rows[i] /\ RowKey(rows[i]) \notin S
      OBVIOUS
    <3>2. RowKey(rows[i]) \in DOMAIN d
      BY <1>1, <3>1 DEF RowKeys
    <3>. QED  BY <1>1, <3>1, <3>2
  <2>. QED  BY <2>1
<1>4. d = [k \in DOMAIN d |-> d[k]]
  OBVIOUS
<1>5. Contents' = d
  <2>. HIDE DEF d
  <2>. QED  BY <1>2, <1>3, <1>4, NextContents
<1>. QED  BY <1>5 DEF Abstract!Delete

-----------------------------------------------------------------------------
(* INSERT and REPLACE put a row. *)

(* The rows offered are rows KeyedTable knows, the generated keys included. *)
LEMMA OfferedIsPut ==
    ASSUME RefinementInv, NEW row \in OfferedRows \cup AutoRows, MayInsert(row)
    PROVE  row \in [columns -> Abstract!Literal \cup {NULL} \cup (0 .. MaxAuto)]
<1>1. Abstract!Literal = Literal
  BY SameValues
<1>2. CASE row \in OfferedRows
  BY <1>1, <1>2 DEF OfferedRows
<1>3. CASE row \in AutoRows
  <2>1. PICK r \in OfferedRows : row = [r EXCEPT ![PkCol] = next_auto]
    BY <1>3 DEF AutoRows
  <2>2. r \in [columns -> Literal \cup {NULL}]
    BY DEF OfferedRows
  <2>3. PkCol \in columns /\ next_auto \in Nat \ {0}
    BY DEF RefinementInv, TypeOK
  <2>4. row[PkCol] = next_auto
    BY <2>1, <2>2, <2>3
  <2>5. next_auto \in 0 .. MaxAuto
    BY <2>3, <2>4, BoundAssumption DEF MayInsert
  <2>. QED  BY <1>1, <2>1, <2>2, <2>5
<1>. QED  BY <1>2, <1>3

(* Pushing a row whose key the other rows do not have puts it. *)
LEMMA PushPuts ==
    ASSUME RefinementInv, IndexComplete', columns' = columns,
           NEW row \in Row, NEW rs \in Seq(Row), NEW ix, NEW cs,
           Push(rs, ix, cs, row),
           \A j \in DOMAIN rs : /\ RowKey(rs[j]) # RowKey(row)
                                /\ \E i \in DOMAIN rows : rs[j] = rows[i],
           \A i \in DOMAIN rows :
              \/ RowKey(rows[i]) = RowKey(row)
              \/ \E j \in DOMAIN rs : rs[j] = rows[i]
    PROVE  Abstract!Put(row)
<1>. DEFINE d == [k \in DOMAIN Contents \cup {RowKey(row)} |->
                     IF k = RowKey(row) THEN row ELSE Contents[k]]
<1>1. /\ DOMAIN Contents = RowKeys(rows)
      /\ \A i \in DOMAIN rows : Contents[RowKey(rows[i])] = rows[i]
  BY ContentsFacts
<1>2. /\ Len(rs) \in Nat /\ DOMAIN rs = 1 .. Len(rs)
      /\ DOMAIN rows' = 1 .. (Len(rs) + 1)
      /\ \A i \in 1 .. Len(rs) : rows'[i] = rs[i]
      /\ rows'[Len(rs) + 1] = row
  BY LenProperties, AppendProperties DEF Push
<1>3. RowKeys(rows') = RowKeys(rs) \cup {RowKey(row)}
  <2>1. \A i \in DOMAIN rows' : i \in DOMAIN rs \/ i = Len(rs) + 1
    BY <1>2
  <2>2. RowKeys(rows') \subseteq RowKeys(rs) \cup {RowKey(row)}
    BY <1>2, <2>1 DEF RowKeys
  <2>3. RowKeys(rs) \subseteq RowKeys(rows')
    BY <1>2 DEF RowKeys
  <2>4. Len(rs) + 1 \in DOMAIN rows'
    BY <1>2
  <2>5. RowKey(row) \in RowKeys(rows')
    BY <1>2, <2>4 DEF RowKeys
  <2>. QED  BY <2>2, <2>3, <2>5
<1>4. RowKeys(rs) \cup {RowKey(row)} = RowKeys(rows) \cup {RowKey(row)}
  BY DEF RowKeys
<1>5. DOMAIN d = RowKeys(rows')
  BY <1>1, <1>3, <1>4
<1>6. ASSUME NEW j \in DOMAIN rows'
      PROVE  d[RowKey(rows'[j])] = rows'[j]
  <2>1. CASE j = Len(rs) + 1
    BY <1>2, <2>1
  <2>2. CASE j \in DOMAIN rs
    <3>1. rows'[j] = rs[j] /\ RowKey(rs[j]) # RowKey(row)
      BY <1>2, <2>2
    <3>2. PICK i \in DOMAIN rows : rs[j] = rows[i]
      BY <2>2
    <3>3. RowKey(rows[i]) \in DOMAIN Contents
      BY <1>1 DEF RowKeys
    <3>. QED  BY <1>1, <3>1, <3>2, <3>3
  <2>. QED  BY <1>2, <2>1, <2>2
<1>7. d = [k \in DOMAIN d |-> d[k]]
  OBVIOUS
<1>8. Contents' = d
  <2>. HIDE DEF d
  <2>. QED  BY <1>5, <1>6, <1>7, NextContents
<1>9. Abstract!RowKey(row) = RowKey(row)
  BY SameValues
<1>. QED  BY <1>8, <1>9 DEF Abstract!Put

LEMMA InsertRefines ==
    ASSUME RefinementInv, IndexComplete', Workload \cap Unfaithful = {},
           NEW row \in OfferedRows \cup AutoRows,
           \/ Insert(row)
           \/ Replace(row)
           \/ ReplaceNew(row)
           \/ InsertPrepared(row)
    PROVE  Abstract!Next
<1>. USE DEF RefinementInv
<1>1. /\ row \in Row /\ rows \in Seq(Row) /\ columns' = columns
      /\ MayInsert(row)
  BY OfferedRowsAreRows DEF TypeOK, Insert, Replace, ReplaceNew, InsertPrepared
<1>2. CASE Insert(row) \/ ReplaceNew(row) \/ InsertPrepared(row)
  <2>1. Push(rows, pk_index, col_store, row)
    BY <1>2 DEF Insert, ReplaceNew, InsertPrepared
  <2>2. RowKey(row) \notin RowKeys(rows)
    BY <1>2, ContentsFacts DEF Insert, ReplaceNew, InsertPrepared, Allowed,
       Unfaithful, Unreachable
  <2>3. \A j \in DOMAIN rows : RowKey(rows[j]) # RowKey(row)
    BY <2>2 DEF RowKeys
  <2>4. Abstract!Put(row)
    BY <1>1, <2>1, <2>3, PushPuts
  <2>. QED  BY <1>1, <2>4, OfferedIsPut DEF Abstract!Next
<1>3. CASE Replace(row)
  <2>. DEFINE old == pk_index[RowKey(row)]
              kept == Without(rows, old)
              stores == [c \in columns |->
                           IfWithin(col_store[c], old, Without(col_store[c], old))]
  <2>1. old \in 1 .. Len(rows) /\ RowKey(rows[old]) = RowKey(row)
    BY <1>3, RowsFacts DEF Replace, IndexSound
  <2>2. kept \in Seq(Row) /\ DOMAIN kept = 1 .. (Len(rows) - 1)
    BY <1>1, <2>1, RowsFacts, WithoutProperties
  <2>3. Distinct(rows)
    BY CompleteIsIndexComplete, CompleteIsDistinct
  <2>4. ASSUME NEW j \in DOMAIN kept
        PROVE  /\ RowKey(kept[j]) # RowKey(row)
               /\ \E i \in DOMAIN rows : kept[j] = rows[i]
    <3>1. PICK i \in DOMAIN rows : i # old /\ kept[j] = rows[i]
      BY <2>1, <2>2, RowsFacts DEF Without
    <3>. QED  BY <2>1, <2>3, <3>1, RowsFacts DEF Distinct
  <2>5. ASSUME NEW i \in DOMAIN rows, RowKey(rows[i]) # RowKey(row)
        PROVE  \E j \in DOMAIN kept : kept[j] = rows[i]
    <3>1. i # old /\ i \in 1 .. Len(rows) /\ Len(rows) \in Nat
      BY <2>1, <2>5, RowsFacts
    <3>2. CASE i < old
      <4>1. i \in DOMAIN kept /\ kept[i] = rows[i]
        BY <2>1, <2>2, <3>1, <3>2 DEF Without
      <4>. QED  BY <4>1
    <3>3. CASE i > old
      <4>1. i - 1 \in DOMAIN kept /\ kept[i - 1] = rows[i]
        BY <2>1, <2>2, <3>1, <3>3 DEF Without
      <4>. QED  BY <4>1
    <3>. QED  BY <2>1, <3>1, <3>2, <3>3
  <2>6. PICK ix \in Rebuilt(kept) : Push(kept, ix, stores, row)
    BY <1>3 DEF Replace
  <2>7. Abstract!Put(row)
    <3>. HIDE DEF kept, stores
    <3>. QED  BY <1>1, <2>2, <2>4, <2>5, <2>6, PushPuts
  <2>. QED  BY <1>1, <2>7, OfferedIsPut DEF Abstract!Next
<1>. QED  BY <1>2, <1>3

-----------------------------------------------------------------------------
(* UPDATE. *)

LEMMA UpdateRefines ==
    ASSUME RefinementInv, IndexComplete', Workload \cap Unfaithful = {},
           NEW c \in columns, NEW v \in Literal \cup {NULL},
           \/ \E k \in Literal : UpdateByKey(k, c, v)
           \/ \E w \in Conditions(columns) : UpdateScan(w, c, v)
           \/ \E d \in columns : UpdateScanPrepared(d, c, v)
    PROVE  Abstract!Next
<1>. USE DEF RefinementInv
<1>1. "update_key" \notin Workload
  BY DEF Unfaithful, Unreachable
<1>2. /\ DOMAIN rows' = DOMAIN rows
      /\ \A i \in DOMAIN rows : RowKey(rows'[i]) = RowKey(rows[i])
  BY <1>1, UpdateKeepsKeys
<1>3. /\ DOMAIN Contents = RowKeys(rows)
      /\ \A i \in DOMAIN rows : /\ Contents[RowKey(rows[i])] = rows[i]
                                /\ RowKey(rows[i]) \in DOMAIN Contents
  BY ContentsFacts DEF RowKeys
<1>4. c # PkCol /\ columns' = columns
  BY <1>1 DEF UpdateByKey, UpdateScan, UpdateScanPrepared, AssignMatching,
     MayUpdate, Allowed
<1>5. ASSUME NEW S,
             \A i \in DOMAIN rows :
                rows'[i] = IF RowKey(rows[i]) \in S THEN Assigned(rows[i], c, v)
                           ELSE rows[i]
      PROVE  Abstract!Update(S, c, v)
  <2>. DEFINE d == [k \in DOMAIN Contents |->
                       IF k \in S THEN [Contents[k] EXCEPT ![c] = v]
                       ELSE Contents[k]]
  <2>1. \A i \in DOMAIN rows : d[RowKey(rows[i])] = rows'[i]
    BY <1>3, <1>5 DEF Assigned
  <2>2. d = [k \in DOMAIN d |-> d[k]] /\ DOMAIN d = DOMAIN Contents
    OBVIOUS
  <2>3. Contents' = d
    <3>. HIDE DEF d
    <3>. QED  BY <1>2, <2>1, <2>2, ChangedInPlace
  <2>. QED  BY <1>4, <2>3 DEF Abstract!Update
<1>6. ASSUME NEW k \in Literal, UpdateByKey(k, c, v)
      PROVE  Abstract!Next
  <2>1. /\ k \in DOMAIN pk_index
        /\ pk_index[k] \in DOMAIN rows
        /\ rows' = [rows EXCEPT ![pk_index[k]] = Assigned(@, c, v)]
    BY <1>6 DEF UpdateByKey
  <2>2. \A i \in DOMAIN rows : RowKey(rows[i]) \in {k} <=> i = pk_index[k]
    BY <2>1 DEF IndexSound, IndexComplete
  <2>3. \A i \in DOMAIN rows :
            rows'[i] = IF RowKey(rows[i]) \in {k} THEN Assigned(rows[i], c, v)
                       ELSE rows[i]
    BY <2>1, <2>2
  <2>4. Abstract!Update({k}, c, v)
    BY <1>5, <2>3
  <2>. QED  BY <2>4, SameValues DEF Abstract!Next
<1>7. ASSUME NEW w \in Conditions(columns), UpdateScan(w, c, v)
      PROVE  Abstract!Next
  <2>. DEFINE S == Abstract!Selected(w)
  <2>1. \A i \in DOMAIN rows : RowKey(rows[i]) \in S <=> Matches(rows[i], w)
    BY <1>3, SameValues DEF Abstract!Selected
  <2>2. \A i \in DOMAIN rows :
            rows'[i] = IF Matches(rows[i], w) THEN Assigned(rows[i], c, v)
                       ELSE rows[i]
    BY <1>7 DEF UpdateScan, AssignMatching
  <2>. HIDE DEF S
  <2>3. Abstract!Update(S, c, v)
    BY <1>5, <2>1, <2>2
  <2>. QED  BY <2>3, SameValues DEF Abstract!Next, S
<1>8. \A d \in columns : ~UpdateScanPrepared(d, c, v)
  BY DEF UpdateScanPrepared, Allowed, Unfaithful
<1>. QED  BY <1>6, <1>7, <1>8

-----------------------------------------------------------------------------
(* DELETE and TRUNCATE. *)

(* Moving the last row into the hole loses only the row that was there.    *)
LEMMA DeleteByKeyRefines ==
    ASSUME RefinementInv, IndexComplete', NEW k \in Literal, DeleteByKey(k)
    PROVE  Abstract!Next
<1>. USE DEF RefinementInv
<1>. DEFINE ri == pk_index[k]
            last == Len(rows)
<1>1. /\ ri \in 1 .. last /\ last \in Nat /\ DOMAIN rows = 1 .. last
      /\ RowKey(rows[ri]) = k
      /\ columns' = columns
      /\ rows' = SwapRemove(rows, ri)
  BY RowsFacts DEF DeleteByKey, IndexSound
<1>2. /\ DOMAIN rows' = 1 .. (last - 1)
      /\ \A j \in 1 .. (last - 1) :
            rows'[j] = IF j = ri THEN rows[last] ELSE rows[j]
  BY <1>1 DEF SwapRemove
<1>3. \A i \in DOMAIN rows : RowKey(rows[i]) = k <=> i = ri
  BY <1>1 DEF IndexComplete
<1>. HIDE DEF ri, last
<1>4. ASSUME NEW j \in DOMAIN rows'
      PROVE  \E i \in DOMAIN rows :
                rows'[j] = rows[i] /\ RowKey(rows[i]) \notin {k}
  <2>1. last \in DOMAIN rows /\ j \in DOMAIN rows /\ last # j
    BY <1>1, <1>2
  <2>2. CASE j = ri
    <3>1. rows'[j] = rows[last] /\ last # ri
      BY <1>2, <2>1, <2>2
    <3>. QED  BY <1>3, <2>1, <3>1
  <2>3. CASE j # ri
    <3>1. rows'[j] = rows[j]
      BY <1>2, <2>3
    <3>. QED  BY <1>3, <2>1, <2>3, <3>1
  <2>. QED  BY <2>2, <2>3
<1>5. ASSUME NEW i \in DOMAIN rows, RowKey(rows[i]) \notin {k}
      PROVE  \E j \in DOMAIN rows' : rows'[j] = rows[i]
  <2>1. i # ri
    BY <1>3, <1>5
  <2>2. CASE i = last
    <3>1. ri \in DOMAIN rows' /\ rows'[ri] = rows[i]
      BY <1>1, <1>2, <2>1, <2>2
    <3>. QED  BY <3>1
  <2>3. CASE i # last
    <3>1. i \in DOMAIN rows' /\ rows'[i] = rows[i]
      BY <1>1, <1>2, <2>1, <2>3
    <3>. QED  BY <3>1
  <2>. QED  BY <2>2, <2>3
<1>6. Abstract!Delete({k})
  BY <1>1, <1>4, <1>5, RowsDeleted
<1>. QED  BY <1>6, SameValues DEF Abstract!Next

LEMMA DeleteScanDeletes ==
    ASSUME RefinementInv, IndexComplete', NEW w, DeleteScan(w)
    PROVE  Abstract!Delete(Abstract!Selected(w))
<1>. DEFINE K == {i \in DOMAIN rows : ~Matches(rows[i], w)}
            S == Abstract!Selected(w)
<1>1. PICK f \in Listings(K) : rows' = [i \in DOMAIN f |-> rows[f[i]]]
  BY DEF DeleteScan
<1>2. PICK m \in 0 .. Len(rows) : f \in [1 .. m -> K]
  BY <1>1 DEF Listings
<1>3. \A i \in K : \E j \in DOMAIN f : f[j] = i
  BY <1>1 DEF Listings
<1>4. \A i \in DOMAIN rows : RowKey(rows[i]) \in S <=> Matches(rows[i], w)
  <2>1. \A i \in DOMAIN rows : /\ Contents[RowKey(rows[i])] = rows[i]
                               /\ RowKey(rows[i]) \in DOMAIN Contents
    BY ContentsFacts DEF RowKeys
  <2>. QED  BY <2>1, SameValues DEF Abstract!Selected
<1>. HIDE DEF S
<1>5. ASSUME NEW j \in DOMAIN rows'
      PROVE  \E i \in DOMAIN rows : rows'[j] = rows[i] /\ RowKey(rows[i]) \notin S
  <2>1. f[j] \in K /\ rows'[j] = rows[f[j]]
    BY <1>1, <1>2
  <2>. QED  BY <1>4, <2>1
<1>6. ASSUME NEW i \in DOMAIN rows, RowKey(rows[i]) \notin S
      PROVE  \E j \in DOMAIN rows' : rows'[j] = rows[i]
  <2>1. i \in K
    BY <1>4, <1>6
  <2>2. PICK j \in DOMAIN f : f[j] = i
    BY <1>3, <2>1
  <2>3. j \in DOMAIN rows' /\ rows'[j] = rows[i]
    BY <1>1, <2>2
  <2>. QED  BY <2>3
<1>7. columns' = columns
  BY DEF DeleteScan
<1>8. Abstract!Delete(S)
  BY <1>5, <1>6, <1>7, RowsDeleted
<1>. QED  BY <1>8 DEF S

LEMMA DeleteScanRefines ==
    ASSUME RefinementInv, IndexComplete',
           NEW w \in Conditions(columns), DeleteScan(w)
    PROVE  Abstract!Next
BY DeleteScanDeletes, SameValues DEF Abstract!Next

(* A prepared DELETE with a NULL parameter deletes nothing. *)
LEMMA DeletePreparedRefines ==
    ASSUME RefinementInv, IndexComplete', NEW d \in columns,
           NEW v \in Literal \cup {NULL}, DeletePrepared(d, v)
    PROVE  Abstract!Next \/ UNCHANGED Abstract!vars
<1>. DEFINE w == BoundEquality(d, v)
<1>1. DeleteScan(w)
  BY DEF DeletePrepared
<1>2. CASE v \in Literal
  <2>1. w \in Conditions(columns)
    BY <1>2 DEF BoundEquality, Conditions
  <2>. HIDE DEF w
  <2>. QED  BY <1>1, <2>1, DeleteScanRefines
<1>3. CASE v = NULL
  <2>1. \A row : ~Matches(row, w)
    BY <1>3 DEF BoundEquality, Matches
  <2>2. Abstract!Selected(w) = {}
    BY <2>1, SameValues DEF Abstract!Selected
  <2>. HIDE DEF w
  <2>3. Abstract!Delete({})
    BY <1>1, <2>2, DeleteScanDeletes
  <2>4. Contents' = [k \in DOMAIN Contents |-> Contents[k]] /\ columns' = columns
    BY <2>3 DEF Abstract!Delete
  <2>5. Contents' = Contents
    BY <2>4 DEF Contents
  <2>. QED  BY <2>4, <2>5 DEF Abstract!vars
<1>. QED  BY <1>2, <1>3

LEMMA EmptyContents ==
    ASSUME rows' = <<>>
    PROVE  Contents' = [k \in {} |-> NULL]
<1>1. RowKeys(rows') = {}
  BY DEF RowKeys
<1>. QED  BY <1>1 DEF Contents

LEMMA ResetRefines ==
    ASSUME RefinementInv, Truncate \/ CreateTable
    PROVE  Abstract!Next
<1>1. Contents' = [k \in {} |-> NULL]
  BY EmptyContents DEF Truncate, CreateTable
<1>2. CASE CreateTable
  BY <1>1, <1>2 DEF CreateTable, Abstract!Create, Abstract!Next
<1>3. CASE Truncate
  <2>1. NoWhere \in Conditions(columns)
    BY DEF Conditions
  <2>2. \A row : Matches(row, NoWhere)
    BY DEF Matches, NoWhere
  <2>3. Abstract!Selected(NoWhere) = DOMAIN Contents
    BY <2>2, SameValues DEF Abstract!Selected
  <2>4. Abstract!Delete(Abstract!Selected(NoWhere))
    BY <1>1, <1>3, <2>3 DEF Truncate, Abstract!Delete
  <2>. QED  BY <2>1, <2>4, SameValues DEF Abstract!Next
<1>. QED  BY <1>2, <1>3

-----------------------------------------------------------------------------
(* ALTER TABLE. *)

LEMMA AlterRefines ==
    ASSUME RefinementInv, IndexComplete', NEW c \in Cols, AddColumn(c) \/ DropColumn(c)
    PROVE  Abstract!Next
<1>. USE DEF RefinementInv
<1>1. /\ DOMAIN rows' = DOMAIN rows
      /\ \A i \in DOMAIN rows : RowKey(rows'[i]) = RowKey(rows[i])
  BY AlterKeepsKeys
<1>2. /\ DOMAIN Contents = RowKeys(rows)
      /\ \A i \in DOMAIN rows : /\ Contents[RowKey(rows[i])] = rows[i]
                                /\ RowKey(rows[i]) \in DOMAIN Contents
  BY ContentsFacts DEF RowKeys
<1>3. CASE AddColumn(c)
  <2>. DEFINE d == [k \in DOMAIN Contents |->
                       [e \in columns' |->
                           IF e = c THEN NULL ELSE Contents[k][e]]]
  <2>1. \A i \in DOMAIN rows : d[RowKey(rows[i])] = rows'[i]
    BY <1>2, <1>3 DEF AddColumn
  <2>2. d = [k \in DOMAIN d |-> d[k]] /\ DOMAIN d = DOMAIN Contents
    OBVIOUS
  <2>3. Contents' = d
    <3>. HIDE DEF d
    <3>. QED  BY <1>1, <2>1, <2>2, ChangedInPlace
  <2>4. Abstract!AddColumn(c)
    BY <1>3, <2>3 DEF AddColumn, Abstract!AddColumn
  <2>. QED  BY <2>4 DEF Abstract!Next
<1>4. CASE DropColumn(c)
  <2>. DEFINE d == [k \in DOMAIN Contents |-> [e \in columns' |-> Contents[k][e]]]
  <2>1. \A i \in DOMAIN rows : d[RowKey(rows[i])] = rows'[i]
    BY <1>2, <1>4 DEF DropColumn
  <2>2. d = [k \in DOMAIN d |-> d[k]] /\ DOMAIN d = DOMAIN Contents
    OBVIOUS
  <2>3. Contents' = d
    <3>. HIDE DEF d
    <3>. QED  BY <1>1, <2>1, <2>2, ChangedInPlace
  <2>4. Abstract!DropColumn(c)
    BY <1>4, <2>3 DEF DropColumn, Abstract!DropColumn
  <2>. QED  BY <2>4 DEF Abstract!Next
<1>. QED  BY <1>3, <1>4

-----------------------------------------------------------------------------

LEMMA StepRefines ==
    ASSUME Workload \cap Unfaithful = {}, RefinementInv, IndexComplete', [Next]_vars
    PROVE  [Abstract!Next]_Abstract!vars
<1>1. CASE UNCHANGED vars
  BY <1>1 DEF vars, Abstract!vars, Contents
<1>2. CASE \E row \in OfferedRows \cup AutoRows :
               \/ Insert(row) \/ Replace(row) \/ ReplaceNew(row)
               \/ InsertPrepared(row)
  BY <1>2, InsertRefines
<1>3. CASE \E c \in columns, v \in Literal \cup {NULL} :
               \/ \E k \in Literal : UpdateByKey(k, c, v)
               \/ \E w \in Conditions(columns) : UpdateScan(w, c, v)
               \/ \E d \in columns : UpdateScanPrepared(d, c, v)
  BY <1>3, UpdateRefines
<1>4. CASE \E k \in Literal : DeleteByKey(k)
  BY <1>4, DeleteByKeyRefines
<1>5. CASE \E w \in Conditions(columns) : DeleteScan(w)
  BY <1>5, DeleteScanRefines
<1>6. CASE \E d \in columns, v \in Literal \cup {NULL} : DeletePrepared(d, v)
  BY <1>6, DeletePreparedRefines
<1>7. CASE Truncate \/ CreateTable
  BY <1>7, ResetRefines
<1>8. CASE \E c \in Cols : AddColumn(c) \/ DropColumn(c)
  BY <1>8, AlterRefines
<1>9. ~CreateTableAs
  BY DEF CreateTableAs, Allowed, Unfaithful, Unreachable
<1>. QED
  BY <1>1, <1>2, <1>3, <1>4, <1>5, <1>6, <1>7, <1>8, <1>9 DEF Next

(* A table does what a dictionary of rows does: positions, index, column   *)
(* stores and counter never show, on whichever path a statement finds its  *)
(* rows, for values of any type, NULL keys and prepared inserts included.  *)
(* The statements left out are the ones a dictionary does not have:        *)
(* inserting a key again, assigning keys, CREATE TABLE ... AS, which       *)
(* forgets the index, and the prepared UPDATE that stores a placeholder.   *)
THEOREM TableIsADictionary ==
    ASSUME Workload \cap Unfaithful = {}
    PROVE  Spec => ImplementsKeyedTable
<1>1. Init => Abstract!Init
  <2>1. Init => RowKeys(rows) = {}
    BY DEF Init, RowKeys
  <2>. QED  BY <2>1 DEF Init, Abstract!Init, Contents
<1>2. RefinementInv /\ RefinementInv' /\ [Next]_vars
         => [Abstract!Next]_Abstract!vars
  BY StepRefines DEF RefinementInv
<1>3. Spec => []RefinementInv
  BY RefinementInvariant
<1>. QED  BY <1>1, <1>2, <1>3, PTL DEF Spec, ImplementsKeyedTable, Abstract!Spec
=============================================================================
