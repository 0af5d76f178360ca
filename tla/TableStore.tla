----------------------------- MODULE TableStore -----------------------------
(***************************************************************************)
(* One table of the SQL engine (struct Table, src/src/engine.rs): its rows *)
(* together with the three structures derived from them,                   *)
(*   pk_index   key of a row -> position of the row,                       *)
(*   col_store  one typed vector per column, read by the SIMD scans        *)
(*              (col_int_data and col_str_data of the code),               *)
(*   next_auto  the AUTO_INCREMENT counter.                                *)
(* A statement holds the database's write lock for its whole run, so each  *)
(* statement is one atomic action.  Positions count from 1.                *)
(***************************************************************************)
EXTENDS TableValues, Sequences

CONSTANTS
    Workload,   \* the kinds of statement clients use beyond the plain ones
    MaxRows,    \* bound on the number of rows
    MaxAuto     \* bound on the AUTO_INCREMENT counter

(***************************************************************************)
(* The engine accepts each of these; a workload names those that clients   *)
(* actually issue:                                                         *)
(*   duplicate_key    an INSERT whose key is already in the table          *)
(*   untyped_value    a NULL, or a value that is not of its column's type  *)
(*   update_key       an UPDATE that assigns the PRIMARY KEY column        *)
(*   update_scan      an UPDATE without a PRIMARY KEY equality             *)
(*   prepared_scan    the same as a prepared statement with placeholders   *)
(*   prepared_key     a prepared INSERT with a key not below next_auto     *)
(*   add_column       ALTER TABLE ... ADD COLUMN                           *)
(*   create_as        CREATE TABLE ... AS SELECT                           *)
(***************************************************************************)
Kinds == {"duplicate_key", "untyped_value", "update_key", "update_scan",
          "prepared_scan", "prepared_key", "add_column", "create_as"}

ASSUME WorkloadAssumption == Workload \subseteq Kinds

ASSUME BoundAssumption == MaxRows \in Nat /\ MaxAuto \in Nat

VARIABLES columns, rows, pk_index, col_store, next_auto

vars == <<columns, rows, pk_index, col_store, next_auto>>

Row == [columns -> Value]

TypeOK ==
    /\ columns \in SUBSET Cols
    /\ PkCol \in columns
    /\ rows \in Seq(Row)
    /\ DOMAIN pk_index \subseteq Keys
    /\ pk_index \in [DOMAIN pk_index -> Nat \ {0}]
    /\ col_store \in [columns -> Seq(Int \cup AllTexts)]
    /\ next_auto \in Nat \ {0}

-----------------------------------------------------------------------------
(* Vectors. *)

(* Vec::remove *)
Without(s, i) == [j \in 1 .. (Len(s) - 1) |-> IF j < i THEN s[j] ELSE s[j + 1]]

(* Vec::swap_remove: the last element takes the place of the removed one. *)
SwapRemove(s, i) ==
    [j \in 1 .. (Len(s) - 1) |-> IF j = i THEN s[Len(s)] ELSE s[j]]

IfWithin(s, i, t) == IF i \in DOMAIN s THEN t ELSE s

(* The ascending listings of a set of positions (there is just one). *)
Listings(K) ==
    {f \in UNION {[1 .. n -> K] : n \in 0 .. Len(rows)} :
        /\ \A i, j \in DOMAIN f : i < j => f[i] < f[j]
        /\ \A k \in K : \E i \in DOMAIN f : f[i] = k}

-----------------------------------------------------------------------------
(* The derived structures. *)

RowKeys(rs) == {RowKey(rs[i]) : i \in DOMAIN rs}

(* The index a loop over the rows rebuilds: of equal keys the last wins. *)
Rebuilt(rs) ==
    {ix \in [RowKeys(rs) -> DOMAIN rs] :
        \A k \in RowKeys(rs) :
            /\ RowKey(rs[ix[k]]) = k
            /\ \A j \in DOMAIN rs : j > ix[k] => RowKey(rs[j]) # k}

Mirror(rs) == [c \in columns |-> [i \in DOMAIN rs |-> Cell(c, rs[i][c])]]

Indexed(ix, k, i) ==
    [j \in DOMAIN ix \cup {k} |-> IF j = k THEN i ELSE ix[j]]

(* Mutant: the index keeps the entry of a deleted row. *)
UnindexedNever(ix, k) == ix

Unindexed(ix, k) == [j \in DOMAIN ix \ {k} |-> ix[j]]

(* Mutant: > for >=. *)
AdvancedLate(v) == IF v \in Int /\ v > next_auto THEN v + 1 ELSE next_auto

Advanced(v) == IF v \in Int /\ v >= next_auto THEN v + 1 ELSE next_auto

-----------------------------------------------------------------------------
(* What clients offer. *)

Allowed(kind) == kind \in Workload

MayAssign(c, v) == WellTyped(c, v) \/ Allowed("untyped_value")

OfferedRows == {r \in [columns -> Literal \cup {NULL}] :
                    \A c \in columns : MayAssign(c, r[c])}

(* A row of an INSERT that leaves the key to AUTO_INCREMENT. *)
AutoRows == {[r EXCEPT ![PkCol] = next_auto] : r \in OfferedRows}

MayInsert(row) ==
    /\ Len(rows) < MaxRows
    /\ row[PkCol] \in Int => row[PkCol] < MaxAuto

-----------------------------------------------------------------------------
(* INSERT, REPLACE and the prepared INSERT. *)

(* Append a row to the given vectors and index its key. *)
Push(rs, ix, cs, row) ==
    /\ rows' = Append(rs, row)
    /\ pk_index' = Indexed(ix, RowKey(row), Len(rs) + 1)
    /\ col_store' = [c \in columns |-> Append(cs[c], Cell(c, row[c]))]

Insert(row) ==
    /\ MayInsert(row)
    /\ RowKey(row) \in RowKeys(rows) => Allowed("duplicate_key")
    /\ Push(rows, pk_index, col_store, row)
    /\ next_auto' = Advanced(row[PkCol])
    /\ UNCHANGED columns

(* Mutant: the index is not rebuilt after the old row's removal. *)
ReplaceStale(row) ==
    LET old == pk_index[RowKey(row)]
    IN  /\ RowKey(row) \in DOMAIN pk_index
        /\ old \in DOMAIN rows
        /\ MayInsert(row)
        /\ Push(Without(rows, old), pk_index,
                [c \in columns |-> Without(col_store[c], old)], row)
        /\ next_auto' = Advanced(row[PkCol])
        /\ UNCHANGED columns

(* REPLACE of an indexed key: the old row is removed, which shifts the     *)
(* rows after it, and the index is rebuilt before the new row is pushed.   *)
Replace(row) ==
    LET old == pk_index[RowKey(row)]
        kept == Without(rows, old)
        stores == [c \in columns |->
                      IfWithin(col_store[c], old, Without(col_store[c], old))]
    IN  /\ RowKey(row) \in DOMAIN pk_index
        /\ old \in DOMAIN rows
        /\ MayInsert(row)
        /\ \E ix \in Rebuilt(kept) : Push(kept, ix, stores, row)
        /\ next_auto' = Advanced(row[PkCol])
        /\ UNCHANGED columns

(* REPLACE of a key that is not indexed only pushes. *)
ReplaceNew(row) ==
    /\ RowKey(row) \notin DOMAIN pk_index
    /\ MayInsert(row)
    /\ Push(rows, pk_index, col_store, row)
    /\ next_auto' = Advanced(row[PkCol])
    /\ UNCHANGED columns

(* The prepared INSERT leaves the AUTO_INCREMENT counter alone. *)
InsertPrepared(row) ==
    /\ MayInsert(row)
    /\ RowKey(row) \in RowKeys(rows) => Allowed("duplicate_key")
    /\ row[PkCol] \in Int /\ row[PkCol] >= next_auto => Allowed("prepared_key")
    /\ Push(rows, pk_index, col_store, row)
    /\ UNCHANGED <<columns, next_auto>>

-----------------------------------------------------------------------------
(* UPDATE. *)

MayUpdate(c, v) ==
    /\ MayAssign(c, v)
    /\ c = PkCol => Allowed("update_key")

Assigned(row, c, v) == [row EXCEPT ![c] = v]

(* Mutant: the column's store does not follow. *)
UpdateByKeyUnsynced(k, c, v) ==
    /\ MayUpdate(c, v)
    /\ k \in DOMAIN pk_index
    /\ pk_index[k] \in DOMAIN rows
    /\ rows' = [rows EXCEPT ![pk_index[k]] = Assigned(@, c, v)]
    /\ UNCHANGED <<columns, pk_index, col_store, next_auto>>

(* WHERE pk = literal, as text or prepared: the row is found by the index  *)
(* and the column's store follows when the value has the store's type.     *)
UpdateByKey(k, c, v) ==
    /\ MayUpdate(c, v)
    /\ k \in DOMAIN pk_index
    /\ LET ri == pk_index[k]
       IN  /\ ri \in DOMAIN rows
           /\ rows' = [rows EXCEPT ![ri] = Assigned(@, c, v)]
           /\ col_store' =
                IF WellTyped(c, v)
                THEN [col_store EXCEPT
                        ![c] = IfWithin(@, ri, [@ EXCEPT ![ri] = v])]
                ELSE col_store
    /\ UNCHANGED <<columns, pk_index, next_auto>>

(* Any other WHERE: only the rows are assigned. *)
AssignMatching(w, c, v) ==
    /\ rows' = [i \in DOMAIN rows |->
                   IF Matches(rows[i], w) THEN Assigned(rows[i], c, v)
                   ELSE rows[i]]
    /\ UNCHANGED <<columns, pk_index, col_store, next_auto>>

UpdateScan(w, c, v) ==
    /\ Allowed("update_scan")
    /\ MayUpdate(c, v)
    /\ AssignMatching(w, c, v)

(* eval_where_bound of WHERE d = ?, where v is the first parameter. *)
BoundEquality(d, v) == [op |-> "eq", col |-> d, val |-> v]

(* SET c = ? WHERE d = ?: the condition compares with the first parameter, *)
(* which belongs to SET, and the assignment stores the text "?".           *)
UpdateScanPrepared(d, c, v) ==
    /\ Allowed("prepared_scan")
    /\ MayUpdate(c, PlaceholderText)
    /\ d # PkCol
    /\ AssignMatching(BoundEquality(d, v), c, PlaceholderText)

-----------------------------------------------------------------------------
(* DELETE and TRUNCATE. *)

(* WHERE pk = literal: swap_remove, and the index entry of the row that    *)
(* takes the hole is moved.                                                *)
DeleteByKey(k) ==
    /\ k \in DOMAIN pk_index
    /\ LET ri == pk_index[k]
           last == Len(rows)
           rest == Unindexed(pk_index, k)
       IN  IF ri \in DOMAIN rows
           THEN /\ pk_index' = IF ri = last THEN rest
                               ELSE Indexed(rest, RowKey(rows[last]), ri)
                /\ rows' = SwapRemove(rows, ri)
                /\ col_store' = [c \in columns |->
                       IfWithin(col_store[c], ri, SwapRemove(col_store[c], ri))]
           ELSE pk_index' = rest /\ UNCHANGED <<rows, col_store>>
    /\ UNCHANGED <<columns, next_auto>>

(* Mutant: the stores are not rebuilt. *)
DeleteScanUnsynced(w) ==
    /\ \E f \in Listings({i \in DOMAIN rows : ~Matches(rows[i], w)}) :
          LET kept == [i \in DOMAIN f |-> rows[f[i]]]
          IN  rows' = kept /\ pk_index' \in Rebuilt(kept)
    /\ UNCHANGED <<columns, col_store, next_auto>>

(* Any other DELETE: retain the rows that do not match, then rebuild the   *)
(* index and the stores from them.                                         *)
DeleteScan(w) ==
    /\ \E f \in Listings({i \in DOMAIN rows : ~Matches(rows[i], w)}) :
          LET kept == [i \in DOMAIN f |-> rows[f[i]]]
          IN  /\ rows' = kept
              /\ pk_index' \in Rebuilt(kept)
              /\ col_store' = Mirror(kept)
    /\ UNCHANGED <<columns, next_auto>>

(* DELETE ... WHERE d = ?, prepared, scans also when d is the key. *)
DeletePrepared(d, v) == DeleteScan(BoundEquality(d, v))

(* TRUNCATE clears everything but the counter. *)
Truncate ==
    /\ rows' = <<>>
    /\ pk_index' = [k \in {} |-> 1]
    /\ col_store' = [c \in columns |-> <<>>]
    /\ UNCHANGED <<columns, next_auto>>

-----------------------------------------------------------------------------
(* Schema changes. *)

AddColumn(c) ==
    /\ Allowed("add_column")
    /\ c \notin columns
    /\ columns' = columns \cup {c}
    /\ rows' = [i \in DOMAIN rows |->
                   [d \in columns' |-> IF d = c THEN NULL ELSE rows[i][d]]]
    /\ col_store' = [d \in columns' |->
                        IF d = c THEN [i \in DOMAIN rows |-> Cell(c, NULL)]
                        ELSE col_store[d]]
    /\ UNCHANGED <<pk_index, next_auto>>

DropColumn(c) ==
    /\ c \in columns \ {PkCol}
    /\ columns' = columns \ {c}
    /\ rows' = [i \in DOMAIN rows |-> [d \in columns' |-> rows[i][d]]]
    /\ col_store' = [d \in columns' |-> col_store[d]]
    /\ UNCHANGED <<pk_index, next_auto>>

(* CREATE TABLE without IF NOT EXISTS replaces the table of that name. *)
CreateTable ==
    /\ columns' = Cols
    /\ rows' = <<>>
    /\ pk_index' = [k \in {} |-> 1]
    /\ col_store' = [c \in Cols |-> <<>>]
    /\ next_auto' = 1

(* CREATE TABLE ... AS SELECT * of the same table, with declared columns:  *)
(* the rows arrive, the index and the stores start empty.                  *)
CreateTableAs ==
    /\ Allowed("create_as")
    /\ pk_index' = [k \in {} |-> 1]
    /\ col_store' = [c \in columns |-> <<>>]
    /\ next_auto' = 1
    /\ UNCHANGED <<columns, rows>>

-----------------------------------------------------------------------------
Init ==
    /\ columns = Cols
    /\ rows = <<>>
    /\ pk_index = [k \in {} |-> 1]
    /\ col_store = [c \in Cols |-> <<>>]
    /\ next_auto = 1

Next ==
    \/ \E row \in OfferedRows \cup AutoRows :
          Insert(row) \/ Replace(row) \/ ReplaceNew(row)
    \/ \E row \in OfferedRows : InsertPrepared(row)
    \/ \E c \in columns, v \in Literal \cup {NULL} :
          \/ \E k \in Literal : UpdateByKey(k, c, v)
          \/ \E w \in Conditions(columns) : UpdateScan(w, c, v)
          \/ \E d \in columns : UpdateScanPrepared(d, c, v)
    \/ \E k \in Literal : DeleteByKey(k)
    \/ \E w \in Conditions(columns) : DeleteScan(w)
    \/ \E d \in columns, v \in Literal \cup {NULL} : DeletePrepared(d, v)
    \/ Truncate
    \/ \E c \in Cols : AddColumn(c) \/ DropColumn(c)
    \/ CreateTable
    \/ CreateTableAs

Spec == Init /\ [][Next]_vars

-----------------------------------------------------------------------------
(* The three ways a SELECT finds its rows. *)

(* WHERE pk = literal through the index. *)
PointRead(k) ==
    {i \in DOMAIN rows : k \in DOMAIN pk_index /\ pk_index[k] = i}

(* try_simd_scan: a comparison of a typed store with a literal. *)
SimdApplies(w) ==
    \/ w.op = "eq" /\ WellTyped(w.col, w.val)
    \/ w.op \in {"lt", "gt"}

(* Mutant: the kernel of <= for the one of <. *)
SimdReadInclusive(w) ==
    {i \in DOMAIN rows \cap DOMAIN col_store[w.col] :
        \/ w.op = "eq" /\ col_store[w.col][i] = w.val
        \/ w.op = "lt" /\ col_store[w.col][i] <= w.val
        \/ w.op = "gt" /\ col_store[w.col][i] > w.val}

SimdRead(w) ==
    {i \in DOMAIN rows \cap DOMAIN col_store[w.col] :
        \/ w.op = "eq" /\ col_store[w.col][i] = w.val
        \/ w.op = "lt" /\ col_store[w.col][i] < w.val
        \/ w.op = "gt" /\ col_store[w.col][i] > w.val}

ScanRead(w) == {i \in DOMAIN rows : Matches(rows[i], w)}

ByKey(w) == w.op = "eq" /\ w.col = PkCol

Select(w) ==
    IF ByKey(w) THEN PointRead(w.val)
    ELSE IF SimdApplies(w) THEN SimdRead(w)
    ELSE ScanRead(w)

(* A prepared SELECT never reads the column stores. *)
SelectPrepared(w) == IF ByKey(w) THEN PointRead(w.val) ELSE ScanRead(w)

-----------------------------------------------------------------------------
(* Properties. *)

(* Every index entry points at a row that has the entry's key: a lookup    *)
(* through pk_index never returns, updates or deletes another row, and     *)
(* REPLACE never removes past the end.                                     *)
IndexSound ==
    \A k \in DOMAIN pk_index :
        /\ pk_index[k] \in DOMAIN rows
        /\ RowKey(rows[pk_index[k]]) = k

(* Every row is found by its key, so no row is out of reach of a lookup    *)
(* and no two rows share a key.                                            *)
IndexComplete ==
    \A i \in DOMAIN rows :
        /\ RowKey(rows[i]) \in DOMAIN pk_index
        /\ pk_index[RowKey(rows[i])] = i

(* Whatever clients do, no store outgrows the table: a SIMD scan yields no *)
(* position past the last row.                                             *)
StoresNeverLonger == \A c \in columns : Len(col_store[c]) <= Len(rows)

(* The column stores hold, position by position, what the rows hold. *)
StoresMirrorRows == col_store = Mirror(rows)

(* The answer to a SELECT does not depend on the path the engine picks     *)
(* for it: index lookup, SIMD scan and row scan find the same rows, text   *)
(* statement and prepared one.  Comparisons are with a column that holds   *)
(* values of its type only: a store has a 0 for NULL.                      *)
Typed(w) ==
    w.op \in {"eq", "lt", "gt"} =>
        \A i \in DOMAIN rows : WellTyped(w.col, rows[i][w.col])

ReadPathsAgree ==
    \A w \in Conditions(columns) :
        Typed(w) => /\ Select(w) = ScanRead(w)
                    /\ SelectPrepared(w) = ScanRead(w)

(* The next AUTO_INCREMENT value is above every key in the table, so a     *)
(* generated key is never one a row already has.                           *)
AutoKeyFresh ==
    \A i \in DOMAIN rows : rows[i][PkCol] \in Int => rows[i][PkCol] < next_auto

=============================================================================
