--------------------------- MODULE TableRefinement ---------------------------
(***************************************************************************)
(* TableStore implements KeyedTable: forgetting positions, index, stores   *)
(* and counter, what is left of a table is a dictionary, and every         *)
(* statement does to the dictionary what KeyedTable says it does.          *)
(***************************************************************************)
EXTENDS TableStore

Contents ==
    [k \in RowKeys(rows) |->
        rows[CHOOSE i \in DOMAIN rows : RowKey(rows[i]) = k]]

Abstract == INSTANCE KeyedTable
                WITH contents <- Contents, Generated <- 0 .. MaxAuto

(* The point, scan and bulk paths of INSERT, REPLACE, UPDATE, DELETE,      *)
(* TRUNCATE and ALTER act on the rows named by key or condition and on no  *)
(* others, however pk_index and swap_remove shuffle positions.             *)
ImplementsKeyedTable == Abstract!Spec
=============================================================================
