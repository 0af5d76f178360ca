---------------------------- MODULE TableValues ----------------------------
(***************************************************************************)
(* Values, keys, column types and WHERE conditions of the SQL engine       *)
(* (src/src/engine.rs), as far as the storage layer tells them apart.      *)
(*                                                                         *)
(* A value is an integer, a text or NULL.  Integers are the ones a text    *)
(* statement can write as a number literal; texts are model values that    *)
(* neither are empty nor spell a number, plus the empty text.              *)
(***************************************************************************)
EXTENDS Integers

CONSTANTS
    Cols,             \* column names
    ColType,          \* the type of each column: "int" or "text"
    PkCol,            \* the PRIMARY KEY column
    Ints,             \* integers clients write
    Texts,            \* non-empty texts clients write
    EmptyText,        \* the empty text, default of a text store
    PlaceholderText,  \* the text "?" that an unresolved placeholder becomes
    NULL

ASSUME ColumnAssumption ==
    /\ ColType \in [Cols -> {"int", "text"}]
    /\ PkCol \in Cols

ASSUME ValueAssumption ==
    /\ Ints \subseteq Nat
    /\ EmptyText \notin Texts
    /\ PlaceholderText \notin Texts \cup {EmptyText}
    /\ NULL \notin Texts \cup {EmptyText, PlaceholderText}
    /\ \A t \in Texts \cup {EmptyText, PlaceholderText, NULL} : t \notin Int

AllTexts == Texts \cup {EmptyText, PlaceholderText}

Value == Int \cup AllTexts \cup {NULL}

(* The literals a client can write in a statement. *)
Literal == Ints \cup Texts \cup {EmptyText}

WellTyped(c, v) == IF ColType[c] = "int" THEN v \in Int ELSE v \in AllTexts

(* Mutant: the store is pushed whatever value the row has. *)
CellUnchecked(c, v) == v

(* What a column store keeps for a value: the value itself when it has the *)
(* column's type, 0 or the empty text otherwise.                           *)
Cell(c, v) ==
    IF WellTyped(c, v) THEN v
    ELSE IF ColType[c] = "int" THEN 0 ELSE EmptyText

(* The key of a row: NULL prints as the empty string. *)
KeyOf(v) == IF v = NULL THEN EmptyText ELSE v

Keys == Int \cup AllTexts

RowKey(row) == KeyOf(row[PkCol])

(***************************************************************************)
(* Conditions.  Ordering conditions compare an integer column with an      *)
(* integer literal; NoWhere is a statement without a WHERE clause.         *)
(***************************************************************************)
NoWhere == [op |-> "all"]

Conditions(columns) ==
    {NoWhere}
    \cup [op : {"isnull"}, col : columns]
    \cup [op : {"eq"}, col : columns, val : Literal]
    \cup [op : {"lt", "gt"}, col : {c \in columns : ColType[c] = "int"},
          val : Ints]

(* values_cmp against an integer: NULL sorts before everything, a text is  *)
(* compared as a string, where the empty text precedes every number and    *)
(* the other texts follow it.                                              *)
LessThan(v, n) == v \in {NULL, EmptyText} \/ (v \in Int /\ v < n)
GreaterThan(v, n) == v \in AllTexts \ {EmptyText} \/ (v \in Int /\ v > n)

(* eval_where on a stored row. *)
Matches(row, w) ==
    \/ w.op = "all"
    \/ w.op = "isnull" /\ row[w.col] = NULL
    \/ w.op = "eq" /\ row[w.col] # NULL /\ row[w.col] = w.val
    \/ w.op = "lt" /\ LessThan(row[w.col], w.val)
    \/ w.op = "gt" /\ GreaterThan(row[w.col], w.val)
=============================================================================
