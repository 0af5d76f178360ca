----------------------------- MODULE KeyedTable -----------------------------
(***************************************************************************)
(* What a table with a PRIMARY KEY promises its clients: a dictionary from *)
(* keys to rows.  Statements name rows by key or by condition; there are   *)
(* no positions, no index and no column stores here.                       *)
(***************************************************************************)
EXTENDS TableValues

CONSTANT Generated   \* the keys AUTO_INCREMENT can generate

VARIABLES columns,    \* the column names of the table
          contents    \* key -> row

vars == <<columns, contents>>

Selected(w) == {k \in DOMAIN contents : Matches(contents[k], w)}

(* INSERT of a fresh key and REPLACE of any key. *)
Put(row) ==
    /\ contents' = [k \in DOMAIN contents \cup {RowKey(row)} |->
                       IF k = RowKey(row) THEN row ELSE contents[k]]
    /\ UNCHANGED columns

(* UPDATE assigns a column other than the key in every selected row. *)
Update(S, c, v) ==
    /\ c # PkCol
    /\ contents' = [k \in DOMAIN contents |->
                       IF k \in S THEN [contents[k] EXCEPT ![c] = v]
                       ELSE contents[k]]
    /\ UNCHANGED columns

Delete(S) ==
    /\ contents' = [k \in DOMAIN contents \ S |-> contents[k]]
    /\ UNCHANGED columns

AddColumn(c) ==
    /\ c \notin columns
    /\ columns' = columns \cup {c}
    /\ contents' = [k \in DOMAIN contents |->
                       [d \in columns' |->
                           IF d = c THEN NULL ELSE contents[k][d]]]

DropColumn(c) ==
    /\ c \in columns \ {PkCol}
    /\ columns' = columns \ {c}
    /\ contents' = [k \in DOMAIN contents |->
                       [d \in columns' |-> contents[k][d]]]

Create ==
    /\ columns' = Cols
    /\ contents' = [k \in {} |-> NULL]

Init ==
    /\ columns = Cols
    /\ contents = [k \in {} |-> NULL]

Next ==
    \/ \E row \in [columns -> Literal \cup {NULL} \cup Generated] : Put(row)
    \/ \E c \in columns, v \in Literal \cup {NULL} :
          \/ \E k \in Literal : Update({k}, c, v)
          \/ \E w \in Conditions(columns) : Update(Selected(w), c, v)
    \/ \E k \in Literal : Delete({k})
    \/ \E w \in Conditions(columns) : Delete(Selected(w))
    \/ \E c \in Cols : AddColumn(c) \/ DropColumn(c)
    \/ Create

Spec == Init /\ [][Next]_vars
=============================================================================
