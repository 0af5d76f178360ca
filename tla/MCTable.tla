------------------------------- MODULE MCTable -------------------------------
(* Instances of TableRefinement for TLC. *)
EXTENDS TableRefinement, TLC

CONSTANTS id, n, s, a, b

(* An integer key with an integer column, or with a text column. *)
IntKeyType == [c \in {id, n} |-> "int"]
MixedType == [c \in {id, s} |-> IF c = id THEN "int" ELSE "text"]
=============================================================================
