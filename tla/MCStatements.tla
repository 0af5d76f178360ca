---------------------------- MODULE MCStatements ----------------------------
(* Instances of Statements for TLC. *)
EXTENDS Statements

CONSTANTS d1, d2

(* What takes one lock is sent to the first database, what takes several   *)
(* meets it there in either order.                                         *)
OnTheFirst ==
    Simple(d1) \cup Composite(d1, d2) \cup Composite(d2, d1)
    \cup Drops({d1}) \cup Drops({d1, d2}) \cup Wide
=============================================================================
