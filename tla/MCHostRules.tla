---------------------------- MODULE MCHostRules ----------------------------
(* Instances of HostRules for TLC. *)
EXTENDS HostRules, TLC

CONSTANTS p1, p2
=============================================================================
