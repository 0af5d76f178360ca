--------------------------- MODULE MCConnections ---------------------------
(* Instances of Connections for TLC. *)
EXTENDS Connections, TLC

CONSTANTS c1, c2, c3

(* c1 sends its handshake response and two commands, c2 asks for TLS and   *)
(* sends one command, c3 connects and says nothing.                        *)
ServedConducts == (c1 :> {"whole"}) @@ (c2 :> Kinds) @@ (c3 :> {"whole"})
ServedPackets == (c1 :> 2) @@ (c2 :> 4) @@ (c3 :> 0)

(* One client, which asks for TLS and has a long handshake response. *)
SplitConducts == (c1 :> {"whole"}) @@ (c2 :> {"long"})
SplitPackets == (c1 :> 1) @@ (c2 :> 3)
=============================================================================
