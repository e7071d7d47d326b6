--------------------------- MODULE MCConnections ---------------------------
(* A small instance of the server's connections. *)
EXTENDS Connections, TLC

CONSTANTS ann, bob
Both == {ann, bob}
=============================================================================
