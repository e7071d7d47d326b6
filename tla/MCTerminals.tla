----------------------------- MODULE MCTerminals -----------------------------
(* A small instance of the terminals. *)
EXTENDS Terminals

CONSTANTS t1, t2

OneTerminal == {t1}
TwoTerminals == {t1, t2}
=============================================================================
