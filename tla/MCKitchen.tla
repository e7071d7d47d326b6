----------------------------- MODULE MCKitchen -----------------------------
(* A small instance of the kitchen's screens. *)
EXTENDS Kitchen

CONSTANTS h1, c1, d1

OneHandler == {h1}
OneChef == {c1}
OneDish == {d1}
=============================================================================
