---------------------------- MODULE MCConnection ----------------------------
(* Instances of Connection for TLC. *)
EXTENDS Connection

CONSTANT a
OneCred == {a}
=============================================================================
