--------------------------- MODULE MCArbitration ---------------------------
(* Instances of Arbitration for TLC. *)
EXTENDS Arbitration

CONSTANTS s1, s2
TwoSlots == {s1, s2}
=============================================================================
