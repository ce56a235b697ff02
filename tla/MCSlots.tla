------------------------------ MODULE MCSlots ------------------------------
(* Instances of Slots for TLC. *)
EXTENDS Slots

CONSTANTS d1, d2, d3
Descriptors == {d1, d2, d3}
=============================================================================
