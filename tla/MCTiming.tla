------------------------------ MODULE MCTiming ------------------------------
(* Instances of Timing for TLC. *)
EXTENDS Timing

CONSTANTS z1, z2
TwoZones == {z1, z2}
=============================================================================
