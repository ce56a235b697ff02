---------------------------- MODULE MCCountdown ----------------------------
(* Instances of Countdown for TLC. *)
EXTENDS Countdown

OneOrTwo == {1, 2}
\* A fresh device, or one that was synchronised two seconds ago.
AnyEpoch == {0, Start - 2}
=============================================================================
