------------------------------ MODULE MCRelay ------------------------------
(* Instances of Relay for TLC. *)
EXTENDS Relay

\* One short delay.
OneDelay  == {[h |-> 0, s |-> 2]}
Either == {TRUE, FALSE}
Valid == {TRUE}
Unset == {FALSE}
OffOnly == {"off"}
AllModes == {"off", "on", "auto"}
=============================================================================
