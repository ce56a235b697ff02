------------------------------ MODULE MCPanel ------------------------------
(* Instances of Panel for TLC. *)
EXTENDS Panel

\* LED_BLINK_FAST, of provisioning, another endless pattern, and LED_BLINK_OK.
SomePatterns == {"fast", "slow", "ok"}
=============================================================================
