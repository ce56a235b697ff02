----------------------------- MODULE Ownership -----------------------------
(***************************************************************************)
(* What the admission rules of the HTTP handlers promise: the relay is     *)
(* governed by hand, by the armed auto-off, or by something timed (a       *)
(* countdown or an enabled routine), and auto-off and timed behaviour take *)
(* it only from manual control.  The promise is not unconditional: a       *)
(* countdown in limbo, which is set and not counting, does not keep the    *)
(* auto-off from being armed, and a restart can bring a timed behaviour    *)
(* back beside an armed auto-off.  Both leave the relay disputed.          *)
(***************************************************************************)
EXTENDS Naturals

VARIABLES
    owner,    \* who governs the relay
    limbo,    \* a countdown is set but does not count
    restarts  \* restarts so far

vars == <<owner, limbo, restarts>>

Owners == {"manual", "autooff", "timed", "disputed"}

\* Auto-off is armed.
Armed(o) == o \in {"autooff", "disputed"}

\* Only manual control gives way to a claim.
Claim   == owner = "manual" /\ owner' \in {"autooff", "timed"}
Release == owner \in {"autooff", "timed"} /\ owner' = "manual"
Dispute == owner = "timed" /\ limbo /\ owner' = "disputed"
Settle  == owner = "disputed" /\ owner' \in {"autooff", "timed"}

\* A restart never arms the auto-off, though it may bring a timed behaviour back.
Restart ==
    /\ restarts' = restarts + 1
    /\ owner' \in Owners
    /\ Armed(owner') => Armed(owner)

Init == owner \in Owners /\ limbo \in BOOLEAN /\ restarts = 0

Next ==
    /\ limbo' \in BOOLEAN
    /\ \/ Restart
       \/ /\ UNCHANGED restarts
          /\ Claim \/ Release \/ Dispute \/ Settle \/ UNCHANGED owner

Spec == Init /\ [][Next]_vars
=============================================================================
