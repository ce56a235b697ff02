------------------------------- MODULE Press -------------------------------
(***************************************************************************)
(* What a debounced button promises: it is down or up, changes only after  *)
(* Needed samples that say otherwise, is reported as a long press at most  *)
(* once while it is down, and as a short press exactly when it comes up    *)
(* without one.                                                            *)
(***************************************************************************)
EXTENDS Naturals

CONSTANT Needed

VARIABLES
    level,     \* the contacts are closed
    down,
    long,      \* a long press was reported since it went down
    against,   \* samples against "down" since it changed, at most Needed
    event      \* the event being reported, "none" otherwise

vars == <<level, down, long, against, event>>

Count == IF level = down THEN against ELSE IF against < Needed THEN against + 1 ELSE Needed

\* A sample that changes nothing.
Hold == event' = "none" /\ against' = Count /\ UNCHANGED <<down, long>>

GoDown ==
    /\ ~down /\ level /\ Count >= Needed
    /\ down' = TRUE /\ long' = FALSE /\ against' = 0 /\ event' = "none"

Long ==
    /\ down /\ level /\ ~long
    /\ long' = TRUE /\ event' = "long" /\ against' = Count
    /\ UNCHANGED down

GoUp ==
    /\ down /\ ~level /\ Count >= Needed
    /\ down' = FALSE /\ against' = 0
    /\ event' = IF long THEN "none" ELSE "short"
    /\ UNCHANGED long

Sample == event = "none" /\ (Hold \/ GoDown \/ Long \/ GoUp) /\ UNCHANGED level

Reported == event # "none" /\ event' = "none" /\ UNCHANGED <<level, down, long, against>>

Contact == level' = ~level /\ UNCHANGED <<down, long, against, event>>

Init == level \in BOOLEAN /\ ~down /\ ~long /\ against = 0 /\ event = "none"

Spec == Init /\ [][Sample \/ Reported \/ Contact]_vars
=============================================================================
