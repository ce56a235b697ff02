------------------------------- MODULE Clock -------------------------------
(***************************************************************************)
(* The clock of the device, which Timing and Countdown share, and what     *)
(* those who measure time by time(NULL) may expect of it: it runs, is set  *)
(* right at most forwards, is saved only when it is right, and starts from *)
(* what was saved.                                                         *)
(*                                                                         *)
(* "real" is the real time, which the program never sees otherwise.        *)
(***************************************************************************)
EXTENDS Integers

CONSTANTS
    Threshold,    \* MIN_VALID_EPOCH, TIME_VALID_THRESHOLD: a smaller clock counts as unset
    Start,        \* real time when the model begins
    MaxReal,      \* bound on real time
    MaxBoots      \* bound on the number of power cuts

ASSUME ClockAssumption ==
    /\ Threshold \in Nat \ {0} /\ Start \in Nat /\ MaxReal \in Nat /\ MaxBoots \in Nat
    /\ Threshold <= Start /\ Start <= MaxReal

VARIABLES
    wall,         \* time(NULL)
    synced,       \* s_ntp_synced
    timeOk,       \* s_time_ok of routines.c: the sync has been handled
    epoch,        \* the saved epoch in flash, 0 for none
    real,         \* real time
    boots         \* power cuts so far

-----------------------------------------------------------------------------
(* The promise.                                                            *)

clock == <<wall, epoch, real, boots>>

Run     == real' = real + 1 /\ wall' = wall + 1 /\ UNCHANGED <<epoch, boots>>
Correct == wall <= wall' /\ wall' = real /\ UNCHANGED <<epoch, real, boots>>
Save    == wall = real /\ epoch' = wall /\ UNCHANGED <<wall, real, boots>>
Restart == boots' = boots + 1 /\ wall' = epoch /\ UNCHANGED <<epoch, real>>

ClockInit == real \in Nat /\ epoch \in 0..real /\ wall = epoch /\ boots = 0
ClockNext == Run \/ Correct \/ Save \/ Restart

ClockSpec == ClockInit /\ [][ClockNext]_clock

\* Routines and countdowns run on a clock that SNTP set since the boot, and not
\* on the seeded one (timing.c:104, "stale until NTP syncs"): once s_time_ok is
\* set the clock is right, across lost links, restarts of SNTP and power cuts.
ClockRight == timeOk => wall = real
=============================================================================
