------------------------------- MODULE Power -------------------------------
(***************************************************************************)
(* power.c: when the radio may sleep.  The control task decides            *)
(* (power_process, twice a second); requests, button presses and SSE       *)
(* subscribers keep the device awake, and so does the user's override.     *)
(*                                                                         *)
(* Each function is an operator on the module's state, for Slots calls     *)
(* them in the middle of its own.  All of them are atomic: the counters    *)
(* are changed in critical sections, and the control task, which alone     *)
(* puts the radio to sleep, is not preempted.                              *)
(***************************************************************************)
EXTENDS Naturals

VARIABLE power

\* radio is the mode last set with esp_wifi_set_ps; idle says that the
\* timeout has passed since the last activity.
PowerState ==
    [subs : Nat, active : BOOLEAN, pending : BOOLEAN, disabled : BOOLEAN,
     idle : BOOLEAN, radio : {"awake", "asleep"}]

PowerInit ==
    \E b \in BOOLEAN :
        power = [subs |-> 0, active |-> TRUE, pending |-> FALSE, disabled |-> b,
                 idle |-> FALSE, radio |-> "awake"]

\* power_notify_activity
Activity(p) == [p EXCEPT !.idle = FALSE, !.pending = @ \/ ~p.active]

\* power_sse_client_connected
Connected(p) == Activity([p EXCEPT !.subs = @ + 1])

\* power_sse_client_disconnected
Disconnected(p) == [p EXCEPT !.subs = IF @ > 0 THEN @ - 1 ELSE 0]

\* power_set_save_disabled
Override(p, b) ==
    IF b THEN [p EXCEPT !.disabled = TRUE, !.active = TRUE, !.idle = FALSE, !.radio = "awake"]
    ELSE [p EXCEPT !.disabled = FALSE]

\* Mutant: subscribers are not asked.
Process_IgnoresSubscribers(p) ==
    IF p.disabled THEN p
    ELSE IF p.pending THEN [p EXCEPT !.pending = FALSE, !.active = TRUE, !.radio = "awake"]
    ELSE IF p.active /\ p.idle
    THEN [p EXCEPT !.active = FALSE, !.radio = "asleep"]
    ELSE p

\* power_process
Process(p) ==
    IF p.disabled THEN p
    ELSE IF p.pending THEN [p EXCEPT !.pending = FALSE, !.active = TRUE, !.radio = "awake"]
    ELSE IF p.active /\ p.subs = 0 /\ p.idle
    THEN [p EXCEPT !.active = FALSE, !.radio = "asleep"]
    ELSE p

=============================================================================
