------------------------------- MODULE Panel -------------------------------
(***************************************************************************)
(* The front panel, board.c: the LED with its two modes, and the button    *)
(* that toggles the relay and restarts provisioning.                       *)
(*                                                                         *)
(* In normal mode the LED shows what the user's bitmask selects            *)
(* (led_update, on the control task's tick and after relay_set); a pattern *)
(* of connection.c overrides it (led_apply, from the event task and from   *)
(* the esp_timer task) and blinks on a timer (led_timer_cb, on the         *)
(* esp_timer task).  None of this takes a lock.  The event task outranks   *)
(* every other, so that what it does is one step, in between any two of    *)
(* theirs.                                                                 *)
(*                                                                         *)
(* Callbacks of the blink timer that only count are left out, and so is    *)
(* led_update on the HTTP task, which the control task repeats.  What      *)
(* selects the LED is the relay or not, according to the mode.             *)
(***************************************************************************)
EXTENDS Button, Tasks

CONSTANTS
    OkCount,      \* LED_BLINK_OK_COUNT
    Patterns      \* patterns connection.c sets

Endless == Patterns \ {"ok"}

ASSUME PanelAssumption ==
    OkCount \in Nat \ {0} /\ {"ok", "fast"} \subseteq Patterns /\ "none" \notin Patterns

VARIABLES
    override,   \* s_override
    active,     \* s_active_pattern, "none" for LED_OFF
    blinking,   \* s_led_timer runs
    repeats,    \* s_blink_phase
    lit,        \* the pin
    relay,      \* s_relay_active
    byRelay,    \* LED_MODE_RELAY is in s_led_mode
    pc,         \* where the control task and the esp_timer task are
    arg,        \* what each is about to write or to show
    raced       \* history: a pattern was set while the esp_timer task was between
                \* two writes of its own to the LED's variables

ledVars == <<override, active, blinking, repeats, lit>>
shown == <<relay, byRelay>>
vars == <<btnVars, ledVars, shown, pc, arg, raced>>

At(t, label) == pc[t] = label /\ CanRun(t, {Httpd} \cup {u \in {Ctrl, Timer} : pc[u] = "idle"})
Goto(t, label) == pc' = [pc EXCEPT ![t] = label]

\* led_eval
Eval == byRelay /\ relay

-----------------------------------------------------------------------------
(* led_update, on either task.                                             *)

\* Mutant: the test is for a pattern that was set, not one that is shown.
Look_ByPattern(t) ==
    /\ At(t, "look")
    /\ arg' = [arg EXCEPT ![t] = Eval]
    /\ Goto(t, IF active # "none" THEN "idle" ELSE "show")
    /\ UNCHANGED <<btnVars, ledVars, shown, raced>>

Look(t) ==
    /\ At(t, "look")
    /\ arg' = [arg EXCEPT ![t] = Eval]
    /\ Goto(t, IF override THEN "idle" ELSE "show")
    /\ UNCHANGED <<btnVars, ledVars, shown, raced>>

Show(t) ==
    /\ At(t, "show")
    /\ lit' = arg[t]
    /\ Goto(t, "idle")
    /\ UNCHANGED <<btnVars, override, active, blinking, repeats, shown, arg, raced>>

\* The control task's tick.
Wake ==
    /\ At(Ctrl, "idle")
    /\ Goto(Ctrl, "look")
    /\ UNCHANGED <<btnVars, ledVars, shown, arg, raced>>

-----------------------------------------------------------------------------
(* led_apply.                                                              *)

Repeats(pat) == IF pat = "ok" THEN OkCount ELSE 0

\* A pattern that is set already is left alone, whether it is shown or not.
Ignored(pat) == pat = active /\ pat # "ok"

\* On the event task.
Pattern(pat) ==
    /\ ~Ignored(pat)
    /\ active' = pat /\ override' = TRUE
    /\ repeats' = Repeats(pat) /\ lit' = TRUE /\ blinking' = TRUE
    /\ raced' = (raced \/ pc[Timer] \in {"start", "release", "stop"})
    /\ UNCHANGED <<btnVars, shown, pc, arg>>

\* On the esp_timer task, up to led_hw_off ...
Claim(pat) ==
    /\ ~Ignored(pat)
    /\ active' = pat /\ blinking' = FALSE /\ lit' = FALSE
    /\ UNCHANGED <<override, repeats, shown, arg, raced>>
    /\ Goto(Timer, "start")

\* ... and led_blink_start.
StartBlink ==
    /\ At(Timer, "start")
    /\ override' = TRUE
    /\ repeats' = Repeats(active) /\ lit' = TRUE /\ blinking' = TRUE
    /\ Goto(Timer, "idle")
    /\ UNCHANGED <<btnVars, active, shown, arg, raced>>

\* One of connection.c's own timers sets a pattern.
TimerPattern(pat) ==
    /\ At(Timer, "idle") /\ event = "none"
    /\ Claim(pat)
    /\ UNCHANGED btnVars

-----------------------------------------------------------------------------
(* led_timer_cb.                                                           *)

BlinkOff ==
    /\ At(Timer, "idle") /\ event = "none" /\ blinking /\ lit
    /\ lit' = FALSE
    /\ UNCHANGED <<btnVars, override, active, blinking, repeats, shown, pc, arg, raced>>

BlinkOn ==
    /\ At(Timer, "idle") /\ event = "none" /\ blinking /\ ~lit
    /\ lit' = TRUE
    /\ repeats' = IF repeats > 0 THEN repeats - 1 ELSE 0
    /\ Goto(Timer, IF repeats = 1 THEN "release" ELSE "idle")
    /\ UNCHANGED <<btnVars, override, active, blinking, shown, arg, raced>>

\* The last repetition: the LED is the user's again, the timer stops.
Release ==
    /\ At(Timer, "release")
    /\ override' = FALSE
    /\ Goto(Timer, "stop")
    /\ UNCHANGED <<btnVars, active, blinking, repeats, lit, shown, arg, raced>>

\* Mutant: the timer runs on.
Stop_Not ==
    /\ At(Timer, "stop")
    /\ Goto(Timer, "look")
    /\ UNCHANGED <<btnVars, ledVars, shown, arg, raced>>

Stop ==
    /\ At(Timer, "stop")
    /\ blinking' = FALSE
    /\ Goto(Timer, "look")
    /\ UNCHANGED <<btnVars, override, active, repeats, lit, shown, arg, raced>>

-----------------------------------------------------------------------------
(* The button.                                                             *)

Poll(d) ==
    /\ At(Timer, "idle")
    /\ Sample(d)
    /\ UNCHANGED <<ledVars, shown, pc, arg, raced>>

\* relay_toggle: relay_get, then relay_set with its led_update.
ShortPress ==
    /\ At(Timer, "idle") /\ event = "short"
    /\ Handled
    /\ arg' = [arg EXCEPT ![Timer] = ~relay]
    /\ Goto(Timer, "toggle")
    /\ UNCHANGED <<ledVars, shown, raced>>

Toggle ==
    /\ At(Timer, "toggle")
    /\ relay' = arg[Timer]
    /\ Goto(Timer, "look")
    /\ UNCHANGED <<btnVars, ledVars, byRelay, arg, raced>>

\* wifi_reconnect, of which sc_start's pattern is seen here.
LongPressed ==
    /\ At(Timer, "idle") /\ event = "long"
    /\ Handled
    /\ IF Ignored("fast") THEN UNCHANGED <<ledVars, shown, pc, arg, raced>> ELSE Claim("fast")

Bounce == Contact /\ UNCHANGED <<ledVars, shown, pc, arg, raced>>

\* A client sets the relay or the mode.
SetRelay(on) ==
    /\ At(Httpd, "idle") /\ relay' = on
    /\ UNCHANGED <<btnVars, ledVars, byRelay, pc, arg, raced>>

SetMode(m) ==
    /\ At(Httpd, "idle") /\ byRelay' = m
    /\ UNCHANGED <<btnVars, ledVars, relay, pc, arg, raced>>

Init ==
    /\ ButtonInit
    /\ override = FALSE /\ active = "none" /\ blinking = FALSE /\ repeats = 0 /\ lit = FALSE
    /\ relay \in BOOLEAN /\ byRelay \in BOOLEAN
    /\ pc = [t \in Task |-> "idle"] /\ arg = [t \in Task |-> FALSE]
    /\ raced = FALSE

Ticking == Wake \/ Look(Ctrl) \/ Show(Ctrl)

Callback ==
    \/ BlinkOff \/ BlinkOn \/ Release \/ Stop \/ StartBlink \/ ShortPress \/ Toggle \/ LongPressed
    \/ Look(Timer) \/ Show(Timer)

Next ==
    \/ Ticking \/ Callback \/ Bounce \/ \E d \in 1..MaxGap : Poll(d)
    \/ \E pat \in Patterns : Pattern(pat) \/ TimerPattern(pat)
    \/ \E b \in BOOLEAN : SetRelay(b) \/ SetMode(b)

\* The control task ticks; it sleeps between ticks, and the timers run then.
Fairness == WF_vars(Ticking) /\ SF_vars(Callback)

Spec == Init /\ [][Next]_vars /\ Fairness

-----------------------------------------------------------------------------
(* Properties.                                                             *)

\* Every variable has its type (board.c:41-72).
TypeOK ==
    /\ ButtonTypeOK
    /\ override \in BOOLEAN /\ active \in Patterns \cup {"none"} /\ blinking \in BOOLEAN
    /\ repeats \in 0..OkCount /\ lit \in BOOLEAN
    /\ relay \in BOOLEAN /\ byRelay \in BOOLEAN /\ raced \in BOOLEAN
    /\ pc \in [Task -> {"idle", "look", "show", "start", "release", "stop", "toggle"}]
    /\ pc[Ctrl] \in {"idle", "look", "show"} /\ pc[Httpd] = "idle"
    /\ arg \in [Task -> BOOLEAN]

\* A pattern stays until it is over or another takes its place: an endless one
\* blinks, the one for success blinks while repetitions are left, and without
\* a pattern the timer rests (board.c:129-185).  The only way to lose one is to
\* set it while the esp_timer task is at work on another.
PatternShown ==
    ~raced /\ pc[Timer] \notin {"start", "release", "stop"} =>
        /\ override <=> blinking
        /\ blinking <=> active \in Endless \/ (active = "ok" /\ repeats > 0)

\* While no pattern is set the LED comes to show what the user selected, and
\* goes on to, even after a pattern was lost (board.c:121-127).
LedFollows == \A b \in BOOLEAN : <>[](~override /\ Eval = b) => <>[](lit = b)

\* What LedFollows rests on: while no pattern overrides it, the pin changes only
\* when led_update writes what it evaluated, or when a pattern begins; no
\* callback of the blink timer writes over it (board.c:121-163) ...
LedIsTheUsers ==
    [][lit' # lit /\ ~override /\ ~override' =>
          \/ \E t \in {Ctrl, Timer} : pc[t] = "show" /\ lit' = arg[t]
          \/ pc'[Timer] = "start"]_vars

\* ... since the timer runs on without a pattern only until the callback that
\* released the LED has stopped it.
StopComing == blinking /\ ~override => pc[Timer] = "stop"
=============================================================================
