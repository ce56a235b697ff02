------------------------------- MODULE Button -------------------------------
(***************************************************************************)
(* board.c, btn_timer_cb: the sampler of the button, every 10 ms on the    *)
(* esp_timer task.  The counters bridge bounces: samples the other way     *)
(* abandon a change only when BTN_DEBOUNCE_SAMPLES of them come in a row.  *)
(*                                                                         *)
(* Time is counted in samples; a callback may be late by less than MaxGap  *)
(* of them.  "event" is what handle_button_event is being called with;     *)
(* Panel says what it does.                                                *)
(***************************************************************************)
EXTENDS Naturals

CONSTANTS
    Debounce,     \* BTN_DEBOUNCE_SAMPLES
    LongPress,    \* BTN_LONG_PRESS_MS, in samples
    MaxGap

ASSUME ButtonAssumption ==
    Debounce \in Nat \ {0, 1} /\ LongPress \in Nat \ {0} /\ MaxGap \in Nat \ {0}

VARIABLES
    btn,        \* s_btn_state
    samples,    \* s_btn_samples
    inverse,    \* s_btn_inv_samples
    held,       \* now - s_btn_press_time, at most LongPress
    long,       \* s_btn_long_triggered
    level,      \* the pin, TRUE while pressed
    event,      \* the event under way, "none" otherwise
    against     \* history: samples against the debounced state since it changed,
                \* at most Debounce

btnVars == <<btn, samples, inverse, held, long, level, event, against>>

Age(d) == IF held + d > LongPress THEN LongPress ELSE held + d

Down == btn \in {"pressed", "releasing"}

Counted == IF level = Down THEN against
           ELSE IF against < Debounce THEN against + 1 ELSE Debounce

Idle ==
    /\ btn = "idle" /\ event' = "none"
    /\ IF level THEN btn' = "pressing" /\ samples' = 1 ELSE UNCHANGED <<btn, samples>>
    /\ against' = Counted
    /\ UNCHANGED <<inverse, held, long>>

Pressing ==
    /\ btn = "pressing" /\ event' = "none"
    /\ IF level
       THEN IF samples + 1 >= Debounce
            THEN /\ btn' = "pressed" /\ held' = 0 /\ long' = FALSE
                 /\ samples' = 0 /\ inverse' = 0 /\ against' = 0
            ELSE /\ samples' = samples + 1 /\ inverse' = 0 /\ against' = Counted
                 /\ UNCHANGED <<btn, held, long>>
       ELSE IF inverse + 1 >= Debounce
            THEN /\ btn' = "idle" /\ samples' = 0 /\ inverse' = 0 /\ against' = Counted
                 /\ UNCHANGED <<held, long>>
            ELSE /\ inverse' = inverse + 1 /\ against' = Counted
                 /\ UNCHANGED <<btn, samples, held, long>>

\* Mutant: the long press is reported as long as the button is held.
Pressed_Repeats(d) ==
    /\ btn = "pressed"
    /\ held' = Age(d)
    /\ against' = Counted
    /\ IF ~level
       THEN inverse' = 1 /\ btn' = "releasing" /\ event' = "none" /\ UNCHANGED <<samples, long>>
       ELSE /\ long' = (long \/ Age(d) >= LongPress)
            /\ event' = IF Age(d) >= LongPress THEN "long" ELSE "none"
            /\ UNCHANGED <<btn, samples, inverse>>

Pressed(d) ==
    /\ btn = "pressed"
    /\ held' = Age(d)
    /\ against' = Counted
    /\ IF ~level
       THEN inverse' = 1 /\ btn' = "releasing" /\ event' = "none" /\ UNCHANGED <<samples, long>>
       ELSE /\ long' = (long \/ Age(d) >= LongPress)
            /\ event' = IF ~long /\ Age(d) >= LongPress THEN "long" ELSE "none"
            /\ UNCHANGED <<btn, samples, inverse>>

Releasing(d) ==
    /\ btn = "releasing"
    /\ held' = Age(d)
    /\ IF level
       THEN /\ event' = "none" /\ against' = Counted /\ UNCHANGED long
            /\ IF inverse + 1 >= Debounce
               THEN btn' = "pressed" /\ samples' = 0 /\ inverse' = 0
               ELSE inverse' = inverse + 1 /\ UNCHANGED <<btn, samples>>
       ELSE /\ inverse' = 0 /\ UNCHANGED long
            /\ IF samples + 1 >= Debounce
               THEN /\ event' = IF long THEN "none" ELSE "short"
                    /\ btn' = "idle" /\ samples' = 0 /\ against' = 0
               ELSE /\ samples' = samples + 1 /\ event' = "none" /\ against' = Counted
                    /\ UNCHANGED btn

\* btn_timer_cb reads the level the pin has, d samples after it last did.
Sample(d) ==
    /\ event = "none"
    /\ Idle \/ Pressing \/ Pressed(d) \/ Releasing(d)
    /\ UNCHANGED level

\* handle_button_event returns.
Handled == event' = "none" /\ UNCHANGED <<btn, samples, inverse, held, long, level, against>>

\* The contacts close, open or bounce.
Contact == level' = ~level /\ UNCHANGED <<btn, samples, inverse, held, long, event, against>>

ButtonInit ==
    /\ btn = "idle" /\ samples = 0 /\ inverse = 0
    /\ held = 0 /\ long = FALSE
    /\ level \in BOOLEAN /\ event = "none" /\ against = 0

ButtonNext == Contact \/ (event # "none" /\ Handled) \/ \E d \in 1..MaxGap : Sample(d)

ButtonSpec == ButtonInit /\ [][ButtonNext]_btnVars

ButtonTypeOK ==
    /\ btn \in {"idle", "pressing", "pressed", "releasing"}
    /\ samples \in 0..(Debounce - 1) /\ inverse \in 0..(Debounce - 1)
    /\ held \in 0..LongPress /\ long \in BOOLEAN
    /\ level \in BOOLEAN /\ event \in {"none", "short", "long"}
    /\ against \in 0..Debounce

\* The machine as an abstract button: presses bridge bounces, and each is
\* reported once, as what it was, whatever the contacts do (board.c:386-453).
Debounced == INSTANCE Press WITH Needed <- Debounce, down <- Down
Debounces == Debounced!Spec
=============================================================================
