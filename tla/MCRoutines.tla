----------------------------- MODULE MCRoutines -----------------------------
(* Instances of Routines for TLC: days of three minutes of two seconds, weeks *)
(* of two days; the clock starts at the first second of a day 1.                *)
EXTENDS Routines

Schedule(min, days) ==
    [type |-> "schedule", start |-> min, end |-> 0, on |-> 0, off |-> 0, days |-> days,
     from |-> 0, until |-> 0, relayOn |-> TRUE, enabled |-> TRUE]
Circulate(s, e, days, from, until) ==
    [type |-> "circulate", start |-> s, end |-> e, on |-> 1, off |-> 2, days |-> days,
     from |-> from, until |-> until, relayOn |-> FALSE, enabled |-> TRUE]
Off(e) == [e EXCEPT !.enabled = FALSE]

\* A schedule inside a circulate's window, and one at its end.
Inside == Schedule(1, {1})
AtEnd  == Schedule(2, {0, 1})
Window == Circulate(0, 2, {}, 0, 0)
Dated  == Circulate(1, 3, {1}, 1, 1)

NoPause == [Window EXCEPT !.off = 0]

Mixed == {NoPause, Inside, AtEnd, Window, Dated, Off(Inside), Off(Window)}
Empty == {[i \in Slot |-> Free]}
=============================================================================
