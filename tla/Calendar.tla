------------------------------ MODULE Calendar ------------------------------
(***************************************************************************)
(* The date arithmetic of routines.c: when a routine fires next, when a    *)
(* window is open, and which routines may not be enabled together.         *)
(*                                                                         *)
(* Local time is a number of seconds; a day has DayMins minutes of MinLen  *)
(* seconds and a week Week days.  A date is the number of a day, which     *)
(* orders as YYYYMMDD does, 0 where the code has CIRC_DATE_NONE.  A change *)
(* to or from summer time is not modelled, nor a midnight that passes      *)
(* between two readings of the clock within one pass.                      *)
(***************************************************************************)
EXTENDS Integers

CONSTANTS MinLen, DayMins, Week,
          FwdDays,    \* ROUTINE_FWD_DAYS
          MaxLate     \* ROUTINE_FIRE_MAX_LATE_S

ASSUME CalendarAssumption ==
    /\ MinLen \in Nat \ {0} /\ DayMins \in Nat \ {0}
    /\ Week \in Nat \ {0} /\ FwdDays \in Nat \ {0} /\ MaxLate \in Nat

DayLen == MinLen * DayMins
Day(t) == t \div DayLen
Weekday(t) == Day(t) % Week
Minute(t) == (t % DayLen) \div MinLen
Clock(day, min) == day * DayLen + min * MinLen

Days == 0..(Week - 1)

\* start is hour and minute, the fire time of a schedule; from and until are
\* date_start and date_end; on and off the intervals in seconds.
Entry ==
    [type : {"schedule", "circulate"}, start : 0..(DayMins - 1), end : 0..DayMins,
     on : Nat, off : Nat, days : SUBSET Days, from : Nat, until : Nat,
     relayOn : BOOLEAN, enabled : BOOLEAN]

Free == [type |-> "free"]
InUse(e) == e # Free

-----------------------------------------------------------------------------
(* When a routine fires.                                                   *)

Never == -1

\* next_weekday_time: the first matching day, today included.
NextWeekdayTime(min, days, now) ==
    LET S == {t \in {Clock(Day(now) + d, min) : d \in 0..(FwdDays - 1)} :
                Weekday(t) \in days /\ t >= now}
    IN  IF S = {} THEN Never ELSE CHOOSE t \in S : \A u \in S : t <= u

InDates(e, day) == day \in e.from..e.until

DateMatches(e, now) ==
    e.from = 0 \/ (InDates(e, Day(now)) /\ (e.days = {} \/ Weekday(now) \in e.days))

DateExpired(e, now) == e.from # 0 /\ Day(now) > e.until

\* Mutant: the window includes the minute it ends in.
InWindow_Closed(e, now) ==
    /\ DateMatches(e, now)
    /\ e.from = 0 => e.days = {} \/ Weekday(now) \in e.days
    /\ Minute(now) \in e.start..e.end

\* circulate_in_window_for_entry
InWindow(e, now) ==
    /\ DateMatches(e, now)
    /\ e.from = 0 => e.days = {} \/ Weekday(now) \in e.days
    /\ Minute(now) \in e.start..(e.end - 1)

WindowEnd(e, now) == Clock(Day(now), e.end)

\* The start of the next window of an entry restricted to dates.
DatedStart(e, now) ==
    IF e.days # {}
    THEN LET t == NextWeekdayTime(e.start, e.days, now)
         IN  IF t # Never /\ InDates(e, Day(t)) THEN t ELSE Never
    ELSE IF InDates(e, Day(now)) /\ Minute(now) < e.start THEN Clock(Day(now), e.start)
    ELSE IF Day(now) < e.until /\ InDates(e, Day(now) + 1) THEN Clock(Day(now) + 1, e.start)
    ELSE Never

NextToggle(e, now, last, phase) ==
    LET toggle == last + (IF phase THEN e.on ELSE e.off)
    IN  IF last = 0 THEN now
        ELSE IF toggle < WindowEnd(e, now) THEN toggle ELSE WindowEnd(e, now)

\* slot_next_fire
NextFire(e, now, last, phase) ==
    IF ~InUse(e) \/ ~e.enabled THEN Never
    ELSE IF e.type = "schedule" THEN NextWeekdayTime(e.start, e.days, now)
    ELSE IF DateExpired(e, now) THEN Never
    ELSE IF InWindow(e, now) THEN NextToggle(e, now, last, phase)
    ELSE IF e.from # 0 THEN DatedStart(e, now)
    ELSE NextWeekdayTime(e.start, e.days, now)

\* The test at the head of fire_due's loop.
Due(e, now, last, phase) ==
    LET t == NextFire(e, now, last, phase)
    IN  /\ InUse(e)
        /\ t >= 0 /\ t <= now
        /\ e.type = "schedule" => now - t <= MaxLate

-----------------------------------------------------------------------------
(* Which routines exclude each other.                                      *)

SameDates(a, b) == a.from = b.from /\ a.until = b.until
DaysMeet(a, b) == a.days = {} \/ b.days = {} \/ a.days \cap b.days # {}

Rival(a, b, type) ==
    InUse(b) /\ b.type = type /\ a.enabled /\ b.enabled /\ SameDates(a, b) /\ DaysMeet(a, b)

Overlap(a, b) == a.start < b.end /\ b.start < a.end
Within(min, c) == min >= c.start /\ min < c.end

\* circulate_overlaps
CirculateOverlaps(e, others) ==
    \E o \in others : Rival(e, o, "circulate") /\ Overlap(e, o)

\* schedule_conflicts
ScheduleConflicts(e, others) ==
    \E o \in others : \/ Rival(e, o, "circulate") /\ Within(e.start, o)
                      \/ Rival(e, o, "schedule") /\ e.start = o.start

\* Mutant: a circulate is compared with circulates alone.
CirculateScheduleConflict_None(e, others) == FALSE

\* circulate_schedule_conflict
CirculateScheduleConflict(e, others) ==
    \E o \in others : Rival(e, o, "schedule") /\ Within(o.start, e)

\* What an accepted routine looks like: a circulate has two intervals, a window
\* that is not empty and dates in their order.
Sound(e) ==
    e.type = "circulate" => /\ e.on # 0 /\ e.off # 0 /\ e.start < e.end
                            /\ e.from # 0 => e.from <= e.until

Apart(e, others) ==
    IF e.type = "circulate"
    THEN ~CirculateOverlaps(e, others) /\ ~CirculateScheduleConflict(e, others)
    ELSE ~ScheduleConflicts(e, others)

\* Mutant: the intervals are not looked at.
Valid_AnyDuty(e, others) ==
    /\ e.type = "circulate" => e.start < e.end /\ (e.from # 0 => e.from <= e.until)
    /\ Apart(e, others)

\* The validation routine_create and routine_update share.
Valid(e, others) == Sound(e) /\ Apart(e, others)

\* routine_create alone: some day of a circulate's range matches the mask.
SomeDayMatches(e) ==
    e.type = "circulate" /\ e.from # 0 /\ e.days # {} => \E d \in e.from..e.until : d % Week \in e.days

-----------------------------------------------------------------------------
(* What a routine promises, said without the code's case analysis.         *)

OnDay(e, t) == Weekday(t) \in e.days
OnDate(e, t) == e.from = 0 \/ InDates(e, Day(t))

\* The minutes in which an enabled routine determines the relay.
Wants(e, t) ==
    /\ InUse(e) /\ e.enabled
    /\ IF e.type = "schedule" THEN OnDay(e, t) /\ Minute(t) = e.start
       ELSE /\ OnDate(e, t) /\ (e.days = {} \/ OnDay(e, t))
            /\ Within(Minute(t), e)

IntervalOver(e, t, last, phase) == last = 0 \/ t - last >= (IF phase THEN e.on ELSE e.off)

\* The instants for which it is set, at which it must act if the control task
\* looks: a schedule at the first second of its minute, a circulate at once and
\* then at the end of each interval.
ActsAt(e, t, last, phase) ==
    /\ Wants(e, t)
    /\ IF e.type = "schedule" THEN t % MinLen = 0 ELSE IntervalOver(e, t, last, phase)

\* When it may act, by routines.h and the comments of fire_due: a schedule until
\* MaxLate seconds after its instant; a circulate also when its window is over
\* and a toggle of it is remembered, which the off toggle at its end clears.
Owed(e, t, last, phase) ==
    /\ InUse(e) /\ e.enabled
    /\ IF e.type = "schedule"
       THEN \E s \in 0..t : t - s <= MaxLate /\ ActsAt(e, s, last, phase)
       ELSE IF Wants(e, t) THEN IntervalOver(e, t, last, phase) ELSE last # 0
=============================================================================
