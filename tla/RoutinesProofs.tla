--------------------------- MODULE RoutinesProofs ---------------------------
(***************************************************************************)
(* Theorems about Routines, for any number of slots, lengths of day and    *)
(* week, look-ahead, clock and corrections of it, and any candidates that  *)
(* clients send.                                                           *)
(*                                                                         *)
(* The first part is about Calendar: the division of an instant into day,  *)
(* minute and second, and with it that the code's search for the next      *)
(* firing finds the present at the very instants the routine is set for,   *)
(* and at no other: not in the grace that routines.h promises a schedule,  *)
(* and not at the end of a circulate's window.                             *)
(* The second carries it to the slots, the handlers and the control task.  *)
(***************************************************************************)
EXTENDS Routines, WellFoundedInduction, TLAPS

-----------------------------------------------------------------------------
(* Division.                                                               *)

LEMMA Multiples ==
    ASSUME NEW a \in Nat, NEW b \in Nat, NEW k \in Nat, a < b
    PROVE  a * k + k <= b * k
<1>1. (a + 1) * k <= b * k
  OBVIOUS
<1>2. (a + 1) * k = a * k + k
  OBVIOUS
<1> QED BY <1>1, <1>2

LEMMA Division ==
    ASSUME NEW q \in Int, NEW n \in Nat \ {0}, NEW r \in 0..(n - 1)
    PROVE  (q * n + r) \div n = q /\ (q * n + r) % n = r
OBVIOUS

LEMMA Quotient ==
    ASSUME NEW t \in Nat, NEW n \in Nat \ {0}
    PROVE  /\ t \div n \in Nat /\ t % n \in 0..(n - 1)
           /\ t = (t \div n) * n + (t % n)
OBVIOUS

-----------------------------------------------------------------------------
(* Instants, days and minutes.                                             *)

LEMMA DayLength == DayLen \in Nat \ {0} /\ DayLen = DayMins * MinLen
BY CalendarAssumption DEF DayLen

LEMMA Parts ==
    ASSUME NEW t \in Nat
    PROVE  /\ Day(t) \in Nat /\ Minute(t) \in 0..(DayMins - 1)
           /\ t = Clock(Day(t), Minute(t)) + (t % MinLen)
           /\ t % MinLen \in 0..(MinLen - 1)
<1>1. /\ Day(t) \in Nat /\ t % DayLen \in 0..(DayLen - 1)
      /\ t = Day(t) * DayLen + (t % DayLen)
  BY DayLength, Quotient DEF Day
<1>2. /\ Minute(t) \in Nat /\ (t % DayLen) % MinLen \in 0..(MinLen - 1)
      /\ t % DayLen = Minute(t) * MinLen + ((t % DayLen) % MinLen)
  <2> DEFINE r == t % DayLen
  <2>1. r \in Nat
    BY <1>1, DayLength
  <2> HIDE DEF r
  <2>2. r \div MinLen \in Nat /\ r % MinLen \in 0..(MinLen - 1) /\ r = (r \div MinLen) * MinLen + (r % MinLen)
    BY <2>1, CalendarAssumption, Quotient
  <2> QED BY <2>2 DEF r, Minute
<1>3. Minute(t) < DayMins
  <2>1. Minute(t) * MinLen < DayMins * MinLen
    BY <1>1, <1>2, DayLength, CalendarAssumption
  <2>2. CASE Minute(t) >= DayMins
    <3>1. Minute(t) * MinLen >= DayMins * MinLen
      BY <1>2, <2>2, CalendarAssumption, Z3
    <3> QED BY <2>1, <3>1, <1>2, CalendarAssumption
  <2> QED BY <2>2, <1>2, CalendarAssumption
<1>4. t = Clock(Day(t), Minute(t)) + ((t % DayLen) % MinLen)
  BY <1>1, <1>2, DayLength, CalendarAssumption DEF Clock
<1>5. t % MinLen = (t % DayLen) % MinLen
  <2> DEFINE q == Day(t) * DayMins + Minute(t)
             r == (t % DayLen) % MinLen
  <2>1. q \in Int /\ r \in 0..(MinLen - 1)
    BY <1>1, <1>2, CalendarAssumption
  <2>2. t = q * MinLen + r
    BY <1>1, <1>2, <1>4, DayLength, CalendarAssumption DEF Clock
  <2> HIDE DEF q, r
  <2>3. (q * MinLen + r) % MinLen = r
    BY <2>1, CalendarAssumption, Division
  <2> QED BY <2>2, <2>3 DEF r
<1> QED BY <1>1, <1>2, <1>3, <1>4, <1>5, CalendarAssumption

LEMMA ClockParts ==
    ASSUME NEW d \in Nat, NEW m \in 0..(DayMins - 1)
    PROVE  /\ Clock(d, m) \in Nat
           /\ Day(Clock(d, m)) = d /\ Minute(Clock(d, m)) = m
           /\ Clock(d, m) % MinLen = 0
<1>1. m * MinLen \in 0..(DayLen - 1) /\ m \in Nat
  <2>1. m * MinLen + MinLen <= DayMins * MinLen
    BY CalendarAssumption, Multiples
  <2>2. m * MinLen \in Nat /\ m \in Nat
    BY CalendarAssumption
  <2> QED BY <2>1, <2>2, CalendarAssumption, DayLength
<1>2. Day(Clock(d, m)) = d /\ Clock(d, m) % DayLen = m * MinLen /\ Clock(d, m) \in Nat
  <2> DEFINE r == m * MinLen
  <2> HIDE DEF r
  <2>1. (d * DayLen + r) \div DayLen = d /\ (d * DayLen + r) % DayLen = r
    BY <1>1, DayLength, Division DEF r
  <2>2. d * DayLen + r \in Nat
    BY <1>1, DayLength DEF r
  <2> QED BY <2>1, <2>2 DEF Day, Clock, r
<1>3. Minute(Clock(d, m)) = m
  <2>1. 0 \in 0..(MinLen - 1) /\ m * MinLen + 0 = m * MinLen
    BY <1>1, CalendarAssumption
  <2>2. (m * MinLen + 0) \div MinLen = m
    BY <2>1, <1>1, CalendarAssumption, Division
  <2> QED BY <1>2, <2>1, <2>2 DEF Minute
<1>4. Clock(d, m) % MinLen = 0
  <2>1. Clock(d, m) = (d * DayMins + m) * MinLen + 0 /\ d * DayMins + m \in Nat
    BY <1>1, CalendarAssumption, DayLength DEF Clock
  <2>2. ((d * DayMins + m) * MinLen + 0) % MinLen = 0
    <3> DEFINE q == d * DayMins + m
    <3> HIDE DEF q
    <3>1. q \in Int /\ 0 \in 0..(MinLen - 1)
      BY <2>1, CalendarAssumption DEF q
    <3>2. (q * MinLen + 0) % MinLen = 0
      BY <3>1, CalendarAssumption, Division
    <3> QED BY <3>2 DEF q
  <2> QED BY <2>1, <2>2
<1> QED BY <1>2, <1>3, <1>4

\* The minimum that NextWeekdayTime chooses exists.
LEMMA Smallest ==
    ASSUME NEW S \in SUBSET Nat, S # {}
    PROVE  \E t \in S : \A u \in S : t <= u
<1>1. \E x \in S : \A y \in S : ~(<<y, x>> \in OpToRel(<, Nat))
  BY NatLessThanWellFounded, WFMin, Zenon
<1>2. \A x, y \in S : ~(<<y, x>> \in OpToRel(<, Nat)) => x <= y
  BY DEF OpToRel
<1> QED BY <1>1, <1>2

LEMMA MinuteOrder ==
    ASSUME NEW t \in Nat, NEW m \in 0..DayMins
    PROVE  /\ Clock(Day(t), m) \in Nat
           /\ Clock(Day(t), m) <= t <=> m <= Minute(t)
<1> DEFINE a == Minute(t)
           s == t % MinLen
           b == Day(t) * DayLen
<1>1. a \in Nat /\ s \in 0..(MinLen - 1) /\ b \in Nat /\ m \in Nat /\ m * MinLen \in Nat
  <2>1. Day(t) \in Nat /\ a \in Nat /\ s \in 0..(MinLen - 1)
    BY Parts, CalendarAssumption
  <2>2. m \in Nat
    BY CalendarAssumption
  <2> HIDE DEF a, s
  <2>3. b \in Nat
    BY <2>1, DayLength
  <2>4. m * MinLen \in Nat
    BY <2>2, CalendarAssumption
  <2> QED BY <2>1, <2>2, <2>3, <2>4
<1>2. t = b + a * MinLen + s
  BY Parts DEF Clock
<1> HIDE DEF a, s, b
<1>3. CASE a < m
  <2>1. a * MinLen + MinLen <= m * MinLen
    BY <1>1, <1>3, CalendarAssumption, Multiples
  <2> QED BY <2>1, <1>1, <1>2, <1>3, CalendarAssumption DEF Clock, a, b
<1>4. CASE m <= a
  <2>1. m * MinLen <= a * MinLen
    BY <1>1, <1>4, CalendarAssumption
  <2> QED BY <2>1, <1>1, <1>2, <1>4, CalendarAssumption DEF Clock, a, b
<1> QED BY <1>1, <1>3, <1>4

LEMMA Tomorrow ==
    ASSUME NEW t \in Nat, NEW m \in 0..(DayMins - 1)
    PROVE  Clock(Day(t) + 1, m) \in Nat /\ t < Clock(Day(t) + 1, m)
<1>1. Day(t) \in Nat /\ Clock(Day(t), DayMins) > t /\ Clock(Day(t), DayMins) \in Nat
  <2>1. Day(t) \in Nat /\ Minute(t) \in 0..(DayMins - 1)
    BY Parts
  <2>2. DayMins \in 0..DayMins
    BY CalendarAssumption
  <2>3. Clock(Day(t), DayMins) \in Nat /\ (Clock(Day(t), DayMins) <= t <=> DayMins <= Minute(t))
    BY <2>2, MinuteOrder
  <2> QED BY <2>1, <2>3, CalendarAssumption
<1>2. Clock(Day(t) + 1, m) = Clock(Day(t), DayMins) + m * MinLen
  BY <1>1, DayLength, CalendarAssumption DEF Clock
<1> QED BY <1>1, <1>2, CalendarAssumption

-----------------------------------------------------------------------------
(* The search for the next firing.                                         *)

LEMMA NextWeekday ==
    ASSUME NEW m \in 0..(DayMins - 1), NEW days, NEW t \in Nat
    PROVE  LET u == NextWeekdayTime(m, days, t)
           IN  /\ \/ u = Never
                  \/ /\ u \in Nat /\ u >= t
                     /\ Weekday(u) \in days /\ Minute(u) = m /\ u % MinLen = 0
               /\ Weekday(t) \in days /\ Minute(t) = m /\ t % MinLen = 0 => u = t
<1> DEFINE S == {u \in {Clock(Day(t) + d, m) : d \in 0..(FwdDays - 1)} :
                   Weekday(u) \in days /\ u >= t}
<1>1. \A u \in S : /\ u \in Nat /\ u >= t
                   /\ Weekday(u) \in days /\ Minute(u) = m /\ u % MinLen = 0
  <2>1. ASSUME NEW d \in 0..(FwdDays - 1)
        PROVE  /\ Clock(Day(t) + d, m) \in Nat
               /\ Minute(Clock(Day(t) + d, m)) = m /\ Clock(Day(t) + d, m) % MinLen = 0
    <3>1. Day(t) + d \in Nat
      BY Parts, CalendarAssumption
    <3> QED BY <3>1, ClockParts
  <2> QED BY <2>1
<1>2. Weekday(t) \in days /\ Minute(t) = m /\ t % MinLen = 0 => t \in S
  <2>1. SUFFICES ASSUME Weekday(t) \in days, Minute(t) = m, t % MinLen = 0
                 PROVE  t \in S
    OBVIOUS
  <2>2. t = Clock(Day(t) + 0, m) /\ 0 \in 0..(FwdDays - 1)
    <3>1. Day(t) \in Nat /\ t = Clock(Day(t), m) + 0
      BY <2>1, Parts
    <3>2. Clock(Day(t), m) \in Nat /\ Day(t) + 0 = Day(t)
      BY <3>1, ClockParts
    <3> QED BY <3>1, <3>2, CalendarAssumption
  <2> QED BY <2>1, <2>2
<1> HIDE DEF S
<1>3. S # {} => /\ NextWeekdayTime(m, days, t) \in S
                /\ \A u \in S : NextWeekdayTime(m, days, t) <= u
  <2>1. S # {} => \E u \in S : \A v \in S : u <= v
    BY <1>1, Smallest
  <2> QED BY <2>1 DEF NextWeekdayTime, S
<1>4. S = {} => NextWeekdayTime(m, days, t) = Never
  BY DEF NextWeekdayTime, S
<1>5. t \in S => NextWeekdayTime(m, days, t) = t
  <2>1. SUFFICES ASSUME t \in S
                 PROVE  NextWeekdayTime(m, days, t) = t
    OBVIOUS
  <2>2. NextWeekdayTime(m, days, t) \in S /\ NextWeekdayTime(m, days, t) <= t
    BY <1>3, <2>1
  <2>3. NextWeekdayTime(m, days, t) \in Nat /\ NextWeekdayTime(m, days, t) >= t
    BY <1>1, <2>2
  <2> QED BY <2>2, <2>3
<1> QED BY <1>1, <1>2, <1>3, <1>4, <1>5

LEMMA WindowMeaning ==
    ASSUME NEW e \in Entry, e.type = "circulate", e.enabled, NEW t \in Nat
    PROVE  /\ InWindow(e, t) <=> Wants(e, t)
           /\ DateExpired(e, t) => ~InWindow(e, t)
           /\ InWindow(e, t) => WindowEnd(e, t) \in Nat /\ t < WindowEnd(e, t)
<1>1. /\ Minute(t) \in Int /\ Day(t) \in Int
      /\ e.start \in Int /\ e.end \in 0..DayMins /\ e.from \in Nat /\ e.until \in Nat
  BY Parts, CalendarAssumption DEF Entry
<1>2. InUse(e)
  BY DEF InUse, Free, Entry
<1>3. InWindow(e, t) <=> Wants(e, t)
  <2>1. Minute(t) \in e.start..(e.end - 1) <=> Within(Minute(t), e)
    BY <1>1, CalendarAssumption DEF Within
  <2> QED BY <1>2, <2>1 DEF InWindow, Wants, DateMatches, OnDate, OnDay
<1>4. DateExpired(e, t) => ~InWindow(e, t)
  BY <1>1 DEF DateExpired, InWindow, DateMatches, InDates
<1>5. InWindow(e, t) => WindowEnd(e, t) \in Nat /\ t < WindowEnd(e, t)
  <2>1. WindowEnd(e, t) \in Nat /\ (WindowEnd(e, t) <= t <=> e.end <= Minute(t))
    BY <1>1, MinuteOrder DEF WindowEnd
  <2>2. InWindow(e, t) => Minute(t) < e.end
    BY <1>1, CalendarAssumption DEF InWindow
  <2> QED BY <2>1, <2>2, <1>1, CalendarAssumption
<1> QED BY <1>3, <1>4, <1>5

\* Out of its window a circulate is not due: every branch that looks for the
\* next window looks ahead.
LEMMA Closed ==
    ASSUME NEW e \in Entry, e.type = "circulate", e.enabled, Sound(e), NEW t \in Nat,
           ~InWindow(e, t), NEW l, NEW p
    PROVE  NextFire(e, t, l, p) = Never \/ (NextFire(e, t, l, p) \in Nat /\ NextFire(e, t, l, p) > t)
<1>1. /\ Minute(t) \in 0..(DayMins - 1) /\ Day(t) \in Nat
      /\ e.start \in 0..(DayMins - 1) /\ e.end \in 0..DayMins /\ e.start < e.end
      /\ e.from \in Nat /\ e.until \in Nat
  BY Parts DEF Entry, Sound
<1>2. \/ DateExpired(e, t) /\ NextFire(e, t, l, p) = Never
      \/ e.from # 0 /\ NextFire(e, t, l, p) = DatedStart(e, t)
      \/ e.from = 0 /\ NextFire(e, t, l, p) = NextWeekdayTime(e.start, e.days, t)
  BY DEF NextFire, InUse, Free, Entry
<1> DEFINE u == NextWeekdayTime(e.start, e.days, t)
<1>3. \/ u = Never
      \/ u \in Nat /\ u > t
      \/ u = t /\ Weekday(t) \in e.days /\ Minute(t) = e.start
  BY <1>1, NextWeekday
<1>4. e.from # 0 /\ InDates(e, Day(t)) => ~(u = t /\ Weekday(t) \in e.days /\ Minute(t) = e.start)
  BY <1>1, CalendarAssumption DEF InWindow, DateMatches
<1>5. e.from = 0 => ~(u = t /\ Weekday(t) \in e.days /\ Minute(t) = e.start)
  BY <1>1, CalendarAssumption DEF InWindow, DateMatches
<1> HIDE DEF u
<1>6. CASE e.from # 0
  <2>1. DatedStart(e, t) \in {u, Clock(Day(t), e.start), Clock(Day(t) + 1, e.start), Never}
    BY DEF DatedStart, u
  <2>2. DatedStart(e, t) = u \/ DatedStart(e, t) = Never \/ e.days = {}
    BY DEF DatedStart, u
  <2>3. DatedStart(e, t) = u /\ e.days # {} => u = Never \/ InDates(e, Day(u))
    BY DEF DatedStart, u
  <2>4. CASE e.days # {}
    BY <1>2, <1>3, <1>4, <1>6, <2>2, <2>3, <2>4
  <2>5. CASE e.days = {}
    <3>1. Minute(t) < e.start => Clock(Day(t), e.start) \in Nat /\ Clock(Day(t), e.start) > t
      <4>1. e.start \in 0..DayMins
        BY <1>1, CalendarAssumption
      <4> QED BY <4>1, <1>1, MinuteOrder, CalendarAssumption
    <3>2. Clock(Day(t) + 1, e.start) \in Nat /\ Clock(Day(t) + 1, e.start) > t
      BY <1>1, Tomorrow
    <3>3. \/ DatedStart(e, t) = Never
          \/ Minute(t) < e.start /\ DatedStart(e, t) = Clock(Day(t), e.start)
          \/ DatedStart(e, t) = Clock(Day(t) + 1, e.start)
      BY <2>5 DEF DatedStart
    <3> QED BY <1>2, <1>6, <3>1, <3>2, <3>3
  <2> QED BY <2>4, <2>5
<1>7. CASE e.from = 0
  BY <1>2, <1>3, <1>5, <1>7 DEF u
<1> QED BY <1>6, <1>7

\* The code judges a routine due at the very instants for which it is set.
LEMMA DueExactly ==
    ASSUME NEW e \in Entry \cup {Free}, InUse(e) => Sound(e),
           NEW t \in Nat, NEW l \in Nat, NEW p \in BOOLEAN
    PROVE  Due(e, t, l, p) <=> ActsAt(e, t, l, p)
<1>1. CASE ~InUse(e)
  BY <1>1 DEF Due, ActsAt, Wants
<1>2. CASE InUse(e) /\ ~e.enabled
  BY <1>2 DEF Due, ActsAt, Wants, NextFire, Never
<1>3. CASE InUse(e) /\ e.enabled /\ e.type = "schedule"
  <2>1. e.start \in 0..(DayMins - 1) /\ NextFire(e, t, l, p) = NextWeekdayTime(e.start, e.days, t)
    BY <1>3 DEF NextFire, InUse, Entry
  <2>2. 0 <= MaxLate
    BY CalendarAssumption
  <2> DEFINE u == NextWeekdayTime(e.start, e.days, t)
  <2>3. /\ \/ u = Never
           \/ /\ u \in Nat /\ u >= t
              /\ Weekday(u) \in e.days /\ Minute(u) = e.start /\ u % MinLen = 0
        /\ Weekday(t) \in e.days /\ Minute(t) = e.start /\ t % MinLen = 0 => u = t
    BY <2>1, NextWeekday
  <2> HIDE DEF u
  <2>4. Due(e, t, l, p) <=> u = t
    BY <1>3, <2>1, <2>2, <2>3, CalendarAssumption DEF Due, u, Never
  <2>5. ActsAt(e, t, l, p) <=> Weekday(t) \in e.days /\ Minute(t) = e.start /\ t % MinLen = 0
    BY <1>3 DEF ActsAt, Wants, OnDay
  <2>6. u = t => Weekday(t) \in e.days /\ Minute(t) = e.start /\ t % MinLen = 0
    BY <2>3 DEF Never
  <2> QED BY <2>3, <2>4, <2>5, <2>6
<1>4. CASE InUse(e) /\ e.enabled /\ e.type = "circulate"
  <2>1. e \in Entry
    BY <1>4 DEF InUse
  <2>2. CASE ~InWindow(e, t)
    <3>1. NextFire(e, t, l, p) = Never \/ (NextFire(e, t, l, p) \in Nat /\ NextFire(e, t, l, p) > t)
      BY <1>4, <2>1, <2>2, Closed
    <3> QED BY <1>4, <2>1, <2>2, <3>1, WindowMeaning DEF Due, ActsAt, Never
  <2>3. CASE InWindow(e, t)
    <3>1. Wants(e, t) /\ ~DateExpired(e, t) /\ WindowEnd(e, t) \in Nat /\ t < WindowEnd(e, t)
      BY <1>4, <2>1, <2>3, WindowMeaning
    <3>2. NextFire(e, t, l, p) = NextToggle(e, t, l, p)
      BY <1>4, <2>3, <3>1 DEF NextFire
    <3> DEFINE i == IF p THEN e.on ELSE e.off
    <3>3. i \in Nat
      BY <2>1 DEF Entry
    <3> HIDE DEF i
    <3>4. NextToggle(e, t, l, p) = IF l = 0 THEN t
              ELSE IF l + i < WindowEnd(e, t) THEN l + i ELSE WindowEnd(e, t)
      BY DEF NextToggle, i
    <3>5. NextToggle(e, t, l, p) \in Nat /\ (NextToggle(e, t, l, p) <= t <=> l = 0 \/ l + i <= t)
      BY <3>1, <3>3, <3>4
    <3>6. Due(e, t, l, p) <=> l = 0 \/ l + i <= t
      BY <1>4, <3>2, <3>5 DEF Due
    <3>7. ActsAt(e, t, l, p) <=> l = 0 \/ t - l >= i
      BY <1>4, <3>1 DEF ActsAt, IntervalOver, i
    <3> QED BY <3>3, <3>6, <3>7
  <2> QED BY <2>2, <2>3
<1>5. e.type \in {"schedule", "circulate"} \/ ~InUse(e)
  BY DEF InUse, Entry
<1> QED BY <1>1, <1>2, <1>3, <1>4, <1>5

-----------------------------------------------------------------------------
(* No firing is overlooked.                                                *)

LEMMA ClockOrder ==
    ASSUME NEW a \in Nat, NEW b \in Nat, NEW m \in 0..(DayMins - 1), a <= b
    PROVE  Clock(a, m) \in Nat /\ Clock(b, m) \in Nat /\ Clock(a, m) <= Clock(b, m)
<1>1. Clock(a, m) \in Nat /\ Clock(b, m) \in Nat
  BY ClockParts
<1>2. a * DayLen <= b * DayLen
  BY DayLength
<1> QED BY <1>1, <1>2, DayLength, CalendarAssumption DEF Clock

\* Later instants have later days, and within a day later minutes.
LEMMA DayOrder ==
    ASSUME NEW t \in Nat, NEW u \in Nat, t <= u
    PROVE  Day(t) <= Day(u) /\ (Day(t) = Day(u) => Minute(t) <= Minute(u))
<1>1. /\ Day(t) \in Nat /\ Minute(t) \in 0..(DayMins - 1)
      /\ Day(u) \in Nat /\ Minute(u) \in 0..(DayMins - 1)
  BY Parts
<1>2. Day(t) <= Day(u)
  <2>1. SUFFICES ASSUME Day(u) < Day(t) PROVE FALSE
    BY <1>1
  <2>2. Clock(Day(u) + 1, 0) \in Nat /\ u < Clock(Day(u) + 1, 0)
    BY CalendarAssumption, Tomorrow
  <2>3. Clock(Day(u) + 1, 0) <= Clock(Day(t), 0)
    BY <1>1, <2>1, CalendarAssumption, ClockOrder
  <2>4. Clock(Day(t), 0) \in Nat /\ Clock(Day(t), 0) <= t
    BY <1>1, CalendarAssumption, MinuteOrder
  <2> QED BY <2>2, <2>3, <2>4
<1>3. Day(t) = Day(u) => Minute(t) <= Minute(u)
  <2>1. SUFFICES ASSUME Day(t) = Day(u) PROVE Minute(t) <= Minute(u)
    OBVIOUS
  <2>2. Minute(t) \in 0..DayMins
    BY <1>1, CalendarAssumption
  <2>3. Clock(Day(t), Minute(t)) \in Nat /\ Clock(Day(t), Minute(t)) <= t
    BY <2>2, <1>1, MinuteOrder
  <2>4. Clock(Day(u), Minute(t)) <= u
    BY <2>1, <2>3
  <2> QED BY <2>2, <2>4, MinuteOrder
<1> QED BY <1>2, <1>3

\* A day of the week comes again within a week.
LEMMA WithinAWeek ==
    ASSUME NEW d \in Nat, NEW k \in Nat \ {0}
    PROVE  \E j \in 1..Week : (d + j) % Week = (d + k) % Week
<1> DEFINE q == (k - 1) \div Week
           r == (k - 1) % Week
           a == (d + 1 + r) \div Week
           b == (d + 1 + r) % Week
<1>1. q \in Nat /\ r \in 0..(Week - 1) /\ k - 1 = q * Week + r
  <2>1. k - 1 \in Nat
    OBVIOUS
  <2> QED BY <2>1, CalendarAssumption, Quotient
<1> HIDE DEF q, r
<1>2. a \in Nat /\ b \in 0..(Week - 1) /\ d + 1 + r = a * Week + b
  <2>1. d + 1 + r \in Nat
    BY <1>1, CalendarAssumption
  <2> QED BY <2>1, CalendarAssumption, Quotient
<1> HIDE DEF a
<1>3. d + k = (a + q) * Week + b
  BY <1>1, <1>2, CalendarAssumption
<1>4. ((a + q) * Week + b) % Week = b
  <2>1. a + q \in Int
    BY <1>1, <1>2
  <2> QED BY <1>2, <2>1, CalendarAssumption, Division
<1>5. 1 + r \in 1..Week /\ d + (1 + r) = d + 1 + r
  BY <1>1, CalendarAssumption
<1> QED BY <1>3, <1>4, <1>5

\* next_weekday_time answers with the first instant it is asked for, if with
\* any; and it answers when it looks further than a week.
LEMMA FirstWeekday ==
    ASSUME NEW m \in 0..(DayMins - 1), NEW days, NEW t \in Nat, NEW u \in Nat, t <= u,
           Weekday(u) \in days, u = Clock(Day(u), m)
    PROVE  LET n == NextWeekdayTime(m, days, t)
           IN  /\ n # Never => n \in Nat /\ n <= u
               /\ Week < FwdDays => n # Never
<1> DEFINE S == {v \in {Clock(Day(t) + d, m) : d \in 0..(FwdDays - 1)} :
                   Weekday(v) \in days /\ v >= t}
           n == NextWeekdayTime(m, days, t)
           k == Day(u) - Day(t)
<1>1. Day(t) \in Nat /\ Day(u) \in Nat /\ k \in Nat /\ Day(u) = Day(t) + k
  <2>1. Day(t) \in Nat /\ Day(u) \in Nat /\ Day(t) <= Day(u)
    BY Parts, DayOrder
  <2> QED BY <2>1
<1>2. S \in SUBSET Nat
  <2>1. \A d \in 0..(FwdDays - 1) : Clock(Day(t) + d, m) \in Nat
    BY <1>1, CalendarAssumption, ClockParts
  <2> QED BY <2>1
<1>3. S # {} => n \in S /\ n # Never /\ \A v \in S : n <= v
  <2>1. S # {} => \E v \in S : \A w \in S : v <= w
    BY <1>2, Smallest
  <2>2. S # {} => n \in S /\ \A v \in S : n <= v
    BY <2>1 DEF NextWeekdayTime
  <2> QED BY <1>2, <2>2 DEF Never
<1>4. S = {} => n = Never
  BY DEF NextWeekdayTime
<1>5. CASE k < FwdDays
  <2>1. u \in S
    BY <1>1, <1>5, CalendarAssumption
  <2> HIDE DEF S
  <2> QED BY <1>2, <1>3, <2>1
<1>6. CASE k >= FwdDays
  <2>1. \A v \in S : v <= u
    <3>1. ASSUME NEW d \in 0..(FwdDays - 1) PROVE Clock(Day(t) + d, m) <= Clock(Day(u), m)
      BY <1>1, <1>6, CalendarAssumption, ClockOrder
    <3> QED BY <3>1
  <2>2. Week < FwdDays => S # {}
    <3>1. SUFFICES ASSUME Week < FwdDays PROVE S # {}
      OBVIOUS
    <3>2. k \in Nat \ {0}
      BY <1>1, <1>6, CalendarAssumption
    <3>3. PICK j \in 1..Week : (Day(t) + j) % Week = (Day(t) + k) % Week
      BY <1>1, <3>2, WithinAWeek
    <3> DEFINE v == Clock(Day(t) + j, m)
    <3>4. Day(t) + j \in Nat /\ Day(t) + 1 \in Nat /\ Day(t) + 1 <= Day(t) + j /\ j \in 0..(FwdDays - 1)
      BY <1>1, <3>1, CalendarAssumption
    <3>5. v \in Nat /\ Day(v) = Day(t) + j
      BY <3>4, ClockParts
    <3>6. t < v
      <4>1. Clock(Day(t) + 1, m) \in Nat /\ t < Clock(Day(t) + 1, m)
        BY Tomorrow
      <4>2. Clock(Day(t) + 1, m) <= v
        BY <3>4, ClockOrder
      <4> QED BY <3>5, <4>1, <4>2
    <3>7. Weekday(v) \in days
      BY <1>1, <3>3, <3>5 DEF Weekday
    <3>8. v >= t
      BY <3>5, <3>6
    <3> QED BY <3>4, <3>7, <3>8
  <2> HIDE DEF S
  <2> QED BY <1>2, <1>3, <1>4, <2>1, <2>2
<1> QED BY <1>1, <1>5, <1>6, CalendarAssumption

\* Out of its window a circulate wants nothing before the start that is found.
LEMMA FirstStart ==
    ASSUME NEW e \in Entry, e.type = "circulate", e.enabled, Sound(e),
           NEW t \in Nat, NEW u \in Nat, t <= u, ~InWindow(e, t), Wants(e, u), NEW l, NEW p
    PROVE  NextFire(e, t, l, p) # Never => NextFire(e, t, l, p) \in Nat /\ NextFire(e, t, l, p) <= u
<1> DEFINE v == Clock(Day(u), e.start)
<1>1. /\ e.start \in 0..(DayMins - 1) /\ e.start \in 0..DayMins /\ e.end \in 0..DayMins
      /\ e.from \in Nat /\ e.until \in Nat
      /\ Day(t) \in Nat /\ Minute(t) \in Nat /\ Day(u) \in Nat /\ Minute(u) \in Nat
      /\ Day(t) <= Day(u) /\ (Day(t) = Day(u) => Minute(t) <= Minute(u))
  <2>1. /\ e.start \in 0..(DayMins - 1) /\ e.end \in 0..DayMins
        /\ e.from \in Nat /\ e.until \in Nat
    BY DEF Entry
  <2>2. e.start \in 0..DayMins
    BY <2>1, CalendarAssumption
  <2>3. /\ Day(t) \in Nat /\ Minute(t) \in 0..(DayMins - 1)
        /\ Day(u) \in Nat /\ Minute(u) \in 0..(DayMins - 1)
    BY Parts
  <2>4. Day(t) <= Day(u) /\ (Day(t) = Day(u) => Minute(t) <= Minute(u))
    BY DayOrder
  <2> QED BY <2>1, <2>2, <2>3, <2>4
<1>2. InUse(e) /\ OnDate(e, u) /\ (e.days = {} \/ Weekday(u) \in e.days)
      /\ e.start <= Minute(u) /\ Minute(u) < e.end
  BY DEF Wants, OnDay, Within
<1>3. v \in Nat /\ v <= u /\ Day(v) = Day(u)
  BY <1>1, <1>2, MinuteOrder, ClockParts
\* On the day of u, t lies before the window.
<1>4. Day(t) = Day(u) => Minute(t) < e.start
  <2>1. ~Wants(e, t)
    BY WindowMeaning
  <2>2. Day(t) = Day(u) => ~Within(Minute(t), e)
    BY <2>1, <1>2 DEF Wants, OnDate, OnDay, Weekday
  <2> QED BY <1>1, <1>2, <2>2 DEF Within
<1>5. t <= v
  <2>1. CASE Day(t) = Day(u)
    BY <1>1, <1>3, <1>4, <2>1, MinuteOrder
  <2>2. CASE Day(t) < Day(u)
    <3>1. Clock(Day(t) + 1, e.start) \in Nat /\ t < Clock(Day(t) + 1, e.start)
      BY <1>1, Tomorrow
    <3>2. Clock(Day(t) + 1, e.start) <= v
      BY <1>1, <2>2, ClockOrder
    <3> QED BY <1>3, <3>1, <3>2
  <2> QED BY <1>1, <2>1, <2>2
<1> DEFINE n == NextWeekdayTime(e.start, e.days, t)
<1>6. e.days # {} => (n # Never => n \in Nat /\ n <= u)
  <2>1. SUFFICES ASSUME e.days # {} PROVE n # Never => n \in Nat /\ n <= u
    OBVIOUS
  <2>2. Weekday(v) \in e.days /\ v = Clock(Day(v), e.start)
    BY <1>2, <1>3, <2>1 DEF Weekday
  <2> HIDE DEF v
  <2>3. n # Never => n \in Nat /\ n <= v
    BY <1>1, <1>3, <1>5, <2>2, FirstWeekday
  <2> QED BY <1>3, <2>3
<1>7. e.days = {} => n = Never
  BY DEF NextWeekdayTime
<1> HIDE DEF n
<1>8. \/ NextFire(e, t, l, p) = Never
      \/ e.from # 0 /\ NextFire(e, t, l, p) = DatedStart(e, t)
      \/ e.from = 0 /\ NextFire(e, t, l, p) = n
  BY <1>2 DEF NextFire, n
<1>9. CASE e.from # 0 /\ e.days = {} /\ NextFire(e, t, l, p) = DatedStart(e, t)
  <2>1. \/ DatedStart(e, t) = Never
        \/ Minute(t) < e.start /\ DatedStart(e, t) = Clock(Day(t), e.start)
        \/ /\ ~(InDates(e, Day(t)) /\ Minute(t) < e.start)
           /\ DatedStart(e, t) = Clock(Day(t) + 1, e.start)
    BY <1>9 DEF DatedStart
  <2>2. Clock(Day(t), e.start) \in Nat /\ Clock(Day(t), e.start) <= v
    BY <1>1, ClockOrder
  <2>3. Day(t) < Day(u) => Clock(Day(t) + 1, e.start) \in Nat /\ Clock(Day(t) + 1, e.start) <= v
    BY <1>1, ClockOrder
  <2>4. Day(t) = Day(u) => InDates(e, Day(t)) /\ Minute(t) < e.start
    BY <1>2, <1>4, <1>9 DEF OnDate
  <2> HIDE DEF v
  <2> QED BY <1>1, <1>3, <1>9, <2>1, <2>2, <2>3, <2>4
<1>10. CASE e.from # 0 /\ e.days # {} /\ NextFire(e, t, l, p) = DatedStart(e, t)
  <2>1. DatedStart(e, t) \in {n, Never}
    BY <1>10 DEF DatedStart, n
  <2> QED BY <1>6, <1>10, <2>1
<1> QED BY <1>6, <1>7, <1>8, <1>9, <1>10

\* No routine acts between now and its next firing; and of a schedule the next
\* firing is always known.
LEMMA FirstFiring ==
    ASSUME NEW e \in Entry \cup {Free}, InUse(e) => Sound(e),
           NEW t \in Nat, NEW u \in Nat, t <= u, NEW l \in Nat, NEW p \in BOOLEAN,
           ActsAt(e, u, l, p)
    PROVE  LET n == NextFire(e, t, l, p)
           IN  /\ n # Never => n \in Int /\ n <= u
               /\ e.type = "schedule" /\ Week < FwdDays => n # Never
<1>1. e \in Entry /\ InUse(e) /\ e.enabled /\ Wants(e, u) /\ Sound(e)
  BY DEF ActsAt, Wants, InUse
<1>2. CASE e.type = "schedule"
  <2>1. e.start \in 0..(DayMins - 1) /\ NextFire(e, t, l, p) = NextWeekdayTime(e.start, e.days, t)
    BY <1>1, <1>2 DEF NextFire, Entry
  <2>2. Weekday(u) \in e.days /\ Minute(u) = e.start /\ u % MinLen = 0
    BY <1>1, <1>2 DEF ActsAt, Wants, OnDay
  <2>3. u = Clock(Day(u), e.start)
    <3>1. u = Clock(Day(u), e.start) + 0 /\ Day(u) \in Nat
      BY <2>2, Parts
    <3> QED BY <2>1, <3>1, ClockParts
  <2> QED BY <2>1, <2>2, <2>3, FirstWeekday
<1>3. CASE e.type = "circulate" /\ ~InWindow(e, t)
  BY <1>1, <1>3, FirstStart
<1>4. CASE e.type = "circulate" /\ InWindow(e, t)
  <2>1. ~DateExpired(e, t) /\ WindowEnd(e, t) \in Nat
    BY <1>1, <1>4, WindowMeaning
  <2>2. NextFire(e, t, l, p) = NextToggle(e, t, l, p)
    BY <1>1, <1>4, <2>1 DEF NextFire
  <2> DEFINE i == IF p THEN e.on ELSE e.off
  <2>3. i \in Nat
    BY <1>1 DEF Entry
  <2>4. l = 0 \/ u - l >= i
    BY <1>4 DEF ActsAt, IntervalOver
  <2>5. NextToggle(e, t, l, p) = IF l = 0 THEN t
            ELSE IF l + i < WindowEnd(e, t) THEN l + i ELSE WindowEnd(e, t)
    BY DEF NextToggle
  <2> HIDE DEF i
  <2> QED BY <1>4, <2>1, <2>2, <2>3, <2>4, <2>5
<1>5. e.type \in {"schedule", "circulate"}
  BY <1>1 DEF Entry
<1> QED BY <1>2, <1>3, <1>4, <1>5

\* A firing time is a time or Never.
LEMMA FiringTime ==
    ASSUME NEW e \in Entry \cup {Free}, InUse(e) => Sound(e),
           NEW t \in Nat, NEW l \in Nat, NEW p \in BOOLEAN
    PROVE  NextFire(e, t, l, p) \in Nat \cup {Never}
<1>1. CASE ~InUse(e) \/ ~e.enabled
  BY <1>1 DEF NextFire
<1>2. CASE InUse(e) /\ e.enabled /\ e.type = "schedule"
  <2>1. e.start \in 0..(DayMins - 1) /\ NextFire(e, t, l, p) = NextWeekdayTime(e.start, e.days, t)
    BY <1>2 DEF NextFire, InUse, Entry
  <2> QED BY <2>1, NextWeekday
<1>3. CASE InUse(e) /\ e.enabled /\ e.type = "circulate"
  <2>1. e \in Entry
    BY <1>3 DEF InUse
  <2>2. CASE ~InWindow(e, t)
    BY <1>3, <2>1, <2>2, Closed
  <2>3. CASE InWindow(e, t)
    <3>1. ~DateExpired(e, t) /\ WindowEnd(e, t) \in Nat
      BY <1>3, <2>1, <2>3, WindowMeaning
    <3>2. NextFire(e, t, l, p) = NextToggle(e, t, l, p)
      BY <1>3, <2>3, <3>1 DEF NextFire
    <3>3. NextToggle(e, t, l, p) \in Nat
      BY <2>1, <3>1 DEF NextToggle, Entry
    <3> QED BY <3>2, <3>3
  <2> QED BY <2>2, <2>3
<1>4. InUse(e) => e.type \in {"schedule", "circulate"}
  BY DEF InUse, Entry
<1> QED BY <1>1, <1>2, <1>3, <1>4

-----------------------------------------------------------------------------
(* Types.                                                                  *)

TypeInv ==
    /\ TypeOK
    /\ req.op \in {"post", "put"} => req.entry \in Entry /\ Sound(req.entry)
    /\ req.op \in {"put", "delete"} => req.slot \in Slot
    /\ req.op = "post" => req.slot = 0

LEMMA TypeInit == Init => TypeInv
<1> SUFFICES ASSUME Init
             PROVE  TypeInv
  OBVIOUS
<1>1. slots \in [Slot -> {e \in Entry : Sound(e)} \cup {Free}]
  <2>1. slots \in [Slot -> Entry \cup {Free}]
    BY RoutinesAssumption DEF Init
  <2>2. \A i \in Slot : InUse(slots[i]) => Sound(slots[i])
    BY RoutinesAssumption DEF Init, Valid
  <2> QED BY <2>1, <2>2 DEF InUse
<1> QED BY <1>1, RoutinesAssumption
        DEF Init, TypeInv, TypeOK, NoRequest, Requests, Action, Ctrl, Httpd

LEMMA TypeStep == TypeInv /\ [Next]_vars => TypeInv'
<1> SUFFICES ASSUME TypeInv, [Next]_vars
             PROVE  TypeInv'
  OBVIOUS
<1> USE DEF TypeInv, TypeOK, table
<1>1. CASE Fire
  <2> DEFINE gone == {i \in Slot : Expired(i)}
             due == {i \in Slot \ gone : Judged(i)}
  <2>1. acts' \subseteq Action /\ todo' = acts'
    <3>1. \A i \in due : slots[i] \in Entry /\ Turn(i) \in BOOLEAN
      BY DEF Judged, Due, InUse, Turn, InWindow, Circulating, Ended, Entry
    <3>2. acts' = {[slot |-> i, on |-> Turn(i), entry |-> slots[i]] : i \in due}
      BY <1>1 DEF Fire
    <3> QED BY <1>1, <3>1, <3>2 DEF Fire, Action
  <2>2. \A i \in Slot : Stamp(i) \in Nat /\ (i \in due /\ Circulating(i) => Turn(i) \in BOOLEAN)
    <3>1. now \in Nat
      BY RoutinesAssumption
    <3>2. \A i \in Slot : Stamp(i) \in Nat
      BY <3>1 DEF Stamp
    <3>3. ASSUME NEW i \in due, Circulating(i)
          PROVE  Turn(i) \in BOOLEAN
      <4>1. Turn(i) = (~InWindow(slots[i], now) \/ (~Ended(i) /\ ~phase[i]))
        BY <3>3 DEF Turn
      <4> QED BY <4>1
    <3> QED BY <3>2, <3>3
  <2>3. slots' \in [Slot -> {e \in Entry : Sound(e)} \cup {Free}]
    BY <1>1 DEF Fire
  <2>4. last' \in [Slot -> Nat] /\ phase' \in [Slot -> BOOLEAN]
    BY <1>1, <2>2 DEF Fire
  <2>5. UNCHANGED <<now, req>> /\ pc' = [pc EXCEPT ![Ctrl] = "apply"]
    BY <1>1 DEF Fire, Goto
  <2> QED BY <2>1, <2>3, <2>4, <2>5 DEF Ctrl, Httpd
<1>2. ASSUME NEW a \in todo, Apply(a)
      PROVE  TypeInv'
  BY <1>2 DEF Apply, Goto, Ctrl, Httpd
<1>3. CASE Applied
  BY <1>3 DEF Applied, Goto, Ctrl, Httpd
<1>4. CASE PassDone
  BY <1>4 DEF PassDone, Goto, Ctrl, Httpd
<1>5. ASSUME NEW r \in Requests, Accept(r),
             r.op \in {"post", "put"} => r.entry \in Entry /\ Sound(r.entry),
             r.op \in {"put", "delete"} => r.slot \in Slot,
             r.op = "post" => r.slot = 0
      PROVE  TypeInv'
  BY <1>5 DEF Accept, Goto, Ctrl, Httpd
<1>6. ASSUME NEW c \in Candidates, PostRoutine(c)
      PROVE  TypeInv'
  <2> DEFINE e == [c EXCEPT !.enabled = TRUE]
  <2>1. e \in Entry /\ Sound(e) /\ Accept([op |-> "post", slot |-> 0, entry |-> e])
    BY <1>6, RoutinesAssumption DEF PostRoutine, Valid, Entry
  <2> HIDE DEF e
  <2> QED BY <1>5, <2>1 DEF Requests
<1>7. ASSUME NEW e \in Candidates, NEW i \in Slot, PutRoutine(i, e)
      PROVE  TypeInv'
  <2>1. e \in Entry /\ Sound(e) /\ Accept([op |-> "put", slot |-> i, entry |-> e])
    BY <1>7, RoutinesAssumption DEF PutRoutine, Valid
  <2> QED BY <1>5, <2>1 DEF Requests
<1>8. ASSUME NEW i \in Slot, DeleteRoutine(i)
      PROVE  TypeInv'
  BY <1>5, <1>8 DEF DeleteRoutine, Requests
<1>9. ASSUME NEW i \in Slot, Store(i, Free) \/ (Store(i, req.entry) /\ req.op \in {"post", "put"}),
             UNCHANGED <<last, phase>> \/ Forget(i)
      PROVE  TypeInv'
  <2>1. slots' \in [Slot -> {e \in Entry : Sound(e)} \cup {Free}]
    BY <1>9 DEF Store
  <2>2. last' \in [Slot -> Nat] /\ phase' \in [Slot -> BOOLEAN]
    <3>1. CASE UNCHANGED <<last, phase>>
      BY <3>1
    <3>2. CASE Forget(i)
      BY <3>2 DEF Forget
    <3> QED BY <1>9, <3>1, <3>2
  <2> QED BY <1>9, <2>1, <2>2 DEF Store, NoRequest, Requests, Goto, Ctrl, Httpd
<1>10. ASSUME NEW i \in Slot, Create(i) \/ Update(i) \/ Remove(i)
       PROVE  TypeInv'
  BY <1>9, <1>10 DEF Create, Update, Remove
<1>11. CASE Full
  BY <1>11 DEF Full, NoRequest, Requests, Goto, Ctrl, Httpd
<1>12. CASE Tick
  BY <1>12 DEF Tick
<1>13. CASE UNCHANGED vars
  BY <1>13 DEF vars
<1> QED BY <1>1, <1>2, <1>3, <1>4, <1>6, <1>7, <1>8, <1>10, <1>11, <1>12, <1>13
        DEF Next, Control, Request, Serve

LEMMA TypeInvariant == Spec => []TypeInv
BY TypeInit, TypeStep, PTL DEF Spec

\* Every variable has its type, and every slot holds a validated routine: the
\* checks that precede the lock are enough (routines.c:597-694).
THEOREM TypeCorrect == Spec => []TypeOK
BY TypeInvariant, PTL DEF TypeInv

-----------------------------------------------------------------------------
(* Judging a slot.                                                         *)

LEMMA JudgedExactly ==
    ASSUME TypeInv, NEW i \in Slot
    PROVE  Judged(i) <=> ActsAt(slots[i], now, last[i], phase[i])
<1>1. /\ slots[i] \in Entry \cup {Free} /\ (InUse(slots[i]) => Sound(slots[i]))
      /\ now \in Nat /\ last[i] \in Nat /\ phase[i] \in BOOLEAN
  BY RoutinesAssumption DEF TypeInv, TypeOK, InUse
<1> QED BY <1>1, DueExactly DEF Judged

LEMMA ActingIsOwed ==
    ASSUME NEW e, NEW t \in Nat, NEW l, NEW p, ActsAt(e, t, l, p)
    PROVE  Owed(e, t, l, p)
<1>1. InUse(e) /\ e.enabled /\ Wants(e, t)
  BY DEF ActsAt, Wants
<1>2. CASE e.type = "schedule"
  <2>1. t \in 0..t /\ t - t <= MaxLate
    BY CalendarAssumption
  <2> QED BY <1>1, <1>2, <2>1 DEF Owed
<1>3. CASE e.type # "schedule"
  BY <1>1, <1>3 DEF Owed, ActsAt
<1> QED BY <1>2, <1>3

\* The control task judges a slot due whenever it looks at an instant for which
\* the routine is set, and only while an action is owed (routines.c:344-430,
\* 459-472).
THEOREM FiresWhenDue == Spec => []FiresDuly
<1>1. TypeInv => FiresDuly
  <2> SUFFICES ASSUME TypeInv, NEW i \in Slot
               PROVE  /\ ActsAt(slots[i], now, last[i], phase[i]) => Judged(i)
                      /\ Judged(i) => Owed(slots[i], now, last[i], phase[i])
    BY DEF FiresDuly
  <2>1. now \in Nat
    BY RoutinesAssumption DEF TypeInv, TypeOK
  <2> QED BY <2>1, JudgedExactly, ActingIsOwed
<1> QED BY <1>1, TypeInvariant, PTL

\* The grace of routines.h:11-15 is never granted: a pass that comes after the
\* first second of a schedule's minute finds it not due, because
\* next_weekday_time never answers with a time before the present
\* (routines.c:147), and the test of routines.c:471-472 never decides anything.
THEOREM LateScheduleIsLost ==
    Spec => [](\A i \in Slot : InUse(slots[i]) /\ slots[i].type = "schedule" /\ now % MinLen # 0
                 => ~Judged(i))
<1>1. TypeInv => (\A i \in Slot : InUse(slots[i]) /\ slots[i].type = "schedule" /\ now % MinLen # 0
                    => ~Judged(i))
  BY JudgedExactly DEF ActsAt
<1> QED BY <1>1, TypeInvariant, PTL

\* The off toggle at the end of a circulate's window is never taken: no circulate
\* is judged due once its window is over, nor finds itself past the end of one
\* (routines.c:478-487).  Its relay stays in the phase of the last toggle.
THEOREM WindowEndIsLost ==
    Spec => [](\A i \in Slot : InUse(slots[i]) /\ Circulating(i) /\ Judged(i)
                 => InWindow(slots[i], now) /\ ~Ended(i))
<1>1. TypeInv => (\A i \in Slot : InUse(slots[i]) /\ Circulating(i) /\ Judged(i)
                    => InWindow(slots[i], now) /\ ~Ended(i))
  <2> SUFFICES ASSUME TypeInv, NEW i \in Slot, InUse(slots[i]), Circulating(i), Judged(i)
               PROVE  InWindow(slots[i], now) /\ ~Ended(i)
    OBVIOUS
  <2>1. /\ slots[i] \in Entry /\ slots[i].type = "circulate" /\ now \in Nat
        /\ slots[i].enabled /\ Wants(slots[i], now)
    BY JudgedExactly, RoutinesAssumption DEF TypeInv, TypeOK, InUse, Circulating, ActsAt, Wants
  <2>2. /\ InWindow(slots[i], now)
        /\ WindowEnd(slots[i], now) \in Nat /\ now < WindowEnd(slots[i], now)
    BY <2>1, WindowMeaning
  <2> QED BY <2>1, <2>2 DEF Ended
<1> QED BY <1>1, TypeInvariant, PTL

-----------------------------------------------------------------------------
(* How long the control task sleeps.                                       *)

\* With a look-ahead of more than a week, arm_next never answers with a time
\* after an instant at which a routine acts.
THEOREM NeverOversleeps == ASSUME Week < FwdDays PROVE Spec => []NoOversleep
<1>1. TypeInv => NoOversleep
  <2> SUFFICES ASSUME TypeInv, NEW i \in Slot, NEW u \in Nat, u >= now,
                      ActsAt(slots[i], u, last[i], phase[i]),
                      \/ slots[i].type = "schedule"
                      \/ NextFire(slots[i], now, last[i], phase[i]) # Never
               PROVE  ArmNext # Never /\ ArmNext <= u
    BY Zenon DEF NoOversleep
  <2> DEFINE F(j) == NextFire(slots[j], now, last[j], phase[j])
             T == {F(j) : j \in Slot} \ {Never}
  <2>1. \A j \in Slot : /\ slots[j] \in Entry \cup {Free} /\ (InUse(slots[j]) => Sound(slots[j]))
                        /\ now \in Nat /\ last[j] \in Nat /\ phase[j] \in BOOLEAN
    BY RoutinesAssumption DEF TypeInv, TypeOK, InUse
  <2>2. \A j \in Slot : F(j) \in Nat \cup {Never}
    BY <2>1, FiringTime
  <2>3. F(i) # Never /\ F(i) <= u
    BY <2>1, FirstFiring
  <2> HIDE DEF F
  <2>4. T \in SUBSET Nat /\ F(i) \in T
    BY <2>2, <2>3
  <2>5. ArmNext = IF T = {} THEN Never ELSE CHOOSE t \in T : \A v \in T : t <= v
    BY DEF ArmNext, F
  <2> HIDE DEF T
  <2>6. ArmNext \in T /\ ArmNext <= F(i)
    <3>1. \E t \in T : \A v \in T : t <= v
      BY <2>4, Smallest
    <3> QED BY <2>4, <2>5, <3>1
  <2>7. ArmNext \in Nat /\ F(i) \in Nat
    BY <2>4, <2>6
  <2>8. F(i) <= u
    BY <2>3
  <2> QED BY <2>6, <2>7, <2>8 DEF Never
<1> QED BY <1>1, TypeInvariant, PTL

-----------------------------------------------------------------------------
(* Cycles.                                                                 *)

LEMMA FreshStep == TypeInv /\ FreshCycle /\ [Next]_vars => FreshCycle'
<1> SUFFICES ASSUME TypeInv, FreshCycle, [Next]_vars
             PROVE  FreshCycle'
  OBVIOUS
<1> USE DEF FreshCycle
<1>1. CASE Fire
  <2> DEFINE gone == {i \in Slot : Expired(i)}
             due == {i \in Slot \ gone : Judged(i)}
             turns == {i \in due : Circulating(i)}
  <2>1. SUFFICES ASSUME NEW i \in Slot
                 PROVE  /\ slots'[i] = Free => last'[i] = 0
                        /\ last'[i] = 0 => ~phase'[i]
    BY DEF Slot
  <2>2. CASE i \in gone
    BY <1>1, <2>2 DEF Fire
  <2>3. CASE i \in turns
    <3>1. slots'[i] = slots[i] /\ last'[i] = Stamp(i) /\ phase'[i] = Turn(i)
      BY <1>1, <2>3 DEF Fire
    <3>2. InUse(slots[i]) /\ now # 0
      BY <2>3, RoutinesAssumption DEF Judged, Due, TypeInv, TypeOK
    <3>3. Stamp(i) = 0 => Ended(i)
      BY <3>2 DEF Stamp
    <3>4. Ended(i) => ~Turn(i)
      BY <2>3 DEF Ended, Turn
    <3> QED BY <3>1, <3>2, <3>3, <3>4 DEF InUse
  <2>4. CASE i \notin gone /\ i \notin turns
    BY <1>1, <2>4 DEF Fire
  <2> QED BY <2>2, <2>3, <2>4
<1>2. ASSUME NEW i \in Slot, Create(i)
      PROVE  FreshCycle'
  <2>1. UNCHANGED <<last, phase>> /\ slots[i] = Free /\ slots' = [slots EXCEPT ![i] = req.entry]
    BY <1>2 DEF Create, Store, Vacant
  <2> QED BY <2>1 DEF TypeInv, TypeOK
<1>3. ASSUME NEW i \in Slot, NEW e, Store(i, e), Forget(i)
      PROVE  FreshCycle'
  <2>1. /\ slots' = [slots EXCEPT ![i] = e]
        /\ last' = [last EXCEPT ![i] = 0] /\ phase' = [phase EXCEPT ![i] = FALSE]
    BY <1>3 DEF Store, Forget
  <2> QED BY <2>1 DEF TypeInv, TypeOK
<1>4. ASSUME NEW i \in Slot, Update(i) \/ Remove(i)
      PROVE  FreshCycle'
  BY <1>3, <1>4 DEF Update, Remove
<1>5. CASE UNCHANGED table
  BY <1>5 DEF table, Slot
<1>6. \/ Fire \/ UNCHANGED table
      \/ \E i \in Slot : Create(i) \/ Update(i) \/ Remove(i)
  BY DEF Next, Control, Request, Serve, Apply, Applied, PassDone, PostRoutine, PutRoutine,
         DeleteRoutine, Accept, Full, Tick, vars, table
<1> QED BY <1>1, <1>2, <1>4, <1>5, <1>6

\* A free slot remembers no toggle, and a cycle that has not begun is in its off
\* phase, whoever frees or edits the slot (routines.c:482-496, 688-712).
THEOREM CyclesAreFresh == Spec => []FreshCycle
<1>1. Init => FreshCycle
  BY DEF Init, FreshCycle
<1> QED BY <1>1, FreshStep, TypeInvariant, PTL DEF Spec

-----------------------------------------------------------------------------
(* Who determines the relay.                                               *)

\* The routines a and b must not be enabled together.
Clash(a, b) ==
    /\ InUse(a) /\ InUse(b) /\ a.enabled /\ b.enabled
    /\ SameDates(a, b) /\ DaysMeet(a, b)
    /\ IF a.type = "circulate"
       THEN IF b.type = "circulate" THEN Overlap(a, b) ELSE Within(b.start, a)
       ELSE IF b.type = "circulate" THEN Within(a.start, b) ELSE a.start = b.start

\* Neither routines in the table nor one that is about to be stored clash.
Peaceful ==
    /\ \A i, j \in Slot : i # j => ~Clash(slots[i], slots[j])
    /\ req.op \in {"post", "put"} =>
          \A j \in Slot : j # req.slot => ~Clash(req.entry, slots[j])

LEMMA ClashSymmetric ==
    ASSUME NEW a \in Entry, NEW b \in Entry, Clash(a, b)
    PROVE  Clash(b, a)
BY DEF Clash, SameDates, DaysMeet, Overlap, Entry

LEMMA ValidIsPeaceful ==
    ASSUME NEW e \in Entry, NEW S, Valid(e, S), NEW o \in S, o \in Entry \cup {Free}
    PROVE  ~Clash(e, o)
<1> SUFFICES ASSUME Clash(e, o)
             PROVE  FALSE
  OBVIOUS
<1>1. o \in Entry
  BY DEF Clash, InUse
<1>2. CASE e.type = "circulate"
  BY <1>1, <1>2 DEF Clash, Valid, Apart, CirculateOverlaps, CirculateScheduleConflict, Rival, Entry
<1>3. CASE e.type # "circulate"
  BY <1>1, <1>3 DEF Clash, Valid, Apart, ScheduleConflicts, Rival, Entry
<1> QED BY <1>2, <1>3

LEMMA BothWanting ==
    ASSUME NEW a \in Entry, NEW b \in Entry, NEW t \in Nat,
           SameDates(a, b), Wants(a, t), Wants(b, t)
    PROVE  Clash(a, b)
<1>1. /\ Minute(t) \in Int
      /\ a.start \in Int /\ b.start \in Int /\ a.end \in Int /\ b.end \in Int
      /\ a.type \in {"schedule", "circulate"} /\ b.type \in {"schedule", "circulate"}
  BY Parts, CalendarAssumption DEF Entry
<1>2. DaysMeet(a, b)
  BY DEF DaysMeet, Wants, OnDay
<1> QED BY <1>1, <1>2 DEF Clash, Wants, Overlap, Within

LEMMA PeaceInit == Init => Peaceful
<1> SUFFICES ASSUME Init, NEW i \in Slot, NEW j \in Slot, i # j
             PROVE  ~Clash(slots[i], slots[j])
  BY DEF Init, Peaceful, NoRequest
<1>1. CASE ~InUse(slots[i])
  BY <1>1 DEF Clash
<1>2. CASE InUse(slots[i])
  <2>1. /\ slots[i] \in Entry /\ slots[j] \in Entry \cup {Free}
        /\ Valid(slots[i], {slots[k] : k \in Slot \ {i}})
    BY <1>2, RoutinesAssumption DEF Init, InUse
  <2>2. slots[j] \in {slots[k] : k \in Slot \ {i}}
    OBVIOUS
  <2> QED BY <2>1, <2>2, ValidIsPeaceful
<1> QED BY <1>1, <1>2

LEMMA PeaceStep == TypeInv /\ Peaceful /\ [Next]_vars => Peaceful'
<1> SUFFICES ASSUME TypeInv, Peaceful, [Next]_vars
             PROVE  Peaceful'
  OBVIOUS
<1> USE DEF Peaceful
<1>1. \A i \in Slot : slots[i] \in Entry \cup {Free}
  BY DEF TypeInv, TypeOK
<1>2. \A x : ~Clash(Free, x) /\ ~Clash(x, Free)
  BY DEF Clash, InUse
<1>3. CASE Fire
  <2>1. \A i \in Slot : slots'[i] \in {slots[i], Free}
    BY <1>3 DEF Fire
  <2>2. UNCHANGED req /\ UNCHANGED Slot
    BY <1>3 DEF Fire, Slot
  <2> QED BY <1>2, <2>1, <2>2
<1>4. ASSUME NEW r, Accept(r), r.op \in {"post", "put"} =>
                 \A j \in Slot : j # r.slot => ~Clash(r.entry, slots[j])
      PROVE  Peaceful'
  BY <1>4 DEF Accept, table, Slot
<1>5. ASSUME NEW c \in Candidates, PostRoutine(c)
      PROVE  Peaceful'
  <2> DEFINE e == [c EXCEPT !.enabled = TRUE]
  <2>1. e \in Entry /\ Valid(e, Others(0)) /\ Accept([op |-> "post", slot |-> 0, entry |-> e])
    BY <1>5, RoutinesAssumption DEF PostRoutine, Entry
  <2> HIDE DEF e
  <2>2. \A j \in Slot : slots[j] \in Others(0)
    BY DEF Others, Slot
  <2> QED BY <1>1, <1>4, <2>1, <2>2, ValidIsPeaceful
<1>6. ASSUME NEW e \in Candidates, NEW i \in Slot, PutRoutine(i, e)
      PROVE  Peaceful'
  <2>1. e \in Entry /\ Valid(e, Others(i)) /\ Accept([op |-> "put", slot |-> i, entry |-> e])
    BY <1>6, RoutinesAssumption DEF PutRoutine
  <2>2. \A j \in Slot : j # i => slots[j] \in Others(i)
    BY DEF Others
  <2> QED BY <1>1, <1>4, <2>1, <2>2, ValidIsPeaceful
<1>7. ASSUME NEW i \in Slot, DeleteRoutine(i)
      PROVE  Peaceful'
  BY <1>4, <1>7 DEF DeleteRoutine
<1>8. ASSUME NEW i \in Slot, NEW e, Store(i, e),
             \A j \in Slot : j # i => ~Clash(e, slots[j]) /\ ~Clash(slots[j], e)
      PROVE  Peaceful'
  <2>1. slots' = [slots EXCEPT ![i] = e] /\ req' = NoRequest /\ UNCHANGED Slot
    BY <1>8 DEF Store, Slot
  <2>2. \A j \in Slot : slots'[j] = IF j = i THEN e ELSE slots[j]
    BY <2>1 DEF TypeInv, TypeOK
  <2> QED BY <1>8, <2>1, <2>2 DEF NoRequest
<1>9. ASSUME NEW i \in Slot, Create(i) \/ Update(i) \/ Remove(i)
      PROVE  Peaceful'
  <2>1. CASE Remove(i)
    BY <1>2, <1>8, <2>1 DEF Remove
  <2>2. CASE Create(i) \/ Update(i)
    <3>1. /\ req.op \in {"post", "put"} /\ req.slot \in {0, i}
          /\ Store(i, req.entry) /\ req.entry \in Entry
      BY <2>2 DEF Create, Update, TypeInv
    <3>2. \A j \in Slot : j # i => ~Clash(req.entry, slots[j])
      BY <3>1 DEF Slot
    <3>3. \A j \in Slot : j # i => ~Clash(slots[j], req.entry)
      BY <1>1, <1>2, <3>1, <3>2, ClashSymmetric
    <3> QED BY <1>8, <3>1, <3>2, <3>3
  <2> QED BY <1>9, <2>1, <2>2
<1>10. CASE UNCHANGED slots /\ (req' = NoRequest \/ UNCHANGED req)
  BY <1>10 DEF NoRequest, Slot
<1>11. \/ Fire
       \/ \E e \in Candidates : PostRoutine(e) \/ \E i \in Slot : PutRoutine(i, e)
       \/ \E i \in Slot : DeleteRoutine(i)
       \/ \E i \in Slot : Create(i) \/ Update(i) \/ Remove(i)
       \/ UNCHANGED slots /\ (req' = NoRequest \/ UNCHANGED req)
  BY DEF Next, Control, Request, Serve, Apply, Applied, PassDone, Full, Tick, vars, table
<1> QED BY <1>3, <1>5, <1>6, <1>7, <1>9, <1>10, <1>11

LEMMA PeaceInvariant == Spec => []Peaceful
BY PeaceInit, PeaceStep, TypeInvariant, PTL DEF Spec

LEMMA OnlyOneWants ==
    ASSUME TypeInv, Peaceful, NEW i \in Slot, NEW j \in Slot, NEW t \in Nat,
           SameDates(slots[i], slots[j]), Wants(slots[i], t), Wants(slots[j], t)
    PROVE  i = j
<1>1. slots[i] \in Entry /\ slots[j] \in Entry
  BY DEF TypeInv, TypeOK, Wants, InUse
<1> QED BY <1>1, BothWanting DEF Peaceful

\* No two routines of one date range determine the relay in the same minute,
\* though the conflict rules read the table before the lock (routines.c:230-320,
\* 634-643): what the control task does in between only frees slots.
THEOREM NeverTwoOwners == Spec => []OneOwner
<1>1. TypeInv /\ Peaceful => OneOwner
  BY OnlyOneWants, RoutinesAssumption DEF OneOwner
<1> QED BY <1>1, TypeInvariant, PeaceInvariant, PTL

-----------------------------------------------------------------------------
(* The actions of a pass.                                                  *)

\* At most one slot of a date range acts in a pass, and until it has, no
\* handler has run.
PassInv ==
    /\ \A a, b \in acts : SameDates(a.entry, b.entry) => a = b
    /\ todo \subseteq acts
    /\ pc[Ctrl] = "apply" => \/ \A a \in todo : slots[a.slot] = a.entry
                             \/ \E a \in acts : a \notin todo
    /\ pc[Ctrl] = "bump" => \E a \in acts : a \notin todo

LEMMA PassStep == TypeInv /\ Peaceful /\ PassInv /\ [Next]_vars => PassInv'
<1> SUFFICES ASSUME TypeInv, Peaceful, PassInv, [Next]_vars
             PROVE  PassInv'
  OBVIOUS
<1> USE DEF PassInv
<1>0. pc \in [{Ctrl, Httpd} -> {"idle", "apply", "bump", "store"}] /\ Ctrl # Httpd
  BY DEF TypeInv, TypeOK, Ctrl, Httpd
<1>1. CASE Fire
  <2> DEFINE due == {i \in {k \in Slot : ~Expired(k)} : Judged(i)}
  <2>1. /\ acts' = {[slot |-> i, on |-> Turn(i), entry |-> slots[i]] : i \in due}
        /\ todo' = acts' /\ \A i \in due : slots'[i] = slots[i]
    BY <1>1 DEF Fire
  <2>2. \A i \in due : Wants(slots[i], now)
    <3>1. \A i \in Slot : /\ slots[i] \in Entry \cup {Free} /\ (InUse(slots[i]) => Sound(slots[i]))
                          /\ now \in Nat /\ last[i] \in Nat /\ phase[i] \in BOOLEAN
      BY RoutinesAssumption DEF TypeInv, TypeOK, InUse
    <3>2. \A i \in due : ActsAt(slots[i], now, last[i], phase[i])
      BY <3>1, DueExactly DEF Judged
    <3> QED BY <3>2 DEF ActsAt
  <2>3. now \in Nat
    BY RoutinesAssumption DEF TypeInv, TypeOK
  <2>4. \A i, j \in due : SameDates(slots[i], slots[j]) => i = j
    BY <2>2, <2>3, OnlyOneWants
  <2> HIDE DEF due
  <2>5. \A a \in acts' : \E i \in due : a = [slot |-> i, on |-> Turn(i), entry |-> slots[i]]
    BY <2>1
  <2>6. \A a, b \in acts' : SameDates(a.entry, b.entry) => a = b
    BY <2>4, <2>5
  <2>7. \A a \in todo' : slots'[a.slot] = a.entry
    BY <2>1, <2>5
  <2>8. pc'[Ctrl] = "apply"
    BY <1>0, <1>1 DEF Fire, Goto
  <2> QED BY <2>1, <2>6, <2>7, <2>8
<1>2. ASSUME NEW a \in todo, Apply(a)
      PROVE  PassInv'
  BY <1>0, <1>2 DEF Apply, Goto
<1>3. CASE Applied
  BY <1>0, <1>3 DEF Applied, At, Goto
<1>4. CASE PassDone
  BY <1>0, <1>4 DEF PassDone, Goto
<1>5. ASSUME NEW l, At(Httpd, l), UNCHANGED <<acts, todo>>, Goto(Httpd, "idle") \/ Goto(Httpd, "store")
      PROVE  PassInv'
  <2>1. pc[Ctrl] # "apply"
    BY <1>5 DEF At, CanRun, Blocked, Task, Prio, Ctrl, Httpd, Timer
  <2>2. pc'[Ctrl] = pc[Ctrl]
    BY <1>0, <1>5 DEF Goto
  <2> QED BY <1>5, <2>1, <2>2
<1>6. CASE Request \/ Serve
  <2>1. CASE Request
    BY <1>5, <2>1 DEF Request, PostRoutine, PutRoutine, DeleteRoutine, Accept
  <2>2. CASE Serve
    BY <1>5, <2>2 DEF Serve, Full, Create, Update, Remove, Store
  <2> QED BY <1>6, <2>1, <2>2
<1>7. CASE Tick
  BY <1>7 DEF Tick, table
<1>8. CASE UNCHANGED vars
  BY <1>8 DEF vars, table
<1> QED BY <1>1, <1>2, <1>3, <1>4, <1>6, <1>7, <1>8 DEF Next, Control

\* An action is applied while its slot still holds the routine that was judged
\* (routines.c:507-512), whatever handlers run while relay_set blocks.
THEOREM ActionsHitTheirRoutine == Spec => []ActsOnLive
<1>1. Init => PassInv
  BY DEF Init, PassInv, Ctrl, Httpd
<1>2. PassInv => ActsOnLive
  BY DEF PassInv, ActsOnLive
<1> QED BY <1>1, <1>2, PassStep, TypeInvariant, PeaceInvariant, PTL DEF Spec
=============================================================================
