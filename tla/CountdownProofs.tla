-------------------------- MODULE CountdownProofs --------------------------
(***************************************************************************)
(* Theorems about Countdown: its types; that its two deferred writes lose  *)
(* nothing; and the conditions under which a countdown is neither early    *)
(* nor lost.                                                               *)
(***************************************************************************)
EXTENDS Countdown, Timing, TLAPS

LEMMA RecordTypes ==
    /\ Empty \in Record
    /\ \A x, y \in Times, b, f \in BOOLEAN :
         [active |-> TRUE, target |-> x, on |-> b, due |-> y, fair |-> f] \in Record
    /\ \A b \in Record, w \in Int : Restored(b, w) \in Record
BY CountdownAssumption, ClockAssumption DEF Empty, Record, Times, Restored

\* Every step keeps the types.
LEMMA TypeStep == TypeOK /\ [Next]_vars => TypeOK'
<1> SUFFICES ASSUME TypeOK, [Next]_vars PROVE TypeOK'
  OBVIOUS
<1> USE CountdownAssumption, ClockAssumption DEF Ctrl, Httpd, clockVars, ctrlVars, world
<1>1. CASE Control
  <2>1. CASE Wake
    BY <2>1 DEF Wake, CtrlGoto, Goto, TypeOK
  <2>2. CASE Read
    BY <2>2 DEF Read, CtrlGoto, Goto, TypeOK, Times
  <2>3. CASE Check
    <3>1. copy' \in Record /\ now' \in Times
      BY <2>3, RecordTypes DEF Check, TypeOK, Times
    <3> QED
      BY <2>3, <3>1 DEF Check, CtrlGoto, Goto, TypeOK
  <2>4. CASE Fire
    BY <2>4 DEF Fire, CtrlGoto, Goto, TypeOK
  <2>5. CASE Clear
    BY <2>5, RecordTypes DEF Clear, CtrlGoto, Goto, TypeOK
  <2>6. CASE Fired
    BY <2>6, RecordTypes DEF Fired, CtrlGoto, Goto, TypeOK
  <2>7. CASE Bumped
    BY <2>7 DEF Bumped, CtrlGoto, Goto, TypeOK
  <2>8. CASE FlushErase
    BY <2>8, RecordTypes DEF FlushErase, CtrlGoto, Goto, TypeOK
  <2>9. CASE FlushSave
    BY <2>9 DEF FlushSave, CtrlGoto, Goto, TypeOK
  <2> QED
    BY <1>1, <2>1, <2>2, <2>3, <2>4, <2>5, <2>6, <2>7, <2>8, <2>9 DEF Control
<1>2. CASE Serve
  BY <1>2 DEF Serve, MarkSave, MarkErase, Reply, Goto, TypeOK
<1>3. CASE Request
  <2>1. CASE Cancel
    BY <2>1, RecordTypes DEF Cancel, Goto, TypeOK
  <2>2. ASSUME NEW d \in Durations, NEW on \in BOOLEAN, Set(d, on) PROVE TypeOK'
    <3>1. wall + d \in Times /\ real + d \in Times
      BY <2>2 DEF Set, TypeOK, Times
    <3>2. cd' \in Record
      BY <2>2, <3>1, RecordTypes DEF Set, TypeOK
    <3> QED
      BY <2>2, <3>2 DEF Set, Goto, TypeOK
  <2> QED
    BY <1>3, <2>1, <2>2 DEF Request
<1>4. CASE Tick
  BY <1>4 DEF Tick, TypeOK
<1>5. CASE Sync
  BY <1>5 DEF Sync, TypeOK
<1>6. CASE PowerCut
  <2>1. Restored(nvs, epoch) \in Record
    BY RecordTypes DEF TypeOK
  <2> QED
    <3>1. cd' \in Record /\ nvs' \in Record /\ copy' \in Record
      BY <1>6, <2>1, RecordTypes DEF PowerCut
    <3>2. pc' = [t \in {Ctrl, Httpd} |-> "idle"]
      BY <1>6 DEF PowerCut
    <3>3. wall' \in 0..real' /\ epoch' \in 0..real' /\ now' \in Times
      BY <1>6 DEF PowerCut, TypeOK, Times
    <3>4. /\ real' \in Start..MaxReal /\ boots' \in 0..MaxBoots
          /\ savePending' \in BOOLEAN /\ erasePending' \in BOOLEAN
          /\ synced' \in BOOLEAN /\ timeOk' \in BOOLEAN /\ watched' \in BOOLEAN
      <4>1. boots' \in 0..MaxBoots
        BY <1>6 DEF PowerCut, TypeOK
      <4> QED
        BY <1>6, <4>1 DEF PowerCut, TypeOK
    <3> QED
      BY <3>1, <3>2, <3>3, <3>4 DEF TypeOK
<1>7. CASE UNCHANGED vars
  BY <1>7 DEF vars, TypeOK
<1> QED
  BY <1>1, <1>2, <1>3, <1>4, <1>5, <1>6, <1>7 DEF Next

\* Every variable keeps its type; in particular the wall clock is never ahead
\* of real time.
THEOREM TypeCorrect == Spec => []TypeOK
<1>1. Init => TypeOK
  <2> SUFFICES ASSUME Init PROVE TypeOK
    OBVIOUS
  <2>1. cd \in Record /\ nvs \in Record /\ copy \in Record
    BY RecordTypes DEF Init
  <2>2. epoch \in 0..real /\ wall \in 0..real /\ real \in Start..MaxReal
    BY CountdownAssumption, ClockAssumption DEF Init
  <2> QED
    <3>1. pc = [t \in {Ctrl, Httpd} |-> "idle"]
      BY DEF Init
    <3>2. now \in Times /\ boots \in 0..MaxBoots
      BY CountdownAssumption, ClockAssumption DEF Init, Times
    <3>3. /\ savePending \in BOOLEAN /\ erasePending \in BOOLEAN
          /\ synced \in BOOLEAN /\ timeOk \in BOOLEAN /\ watched \in BOOLEAN
      BY DEF Init
    <3> QED
      BY <2>1, <2>2, <3>1, <3>2, <3>3 DEF TypeOK, Ctrl, Httpd
<1> QED
  BY <1>1, TypeStep, PTL DEF Spec

-----------------------------------------------------------------------------
(* The deferred writes.                                                    *)

\* Strict priority: the HTTP task steps only while the control task sleeps or
\* may block in a notification.
LEMMA HttpdWaits ==
    ASSUME NEW label, At(Httpd, label)
    PROVE  pc[Ctrl] \in Blocking
BY DEF At, CanRun, Prio, Task, Ctrl, Httpd, Timer

LEMMA BlockingLabels == Blocking \subseteq {"idle", "fireBump", "bump"}
BY DEF Blocking

LEMMA DurableStep == TypeOK /\ DurableInv /\ [Next]_vars => DurableInv'
<1> SUFFICES ASSUME TypeOK, DurableInv, [Next]_vars PROVE DurableInv'
  OBVIOUS
<1> USE DEF DurableInv, CountdownDurable, SaveComing, EraseComing, Ctrl, Httpd, TypeOK, Goto,
            clockVars, ctrlVars, world
<1>1. CASE Wake \/ Read \/ Check \/ Fire \/ Bumped
  BY <1>1 DEF Wake, Read, Check, Fire, Bumped, CtrlGoto, At
<1>2. CASE Clear
  BY <1>2 DEF Clear, CtrlGoto, At
<1>3. CASE Fired
  BY <1>3 DEF Fired, CtrlGoto, At
\* An erase comes before the save it must not undo, in the same tick.
<1>4. CASE FlushErase
  BY <1>4 DEF FlushErase, CtrlGoto, At
<1>5. CASE FlushSave
  BY <1>5 DEF FlushSave, CtrlGoto, At
<1>6. CASE Serve
  <2>1. pc[Ctrl] # "save"
    BY <1>6, HttpdWaits, BlockingLabels DEF Serve, MarkSave, MarkErase, Reply
  <2> QED
    BY <1>6, <2>1 DEF Serve, MarkSave, MarkErase, Reply, At
<1>7. CASE Request
  BY <1>7 DEF Request, Cancel, Set, At
<1>8. CASE Tick \/ Sync
  BY <1>8 DEF Tick, Sync
<1>9. CASE PowerCut
  BY <1>9 DEF PowerCut
<1>10. CASE UNCHANGED vars
  BY <1>10 DEF vars
<1> QED
  BY <1>1, <1>2, <1>3, <1>4, <1>5, <1>6, <1>7, <1>8, <1>9, <1>10 DEF Next, Control

\* However requests, the tick and power cuts interleave, flash and RAM differ
\* only while the write that makes them equal is still to come.
THEOREM CountdownIsDurable == Spec => []CountdownDurable
<1>1. Init => DurableInv
  BY DEF Init, DurableInv, CountdownDurable, SaveComing, EraseComing, Ctrl, Httpd
<1>2. DurableInv => CountdownDurable
  BY DEF DurableInv
<1> QED
  BY <1>1, <1>2, DurableStep, TypeCorrect, PTL DEF Spec

-----------------------------------------------------------------------------
(* Neither early nor lost.                                                 *)

LEMMA PunctualStep == TypeOK /\ PunctualInv /\ [Next]_vars => PunctualInv'
<1> SUFFICES ASSUME TypeOK, PunctualInv, [Next]_vars PROVE PunctualInv'
  OBVIOUS
<1> USE DEF PunctualInv, Ctrl, Httpd, TypeOK, Goto, Empty, clockVars, ctrlVars, world
<1>1. CASE Check
  <2>1. pc'[Ctrl] = "fire" => copy' = cd /\ cd.active /\ cd.target <= wall
    BY <1>1 DEF Check, CtrlGoto, Expired, Record, Times
  <2>2. wall' = wall /\ real' = real /\ synced' = synced /\ now' = 0
    BY <1>1 DEF Check, CtrlGoto
  <2>3. \A c \in {cd', nvs', copy'} : c.active /\ c.fair => c.target >= c.due
    BY <1>1 DEF Check
  <2> QED
    BY <2>1, <2>2, <2>3
<1>2. CASE Control /\ ~Check
  <2>1. pc'[Ctrl] # "fire"
    BY <1>2 DEF Control, Wake, Read, Fire, Clear, Fired, Bumped, FlushErase, FlushSave, CtrlGoto
  <2>2. wall' = wall /\ real' = real /\ synced' = synced /\ now' <= wall
    BY <1>2 DEF Control, Wake, Read, Fire, Clear, Fired, Bumped, FlushErase, FlushSave, CtrlGoto
  <2>3. {cd', nvs', copy'} \subseteq {cd, nvs, copy, Empty}
    BY <1>2 DEF Control, Wake, Read, Fire, Clear, Fired, Bumped, FlushErase, FlushSave
  <2> QED
    BY <2>1, <2>2, <2>3
<1>3. CASE Serve
  BY <1>3 DEF Serve, MarkSave, MarkErase, Reply
<1>4. CASE Cancel
  BY <1>4 DEF Cancel
\* The only place a target comes from: on a synchronised clock it is the due time.
<1>5. ASSUME NEW d \in Durations, NEW on \in BOOLEAN, Set(d, on) PROVE PunctualInv'
  <2>1. synced => wall = real
    OBVIOUS
  <2> QED
    BY <1>5, <2>1, CountdownAssumption, ClockAssumption DEF Set
<1>6. CASE Tick
  <2>1. now' <= wall'
    BY <1>6, CountdownAssumption, ClockAssumption DEF Tick, Times
  <2>2. pc'[Ctrl] = "fire" => copy'.active /\ copy'.target <= wall'
    BY <1>6 DEF Tick, Record, Times
  <2> QED
    BY <1>6, <2>1, <2>2 DEF Tick
<1>7. CASE Sync
  <2>1. wall <= wall'
    BY <1>7 DEF Sync
  <2>2. now' <= wall'
    BY <1>7, <2>1 DEF Sync, Times
  <2>3. pc'[Ctrl] = "fire" => copy'.active /\ copy'.target <= wall'
    BY <1>7, <2>1 DEF Sync, Record, Times
  <2> QED
    BY <1>7, <2>2, <2>3 DEF Sync
<1>8. CASE PowerCut
  BY <1>8 DEF PowerCut, Restored
<1>9. CASE UNCHANGED vars
  BY <1>9 DEF vars
<1> QED
  BY <1>1, <1>2, <1>3, <1>4, <1>5, <1>6, <1>7, <1>8, <1>9 DEF Next, Request

LEMMA PunctualAlways == Spec => []PunctualInv
<1>1. Init => PunctualInv
  BY CountdownAssumption, ClockAssumption DEF Init, PunctualInv, Empty, Ctrl, Httpd
<1>2. TypeOK /\ PunctualInv /\ [Next]_vars => PunctualInv'
  BY PunctualStep
<1> QED
  BY <1>1, <1>2, TypeCorrect, PTL DEF Spec

\* No countdown set on a synchronised clock fires before its duration is over,
\* power cuts and stale boot clocks included.
THEOREM SyncedNeverEarly == Spec => []NotEarly
<1>1. TypeOK /\ PunctualInv => NotEarly
  BY DEF TypeOK, PunctualInv, NotEarly, Record, Times
<1> QED
  BY <1>1, PunctualAlways, TypeCorrect, PTL

LEMMA UndisturbedStep == TypeOK /\ UndisturbedInv /\ [Next]_vars => UndisturbedInv'
<1> SUFFICES ASSUME TypeOK, UndisturbedInv, [Next]_vars PROVE UndisturbedInv'
  OBVIOUS
<1> USE DEF UndisturbedInv, Ctrl, Httpd, TypeOK, Goto, clockVars, ctrlVars, world
<1>1. CASE Control
  BY <1>1 DEF Control, Wake, Read, Check, Fire, Clear, Fired, Bumped, FlushErase, FlushSave,
              CtrlGoto, At
<1>2. ASSUME Serve \/ Request PROVE UndisturbedInv'
  <2>1. PICK label \in {"idle", "markSave", "markErase", "bump"} : At(Httpd, label)
    BY <1>2 DEF Serve, MarkSave, MarkErase, Reply, Request, Cancel, Set
  <2>2. ~watched => pc[Ctrl] = "idle"
    BY <2>1, HttpdWaits DEF Blocking
  <2>3. pc'[Ctrl] = pc[Ctrl] /\ watched' = watched
    BY <1>2 DEF Serve, MarkSave, MarkErase, Reply, Request, Cancel, Set
  <2> QED
    BY <2>2, <2>3
<1>3. CASE Tick \/ Sync
  BY <1>3 DEF Tick, Sync
<1>4. CASE PowerCut
  BY <1>4 DEF PowerCut
<1>5. CASE UNCHANGED vars
  BY <1>5 DEF vars
<1> QED
  BY <1>1, <1>2, <1>3, <1>4, <1>5 DEF Next

\* With no SSE client registered, the countdown that is cleared is the one that
\* fired.
THEOREM QuietNeverLoses == Spec => []NotLost
<1>1. Init => UndisturbedInv
  BY DEF Init, UndisturbedInv, Ctrl, Httpd
<1>2. UndisturbedInv => NotLost
  BY DEF UndisturbedInv, NotLost
<1>3. TypeOK /\ UndisturbedInv /\ [Next]_vars => UndisturbedInv'
  BY UndisturbedStep
<1> QED
  BY <1>1, <1>2, <1>3, TypeCorrect, PTL DEF Spec

-----------------------------------------------------------------------------
(* timing.c.                                                               *)

\* Every step keeps the types: the health check counts below its limit, and
\* neither the clock nor the saved epoch is ever ahead of real time.
LEMMA TimingTypeStep ==
    ASSUME TimingTypeOK, [TimingNext]_timingVars
    PROVE  TimingTypeOK'
<1> USE TimingAssumption, ClockAssumption DEF TimingTypeOK, ntpVars, timeVars, zoneVars, bounds
<1>1. CASE GotIp \/ NtpStart \/ HealthStart \/ Poll \/ CheckAnswered
  <2>1. CASE GotIp
    BY <2>1 DEF GotIp
  <2>2. CASE NtpStart
    BY <2>2 DEF NtpStart
  <2>3. CASE HealthStart
    <3>1. checks' \in 0..(MaxChecks - 1)
      BY <2>3 DEF HealthStart
    <3> QED
      BY <2>3, <3>1 DEF HealthStart
  <2>4. CASE Poll
    BY <2>4 DEF Poll
  <2>5. CASE CheckAnswered
    BY <2>5 DEF CheckAnswered
  <2> QED
    BY <1>1, <2>1, <2>2, <2>3, <2>4, <2>5
<1>2. CASE Answer
  BY <1>2 DEF Answer
<1>3. CASE CheckSilent
  <2>1. checks' \in 0..(MaxChecks - 1) /\ sntp' \in {"asking", sntp}
    BY <1>3 DEF CheckSilent
  <2> QED
    BY <1>3, <2>1 DEF CheckSilent
<1>4. CASE RoutinesSync
  BY <1>4 DEF RoutinesSync
<1>5. ASSUME NEW z \in Zones, SetTimezone(z) PROVE TimingTypeOK'
  BY <1>5 DEF SetTimezone
<1>6. ASSUME NEW ok \in BOOLEAN, SaveTimezone(ok) PROVE TimingTypeOK'
  BY <1>6 DEF SaveTimezone
<1>7. CASE LoseLink
  <2>1. losses' \in 0..MaxLosses
    BY <1>7 DEF LoseLink
  <2> QED
    BY <1>7, <2>1 DEF LoseLink
<1>8. CASE Pass
  BY <1>8 DEF Pass
<1>9. CASE Reboot
  <2>1. boots' \in 0..MaxBoots /\ wall' \in 0..real'
    BY <1>9 DEF Reboot, Boot
  <2>2. checks' \in 0..(MaxChecks - 1)
    BY <1>9 DEF Reboot, Boot
  <2> QED
    BY <1>9, <2>1, <2>2 DEF Reboot, Boot
<1>10. CASE UNCHANGED timingVars
  BY <1>10 DEF timingVars
<1> QED
  BY <1>1, <1>2, <1>3, <1>4, <1>5, <1>6, <1>7, <1>8, <1>9, <1>10 DEF TimingNext, Health

\* timing.c keeps its types.
THEOREM TimingTypes == TimingSpec => []TimingTypeOK
<1>1. TimingInit => TimingTypeOK
  <2> SUFFICES ASSUME TimingInit PROVE TimingTypeOK
    OBVIOUS
  <2>1. /\ checks \in 0..(MaxChecks - 1) /\ wall \in 0..real /\ epoch \in 0..real
        /\ real \in Start..MaxReal /\ losses \in 0..MaxLosses /\ boots \in 0..MaxBoots
    BY TimingAssumption, ClockAssumption DEF TimingInit
  <2> QED
    BY <2>1 DEF TimingInit, TimingTypeOK
<1> QED
  BY <1>1, TimingTypeStep, PTL DEF TimingSpec

\* One fact serves the three readers of an answer: the callback's flag, the
\* status of SNTP and s_time_ok each tell of a clock that is right.
LEMMA RightStep ==
    ASSUME RightInv, [TimingNext]_timingVars
    PROVE  RightInv'
<1> USE DEF RightInv, ntpVars, timeVars, zoneVars, bounds
\* SNTP sets the clock before it tells anybody.
<1>1. CASE Answer
  BY <1>1 DEF Answer
\* Forgetting an answer leaves the clock alone, and so does finding one.
<1>2. CASE HealthStart \/ Health
  BY <1>2 DEF HealthStart, Health, CheckAnswered, CheckSilent
<1>3. CASE RoutinesSync
  BY <1>3 DEF RoutinesSync
<1>4. CASE Pass
  BY <1>4 DEF Pass
\* A restart has every reader start from "not known".
<1>5. CASE Reboot
  BY <1>5 DEF Reboot, Boot
<1>6. CASE GotIp \/ NtpStart \/ Poll \/ LoseLink
  BY <1>6 DEF GotIp, NtpStart, Poll, LoseLink
<1>7. CASE (\E z \in Zones : SetTimezone(z)) \/ (\E ok \in BOOLEAN : SaveTimezone(ok))
  BY <1>7 DEF SetTimezone, SaveTimezone
<1>8. CASE UNCHANGED timingVars
  BY <1>8 DEF timingVars
<1> QED
  BY <1>1, <1>2, <1>3, <1>4, <1>5, <1>6, <1>7, <1>8 DEF TimingNext

LEMMA RightAlways == TimingSpec => []RightInv
<1>1. TimingInit => RightInv
  BY DEF TimingInit, RightInv
<1> QED
  BY <1>1, RightStep, PTL DEF TimingSpec

\* Nothing is timed on the seeded clock: when s_time_ok is set the clock is
\* right, whatever is lost, forgotten or restarted.
THEOREM ClockIsRight == TimingSpec => []ClockRight
<1>1. RightInv => ClockRight
  BY DEF RightInv, ClockRight
<1> QED
  BY <1>1, RightAlways, PTL

LEMMA AskedStep ==
    ASSUME AskedInv, [TimingNext]_timingVars
    PROVE  AskedInv'
<1> USE DEF AskedInv, NotForgotten, ntpVars, timeVars, zoneVars, bounds
<1>1. CASE NtpStart
  BY <1>1 DEF NtpStart
\* The flag is forgotten, the status is not: the next check finds it.
<1>2. CASE HealthStart
  BY <1>2 DEF HealthStart
<1>3. CASE Answer
  BY <1>3 DEF Answer
\* A check takes the status only when it sets the flag.
<1>4. CASE Health
  BY <1>4 DEF Health, CheckAnswered, CheckSilent
<1>5. CASE GotIp \/ Poll \/ RoutinesSync \/ LoseLink \/ Pass
  BY <1>5 DEF GotIp, Poll, RoutinesSync, LoseLink, Pass
<1>6. CASE Reboot
  BY <1>6 DEF Reboot, Boot
<1>7. CASE (\E z \in Zones : SetTimezone(z)) \/ (\E ok \in BOOLEAN : SaveTimezone(ok))
  BY <1>7 DEF SetTimezone, SaveTimezone
<1>8. CASE UNCHANGED timingVars
  BY <1>8 DEF timingVars
<1> QED
  BY <1>1, <1>2, <1>3, <1>4, <1>5, <1>6, <1>7, <1>8 DEF TimingNext

\* An answer that came before the health check is not lost with the flag.
THEOREM AnswerNotForgotten == TimingSpec => []NotForgotten
<1>1. TimingInit => AskedInv
  BY DEF TimingInit, AskedInv, NotForgotten
<1>2. AskedInv => NotForgotten
  BY DEF AskedInv
<1> QED
  BY <1>1, <1>2, AskedStep, PTL DEF TimingSpec

\* The safety half of Activates: on a link without a synchronised clock SNTP
\* is being started or a check is coming.
THEOREM LinkIsWatched == TimingSpec => []Watched
<1> USE DEF Watched, ntpVars, timeVars, zoneVars, bounds
<1>1. TimingInit => Watched
  BY DEF TimingInit
<1>2. ASSUME Watched, [TimingNext]_timingVars PROVE Watched'
  <2>1. CASE GotIp \/ NtpStart \/ HealthStart
    BY <1>2, <2>1 DEF GotIp, NtpStart, HealthStart
  <2>2. CASE Answer \/ Poll \/ Health \/ RoutinesSync
    BY <1>2, <2>2 DEF Answer, Poll, Health, CheckAnswered, CheckSilent, RoutinesSync
  <2>3. CASE LoseLink \/ Pass \/ Reboot
    BY <1>2, <2>3 DEF LoseLink, Pass, Reboot, Boot
  <2>4. CASE (\E z \in Zones : SetTimezone(z)) \/ (\E ok \in BOOLEAN : SaveTimezone(ok))
    BY <1>2, <2>4 DEF SetTimezone, SaveTimezone
  <2>5. CASE UNCHANGED timingVars
    BY <1>2, <2>5 DEF timingVars
  <2> QED
    BY <1>2, <2>1, <2>2, <2>3, <2>4, <2>5 DEF TimingNext
<1> QED
  BY <1>1, <1>2, PTL DEF TimingSpec

\* A timezone a client was told of survives every power cut; the order of the
\* two writes and a write that fails make no exception.
THEOREM ZoneIsKept == TimingSpec => ZoneKept
<1> USE DEF ToldInv, ntpVars, timeVars, zoneVars, bounds
<1>1. TimingInit => ToldInv
  BY DEF TimingInit
<1>2. ASSUME ToldInv, [TimingNext]_timingVars PROVE ToldInv'
  <2>1. CASE GotIp \/ NtpStart \/ HealthStart \/ Answer \/ Poll \/ Health \/ RoutinesSync
    BY <1>2, <2>1 DEF GotIp, NtpStart, HealthStart, Answer, Poll, Health,
                      CheckAnswered, CheckSilent, RoutinesSync
  <2>2. CASE (\E z \in Zones : SetTimezone(z)) \/ (\E ok \in BOOLEAN : SaveTimezone(ok))
    BY <1>2, <2>2 DEF SetTimezone, SaveTimezone
  <2>3. CASE LoseLink \/ Pass
    BY <1>2, <2>3 DEF LoseLink, Pass
  <2>4. CASE Reboot
    BY <2>4 DEF Reboot
  <2>5. CASE UNCHANGED timingVars
    BY <1>2, <2>5 DEF timingVars
  <2> QED
    BY <1>2, <2>1, <2>2, <2>3, <2>4, <2>5 DEF TimingNext
\* The only step that changes boots is a power cut, which reads flash.
<1>3. ASSUME ToldInv, [TimingNext]_timingVars
      PROVE  [boots' # boots /\ told => zone' = zone]_timingVars
  <2> SUFFICES ASSUME boots' # boots, told PROVE zone' = zone
    OBVIOUS
  <2>1. Reboot
    BY <1>3 DEF TimingNext, timingVars, GotIp, NtpStart, HealthStart, Answer, Poll, Health,
                CheckAnswered, CheckSilent, RoutinesSync, SetTimezone, SaveTimezone, LoseLink,
                Pass
  <2> QED
    BY <1>3, <2>1 DEF Reboot
<1> QED
  BY <1>1, <1>2, <1>3, PTL DEF TimingSpec, ZoneKept

-----------------------------------------------------------------------------
(* The clock that both modules have.                                       *)

\* Only a clock that is right is saved, and only such a value is taken up again.
SavedInv == epoch = 0 \/ epoch >= Threshold

LEMMA TimingClockStep ==
    ASSUME TimingTypeOK, RightInv, SavedInv, [TimingNext]_timingVars
    PROVE  [ClockNext]_clock /\ SavedInv'
<1> USE DEF SavedInv, clock
<1>1. CASE Answer
  <2>1. wall <= real
    BY ClockAssumption DEF TimingTypeOK
  <2>2. Correct
    BY <1>1, <2>1 DEF Answer, Correct, bounds
  <2> QED
    BY <1>1, <2>2 DEF ClockNext, Answer
<1>2. CASE RoutinesSync
  <2>1. wall = real
    BY <1>2 DEF RoutinesSync, RightInv
  <2>2. real >= Threshold /\ ~(wall < Threshold)
    BY <2>1, ClockAssumption DEF TimingTypeOK
  <2>3. Save
    BY <1>2, <2>1, <2>2 DEF RoutinesSync, Save, bounds
  <2> QED
    BY <1>2, <2>1, <2>2, <2>3 DEF ClockNext, Save
<1>3. CASE Pass
  <2>1. Run
    BY <1>3 DEF Pass, Run
  <2> QED
    BY <1>3, <2>1 DEF ClockNext, Pass
\* What is in flash was saved: it never fails the test that seeding makes.
<1>4. CASE Reboot
  <2>1. wall' = epoch
    BY <1>4, ClockAssumption DEF Reboot, Boot, TimingTypeOK
  <2>2. Restart
    BY <1>4, <2>1 DEF Reboot, Restart
  <2> QED
    BY <1>4, <2>2 DEF ClockNext, Reboot
<1>5. CASE \/ GotIp \/ NtpStart \/ HealthStart \/ Poll \/ Health \/ LoseLink
           \/ \E z \in Zones : SetTimezone(z)
           \/ \E ok \in BOOLEAN : SaveTimezone(ok)
  <2>1. UNCHANGED clock
    BY <1>5 DEF GotIp, NtpStart, HealthStart, Poll, Health, CheckAnswered,
                CheckSilent, LoseLink, SetTimezone, SaveTimezone, timeVars, bounds
  <2> QED
    BY <2>1
<1>6. CASE UNCHANGED timingVars
  BY <1>6 DEF timingVars, timeVars, bounds
<1> QED
  BY <1>1, <1>2, <1>3, <1>4, <1>5, <1>6 DEF TimingNext

\* timing.c keeps the promise: four tasks, an answer forgotten and found again
\* and power cuts make no other clock than one that runs, is set right forwards,
\* is saved when it is right and starts from what was saved.
THEOREM TimingIsClock == TimingSpec => ClockSpec
<1>1. TimingInit => ClockInit /\ SavedInv
  BY ClockAssumption DEF TimingInit, ClockInit, SavedInv
<1>2. TimingTypeOK /\ RightInv /\ SavedInv /\ [TimingNext]_timingVars => [ClockNext]_clock /\ SavedInv'
  BY TimingClockStep
<1> QED
  BY <1>1, <1>2, TimingTypes, RightAlways, PTL DEF TimingSpec, ClockSpec

LEMMA CountdownClockStep ==
    ASSUME TypeOK, PunctualInv, [Next]_vars
    PROVE  [ClockNext]_clock
<1> USE DEF clock
<1>1. CASE Wake
  <2>1. synced => wall = real
    BY DEF PunctualInv
  <2>2. Save \/ UNCHANGED clock
    BY <1>1, <2>1 DEF Wake, CtrlGoto, world, Save
  <2> QED
    BY <2>2 DEF ClockNext
<1>2. CASE Control /\ ~Wake
  <2>1. UNCHANGED clock
    BY <1>2 DEF Control, Read, Check, Fire, Clear, Fired, Bumped, FlushErase, FlushSave, CtrlGoto,
                world
  <2> QED
    BY <2>1
<1>3. CASE Serve \/ Request
  <2>1. UNCHANGED clock
    BY <1>3 DEF Serve, MarkSave, MarkErase, Reply, Request, Cancel, Set, clockVars, world
  <2> QED
    BY <2>1
<1>4. CASE Tick
  <2>1. Run
    BY <1>4 DEF Tick, Run, world
  <2> QED
    BY <2>1 DEF ClockNext
<1>5. CASE Sync
  <2>1. wall <= real
    BY CountdownAssumption, ClockAssumption DEF TypeOK
  <2>2. Correct
    BY <1>5, <2>1 DEF Sync, Correct, world
  <2> QED
    BY <2>2 DEF ClockNext
<1>6. CASE PowerCut
  <2>1. Restart
    BY <1>6 DEF PowerCut, Restart
  <2> QED
    BY <2>1 DEF ClockNext
<1>7. CASE UNCHANGED vars
  BY <1>7 DEF vars, clockVars, world
<1> QED
  BY <1>1, <1>2, <1>3, <1>4, <1>5, <1>6, <1>7 DEF Next

\* The clock that countdowns are modelled on is no other: what is proved of them
\* does not rest on a clock timing.c does not provide.
THEOREM CountdownUsesClock == Spec => ClockSpec
<1>1. Init => ClockInit
  BY CountdownAssumption, ClockAssumption DEF Init, ClockInit
<1>2. TypeOK /\ PunctualInv /\ [Next]_vars => [ClockNext]_clock
  BY CountdownClockStep
<1> QED
  BY <1>1, <1>2, PunctualAlways, TypeCorrect, PTL DEF Spec, ClockSpec

\* What such a clock is good for: within a boot it never goes back, so that
\* time that was over stays over, and it is never ahead of real time.
THEOREM ClockForward ==
    ClockSpec => [](wall <= real /\ epoch <= real) /\ [][boots' = boots => wall <= wall']_clock
<1> DEFINE Behind == real \in Nat /\ wall \in 0..real /\ epoch \in 0..real /\ boots \in Nat
<1>1. ClockInit => Behind
  BY DEF ClockInit
<1>2. Behind /\ [ClockNext]_clock => Behind'
  BY DEF ClockNext, Run, Correct, Save, Restart, clock
<1>3. Behind /\ [ClockNext]_clock => [boots' = boots => wall <= wall']_clock
  BY DEF ClockNext, Run, Correct, Save, Restart, clock
<1>4. Behind => wall <= real /\ epoch <= real
  OBVIOUS
<1> HIDE DEF Behind
<1> QED
  BY <1>1, <1>2, <1>3, <1>4, PTL DEF ClockSpec

\* A boot takes the clock back, but never before the epoch last saved: what is
\* saved is a time that was over.
LEMMA SavedIsOver == ClockSpec => [](epoch <= wall)
<1> DEFINE Over == real \in Nat /\ wall \in 0..real /\ epoch \in 0..wall
<1>1. ClockInit => Over
  BY DEF ClockInit
<1>2. Over /\ [ClockNext]_clock => Over'
  BY DEF ClockNext, Run, Correct, Save, Restart, clock
<1>3. Over => epoch <= wall
  OBVIOUS
<1> HIDE DEF Over
<1> QED
  BY <1>1, <1>2, <1>3, PTL DEF ClockSpec

-----------------------------------------------------------------------------
(* Power cuts.                                                             *)

\* A countdown that is neither due nor waiting to be written comes back as it
\* was: flash holds it, and the clock the boot starts from has not passed it.
THEOREM PowerCutKeepsCountdown == Spec => CountdownSurvives
<1> DEFINE Survives ==
             boots' # boots /\ epoch >= Threshold /\ ~SaveComing /\ ~EraseComing
               /\ cd.active /\ cd.target > wall => cd' = cd
<1>1. Spec => [](epoch <= wall)
  BY CountdownUsesClock, SavedIsOver
<1>2. Init => DurableInv
  BY DEF Init, DurableInv, CountdownDurable, SaveComing, EraseComing, Ctrl, Httpd
<1>3. TypeOK /\ DurableInv /\ epoch <= wall /\ [Next]_vars => [Survives]_vars
  <2> SUFFICES ASSUME TypeOK, DurableInv, epoch <= wall, [Next]_vars, boots' # boots,
                      epoch >= Threshold, ~SaveComing, ~EraseComing,
                      cd.active, cd.target > wall
               PROVE  cd' = cd
    OBVIOUS
  <2>1. PowerCut
    BY DEF Next, Control, Wake, Read, Check, Fire, Clear, Fired, Bumped, FlushErase, FlushSave,
           CtrlGoto, Serve, MarkSave, MarkErase, Reply, Request, Cancel, Set, Tick, Sync,
           vars, world
  <2>2. nvs = cd
    BY DEF DurableInv, CountdownDurable
  <2>3. cd.target > epoch
    BY ClockAssumption DEF TypeOK, Record, Times
  <2> QED
    BY <2>1, <2>2, <2>3 DEF PowerCut, Restored
<1> QED
  BY <1>1, <1>2, <1>3, DurableStep, TypeCorrect, PTL DEF Spec, CountdownSurvives
=============================================================================
