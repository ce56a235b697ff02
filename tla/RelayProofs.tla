---------------------------- MODULE RelayProofs ----------------------------
(***************************************************************************)
(* Theorems about Relay: its types, that the deferred write loses nothing, *)
(* that the auto-off cuts only what it checked, and what a power cut keeps.*)
(***************************************************************************)
EXTENDS Relay, TLAPS

\* The values a step stores in the configuration have the type of Config.
LEMMA ConfigTypes ==
    /\ NoDelay \in Delays
    /\ Cleared \in Config
    /\ Armings \subseteq Config
    /\ \A c, d \in Config : [c EXCEPT !.delay.h = d.delay.h] \in Config
    /\ \A c, d \in Config : [c EXCEPT !.delay.s = d.delay.s] \in Config
    /\ \A c, d \in Config : [c EXCEPT !.enabled = d.enabled] \in Config
<1>1. NoDelay \in Delays
  BY DEF Delays, NoDelay
<1>2. \A d \in Settings : d \in Delays
  BY SettingsAssumption DEF Delays
<1>3. \A c \in Config : c.delay \in Delays /\ c.enabled \in BOOLEAN
  BY DEF Config
<1>4. \A c, d \in Config : [c EXCEPT !.delay.h = d.delay.h] \in Config
  <2> TAKE c \in Config, d \in Config
  <2>1. [c.delay EXCEPT !.h = d.delay.h] \in Delays
    BY <1>3 DEF Delays
  <2> QED
    BY <2>1 DEF Config
<1>5. \A c, d \in Config : [c EXCEPT !.delay.s = d.delay.s] \in Config
  <2> TAKE c \in Config, d \in Config
  <2>1. [c.delay EXCEPT !.s = d.delay.s] \in Delays
    BY <1>3 DEF Delays
  <2> QED
    BY <2>1 DEF Config
<1>6. \A c, d \in Config : [c EXCEPT !.enabled = d.enabled] \in Config
  BY DEF Config
<1>7. Cleared \in Config
  BY <1>1 DEF Config, Cleared
<1>8. Armings \subseteq Config
  <2> SUFFICES ASSUME NEW d \in Settings PROVE [delay |-> d, enabled |-> TRUE] \in Config
    BY DEF Armings
  <2> QED
    BY <1>2 DEF Config
<1> QED
  BY <1>1, <1>4, <1>5, <1>6, <1>7, <1>8

\* What a boot reads from well-typed flash is well typed.
LEMMA BootTypes ==
    ASSUME NEW n, n.relay \in BOOLEAN, n.boot \in BootModes
    PROVE  BootRelay(n) \in BOOLEAN /\ BootStamp(n) \in Ages \cup {Never}
BY BootAssumption, SettingsAssumption DEF BootRelay, BootStamp, Ages, Never

LEMMA AgeTypes ==
    /\ 0 \in Ages /\ AgeCap \in Ages
    /\ \A a \in Ages : Older(a) \in Ages
    /\ \A a \in Ages \cup {Never} : Older(a) \in Ages \cup {Never}
BY SettingsAssumption DEF Ages, Older, Never

-----------------------------------------------------------------------------
\* Every step of every task keeps the types.
LEMMA TypeStep == TypeOK /\ [Next]_vars => TypeOK'
<1> SUFFICES ASSUME TypeOK, [Next]_vars PROVE TypeOK'
  OBVIOUS
<1> USE DEF Task, Ctrl, Httpd, Timer, Labels
<1>1. ASSUME NEW t \in Task, RelaySet(t) PROVE TypeOK'
  <2>1. CASE SetRelay(t) \/ SetToggled(t)
    <3>1. PICK on \in BOOLEAN : Store(t, on)
      BY <2>1 DEF SetRelay, SetToggled, TypeOK
    <3>2. age' \in Ages /\ pc' \in [Task -> Labels]
      BY <3>1, AgeTypes DEF Store, Goto, TypeOK
    <3> QED
      BY <3>1, <3>2 DEF Store, TypeOK
  <2>2. CASE Rearm(t)
    BY <2>2 DEF Rearm, Goto, TypeOK
  <2>3. CASE Stamp(t)
    BY <2>3, AgeTypes DEF Stamp, Goto, TypeOK
  <2>4. CASE Mark(t)
    BY <2>4 DEF Mark, Goto, TypeOK
  <2>5. CASE Bumped(t)
    BY <2>5 DEF Bumped, Goto, TypeOK, devVars
  <2> QED
    BY <1>1, <2>1, <2>2, <2>3, <2>4, <2>5 DEF RelaySet
<1>2. ASSUME Control PROVE TypeOK'
  <2>1. CASE Wake
    BY <2>1 DEF Wake, CtrlGoto, Goto, TypeOK
  <2>2. ASSUME NEW on \in Timed, TimedFire(on) PROVE TypeOK'
    BY <2>2, BootAssumption DEF TimedFire, Call, Goto, TypeOK, devVars
  <2>3. CASE TimedPass
    BY <2>3 DEF TimedPass, CtrlGoto, Goto, TypeOK
  <2>4. CASE AutoOffFire
    BY <2>4 DEF AutoOffFire, Call, Goto, TypeOK, devVars
  <2>5. CASE AutoOffPass
    BY <2>5 DEF AutoOffPass, CtrlGoto, Goto, TypeOK
  <2>6. CASE AutoOffFired
    BY <2>6 DEF AutoOffFired, CtrlGoto, Goto, TypeOK
  <2>7. CASE PersistTick
    BY <2>7 DEF PersistTick, CtrlGoto, Goto, TypeOK
  <2>8. CASE Flush
    BY <2>8 DEF Flush, CtrlGoto, Goto, TypeOK
  <2>9. CASE Commit
    BY <2>9 DEF Commit, CtrlGoto, Goto, TypeOK
  <2> QED
    BY <1>1, <1>2, <2>1, <2>2, <2>3, <2>4, <2>5, <2>6, <2>7, <2>8, <2>9 DEF Control
<1>3. ASSUME Serve PROVE TypeOK'
  <2>1. CASE CfgHour
    BY <2>1, ConfigTypes DEF CfgHour, CfgStep, Goto, TypeOK
  <2>2. CASE CfgSec
    BY <2>2, ConfigTypes DEF CfgSec, CfgStep, Goto, TypeOK
  <2>3. CASE CfgArm
    BY <2>3, ConfigTypes DEF CfgArm, CfgStep, Goto, TypeOK
  <2>4. CASE CfgFired
    BY <2>4 DEF CfgFired, CfgStep, Goto, TypeOK
  <2>5. CASE CfgSave
    BY <2>5, ConfigTypes DEF CfgSave, CfgStep, Goto, TypeOK
  <2>6. CASE BootSave
    BY <2>6 DEF BootSave, Goto, TypeOK, devVars
  <2> QED
    BY <1>1, <1>3, <2>1, <2>2, <2>3, <2>4, <2>5, <2>6 DEF Serve
<1>4. ASSUME Request PROVE TypeOK'
  <2>1. ASSUME NEW on \in BOOLEAN, PostRelay(on) PROVE TypeOK'
    BY <2>1 DEF PostRelay, Call, Goto, TypeOK, devVars
  <2>2. ASSUME NEW c \in Armings \cup {Cleared}, Configure(c) PROVE TypeOK'
    BY <2>2, ConfigTypes DEF Configure, Goto, TypeOK, devVars
  <2>3. ASSUME NEW m \in BootModes, PutBoot(m) PROVE TypeOK'
    BY <2>3 DEF PutBoot, Goto, TypeOK
  <2>4. ASSUME NEW t \in {Httpd, Timer}, Toggle(t) PROVE TypeOK'
    BY <2>4 DEF Toggle, Call, Goto, TypeOK, devVars
  <2> QED
    BY <1>4, <2>1, <2>2, <2>3, <2>4 DEF Request
<1>5. CASE Tick
  BY <1>5, AgeTypes DEF Tick, TypeOK, callVars
<1>6. CASE ClockSet
  BY <1>6 DEF ClockSet, TypeOK, devVars, callVars
<1>7. CASE PowerCut
  <2>1. nvs.relay \in BOOLEAN /\ nvs.aoff \in Config /\ nvs.boot \in BootModes
    BY DEF TypeOK
  <2>2. BootRelay(nvs) \in BOOLEAN /\ BootStamp(nvs) \in Ages \cup {Never}
    BY <2>1, BootTypes
  <2>3. boots + 1 \in 0..MaxBoots
    BY <1>7, BootAssumption DEF PowerCut, TypeOK
  <2>4. /\ pc' \in [Task -> Labels] /\ arg' \in [Task -> BOOLEAN]
        /\ ret' \in {"idle", "aoff", "fired", "persist"}
    BY <1>7 DEF PowerCut
  <2>5. age' \in Ages /\ tracked' \in BOOLEAN /\ clockOk' \in BOOLEAN
    BY <1>7, <2>1, AgeTypes, BootAssumption DEF PowerCut
  <2> QED
    BY <1>7, <2>1, <2>2, <2>3, <2>4, <2>5, ConfigTypes DEF PowerCut, TypeOK
<1>8. CASE UNCHANGED vars
  BY <1>8 DEF vars, devVars, callVars, TypeOK
<1> QED
  BY <1>1, <1>2, <1>3, <1>4, <1>5, <1>6, <1>7, <1>8 DEF Next

\* Every variable keeps its type, for every choice of the constants.
THEOREM TypeCorrect == Spec => []TypeOK
<1>1. Init => TypeOK
  <2> SUFFICES ASSUME Init PROVE TypeOK
    OBVIOUS
  <2>1. /\ nvs.relay \in BOOLEAN /\ nvs.aoff \in Config /\ nvs.boot \in BootModes
        /\ nvs \in [relay : BOOLEAN, aoff : Config, boot : BootModes]
    BY ConfigTypes, BootAssumption DEF Init
  <2>2. BootRelay(nvs) \in BOOLEAN /\ BootStamp(nvs) \in Ages \cup {Never}
    BY <2>1, BootTypes
  <2>3. pc \in [Task -> Labels] /\ arg \in [Task -> BOOLEAN]
    BY DEF Init, Labels
  <2>4. age \in Ages /\ tracked \in BOOLEAN /\ clockOk \in BOOLEAN
    BY <2>1, AgeTypes, BootAssumption DEF Init
  <2>5. aoff \in Config /\ cfg \in Config /\ bootMode \in BootModes
    BY <2>1, ConfigTypes DEF Init
  <2>6. boots \in 0..MaxBoots
    BY BootAssumption DEF Init
  <2> QED
    BY <2>1, <2>2, <2>3, <2>4, <2>5, <2>6, ConfigTypes, BootAssumption DEF Init, TypeOK
<1> QED
  BY <1>1, TypeStep, PTL DEF Spec

-----------------------------------------------------------------------------
(* The deferred write.                                                     *)

DurableIInv == TypeOK /\ DurableInv

\* A relay_set keeps the promise at each of its steps: from the store on, its
\* own label is what makes a save to come; then the flag is.
LEMMA DurableRelaySet ==
    ASSUME NEW t \in Task, DurableIInv, RelaySet(t) PROVE DurableInv'
<1> USE DEF Task, Ctrl, Httpd, Timer, DurableIInv, DurableInv, SaveComing
<1>1. CASE SetRelay(t) \/ SetToggled(t)
  <2>1. PICK on \in BOOLEAN : Store(t, on)
    BY <1>1 DEF SetRelay, SetToggled, TypeOK
  <2>2. pc'[t] \in {"rearm", "mark"}
    BY <2>1 DEF Store, Goto, TypeOK
  <2> QED
    BY <2>2
<1>2. CASE Rearm(t)
  BY <1>2 DEF Rearm, Goto, TypeOK
<1>3. CASE Stamp(t)
  BY <1>3 DEF Stamp, Goto, TypeOK
<1>4. CASE Mark(t)
  BY <1>4 DEF Mark
<1>5. CASE Bumped(t)
  BY <1>5 DEF Bumped, At, Goto, TypeOK, devVars
<1> QED
  BY <1>1, <1>2, <1>3, <1>4, <1>5 DEF RelaySet

LEMMA DurableStep == DurableIInv /\ [Next]_vars => DurableInv'
<1> SUFFICES ASSUME DurableIInv, [Next]_vars PROVE DurableInv'
  OBVIOUS
<1> USE DEF Task, Ctrl, Httpd, Timer, DurableIInv, DurableInv, SaveComing
<1>1. CASE Control
  <2>1. CASE Wake
    BY <2>1 DEF Wake, CtrlGoto, At, Goto, TypeOK
  <2>2. ASSUME NEW on \in Timed, TimedFire(on) PROVE DurableInv'
    BY <2>2 DEF TimedFire, Call, At, Goto, TypeOK, devVars
  <2>3. CASE TimedPass
    BY <2>3 DEF TimedPass, CtrlGoto, At, Goto, TypeOK
  <2>4. CASE AutoOffFire
    BY <2>4 DEF AutoOffFire, Call, At, Goto, TypeOK, devVars
  <2>5. CASE AutoOffPass
    BY <2>5 DEF AutoOffPass, CtrlGoto, At, Goto, TypeOK
  <2>6. CASE AutoOffFired
    BY <2>6 DEF AutoOffFired, CtrlGoto, At, Goto, TypeOK
  <2>7. CASE PersistTick
    BY <2>7 DEF PersistTick, CtrlGoto, At, Goto, TypeOK
  <2>8. CASE Flush
    BY <2>8 DEF Flush, CtrlGoto, At, Goto, TypeOK
  <2>9. CASE Commit
    BY <2>9 DEF Commit, CtrlGoto, At, Goto, TypeOK
  <2> QED
    BY <1>1, <2>1, <2>2, <2>3, <2>4, <2>5, <2>6, <2>7, <2>8, <2>9, DurableRelaySet
    DEF Control
<1>2. CASE Serve
  <2>1. CASE CfgHour
    BY <2>1 DEF CfgHour, CfgStep, At, Goto, TypeOK
  <2>2. CASE CfgSec
    BY <2>2 DEF CfgSec, CfgStep, At, Goto, TypeOK
  <2>3. CASE CfgArm
    BY <2>3 DEF CfgArm, CfgStep, At, Goto, TypeOK
  <2>4. CASE CfgFired
    BY <2>4 DEF CfgFired, CfgStep, At, Goto, TypeOK
  <2>5. CASE CfgSave
    BY <2>5 DEF CfgSave, CfgStep, At, Goto, TypeOK
  <2>6. CASE BootSave
    BY <2>6 DEF BootSave, At, Goto, TypeOK, devVars
  <2> QED
    BY <1>2, <2>1, <2>2, <2>3, <2>4, <2>5, <2>6, DurableRelaySet DEF Serve
<1>3. CASE Request
  <2>1. ASSUME NEW on \in BOOLEAN, PostRelay(on) PROVE DurableInv'
    BY <2>1 DEF PostRelay, Call, At, Goto, TypeOK, devVars
  <2>2. ASSUME NEW c \in Armings \cup {Cleared}, Configure(c) PROVE DurableInv'
    BY <2>2 DEF Configure, At, Goto, TypeOK, devVars
  <2>3. ASSUME NEW m \in BootModes, PutBoot(m) PROVE DurableInv'
    BY <2>3 DEF PutBoot, At, Goto, TypeOK
  <2>4. ASSUME NEW t \in {Httpd, Timer}, Toggle(t) PROVE DurableInv'
    BY <2>4 DEF Toggle, Call, At, Goto, TypeOK, devVars
  <2> QED
    BY <1>3, <2>1, <2>2, <2>3, <2>4 DEF Request
<1>4. CASE Tick
  BY <1>4 DEF Tick, callVars
<1>5. CASE ClockSet
  BY <1>5 DEF ClockSet, devVars, callVars
<1>6. CASE PowerCut
  BY <1>6, BootAssumption DEF PowerCut, BootRelay, TypeOK
<1>7. CASE UNCHANGED vars
  BY <1>7 DEF vars, devVars, callVars
<1> QED
  BY <1>1, <1>2, <1>3, <1>4, <1>5, <1>6, <1>7, DurableRelaySet DEF Next

LEMMA DurableInvariant == Spec => [](TypeOK /\ DurableInv)
<1>1. Init => DurableInv
  BY BootAssumption DEF Init, DurableInv, BootRelay, Task, Ctrl
<1>2. DurableInv /\ TypeOK /\ [Next]_vars => DurableInv'
  BY DurableStep DEF DurableIInv
<1> QED
  BY <1>1, <1>2, TypeCorrect, PTL DEF Spec

\* However relay_set calls of the three tasks, the flush and power cuts
\* interleave, flash and RAM differ only while a save is still to come.
THEOREM RelayIsDurable == Spec => []RelayDurable
<1>1. DurableInv => RelayDurable
  BY DEF DurableInv, RelayDurable
<1> QED
  BY <1>1, DurableInvariant, PTL

-----------------------------------------------------------------------------
(* The auto-off.                                                           *)

\* Strict priority: a lower task steps only while the control task is idle,
\* in a bump, or waiting for another task's flash write.
LEMMA CtrlPreempts ==
    ASSUME NEW t \in Task, t # Ctrl, NEW label, At(t, label)
    PROVE  pc[Ctrl] \in {"idle", "bump"} \cup Writing
BY DEF At, CanRun, Blocked, Prio, Task, Ctrl, Httpd, Timer

\* Between the checks and the store nothing they checked can change: every
\* step of another task that could is ruled out by CtrlPreempts.  Time passes.
Deciding == pc[Ctrl] = "set" /\ ret = "fired"
Untouched == UNCHANGED <<pc, ret, relay, fired, aoff>> /\ age' \in {age, Older(age)}

LEMMA DecisionStep ==
    ASSUME TypeOK, [Next]_vars, Deciding' PROVE AutoOffFire \/ (Deciding /\ Untouched)
<1> USE DEF Deciding, Writing
<1>0. Ctrl \in Task /\ Httpd \in Task /\ Timer \in Task /\ Ctrl # Httpd /\ Ctrl # Timer
  BY DEF Task, Ctrl, Httpd, Timer
<1>1. ASSUME NEW t \in Task, RelaySet(t) PROVE FALSE
  <2>1. PICK label \in Labels : At(t, label)
    BY <1>1 DEF RelaySet, SetRelay, SetToggled, Rearm, Stamp, Mark, Bumped, Labels
  <2>2. pc'[t] # "set"
    BY <1>1 DEF RelaySet, SetRelay, SetToggled, Store, Rearm, Stamp, Mark, Bumped,
                Goto, TypeOK
  <2>3. CASE t # Ctrl
    <3>1. pc[Ctrl] # "set"
      BY <2>1, <2>3, CtrlPreempts
    <3>2. pc'[Ctrl] = pc[Ctrl]
      BY <1>0, <1>1, <2>3 DEF RelaySet, SetRelay, SetToggled, Store, Rearm, Stamp, Mark,
                       Bumped, Goto, TypeOK
    <3> QED
      BY <3>1, <3>2
  <2> QED
    BY <2>2, <2>3
<1>2. Control => AutoOffFire
  <2>1. ASSUME NEW on \in Timed, TimedFire(on) PROVE FALSE
    BY <2>1 DEF TimedFire
  <2>2. ~(\/ Wake \/ TimedPass \/ AutoOffPass \/ AutoOffFired
          \/ PersistTick \/ Flush \/ Commit)
    BY <1>0 DEF Wake, TimedPass, AutoOffPass, AutoOffFired, PersistTick, Flush,
                Commit, CtrlGoto, Goto, TypeOK
  <2> QED
    BY <1>0, <1>1, <2>1, <2>2 DEF Control
\* A request or one of its steps leaves the control task where it is, and is
\* taken only when that is not between the checks and the store.
<1>3. ASSUME NEW t \in {Httpd, Timer}, NEW label, At(t, label), pc'[Ctrl] = pc[Ctrl]
      PROVE  FALSE
  BY <1>3, <1>0, CtrlPreempts
<1>4. ~Serve
  <2>1. SUFFICES ASSUME CfgHour \/ CfgSec \/ CfgArm \/ CfgFired \/ CfgSave \/ BootSave
                 PROVE  FALSE
    BY <1>0, <1>1 DEF Serve
  <2>2. PICK label \in Labels : At(Httpd, label)
    BY <2>1 DEF CfgHour, CfgSec, CfgArm, CfgFired, CfgSave, CfgStep, BootSave, Labels
  <2>3. pc'[Ctrl] = pc[Ctrl]
    BY <2>1, <1>0 DEF CfgHour, CfgSec, CfgArm, CfgFired, CfgSave, CfgStep, BootSave,
                      Goto, TypeOK
  <2> QED
    BY <2>2, <2>3, <1>3
<1>5. ~Request
  <2>1. SUFFICES ASSUME Request PROVE FALSE
    OBVIOUS
  <2>2. PICK t \in {Httpd, Timer} : At(t, "idle")
    BY <2>1 DEF Request, PostRelay, Configure, PutBoot, Toggle
  <2>3. pc'[Ctrl] = pc[Ctrl]
    BY <2>1, <1>0 DEF Request, PostRelay, Configure, PutBoot, Toggle, Call, Goto, TypeOK
  <2> QED
    BY <2>2, <2>3, <1>3
<1>6. Tick => Deciding /\ Untouched
  BY DEF Tick, callVars, Untouched
<1>7. ClockSet => Deciding /\ Untouched
  BY DEF ClockSet, devVars, callVars, Untouched
<1>8. ~PowerCut
  BY <1>0 DEF PowerCut
<1>9. UNCHANGED vars => Deciding /\ Untouched
  BY DEF vars, devVars, callVars, Untouched
<1> QED
  BY <1>0, <1>1, <1>2, <1>4, <1>5, <1>6, <1>7, <1>8, <1>9 DEF Next

LEMMA JustifiedStep == TypeOK /\ AutoOffJustified /\ [Next]_vars => AutoOffJustified'
<1> SUFFICES ASSUME TypeOK, AutoOffJustified, [Next]_vars, Deciding' PROVE AutoOffJustified'
  BY DEF AutoOffJustified, Deciding
<1>1. CASE AutoOffFire
  BY <1>1 DEF AutoOffFire, Due, Call, devVars, AutoOffJustified
<1>2. CASE Deciding /\ Untouched
  BY <1>2 DEF Deciding, Untouched, AutoOffJustified
<1> QED
  BY <1>1, <1>2, DecisionStep

\* The auto-off cuts only a relay that is closed with the auto-off armed.
THEOREM AutoOffIsJustified == Spec => []AutoOffJustified
<1>1. Init => AutoOffJustified
  BY DEF Init, AutoOffJustified, Task, Ctrl
<1>2. TypeOK /\ AutoOffJustified /\ [Next]_vars => AutoOffJustified'
  BY JustifiedStep
<1> QED
  BY <1>1, <1>2, TypeCorrect, PTL DEF Spec

\* A relay_set that closes the relay begins to stamp the cycle in the same step;
\* only relay_set's stamp ends that, with a stamp that is younger than the cycle.
LEMMA CycleStep == TypeOK /\ CycleInv /\ [Next]_vars => CycleInv'
<1> SUFFICES ASSUME TypeOK, CycleInv, [Next]_vars PROVE CycleInv'
  OBVIOUS
<1> DEFINE stamping(t) == pc[t] \in {"rearm", "stamp"}
<1>0. Ctrl \in Task /\ Httpd \in Task /\ Timer \in Task
  BY DEF Task
<1>1. ASSUME NEW t \in Task, RelaySet(t) PROVE CycleInv'
  <2>1. CASE SetRelay(t) \/ SetToggled(t)
    <3>1. PICK on \in BOOLEAN, label \in {"set", "tset"} : At(t, label) /\ Store(t, on)
      BY <2>1 DEF SetRelay, SetToggled, TypeOK
    <3> QED
      BY <3>1 DEF Store, At, Goto, CycleInv, TypeOK
  <2>2. CASE Rearm(t)
    BY <2>2 DEF Rearm, Goto, CycleInv, TypeOK
  <2>3. CASE Stamp(t)
    BY <2>3, SettingsAssumption DEF Stamp, CycleInv, TypeOK, Ages
  <2>4. CASE Mark(t)
    BY <2>4 DEF Mark, At, Goto, CycleInv, TypeOK
  <2>5. CASE Bumped(t)
    BY <2>5 DEF Bumped, At, Goto, CycleInv, TypeOK, devVars
  <2> QED
    BY <1>1, <2>1, <2>2, <2>3, <2>4, <2>5 DEF RelaySet
\* Every other step of a task leaves all this alone.
<1>2. ASSUME NEW t \in Task, ~stamping(t), UNCHANGED <<relay, onTime, age>>,
             NEW label, pc' = [pc EXCEPT ![t] = label]
      PROVE  CycleInv'
  BY <1>2 DEF CycleInv, TypeOK
<1>3. CASE Control
  <2>1. ASSUME NEW on \in Timed, TimedFire(on) PROVE CycleInv'
    BY <2>1, <1>0, <1>2 DEF TimedFire, Call, At, Goto, devVars
  <2>2. CASE AutoOffFire
    BY <2>2, <1>0, <1>2 DEF AutoOffFire, Call, At, Goto, devVars
  <2>3. CASE \/ Wake \/ TimedPass \/ AutoOffPass \/ AutoOffFired
             \/ PersistTick \/ Flush \/ Commit
    <3>1. PICK from \in Labels \ {"rearm", "stamp"}, to \in Labels : CtrlGoto(from, to)
      BY <2>3 DEF Wake, TimedPass, AutoOffPass, AutoOffFired, PersistTick, Flush, Commit,
                  Labels
    <3> QED
      BY <3>1, <1>0, <1>2 DEF CtrlGoto, At, Goto
  <2> QED
    BY <1>0, <1>1, <1>3, <2>1, <2>2, <2>3 DEF Control
<1>4. CASE Serve
  <2>1. CASE CfgHour \/ CfgSec \/ CfgArm \/ CfgFired \/ CfgSave
    <3>1. PICK from \in Labels \ {"rearm", "stamp"}, to \in Labels : CfgStep(from, to)
      BY <2>1 DEF CfgHour, CfgSec, CfgArm, CfgFired, CfgSave, Labels
    <3> QED
      BY <3>1, <1>0, <1>2 DEF CfgStep, At, Goto
  <2>2. CASE BootSave
    BY <2>2, <1>0, <1>2 DEF BootSave, At, Goto, devVars
  <2> QED
    BY <1>0, <1>1, <1>4, <2>1, <2>2 DEF Serve
<1>5. CASE Request
  <2>1. PICK t \in Task : At(t, "idle") /\ UNCHANGED <<relay, onTime, age>>
                          /\ \E label \in Labels : Goto(t, label)
    BY <1>5, <1>0 DEF Request, PostRelay, Configure, PutBoot, Toggle, Call, devVars, Labels
  <2> QED
    BY <2>1, <1>2 DEF At, Goto
<1>6. CASE Tick
  BY <1>6 DEF Tick, callVars, CycleInv, Older, TypeOK, Ages, Never
<1>7. CASE ClockSet
  BY <1>7 DEF ClockSet, devVars, callVars, CycleInv
<1>8. CASE PowerCut
  BY <1>8, SettingsAssumption DEF PowerCut, BootStamp, Never, CycleInv
<1>9. CASE UNCHANGED vars
  BY <1>9 DEF vars, devVars, callVars, CycleInv
<1> QED
  BY <1>0, <1>1, <1>3, <1>4, <1>5, <1>6, <1>7, <1>8, <1>9 DEF Next

\* When it decides, the control task has seen a stamp as old as the delay, and
\* the cycle is as old as the stamp.
LEMMA NotEarlyStep ==
    TypeOK /\ CycleInv /\ AutoOffNotEarly /\ [Next]_vars => AutoOffNotEarly'
<1> SUFFICES ASSUME TypeOK, CycleInv, AutoOffNotEarly, [Next]_vars, Deciding'
             PROVE  AutoOffNotEarly'
  BY DEF AutoOffNotEarly, Deciding
<1>0. Task = {Ctrl, Httpd, Timer} /\ Ctrl # Httpd /\ Ctrl # Timer
  BY DEF Task, Ctrl, Httpd, Timer
<1>1. /\ age \in Ages /\ onTime \in Ages \cup {Never} /\ AgeCap \in Nat
      /\ Total(aoff.delay) \in Int
  <2>1. \A d \in Settings : d.h \in Nat /\ d.s \in Nat
    BY SettingsAssumption
  <2>2. aoff.delay.h \in Nat /\ aoff.delay.s \in Nat
    BY <2>1 DEF TypeOK, Config, Delays
  <2> QED
    BY <2>2, SettingsAssumption DEF TypeOK, Total
<1>2. CASE AutoOffFire
  <2>1. /\ relay /\ onTime >= Total(aoff.delay)
        /\ pc[Ctrl] = "aoff"
        /\ UNCHANGED <<aoff, age>> /\ \A t \in {Httpd, Timer} : pc'[t] = pc[t]
    BY <1>2, <1>0 DEF AutoOffFire, Due, Call, At, Goto, devVars, TypeOK
  <2>2. CASE \E t \in {Httpd, Timer} : pc[t] \in {"rearm", "stamp"}
    BY <2>1, <2>2 DEF AutoOffNotEarly
  <2>3. CASE \A t \in {Httpd, Timer} : pc[t] \notin {"rearm", "stamp"}
    <3>1. onTime <= age
      BY <1>0, <2>1, <2>3 DEF CycleInv
    <3>2. age' >= Total(aoff.delay)'
      BY <1>1, <2>1, <3>1 DEF Total, Ages, Never
    <3> QED
      BY <3>2 DEF AutoOffNotEarly
  <2> QED
    BY <2>2, <2>3
<1>3. CASE Deciding /\ Untouched
  <2>1. age' >= age /\ Total(aoff.delay)' = Total(aoff.delay) /\ pc' = pc /\ age' \in Int
    BY <1>1, <1>3 DEF Untouched, Older, Ages, Total
  <2> QED
    BY <1>1, <1>3, <2>1 DEF AutoOffNotEarly, Deciding, Ages
<1> QED
  BY <1>2, <1>3, DecisionStep

\* The auto-off never cuts a cycle that is younger than the delay, unless
\* another task is between closing the relay and stamping the cycle.
THEOREM AutoOffIsNotEarly == Spec => []AutoOffNotEarly
<1>1. Init => CycleInv /\ AutoOffNotEarly
  BY SettingsAssumption
  DEF Init, BootStamp, Never, CycleInv, AutoOffNotEarly, Task, Ctrl
<1>2. TypeOK /\ CycleInv /\ [Next]_vars => CycleInv'
  BY CycleStep
<1>3. TypeOK /\ CycleInv /\ AutoOffNotEarly /\ [Next]_vars => AutoOffNotEarly'
  BY NotEarlyStep
<1> QED
  BY <1>1, <1>2, <1>3, TypeCorrect, PTL DEF Spec

-----------------------------------------------------------------------------
(* Power cuts.                                                             *)

LEMMA ConfigStep == TypeOK /\ ConfigInv /\ [Next]_vars => ConfigInv'
<1> SUFFICES ASSUME TypeOK, ConfigInv, [Next]_vars PROVE ConfigInv'
  OBVIOUS
<1> USE DEF ConfigInv
<1>0. Ctrl \in Task /\ Httpd \in Task /\ Timer \in Task /\ Ctrl # Httpd /\ Timer # Httpd
  BY DEF Task, Ctrl, Httpd, Timer
<1>1. ASSUME NEW t \in Task, RelaySet(t) PROVE ConfigInv'
  <2>1. UNCHANGED <<aoff, bootMode, nvs>>
    BY <1>1 DEF RelaySet, SetRelay, SetToggled, Store, Rearm, Stamp, Mark, Bumped, devVars
  <2>2. pc[t] \in {"set", "tset", "rearm", "stamp", "mark", "bump"}
    BY <1>1 DEF RelaySet, SetRelay, SetToggled, Rearm, Stamp, Mark, Bumped, At
  <2>3. \A u \in Task \ {t} : pc'[u] = pc[u]
    BY <1>1 DEF RelaySet, SetRelay, SetToggled, Store, Rearm, Stamp, Mark, Bumped,
                Goto, TypeOK
  <2> QED
    BY <1>0, <2>1, <2>2, <2>3
<1>2. CASE Control
  <2>1. CASE ~RelaySet(Ctrl)
    <3>1. /\ UNCHANGED <<aoff, bootMode, nvs.aoff, nvs.boot>>
          /\ pc'[Httpd] = pc[Httpd]
      BY <1>0, <1>2, <2>1 DEF Control, Wake, TimedFire, TimedPass, AutoOffFire, AutoOffPass,
         AutoOffFired, PersistTick, Flush, Commit, CtrlGoto, Call, Goto, TypeOK, devVars
    <3> QED
      BY <3>1
  <2> QED
    BY <2>1, <1>0, <1>1
<1>3. CASE Serve
  <2>1. CASE CfgHour \/ CfgSec \/ CfgArm \/ CfgFired \/ CfgSave
    BY <2>1, <1>0 DEF CfgHour, CfgSec, CfgArm, CfgFired, CfgSave, CfgStep, At, Goto, TypeOK
  <2>2. CASE BootSave
    BY <2>2, <1>0 DEF BootSave, At, Goto, TypeOK, devVars
  <2> QED
    BY <2>1, <2>2, <1>0, <1>1, <1>3 DEF Serve
<1>4. CASE Request
  BY <1>4, <1>0 DEF Request, PostRelay, Configure, PutBoot, Toggle, Call, At, Goto,
                    TypeOK, devVars
<1>5. CASE Tick \/ ClockSet
  BY <1>5 DEF Tick, ClockSet, devVars, callVars
<1>6. CASE PowerCut
  BY <1>6 DEF PowerCut
<1>7. CASE UNCHANGED vars
  BY <1>7 DEF vars, devVars, callVars
<1> QED
  BY <1>0, <1>1, <1>2, <1>3, <1>4, <1>5, <1>6, <1>7 DEF Next

\* Only a power cut counts one.
LEMMA BootsStep ==
    ASSUME TypeOK, [Next]_vars, boots' # boots PROVE PowerCut
BY DEF Next, Control, Serve, Request, RelaySet, SetRelay, SetToggled, Store, Rearm, Stamp,
       Mark, Bumped, Wake, TimedFire, TimedPass, AutoOffFire, AutoOffPass, AutoOffFired,
       PersistTick, Flush, Commit, CtrlGoto, CfgHour, CfgSec, CfgArm, CfgFired, CfgSave,
       CfgStep, BootSave, PostRelay, Configure, PutBoot, Toggle, Call, Tick, ClockSet, vars

\* In boot mode AUTO a power cut that interrupts no save and no configuration
\* write changes neither the relay nor the auto-off's configuration.
THEOREM PowerCutIsHarmless == Spec => PowerCutKeeps
<1> DEFINE Kept == boots' # boots /\ bootMode = "auto" /\ tracked /\ ~SaveComing
                   /\ ConfigAtRest => relay' = relay /\ aoff' = aoff
<1>1. Init => ConfigInv
  BY DEF Init, ConfigInv
<1>2. TypeOK /\ ConfigInv /\ [Next]_vars => ConfigInv'
  BY ConfigStep
<1>3. TypeOK /\ DurableInv /\ ConfigInv /\ [Next]_vars => [Kept]_vars
  <2> SUFFICES ASSUME TypeOK, DurableInv, ConfigInv, [Next]_vars,
                      boots' # boots, bootMode = "auto", tracked, ~SaveComing, ConfigAtRest
               PROVE  relay' = relay /\ aoff' = aoff
    OBVIOUS
  <2>1. PowerCut
    BY BootsStep
  <2>2. nvs.relay = relay /\ nvs.aoff = aoff /\ nvs.boot = "auto"
    BY DEF DurableInv, ConfigInv, ConfigAtRest
  <2> QED
    BY <2>1, <2>2 DEF PowerCut, BootRelay, TypeOK
<1> QED
  BY <1>1, <1>2, <1>3, DurableInvariant, PTL DEF Spec, PowerCutKeeps

-----------------------------------------------------------------------------
(* Why an armed auto-off ends every cycle: what it checks is set for each.  *)

\* A step of task t that is not one of relay_set's moves t alone, outside the
\* labels at which relay_set stamps a cycle.
Outside(t) ==
    /\ UNCHANGED <<relay, onTime>>
    /\ pc[t] \notin {"rearm", "stamp"}
    /\ \E label : pc' = [pc EXCEPT ![t] = label]

LEMMA OutsideSteps ==
    ASSUME TypeOK, [Next]_vars
    PROVE  \/ \E t \in Task : RelaySet(t) \/ Outside(t)
           \/ UNCHANGED <<relay, pc>> /\ onTime' \in {onTime, Older(onTime)}
           \/ PowerCut
<1> USE DEF Outside, At, Goto
<1>0. Ctrl \in Task /\ Httpd \in Task /\ Timer \in Task
  BY DEF Task
<1>1. Control => RelaySet(Ctrl) \/ Outside(Ctrl)
  BY DEF Control, Wake, TimedFire, TimedPass, AutoOffFire, AutoOffPass, AutoOffFired,
         PersistTick, Flush, Commit, CtrlGoto, Call, devVars
<1>2. Serve => RelaySet(Httpd) \/ Outside(Httpd)
  BY DEF Serve, CfgHour, CfgSec, CfgArm, CfgFired, CfgSave, CfgStep, BootSave, devVars
<1>3. Request => \E t \in Task : Outside(t)
  <2>1. (\E on \in BOOLEAN : PostRelay(on)) => Outside(Httpd)
    BY DEF PostRelay, Call, devVars
  <2>2. (\E c \in Armings \cup {Cleared} : Configure(c)) => Outside(Httpd)
    BY DEF Configure, devVars
  <2>3. (\E m \in BootModes : PutBoot(m)) => Outside(Httpd)
    BY DEF PutBoot
  <2>4. \A t \in {Httpd, Timer} : Toggle(t) => Outside(t)
    BY DEF Toggle, Call, devVars
  <2> QED
    BY <1>0, <2>1, <2>2, <2>3, <2>4 DEF Request
<1>4. Tick \/ ClockSet \/ UNCHANGED vars =>
        UNCHANGED <<relay, pc>> /\ onTime' \in {onTime, Older(onTime)}
  BY DEF Tick, ClockSet, vars, devVars, callVars
<1> QED
  BY <1>0, <1>1, <1>2, <1>3, <1>4 DEF Next

\* No step takes the stamp from a closed relay but a boot that restores it
\* closed and finds the auto-off disarmed: arming it later finds no stamp.
THEOREM OnlyABootUnstamps == Spec => OnlyBootUnstamps
<1> DEFINE Unstamps == Stamped /\ ~Stamped' => boots' # boots /\ relay' /\ ~aoff'.enabled
<1>1. TypeOK /\ [Next]_vars => [Unstamps]_vars
  <2> SUFFICES ASSUME TypeOK, [Next]_vars, Stamped, ~Stamped'
               PROVE  boots' # boots /\ relay' /\ ~aoff'.enabled
    OBVIOUS
  <2> USE DEF Stamped
  <2>1. ASSUME NEW t \in Task, RelaySet(t) PROVE FALSE
    <3>1. CASE SetRelay(t) \/ SetToggled(t)
      <4>1. PICK on \in BOOLEAN : Store(t, on) /\ pc[t] \in {"set", "tset"}
        BY <3>1 DEF SetRelay, SetToggled, At, TypeOK
      <4> QED
        BY <4>1 DEF Store, Goto, TypeOK
    <3>2. CASE Rearm(t)
      BY <3>2 DEF Rearm, Goto, TypeOK
    <3>3. CASE Stamp(t)
      BY <3>3 DEF Stamp, Never
    <3>4. CASE Mark(t) \/ Bumped(t)
      BY <3>4 DEF Mark, Bumped, At, Goto, TypeOK, devVars
    <3> QED
      BY <2>1, <3>1, <3>2, <3>3, <3>4 DEF RelaySet
  <2>2. ASSUME NEW t \in Task, Outside(t) PROVE FALSE
    BY <2>2 DEF Outside, TypeOK
  <2>3. ASSUME UNCHANGED <<relay, pc>>, onTime' \in {onTime, Older(onTime)} PROVE FALSE
    BY <2>3, SettingsAssumption DEF Older, Never, TypeOK, Ages
  <2>4. CASE PowerCut
    BY <2>4, BootAssumption DEF PowerCut, BootStamp, Never, TypeOK
  <2> QED
    BY <2>1, <2>2, <2>3, <2>4, OutsideSteps
<1> QED
  BY <1>1, TypeCorrect, PTL DEF Spec, OnlyBootUnstamps

\* Without SSE clients a bump does not block: a lower task steps only while the
\* control task sleeps or writes flash.
LEMMA CtrlAtRest ==
    ASSUME NEW t \in Task, t # Ctrl, NEW label, At(t, label), ~SseClient
    PROVE  pc[Ctrl] \in {"idle"} \cup Writing
BY DEF At, CanRun, Blocked, Prio, Task, Ctrl, Httpd, Timer

\* The flag is set only over an open relay, and is reset before a relay_set
\* that closes the relay goes on.
LEMMA FlagStep == TypeOK /\ CutInv /\ [Next]_vars => FlagFollows'
<1> SUFFICES ASSUME TypeOK, CutInv, [Next]_vars, ~SseClient PROVE FlagFollows'
  BY DEF FlagFollows
<1> USE DEF CutInv, FlagFollows
<1>0. Ctrl \in Task /\ Httpd \in Task /\ Timer \in Task
  BY DEF Task
<1>1. ASSUME NEW t \in Task, RelaySet(t) PROVE FlagFollows'
  <2>1. CASE SetRelay(t) \/ SetToggled(t)
    <3>1. PICK on \in BOOLEAN : Store(t, on) /\ pc[t] \in {"set", "tset"}
      BY <2>1 DEF SetRelay, SetToggled, At, TypeOK
    <3> QED
      BY <3>1 DEF Store, Goto, TypeOK
  <2>2. CASE Rearm(t)
    BY <2>2 DEF Rearm
  <2>3. CASE Stamp(t) \/ Mark(t) \/ Bumped(t)
    BY <2>3 DEF Stamp, Mark, Bumped, At, Goto, TypeOK, devVars
  <2> QED
    BY <1>1, <2>1, <2>2, <2>3 DEF RelaySet
<1>2. CASE AutoOffFired
  BY <1>2 DEF AutoOffFired, CtrlGoto, At
<1>3. CASE CfgFired
  BY <1>3 DEF CfgFired
<1>4. CASE PowerCut
  BY <1>4 DEF PowerCut
\* Every other step leaves the flag and the relay alone.
<1>5. ASSUME UNCHANGED <<relay, fired>>, NEW t \in Task, pc[t] # "rearm",
             NEW label, pc' = [pc EXCEPT ![t] = label]
      PROVE  FlagFollows'
  BY <1>5 DEF TypeOK
<1>6. CASE Control
  <2>1. CASE \/ Wake \/ TimedPass \/ (\E on \in Timed : TimedFire(on))
             \/ AutoOffFire \/ AutoOffPass \/ PersistTick \/ Flush \/ Commit
    <3>1. UNCHANGED <<relay, fired>> /\ pc[Ctrl] # "rearm"
      BY <2>1 DEF Wake, TimedPass, TimedFire, AutoOffFire, AutoOffPass, PersistTick, Flush, Commit,
                  CtrlGoto, Call, At, devVars
    <3>2. \E label : pc' = [pc EXCEPT ![Ctrl] = label]
      BY <2>1 DEF Wake, TimedPass, TimedFire, AutoOffFire, AutoOffPass, PersistTick, Flush, Commit,
                  CtrlGoto, Call, Goto
    <3> QED
      BY <3>1, <3>2, <1>0, <1>5
  <2> QED
    BY <1>0, <1>1, <1>2, <1>6, <2>1 DEF Control
<1>7. CASE Serve
  <2>1. CASE CfgHour \/ CfgSec \/ CfgArm \/ CfgSave \/ BootSave
    <3>1. UNCHANGED <<relay, fired>> /\ pc[Httpd] # "rearm"
      BY <2>1 DEF CfgHour, CfgSec, CfgArm, CfgSave, CfgStep, BootSave, At, devVars
    <3>2. \E label : pc' = [pc EXCEPT ![Httpd] = label]
      BY <2>1 DEF CfgHour, CfgSec, CfgArm, CfgSave, CfgStep, BootSave, Goto
    <3> QED
      BY <3>1, <3>2, <1>0, <1>5
  <2> QED
    BY <1>0, <1>1, <1>3, <1>7, <2>1 DEF Serve
<1>8. CASE Request
  <2>1. PICK t \in Task : At(t, "idle") /\ UNCHANGED <<relay, fired>>
                          /\ \E label \in Labels : Goto(t, label)
    BY <1>8 DEF Request, PostRelay, Configure, PutBoot, Toggle, Call, devVars, Labels,
                Task, Ctrl, Httpd, Timer
  <2> QED
    BY <2>1, <1>5 DEF At, Goto
<1>9. CASE Tick \/ ClockSet \/ UNCHANGED vars
  BY <1>9 DEF Tick, ClockSet, vars, devVars, callVars
<1> QED
  BY <1>0, <1>1, <1>4, <1>6, <1>7, <1>8, <1>9 DEF Next

\* Between the decision to cut the relay and the flag, relay_set(false) runs to
\* its end before another task gets a step.
LEMMA CutStep == TypeOK /\ CutInv /\ [Next]_vars => CutInv'
<1> SUFFICES ASSUME TypeOK, CutInv, [Next]_vars, ~SseClient PROVE CutInv'
  BY DEF CutInv, FlagFollows
<1> DEFINE Cutting ==
             ret = "fired" => /\ pc[Ctrl] \in {"set", "mark", "bump"} /\ ~arg[Ctrl]
                              /\ pc[Ctrl] # "set" => ~relay
<1> DEFINE Cut == pc[Ctrl] = "fired" => ~relay
<1>0. /\ Ctrl \in Task /\ Httpd \in Task /\ Timer \in Task
      /\ Ctrl # Httpd /\ Ctrl # Timer
  BY DEF Task, Ctrl, Httpd, Timer
<1>1. Cutting /\ Cut
  BY DEF CutInv
<1> SUFFICES Cutting' /\ Cut'
  BY FlagStep DEF CutInv
\* A lower task leaves the control task alone, and it is not cutting the relay.
<1>2. ASSUME NEW t \in Task, t # Ctrl, NEW label, At(t, label),
             ret' = ret, pc'[Ctrl] = pc[Ctrl]
      PROVE  Cutting' /\ Cut'
  BY <1>1, <1>2, CtrlAtRest DEF Writing
<1>3. ASSUME NEW t \in Task, t # Ctrl, RelaySet(t) PROVE Cutting' /\ Cut'
  <2>1. PICK label \in Labels : At(t, label)
    BY <1>3 DEF RelaySet, SetRelay, SetToggled, Rearm, Stamp, Mark, Bumped, Labels
  <2>2. ret' = ret /\ pc'[Ctrl] = pc[Ctrl]
    BY <1>0, <1>3 DEF RelaySet, SetRelay, SetToggled, Store, Rearm, Stamp, Mark, Bumped,
                      Goto, TypeOK, devVars
  <2> QED
    BY <1>2, <1>3, <2>1, <2>2
<1>4. ASSUME RelaySet(Ctrl) PROVE Cutting' /\ Cut'
  <2>1. CASE SetRelay(Ctrl)
    BY <1>0, <1>1, <2>1 DEF SetRelay, Store, At, Goto, TypeOK
  <2>2. CASE SetToggled(Ctrl)
    BY <1>0, <1>1, <2>2 DEF SetToggled, Store, At, Goto, TypeOK
  <2>3. CASE Rearm(Ctrl) \/ Stamp(Ctrl)
    BY <1>0, <1>1, <2>3 DEF Rearm, Stamp, At, Goto, TypeOK
  <2>4. CASE Mark(Ctrl)
    BY <1>0, <1>1, <2>4 DEF Mark, At, Goto, TypeOK
  <2>5. CASE Bumped(Ctrl)
    BY <1>0, <1>1, <2>5 DEF Bumped, At, Goto, TypeOK, devVars
  <2> QED
    BY <1>4, <2>1, <2>2, <2>3, <2>4, <2>5 DEF RelaySet
<1>5. CASE Control
  <2>1. ASSUME NEW on \in Timed, TimedFire(on) PROVE Cutting' /\ Cut'
    BY <1>0, <2>1 DEF TimedFire, Call, Goto, TypeOK
  <2>2. CASE AutoOffFire
    BY <1>0, <2>2 DEF AutoOffFire, Call, Goto, TypeOK
  <2>3. CASE AutoOffFired
    BY <1>0, <2>3 DEF AutoOffFired, CtrlGoto, Goto, TypeOK
  <2>4. CASE Wake \/ TimedPass \/ AutoOffPass \/ PersistTick \/ Flush \/ Commit
    <3>1. PICK from \in {"idle", "timed", "aoff", "persist", "flush", "commit"},
               to \in {"idle", "timed", "aoff", "persist", "flush", "commit"} :
                 CtrlGoto(from, to) /\ ret' = ret
      BY <2>4 DEF Wake, TimedPass, AutoOffPass, PersistTick, Flush, Commit
    <3> QED
      BY <1>0, <1>1, <3>1 DEF CtrlGoto, At, Goto, TypeOK
  <2> QED
    BY <1>4, <1>5, <2>1, <2>2, <2>3, <2>4 DEF Control
<1>6. CASE Serve
  <2>1. SUFFICES ASSUME CfgHour \/ CfgSec \/ CfgArm \/ CfgFired \/ CfgSave \/ BootSave
                 PROVE  Cutting' /\ Cut'
    BY <1>0, <1>3, <1>6 DEF Serve
  <2>2. PICK label \in Labels : At(Httpd, label)
    BY <2>1 DEF CfgHour, CfgSec, CfgArm, CfgFired, CfgSave, CfgStep, BootSave, Labels
  <2>3. ret' = ret /\ pc'[Ctrl] = pc[Ctrl]
    BY <1>0, <2>1 DEF CfgHour, CfgSec, CfgArm, CfgFired, CfgSave, CfgStep, BootSave,
                      Goto, TypeOK
  <2> QED
    BY <1>0, <1>2, <2>2, <2>3
<1>7. CASE Request
  <2>1. PICK t \in {Httpd, Timer} : At(t, "idle")
    BY <1>7 DEF Request, PostRelay, Configure, PutBoot, Toggle
  <2>2. ret' = ret /\ pc'[Ctrl] = pc[Ctrl]
    BY <1>0, <1>7 DEF Request, PostRelay, Configure, PutBoot, Toggle, Call, Goto, TypeOK
  <2> QED
    BY <1>0, <1>2, <2>1, <2>2
<1>8. CASE Tick \/ ClockSet \/ UNCHANGED vars
  BY <1>1, <1>8 DEF Tick, ClockSet, vars, devVars, callVars
<1>9. CASE PowerCut
  BY <1>0, <1>9 DEF PowerCut
<1> QED
  BY <1>0, <1>3, <1>5, <1>6, <1>7, <1>8, <1>9 DEF Next

\* Without SSE clients the auto-off's flag says of the present cycle only that
\* it has ended: no closed relay is taken for one that was cut already.
THEOREM FlagNeverCarries == Spec => []FlagFollows
<1>1. Init => CutInv
  BY DEF Init, CutInv, FlagFollows, Task, Ctrl
<1>2. CutInv => FlagFollows
  BY DEF CutInv
<1> QED
  BY <1>1, <1>2, CutStep, TypeCorrect, PTL DEF Spec
=============================================================================
