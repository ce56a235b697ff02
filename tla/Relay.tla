------------------------------- MODULE Relay -------------------------------
(***************************************************************************)
(* board.c: the relay, its auto-off ("inching") timer, their deferred and  *)
(* immediate NVS writes, and what a power cut leaves behind.               *)
(*                                                                         *)
(* Three tasks call relay_set: the control task (a countdown, a routine or *)
(* the auto-off fires), the HTTP task and the button's timer callback.     *)
(* g_relay_mutex covers the store to s_relay_active and nothing after it,  *)
(* so relay_set is one atomic step followed by several that a task of      *)
(* higher priority may preempt.  notify_bump_state ends in                 *)
(* httpd_queue_work, a datagram to the server's control socket, when an    *)
(* SSE client is registered (sse.c:399-411): with SseClient the caller may *)
(* block there, without it the call returns at once.                       *)
(*                                                                         *)
(* Time: the code only compares esp_timer_get_time() - on_time with the    *)
(* delay, so on_time is kept as the stamp's age, saturating at AgeCap.     *)
(***************************************************************************)
EXTENDS Integers, Tasks

CONSTANTS
    SseClient,    \* TRUE iff an SSE client is registered, so a bump may block
    Settings,     \* auto-off delays a client may ask for: records [h, s]
    HourLen,      \* length of one "hour" of a setting, in seconds
    AgeCap,       \* ages saturate here; above every delay
    BootModes,    \* boot modes a client may choose
    SavedRelay,   \* relay states NVS may hold when power first comes up
    ClockAtBoot,  \* may the wall clock be valid at boot (a seeded epoch)?
    Timed,        \* what a countdown or a routine may set the relay to
    Toggles,      \* TRUE iff toggle requests and button presses are modelled
    MaxBoots      \* bound on the number of power cuts

NoDelay == [h |-> 0, s |-> 0]
Total(d) == d.h * HourLen + d.s

ASSUME SettingsAssumption ==
    /\ HourLen \in Nat \ {0}
    /\ AgeCap \in Nat
    /\ Settings \subseteq [h : Nat, s : Nat]
    /\ \A d \in Settings : Total(d) \in 1..AgeCap
ASSUME BootAssumption ==
    /\ BootModes \subseteq {"off", "on", "auto"}
    /\ SavedRelay \subseteq BOOLEAN /\ ClockAtBoot \subseteq BOOLEAN
    /\ Timed \subseteq BOOLEAN
    /\ SseClient \in BOOLEAN /\ Toggles \in BOOLEAN
    /\ MaxBoots \in Nat

VARIABLES
    relay,        \* s_relay_active, and the GPIO level with it
    fired,        \* s_auto_off_fired_in_cycle
    onTime,       \* age of s_auto_off_relay_on_time, Never when it is 0
    savePending,  \* s_relay_save_pending
    aoff,         \* s_auto_off_{h,m,s,enabled}
    bootMode,     \* s_boot_mode
    clockOk,      \* timing_is_time_valid()
    nvs,          \* the relay namespace in flash
    pc,           \* where each task is
    arg,          \* the argument of each task's relay_set
    ret,          \* where the control task's relay_set or bump returns to
    cfg,          \* the configuration the HTTP task is writing
    val,          \* the value nvs_save_relay is writing
    age,          \* history: time since the relay last closed
    tracked,      \* history: RAM and flash were equal once since boot
    boots         \* power cuts so far

devVars  == <<relay, fired, onTime, savePending, aoff, bootMode>>
callVars == <<pc, arg, ret, cfg, val>>
vars == <<devVars, callVars, clockOk, nvs, age, tracked, boots>>

Never  == -1
Ages   == 0..AgeCap
Delays == [h : {d.h : d \in Settings} \cup {0}, s : {d.s : d \in Settings} \cup {0}]
Config == [delay : Delays, enabled : BOOLEAN]
Cleared == [delay |-> NoDelay, enabled |-> FALSE]
Armings == {[delay |-> d, enabled |-> TRUE] : d \in Settings}

Older(a) == IF a \in 0..(AgeCap - 1) THEN a + 1 ELSE a

-----------------------------------------------------------------------------
(* Scheduling.                                                             *)

\* The steps at which a task may be descheduled though it has work to do:
\* the socket send behind notify_bump_state, and an NVS write while another
\* task is inside one.
Writing == {"commit", "cfgSave", "bootSave"}
Blocked ==
    {t \in Task : \/ pc[t] = "idle"
                  \/ pc[t] = "bump" /\ SseClient
                  \/ pc[t] \in Writing /\ \E u \in Task \ {t} : pc[u] \in Writing}

At(t, label) == pc[t] = label /\ CanRun(t, Blocked)
Goto(t, label) == pc' = [pc EXCEPT ![t] = label]

-----------------------------------------------------------------------------
(* relay_set, shared by the three tasks.                                   *)

\* The locked section: read "was", store s_relay_active, drive the GPIO.
Store(t, on) ==
    /\ relay' = on
    /\ Goto(t, IF on /\ ~relay THEN "rearm" ELSE "mark")
    /\ age' = IF on /\ ~relay THEN 0 ELSE age
    /\ tracked' = TRUE
    /\ UNCHANGED <<fired, onTime, savePending, aoff, bootMode, arg, ret, cfg, val,
                   clockOk, nvs, boots>>

SetRelay(t) == At(t, "set") /\ Store(t, arg[t])

\* relay_toggle: the value stored is the one read a step earlier.
SetToggled(t) == At(t, "tset") /\ Store(t, arg[t])

\* "if (on && !was)": the fired flag first, then the time stamp.
\* Mutant: the flag of the last cycle survives into the next one.
Rearm_KeepsFlag(t) ==
    /\ At(t, "rearm")
    /\ Goto(t, "stamp")
    /\ UNCHANGED <<devVars, arg, ret, cfg, val, clockOk, nvs, age, tracked, boots>>

Rearm(t) ==
    /\ At(t, "rearm")
    /\ fired' = FALSE
    /\ Goto(t, "stamp")
    /\ UNCHANGED <<relay, onTime, savePending, aoff, bootMode, arg, ret, cfg,
                   val, clockOk, nvs, age, tracked, boots>>

\* Mutant: the cycle keeps the time stamp of the one before.
Stamp_Forgets(t) ==
    /\ At(t, "stamp")
    /\ Goto(t, "mark")
    /\ UNCHANGED <<devVars, arg, ret, cfg, val, clockOk, nvs, age, tracked, boots>>

Stamp(t) ==
    /\ At(t, "stamp")
    /\ onTime' = 0
    /\ Goto(t, "mark")
    /\ UNCHANGED <<relay, fired, savePending, aoff, bootMode, arg, ret, cfg,
                   val, clockOk, nvs, age, tracked, boots>>

\* Mutant: only a rising edge asks for a save.
Mark_RisingOnly(t) ==
    /\ At(t, "mark")
    /\ savePending' = (savePending \/ arg[t])
    /\ Goto(t, "bump")
    /\ UNCHANGED <<relay, fired, onTime, aoff, bootMode, arg, ret, cfg, val,
                   clockOk, nvs, age, tracked, boots>>

Mark(t) ==
    /\ At(t, "mark")
    /\ savePending' = TRUE
    /\ Goto(t, "bump")
    /\ UNCHANGED <<relay, fired, onTime, aoff, bootMode, arg, ret, cfg, val,
                   clockOk, nvs, age, tracked, boots>>

\* notify_bump_state (and power_notify_activity, led_update) return.
Bumped(t) ==
    /\ At(t, "bump")
    /\ Goto(t, IF t = Ctrl THEN ret ELSE "idle")
    /\ arg' = [arg EXCEPT ![t] = FALSE]
    /\ ret' = IF t = Ctrl THEN "idle" ELSE ret
    /\ UNCHANGED <<devVars, cfg, val, clockOk, nvs, age, tracked, boots>>

-----------------------------------------------------------------------------
(* Requests: POST /relay and the button.                                   *)

\* Task t begins a call of relay_set(on) at the given label.
Call(t, label, on) ==
    /\ arg' = [arg EXCEPT ![t] = on]
    /\ Goto(t, label)
    /\ UNCHANGED <<devVars, cfg, val, clockOk, nvs, age, tracked, boots>>

PostRelay(on) == At(Httpd, "idle") /\ Call(Httpd, "set", on) /\ UNCHANGED ret

\* relay_toggle == relay_set(!relay_get()): the read, under the lock.
Toggle(t) ==
    /\ Toggles /\ t # Ctrl
    /\ At(t, "idle")
    /\ Call(t, "tset", ~relay)
    /\ UNCHANGED ret

-----------------------------------------------------------------------------
(* PUT /config/auto-off and /config/boot on the HTTP task.                 *)

Configure(c) ==
    /\ At(Httpd, "idle")
    /\ cfg' = c
    /\ Goto(Httpd, "cfgHour")
    /\ UNCHANGED <<devVars, arg, ret, val, clockOk, nvs, age, tracked, boots>>

\* relay_set_auto_off and relay_auto_off_clear store field after field.
CfgStep(from, to) ==
    /\ At(Httpd, from)
    /\ Goto(Httpd, to)
    /\ UNCHANGED <<relay, onTime, savePending, bootMode, arg, ret, val,
                   clockOk, age, tracked, boots>>

CfgHour ==
    /\ CfgStep("cfgHour", "cfgSec")
    /\ aoff' = [aoff EXCEPT !.delay.h = cfg.delay.h]
    /\ UNCHANGED <<fired, nvs, cfg>>
CfgSec ==
    /\ CfgStep("cfgSec", "cfgArm")
    /\ aoff' = [aoff EXCEPT !.delay.s = cfg.delay.s]
    /\ UNCHANGED <<fired, nvs, cfg>>
CfgArm ==
    /\ CfgStep("cfgArm", "cfgFired")
    /\ aoff' = [aoff EXCEPT !.enabled = cfg.enabled]
    /\ UNCHANGED <<fired, nvs, cfg>>
CfgFired ==
    /\ CfgStep("cfgFired", "cfgSave")
    /\ fired' = FALSE
    /\ UNCHANGED <<aoff, nvs, cfg>>
\* Mutant: clearing the auto-off is not written to flash.
CfgSave_ArmedOnly ==
    /\ CfgStep("cfgSave", "bump")
    /\ nvs' = IF aoff.enabled THEN [nvs EXCEPT !.aoff = aoff] ELSE nvs
    /\ cfg' = Cleared
    /\ UNCHANGED <<aoff, fired>>
CfgSave ==
    /\ CfgStep("cfgSave", "bump")
    /\ nvs' = [nvs EXCEPT !.aoff = aoff]
    /\ cfg' = Cleared
    /\ UNCHANGED <<aoff, fired>>

PutBoot(mode) ==
    /\ At(Httpd, "idle")
    /\ bootMode' = mode
    /\ Goto(Httpd, "bootSave")
    /\ UNCHANGED <<relay, fired, onTime, savePending, aoff, arg, ret, cfg, val,
                   clockOk, nvs, age, tracked, boots>>
\* Mutant: the byte written is one off, and out of range for the last mode.
BootSave_OffByOne ==
    /\ At(Httpd, "bootSave")
    /\ nvs' = [nvs EXCEPT !.boot =
                CASE bootMode = "off" -> "on" [] bootMode = "on" -> "auto"
                  [] bootMode = "auto" -> "invalid"]
    /\ Goto(Httpd, "bump")
    /\ UNCHANGED <<devVars, arg, ret, cfg, val, clockOk, age, tracked, boots>>

BootSave ==
    /\ At(Httpd, "bootSave")
    /\ nvs' = [nvs EXCEPT !.boot = bootMode]
    /\ Goto(Httpd, "bump")
    /\ UNCHANGED <<devVars, arg, ret, cfg, val, clockOk, age, tracked, boots>>

-----------------------------------------------------------------------------
(* The control task's loop.                                                *)

CtrlGoto(from, to) ==
    /\ At(Ctrl, from)
    /\ Goto(Ctrl, to)
    /\ UNCHANGED <<relay, onTime, aoff, bootMode, arg, cfg, clockOk, age,
                   tracked, boots>>

Wake == CtrlGoto("idle", "timed") /\ UNCHANGED <<fired, savePending, ret, val, nvs>>

\* fire_due or countdown_tick sets the relay; both need a valid clock.
TimedFire(on) ==
    /\ clockOk
    /\ At(Ctrl, "timed")
    /\ Call(Ctrl, "set", on)
    /\ ret' = "aoff"

\* countdown_tick returns early, past the auto-off, while the clock is unset.
TimedPass ==
    /\ CtrlGoto("timed", IF clockOk THEN "aoff" ELSE "persist")
    /\ UNCHANGED <<fired, savePending, ret, val, nvs>>

\* Mutant: the configuration is not consulted, only the stamp.
Due_Disarmed ==
    /\ relay /\ ~fired
    /\ onTime # Never
    /\ onTime >= Total(aoff.delay)

\* The conditions of relay_auto_off_process, all true.
Due ==
    /\ aoff.enabled /\ relay /\ ~fired
    /\ Total(aoff.delay) # 0
    /\ onTime # Never
    /\ onTime >= Total(aoff.delay)

AutoOffFire ==
    /\ At(Ctrl, "aoff") /\ Due
    /\ Call(Ctrl, "set", FALSE)
    /\ ret' = "fired"

AutoOffPass ==
    /\ ~Due
    /\ CtrlGoto("aoff", "persist")
    /\ UNCHANGED <<fired, savePending, ret, val, nvs>>

\* After relay_set(false) has returned; a second bump follows.
AutoOffFired ==
    /\ CtrlGoto("fired", "bump")
    /\ fired' = TRUE
    /\ ret' = "persist"
    /\ UNCHANGED <<savePending, val, nvs>>

\* relay_persist_tick clears the flag and only then reads the state it saves.
PersistTick ==
    /\ CtrlGoto("persist", IF savePending THEN "flush" ELSE "idle")
    /\ savePending' = FALSE
    /\ UNCHANGED <<fired, ret, val, nvs>>
Flush ==
    /\ CtrlGoto("flush", "commit")
    /\ val' = relay
    /\ UNCHANGED <<fired, savePending, ret, nvs>>
Commit ==
    /\ CtrlGoto("commit", "idle")
    /\ nvs' = [nvs EXCEPT !.relay = val]
    /\ val' = FALSE
    /\ UNCHANGED <<fired, savePending, ret>>

-----------------------------------------------------------------------------
(* The environment: time, the clock and the power supply.                  *)

Tick ==
    /\ onTime' = Older(onTime)
    /\ age' = Older(age)
    /\ UNCHANGED <<relay, fired, savePending, aoff, bootMode, callVars, clockOk, nvs,
                   tracked, boots>>

\* NTP answers: the wall clock becomes valid.
ClockSet ==
    /\ ~clockOk
    /\ clockOk' = TRUE
    /\ UNCHANGED <<devVars, callVars, nvs, age, tracked, boots>>

\* board_init: what RAM holds after a boot from the flash contents n.
BootRelay(n) == n.boot = "on" \/ (n.boot = "auto" /\ n.relay)
BootStamp(n) == IF BootRelay(n) /\ n.aoff.enabled THEN 0 ELSE Never

PowerCut ==
    /\ boots < MaxBoots
    /\ boots' = boots + 1
    /\ nvs' = nvs
    /\ relay' = BootRelay(nvs)
    /\ fired' = FALSE
    /\ onTime' = BootStamp(nvs)
    /\ savePending' = FALSE
    /\ aoff' = nvs.aoff
    /\ bootMode' = nvs.boot
    /\ clockOk' \in ClockAtBoot
    /\ pc' = [t \in Task |-> "idle"]
    /\ arg' = [t \in Task |-> FALSE]
    /\ ret' = "idle"
    /\ cfg' = Cleared
    /\ val' = FALSE
    /\ age' = IF BootRelay(nvs) THEN 0 ELSE AgeCap
    /\ tracked' = (nvs.boot = "auto")

-----------------------------------------------------------------------------
\* A first boot, from any flash contents an earlier life may have left.
Init ==
    /\ nvs \in [relay : SavedRelay, aoff : Armings \cup {Cleared}, boot : BootModes]
    /\ relay = BootRelay(nvs)
    /\ fired = FALSE
    /\ onTime = BootStamp(nvs)
    /\ savePending = FALSE
    /\ aoff = nvs.aoff
    /\ bootMode = nvs.boot
    /\ clockOk \in ClockAtBoot
    /\ pc = [t \in Task |-> "idle"]
    /\ arg = [t \in Task |-> FALSE]
    /\ ret = "idle"
    /\ cfg = Cleared
    /\ val = FALSE
    /\ age = IF BootRelay(nvs) THEN 0 ELSE AgeCap
    /\ tracked = (nvs.boot = "auto")
    /\ boots = 0

RelaySet(t) ==
    SetRelay(t) \/ SetToggled(t) \/ Rearm(t) \/ Stamp(t) \/ Mark(t) \/ Bumped(t)

Control ==
    \/ Wake \/ TimedPass \/ (\E on \in Timed : TimedFire(on))
    \/ AutoOffFire \/ AutoOffPass \/ AutoOffFired
    \/ PersistTick \/ Flush \/ Commit
    \/ RelaySet(Ctrl)

\* A request already accepted is carried through ...
Serve == CfgHour \/ CfgSec \/ CfgArm \/ CfgFired \/ CfgSave \/ BootSave \/ RelaySet(Httpd)
\* ... while accepting one is up to the client.
Request ==
    \/ \E on \in BOOLEAN : PostRelay(on)
    \/ \E c \in Armings \cup {Cleared} : Configure(c)
    \/ \E m \in BootModes : PutBoot(m)
    \/ \E t \in {Httpd, Timer} : Toggle(t)

Next ==
    \/ Control \/ Serve \/ RelaySet(Timer) \/ Request
    \/ Tick \/ ClockSet \/ PowerCut

\* The control task never waits for a lower one except at a bounded call, so
\* weak fairness suffices.  It sleeps at least one tick per loop, which leaves
\* the lower tasks the processor again and again: strong fairness.
Fairness ==
    /\ WF_vars(Control)
    /\ SF_vars(Serve)
    /\ SF_vars(RelaySet(Timer))
    /\ WF_vars(Tick)

Spec == Init /\ [][Next]_vars /\ Fairness
-----------------------------------------------------------------------------
(* Properties.                                                             *)

Labels == {"idle", "set", "tset", "rearm", "stamp", "mark", "bump",
           "cfgHour", "cfgSec", "cfgArm", "cfgFired", "cfgSave", "bootSave",
           "timed", "aoff", "fired", "persist", "flush", "commit"}

\* Every variable has its type (board.c:41-56, 270-286).
TypeOK ==
    /\ relay \in BOOLEAN /\ fired \in BOOLEAN /\ savePending \in BOOLEAN
    /\ onTime \in Ages \cup {Never}
    /\ aoff \in Config /\ cfg \in Config
    /\ bootMode \in BootModes
    /\ clockOk \in BOOLEAN
    /\ nvs \in [relay : BOOLEAN, aoff : Config, boot : BootModes]
    /\ pc \in [Task -> Labels]
    /\ arg \in [Task -> BOOLEAN]
    /\ ret \in {"idle", "aoff", "fired", "persist"}
    /\ val \in BOOLEAN /\ tracked \in BOOLEAN
    /\ age \in Ages
    /\ boots \in 0..MaxBoots

\* A save of the relay's present state is still to come: requested, about to
\* be requested by a relay_set under way, or being written.
SaveComing ==
    \/ savePending
    \/ \E t \in Task : pc[t] \in {"rearm", "stamp", "mark"}
    \/ pc[Ctrl] = "flush"
    \/ pc[Ctrl] = "commit" /\ val = relay

\* The deferred write (board.c:239-242, 346-350) never loses a change: while
\* flash and RAM differ, a write of the present state is still to come, however
\* relay_set calls of three tasks interleave with the flush.
RelayDurable == tracked /\ nvs.relay # relay => SaveComing

\* RelayDurable made inductive: with no write of the present state to come,
\* flash is up to date and no write of an older state is about to land.
DurableInv == tracked => SaveComing \/ (nvs.relay = relay /\ pc[Ctrl] # "commit")

\* When the control task decides to cut the relay for the auto-off
\* (board.c:352-360), at the moment it stores OFF the auto-off is still armed
\* with a delay, the relay closed and the cycle not yet ended: no request gets
\* between the checks and the store.
AutoOffJustified ==
    pc[Ctrl] = "set" /\ ret = "fired" =>
        /\ aoff.enabled /\ Total(aoff.delay) # 0
        /\ relay /\ ~fired

\* No configuration write is under way on the HTTP task.
ConfigAtRest == pc[Httpd] \notin {"cfgSec", "cfgArm", "cfgFired", "cfgSave", "bootSave"}

\* Configuration is written through: flash differs from RAM only inside the
\* handler that is changing it.
ConfigInv ==
    /\ nvs.aoff = aoff \/ pc[Httpd] \in {"cfgSec", "cfgArm", "cfgFired", "cfgSave"}
    /\ nvs.boot = bootMode \/ pc[Httpd] = "bootSave"

\* A power cut in boot mode AUTO (board.c:498-517) changes neither the relay
\* nor the auto-off configuration, unless a save was still to come or a
\* request was being served.
PowerCutKeeps ==
    [][boots' # boots /\ bootMode = "auto" /\ tracked /\ ~SaveComing /\ ConfigAtRest
         => relay' = relay /\ aoff' = aoff]_vars

\* An armed auto-off ends every cycle: the relay does not stay closed for ever
\* with the auto-off armed (board.c:352-364, README.md:18).
AutoOffFires == []<>~(relay /\ aoff.enabled)

\* The auto-off cuts the relay only after it has been closed for as long as
\* the delay (board.c:357-360), except in the window in which another task has
\* closed the relay and not yet stamped the cycle (board.c:232-237).
AutoOffNotEarly ==
    pc[Ctrl] = "set" /\ ret = "fired" =>
        \/ age >= Total(aoff.delay)
        \/ \E t \in {Httpd, Timer} : pc[t] \in {"rearm", "stamp"}

\* What AutoOffNotEarly rests on: a closed relay whose cycle no relay_set is
\* still stamping has a stamp no older than the cycle, or none.
CycleInv ==
    relay /\ (\A t \in Task : pc[t] \notin {"rearm", "stamp"}) => onTime <= age

\* What AutoOffFires rests on, first half: the flag of an ended cycle does not
\* pass into the next one, without SSE clients (board.c:234-236, 355, 362).
FlagFollows == ~SseClient /\ relay /\ fired => \E t \in Task : pc[t] = "rearm"

\* Second half: a closed relay has a time stamp, or is about to get one ...
Stamped == relay => onTime # Never \/ \E t \in Task : pc[t] \in {"rearm", "stamp"}

\* ... and nothing takes it away but a boot that restores the relay closed with
\* the auto-off disarmed (board.c:507-511).
OnlyBootUnstamps ==
    [][Stamped /\ ~Stamped' => boots' # boots /\ relay' /\ ~aoff'.enabled]_vars

\* FlagFollows made inductive: from the decision to cut the relay until the flag
\* is set, nobody closes it.
CutInv ==
    /\ FlagFollows
    /\ ~SseClient /\ ret = "fired" =>
          /\ pc[Ctrl] \in {"set", "mark", "bump"} /\ ~arg[Ctrl]
          /\ pc[Ctrl] # "set" => ~relay
    /\ ~SseClient /\ pc[Ctrl] = "fired" => ~relay
=============================================================================
