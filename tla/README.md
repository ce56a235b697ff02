# Verification of sw_firm

TLA+ models of the ESP8266 smart-switch firmware in `src/main`, checked with TLC,
and theorems about them checked with TLAPS.

## 1. The system

One core, FreeRTOS, strict preemptive priorities. Three application tasks share
RAM, above them the WiFi, event-loop and TCP/IP tasks:

| task | priority | runs |
|---|---|---|
| control (`routines_task`, routines.c:553) | 5 | every 500 ms or when woken: routines, countdown, auto-off, the deferred NVS flushes, LED, power, SSE heartbeat |
| `httpd` | 3 | every HTTP handler, and the SSE pushes queued to it |
| esp_timer daemon | 2 | button sampler, LED blinker, SmartConfig and retry timers, NTP health check, delayed reset |

A lower task runs only while every higher one is blocked: asleep, waiting for a
lock, or inside a call that may block. The one such call on the hot path is
`notify_bump_state`, which ends in `httpd_queue_work` when an SSE client is
registered.

### Inventory

| component | state | operations | hard part |
|---|---|---|---|
| relay and auto-off (board.c) | relay, time stamp and fired flag of the cycle, auto-off setting, boot mode, save-pending flag | `relay_set`, `relay_toggle`, set/clear auto-off, boot mode, flush, `relay_auto_off_process`, boot | three callers, one short lock, a deferred write, power cuts |
| LED (board.c) | override flag, pattern, blink counter, timer, pin, mode | `led_apply`, `led_timer_cb`, `led_update`, `led_set_mode` | no lock: patterns from two tasks against a timer and a periodic refresh |
| button (board.c) | debounce state, two counters, press time | `btn_timer_cb` | bounces at both edges, one report per press |
| countdown (countdown.c) | one countdown, deferred save and erase flags | set, cancel, tick, boot | fires between a copy and a clear; wall clock jumps; power cuts |
| routines (routines.c) | 12 slots, firing memory, active mask, dirty flag | create, update, delete, fire, flush, boot | conflict rules read outside the lock; exact-second firing; deferred write |
| state (state.c) | version, dirty flag, cached snapshot | bump, rebuild, hash | invalidation during a rebuild |
| SSE (sse.c) | two client slots, push-pending flag, last snapshot sent | register, notify, push, heartbeat, mark fd, enable | a change during a push; deltas for late clients; descriptor reuse |
| connection (connection.c) | SmartConfig state, retry and auth counters, timers, stored credentials | WiFi/IP/SmartConfig events, timer callbacks | event order, retries, a state with no timer armed |
| timing (timing.c) | NTP flag, health counter, saved epoch, timezone | start, sync callback, health check, save, set timezone, boot | an answer between the two halves of a start; a seeded clock |
| power (power.c) | active flag, pending flag, subscriber count | activity, process, override | flag handshakes between tasks |
| clients (clients.c) | the last eight client ids and when each was seen | seen, count | eviction when 32 bits of milliseconds wrap |
| HTTP (http/) | none of its own | the handlers: the requests of every module here | admission rules across components |

Components interact by calls into each other's setters from all three tasks, by
flags polled in the control task, by `notify_bump_state` and by the work queue of the
HTTP task (SSE pushes). state.c:92 calls `notify_bump_state` what every mutator must
call; the LED's level, the mask of active routines and what is read off the clock
change without it.

What makes each correct: the relay does what was last asked and flash follows;
an armed auto-off ends each cycle, never early; an accepted countdown or routine
fires once, at its time, and survives a power cut; auto-off and timed behaviour
exclude each other, and so do two routines; a subscriber ends up with the device's
state; the connection machine never stops with nothing armed to wake it; nothing
timed runs on a clock that was never synchronised; a press is reported once; the LED
shows the pattern set last, or what the user selected.

## 2. Modules

Each component's module is self-contained state and actions; an `MC` module
beside it holds only the small sets its `.cfg` files name. Operators called
`X_Something` with the comment *Mutant* are plausible bugs of `X`, listed in
PROJECT.json: each property has one that breaks it.

### Tasks, Relay, MCRelay, RelayProofs

`Tasks` states the priorities. `Relay` is board.c's relay: `relay_set` is a small
program (`set`, `rearm`, `stamp`, `mark`, `bump`) that any of the three tasks
runs; `pc` holds where each is. Only the store is under `g_relay_mutex`, so it is
one step, and the others are preemptible. `CanRun` lets a task step only while
every higher task is in `Blocked`.

| code | model |
|---|---|
| `relay_set` | `SetRelay`, `Rearm`, `Stamp`, `Mark`, `Bumped` |
| `relay_toggle` | `Toggle` (the read), `SetToggled` (the store) |
| `relay_set_auto_off`, `relay_auto_off_clear` | `Configure`, `CfgHour` .. `CfgSave`, one store each; h and m are one field |
| `relay_auto_off_process` | `AutoOffFire` / `AutoOffPass`, then `AutoOffFired` |
| `relay_persist_tick` | `PersistTick`, `Flush` (the read), `Commit` (the write) |
| `board_init` after a power cut | `PowerCut` |

Times are ages: the code compares only `now - on_time` with the delay, and the age
saturates above every delay, which is exact. A missing NVS record reads like the
default and is not told apart. The rejection of auto-off while something is timed
is a handler that changes nothing here; the rule itself is in Arbitration.

### Clock

What timing.c promises the rest about the wall clock, as an abstract specification
(`ClockSpec`): it runs with real time, is only ever set right, and forwards; an epoch is
saved only from a clock that is right; a boot starts from it. `Countdown` and `Timing`
share its variables, and both are proved to implement it: what is proved of countdowns
rests on no clock that timing.c does not provide.

### Countdown, MCCountdown, CountdownProofs

countdown.c on the wall clock of timing.c. The HTTP task runs `Set` / `Cancel`, then
`MarkSave` / `MarkErase` (the deferred flag is a store of its own) and `Reply`. The
control task runs `countdown_tick` as `Read` (the copy), `Check`, `Fire`, `Clear`,
`Fired`, `Bumped`, `FlushErase`, `FlushSave`. `real` is true time, `wall` the device's
clock, which `Sync` may move forward only (`timing_ntp_sync_cb`), `epoch` the time
saved at the last sync, from which a power cut restarts the clock. `Threshold` stands
for the constant under which a clock counts as unset. Each boot chooses `watched`:
whether a notification may block its caller, as with an SSE client. A countdown
carries as history `due`, the true time it should fire at, and `fair`, whether the
clock was synchronised when it was set.

### Calendar, Routines, MCRoutines, RoutinesProofs

`Calendar` is the date arithmetic of routines.c as operators: when a routine fires
next (`NextFire`, with the weekday search, the date ranges and a circulate's
intervals), when a window is open, and the three conflict rules. Its last part is the
reference the code is compared with, without the code's case analysis: `Wants` (the
minutes a routine is set for), `ActsAt` (when it must act if looked at) and `Owed` (when
it may, with the grace of `MaxLate` seconds of routines.h and the toggle at a window's
end). `Routines` is the slot table: the control task judges every
slot in one locked step (`Fire`: cleanup of expired circulates, firing, phase and last
toggle) and applies the actions after it, one `relay_set` at a time (`Apply`,
`Applied`), while the HTTP task reads and validates without the lock (`PostRoutine`,
`PutRoutine`, `DeleteRoutine`) and takes it to store (`Create`, `Full`, `Update`,
`Remove`). `Tick` lets the clock go on by a second or NTP correct it either way.
`ArmNext` is `arm_next`, the time the control task would sleep until.

### Ownership, Arbitration, MCArbitration, ArbitrationProofs

The rules that keep auto-off, countdown and routines apart are spread over five
handlers. `Arbitration` has one action per handler (`ArmAutoOff`, `PostTimer`,
`PostRoutine`, `PutRoutine`, ...), the control loop's tick and flushes, boots and
the factory reset, at the grain of whole handlers: the HTTP task is the only
caller and the only task they share state with is the control task, whose pass is
one action. A handler that edits a routine wakes the control task (`routines_wake`), whose
priority is the higher: `woken` keeps the next request back until the pass is done. A
countdown is set and cancelled without a wake, so that its write waits for a tick. A routine is its kind and whether it is enabled; dates and firing
times are Calendar's. `Ownership` is the abstract promise: one owner of the
relay, who takes it only from manual control, with the two exceptions the code
makes (a countdown that is set but not counting, and a restart). `Owner` maps the
state of the three components to it, and `OwnershipKept` is the refinement.

### Push, MCPush, PushProofs

How a change reaches the clients: `notify_bump_state` on three tasks (`Bump`,
`Check`, `Claim`, `Scan`, `Queue` / `Unclaim`: every access to `s_push_pending` is a
step, since none is locked), `ensure_fresh` field by field (`BuildField`, `Clean`),
`sse_push_work` (`PushStart`, `Encode`, `Send`, `Done`) and the registration of a
client (`Register`, `FullField`, `FullSent`). `view` is what each client has been
told. A field is a Boolean: the code tells only "equal" from "different". The
fields are of two kinds: a change of an `Announced` one is followed by its notification
(`Mutate`), one of an `Unannounced` one by none and at any time (`Drift`: the LED's level,
board.c:121-124 and 163-176; the routine mask, routines.c:581; `time_ok` and
`countdown_active`, as the clock passes a threshold). A handler's refresh of the mask
after its notification (routines.c:658-659) counts as such, though the push, on the same task, runs only
after the handler. The history variables `lost`, `torn`, `gap` and `unsaid` name the four
ways a change is missed, so that `Current` says there is no fifth. Four defects are thereby
excepted, not excused: section 5 lists them.

### Power, Slots, MCSlots, SlotsProofs

`Power` holds power.c's functions as operators on its state; `Slots` extends it and
calls them where sse.c does. `Slots` is the table of two clients, the registry of
descriptors the server does not read, the count of distinct descriptors and power's
count of subscribers: `sse_register` (`Disabled`, `Replace`, `TakeFree`,
`Evict`, `Reject`), `Deactivate`, the heartbeat from its tick on the control
task to its sends, `sse_set_enabled`, `power_process`, and the server's connections
(external): peers leave, descriptors are purged and reused.

### Connection, MCConnection, ConnectionProofs

connection.c's station machine. Handlers take events from a queue in order, one step
each (they run on a task that nothing here preempts); the callbacks of the two timers
and the long press run on the esp_timer task and are split at every point where a
handler may step in. The driver, the access point, DHCP and SmartConfig are
external and report by events. Not all of time is modelled: `stale` is the watchdog's
90 s. The timer of the machine, whose shortest delay is 50 ms, may expire while an event
is queued; the rescue timer and the watchdog, of 60 and 90 s, may not.

### Timing, MCTiming (theorems in CountdownProofs)

timing.c, on the variables of `Clock`: `NtpStart` and `HealthStart` are the two halves of a start on the event
task, `Answer` the sync callback on the TCP/IP task, `CheckAnswered` / `CheckSilent`
the health check on the timer task, `Sync` the control task's once-per-boot handling,
`SetTimezone` / `SaveTimezone` the PUT with a flash write that may fail, and `PowerCut`
the seeded clock of `timing_init`. SNTP is external: it asks until it is answered and is
then quiet for an hour.

### Press, Button, Panel, MCPanel, PanelProofs

`Button` is `btn_timer_cb`, one action per debounce state, in samples, with callbacks
that may be late. `Press` is the abstract button: it follows its contacts after
enough samples that say otherwise and reports each press once, as what it was; `Debounces` is the
refinement. `Panel` extends `Button` with the LED: `led_apply` in one step on the event
task, which outranks all others (`Pattern`), and in two on the esp_timer task (`Claim`,
`StartBlink`), `led_timer_cb` (`BlinkOff`, `BlinkOn`, `Release`, `Stop`), `led_update`
(`Look`, `Show`). `raced` names the one way a pattern gets lost.

## 3. Runs

All runs use every interleaving the priorities allow, check deadlock except where
noted, and finish in less than three minutes on two cores.

| run | bounds | what it shows |
|---|---|---|
| RelaySafe | one delay of 2 ticks (an hour is 2), all boot modes, 1 power cut | `RelayDurable`, `AutoOffJustified`, `AutoOffNotEarly`, `PowerCutKeeps` |
| RelayLive | valid clock, boot OFF, no SSE client | `AutoOffFires` |
| Countdown | durations 1 and 2, clock from 5 to 8, 1 power cut, boots with and without SSE clients, NTP answers in the end | `CountdownDurable`, `NotLost`, `NotEarly`, `CountdownEnds` |
| Routines | days of 3 minutes of 2 s, weeks of 2 days, 2 slots, 7 kinds of request, 11 s of clock, corrections by 1 s | `FiresDuly`, `OneOwner`, `FreshCycle`, `ActsOnLive` |
| Arbitration | 2 slots, 1 restart | `FlashFollows`, `OwnershipKept` (refinement), `FactoryResetWipes` |
| FactoryReset | as Arbitration | refutes `FactoryResetErases`: finding 1 |
| Push | 1 field (`countdown_active`: changed with and without a notification), 1 client, 3 tasks that notify, a control socket of 2 | `PendingJustified`, `Current` |
| Slots | 3 descriptors over the code's 2 slots | `Counted`, `RegistryExact`, `WatchedAwake`, `DeadLeave` |
| Connection | 1 network, 1 attempt in each retry loop, 2 rejections to a wipe, 2 reports in the queue | `NeverStuck`, `UsesSaved`, `CredsKept`, `Unstranded` |
| ConnectionStuck | as Connection | refutes `Recovers`: finding 2 |
| Timing | 2 timezones, 2 checks to a new start, 2 lost links, 2 power cuts | `ClockRight`, `NotForgotten`, `Activates`, `ZoneKept` |
| Panel | 2 samples to a debounce, 3 to a long press, callbacks 1 late, 1 repetition, 3 patterns | `PatternShown`, `Debounces` (refinement), `LedFollows` |

Why these bounds are enough. Delays and durations of 2 put a tick before, at and
after the deadline; a clock to 8 leaves room to set, fire and set again around a
sync and a cut. One power cut shows every state a cut can leave; Timing's second one
boots on an epoch saved in a boot that itself was seeded. A day of three minutes has one
before, in and after a window, and a minute of two seconds an instant at which a schedule is due
and one at which it is not; two weekdays tell today from another day; two slots hold a
pair in conflict, one of them disabled, dated or neither. The same two hold, in
Arbitration, one routine of each kind. One client and one field that changes in both
ways suffice for Push because its conditions are per field and per client and only the flags are
shared; a control socket of 2 may hold two works queued by the race on the flag and
may be full. Three descriptors are one more than slots, so that eviction, rejection
and a full registry occur. Of each retry loop in Connection, the first attempt, the
last and the one after the limit occur; two rejections are one that counts and one
that wipes. The queue's bound only limits what the world reports: the machine's own
events are always appended. Two samples to a debounce are the least at which a bounce
can be bridged; three patterns are two endless ones and the one that ends.

Fairness. The control task is never waiting on a lower one but for bounded calls:
weak fairness. It sleeps at least a tick in every loop, so that lower tasks get the
processor again and again but not continuously: strong fairness of what they have
begun (never of a request: users may stop). Time passes. In SyncedSpec, used by
Countdown, NTP answers in the end. In Slots the server closes nothing out of
kindness: only ticks, the drain of queued work and a control socket that is not full
for ever are assumed. In Connection the access point lets the device in
if it tries again and again, and DHCP answers if asked again and again: the liveness
property is about the machine, not the network. In Timing links are lost a bounded
number of times, the health timer is periodic and a request on a link is answered; a
further poll, an hour later, is not assumed. In Panel the control task ticks (weak) and
the callbacks of the esp_timer task get their turn between ticks (strong).

## 4. Proofs

For every value of the constants (numbers of slots, delays, durations, boots, samples,
lengths of day and week, sets of requests and credentials):

| module | theorems |
|---|---|
| RelayProofs | `TypeCorrect`, `RelayIsDurable`, `AutoOffIsJustified`, `AutoOffIsNotEarly`, `PowerCutIsHarmless`, `FlagNeverCarries`, `OnlyABootUnstamps` |
| CountdownProofs, of Countdown | `TypeCorrect`, `CountdownIsDurable`, `SyncedNeverEarly`, `QuietNeverLoses`, `PowerCutKeepsCountdown`, `CountdownUsesClock` |
| CountdownProofs, of Timing and Clock | `TimingTypes`, `ClockIsRight`, `AnswerNotForgotten`, `LinkIsWatched`, `ZoneIsKept`, `TimingIsClock`, `ClockForward` |
| RoutinesProofs | `TypeCorrect`, `FiresWhenDue`, `LateScheduleIsLost`, `WindowEndIsLost`, `NeverOversleeps`, `CyclesAreFresh`, `NeverTwoOwners`, `ActionsHitTheirRoutine` |
| ArbitrationProofs | `TypeCorrect`, `FlashAlwaysFollows`, `OwnershipHolds`, `QuietFactoryReset` |
| PushProofs | `TypeCorrect`, `PendingIsJustified`, `ClientsAreCurrent` |
| SlotsProofs | `TypeCorrect`, `CountsAgree`, `RegistryIsExact`, `WatchedIsAwake`, `HeartbeatIsDue` |
| ConnectionProofs | `TypeCorrect`, `CredentialsKept`, `SavedAreUsed`, `SomethingIsDue`, `RescueIsDue` |
| PanelProofs | `ButtonDebounces`, `TypeCorrect`, `PatternIsShown`, `PanelDebounces`, `LedIsLeftAlone` |

They rest on the assumption named in each module (finite sets, natural numbers, a
start of time after the threshold), which TLC evaluates in every run.

* **Relay.** `RelayDurable` says that while flash differs from the relay a save is to
  come. That alone is not inductive: a save under way might write an older value.
  `DurableInv` adds that with no save of the present state to come flash is equal and
  no commit is under way. `DecisionStep` says that from the auto-off's checks to its store only
  time passes, by the priorities (`CtrlPreempts`); `AutoOffJustified` follows, and with
  `CycleInv` (a cycle nobody is still stamping has a stamp no older than itself) so does
  `AutoOffNotEarly`. `ConfigInv`: flash differs from RAM only inside the writing handler.
  Two theorems say that the exceptions of RelayLive (section 5) are the only ones: a closed
  relay loses its stamp only in a boot that finds the auto-off disarmed, and without SSE
  clients the fired flag never outlives its cycle (`CutInv`: from the decision to the flag
  the relay stays open, by `CtrlAtRest`).
* **Countdown.** `DurableInv` adds to `CountdownDurable` that no erase is asked for
  between the tick's two flushes. `PunctualInv`: no target of a countdown set on a
  synchronised clock lies before its due time and the clock is never ahead of real
  time. `UndisturbedInv`: from copy to clear nothing changes, if the notification
  cannot block. `PowerCutKeepsCountdown` takes from `ClockSpec` that the epoch a boot
  starts from is not after the clock (`SavedIsOver`), so that what was not due is restored.
* **Timing.** `RightInv`: whatever says that SNTP answered in this boot says so of a clock
  that is right. `AskedInv`: between starting SNTP and starting the health check an answer
  is there twice, so that forgetting one loses nothing. `ToldInv`: flash holds the zone a
  client was told of. `TimingIsClock` and `CountdownUsesClock` are step simulations by identity, with
  the invariants that make an assignment of the code (any answer, any save) one the
  abstract clock allows.
* **Routines.** Lemmas on division split an instant into day, minute and second;
  with them the code's search is shown to answer the present exactly at the instants of `ActsAt`
  (`JudgedExactly`), on types alone. `FiresDuly` follows, for what must happen is owed
  (`ActingIsOwed`); so does that the code never uses the rest of what it may:
  `LateScheduleIsLost` and `WindowEndIsLost` prove two disagreements of section 5 for every
  table and clock. `OneOwner` reduces to the pairwise rules,
  and is inductive with the same of the entry a request is about to store: between check
  and store the control task only frees slots. `ActsOnLive` needs that routines which
  act in one pass want the same minute. `NeverOversleeps` says that
  `ArmNext` answers with no later time than the next instant at which a routine acts, but
  for the circulates of section 5 for which the search answers nothing; `FirstWeekday`,
  `FirstStart` and `FirstFiring` show that the searches find the earliest match. It assumes
  a search of more days than a week (`Week < FwdDays`), as the code's is.
* **Arbitration.** `ArmedInRam` (flash never arms the auto-off by itself) makes a restart a
  step of `Ownership`; `Refines` has one case per handler. `FlashFollows` needs that a marked
  table is always of a woken task (`MarkedAreWoken`). `QuietInv`: after a quiet factory reset
  flash holds no routine and none will be marked; a countdown is neither in flash nor to be
  saved, or the epoch to judge it by is gone and will not be saved again, so that the boot drops it.
* **Push.** `PushInv`: a clean cache is the device's state but for a change about to be
  marked and those nobody announces (`CacheInv`, `NotifyUnsaid`); a client knows what was last pushed, unless it registered over a
  difference (`BaseInv`); what is being sent is current or a push is to come
  (`SendInv`); a client that knows an old value has a notification under way
  (`ViewInv`). `UnderwayNotify` is the heart: with a client registered a notification
  ends only in a push or a loss. The proof does not use the priorities.
* **Slots.** The functions of sse.c map records to records; `Sound` says of a record
  that the slots are distinct, the counts are their number and the radio is awake if
  there are any, and each function keeps it. `ActiveCount` and `RoomToMark` relate the
  counts to cardinalities. The registry's exactness needs that a free slot means room.
  `BeatInv` (the pending flag is a heartbeat under way; a client means streams are
  enabled) gives `HeartbeatDue`: no tick finds a client and skips it.
* **Connection.** `Inv`: the code's count of rejections never exceeds the true one, and
  a verification has credentials to verify. `NeverStuck` is not inductive, since not
  every event moves every state on. `LinkInv`: what the queue last says of the link is
  true. `StuckInv` says for each state which events, timers and callbacks do move it on. `RescueDue` is
  inductive by itself: each way into provisioning starts the rescue timer or is a callback
  that will.
* **Panel.** `ButtonInv` bounds the sampler's counters by the samples `Press` counts
  against the present state; each of the four states is then a step of `Press`.
  `PanelInv` adds that the override flag, the timer and the pattern agree whenever the
  esp_timer task is not between its writes and nothing raced with it. `StopComing` holds
  even where patterns raced: a released LED is blinked on only until the callback that
  released it stops the timer, so that `LedIsTheUsers`.

Only model-checked: the liveness properties `AutoOffFires`, `CountdownEnds`, `DeadLeave`,
`Unstranded`, `Activates` and `LedFollows`, since the prover handles neither fairness nor
ENABLED. For four of them the safety half is proved: that the thing awaited is never left
without what will bring it about (`FlagFollows` with `OnlyBootUnstamps`, `HeartbeatDue`,
`RescueDue`, `LedIsTheUsers`). These helpers, like the inductive invariants, stand with the
properties in the modules, so that TLC can check them too. The two refuted properties
have no theorem. Every other property of a run has one.

## 5. Findings

With a run that exhibits them:

1. **FactoryReset.** The reset erases flash, not RAM. For the 300 ms until the restart
   the control task goes on: a circulate that toggles or expires in them marks the table, which
   is written back whole. No write left over from a request is needed: the control task has
   carried that out before the next request. `FactoryResetWipes` says when the reset does hold.
2. **ConnectionStuck.** Once the watchdog's 90 s have passed, each restart of the driver
   leaves a connect pending 300 ms later, and the timer tests the watchdog first:
   the driver is restarted for ever and no attempt is made.

Met while modelling, without a run of their own. Relay, countdown, clock:

* A relay restored ON at boot with the auto-off disarmed has no time
  stamp (board.c:507-511); arming the auto-off afterwards is accepted, saved and
  reported, and never cuts that cycle (355; README.md:18 promises a maximum). RelayLive
  boots OFF for this reason.
* The fired flag is set after a `relay_set` that may block (board.c:362), over the reset
  by a handler meanwhile. RelayLive has no SSE client for this reason.
* While the clock is unset `countdown_tick` returns before the auto-off (countdown.c:58):
  it waits for NTP, though it is measured on uptime.
* A countdown accepted while the tick waits in the notification of the one that
  fired is wiped by the tick's clearing (countdown.c:60-73): `NotLost` excepts boots with
  SSE clients.
* A delay taken before the first NTP answer is measured on the wrong clock; the sync
  makes the countdown early: `NotEarly` excepts it.
* A failed write of the timezone is reported, but RAM keeps the zone, and no version is
  bumped (timing.c:177-187).

Routines:

* A schedule is due only in the very second of its minute: the search
  (routines.c:147) returns no earlier instant, so that the grace of routines.h:11-15
  is never used, and a pass that comes a second late loses the day (`LateScheduleIsLost`).
  `FiresDuly` leaves the grace open: it neither demands nor forbids a late fire.
* `InWindow` excludes the window's last instant, so the branch that turns the relay
  off at the end (484-487) is never taken: the relay stays as it was, and
  phase and last toggle carry over into the next window (`WindowEndIsLost`).
* "Different date ranges cannot overlap" (247, 278) is taken for granted by the rules and
  not so: `OneOwner` is about one range.
* A schedule without days conflicts as if on any day, and never fires.
* "Slots only grow monotonically" (634) is not so; what saves the rules is that the control
  task only frees. An update of a routine that expired meanwhile revives it.
* `slot_next_fire` answers that there is no next time for a circulate without days that is
  outside its window, and for a dated one whose days begin after the first match: harmless,
  since the control task never sleeps longer than its tick.
* Each circulate toggle marks the table dirty, though the phase is not written.
* The migration of a first-version blob reads it with the wrong stride; a stored hour or
  minute is not checked.

SSE and HTTP:

* The delta base `s_last_snapshot` is what was last pushed to anyone (sse.c:363).
  A client that registers after a change nobody was told of gets the new value in
  its full snapshot; when the field changes back it equals the base, and nothing is
  sent, against README.md:52. `Current` names this as `gap`.
* The control loop refreshes the routine mask (routines.c:581) and the LED (board.c:121-124,
  163-176) with no `notify_bump_state`, against state.c:92, and `time_ok` and the countdown's
  activity change with the clock: such a change does not even mark the cached snapshot dirty,
  and reaches clients and `GET /state` with the next notification of something else (`unsaid`).
* The dirty flag is cleared after the build (state.c:115): a change that the control task
  makes and marks meanwhile stays out of the cache (`torn`). A notification that finds a push
  pending is dropped, though that push may have taken its snapshot (`lost`).
* When both slots are taken the registry is full too: the descriptor that evicts a client
  finds no room in it (sse.c:318), so that the server goes on reading that stream; one that is
  rejected later stays registered. `RegistryExact` holds until the first eviction.
* http_server.c:171-174 purges a stream to make room for a request, but slot and
  registry keep the descriptor: the new connection on it is not read and receives
  the stream's frames, until a send fails.
* sse.h:15-18 says clients are closed immediately when the stream is disabled; slots
  are freed, sockets stay open.

Connection, LED, button, clients:

* An address reported just before a long press is handled after it: the device is
  online with credentials just erased (`skewed` in Connection).
* After an association no timer runs: if DHCP never answers and the link stays, the
  machine waits for ever.
* The "consecutive" rejections that wipe the credentials are not: other failures in
  between do not reset the count (connection.c:417). `CredsKept` states what the code does.
* "Safe from any task/context" (board.h:102) is not so: a pattern set while
  `led_timer_cb` ends another is lost, and the same one set again is ignored as already
  active (`raced` in Panel).
* The debouncer's samples are cumulative, not consecutive: what restarts the count is not
  one sample the other way but as many in a row.
* clients.c:33 picks the oldest of 32-bit times by `<`: wrong around the wrap after 49 days.

## 6. Not modelled

Flash failures other than the timezone's (every other caller logs and goes on, so that
durability holds of writes that succeed); the migration of old routine blobs; summer time; entries
whose stored hour or minute is out of range; the wording of replies, JSON and the byte
encoding of frames; the version number and hash of the state; 32-bit wrap of millisecond
time; the client table; diagnostics; radio tuning and mDNS. Of a credential pair's two
writes (connection.c:166) the cut between them is left out. PROJECT.json lists every component with
its status.

## 7. Plan

Done: Clock, Relay, Countdown, Routines, Arbitration, Push, Power and Slots, Connection,
Timing, Button and Panel, with proofs of every safety property the runs check. Left: that
the pairwise conflict rules reject no pair that could share the relay; an abstract
write-behind that both deferred writes implement; the client table; credentials as two
writes; failing writes in the modules of the relay, the countdown and the routines.
