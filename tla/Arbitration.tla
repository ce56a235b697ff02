---------------------------- MODULE Arbitration ----------------------------
(***************************************************************************)
(* Who may drive the relay: the admission rules of the HTTP handlers for   *)
(* the auto-off, the countdown and the routines, with the writes each      *)
(* handler leaves to the control task, power cuts and the factory reset.   *)
(*                                                                         *)
(* Handlers and iterations of the control task's loop are atomic here.     *)
(* The handlers all run on the HTTP task; the control task, which may      *)
(* preempt them, only ever releases what they check for.  A wake-up of the *)
(* control task, whose priority is the higher, runs its loop before the    *)
(* next request.  The steps inside are the subject of Relay and Countdown. *)
(***************************************************************************)
EXTENDS Naturals, FiniteSets

CONSTANTS
    Slots,       \* routine slots
    MaxBoots     \* bound on the number of restarts

ASSUME ArbitrationAssumption ==
    /\ IsFiniteSet(Slots)
    /\ MaxBoots \in Nat

VARIABLES
    armed,       \* s_auto_off_enabled
    nvsArmed,    \* the same in flash
    cd,          \* s_cd: none, running, or due: its target has passed
    nvsCd,       \* a countdown is in flash
    cdSave,      \* s_save_pending of countdown.c
    cdErase,     \* s_erase_pending
    slots,       \* s_slots: free, or the type with "Off" when disabled
    nvsSlots,    \* the same in flash
    dirty,       \* s_dirty of routines.c
    woken,       \* the notification routines_wake gives the control task
    clock,       \* unset; uptime: 100000 s of it pass for a wall clock; saved:
                 \* an epoch of an earlier boot; answered: by NTP; synced:
                 \* s_time_ok, the answer was handled
    nvsEpoch,    \* an epoch is in flash
    wiped,       \* history: a factory reset since boot, and what came after it
    boots        \* restarts so far

aoVars    == <<armed, nvsArmed>>
cdVars    == <<cd, nvsCd, cdSave, cdErase>>
slotVars  == <<slots, nvsSlots, dirty, woken>>
clockVars == <<clock, nvsEpoch>>
vars == <<aoVars, cdVars, slotVars, clockVars, wiped, boots>>

Circulates == {"circ", "circOff"}
Routine == Circulates \cup {"sched", "schedOff", "free"}
Enabled(r) == r \in {"sched", "circ"}

\* Mutant: disabling forgets the type.
SetEnabled_NoType(r, en) ==
    IF en THEN IF r \in Circulates THEN "circ" ELSE "sched" ELSE "off"

SetEnabled(r, en) ==
    IF r \in Circulates THEN IF en THEN "circ" ELSE "circOff"
                        ELSE IF en THEN "sched" ELSE "schedOff"

\* Bookkeeping of the history variable: a request after a factory reset.
Edited == wiped' = IF wiped = "no" THEN "no" ELSE "edited"

AllFree == [i \in Slots |-> "free"]
AnyEnabled == \E i \in Slots : Enabled(slots[i])
ClockValid == clock # "unset"
NtpSynced == clock \in {"answered", "synced"}

\* countdown_is_active: not before the clock is set, nor past the target.
CountdownIsActive == ClockValid /\ cd = "running"

-----------------------------------------------------------------------------
(* Requests.  A handler that answers 409 changes nothing and is no step.   *)

\* PUT /config/auto-off.  The handler asks routine_any_enabled and
\* relay_set_auto_off asks countdown_is_active; its look at
\* g_routine_active_mask adds nothing, the mask being refreshed from the
\* enabled slots by every handler and every loop.
\* Mutant: the handler forgets to ask for routines.
ArmAutoOff_NoRoutineCheck ==
    /\ ~CountdownIsActive
    /\ armed' = TRUE /\ nvsArmed' = TRUE
    /\ Edited
    /\ UNCHANGED <<cdVars, slotVars, clockVars, boots>>

ArmAutoOff ==
    /\ ~AnyEnabled /\ ~CountdownIsActive
    /\ armed' = TRUE /\ nvsArmed' = TRUE
    /\ Edited
    /\ UNCHANGED <<cdVars, slotVars, clockVars, boots>>

ClearAutoOff ==
    /\ armed' = FALSE /\ nvsArmed' = FALSE
    /\ Edited
    /\ UNCHANGED <<cdVars, slotVars, clockVars, boots>>

PostTimer ==
    /\ ~armed
    /\ cd' = "running" /\ cdSave' = TRUE
    /\ Edited
    /\ UNCHANGED <<aoVars, nvsCd, cdErase, slotVars, clockVars, boots>>

DeleteTimer ==
    /\ cd' = "none" /\ cdErase' = TRUE
    /\ Edited
    /\ UNCHANGED <<aoVars, nvsCd, cdSave, slotVars, clockVars, boots>>

\* The slot table becomes s; the write is left to the control task, which is
\* woken for it.
\* Mutant: the change is not marked for saving.
Edit_NotDirty(s) ==
    /\ slots' = s /\ woken' = TRUE
    /\ Edited
    /\ UNCHANGED <<aoVars, cdVars, nvsSlots, dirty, clockVars, boots>>

Edit(s) ==
    /\ slots' = s /\ dirty' = TRUE /\ woken' = TRUE
    /\ Edited
    /\ UNCHANGED <<aoVars, cdVars, nvsSlots, clockVars, boots>>

PostRoutine(i, r) == ~armed /\ slots[i] = "free" /\ Edit([slots EXCEPT ![i] = r])

\* Disabling is always allowed, enabling and editing an enabled one is not.
PutRoutine(i, en) ==
    /\ slots[i] # "free"
    /\ en => ~armed
    /\ Edit([slots EXCEPT ![i] = SetEnabled(slots[i], en)])

DeleteRoutine(i) == slots[i] # "free" /\ Edit([slots EXCEPT ![i] = "free"])

\* Nothing in RAM would write to flash, before the restart, what a boot would
\* bring back: no circulate can mark the table, and no save of a countdown is
\* pending, unless the clock is synced, whose epoch will not be saved again:
\* without an epoch a boot drops the countdown it finds.
Quiet == (cdSave => clock = "synced") /\ \A i \in Slots : slots[i] \notin Circulates

\* POST /system/factory-reset erases flash; RAM and the control task go on
\* for 300 ms until the restart.
\* Mutant: the clock's namespace is left out.
FactoryReset_KeepsEpoch ==
    /\ nvsArmed' = FALSE /\ nvsCd' = FALSE /\ nvsSlots' = AllFree
    /\ wiped' = IF Quiet THEN "quiet" ELSE "pending"
    /\ UNCHANGED <<armed, cd, cdSave, cdErase, slots, dirty, woken, clock, nvsEpoch, boots>>

FactoryReset ==
    /\ nvsArmed' = FALSE /\ nvsCd' = FALSE /\ nvsSlots' = AllFree /\ nvsEpoch' = FALSE
    /\ wiped' = IF Quiet THEN "quiet" ELSE "pending"
    /\ UNCHANGED <<armed, cd, cdSave, cdErase, slots, dirty, woken, clock, boots>>

-----------------------------------------------------------------------------
(* The control task's loop: routines_sync, fire_due, countdown_tick, flush. *)

\* fire_due deletes the expired circulates and may toggle others, which
\* marks the table for saving; it does nothing before the first sync or
\* while a countdown counts.
FireDue(expired, toggled) ==
    /\ expired \cup toggled # {} => NtpSynced /\ ~CountdownIsActive
    /\ \A i \in expired : slots[i] \in Circulates
    /\ \A i \in toggled \ expired : slots[i] = "circ"
    /\ slots' = [i \in Slots |-> IF i \in expired THEN "free" ELSE slots[i]]
    /\ nvsSlots' = IF dirty \/ expired \cup toggled # {} THEN slots' ELSE nvsSlots
    /\ dirty' = FALSE

\* Past the early return: fire what is due, then erase, then save.
CountdownTick ==
    /\ cd' = IF cd = "due" THEN "none" ELSE cd
    /\ nvsCd' = IF cdSave THEN cd' # "none"
                ELSE IF cdErase \/ cd = "due" THEN FALSE ELSE nvsCd
    /\ cdSave' = FALSE /\ cdErase' = FALSE

ControlLoop ==
    /\ \E expired, toggled \in SUBSET Slots : FireDue(expired, toggled)
    /\ IF ClockValid THEN CountdownTick ELSE UNCHANGED cdVars
    /\ clock' = IF clock = "answered" THEN "synced" ELSE clock
    /\ nvsEpoch' = (nvsEpoch \/ clock = "answered")
    /\ woken' = FALSE
    /\ UNCHANGED <<aoVars, wiped, boots>>

-----------------------------------------------------------------------------
(* Time, NTP and power.                                                    *)

\* The clock passes the countdown's target.
Expire ==
    /\ cd = "running" /\ cd' = "due"
    /\ UNCHANGED <<aoVars, nvsCd, cdSave, cdErase, slotVars, clockVars, wiped, boots>>

\* 100000 s after power came up, the uptime passes for a wall clock.
Uptime ==
    /\ clock = "unset" /\ clock' = "uptime"
    /\ UNCHANGED <<aoVars, cdVars, slotVars, nvsEpoch, wiped, boots>>

\* The first NTP answer.  From a clock counting uptime it jumps over every target.
Sync ==
    /\ ~NtpSynced /\ clock' = "answered" /\ woken' = TRUE
    /\ cd' \in IF cd = "running" /\ clock = "saved" THEN {"running", "due"}
               ELSE IF cd = "running" THEN {"due"} ELSE {cd}
    /\ UNCHANGED <<aoVars, nvsCd, cdSave, cdErase, slots, nvsSlots, dirty, nvsEpoch,
                   wiped, boots>>

\* A power cut, or the restart after a reset request.  countdown_init drops
\* and erases a countdown that is past or cannot be judged.
Restart ==
    /\ boots < MaxBoots
    /\ boots' = boots + 1
    /\ armed' = nvsArmed
    /\ slots' = nvsSlots
    /\ clock' = IF nvsEpoch THEN "saved" ELSE "unset"
    /\ cd' \in IF nvsCd /\ clock' = "saved" THEN {"running", "none"} ELSE {"none"}
    /\ nvsCd' = (cd' # "none")
    /\ cdSave' = FALSE /\ cdErase' = FALSE /\ dirty' = FALSE /\ woken' = FALSE
    /\ wiped' = "no"
    /\ UNCHANGED <<nvsArmed, nvsSlots, nvsEpoch>>

Init ==
    /\ armed = FALSE /\ nvsArmed = FALSE
    /\ cd = "none" /\ nvsCd = FALSE /\ cdSave = FALSE /\ cdErase = FALSE
    /\ slots = AllFree /\ nvsSlots = AllFree /\ dirty = FALSE /\ woken = FALSE
    /\ clock = "unset" /\ nvsEpoch = FALSE
    /\ wiped = "no" /\ boots = 0

\* The woken control task runs its loop before the HTTP task runs again.
Request ==
    /\ ~woken
    /\ \/ ArmAutoOff \/ ClearAutoOff \/ PostTimer \/ DeleteTimer \/ FactoryReset
       \/ \E i \in Slots :
            \/ \E r \in {"sched", "circ"} : PostRoutine(i, r)
            \/ \E en \in BOOLEAN : PutRoutine(i, en)
            \/ DeleteRoutine(i)

Next == Request \/ ControlLoop \/ Expire \/ Uptime \/ Sync \/ Restart

\* The control task loops at least every 500 ms; an NTP server answers.
Spec == Init /\ [][Next]_vars /\ WF_vars(ControlLoop) /\ WF_vars(Sync)
-----------------------------------------------------------------------------
(* Properties.                                                             *)

\* Every variable has its type (board.c:51-54, countdown.c:18-27, routines.c:32-44).
TypeOK ==
    /\ armed \in BOOLEAN /\ nvsArmed \in BOOLEAN
    /\ cd \in {"none", "running", "due"} /\ nvsCd \in BOOLEAN
    /\ cdSave \in BOOLEAN /\ cdErase \in BOOLEAN
    /\ slots \in [Slots -> Routine] /\ nvsSlots \in [Slots -> Routine]
    /\ dirty \in BOOLEAN /\ woken \in BOOLEAN
    /\ clock \in {"unset", "uptime", "saved", "answered", "synced"} /\ nvsEpoch \in BOOLEAN
    /\ wiped \in {"no", "pending", "quiet", "edited"}
    /\ boots \in 0..MaxBoots

\* Who governs the relay, in the terms of the abstract specification.
Timed == cd # "none" \/ AnyEnabled
Limbo == cd # "none" /\ ~CountdownIsActive
Owner == IF armed THEN IF Timed THEN "disputed" ELSE "autooff"
                  ELSE IF Timed THEN "timed" ELSE "manual"

Promise == INSTANCE Ownership WITH owner <- Owner, limbo <- Limbo, restarts <- boots

\* The admission rules implement the abstract specification: the auto-off and
\* timed behaviour exclude each other, except through a countdown in limbo or
\* a restart (http_handlers_control.c:131-139, http_util.h:72-78).
OwnershipKept == Promise!Spec

\* A table marked for saving is written before the next request: a mark always
\* comes with a wake-up (routines.c:656-660, 699-702, 716-719).
MarkedAreWoken == dirty => woken

\* Flash differs from RAM only while the write or erase that will make them
\* equal is still to come: for the routines before the next request, for a
\* countdown at some later loop; and no erase is to come that would outlive the
\* save of a newer countdown (countdown.c:75-85, routines.c:78-85, 656-660).
FlashFollows ==
    wiped = "no" =>
        /\ nvsArmed = armed
        /\ nvsSlots # slots => dirty /\ woken
        /\ nvsCd /\ cd = "none" => cdErase \/ cdSave
        /\ (~nvsCd \/ cdErase) /\ cd # "none" => cdSave

\* Flash never arms the auto-off on its own: the part of FlashFollows that a
\* factory reset keeps.
ArmedInRam == nvsArmed => armed

Defaults == ~armed /\ cd = "none" /\ slots = AllFree

\* A factory reset with no circulate routine in use and no countdown still to be
\* saved (one is allowed when NTP has answered), followed by no other request,
\* leaves a device with defaults, whatever the control task, an NTP answer or
\* the countdown does until the restart (http_handlers_state.c:219-243).
FactoryResetWipes == [][boots' # boots /\ wiped = "quiet" => Defaults']_vars

\* What the handler's comment promises: a factory reset followed by no other
\* request leaves a device with defaults (http_handlers_state.c:222-224).  The
\* code does not keep it: a circulate that toggles or expires before the restart
\* writes the table back.
FactoryResetErases ==
    [][boots' # boots /\ wiped \in {"quiet", "pending"} => Defaults']_vars

\* FactoryResetWipes made inductive: flash holds no routine and no armed
\* auto-off, no circulate will mark the table, and a countdown is neither in
\* flash nor to be saved, or there is no epoch to judge it by.
QuietInv ==
    wiped = "quiet" =>
        /\ ~nvsArmed /\ nvsSlots = AllFree
        /\ ~dirty /\ \A i \in Slots : slots[i] \notin Circulates
        /\ \/ ~nvsCd /\ ~cdSave
           \/ clock = "synced" /\ ~nvsEpoch
=============================================================================
