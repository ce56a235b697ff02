----------------------------- MODULE Countdown -----------------------------
(***************************************************************************)
(* countdown.c: one countdown, its expiry on the control task, its         *)
(* deferred NVS writes, and the wall clock it is measured on (timing.c).   *)
(*                                                                         *)
(* target_epoch is a wall-clock time.  The wall clock starts at 0 or at    *)
(* the epoch of an earlier synchronisation, and jumps to the real time at  *)
(* the first NTP answer.                                                   *)
(*                                                                         *)
(* HTTP requests set and cancel; the control task copies s_cd in a         *)
(* critical section, fires, and clears s_cd in another.  In between it     *)
(* calls relay_set and notify_bump_state, which may block when an SSE      *)
(* client is registered: "watched" says whether one may be, in this boot.  *)
(* NVS writes do not let the HTTP task in: it writes no flash on these     *)
(* paths and the lock inherits priority.                                   *)
(***************************************************************************)
EXTENDS Clock, Tasks

CONSTANTS
    Durations,      \* durations a client may ask for
    Epochs          \* epochs flash may hold at first, 0 for none

ASSUME CountdownAssumption ==
    /\ Durations \subseteq Nat \ {0}
    /\ Epochs \subseteq {0} \cup (Threshold .. Start)

VARIABLES
    cd,            \* s_cd; "due" and "fair" are history: the real time it was
                   \* asked for, and whether the clock was synchronised then
    savePending,   \* s_save_pending
    erasePending,  \* s_erase_pending
    nvs,           \* the blob in flash, Empty when there is none
    pc,            \* where each task is
    now,           \* the tick's "now"
    copy,          \* the tick's copy of s_cd
    watched        \* TRUE iff a notification may block its caller

clockVars == <<wall, synced, timeOk, epoch>>
ctrlVars  == <<now, copy>>
world     == <<boots, watched>>
vars == <<cd, savePending, erasePending, nvs, clockVars, pc, ctrlVars, real, world>>

Times == 0..MaxReal
Empty == [active |-> FALSE, target |-> 0, on |-> FALSE, due |-> 0, fair |-> TRUE]
Record == [active : BOOLEAN, target : Times, on : BOOLEAN, due : Times, fair : BOOLEAN]

ClockValid == wall >= Threshold

\* Mutant: relay_set waits for its own save.
Blocking_Always == {"idle", "fireBump", "bump"}

\* Where a task may be descheduled though it has work to do.
Blocking == {"idle"} \cup (IF watched THEN {"fireBump", "bump"} ELSE {})

At(t, label) ==
    /\ pc[t] = label
    /\ CanRun(t, {Timer} \cup {u \in {Ctrl, Httpd} : pc[u] \in Blocking})
Goto(t, label) == pc' = [pc EXCEPT ![t] = label]

-----------------------------------------------------------------------------
(* HTTP: POST and DELETE /timer.                                           *)

\* countdown_set, up to the end of its critical section; requests that end
\* after MaxReal are left out.
Set(d, on) ==
    /\ At(Httpd, "idle")
    /\ real + d <= MaxReal
    /\ cd' = [active |-> TRUE, target |-> wall + d, on |-> on, due |-> real + d, fair |-> synced]
    /\ Goto(Httpd, "markSave")
    /\ UNCHANGED <<savePending, erasePending, nvs, clockVars, ctrlVars, real, world>>

\* countdown_cancel likewise.
Cancel ==
    /\ At(Httpd, "idle")
    /\ cd' = Empty
    /\ Goto(Httpd, "markErase")
    /\ UNCHANGED <<savePending, erasePending, nvs, clockVars, ctrlVars, real, world>>

MarkSave ==
    /\ At(Httpd, "markSave")
    /\ savePending' = TRUE
    /\ Goto(Httpd, "bump")
    /\ UNCHANGED <<cd, erasePending, nvs, clockVars, ctrlVars, real, world>>

MarkErase ==
    /\ At(Httpd, "markErase")
    /\ erasePending' = TRUE
    /\ Goto(Httpd, "bump")
    /\ UNCHANGED <<cd, savePending, nvs, clockVars, ctrlVars, real, world>>

Reply ==
    /\ At(Httpd, "bump")
    /\ Goto(Httpd, "idle")
    /\ UNCHANGED <<cd, savePending, erasePending, nvs, clockVars, ctrlVars, real, world>>

-----------------------------------------------------------------------------
(* The control task: routines_sync, then countdown_tick.                   *)

CtrlGoto(from, to) ==
    /\ At(Ctrl, from)
    /\ Goto(Ctrl, to)
    /\ UNCHANGED <<wall, synced, real, world>>

\* routines_sync saves the epoch once per boot, when the sync is first seen.
Wake ==
    /\ CtrlGoto("idle", "read")
    /\ timeOk' = synced
    /\ epoch' = IF synced /\ ~timeOk THEN wall ELSE epoch
    /\ UNCHANGED <<cd, savePending, erasePending, nvs, ctrlVars>>

Read ==
    /\ CtrlGoto("read", "check")
    /\ now' = wall
    /\ UNCHANGED <<cd, savePending, erasePending, nvs, timeOk, epoch, copy>>

\* Mutant: off by one at the deadline.
Expired_Early(c) == c.active /\ c.target > 0 /\ now + 1 >= c.target

Expired(c) == c.active /\ c.target > 0 /\ now >= c.target

\* An unset clock ends the tick here: nothing fires and nothing is flushed.
Check ==
    /\ CtrlGoto("check", IF ~ClockValid THEN "idle"
                         ELSE IF Expired(cd) THEN "fire" ELSE "erase")
    /\ copy' = IF ClockValid /\ Expired(cd) THEN cd ELSE Empty
    /\ now' = 0
    /\ UNCHANGED <<cd, savePending, erasePending, nvs, timeOk, epoch>>

\* relay_set(cd.relay_on), to the point where it may block ...
Fire ==
    /\ CtrlGoto("fire", "fireBump")
    /\ UNCHANGED <<cd, savePending, erasePending, nvs, timeOk, epoch, ctrlVars>>

\* Mutant: the countdown that fired stays.
Clear_Forgets ==
    /\ CtrlGoto("fireBump", "fired")
    /\ UNCHANGED <<cd, savePending, erasePending, nvs, timeOk, epoch, ctrlVars>>

\* ... and when it has returned, the second critical section.
Clear ==
    /\ CtrlGoto("fireBump", "fired")
    /\ cd' = Empty
    /\ UNCHANGED <<savePending, erasePending, nvs, timeOk, epoch, ctrlVars>>

Fired ==
    /\ CtrlGoto("fired", "bump")
    /\ erasePending' = TRUE
    /\ copy' = Empty
    /\ UNCHANGED <<cd, savePending, nvs, timeOk, epoch, now>>

Bumped ==
    /\ CtrlGoto("bump", "erase")
    /\ UNCHANGED <<cd, savePending, erasePending, nvs, timeOk, epoch, ctrlVars>>

\* Mutant: the erase flag is never reset.
FlushErase_KeepsFlag ==
    /\ CtrlGoto("erase", "save")
    /\ nvs' = IF erasePending THEN Empty ELSE nvs
    /\ UNCHANGED <<cd, savePending, erasePending, timeOk, epoch, ctrlVars>>

\* "if (s_erase_pending)": flag cleared, key erased.
FlushErase ==
    /\ CtrlGoto("erase", "save")
    /\ erasePending' = FALSE
    /\ nvs' = IF erasePending THEN Empty ELSE nvs
    /\ UNCHANGED <<cd, savePending, timeOk, epoch, ctrlVars>>

\* "if (s_save_pending)": flag cleared, s_cd as it is now written.
FlushSave ==
    /\ CtrlGoto("save", "idle")
    /\ savePending' = FALSE
    /\ nvs' = IF savePending THEN cd ELSE nvs
    /\ UNCHANGED <<cd, erasePending, timeOk, epoch, ctrlVars>>

-----------------------------------------------------------------------------
(* Time, NTP and power.                                                    *)

Tick ==
    /\ real < MaxReal
    /\ real' = real + 1
    /\ wall' = wall + 1
    /\ UNCHANGED <<cd, savePending, erasePending, nvs, synced, timeOk, epoch, pc, ctrlVars,
                   world>>

\* Mutant: the clock is set to the upper end of the answer's second.
Sync_Rounded ==
    /\ ~synced
    /\ synced' = TRUE
    /\ wall' = real + 1
    /\ UNCHANGED <<cd, savePending, erasePending, nvs, timeOk, epoch, pc, ctrlVars, real,
                   world>>

\* SNTP sets the clock and calls timing_ntp_sync_cb.
Sync ==
    /\ ~synced
    /\ synced' = TRUE
    /\ wall' = real
    /\ UNCHANGED <<cd, savePending, erasePending, nvs, timeOk, epoch, pc, ctrlVars, real,
                   world>>

\* nvs_load with the clock at w: what is kept of the blob b.  A blob that is
\* dropped is erased at once.
Restored(b, w) ==
    IF b.active /\ w >= Threshold /\ b.target > w THEN b ELSE Empty

\* timing_init seeds the clock, then countdown_init loads.
PowerCut ==
    /\ boots < MaxBoots
    /\ boots' = boots + 1 /\ watched' \in BOOLEAN
    /\ wall' = epoch
    /\ cd' = Restored(nvs, epoch)
    /\ nvs' = Restored(nvs, epoch)
    /\ savePending' = FALSE /\ erasePending' = FALSE
    /\ synced' = FALSE /\ timeOk' = FALSE
    /\ pc' = [t \in {Ctrl, Httpd} |-> "idle"]
    /\ now' = 0 /\ copy' = Empty
    /\ UNCHANGED <<epoch, real>>

Init ==
    /\ epoch \in Epochs
    /\ wall = epoch
    /\ cd = Empty /\ nvs = Empty
    /\ savePending = FALSE /\ erasePending = FALSE
    /\ synced = FALSE /\ timeOk = FALSE
    /\ pc = [t \in {Ctrl, Httpd} |-> "idle"]
    /\ now = 0 /\ copy = Empty
    /\ real = Start
    /\ boots = 0 /\ watched \in BOOLEAN

Control == Wake \/ Read \/ Check \/ Fire \/ Clear \/ Fired \/ Bumped \/ FlushErase \/ FlushSave
Serve   == MarkSave \/ MarkErase \/ Reply
Request == Cancel \/ (\E d \in Durations, on \in BOOLEAN : Set(d, on))

Next == Control \/ Serve \/ Request \/ Tick \/ Sync \/ PowerCut

\* As in Relay.  Time passes; an NTP answer is not promised here.
Fairness == WF_vars(Control) /\ SF_vars(Serve) /\ WF_vars(Tick)

Spec == Init /\ [][Next]_vars /\ Fairness
\* The same with an NTP server that answers in the end.
SyncedSpec == Spec /\ WF_vars(Sync)

-----------------------------------------------------------------------------
(* Properties.                                                             *)

\* Every variable has its type (countdown.c:18-27).
TypeOK ==
    /\ cd \in Record /\ nvs \in Record /\ copy \in Record
    /\ savePending \in BOOLEAN /\ erasePending \in BOOLEAN
    /\ wall \in 0..real /\ now \in Times /\ epoch \in 0..real
    /\ synced \in BOOLEAN /\ timeOk \in BOOLEAN
    /\ pc \in [{Ctrl, Httpd} ->
         {"idle", "markSave", "markErase", "bump", "read", "check", "fire", "fireBump",
          "fired", "erase", "save"}]
    /\ pc[Httpd] \in {"idle", "markSave", "markErase", "bump"}
    /\ pc[Ctrl] \notin {"markSave", "markErase"}
    /\ real \in Start..MaxReal /\ boots \in 0..MaxBoots /\ watched \in BOOLEAN

SaveComing  == savePending \/ pc[Httpd] = "markSave"
EraseComing == erasePending \/ pc[Httpd] = "markErase" \/ pc[Ctrl] = "fired"

\* The deferred writes lose nothing: while flash and RAM differ, a save of
\* what RAM holds, or an erase of what it no longer holds, is still to come;
\* and no erase is to come that would outlive the save of a newer countdown.
CountdownDurable ==
    /\ nvs # cd => SaveComing \/ (cd = Empty /\ EraseComing)
    /\ EraseComing => cd = Empty \/ SaveComing

\* CountdownDurable made inductive: no erase is asked for between the two
\* flushes of a tick, where it would outlive the save.
DurableInv ==
    /\ CountdownDurable
    /\ pc[Ctrl] = "save" => ~erasePending
    /\ pc[Httpd] = "markErase" => cd = Empty

\* The countdown cleared after firing is the one that fired, or none: setting
\* a new one while it fires does not lose the new one, unless an SSE client
\* makes the firing wait (countdown.c:60-73).
NotLost == ~watched /\ pc[Ctrl] = "fireBump" => cd \in {copy, Empty}

\* A countdown that was set on a synchronised clock fires no earlier than its
\* duration after it was accepted, whatever power cuts and clocks of later
\* boots come in between (README.md:119, countdown.c:35-65).
NotEarly == pc[Ctrl] = "fire" /\ copy.fair => real >= copy.due

\* NotEarly made inductive: the target of a countdown set on a synchronised
\* clock is not before its due time, and the wall clock is never ahead of real
\* time.
PunctualInv ==
    /\ \A c \in {cd, nvs, copy} : c.active /\ c.fair => c.target >= c.due
    /\ synced => wall = real
    /\ now <= wall
    /\ pc[Ctrl] = "fire" => copy.active /\ copy.target <= wall

\* NotLost made inductive, without SSE clients: the HTTP task gets no step
\* between the copy and the clearing.
UndisturbedInv == ~watched /\ pc[Ctrl] \in {"fire", "fireBump"} => cd = copy

\* A countdown that is neither due nor waiting to be written comes back from a
\* power cut as it was, if the clock was ever synchronised (countdown.c:35-52).
CountdownSurvives ==
    [][boots' # boots /\ epoch >= Threshold /\ ~SaveComing /\ ~EraseComing
         /\ cd.active /\ cd.target > wall => cd' = cd]_vars

\* Every countdown ends: it fires or is cancelled (countdown.c:65-73).  Clients
\* cannot postpone this by asking again, since MaxReal bounds their requests.
CountdownEnds == []<>~cd.active
=============================================================================
