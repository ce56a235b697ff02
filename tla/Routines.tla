------------------------------ MODULE Routines ------------------------------
(***************************************************************************)
(* routines.c: the slot table of schedules and circulates, edited by the   *)
(* HTTP task and fired by the control task.                                *)
(*                                                                         *)
(* The control task judges all slots in one section under g_routines_mutex *)
(* and drives the relay after it; relay_set may block when an SSE client   *)
(* is registered (SseClient), and the HTTP task then edits slots that have *)
(* been judged.  A handler reads the table without the lock, and takes it  *)
(* to store.  What it does after that, the dirty mark and the notification *)
(* with the save they lead to, is the subject of Arbitration and Push, as  *)
(* are the requests refused because of the auto-off.                       *)
(*                                                                         *)
(* A pass of the loop that does not come to fire_due changes nothing here: *)
(* the clock was never synchronised (Clock), or a countdown owns the relay *)
(* (Countdown).                                                            *)
(***************************************************************************)
EXTENDS Calendar, Tasks

CONSTANTS
    NSlots,       \* ROUTINES_MAX
    Candidates,   \* entries clients send
    Tables,       \* slot tables that flash may hold at first
    SseClient,    \* a notification may block its caller
    Start, End,   \* bounds of the clock
    Drift         \* the most by which an NTP answer corrects it

Slot == 1..NSlots

ASSUME RoutinesAssumption ==
    /\ NSlots \in Nat
    /\ Candidates \subseteq Entry
    /\ Tables \subseteq [Slot -> Entry \cup {Free}]
    /\ \A s \in Tables, i \in Slot :
          InUse(s[i]) => Valid(s[i], {s[j] : j \in Slot \ {i}})
    /\ SseClient \in BOOLEAN
    /\ Start \in Nat \ {0} /\ End \in Nat /\ Start <= End /\ Drift \in Nat

VARIABLES
    slots,     \* s_slots
    last,      \* s_last_toggle_epoch
    phase,     \* s_circ_phase
    now,       \* time(NULL)
    pc,        \* where the control task and the HTTP task are
    acts,      \* actions of the present pass ...
    todo,      \* ... and those still to be applied
    req        \* the edit under way on the HTTP task

table == <<slots, last, phase>>
vars == <<table, now, pc, acts, todo, req>>

NoRequest == [op |-> "none", slot |-> 0, entry |-> Free]
Action == [slot : Slot, on : BOOLEAN, entry : Entry]

Blocked == {t \in Task : t = Timer \/ pc[t] = "idle" \/ (pc[t] = "bump" /\ SseClient)}
At(t, label) == pc[t] = label /\ CanRun(t, Blocked)
Goto(t, label) == pc' = [pc EXCEPT ![t] = label]

-----------------------------------------------------------------------------
(* The control task: fire_due.                                             *)

Judged(i) == Due(slots[i], now, last[i], phase[i])

\* arm_next: until when the control task sleeps, at most CTRL_TICK_MS.
ArmNext ==
    LET T == {NextFire(slots[i], now, last[i], phase[i]) : i \in Slot} \ {Never}
    IN  IF T = {} THEN Never ELSE CHOOSE t \in T : \A u \in T : t <= u

Circulating(i) == slots[i].type = "circulate"

\* circulate_cleanup_expired
Expired(i) == InUse(slots[i]) /\ Circulating(i) /\ DateExpired(slots[i], now)

Ended(i) == InWindow(slots[i], now) /\ now >= WindowEnd(slots[i], now)

\* What a slot that is due does.  A circulate turns the relay off past its
\* window's end, and to the other phase before it.
Turn(i) ==
    IF Circulating(i) THEN ~InWindow(slots[i], now) \/ (~Ended(i) /\ ~phase[i])
                      ELSE slots[i].relayOn

Stamp(i) == IF Ended(i) THEN 0 ELSE now

\* The locked half.
Fire ==
    LET gone  == {i \in Slot : Expired(i)}
        due   == {i \in Slot \ gone : Judged(i)}
        turns == {i \in due : Circulating(i)}
    IN  /\ At(Ctrl, "idle")
        /\ slots' = [i \in Slot |-> IF i \in gone THEN Free ELSE slots[i]]
        /\ last'  = [i \in Slot |-> IF i \in gone THEN 0
                                    ELSE IF i \in turns THEN Stamp(i) ELSE last[i]]
        /\ phase' = [i \in Slot |-> IF i \in gone THEN FALSE
                                    ELSE IF i \in turns THEN Turn(i) ELSE phase[i]]
        /\ acts' = {[slot |-> i, on |-> Turn(i), entry |-> slots[i]] : i \in due}
        /\ todo' = acts'
        /\ Goto(Ctrl, "apply")
        /\ UNCHANGED <<now, req>>

\* The other half, in the order of the slots: relay_set, which may block.
Apply(a) ==
    /\ At(Ctrl, "apply")
    /\ a \in todo /\ \A b \in todo : a.slot <= b.slot
    /\ todo' = todo \ {a}
    /\ Goto(Ctrl, "bump")
    /\ UNCHANGED <<table, now, acts, req>>

Applied ==
    /\ At(Ctrl, "bump")
    /\ Goto(Ctrl, "apply")
    /\ UNCHANGED <<table, now, acts, todo, req>>

PassDone ==
    /\ At(Ctrl, "apply") /\ todo = {}
    /\ acts' = {}
    /\ Goto(Ctrl, "idle")
    /\ UNCHANGED <<table, now, todo, req>>

-----------------------------------------------------------------------------
(* The HTTP task: the handlers read, validate and store.  Between the      *)
(* checks and the store the control task may fire, and free slots.         *)

Others(i) == {slots[j] : j \in Slot \ {i}}

\* A request that is refused changes nothing.
Accept(r) ==
    /\ At(Httpd, "idle")
    /\ req' = r
    /\ Goto(Httpd, "store")
    /\ UNCHANGED <<table, now, acts, todo>>

\* routine_create, the checks.  A new routine is enabled.
PostRoutine(c) ==
    LET e == [c EXCEPT !.enabled = TRUE]
    IN  /\ Valid(e, Others(0)) /\ SomeDayMatches(e)
        /\ Accept([op |-> "post", slot |-> 0, entry |-> e])

\* Mutant: a routine that is enabled already is not compared with the others.
PutRoutine_Unchecked(i, e) ==
    /\ InUse(slots[i]) /\ slots[i].type = e.type
    /\ slots[i].enabled \/ Valid(e, Others(i))
    /\ Accept([op |-> "put", slot |-> i, entry |-> e])

\* put_routine and routine_update, the checks.  The candidate is a copy of the
\* entry overlaid with what the client sends, the type excepted.
PutRoutine(i, e) ==
    /\ InUse(slots[i]) /\ slots[i].type = e.type
    /\ Valid(e, Others(i))
    /\ Accept([op |-> "put", slot |-> i, entry |-> e])

DeleteRoutine(i) ==
    /\ InUse(slots[i])
    /\ Accept([op |-> "delete", slot |-> i, entry |-> Free])

Store(i, e) ==
    /\ At(Httpd, "store")
    /\ slots' = [slots EXCEPT ![i] = e]
    /\ req' = NoRequest
    /\ Goto(Httpd, "idle")
    /\ UNCHANGED <<now, acts, todo>>

Forget(i) ==
    /\ last' = [last EXCEPT ![i] = 0]
    /\ phase' = [phase EXCEPT ![i] = FALSE]

\* The first free slot.
Vacant(i) == slots[i] = Free /\ \A j \in Slot : slots[j] = Free => i <= j

\* routine_create, under the lock ...
Create(i) ==
    /\ req.op = "post" /\ Vacant(i)
    /\ Store(i, req.entry)
    /\ UNCHANGED <<last, phase>>

\* ... and when there is no free slot.
Full ==
    /\ At(Httpd, "store") /\ req.op = "post" /\ \A i \in Slot : InUse(slots[i])
    /\ req' = NoRequest
    /\ Goto(Httpd, "idle")
    /\ UNCHANGED <<table, now, acts, todo>>

\* routine_update: the slot is in use afterwards, whatever it was by then.
Update(i) ==
    /\ req.op = "put" /\ req.slot = i
    /\ Store(i, req.entry)
    /\ Forget(i)

\* Mutant: only the entry is cleared.
Remove_Entry(i) ==
    /\ req.op = "delete" /\ req.slot = i
    /\ Store(i, Free)
    /\ UNCHANGED <<last, phase>>

\* routine_remove
Remove(i) ==
    /\ req.op = "delete" /\ req.slot = i
    /\ Store(i, Free)
    /\ Forget(i)

-----------------------------------------------------------------------------
(* The clock goes on by a second, or SNTP corrects it by at most Drift.    *)

Tick ==
    /\ now' \in {now + 1} \cup (now - Drift)..(now + Drift)
    /\ now' \in Start..End
    /\ UNCHANGED <<table, pc, acts, todo, req>>

\* routines_init
Init ==
    /\ slots \in Tables
    /\ last = [i \in Slot |-> 0] /\ phase = [i \in Slot |-> FALSE]
    /\ now = Start
    /\ pc = [u \in {Ctrl, Httpd} |-> "idle"]
    /\ acts = {} /\ todo = {} /\ req = NoRequest

Control == Fire \/ (\E a \in todo : Apply(a)) \/ Applied \/ PassDone

Request ==
    \/ \E e \in Candidates : PostRoutine(e) \/ \E i \in Slot : PutRoutine(i, e)
    \/ \E i \in Slot : DeleteRoutine(i)

Serve == Full \/ \E i \in Slot : Create(i) \/ Update(i) \/ Remove(i)

Next == Control \/ Request \/ Serve \/ Tick

Spec == Init /\ [][Next]_vars

-----------------------------------------------------------------------------
(* Properties.                                                             *)

Requests == [op : {"none", "post", "put", "delete"}, slot : Slot \cup {0},
             entry : Entry \cup {Free}]

\* Every variable has its type, and what a slot holds was validated
\* (routines.c:32-44, 597-632).
TypeOK ==
    /\ slots \in [Slot -> {e \in Entry : Sound(e)} \cup {Free}]
    /\ last \in [Slot -> Nat] /\ phase \in [Slot -> BOOLEAN]
    /\ now \in Start..End
    /\ pc \in [{Ctrl, Httpd} -> {"idle", "apply", "bump", "store"}]
    /\ pc[Ctrl] # "store" /\ pc[Httpd] \in {"idle", "store"}
    /\ acts \subseteq Action /\ todo \subseteq acts
    /\ req \in Requests

\* Every routine begins a cycle of its own, with the relay on: a free slot
\* remembers no toggle, which routine_create (routines.c:644-656) relies on and
\* does not see to, and a cycle that has not begun is in its off phase.
FreshCycle ==
    \A i \in Slot : /\ slots[i] = Free => last[i] = 0
                    /\ last[i] = 0 => ~phase[i]

\* The conflict rules (routines.c:230-320), read before the lock and not under
\* it, do what they are for: no two routines of one date range determine the
\* relay in the same minute, whatever is added, edited, enabled or expires.
OneOwner ==
    \A i, j \in Slot : i # j /\ InUse(slots[i]) /\ InUse(slots[j]) /\ SameDates(slots[i], slots[j])
        => \A t \in Start..End : ~(Wants(slots[i], t) /\ Wants(slots[j], t))

\* A slot is judged due (routines.c:344-430, 459-472) whenever the control task
\* looks at an instant at which its routine must act, and only while an action
\* is owed: no search branch fires an expired, disabled or closed routine and
\* none loses a toggle, across corrections of the clock.  Between the two lie
\* the grace of routines.h:11-15 and the toggle at a window's end
\* (routines.c:484-487), which the code promises and never delivers: the
\* property leaves them open, and RoutinesProofs shows that they never happen.
FiresDuly ==
    \A i \in Slot :
        /\ ActsAt(slots[i], now, last[i], phase[i]) => Judged(i)
        /\ Judged(i) => Owed(slots[i], now, last[i], phase[i])

\* An action is applied only while its slot still holds the routine that was
\* judged (routines.c:507-512), though relay_set may block between two actions:
\* routines of one date range never act in the same pass.
ActsOnLive ==
    pc[Ctrl] = "apply" /\ (\A a, b \in acts : SameDates(a.entry, b.entry))
        => \A a \in todo : slots[a.slot] = a.entry

\* The control task does not sleep past an instant at which a routine acts
\* (routines.c:529-541).  Of a schedule it knows the next one; of a circulate
\* slot_next_fire may answer "never", and CTRL_TICK_MS bounds the sleep.
NoOversleep ==
    \A i \in Slot, u \in Nat :
        LET e == slots[i]
            n == NextFire(e, now, last[i], phase[i])
        IN  u >= now /\ ActsAt(e, u, last[i], phase[i]) /\ (e.type = "schedule" \/ n # Never)
            => ArmNext # Never /\ ArmNext <= u
=============================================================================
