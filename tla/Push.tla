-------------------------------- MODULE Push --------------------------------
(***************************************************************************)
(* state.c and the push half of sse.c: how a change made by any task       *)
(* reaches the SSE clients, and how a change that no task announces does   *)
(* not.                                                                    *)
(*                                                                         *)
(* A mutator changes the device state, marks the cached snapshot dirty and *)
(* calls sse_notify, which queues sse_push_work to the HTTP task unless a  *)
(* push is already pending.  The push rebuilds the snapshot field by field *)
(* if it is dirty, encodes the difference to the last one pushed and sends *)
(* it.  Nothing here is locked: a task of higher priority, or a lower one  *)
(* while the HTTP task blocks in a send, may step in anywhere.             *)
(*                                                                         *)
(* Some fields of a snapshot change with no notification behind the        *)
(* change: the LED's level (led_update, led_timer_cb), the mask of active  *)
(* routines (refresh_active_mask, which every caller calls last), and what *)
(* is computed from the clock as it passes a threshold (time_ok and        *)
(* countdown_active).  Such a change reaches the clients only with the     *)
(* next notification of something else.  A field may be of both kinds:     *)
(* countdown_active also changes with a request, which is announced.       *)
(*                                                                         *)
(* The slots' own bookkeeping is in Slots; here a client is registered or  *)
(* not, and a send to a registered client may fail, which drops it.        *)
(***************************************************************************)
EXTENDS Naturals, FiniteSets, Tasks

CONSTANTS
    Announced,   \* fields of the snapshot that change before a notification
    Unannounced, \* fields that change with none behind the change
    Clients,    \* SSE clients; no more than there are slots
    Mutators,   \* tasks that change the device state
    MaxWork     \* what the server's control socket holds before it refuses

Fields == Announced \cup Unannounced

ASSUME PushAssumption ==
    /\ IsFiniteSet(Fields)
    /\ Mutators \subseteq Task
    /\ MaxWork \in Nat \ {0}

VARIABLES
    dev,      \* the device state a snapshot would read
    cache,    \* s_cached_snap
    dirty,    \* s_hash_dirty
    base,     \* s_last_snapshot
    hasBase,  \* s_has_snapshot
    pending,  \* s_push_pending
    work,     \* queued calls of sse_push_work
    active,   \* registered clients
    view,     \* what each client knows
    pc,       \* where each task is
    todo,     \* fields the snapshot under construction still lacks
    frame,    \* fields in the frame being sent
    job,      \* why the HTTP task builds: for a push or for a GET /state
    who,      \* the client being registered
    lost,     \* history: a notification was dropped and no push began since
    torn,     \* history: the dirty flag was cleared over a change
    gap,      \* history: fields that differed from base at registration and
              \* that no frame has carried since
    unsaid    \* history: fields that changed with no notification since, nor a
              \* push that took the new value

stateVars == <<dev, cache, dirty>>
pushVars  == <<base, hasBase, pending, work>>
viewVars  == <<active, view, gap>>
buildVars == <<todo, frame, job, who>>
holes == <<lost, torn>>
vars == <<stateVars, pushVars, viewVars, pc, buildVars, holes, unsaid>>

Snapshot == [Fields -> BOOLEAN]
Zero == [f \in Fields |-> FALSE]
Nobody == "nobody"

\* Where a task waits or may block: asleep, in the datagram of
\* httpd_queue_work, in a send.
Blocked == {t \in Task : pc[t] \in {"idle", "queue", "send", "reply"}}
At(t, label) == pc[t] = label /\ CanRun(t, Blocked)
Goto(t, label) == pc' = [pc EXCEPT ![t] = label]

-----------------------------------------------------------------------------
(* notify_bump_state and sse_notify, on any task.                          *)

Mutate(t, f) ==
    /\ At(t, "idle") /\ t \in Mutators /\ f \in Announced
    /\ dev' = [dev EXCEPT ![f] = ~dev[f]]
    /\ Goto(t, "bump")
    /\ UNCHANGED <<cache, dirty, pushVars, viewVars, buildVars, holes, unsaid>>

\* A change with no notification behind it: on the control task after its pass,
\* in a handler after its own, in the timer's callback, in the event task's
\* override of the LED, or by the mere passing of time.
Drift(f) ==
    /\ f \in Unannounced
    /\ dev' = [dev EXCEPT ![f] = ~dev[f]]
    /\ unsaid' = unsaid \cup {f}
    /\ UNCHANGED <<cache, dirty, pushVars, viewVars, pc, buildVars, holes>>

\* Mutant: the client is notified, the cache not invalidated.
Bump_KeepsCache(t) ==
    /\ At(t, "bump")
    /\ unsaid' = {}
    /\ Goto(t, "check")
    /\ UNCHANGED <<stateVars, pushVars, viewVars, buildVars, holes>>

Bump(t) ==
    /\ At(t, "bump")
    /\ dirty' = TRUE
    /\ unsaid' = {}
    /\ Goto(t, "check")
    /\ UNCHANGED <<dev, cache, pushVars, viewVars, buildVars, holes>>

\* "if (s_push_pending) return;": the notification is dropped.
Check(t) ==
    /\ At(t, "check")
    /\ Goto(t, IF pending THEN "idle" ELSE "claim")
    /\ lost' = (lost \/ pending)
    /\ UNCHANGED <<stateVars, pushVars, viewVars, buildVars, torn, unsaid>>

Claim(t) ==
    /\ At(t, "claim")
    /\ pending' = TRUE
    /\ Goto(t, "scan")
    /\ UNCHANGED <<stateVars, base, hasBase, work, viewVars, buildVars, holes, unsaid>>

Scan(t) ==
    /\ At(t, "scan")
    /\ Goto(t, IF active # {} THEN "queue" ELSE "unclaim")
    /\ UNCHANGED <<stateVars, pushVars, viewVars, buildVars, holes, unsaid>>

\* Mutant: the flag stays when nobody is registered.
Unclaim_Forgets(t) ==
    /\ At(t, "unclaim")
    /\ Goto(t, "idle")
    /\ UNCHANGED <<stateVars, pushVars, viewVars, buildVars, holes, unsaid>>

Unclaim(t) ==
    /\ At(t, "unclaim")
    /\ pending' = FALSE
    /\ Goto(t, "idle")
    /\ UNCHANGED <<stateVars, base, hasBase, work, viewVars, buildVars, holes, unsaid>>

\* Mutant: the work is counted on though the server refused it.
Queue_Unchecked(t) ==
    /\ At(t, "queue")
    /\ work' = work + 1
    /\ Goto(t, "idle")
    /\ UNCHANGED <<stateVars, base, hasBase, pending, viewVars, buildVars, holes, unsaid>>

Queue(t) ==
    /\ At(t, "queue")
    /\ \/ work < MaxWork /\ work' = work + 1 /\ UNCHANGED <<pending, holes>>
       \/ work = MaxWork /\ UNCHANGED work /\ pending' = FALSE /\ lost' = TRUE
    /\ Goto(t, "idle")
    /\ UNCHANGED <<stateVars, base, hasBase, viewVars, buildVars, torn, unsaid>>

-----------------------------------------------------------------------------
(* ensure_fresh on the HTTP task, for a push or for GET /state.            *)

\* ensure_fresh begins: build if dirty, else use the cache as it is.
Fresh(j) ==
    /\ Goto(Httpd, IF dirty THEN "build" ELSE IF j = "push" THEN "encode" ELSE "idle")
    /\ todo' = IF dirty THEN Fields ELSE {}
    /\ job' = IF dirty \/ j = "push" THEN j ELSE "none"

PushStart ==
    /\ At(Httpd, "idle") /\ work > 0
    /\ work' = work - 1
    /\ Fresh("push")
    /\ lost' = FALSE
    /\ UNCHANGED <<stateVars, base, hasBase, pending, viewVars, frame, who, torn, unsaid>>

GetState ==
    /\ At(Httpd, "idle")
    /\ Fresh("get")
    /\ UNCHANGED <<stateVars, pushVars, viewVars, frame, who, holes, unsaid>>

BuildField(f) ==
    /\ At(Httpd, "build") /\ f \in todo
    /\ cache' = [cache EXCEPT ![f] = dev[f]]
    /\ todo' = todo \ {f}
    /\ UNCHANGED <<dev, dirty, pushVars, viewVars, pc, frame, job, who, holes, unsaid>>

\* The flag is cleared after the build, whatever happened during it.
Clean ==
    /\ At(Httpd, "build") /\ todo = {}
    /\ dirty' = FALSE
    /\ torn' = (\E f \in Fields \ unsaid : cache[f] # dev[f])
    /\ Goto(Httpd, IF job = "push" THEN "encode" ELSE "idle")
    /\ job' = IF job = "push" THEN "push" ELSE "none"
    /\ UNCHANGED <<dev, cache, pushVars, viewVars, todo, frame, who, lost, unsaid>>

-----------------------------------------------------------------------------
(* sse_push_work.                                                          *)

Changed == IF hasBase THEN {f \in Fields : cache[f] # base[f]} ELSE Fields

Encode ==
    /\ At(Httpd, "encode")
    /\ IF Changed = {}
       THEN /\ pending' = FALSE
            /\ Goto(Httpd, "idle") /\ job' = "none"
            /\ UNCHANGED <<base, hasBase, frame>>
       ELSE /\ base' = cache /\ hasBase' = TRUE /\ frame' = Changed
            /\ Goto(Httpd, "send")
            /\ UNCHANGED <<pending, job>>
    /\ unsaid' = {f \in unsaid : cache[f] # dev[f]}
    /\ UNCHANGED <<stateVars, work, viewVars, todo, who, holes>>

\* The sends; a client to which one fails is dropped.
Send(failed) ==
    /\ At(Httpd, "send")
    /\ active' = active \ failed
    /\ view' = [c \in Clients |->
                  IF c \in active'
                  THEN [f \in Fields |-> IF f \in frame THEN base[f] ELSE view[c][f]]
                  ELSE Zero]
    /\ gap' = [c \in Clients |-> IF c \in active' THEN gap[c] \ frame ELSE {}]
    /\ frame' = {}
    /\ Goto(Httpd, "done")
    /\ UNCHANGED <<stateVars, pushVars, todo, job, who, holes, unsaid>>

Done ==
    /\ At(Httpd, "done")
    /\ pending' = FALSE
    /\ Goto(Httpd, "idle")
    /\ job' = "none"
    /\ UNCHANGED <<stateVars, base, hasBase, work, viewVars, todo, frame, who, holes, unsaid>>

-----------------------------------------------------------------------------
(* GET /state/stream: the slot is taken first, then a full snapshot is     *)
(* built from the device, past the cache, and sent.                        *)

Register(c) ==
    /\ At(Httpd, "idle") /\ c \notin active
    /\ active' = active \cup {c}
    /\ who' = c
    /\ todo' = Fields
    /\ Goto(Httpd, "full")
    /\ UNCHANGED <<stateVars, pushVars, view, gap, frame, job, holes, unsaid>>

FullField(f) ==
    /\ At(Httpd, "full") /\ f \in todo
    /\ view' = [view EXCEPT ![who][f] = dev[f]]
    /\ gap' = [gap EXCEPT ![who] = IF hasBase /\ base[f] # dev[f] THEN @ \cup {f} ELSE @]
    /\ todo' = todo \ {f}
    /\ UNCHANGED <<stateVars, pushVars, active, pc, frame, job, who, holes, unsaid>>

FullSent ==
    /\ At(Httpd, "full") /\ todo = {}
    /\ Goto(Httpd, "reply")
    /\ UNCHANGED <<stateVars, pushVars, viewVars, buildVars, holes, unsaid>>

Replied ==
    /\ At(Httpd, "reply")
    /\ who' = Nobody
    /\ Goto(Httpd, "idle")
    /\ UNCHANGED <<stateVars, pushVars, viewVars, todo, frame, job, holes, unsaid>>

-----------------------------------------------------------------------------
Init ==
    /\ dev = Zero /\ cache = Zero /\ dirty = TRUE
    /\ base = Zero /\ hasBase = FALSE
    /\ pending = FALSE /\ work = 0
    /\ active = {} /\ view = [c \in Clients |-> Zero] /\ gap = [c \in Clients |-> {}]
    /\ pc = [t \in Task |-> "idle"]
    /\ todo = {} /\ frame = {} /\ job = "none" /\ who = Nobody
    /\ lost = FALSE /\ torn = FALSE /\ unsaid = {}

Notify(t) == Bump(t) \/ Check(t) \/ Claim(t) \/ Scan(t) \/ Unclaim(t) \/ Queue(t)

Build == Clean \/ \E f \in Fields : BuildField(f)
Push  == Encode \/ (\E failed \in SUBSET active : Send(failed)) \/ Done
Stream == FullSent \/ Replied \/ \E f \in Fields : FullField(f)

\* What the HTTP task has begun, it carries through.
Serve == Build \/ Push \/ Stream \/ Notify(Httpd)
Request ==
    \/ GetState
    \/ \E c \in Clients : Register(c)
    \/ \E t \in Task, f \in Fields : Mutate(t, f)
    \/ \E f \in Fields : Drift(f)

Next == Serve \/ PushStart \/ Notify(Ctrl) \/ Notify(Timer) \/ Request

\* As in Relay: the tasks below the control task run again and again.  The
\* server's loop reads the control socket on every round, so no flow of
\* requests keeps queued work waiting.
Fairness ==
    /\ WF_vars(Notify(Ctrl)) /\ SF_vars(Notify(Timer))
    /\ SF_vars(Serve) /\ SF_vars(PushStart)

Spec == Init /\ [][Next]_vars /\ Fairness

-----------------------------------------------------------------------------
(* Properties.                                                             *)

Labels == {"idle", "bump", "check", "claim", "scan", "queue", "unclaim",
           "build", "encode", "send", "done", "full", "reply"}

\* Every variable has its type (state.c:38-41, sse.c:34-38).
TypeOK ==
    /\ dev \in Snapshot /\ cache \in Snapshot /\ base \in Snapshot
    /\ dirty \in BOOLEAN /\ hasBase \in BOOLEAN /\ pending \in BOOLEAN /\ holes \in BOOLEAN \X BOOLEAN
    /\ work \in 0..MaxWork
    /\ active \subseteq Clients
    /\ view \in [Clients -> Snapshot] /\ gap \in [Clients -> SUBSET Fields]
    /\ unsaid \subseteq Unannounced
    /\ pc \in [Task -> Labels]
    /\ \A t \in {Ctrl, Timer} :
         pc[t] \notin {"build", "encode", "send", "done", "full", "reply"}
    /\ todo \subseteq Fields /\ frame \subseteq Fields
    /\ job \in {"none", "push", "get"}
    /\ who \in Clients \cup {Nobody}

\* A notifier is between setting the flag and queueing or clearing it.
Notifying == \E t \in Task : pc[t] \in {"scan", "queue", "unclaim"}
Pushing == job = "push"

\* s_push_pending never sticks: while it is set, someone is still bound to
\* clear it (sse.c:353-411).
PendingJustified == pending => work > 0 \/ Notifying \/ Pushing

\* Nothing is under way.
Quiescent == work = 0 /\ ~pending /\ \A t \in Task : pc[t] = "idle"

\* With nothing under way, a registered client knows the device state, but for
\* the four holes of the scheme: a notification dropped behind a push that had
\* begun, a dirty flag cleared over a change made during the build, a field
\* that differed from the last push when the client registered, and a change of
\* the LED, the routine mask or a field read off the clock since the last
\* notification, for which no task calls notify_bump_state (sse.c:352-411,
\* state.c:99-117, board.c:121-124, routines.c:581).
Current ==
    Quiescent /\ ~lost /\ ~torn =>
        \A c \in active : \A f \in Fields \ (gap[c] \cup unsaid) : view[c][f] = dev[f]

\* Current made inductive.  A notification is under way that no push has
\* answered yet, or one was dropped.
Underway ==
    \/ lost \/ work > 0
    \/ \E t \in Task : pc[t] \in {"bump", "check", "claim", "scan", "queue"}

\* A client has been told of a field: its first snapshot is past it.
Told(c, f) == c \in active /\ ~(pc[Httpd] = "full" /\ who = c /\ f \in todo)

\* What the HTTP task is doing fits why it does it.
JobInv ==
    /\ job = "push" => pc[Httpd] \in {"build", "encode", "send", "done"}
    /\ pc[Httpd] \in {"encode", "send", "done"} => job = "push"
    /\ pc[Httpd] = "build" => dirty /\ job # "none"
    /\ pc[Httpd] = "send" => hasBase

\* A clean cache is the device's state, but for a change about to be marked and
\* the changes nobody announces.
CacheInv ==
    /\ ~dirty /\ ~torn =>
         \/ \A f \in Fields \ unsaid : cache[f] = dev[f]
         \/ \E t \in Task : pc[t] = "bump"
    /\ pc[Httpd] = "encode" /\ dirty => Underway \/ active = {}

\* A client knows of a field what was last pushed, unless it was registered
\* over a difference or is being sent the field.
BaseInv ==
    \A c \in active : \A f \in Fields \ gap[c] :
        Told(c, f) /\ hasBase =>
            view[c][f] = base[f] \/ (pc[Httpd] = "send" /\ f \in frame)

\* A client that knows an old value will be told the new one, if it was announced.
ViewInv ==
    \A c \in active : \A f \in Fields \ (gap[c] \cup unsaid) :
        Told(c, f) /\ view[c][f] # dev[f] =>
            \/ Underway
            \/ torn /\ ~dirty
            \/ job = "push" /\ pc[Httpd] \in {"build", "encode"}
            \/ pc[Httpd] = "send" /\ f \in frame

\* What is being sent is the device's state, or a push of it is to come.
SendInv ==
    pc[Httpd] = "send" =>
        \A f \in frame \ unsaid : base[f] # dev[f] => Underway \/ (torn /\ ~dirty) \/ active = {}

PushInv == JobInv /\ PendingJustified /\ CacheInv /\ BaseInv /\ SendInv /\ ViewInv
=============================================================================
