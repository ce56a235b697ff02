------------------------------- MODULE Slots -------------------------------
(***************************************************************************)
(* The bookkeeping half of sse.c: two slots for SSE clients, the registry  *)
(* of descriptors the server must not read, the count of descriptors in    *)
(* use, and power's count of subscribers, over the server's connections.   *)
(*                                                                         *)
(* All of it runs on the HTTP task but the heartbeat tick, which is the    *)
(* control task's and only reads.  A tick that preempts a handler half way *)
(* sees the slots and their count disagree; it then gives up, as it does   *)
(* when there is no client, so handlers are single steps here.             *)
(*                                                                         *)
(* The server is external: it hands descriptors to connections, closes the *)
(* connections it sees end, closes the least recently used one when a new  *)
(* one finds no descriptor (lru_purge_enable, http_server.c:174), and does *)
(* not read a descriptor in the registry (sse.c:107-110).                  *)
(***************************************************************************)
EXTENDS Power, FiniteSets

CONSTANTS
    Fd,     \* descriptors the server may use (max_open_sockets)
    None    \* the descriptor of an inactive slot

ASSUME SlotsAssumption == IsFiniteSet(Fd) /\ None \notin Fd

Slot == {0, 1}

VARIABLES
    slot,       \* s_clients: the descriptor of each slot, None when inactive
    marked,     \* sse_fds
    uniq,       \* s_unique_fds
    enabled,    \* s_sse_enabled
    hbPending,  \* s_hb_pending
    hb,         \* the heartbeat: "idle", "queue" on the control task, "work" queued
    conn,       \* what is behind each descriptor
    evicted     \* history: a registration has evicted a client

sseVars == <<slot, marked, uniq, power>>
hbVars  == <<hbPending, hb>>
vars == <<sseVars, enabled, hbVars, conn, evicted>>

\* "rest" has not been granted a stream, "stream" has, "gone" is a connection
\* whose peer has left and which the server has not closed yet.
Conn == {"free", "rest", "stream", "gone"}

Active(s) == {s[i] : i \in Slot} \ {None}

-----------------------------------------------------------------------------
(* The functions of sse.c, on the part of the state they change.           *)

State == [slot |-> slot, marked |-> marked, uniq |-> uniq, power |-> power]

Become(r) ==
    /\ slot' = r.slot /\ marked' = r.marked
    /\ uniq' = r.uniq /\ power' = r.power

\* Mutant: the registry has no limit.
Mark_Unbounded(m, fd) == m \cup {fd}

\* sse_mark_fd(fd, true): the registry holds as many as there are slots.
Mark(m, fd) == IF Cardinality(m) < 2 THEN m \cup {fd} ELSE m

\* Mutant: the descriptor stays in the registry.
Deactivate_KeepsMark(r, i) ==
    LET last == r.slot[1 - i] # r.slot[i]
    IN  IF r.slot[i] = None THEN r
        ELSE [slot   |-> [r.slot EXCEPT ![i] = None],
              marked |-> r.marked,
              uniq   |-> IF last /\ r.uniq > 0 THEN r.uniq - 1 ELSE r.uniq,
              power  |-> IF last THEN Disconnected(r.power) ELSE r.power]

\* sse_deactivate_slot
Deactivate(r, i) ==
    LET last == r.slot[1 - i] # r.slot[i]
    IN  IF r.slot[i] = None THEN r
        ELSE [slot   |-> [r.slot EXCEPT ![i] = None],
              marked |-> r.marked \ {r.slot[i]},
              uniq   |-> IF last /\ r.uniq > 0 THEN r.uniq - 1 ELSE r.uniq,
              power  |-> IF last THEN Disconnected(r.power) ELSE r.power]

\* A loop over the slots that deactivates those in D.
DeactivateAll(r, D) ==
    LET first == IF 0 \in D THEN Deactivate(r, 0) ELSE r
    IN  IF 1 \in D THEN Deactivate(first, 1) ELSE first

\* Mutant: a client that registers again is counted again.
Activate_Recounts(r, i, fd) ==
    [slot |-> [r.slot EXCEPT ![i] = fd], marked |-> r.marked,
     uniq |-> r.uniq + 1, power |-> Connected(r.power)]

\* sse_activate_slot
Activate(r, i, fd) ==
    LET new == fd \notin Active(r.slot)
    IN  [slot   |-> [r.slot EXCEPT ![i] = fd],
         marked |-> r.marked,
         uniq   |-> IF new THEN r.uniq + 1 ELSE r.uniq,
         power  |-> IF new THEN Connected(r.power) ELSE r.power]

-----------------------------------------------------------------------------
(* sse_register: GET /state/stream on descriptor fd.                       *)

Requests(fd) == conn[fd] = "rest" /\ fd \notin marked

Opened(fd) == conn' = [conn EXCEPT ![fd] = "stream"]

\* dispatch counts the request as activity before the handler runs.
Marked(fd) == [State EXCEPT !.marked = Mark(marked, fd), !.power = Activity(power)]

Disabled(fd) ==
    /\ Requests(fd) /\ ~enabled
    /\ power' = Activity(power)
    /\ UNCHANGED <<slot, marked, uniq, enabled, hbVars, conn, evicted>>

Replace(fd, i) ==
    /\ Requests(fd) /\ enabled
    /\ slot[i] = fd /\ \A j \in Slot : slot[j] = fd => j <= i
    /\ Become(Activate(Marked(fd), i, fd))
    /\ Opened(fd)
    /\ UNCHANGED <<enabled, hbVars, evicted>>

\* The scan keeps the last free slot.
TakeFree(fd, i) ==
    /\ Requests(fd) /\ enabled /\ fd \notin Active(slot)
    /\ slot[i] = None /\ \A j \in Slot : slot[j] = None => j <= i
    /\ Become(Activate(Marked(fd), i, fd))
    /\ Opened(fd)
    /\ UNCHANGED <<enabled, hbVars, evicted>>

\* recv(MSG_PEEK | MSG_DONTWAIT) > 0: the peer has sent something unread.  An
\* idle peer gives -1, like one that is gone.
Unread == {fd \in Fd : conn[fd] \in {"rest", "stream"}}

Evict(fd, i, unread) ==
    /\ Requests(fd) /\ enabled /\ fd \notin Active(slot) /\ None \notin {slot[j] : j \in Slot}
    /\ slot[i] \notin unread /\ \A j \in Slot : j < i => slot[j] \in unread
    /\ Become(Activate(Deactivate(Marked(fd), i), i, fd))
    /\ Opened(fd)
    /\ evicted' = TRUE
    /\ UNCHANGED <<enabled, hbVars>>

\* 503; the descriptor stays marked if the registry had room for it.
Reject(fd) ==
    /\ Requests(fd) /\ enabled /\ fd \notin Active(slot)
    /\ \A i \in Slot : slot[i] \in Unread
    /\ Become(Marked(fd))
    /\ UNCHANGED <<enabled, hbVars, conn, evicted>>

-----------------------------------------------------------------------------
(* The other handlers.                                                     *)

\* sse_set_enabled; sse_close_all frees the slots and closes no socket.
SetEnabled(b) ==
    /\ b # enabled
    /\ enabled' = b
    /\ Become(IF b THEN [State EXCEPT !.power = Activity(power)]
              ELSE DeactivateAll([State EXCEPT !.power = Activity(power)], Slot))
    /\ UNCHANGED <<hbVars, conn, evicted>>

SetPowerSave(b) ==
    /\ power' = Override(Activity(power), b)
    /\ UNCHANGED <<slot, marked, uniq, enabled, hbVars, conn, evicted>>

Dead(i) == slot[i] # None /\ conn[slot[i]] \in {"free", "gone"}
InUse == {i \in Slot : slot[i] # None}

\* sse_push_work's sends: to a dead connection they fail, to any other they may.
Push(failed) ==
    /\ {i \in Slot : Dead(i)} \subseteq failed /\ failed \subseteq InUse
    /\ Become(DeactivateAll(State, failed))
    /\ UNCHANGED <<enabled, hbVars, conn, evicted>>

\* Mutant: a client to which the heartbeat cannot be sent keeps its slot.
Heartbeat_KeepsFailed(dropped) ==
    /\ hb = "work" /\ {i \in Slot : Dead(i)} \subseteq dropped /\ dropped \subseteq InUse
    /\ hb' = "idle" /\ hbPending' = FALSE
    /\ UNCHANGED <<sseVars, enabled, conn, evicted>>

\* sse_heartbeat_work: also a client that was sent nothing for 45 s goes.
Heartbeat(dropped) ==
    /\ hb = "work" /\ {i \in Slot : Dead(i)} \subseteq dropped /\ dropped \subseteq InUse
    /\ Become(DeactivateAll(State, dropped))
    /\ hb' = "idle" /\ hbPending' = FALSE
    /\ UNCHANGED <<enabled, conn, evicted>>

-----------------------------------------------------------------------------
(* The control task: sse_heartbeat_tick, every 15 s, and power_process.    *)

Tick ==
    /\ hb = "idle"
    /\ uniq > 0 /\ enabled /\ ~hbPending /\ InUse # {}
    /\ hbPending' = TRUE /\ hb' = "queue"
    /\ UNCHANGED <<sseVars, enabled, conn, evicted>>

Queue ==
    /\ hb = "queue" /\ hb' = "work"
    /\ UNCHANGED <<sseVars, enabled, hbPending, conn, evicted>>

Refused ==
    /\ hb = "queue" /\ hb' = "idle" /\ hbPending' = FALSE
    /\ UNCHANGED <<sseVars, enabled, conn, evicted>>

PowerTick ==
    /\ hb # "queue"
    /\ power' = Process(power)
    /\ UNCHANGED <<slot, marked, uniq, enabled, hbVars, conn, evicted>>

-----------------------------------------------------------------------------
(* The server, its peers and time.                                         *)

Accept(fd) ==
    /\ conn[fd] = "free"
    /\ conn' = [conn EXCEPT ![fd] = "rest"]
    /\ UNCHANGED <<sseVars, enabled, hbVars, evicted>>

\* No descriptor is free: one connection is closed and its descriptor reused.
Purge(fd) ==
    /\ \A d \in Fd : conn[d] # "free"
    /\ conn' = [conn EXCEPT ![fd] = "rest"]
    /\ UNCHANGED <<sseVars, enabled, hbVars, evicted>>

Leave(fd) ==
    /\ conn[fd] \in {"rest", "stream"}
    /\ conn' = [conn EXCEPT ![fd] = "gone"]
    /\ UNCHANGED <<sseVars, enabled, hbVars, evicted>>

Reap(fd) ==
    /\ conn[fd] = "gone" /\ fd \notin marked
    /\ conn' = [conn EXCEPT ![fd] = "free"]
    /\ UNCHANGED <<sseVars, enabled, hbVars, evicted>>

\* Any other request, or a press of the button.
Other ==
    /\ power' = Activity(power)
    /\ UNCHANGED <<slot, marked, uniq, enabled, hbVars, conn, evicted>>

IdleTimeout ==
    /\ power' = [power EXCEPT !.idle = TRUE]
    /\ UNCHANGED <<slot, marked, uniq, enabled, hbVars, conn, evicted>>

-----------------------------------------------------------------------------
Init ==
    /\ PowerInit
    /\ slot = [i \in Slot |-> None]
    /\ marked = {} /\ uniq = 0
    /\ enabled \in BOOLEAN
    /\ hbPending = FALSE /\ hb = "idle"
    /\ conn = [fd \in Fd |-> "free"]
    /\ evicted = FALSE

Register(fd) ==
    \/ Disabled(fd)
    \/ \E i \in Slot : Replace(fd, i) \/ TakeFree(fd, i)
    \/ \E i \in Slot, unread \in SUBSET Unread : Evict(fd, i, unread)
    \/ Reject(fd)

Beat == \E dropped \in SUBSET Slot : Heartbeat(dropped)

Handler ==
    \/ \E fd \in Fd : Register(fd)
    \/ \E b \in BOOLEAN : SetEnabled(b) \/ SetPowerSave(b)
    \/ \E failed \in SUBSET Slot : Push(failed)
    \/ Beat

Control == Tick \/ Queue \/ Refused \/ PowerTick

Environment ==
    \/ \E fd \in Fd : Accept(fd) \/ Purge(fd) \/ Leave(fd) \/ Reap(fd)
    \/ Other \/ IdleTimeout

Next == Handler \/ Control \/ Environment

\* The control task ticks for ever, the server drains its work, and it does
\* not refuse a heartbeat every time.
Fairness == WF_vars(Tick) /\ SF_vars(Queue) /\ WF_vars(Beat) /\ SF_vars(PowerTick)

Spec == Init /\ [][Next]_vars /\ Fairness

-----------------------------------------------------------------------------
(* Properties.                                                             *)

\* Every variable has its type (sse.c:24-40, power.c:17-29).
TypeOK ==
    /\ power \in PowerState
    /\ slot \in [Slot -> Fd \cup {None}]
    /\ marked \subseteq Fd /\ Cardinality(marked) <= 2
    /\ uniq \in 0..2
    /\ enabled \in BOOLEAN /\ hbPending \in BOOLEAN /\ evicted \in BOOLEAN
    /\ hb \in {"idle", "queue", "work"}
    /\ conn \in [Fd -> Conn]

\* No two slots share a descriptor, and both counts are the number of clients:
\* an overcount would keep the radio awake for ever, an undercount let it sleep
\* under an open dashboard (sse.c:42-59, 271-292, power.c:57-76).
Counted ==
    /\ \A i, j \in Slot : slot[i] = slot[j] /\ slot[i] # None => i = j
    /\ uniq = Cardinality(Active(slot)) /\ power.subs = uniq

\* Until a registration evicts a client, the server skips exactly the streams
\* (sse.c:89-134, 302-345).
RegistryExact == ~evicted => marked = Active(slot)

\* While a client holds a slot the radio is awake or about to be
\* (power.c:57-63, sse.c:288-290).
WatchedAwake == InUse # {} => power.radio = "awake" \/ power.pending

\* A dead connection does not keep its slot: a heartbeat fails and frees it,
\* unless the descriptor gets a new connection (sse.c:172-238).
DeadLeave == \A i \in Slot : Dead(i) ~> ~Dead(i)

\* What DeadLeave rests on: while a client holds a slot, a heartbeat is under
\* way or nothing keeps the next tick from one; the pending flag never sticks
\* (sse.c:205-238).
HeartbeatDue == InUse # {} => hb # "idle" \/ (enabled /\ uniq > 0 /\ ~hbPending)

\* HeartbeatDue made inductive.
BeatInv == (hbPending <=> hb # "idle") /\ (InUse # {} => enabled)
=============================================================================
