----------------------------- MODULE SlotsProofs -----------------------------
(***************************************************************************)
(* Theorems about Slots and Power: the slots, the registry and the two     *)
(* counts agree, and the radio is awake for a client, for any descriptors. *)
(*                                                                         *)
(* The functions of sse.c map a record of the shared state to the next     *)
(* one, so that the lemmas are about Sound records, and each action is a   *)
(* few of them.                                                            *)
(***************************************************************************)
EXTENDS Slots, FiniteSetTheorems, TLAPS

Descriptor == Fd \cup {None}
Records ==
    [slot : [Slot -> Descriptor], marked : {m \in SUBSET Fd : Cardinality(m) <= 2},
     uniq : 0..2, power : PowerState]

\* How many slots are in use.
Users(s) == (IF s[0] = None THEN 0 ELSE 1) + (IF s[1] = None THEN 0 ELSE 1)

Distinct(s) == s[0] = s[1] => s[0] = None

Awake(p) == p.radio = "awake" \/ p.pending

\* power.c's flag tells the radio's mode.
Steady(p) == p \in PowerState /\ (p.active <=> p.radio = "awake")

\* The slots, the counts and the radio agree.
Sound(r) ==
    /\ r \in Records
    /\ Distinct(r.slot)
    /\ r.uniq = Users(r.slot) /\ r.power.subs = r.uniq
    /\ Steady(r.power)
    /\ r.uniq > 0 => Awake(r.power)

Exact(r) == r.marked = Active(r.slot)

-----------------------------------------------------------------------------
(* Lemmas about the operators.                                             *)

LEMMA ActiveCount ==
    ASSUME NEW s \in [Slot -> Descriptor], Distinct(s)
    PROVE  Cardinality(Active(s)) = Users(s)
<1>1. Active(s) = {s[0], s[1]} \ {None}
  BY DEF Active, Slot
<1>2. CASE s[0] = None /\ s[1] = None
  BY <1>1, <1>2, FS_EmptySet, Active(s) = {} DEF Users
<1>3. CASE s[0] # None /\ s[1] = None
  BY <1>1, <1>3, FS_Singleton, Active(s) = {s[0]} DEF Users
<1>4. CASE s[0] = None /\ s[1] # None
  BY <1>1, <1>4, FS_Singleton, Active(s) = {s[1]} DEF Users
<1>5. CASE s[0] # None /\ s[1] # None
  <2>1. Active(s) = {s[0]} \cup {s[1]} /\ s[1] \notin {s[0]}
    BY <1>1, <1>5 DEF Distinct
  <2>2. IsFiniteSet({s[0]}) /\ Cardinality({s[0]}) = 1
    BY FS_Singleton
  <2>3. Cardinality(Active(s)) = 1 + 1
    BY <2>1, <2>2, FS_AddElement
  <2> QED BY <1>5, <2>3 DEF Users
<1> QED BY <1>2, <1>3, <1>4, <1>5

LEMMA MarkTypes ==
    ASSUME NEW m \in SUBSET Fd, Cardinality(m) <= 2, NEW fd \in Fd
    PROVE  Mark(m, fd) \in SUBSET Fd /\ Cardinality(Mark(m, fd)) <= 2
<1>1. IsFiniteSet(m) /\ Cardinality(m) \in Nat
  BY SlotsAssumption, FS_Subset, FS_CardinalityType
<1>2. CASE Cardinality(m) < 2
  BY <1>1, <1>2, FS_AddElement DEF Mark
<1>3. CASE ~(Cardinality(m) < 2)
  BY <1>3 DEF Mark
<1> QED BY <1>2, <1>3

LEMMA UnmarkTypes ==
    ASSUME NEW m \in SUBSET Fd, Cardinality(m) <= 2, NEW d
    PROVE  m \ {d} \in SUBSET Fd /\ Cardinality(m \ {d}) <= 2
<1>1. IsFiniteSet(m)
  BY SlotsAssumption, FS_Subset
<1>2. Cardinality(m \ {d}) <= Cardinality(m) /\ Cardinality(m \ {d}) \in Nat /\ Cardinality(m) \in Nat
  BY <1>1, FS_Subset, FS_CardinalityType, m \ {d} \subseteq m
<1> QED BY <1>2

\* power.c keeps its flag and the radio together; activity wakes it.
LEMMA PowerActivity ==
    ASSUME NEW p, Steady(p)
    PROVE  /\ Steady(Activity(p)) /\ Awake(Activity(p)) /\ Activity(p).subs = p.subs
           /\ Steady([p EXCEPT !.idle = TRUE])
           /\ [p EXCEPT !.idle = TRUE].subs = p.subs
           /\ Awake(p) => Awake([p EXCEPT !.idle = TRUE])
<1> USE DEF PowerState, Awake, Steady
<1>1. Steady(Activity(p)) /\ Awake(Activity(p)) /\ Activity(p).subs = p.subs
  BY DEF Activity
<1> QED BY <1>1

LEMMA PowerConnected ==
    ASSUME NEW p, Steady(p)
    PROVE  Steady(Connected(p)) /\ Awake(Connected(p)) /\ Connected(p).subs = p.subs + 1
<1> DEFINE q == [p EXCEPT !.subs = @ + 1]
<1>1. Steady(q) /\ q.subs = p.subs + 1
  BY DEF PowerState, Steady
<1>2. Connected(p) = Activity(q)
  BY DEF Connected
<1> HIDE DEF q
<1> QED BY <1>1, <1>2, PowerActivity

LEMMA PowerDisconnected ==
    ASSUME NEW p, Steady(p), p.subs > 0
    PROVE  /\ Steady(Disconnected(p)) /\ Disconnected(p).subs = p.subs - 1
           /\ Awake(p) => Awake(Disconnected(p))
BY DEF PowerState, Awake, Steady, Disconnected

LEMMA PowerOverride ==
    ASSUME NEW p, Steady(p), NEW b \in BOOLEAN
    PROVE  /\ Steady(Override(p, b)) /\ Override(p, b).subs = p.subs
           /\ Awake(p) => Awake(Override(p, b))
BY DEF PowerState, Awake, Steady, Override

LEMMA PowerProcess ==
    ASSUME NEW p, Steady(p)
    PROVE  /\ Steady(Process(p)) /\ Process(p).subs = p.subs
           /\ Awake(p) /\ p.subs > 0 => Awake(Process(p))
<1>1. \/ Process(p) = p
      \/ Process(p) = [p EXCEPT !.pending = FALSE, !.active = TRUE, !.radio = "awake"]
      \/ p.subs = 0 /\ Process(p) = [p EXCEPT !.active = FALSE, !.radio = "asleep"]
  BY Zenon DEF Process
<1> USE DEF PowerState, Awake, Steady
<1>2. CASE Process(p) = p
  BY <1>2
<1>3. CASE Process(p) = [p EXCEPT !.pending = FALSE, !.active = TRUE, !.radio = "awake"]
  BY <1>3
<1>4. CASE p.subs = 0 /\ Process(p) = [p EXCEPT !.active = FALSE, !.radio = "asleep"]
  <2> DEFINE q == [p EXCEPT !.active = FALSE, !.radio = "asleep"]
  <2>1. q \in PowerState /\ q.active = FALSE /\ q.radio = "asleep" /\ q.subs = p.subs
    OBVIOUS
  <2>2. ~(p.subs > 0)
    BY <1>4
  <2> HIDE DEF q
  <2> QED BY <1>4, <2>1, <2>2 DEF q
<1> HIDE DEF PowerState, Awake, Steady
<1> QED BY <1>1, <1>2, <1>3, <1>4

\* Deactivating a slot keeps the record sound, and the other slot in place.
LEMMA DeactivateSound ==
    ASSUME NEW r, Sound(r), NEW i \in Slot
    PROVE  /\ Sound(Deactivate(r, i))
           /\ Deactivate(r, i).slot = [r.slot EXCEPT ![i] = None]
           /\ Exact(r) => Exact(Deactivate(r, i))
<1> DEFINE d == Deactivate(r, i)
<1>1. /\ r.slot \in [Slot -> Descriptor] /\ r.uniq \in 0..2 /\ r.power \in PowerState
      /\ r.marked \in SUBSET Fd /\ Cardinality(r.marked) <= 2
  BY DEF Sound, Records
<1>2. CASE r.slot[i] = None
  BY <1>1, <1>2 DEF Deactivate
<1>3. CASE r.slot[i] # None
  <2>1. r.slot[1 - i] # r.slot[i]
    BY <1>3 DEF Sound, Distinct, Slot
  <2>2. d = [slot |-> [r.slot EXCEPT ![i] = None], marked |-> r.marked \ {r.slot[i]},
             uniq |-> IF r.uniq > 0 THEN r.uniq - 1 ELSE r.uniq, power |-> Disconnected(r.power)]
    BY <1>3, <2>1 DEF Deactivate
  <2>3. /\ d.slot \in [Slot -> Descriptor] /\ Distinct(d.slot)
        /\ Users(r.slot) = Users(d.slot) + 1 /\ Users(d.slot) \in 0..1
    BY <1>1, <1>3, <2>2 DEF Descriptor, Slot, Distinct, Users, Sound
  <2>4. d.uniq = Users(d.slot) /\ d.uniq \in 0..2 /\ r.uniq = d.uniq + 1
    BY <1>1, <2>2, <2>3 DEF Sound
  <2>5. /\ d.power \in PowerState /\ Steady(d.power)
        /\ d.power.subs = d.uniq /\ Awake(d.power)
    <3>1. Steady(r.power) /\ r.power.subs = r.uniq /\ r.uniq > 0 /\ Awake(r.power)
      BY <2>3, <2>4 DEF Sound
    <3>2. Steady(Disconnected(r.power)) /\ Awake(Disconnected(r.power))
          /\ Disconnected(r.power).subs = r.uniq - 1
      BY <3>1, PowerDisconnected
    <3> QED BY <1>1, <2>2, <2>4, <3>2 DEF Steady
  <2>6. d.marked \in SUBSET Fd /\ Cardinality(d.marked) <= 2
    <3>1. d.marked = r.marked \ {r.slot[i]}
      BY <2>2
    <3> QED BY <1>1, <3>1, UnmarkTypes
  <2>7. Sound(d)
    BY <2>2, <2>3, <2>4, <2>5, <2>6 DEF Sound, Records
  <2>8. Active(d.slot) = Active(r.slot) \ {r.slot[i]}
    BY <1>1, <1>3, <2>1, <2>2 DEF Active, Slot
  <2> QED BY <2>2, <2>7, <2>8 DEF Exact
<1> QED BY <1>2, <1>3

LEMMA DeactivateAllSound ==
    ASSUME NEW r, Sound(r), NEW D \in SUBSET Slot
    PROVE  Sound(DeactivateAll(r, D)) /\ (Exact(r) => Exact(DeactivateAll(r, D)))
<1> DEFINE first == IF 0 \in D THEN Deactivate(r, 0) ELSE r
<1>1. Sound(first) /\ (Exact(r) => Exact(first))
  BY DeactivateSound DEF Slot
<1>2. DeactivateAll(r, D) = IF 1 \in D THEN Deactivate(first, 1) ELSE first
  BY DEF DeactivateAll
<1> HIDE DEF first
<1> QED BY <1>1, <1>2, DeactivateSound DEF Slot

\* A descriptor takes a free slot, or the one it has.
LEMMA ActivateSound ==
    ASSUME NEW r, Sound(r), NEW i \in Slot, NEW fd \in Fd,
           r.slot[i] = fd \/ (r.slot[i] = None /\ fd \notin Active(r.slot))
    PROVE  /\ Sound(Activate(r, i, fd))
           /\ Activate(r, i, fd).slot = [r.slot EXCEPT ![i] = fd]
           /\ Activate(r, i, fd).marked = r.marked
<1> DEFINE d == Activate(r, i, fd)
<1>1. /\ r.slot \in [Slot -> Descriptor] /\ r.uniq \in 0..2 /\ r.power \in PowerState
      /\ r.marked \in SUBSET Fd /\ Cardinality(r.marked) <= 2 /\ fd # None
  BY SlotsAssumption DEF Sound, Records
<1>2. d.slot = [r.slot EXCEPT ![i] = fd] /\ d.marked = r.marked
  BY DEF Activate
<1>3. CASE r.slot[i] = fd
  <2>1. fd \in Active(r.slot)
    BY <1>1, <1>3 DEF Active
  <2>2. d = [slot |-> [r.slot EXCEPT ![i] = fd], marked |-> r.marked, uniq |-> r.uniq,
             power |-> r.power]
    BY <2>1 DEF Activate
  <2>3. [r.slot EXCEPT ![i] = fd] = r.slot
    BY <1>1, <1>3
  <2> QED BY <1>1, <1>2, <2>2, <2>3 DEF Sound, Records
<1>4. CASE r.slot[i] = None /\ fd \notin Active(r.slot)
  <2>1. d = [slot |-> [r.slot EXCEPT ![i] = fd], marked |-> r.marked, uniq |-> r.uniq + 1,
             power |-> Connected(r.power)]
    BY <1>4 DEF Activate
  <2>2. /\ d.slot \in [Slot -> Descriptor] /\ Distinct(d.slot)
        /\ Users(d.slot) = Users(r.slot) + 1 /\ Users(d.slot) \in 1..2
    BY <1>1, <1>2, <1>4 DEF Descriptor, Slot, Distinct, Users, Sound, Active
  <2>3. d.uniq = Users(d.slot) /\ d.uniq \in 0..2
    BY <2>1, <2>2 DEF Sound
  <2>4. /\ d.power \in PowerState /\ Steady(d.power)
        /\ d.power.subs = d.uniq /\ Awake(d.power)
    <3>1. Steady(Connected(r.power)) /\ Awake(Connected(r.power))
          /\ Connected(r.power).subs = r.uniq + 1
      BY PowerConnected DEF Sound
    <3> QED BY <2>1, <3>1 DEF Steady
  <2> QED BY <1>1, <1>2, <2>1, <2>2, <2>3, <2>4 DEF Sound, Records
<1> QED BY <1>3, <1>4

-----------------------------------------------------------------------------
(* The invariant.                                                          *)

\* The state is sound, and until an eviction the registry is exact.
SoundInv ==
    /\ Sound(State)
    /\ evicted \in BOOLEAN
    /\ ~evicted => Exact(State)

Others ==
    /\ enabled \in BOOLEAN /\ hbPending \in BOOLEAN
    /\ hb \in {"idle", "queue", "work"}
    /\ conn \in [Fd -> Conn]

\* A request counts as activity and marks its descriptor.
LEMMA MarkedSound ==
    ASSUME Sound(State), NEW fd \in Fd
    PROVE  /\ Sound(Marked(fd)) /\ Marked(fd).slot = slot
           /\ Marked(fd).marked = Mark(marked, fd)
<1> DEFINE r == Marked(fd)
           m == Mark(marked, fd)
           a == Activity(power)
<1>1. /\ State \in Records /\ State.slot = slot /\ State.uniq = uniq /\ State.power = power
      /\ State.marked = marked
  BY DEF Sound, State
<1>2. Distinct(slot) /\ uniq = Users(slot) /\ power.subs = uniq /\ Steady(power)
  BY <1>1 DEF Sound
<1>3. m \in SUBSET Fd /\ Cardinality(m) <= 2
  BY <1>1, MarkTypes DEF Records
<1>4. Steady(a) /\ Awake(a) /\ a.subs = uniq
  BY <1>2, PowerActivity
<1>5. r = [State EXCEPT !.marked = m, !.power = a]
  BY DEF Marked
<1> HIDE DEF r, m, a
<1>6. r \in Records /\ r.slot = slot /\ r.uniq = uniq /\ r.power = a /\ r.marked = m
  BY <1>1, <1>3, <1>4, <1>5 DEF Records, Steady
<1> QED BY <1>2, <1>4, <1>6 DEF Sound, r, m

\* A change of power alone.
LEMMA PowerSound ==
    ASSUME Sound(State), UNCHANGED <<slot, marked, uniq, evicted>>,
           Steady(power'), power'.subs = power.subs,
           Awake(power) /\ power.subs > 0 => Awake(power')
    PROVE  Sound(State)' /\ (Exact(State) => Exact(State)')
BY DEF Sound, Records, State, Steady, Exact

LEMMA Becoming ==
    ASSUME NEW r, r \in Records, Become(r)
    PROVE  State' = r
BY DEF Records, Become, State

\* While a slot is free and the registry exact, there is room to register.
LEMMA RoomToMark ==
    ASSUME Sound(State), Exact(State), NEW fd \in Fd
    PROVE  /\ (\E i \in Slot : slot[i] = None) => Mark(marked, fd) = marked \cup {fd}
           /\ (\A i \in Slot : slot[i] # None) => Mark(marked, fd) = marked
<1>1. /\ slot \in [Slot -> Descriptor] /\ Distinct(slot) /\ marked = Active(slot)
  BY DEF Sound, Records, State, Exact
<1>2. Cardinality(marked) = Users(slot)
  BY <1>1, ActiveCount
<1> QED BY <1>2 DEF Mark, Users, Slot

LEMMA RegisterSound ==
    ASSUME SoundInv, NEW fd \in Fd, Register(fd)
    PROVE  SoundInv'
<1> DEFINE r == Marked(fd)
<1>1. Sound(State) /\ Sound(r) /\ r.slot = slot /\ r.marked = Mark(marked, fd) /\ slot = State.slot
  BY MarkedSound DEF SoundInv, State
<1>2. slot \in [Slot -> Descriptor] /\ Distinct(slot) /\ fd # None
  BY <1>1, SlotsAssumption DEF Sound, Records
<1>3. ~evicted => marked = Active(slot)
  BY DEF SoundInv, Exact, State
<1>4. r \in Records
  BY <1>1 DEF Sound
<1> HIDE DEF r
<1>5. CASE Disabled(fd)
  <2>1. Steady(power') /\ power'.subs = power.subs /\ Awake(power')
    BY <1>1, <1>5, PowerActivity DEF Disabled, Sound, State
  <2> QED BY <1>1, <1>5, <2>1, PowerSound DEF Disabled, SoundInv
<1>6. ASSUME NEW i \in Slot, Replace(fd, i) \/ TakeFree(fd, i) PROVE SoundInv'
  <2> DEFINE d == Activate(r, i, fd)
  <2>1. slot[i] = fd \/ (slot[i] = None /\ fd \notin Active(slot))
    BY <1>6 DEF Replace, TakeFree
  <2>2. Sound(d) /\ d.slot = [slot EXCEPT ![i] = fd] /\ d.marked = r.marked
    BY <1>1, <2>1, ActivateSound
  <2>3. State' = d /\ evicted' = evicted
    <3>1. Become(d)
      BY <1>6 DEF Replace, TakeFree, r
    <3> QED BY <1>6, <2>2, <3>1, Becoming DEF Sound, Replace, TakeFree
  <2>4. ~evicted => Mark(marked, fd) = Active([slot EXCEPT ![i] = fd])
    <3> SUFFICES ASSUME ~evicted PROVE Mark(marked, fd) = Active([slot EXCEPT ![i] = fd])
      OBVIOUS
    <3>1. CASE slot[i] = fd
      <4>1. [slot EXCEPT ![i] = fd] = slot /\ fd \in marked
        BY <1>2, <1>3, <3>1 DEF Active
      <4> QED BY <1>3, <4>1 DEF Mark
    <3>2. CASE slot[i] = None /\ fd \notin Active(slot)
      <4>1. Mark(marked, fd) = marked \cup {fd}
        BY <1>1, <3>2, RoomToMark DEF SoundInv
      <4>2. Active([slot EXCEPT ![i] = fd]) = Active(slot) \cup {fd}
        BY <1>2, <3>2 DEF Active
      <4> QED BY <1>3, <4>1, <4>2
    <3> QED BY <2>1, <3>1, <3>2
  <2> HIDE DEF d
  <2> QED BY <1>1, <2>2, <2>3, <2>4 DEF SoundInv, Exact
<1>7. ASSUME NEW i \in Slot, NEW unread \in SUBSET Unread, Evict(fd, i, unread) PROVE SoundInv'
  <2> DEFINE e == Deactivate(r, i)
             d == Activate(e, i, fd)
  <2>1. Sound(e) /\ e.slot = [slot EXCEPT ![i] = None]
    BY <1>1, DeactivateSound
  <2>2. e.slot[i] = None /\ fd \notin Active(e.slot)
    BY <1>2, <1>7, <2>1 DEF Evict, Active
  <2> HIDE DEF e
  <2>3. Sound(d)
    BY <2>1, <2>2, ActivateSound
  <2>4. State' = d /\ evicted' = TRUE
    <3>1. Become(d) /\ evicted' = TRUE
      BY <1>7 DEF Evict, r, e
    <3> QED BY <2>3, <3>1, Becoming DEF Sound
  <2> HIDE DEF d
  <2> QED BY <2>3, <2>4 DEF SoundInv
<1>8. CASE Reject(fd)
  <2>1. State' = r /\ evicted' = evicted
    BY <1>4, <1>8, Becoming DEF Reject, r
  <2>2. \A i \in Slot : slot[i] # None
    BY <1>8, SlotsAssumption DEF Reject, Unread
  <2>3. ~evicted => Mark(marked, fd) = Active(slot)
    BY <1>1, <1>3, <2>2, RoomToMark DEF SoundInv
  <2> QED BY <1>1, <2>1, <2>3 DEF SoundInv, Exact
<1> QED BY <1>5, <1>6, <1>7, <1>8 DEF Register

\* Every step keeps the slots, the counts, the registry and the radio in step.
LEMMA SoundStep == SoundInv /\ [Next]_vars => SoundInv'
<1> SUFFICES ASSUME SoundInv, [Next]_vars PROVE SoundInv'
  OBVIOUS
<1>1. Sound(State) /\ Steady(power)
  BY DEF SoundInv, Sound, State
<1>2. ASSUME NEW fd \in Fd, Register(fd) PROVE SoundInv'
  BY <1>2, RegisterSound
<1>3. ASSUME NEW b \in BOOLEAN, SetEnabled(b) PROVE SoundInv'
  <2> DEFINE r == [State EXCEPT !.power = Activity(power)]
  <2>1. Sound(r) /\ (Exact(State) => Exact(r))
    <3>1. /\ State \in Records /\ State.slot = slot /\ State.uniq = uniq
          /\ State.power = power /\ State.marked = marked
      BY <1>1 DEF Sound, State
    <3>2. Distinct(slot) /\ uniq = Users(slot) /\ power.subs = uniq
      BY <1>1, <3>1 DEF Sound
    <3> DEFINE a == Activity(power)
    <3>3. Steady(a) /\ Awake(a) /\ a.subs = uniq
      BY <1>1, <3>2, PowerActivity
    <3> HIDE DEF a
    <3>4. /\ r \in Records /\ r.slot = slot /\ r.uniq = uniq
          /\ r.power = a /\ r.marked = marked
      BY <3>1, <3>3 DEF Records, Steady, a
    <3> QED BY <3>1, <3>2, <3>3, <3>4 DEF Sound, Exact
  <2> HIDE DEF r
  <2>2. Sound(DeactivateAll(r, Slot)) /\ (Exact(r) => Exact(DeactivateAll(r, Slot)))
    BY <2>1, DeactivateAllSound
  <2>3. evicted' = evicted /\ (Become(r) \/ Become(DeactivateAll(r, Slot)))
    BY <1>3 DEF SetEnabled, r
  <2>4. State' = r \/ State' = DeactivateAll(r, Slot)
    BY <2>1, <2>2, <2>3, Becoming DEF Sound
  <2> QED BY <2>1, <2>2, <2>3, <2>4 DEF SoundInv, Exact
<1>4. ASSUME NEW D \in SUBSET Slot, Push(D) \/ Heartbeat(D) PROVE SoundInv'
  <2>1. Become(DeactivateAll(State, D)) /\ evicted' = evicted
    BY <1>4 DEF Push, Heartbeat
  <2>2. Sound(DeactivateAll(State, D)) /\ (Exact(State) => Exact(DeactivateAll(State, D)))
    BY <1>1, DeactivateAllSound
  <2>3. State' = DeactivateAll(State, D)
    BY <2>1, <2>2, Becoming DEF Sound
  <2> QED BY <2>1, <2>2, <2>3 DEF SoundInv, Exact
<1>5. ASSUME NEW b \in BOOLEAN, SetPowerSave(b) PROVE SoundInv'
  <2>1. Steady(Activity(power)) /\ Awake(Activity(power)) /\ Activity(power).subs = power.subs
    BY <1>1, PowerActivity
  <2>2. Steady(power') /\ power'.subs = power.subs /\ Awake(power')
    BY <1>5, <2>1, PowerOverride DEF SetPowerSave
  <2> QED BY <1>1, <1>5, <2>2, PowerSound DEF SetPowerSave, SoundInv
<1>6. CASE PowerTick \/ Other \/ IdleTimeout
  <2>1. /\ Steady(power') /\ power'.subs = power.subs
        /\ Awake(power) /\ power.subs > 0 => Awake(power')
    BY <1>1, <1>6, PowerActivity, PowerProcess DEF PowerTick, Other, IdleTimeout
  <2>2. UNCHANGED <<slot, marked, uniq, evicted>>
    BY <1>6 DEF PowerTick, Other, IdleTimeout
  <2> QED BY <1>1, <2>1, <2>2, PowerSound DEF SoundInv
<1>7. CASE UNCHANGED <<sseVars, evicted>>
  BY <1>7 DEF SoundInv, sseVars, Sound, Exact, State
<1> QED BY <1>2, <1>3, <1>4, <1>5, <1>6, <1>7
        DEF Next, Handler, Beat, Control, Environment, Tick, Queue, Refused, Accept, Purge, Leave,
            Reap, vars

LEMMA OthersStep == Others /\ [Next]_vars => Others'
<1> SUFFICES ASSUME Others, [Next]_vars PROVE Others'
  OBVIOUS
<1> USE DEF Others, hbVars, Opened, Conn
<1>1. ASSUME NEW fd \in Fd, Register(fd) PROVE Others'
  BY <1>1 DEF Register, Disabled, Replace, TakeFree, Evict, Reject
<1>2. ASSUME NEW b \in BOOLEAN, SetEnabled(b) \/ SetPowerSave(b) PROVE Others'
  BY <1>2 DEF SetEnabled, SetPowerSave
<1>3. ASSUME NEW D \in SUBSET Slot, Push(D) \/ Heartbeat(D) PROVE Others'
  BY <1>3 DEF Push, Heartbeat
<1>4. CASE Control
  BY <1>4 DEF Control, Tick, Queue, Refused, PowerTick
<1>5. ASSUME NEW fd \in Fd, Accept(fd) \/ Purge(fd) \/ Leave(fd) \/ Reap(fd) PROVE Others'
  BY <1>5 DEF Accept, Purge, Leave, Reap
<1>6. CASE Other \/ IdleTimeout
  BY <1>6 DEF Other, IdleTimeout
<1>7. CASE UNCHANGED vars
  BY <1>7 DEF vars
<1> QED BY <1>1, <1>2, <1>3, <1>4, <1>5, <1>6, <1>7 DEF Next, Handler, Beat, Environment

LEMMA SlotsInit == Init => Others /\ SoundInv
<1> SUFFICES ASSUME Init PROVE Others /\ SoundInv
  OBVIOUS
<1>1. slot = [i \in Slot |-> None] /\ slot \in [Slot -> Descriptor]
  BY DEF Init, Descriptor
<1>2. slot[0] = None /\ slot[1] = None /\ Active(slot) = {}
  BY <1>1 DEF Slot, Active
<1>3. Steady(power) /\ power.subs = 0
  BY DEF Init, PowerInit, PowerState, Steady
<1>4. Cardinality({}) = 0 /\ marked = {} /\ uniq = 0 /\ evicted = FALSE
  BY FS_EmptySet DEF Init
<1>5. State \in Records
  BY <1>1, <1>3, <1>4 DEF State, Records, Steady
<1>6. Users(slot) = 0 /\ Distinct(slot)
  BY <1>2 DEF Users, Distinct
<1>7. SoundInv
  <2>1. /\ State.slot = slot /\ State.marked = marked /\ State.uniq = uniq
        /\ State.power = power
    BY DEF State
  <2>2. uniq = Users(slot) /\ power.subs = uniq /\ ~(uniq > 0)
    BY <1>3, <1>4, <1>6
  <2>3. Sound(State)
    BY <1>3, <1>5, <1>6, <2>1, <2>2 DEF Sound
  <2>4. Exact(State)
    BY <1>2, <1>4, <2>1 DEF Exact
  <2> QED BY <1>4, <2>3, <2>4 DEF SoundInv
<1> QED BY <1>7 DEF Init, Others, Conn

LEMMA SlotsInvariant == Spec => [](Others /\ SoundInv)
<1>1. Others /\ SoundInv /\ [Next]_vars => Others' /\ SoundInv'
  BY OthersStep, SoundStep
<1> QED BY <1>1, SlotsInit, PTL DEF Spec

\* What a sound state says of the variables.
LEMMA SoundFields ==
    ASSUME SoundInv
    PROVE  /\ slot \in [Slot -> Descriptor] /\ Distinct(slot)
           /\ marked \subseteq Fd /\ Cardinality(marked) <= 2
           /\ uniq \in 0..2 /\ uniq = Users(slot) /\ power.subs = uniq
           /\ Steady(power) /\ (uniq > 0 => Awake(power))
           /\ ~evicted => marked = Active(slot)
BY DEF SoundInv, Sound, Records, State, Exact

\* The types of every variable.
THEOREM TypeCorrect == Spec => []TypeOK
<1>1. Others /\ SoundInv => TypeOK
  BY SoundFields DEF Others, TypeOK, Steady, Descriptor, SoundInv
<1> QED BY <1>1, SlotsInvariant, PTL

\* No two slots share a descriptor; sse.c's count and power's count are the
\* number of clients, on all the paths that change them.
THEOREM CountsAgree == Spec => []Counted
<1>1. SoundInv => Counted
  <2> SUFFICES ASSUME SoundInv PROVE Counted
    OBVIOUS
  <2>1. Cardinality(Active(slot)) = Users(slot)
    BY SoundFields, ActiveCount
  <2> QED BY <2>1, SoundFields DEF Counted, Distinct, Slot
<1> QED BY <1>1, SlotsInvariant, PTL

\* Until an eviction the server skips exactly the streams.
THEOREM RegistryIsExact == Spec => []RegistryExact
<1>1. SoundInv => RegistryExact
  BY SoundFields DEF RegistryExact
<1> QED BY <1>1, SlotsInvariant, PTL

\* While a client holds a slot the radio is awake, or a wake-up is pending.
THEOREM WatchedIsAwake == Spec => []WatchedAwake
<1>1. SoundInv => WatchedAwake
  BY SoundFields DEF WatchedAwake, InUse, Users, Slot, Awake
<1> QED BY <1>1, SlotsInvariant, PTL

-----------------------------------------------------------------------------
(* The heartbeat.                                                          *)

\* A loop over all slots leaves none in use, a loop over some takes none.
LEMMA DeactivateAllFrees ==
    ASSUME NEW r, Sound(r), NEW D \in SUBSET Slot
    PROVE  /\ DeactivateAll(r, D).slot \in [Slot -> Descriptor]
           /\ \A i \in Slot : DeactivateAll(r, D).slot[i] \in {r.slot[i], None}
           /\ \A i \in D : DeactivateAll(r, D).slot[i] = None
<1> DEFINE first == IF 0 \in D THEN Deactivate(r, 0) ELSE r
<1>1. Sound(first) /\ first.slot = IF 0 \in D THEN [r.slot EXCEPT ![0] = None] ELSE r.slot
  BY DeactivateSound DEF Slot
<1>2. DeactivateAll(r, D) = IF 1 \in D THEN Deactivate(first, 1) ELSE first
  BY DEF DeactivateAll
<1> HIDE DEF first
<1>3. Deactivate(first, 1).slot = [first.slot EXCEPT ![1] = None]
  BY <1>1, DeactivateSound DEF Slot
<1>4. r.slot \in [Slot -> Descriptor] /\ None \in Descriptor
  BY DEF Sound, Records, Descriptor
<1> QED
  BY <1>1, <1>2, <1>3, <1>4 DEF Slot

LEMMA BeatStep == Others /\ SoundInv /\ BeatInv /\ [Next]_vars => BeatInv'
<1> SUFFICES ASSUME Others, SoundInv, BeatInv, [Next]_vars PROVE BeatInv'
  OBVIOUS
<1> USE DEF BeatInv, InUse
<1>1. Sound(State) /\ slot \in [Slot -> Descriptor] /\ State.slot = slot
  BY SoundFields DEF SoundInv, State
\* A registration is granted only while streams are enabled.
<1>2. ASSUME NEW fd \in Fd, Register(fd) PROVE BeatInv'
  <2>1. UNCHANGED <<enabled, hbVars>>
    BY <1>2 DEF Register, Disabled, Replace, TakeFree, Evict, Reject
  <2>2. CASE Disabled(fd)
    BY <2>1, <2>2 DEF Disabled, hbVars
  <2>3. CASE ~Disabled(fd)
    BY <1>2, <2>1, <2>3 DEF Register, Replace, TakeFree, Evict, Reject, hbVars
  <2> QED
    BY <2>2, <2>3
\* Disabling them frees every slot.
<1>3. ASSUME NEW b \in BOOLEAN, SetEnabled(b) PROVE BeatInv'
  <2> DEFINE r == [State EXCEPT !.power = Activity(power)]
  <2>1. CASE b
    BY <1>3, <2>1 DEF SetEnabled, hbVars
  <2>2. CASE ~b
    <3>1. Sound(r)
      <4>1. /\ State \in Records /\ State.uniq = uniq /\ State.power = power
            /\ Distinct(slot) /\ uniq = Users(slot) /\ power.subs = uniq /\ Steady(power)
        BY <1>1 DEF Sound, State
      <4> DEFINE a == Activity(power)
      <4>2. Steady(a) /\ Awake(a) /\ a.subs = uniq
        BY <4>1, PowerActivity
      <4> HIDE DEF a
      <4>3. r \in Records /\ r.slot = slot /\ r.uniq = uniq /\ r.power = a
        BY <1>1, <4>1, <4>2 DEF Records, Steady, a
      <4> QED
        BY <4>1, <4>2, <4>3 DEF Sound
    <3>2. slot' = DeactivateAll(r, Slot).slot /\ UNCHANGED hbVars
      BY <1>3, <2>2 DEF SetEnabled, Become
    <3> HIDE DEF r
    <3>3. \A i \in Slot : slot'[i] = None
      BY <3>1, <3>2, DeactivateAllFrees
    <3> QED
      BY <3>2, <3>3 DEF hbVars
  <2> QED
    BY <2>1, <2>2
<1>4. ASSUME NEW D \in SUBSET Slot, Push(D) \/ Heartbeat(D) PROVE BeatInv'
  <2>1. slot' = DeactivateAll(State, D).slot /\ enabled' = enabled
    BY <1>4 DEF Push, Heartbeat, Become
  <2>2. \A i \in Slot : slot'[i] \in {slot[i], None}
    BY <1>1, <2>1, DeactivateAllFrees
  <2>3. hbPending' <=> hb' # "idle"
    BY <1>4 DEF Push, Heartbeat, hbVars
  <2> QED
    BY <2>1, <2>2, <2>3
<1>5. CASE Control
  BY <1>5 DEF Control, Tick, Queue, Refused, PowerTick, sseVars, hbVars
<1>6. CASE Environment \/ \E b \in BOOLEAN : SetPowerSave(b)
  BY <1>6 DEF Environment, Accept, Purge, Leave, Reap, Other, IdleTimeout, SetPowerSave, sseVars, hbVars
<1>7. CASE UNCHANGED vars
  BY <1>7 DEF vars, sseVars, hbVars
<1> QED BY <1>2, <1>3, <1>4, <1>5, <1>6, <1>7 DEF Next, Handler, Beat

\* No client is left without heartbeats: one is under way, or the next tick
\* queues one, for neither the count, the pending flag nor the switch for
\* streams stands in its way.
THEOREM HeartbeatIsDue == Spec => []HeartbeatDue
<1>1. Init => BeatInv
  BY DEF Init, BeatInv, InUse, Slot
<1>2. SoundInv /\ BeatInv => HeartbeatDue
  BY SoundFields DEF BeatInv, HeartbeatDue, InUse, Users, Slot
<1> QED
  BY <1>1, <1>2, BeatStep, SlotsInvariant, PTL DEF Spec
=============================================================================
