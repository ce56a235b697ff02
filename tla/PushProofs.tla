----------------------------- MODULE PushProofs -----------------------------
(***************************************************************************)
(* Theorems about Push: its types, that the push-pending flag never        *)
(* sticks, and that a client is out of date only for the reasons Current   *)
(* names, for any fields, clients and size of the control socket.          *)
(***************************************************************************)
EXTENDS Push, TLAPS

\* The actions of a step, one by one.
LEMMA Steps ==
    ASSUME [Next]_vars
    PROVE  \/ \E t \in Task : Notify(t)
           \/ PushStart \/ GetState \/ Clean \/ Encode \/ Done
           \/ \E f \in Fields : BuildField(f) \/ FullField(f)
           \/ \E failed \in SUBSET active : Send(failed)
           \/ \E c \in Clients : Register(c)
           \/ FullSent \/ Replied
           \/ \E t \in Task, f \in Fields : Mutate(t, f)
           \/ \E f \in Fields : Drift(f)
           \/ UNCHANGED vars
BY DEF Next, Serve, Request, Build, Push, Stream, Task

-----------------------------------------------------------------------------
\* Every step keeps the types.
LEMMA TypeStep == TypeOK /\ [Next]_vars => TypeOK'
<1> SUFFICES ASSUME TypeOK, [Next]_vars PROVE TypeOK'
  OBVIOUS
<1> USE PushAssumption DEF TypeOK, Snapshot, Labels, holes, Task, Ctrl, Httpd, Timer
<1>1. ASSUME NEW t \in Task, Notify(t) PROVE TypeOK'
  <2>1. CASE Bump(t)
    BY <2>1 DEF Bump, At, Goto, pushVars, viewVars, buildVars, holes
  <2>2. CASE Check(t)
    BY <2>2 DEF Check, At, Goto, stateVars, pushVars, viewVars, buildVars
  <2>3. CASE Claim(t)
    BY <2>3 DEF Claim, At, Goto, stateVars, viewVars, buildVars
  <2>4. CASE Scan(t)
    BY <2>4 DEF Scan, At, Goto, stateVars, pushVars, viewVars, buildVars
  <2>5. CASE Unclaim(t)
    BY <2>5 DEF Unclaim, At, Goto, stateVars, viewVars, buildVars
  <2>6. CASE Queue(t)
    <3>1. work' \in 0..MaxWork
      BY <2>6 DEF Queue
    <3>2. pending' \in BOOLEAN /\ lost' \in BOOLEAN /\ torn' \in BOOLEAN
      BY <2>6 DEF Queue
    <3> QED BY <2>6, <3>1, <3>2 DEF Queue, At, Goto, stateVars, viewVars, buildVars
  <2> QED BY <1>1, <2>1, <2>2, <2>3, <2>4, <2>5, <2>6 DEF Notify
<1>2. CASE PushStart
  <2>1. work' \in 0..MaxWork /\ pc' \in [Task -> Labels]
    BY <1>2 DEF PushStart, Fresh, At, Goto
  <2> QED BY <1>2, <2>1 DEF PushStart, Fresh, At, Goto, stateVars, viewVars
<1>3. CASE GetState
  BY <1>3 DEF GetState, Fresh, At, Goto, stateVars, pushVars, viewVars
<1>4. ASSUME NEW f \in Fields, BuildField(f) PROVE TypeOK'
  BY <1>4 DEF BuildField, pushVars, viewVars
<1>5. CASE Clean
  BY <1>5 DEF Clean, At, Goto, pushVars, viewVars
<1>6. CASE Encode
  <2>1. Changed \subseteq Fields
    BY DEF Changed
  <2>2. /\ pending' \in BOOLEAN /\ hasBase' \in BOOLEAN
        /\ base' \in Snapshot /\ frame' \subseteq Fields
        /\ job' \in {"none", "push", "get"}
    BY <1>6, <2>1 DEF Encode
  <2>3. pc' = [pc EXCEPT ![Httpd] = "idle"] \/ pc' = [pc EXCEPT ![Httpd] = "send"]
    BY <1>6 DEF Encode, Goto
  <2>4. UNCHANGED <<stateVars, work, viewVars, todo, who, holes>>
    BY <1>6 DEF Encode
  <2>5. unsaid' \subseteq Unannounced
    BY <1>6 DEF Encode
  <2> QED BY <2>2, <2>3, <2>4, <2>5 DEF stateVars, viewVars
<1>7. ASSUME NEW failed \in SUBSET active, Send(failed) PROVE TypeOK'
  <2>1. active' \subseteq Clients
    BY <1>7 DEF Send
  <2>2. view' \in [Clients -> Snapshot]
    BY <1>7, <2>1 DEF Send, Zero
  <2>3. gap' \in [Clients -> SUBSET Fields]
    BY <1>7 DEF Send
  <2> QED BY <1>7, <2>1, <2>2, <2>3 DEF Send, At, Goto, stateVars, pushVars
<1>8. CASE Done
  BY <1>8 DEF Done, At, Goto, stateVars, viewVars
<1>9. ASSUME NEW c \in Clients, Register(c) PROVE TypeOK'
  BY <1>9 DEF Register, At, Goto, stateVars, pushVars
<1>10. ASSUME NEW f \in Fields, FullField(f) PROVE TypeOK'
  BY <1>10 DEF FullField, stateVars, pushVars
<1>11. CASE FullSent \/ Replied
  BY <1>11 DEF FullSent, Replied, At, Goto, stateVars, pushVars, viewVars, buildVars
<1>12. ASSUME NEW t \in Task, NEW f \in Fields, Mutate(t, f) PROVE TypeOK'
  BY <1>12 DEF Mutate, At, Goto, pushVars, viewVars, buildVars
<1>13. ASSUME NEW f \in Fields, Drift(f) PROVE TypeOK'
  BY <1>13 DEF Drift, pushVars, viewVars, buildVars
<1>14. CASE UNCHANGED vars
  BY <1>14 DEF vars, stateVars, pushVars, viewVars, buildVars
<1> QED
  BY <1>1, <1>2, <1>3, <1>4, <1>5, <1>6, <1>7, <1>8, <1>9, <1>10, <1>11, <1>12, <1>13, <1>14, Steps

LEMMA TypeInit == Init => TypeOK
<1> SUFFICES ASSUME Init PROVE TypeOK
  OBVIOUS
<1>1. Zero \in Snapshot /\ [c \in Clients |-> Zero] \in [Clients -> Snapshot]
  BY DEF Zero, Snapshot
<1>2. [c \in Clients |-> {}] \in [Clients -> SUBSET Fields]
  OBVIOUS
<1>3. work \in 0..MaxWork
  BY PushAssumption DEF Init
<1> QED BY <1>1, <1>2, <1>3 DEF Init, TypeOK, Labels, holes, Task, Ctrl, Httpd, Timer

\* Every variable keeps its type, for every choice of the constants.
THEOREM TypeCorrect == Spec => []TypeOK
BY TypeInit, TypeStep, PTL DEF Spec

-----------------------------------------------------------------------------
(* The inductive invariant.                                                *)

Serving == {"build", "encode", "send", "done", "full", "reply"}

\* A notification touches the flags and its task's label, and nothing the
\* HTTP task is working on.
LEMMA NotifyFrame ==
    ASSUME TypeOK, NEW t \in Task, Notify(t)
    PROVE  /\ UNCHANGED <<dev, cache, torn, base, hasBase, active, view, gap, todo, frame, job, who>>
           /\ \A u \in Task : u # t => pc'[u] = pc[u]
           /\ pc'[Httpd] = pc[Httpd] \/ (pc[Httpd] \notin Serving /\ pc'[Httpd] \notin Serving)
           /\ dirty' = dirty \/ (dirty' = TRUE /\ pc[t] = "bump" /\ pc'[t] = "check")
           /\ pc[t] = "bump" => dirty' = TRUE
<1> USE DEF TypeOK, Serving, Goto, At, Task, Ctrl, Httpd, Timer
<1>1. CASE Bump(t)
  BY <1>1 DEF Bump, pushVars, viewVars, buildVars, holes
<1>2. CASE Check(t)
  BY <1>2 DEF Check, stateVars, pushVars, viewVars, buildVars
<1>3. CASE Claim(t)
  BY <1>3 DEF Claim, stateVars, viewVars, buildVars, holes
<1>4. CASE Scan(t)
  BY <1>4 DEF Scan, stateVars, pushVars, viewVars, buildVars, holes
<1>5. CASE Unclaim(t)
  BY <1>5 DEF Unclaim, stateVars, viewVars, buildVars, holes
<1>6. CASE Queue(t)
  BY <1>6 DEF Queue, stateVars, viewVars, buildVars, holes
<1> QED BY <1>1, <1>2, <1>3, <1>4, <1>5, <1>6 DEF Notify

\* A notification tells of the changes nobody announced before it.
LEMMA NotifyUnsaid ==
    ASSUME TypeOK, NEW t \in Task, Notify(t)
    PROVE  unsaid' = unsaid \/ (dirty' = TRUE /\ Underway')
<1> USE DEF TypeOK, Goto, At, Underway
<1>1. CASE Bump(t)
  BY <1>1 DEF Bump, pushVars, viewVars, buildVars, holes
<1>2. CASE ~Bump(t)
  BY <1>2 DEF Notify, Check, Claim, Scan, Unclaim, Queue
<1> QED BY <1>1, <1>2

\* While there is a client, a notification under way ends in a push or a loss.
LEMMA UnderwayNotify ==
    ASSUME TypeOK, NEW t \in Task, Notify(t), Underway, active # {}
    PROVE  Underway'
<1> USE DEF TypeOK, Goto, At, Underway
<1>1. CASE Bump(t)
  BY <1>1 DEF Bump, pushVars, viewVars, buildVars, holes
<1>2. CASE Check(t)
  BY <1>2 DEF Check, stateVars, pushVars, viewVars, buildVars
<1>3. CASE Claim(t)
  BY <1>3 DEF Claim, stateVars, viewVars, buildVars, holes
<1>4. CASE Scan(t)
  BY <1>4 DEF Scan, stateVars, pushVars, viewVars, buildVars, holes
<1>5. CASE Unclaim(t)
  BY <1>5 DEF Unclaim, stateVars, viewVars, buildVars, holes
<1>6. CASE Queue(t)
  <2>1. work' > 0 \/ lost'
    BY <1>6 DEF Queue
  <2> QED BY <2>1
<1> QED BY <1>1, <1>2, <1>3, <1>4, <1>5, <1>6 DEF Notify

\* The HTTP task's own steps, but for the start of a push, leave it under way.
LEMMA UnderwayServe ==
    ASSUME TypeOK, Underway, UNCHANGED <<lost, work>>, NEW label,
           pc' = [pc EXCEPT ![Httpd] = label],
           pc[Httpd] \notin {"bump", "check", "claim", "scan", "queue"}
    PROVE  Underway'
BY DEF TypeOK, Underway, Task, Httpd

\* What the steps of the HTTP task leave alone, unfolded once.
USE DEF stateVars, pushVars, viewVars, buildVars, holes

LEMMA JobStep == TypeOK /\ JobInv /\ [Next]_vars => JobInv'
<1> SUFFICES ASSUME TypeOK, JobInv, [Next]_vars PROVE JobInv'
  OBVIOUS
<1> USE DEF JobInv, TypeOK, At, Goto, Task, Httpd
<1>1. ASSUME NEW t \in Task, Notify(t) PROVE JobInv'
  BY <1>1, NotifyFrame DEF Serving
<1>2. CASE PushStart \/ GetState
  BY <1>2 DEF PushStart, GetState, Fresh
<1>3. CASE Clean \/ Encode \/ Done
  BY <1>3 DEF Clean, Encode, Done
<1>4. ASSUME NEW f \in Fields, BuildField(f) \/ FullField(f) PROVE JobInv'
  BY <1>4 DEF BuildField, FullField
<1>5. ASSUME NEW failed \in SUBSET active, Send(failed) PROVE JobInv'
  BY <1>5 DEF Send
<1>6. ASSUME NEW c \in Clients, Register(c) PROVE JobInv'
  BY <1>6 DEF Register
<1>7. CASE FullSent \/ Replied
  BY <1>7 DEF FullSent, Replied
<1>8. ASSUME NEW t \in Task, NEW f \in Fields, Mutate(t, f) PROVE JobInv'
  BY <1>8 DEF Mutate
<1>9. ASSUME NEW f \in Fields, Drift(f) PROVE JobInv'
  BY <1>9 DEF Drift
<1>10. CASE UNCHANGED vars
  BY <1>10 DEF vars
<1> QED BY <1>1, <1>2, <1>3, <1>4, <1>5, <1>6, <1>7, <1>8, <1>9, <1>10, Steps

LEMMA PendingStep == TypeOK /\ JobInv /\ PendingJustified /\ [Next]_vars => PendingJustified'
<1> SUFFICES ASSUME TypeOK, JobInv, PendingJustified, [Next]_vars PROVE PendingJustified'
  OBVIOUS
<1> USE DEF PendingJustified, Notifying, Pushing, TypeOK, At, Goto, Task, Ctrl, Httpd, Timer
<1>1. ASSUME NEW t \in Task, Notify(t) PROVE PendingJustified'
  <2>1. CASE Bump(t)
    BY <2>1 DEF Bump
  <2>2. CASE Check(t)
    BY <2>2 DEF Check
  <2>3. CASE Claim(t)
    BY <2>3 DEF Claim
  <2>4. CASE Scan(t)
    BY <2>4 DEF Scan
  <2>5. CASE Unclaim(t)
    BY <2>5 DEF Unclaim
  <2>6. CASE Queue(t)
    <3>1. work' > 0 \/ ~pending'
      BY <2>6 DEF Queue
    <3> QED BY <3>1
  <2> QED BY <1>1, <2>1, <2>2, <2>3, <2>4, <2>5, <2>6 DEF Notify
<1>2. CASE PushStart
  BY <1>2 DEF PushStart, Fresh
<1>3. CASE GetState
  BY <1>3 DEF GetState, Fresh, JobInv
<1>4. CASE Clean
  BY <1>4 DEF Clean
<1>5. CASE Encode \/ Done
  BY <1>5 DEF Encode, Done
<1>6. ASSUME NEW f \in Fields, BuildField(f) \/ FullField(f) PROVE PendingJustified'
  BY <1>6 DEF BuildField, FullField
<1>7. ASSUME NEW failed \in SUBSET active, Send(failed) PROVE PendingJustified'
  BY <1>7 DEF Send
<1>8. ASSUME NEW c \in Clients, Register(c) PROVE PendingJustified'
  BY <1>8 DEF Register
<1>9. CASE FullSent \/ Replied
  BY <1>9 DEF FullSent, Replied
<1>10. ASSUME NEW t \in Task, NEW f \in Fields, Mutate(t, f) PROVE PendingJustified'
  BY <1>10 DEF Mutate
<1>11. ASSUME NEW f \in Fields, Drift(f) PROVE PendingJustified'
  BY <1>11 DEF Drift
<1>12. CASE UNCHANGED vars
  BY <1>12 DEF vars
<1> QED BY <1>1, <1>2, <1>3, <1>4, <1>5, <1>6, <1>7, <1>8, <1>9, <1>10, <1>11, <1>12, Steps

LEMMA CacheStep == TypeOK /\ JobInv /\ CacheInv /\ [Next]_vars => CacheInv'
<1> SUFFICES ASSUME TypeOK, JobInv, CacheInv, [Next]_vars PROVE CacheInv'
  OBVIOUS
<1> USE DEF TypeOK, JobInv, At, Goto, Task, Ctrl, Httpd, Timer
<1>1. ASSUME NEW t \in Task, Notify(t) PROVE CacheInv'
  <2>1. ~dirty' /\ ~torn' => \/ \A f \in Fields \ unsaid' : cache'[f] = dev'[f]
                            \/ \E u \in Task : pc'[u] = "bump"
    <3> SUFFICES ASSUME ~dirty', ~torn', NEW f \in Fields \ unsaid', cache'[f] # dev'[f]
                 PROVE  \E u \in Task : pc'[u] = "bump"
      OBVIOUS
    <3>0. pc[t] # "bump" /\ unsaid' = unsaid
      BY <1>1, NotifyUnsaid, NotifyFrame
    <3>1. PICK u \in Task : pc[u] = "bump"
      BY <1>1, <3>0, NotifyFrame DEF CacheInv
    <3>2. u # t
      BY <1>1, <3>1, NotifyFrame
    <3> QED BY <1>1, <3>1, <3>2, NotifyFrame
  <2>2. pc'[Httpd] = "encode" /\ dirty' => Underway' \/ active' = {}
    <3> SUFFICES ASSUME pc'[Httpd] = "encode", dirty', active' # {} PROVE Underway'
      OBVIOUS
    <3>1. pc[Httpd] = "encode" /\ active # {}
      BY <1>1, NotifyFrame DEF Serving
    <3>2. CASE dirty
      BY <1>1, <3>1, <3>2, UnderwayNotify DEF CacheInv
    <3>3. CASE ~dirty
      BY <1>1, <3>3, NotifyFrame DEF Underway
    <3> QED BY <3>2, <3>3
  <2> QED BY <2>1, <2>2 DEF CacheInv
<1>2. CASE PushStart \/ GetState
  BY <1>2 DEF PushStart, GetState, Fresh, CacheInv
<1>3. CASE Clean
  BY <1>3 DEF Clean, CacheInv
<1>4. CASE Encode \/ Done
  BY <1>4 DEF Encode, Done, CacheInv
<1>5. ASSUME NEW f \in Fields, BuildField(f) \/ FullField(f) PROVE CacheInv'
  BY <1>5 DEF BuildField, FullField, CacheInv
<1>6. ASSUME NEW failed \in SUBSET active, Send(failed) PROVE CacheInv'
  BY <1>6 DEF Send, CacheInv
<1>7. ASSUME NEW c \in Clients, Register(c) PROVE CacheInv'
  BY <1>7 DEF Register, CacheInv
<1>8. CASE FullSent \/ Replied
  BY <1>8 DEF FullSent, Replied, CacheInv
<1>9. ASSUME NEW t \in Task, NEW f \in Fields, Mutate(t, f) PROVE CacheInv'
  BY <1>9 DEF Mutate, CacheInv, Underway
<1>10. ASSUME NEW f \in Fields, Drift(f) PROVE CacheInv'
  BY <1>10 DEF Drift, CacheInv, Underway, Snapshot
<1>11. CASE UNCHANGED vars
  BY <1>11 DEF vars, CacheInv, Underway
<1> QED BY <1>1, <1>2, <1>3, <1>4, <1>5, <1>6, <1>7, <1>8, <1>9, <1>10, <1>11, Steps

\* A snapshot that is encoded is the device's state, or a push of it is to come.
LEMMA EncodedFresh ==
    ASSUME TypeOK, JobInv, CacheInv, pc[Httpd] = "encode", NEW f \in Fields \ unsaid, cache[f] # dev[f]
    PROVE  Underway \/ (torn /\ ~dirty) \/ active = {}
BY DEF TypeOK, CacheInv, Underway

LEMMA BaseStep == TypeOK /\ JobInv /\ BaseInv /\ [Next]_vars => BaseInv'
<1> SUFFICES ASSUME TypeOK, JobInv, BaseInv, [Next]_vars PROVE BaseInv'
  OBVIOUS
<1> USE DEF TypeOK, Snapshot, JobInv, At, Goto, Task, Ctrl, Httpd, Timer
<1>1. ASSUME NEW t \in Task, Notify(t) PROVE BaseInv'
  BY <1>1, NotifyFrame DEF BaseInv, Told, Serving
<1>2. CASE PushStart \/ GetState
  BY <1>2 DEF PushStart, GetState, Fresh, BaseInv, Told
<1>3. CASE Clean \/ Done
  BY <1>3 DEF Clean, Done, BaseInv, Told
<1>4. CASE Encode
  <2> SUFFICES ASSUME NEW c \in active, NEW f \in Fields \ gap[c], hasBase'
               PROVE  view[c][f] = base'[f] \/ (pc'[Httpd] = "send" /\ f \in frame')
    BY <1>4 DEF Encode, BaseInv
  <2>1. hasBase => view[c][f] = base[f]
    BY <1>4 DEF Encode, BaseInv, Told
  <2>2. CASE Changed = {}
    BY <1>4, <2>1, <2>2 DEF Encode
  <2>3. CASE f \in Changed
    BY <1>4, <2>3 DEF Encode
  <2>4. CASE f \notin Changed /\ Changed # {}
    <3>1. hasBase /\ cache[f] = base[f]
      BY <2>4 DEF Changed
    <3> QED BY <1>4, <2>1, <2>4, <3>1 DEF Encode
  <2> QED BY <2>2, <2>3, <2>4
<1>5. ASSUME NEW f \in Fields, BuildField(f) PROVE BaseInv'
  BY <1>5 DEF BuildField, BaseInv, Told
<1>6. ASSUME NEW failed \in SUBSET active, Send(failed) PROVE BaseInv'
  <2> SUFFICES ASSUME NEW c \in active', NEW f \in Fields \ gap'[c], hasBase
               PROVE  view'[c][f] = base[f]
    BY <1>6 DEF Send, BaseInv
  <2>1. c \in Clients /\ c \in active
    BY <1>6 DEF Send
  <2>2. view'[c][f] = IF f \in frame THEN base[f] ELSE view[c][f]
    BY <1>6, <2>1 DEF Send
  <2>3. f \in frame \/ f \notin gap[c]
    BY <1>6, <2>1 DEF Send
  <2>4. Told(c, f)
    BY <1>6, <2>1 DEF Send, Told
  <2> QED BY <2>1, <2>2, <2>3, <2>4 DEF BaseInv
<1>7. ASSUME NEW c \in Clients, Register(c) PROVE BaseInv'
  BY <1>7 DEF Register, BaseInv, Told
<1>8. ASSUME NEW f \in Fields, FullField(f) PROVE BaseInv'
  BY <1>8 DEF FullField, BaseInv, Told
<1>9. CASE FullSent \/ Replied
  BY <1>9 DEF FullSent, Replied, BaseInv, Told
<1>10. ASSUME NEW t \in Task, NEW f \in Fields, Mutate(t, f) PROVE BaseInv'
  BY <1>10 DEF Mutate, BaseInv, Told
<1>11. ASSUME NEW f \in Fields, Drift(f) PROVE BaseInv'
  BY <1>11 DEF Drift, BaseInv, Told
<1>12. CASE UNCHANGED vars
  BY <1>12 DEF vars, BaseInv, Told
<1> QED BY <1>1, <1>2, <1>3, <1>4, <1>5, <1>6, <1>7, <1>8, <1>9, <1>10, <1>11, <1>12, Steps

LEMMA SendStep == TypeOK /\ JobInv /\ CacheInv /\ SendInv /\ [Next]_vars => SendInv'
<1> SUFFICES ASSUME TypeOK, JobInv, CacheInv, SendInv, [Next]_vars, pc'[Httpd] = "send",
                    NEW f \in frame' \ unsaid', base'[f] # dev'[f], active' # {}
             PROVE  Underway' \/ (torn' /\ ~dirty')
  BY DEF SendInv
<1> USE DEF TypeOK, Snapshot, JobInv, At, Goto, Task, Ctrl, Httpd, Timer
<1>1. ASSUME NEW t \in Task, Notify(t) PROVE Underway' \/ (torn' /\ ~dirty')
  <2> SUFFICES ASSUME unsaid' = unsaid PROVE Underway' \/ (torn' /\ ~dirty')
    BY <1>1, NotifyUnsaid
  <2>1. Underway \/ (torn /\ ~dirty)
    BY <1>1, NotifyFrame DEF SendInv, Serving
  <2>2. CASE Underway
    BY <1>1, <2>2, NotifyFrame, UnderwayNotify
  <2>3. CASE dirty' = dirty /\ torn /\ ~dirty
    BY <1>1, <2>3, NotifyFrame
  <2>4. CASE pc'[t] = "check"
    BY <2>4 DEF Underway
  <2> QED BY <1>1, <2>1, <2>2, <2>3, <2>4, NotifyFrame
<1>2. CASE Encode
  <2>1. f \in Fields \ unsaid /\ cache[f] # dev[f] /\ active # {} /\ pc[Httpd] = "encode"
    BY <1>2 DEF Encode, Changed
  <2>2. Underway \/ (torn /\ ~dirty)
    BY <2>1, EncodedFresh
  <2> QED BY <1>2, <2>2, UnderwayServe DEF Encode
<1>3. CASE PushStart \/ GetState \/ Clean \/ Done
  BY <1>3 DEF PushStart, GetState, Fresh, Clean, Done
<1>4. ASSUME NEW g \in Fields, BuildField(g) \/ FullField(g) PROVE FALSE
  BY <1>4 DEF BuildField, FullField
<1>5. ASSUME NEW failed \in SUBSET active, Send(failed) PROVE FALSE
  BY <1>5 DEF Send
<1>6. ASSUME NEW c \in Clients, Register(c) PROVE FALSE
  BY <1>6 DEF Register
<1>7. CASE FullSent \/ Replied
  BY <1>7 DEF FullSent, Replied
<1>8. ASSUME NEW t \in Task, NEW g \in Fields, Mutate(t, g) PROVE Underway'
  BY <1>8 DEF Mutate, Underway
<1>9. ASSUME NEW g \in Fields, Drift(g) PROVE Underway' \/ (torn' /\ ~dirty')
  BY <1>9 DEF Drift, SendInv, Underway
<1>10. CASE UNCHANGED vars
  BY <1>10 DEF vars, SendInv, Underway
<1> QED BY <1>1, <1>2, <1>3, <1>4, <1>5, <1>6, <1>7, <1>8, <1>9, <1>10, Steps

LEMMA ViewStep ==
    /\ TypeOK /\ JobInv /\ CacheInv /\ BaseInv /\ SendInv /\ ViewInv
    /\ [Next]_vars
    => ViewInv'
<1> DEFINE Excuse(c, f) ==
      \/ Underway
      \/ torn /\ ~dirty
      \/ job = "push" /\ pc[Httpd] \in {"build", "encode"}
      \/ pc[Httpd] = "send" /\ f \in frame
<1> SUFFICES ASSUME TypeOK, JobInv, CacheInv, BaseInv, SendInv, ViewInv, [Next]_vars,
                    NEW c \in active', NEW f \in Fields \ (gap'[c] \cup unsaid'),
                    Told(c, f)', view'[c][f] # dev'[f]
             PROVE  Excuse(c, f)'
  BY DEF ViewInv
<1> USE DEF TypeOK, Snapshot, JobInv, At, Goto, Task, Ctrl, Httpd, Timer
<1>1. ASSUME NEW t \in Task, Notify(t) PROVE Excuse(c, f)'
  <2>0. unsaid' = unsaid \/ Excuse(c, f)'
    <3>1. unsaid' = unsaid \/ Underway'
      BY <1>1, NotifyUnsaid
    <3> QED BY <3>1
  <2> SUFFICES ASSUME unsaid' = unsaid PROVE Excuse(c, f)'
    BY <2>0
  <2>1. Excuse(c, f)
    <3>1. c \in active /\ f \in Fields \ (gap[c] \cup unsaid) /\ view[c][f] # dev[f]
      BY <1>1, NotifyFrame
    <3>2. Told(c, f)
      BY <1>1, <3>1, NotifyFrame DEF Told, Serving
    <3> QED BY <3>1, <3>2 DEF ViewInv
  <2>2. CASE Underway
    BY <1>1, <2>2, NotifyFrame, UnderwayNotify
  <2>3. CASE torn /\ ~dirty
    <3>1. dirty' = dirty \/ Underway'
      BY <1>1, NotifyFrame DEF Underway
    <3> QED BY <1>1, <2>3, <3>1, NotifyFrame
  <2>4. CASE job = "push" /\ pc[Httpd] \in {"build", "encode"}
    BY <1>1, <2>4, NotifyFrame DEF Serving
  <2>5. CASE pc[Httpd] = "send" /\ f \in frame
    BY <1>1, <2>5, NotifyFrame DEF Serving
  <2> QED BY <2>1, <2>2, <2>3, <2>4, <2>5
<1>2. CASE PushStart
  <2>1. torn /\ ~dirty => torn' /\ ~dirty'
    BY <1>2 DEF PushStart
  <2>2. job' = "push" /\ pc'[Httpd] \in {"build", "encode"}
    BY <1>2 DEF PushStart, Fresh
  <2> QED BY <2>2
<1>3. CASE GetState
  <2>1. Excuse(c, f) /\ pc[Httpd] = "idle"
    BY <1>3 DEF GetState, Fresh, ViewInv, Told
  <2>2. CASE Underway
    BY <1>3, <2>2, UnderwayServe, <2>1 DEF GetState, Fresh
  <2> QED BY <1>3, <2>1, <2>2 DEF GetState
<1>4. CASE Clean
  <2>1. (Underway \/ job = "push") /\ pc[Httpd] = "build"
    BY <1>4 DEF Clean, ViewInv, Told
  <2>2. CASE Underway
    BY <1>4, <2>1, <2>2, UnderwayServe DEF Clean
  <2> QED BY <1>4, <2>1, <2>2 DEF Clean
<1>5. CASE Encode
  <2>1. hasBase => view[c][f] = base[f]
    BY <1>5 DEF Encode, BaseInv, Told
  <2>2. CASE f \in Changed
    BY <1>5, <2>2 DEF Encode
  <2>3. CASE f \notin Changed
    <3>1. cache[f] # dev[f] /\ f \notin unsaid
      BY <1>5, <2>1, <2>3 DEF Encode, Changed
    <3>2. Underway \/ (torn /\ ~dirty)
      BY <1>5, <3>1, EncodedFresh DEF Encode
    <3> QED BY <1>5, <3>2, UnderwayServe DEF Encode
  <2> QED BY <2>2, <2>3
<1>6. ASSUME NEW failed \in SUBSET active, Send(failed) PROVE Excuse(c, f)'
  <2>1. c \in Clients /\ c \in active /\ pc[Httpd] = "send"
    BY <1>6 DEF Send
  <2>2. view'[c][f] = IF f \in frame THEN base[f] ELSE view[c][f]
    BY <1>6, <2>1 DEF Send
  <2>3. f \in frame \/ f \notin gap[c]
    BY <1>6, <2>1 DEF Send
  <2>4. Underway \/ (torn /\ ~dirty)
    BY <1>6, <2>1, <2>2, <2>3 DEF SendInv, ViewInv, Told, Send
  <2> QED BY <1>6, <2>4, UnderwayServe DEF Send
<1>7. CASE Done
  <2>1. Underway \/ (torn /\ ~dirty)
    BY <1>7 DEF Done, ViewInv, Told
  <2> QED BY <1>7, <2>1, UnderwayServe DEF Done
<1>8. ASSUME NEW g \in Fields, BuildField(g) PROVE Excuse(c, f)'
  BY <1>8 DEF BuildField, ViewInv, Told, Underway
<1>9. ASSUME NEW d \in Clients, Register(d) PROVE Excuse(c, f)'
  <2>1. c # d /\ Told(c, f)
    BY <1>9 DEF Register, Told
  <2>2. Underway \/ (torn /\ ~dirty)
    BY <1>9, <2>1 DEF Register, ViewInv, Told
  <2> QED BY <1>9, <2>2, UnderwayServe DEF Register
<1>10. ASSUME NEW g \in Fields, FullField(g) PROVE Excuse(c, f)'
  <2>1. ~(c = who /\ f = g)
    BY <1>10 DEF FullField
  <2>2. Told(c, f) /\ f \notin gap[c] /\ view[c][f] # dev[f]
    BY <1>10, <2>1 DEF FullField, Told
  <2> QED BY <1>10, <2>2 DEF FullField, ViewInv, Underway
<1>11. CASE FullSent \/ Replied
  <2>1. Underway \/ (torn /\ ~dirty)
    BY <1>11 DEF FullSent, Replied, ViewInv, Told
  <2> QED BY <1>11, <2>1, UnderwayServe DEF FullSent, Replied
<1>12. ASSUME NEW t \in Task, NEW g \in Fields, Mutate(t, g) PROVE Excuse(c, f)'
  BY <1>12 DEF Mutate, Underway
<1>13. ASSUME NEW g \in Fields, Drift(g) PROVE Excuse(c, f)'
  BY <1>13 DEF Drift, ViewInv, Underway, Told
<1>14. CASE UNCHANGED vars
  BY <1>14 DEF vars, ViewInv, Underway, Told
<1> QED BY <1>1, <1>2, <1>3, <1>4, <1>5, <1>6, <1>7, <1>8, <1>9, <1>10, <1>11, <1>12, <1>13, <1>14, Steps

-----------------------------------------------------------------------------
LEMMA PushInvariant == Spec => [](TypeOK /\ PushInv)
<1>1. Init => TypeOK /\ PushInv
  BY TypeInit DEF Init, PushInv, JobInv, PendingJustified, CacheInv, BaseInv, SendInv, ViewInv,
                  Httpd, Task
<1>2. TypeOK /\ PushInv /\ [Next]_vars => TypeOK' /\ PushInv'
  BY TypeStep, JobStep, PendingStep, CacheStep, BaseStep, SendStep, ViewStep DEF PushInv
<1> QED BY <1>1, <1>2, PTL DEF Spec

\* The push-pending flag never sticks, however the notifiers race on it.
THEOREM PendingIsJustified == Spec => []PendingJustified
<1>1. PushInv => PendingJustified
  BY DEF PushInv
<1> QED BY <1>1, PushInvariant, PTL

\* With nothing under way, a client is out of date only through a dropped
\* notification, a torn rebuild, a registration over a difference or a change
\* that no task announced.
THEOREM ClientsAreCurrent == Spec => []Current
<1>1. TypeOK /\ PushInv => Current
  BY DEF TypeOK, PushInv, JobInv, CacheInv, ViewInv, Current, Quiescent, Told, Underway, Task, Httpd
<1> QED BY <1>1, PushInvariant, PTL
=============================================================================
