------------------------- MODULE ArbitrationProofs -------------------------
(***************************************************************************)
(* Proofs about Arbitration: its types, the durability of what handlers    *)
(* leave to the control task, and that the admission rules implement       *)
(* Ownership, for every set of slots and number of restarts.               *)
(***************************************************************************)
EXTENDS Arbitration, TLAPS

\* What a request may do to the slot table.
LEMMA SlotsTyped ==
    ASSUME TypeOK, NEW i \in Slots, NEW r \in Routine
    PROVE  [slots EXCEPT ![i] = r] \in [Slots -> Routine]
BY DEF TypeOK

LEMMA SetEnabledTyped ==
    ASSUME NEW r \in Routine, NEW en \in BOOLEAN
    PROVE  /\ SetEnabled(r, en) \in Routine
           /\ Enabled(SetEnabled(r, en)) <=> en
BY DEF SetEnabled, Routine, Circulates, Enabled

\* Every edit of the table is one of three, and enables something only while
\* the auto-off is not armed.
LEMMA EditShape ==
    ASSUME TypeOK, NEW i \in Slots,
           \/ \E r \in {"sched", "circ"} : PostRoutine(i, r)
           \/ \E en \in BOOLEAN : PutRoutine(i, en)
           \/ DeleteRoutine(i)
    PROVE  \E r \in Routine : /\ Edit([slots EXCEPT ![i] = r])
                              /\ armed => ~Enabled(r)
<1>1. CASE \E r \in {"sched", "circ"} : PostRoutine(i, r)
  <2>1. PICK r \in {"sched", "circ"} : PostRoutine(i, r)
    BY <1>1
  <2>2. r \in Routine
    BY DEF Routine, Circulates
  <2> QED
    BY <2>1, <2>2 DEF PostRoutine
<1>2. CASE \E en \in BOOLEAN : PutRoutine(i, en)
  <2>1. PICK en \in BOOLEAN : PutRoutine(i, en)
    BY <1>2
  <2>2. slots[i] \in Routine
    BY DEF TypeOK
  <2>3. /\ SetEnabled(slots[i], en) \in Routine
        /\ Enabled(SetEnabled(slots[i], en)) <=> en
    BY <2>2, SetEnabledTyped
  <2> QED
    BY <2>1, <2>3 DEF PutRoutine
<1>3. CASE DeleteRoutine(i)
  <2>1. "free" \in Routine /\ ~Enabled("free")
    BY DEF Routine, Enabled
  <2> QED
    BY <1>3, <2>1 DEF DeleteRoutine
<1> QED
  BY <1>1, <1>2, <1>3

-----------------------------------------------------------------------------
LEMMA TypeStep == TypeOK /\ [Next]_vars => TypeOK'
<1> SUFFICES ASSUME TypeOK, [Next]_vars PROVE TypeOK'
  OBVIOUS
<1> USE DEF TypeOK
<1>1. CASE ArmAutoOff
  BY <1>1 DEF ArmAutoOff, Edited, cdVars, slotVars, clockVars
<1>2. CASE ClearAutoOff
  BY <1>2 DEF ClearAutoOff, Edited, cdVars, slotVars, clockVars
<1>3. CASE PostTimer
  BY <1>3 DEF PostTimer, Edited, aoVars, slotVars, clockVars
<1>4. CASE DeleteTimer
  BY <1>4 DEF DeleteTimer, Edited, aoVars, slotVars, clockVars
<1>5. CASE FactoryReset
  <2>1. AllFree \in [Slots -> Routine]
    BY DEF AllFree, Routine
  <2> QED
    BY <1>5, <2>1 DEF FactoryReset
<1>6. ASSUME NEW i \in Slots, NEW r \in Routine, Edit([slots EXCEPT ![i] = r])
      PROVE  TypeOK'
  BY <1>6, SlotsTyped DEF Edit, Edited, aoVars, cdVars, clockVars
<1>7. CASE ControlLoop
  <2>1. PICK expired, toggled \in SUBSET Slots : FireDue(expired, toggled)
    BY <1>7 DEF ControlLoop
  <2>2. slots' \in [Slots -> Routine]
    BY <2>1 DEF FireDue, Routine
  <2>3. nvsSlots' \in [Slots -> Routine] /\ dirty' \in BOOLEAN
    BY <2>1, <2>2 DEF FireDue
  <2>4. /\ cd' \in {"none", "running", "due"}
        /\ nvsCd' \in BOOLEAN /\ cdSave' \in BOOLEAN /\ cdErase' \in BOOLEAN
    BY <1>7 DEF ControlLoop, CountdownTick, cdVars
  <2> QED
    BY <1>7, <2>2, <2>3, <2>4 DEF ControlLoop, aoVars
<1>8. CASE Expire
  BY <1>8 DEF Expire, aoVars, slotVars, clockVars
<1>9. CASE Uptime
  BY <1>9 DEF Uptime, aoVars, cdVars, slotVars
<1>10. CASE Sync
  BY <1>10 DEF Sync, aoVars, slotVars
<1>11. CASE Restart
  <2>1. boots' \in 0..MaxBoots
    BY <1>11, ArbitrationAssumption DEF Restart
  <2>2. /\ cd' \in {"none", "running", "due"}
        /\ nvsCd' \in BOOLEAN
        /\ clock' \in {"unset", "uptime", "saved", "answered", "synced"}
    BY <1>11 DEF Restart
  <2> QED
    BY <1>11, <2>1, <2>2 DEF Restart
<1>12. CASE UNCHANGED vars
  BY <1>12 DEF vars, aoVars, cdVars, slotVars, clockVars
<1> QED
  BY <1>1, <1>2, <1>3, <1>4, <1>5, <1>6, <1>7, <1>8, <1>9, <1>10, <1>11, <1>12, EditShape
     DEF Next, Request

LEMMA TypeInit == Init => TypeOK
<1> SUFFICES ASSUME Init PROVE TypeOK
  OBVIOUS
<1>1. AllFree \in [Slots -> Routine]
  BY DEF AllFree, Routine
<1>2. boots \in 0..MaxBoots
  BY ArbitrationAssumption DEF Init
<1> QED
  BY <1>1, <1>2 DEF Init, TypeOK

\* The types of every variable.
THEOREM TypeCorrect == Spec => []TypeOK
<1>1. Init => TypeOK
  BY TypeInit
<1>2. TypeOK /\ [Next]_vars => TypeOK'
  BY TypeStep
<1> QED
  BY <1>1, <1>2, PTL DEF Spec
-----------------------------------------------------------------------------
LEMMA FlashStep == TypeOK /\ FlashFollows /\ [Next]_vars => FlashFollows'
<1> SUFFICES ASSUME TypeOK, FlashFollows, [Next]_vars PROVE FlashFollows'
  OBVIOUS
<1> USE DEF FlashFollows
<1>1. CASE ArmAutoOff
  BY <1>1 DEF ArmAutoOff, Edited, cdVars, slotVars, clockVars
<1>2. CASE ClearAutoOff
  BY <1>2 DEF ClearAutoOff, Edited, cdVars, slotVars, clockVars
<1>3. CASE PostTimer
  BY <1>3 DEF PostTimer, Edited, aoVars, slotVars, clockVars
<1>4. CASE DeleteTimer
  BY <1>4 DEF DeleteTimer, Edited, aoVars, slotVars, clockVars
<1>5. CASE FactoryReset
  BY <1>5 DEF FactoryReset
<1>6. ASSUME NEW i \in Slots, NEW r \in Routine, Edit([slots EXCEPT ![i] = r])
      PROVE  FlashFollows'
  BY <1>6 DEF Edit, Edited, aoVars, cdVars, clockVars
<1>7. CASE ControlLoop
  <2>1. PICK expired, toggled \in SUBSET Slots : FireDue(expired, toggled)
    BY <1>7 DEF ControlLoop
  <2>2. wiped' = "no" => nvsSlots' = slots'
    <3>1. CASE dirty \/ expired \cup toggled # {}
      BY <2>1, <3>1 DEF FireDue
    <3>2. CASE ~(dirty \/ expired \cup toggled # {})
      <4>1. slots' = slots
        BY <2>1, <3>2 DEF FireDue, TypeOK
      <4> QED
        BY <1>7, <2>1, <3>2, <4>1 DEF FireDue, ControlLoop
    <3> QED
      BY <3>1, <3>2
  <2>3. wiped' = "no" => /\ nvsCd' /\ cd' = "none" => cdErase' \/ cdSave'
                         /\ (~nvsCd' \/ cdErase') /\ cd' # "none" => cdSave'
    <3>1. CASE ClockValid /\ CountdownTick
      <4>1. CASE cdSave
        BY <3>1, <4>1 DEF CountdownTick
      <4>2. CASE ~cdSave /\ (cdErase \/ cd = "due")
        <5>1. nvsCd' = FALSE
          BY <3>1, <4>2 DEF CountdownTick
        <5>2. wiped = "no" => cd' = "none"
          BY <3>1, <4>2 DEF CountdownTick
        <5> QED
          BY <1>7, <5>1, <5>2 DEF ControlLoop
      <4>3. CASE ~cdSave /\ ~(cdErase \/ cd = "due")
        <5>1. nvsCd' = nvsCd /\ cd' = cd /\ cdErase' = FALSE
          BY <3>1, <4>3 DEF CountdownTick
        <5> QED
          BY <1>7, <4>3, <5>1 DEF ControlLoop
      <4> QED
        BY <4>1, <4>2, <4>3
    <3>2. CASE UNCHANGED cdVars
      BY <1>7, <3>2 DEF ControlLoop, cdVars
    <3> QED
      BY <1>7, <3>1, <3>2 DEF ControlLoop
  <2> QED
    BY <1>7, <2>2, <2>3 DEF ControlLoop, aoVars
<1>8. CASE Expire
  BY <1>8 DEF Expire, aoVars, slotVars, clockVars
<1>9. CASE Uptime
  BY <1>9 DEF Uptime, aoVars, cdVars, slotVars
<1>10. CASE Sync
  <2>1. cd = "none" <=> cd' = "none"
    BY <1>10 DEF Sync
  <2> QED
    BY <1>10, <2>1 DEF Sync, aoVars, slotVars
<1>11. CASE Restart
  BY <1>11 DEF Restart
<1>12. CASE UNCHANGED vars
  BY <1>12 DEF vars, aoVars, cdVars, slotVars, clockVars
<1> QED
  BY <1>1, <1>2, <1>3, <1>4, <1>5, <1>6, <1>7, <1>8, <1>9, <1>10, <1>11, <1>12, EditShape
     DEF Next, Request

\* What flash lacks or has too much is always still to be written or erased.
THEOREM FlashAlwaysFollows == Spec => []FlashFollows
<1>1. Init => FlashFollows
  BY DEF Init, FlashFollows
<1>2. TypeOK /\ FlashFollows /\ [Next]_vars => FlashFollows'
  BY FlashStep
<1> QED
  BY <1>1, <1>2, TypeCorrect, PTL DEF Spec

-----------------------------------------------------------------------------
LEMMA ArmedStep == TypeOK /\ ArmedInRam /\ [Next]_vars => ArmedInRam'
<1> SUFFICES ASSUME TypeOK, ArmedInRam, [Next]_vars PROVE ArmedInRam'
  OBVIOUS
<1> USE DEF ArmedInRam
<1>1. CASE Request
  <2>1. CASE ArmAutoOff \/ ClearAutoOff \/ PostTimer \/ DeleteTimer \/ FactoryReset
    BY <2>1 DEF ArmAutoOff, ClearAutoOff, PostTimer, DeleteTimer, FactoryReset, aoVars
  <2>2. ASSUME NEW i \in Slots, NEW r \in Routine, Edit([slots EXCEPT ![i] = r])
        PROVE  ArmedInRam'
    BY <2>2 DEF Edit, aoVars
  <2> QED
    BY <1>1, <2>1, <2>2, EditShape DEF Request
<1>2. CASE ControlLoop \/ Expire \/ Uptime \/ Sync \/ UNCHANGED vars
  BY <1>2 DEF ControlLoop, Expire, Uptime, Sync, vars, aoVars
<1>3. CASE Restart
  BY <1>3 DEF Restart
<1> QED
  BY <1>1, <1>2, <1>3 DEF Next

LEMMA OwnersSeparate ==
    /\ Owner \in Promise!Owners
    /\ armed <=> Owner \in {"autooff", "disputed"}
    /\ Timed <=> Owner \in {"timed", "disputed"}
BY DEF Owner, Promise!Owners

\* Every step of the rules is a step of the abstract specification, or none.
LEMMA Refines ==
    ASSUME TypeOK, ArmedInRam, [Next]_vars
    PROVE  [Promise!Next]_<<Owner, Limbo, boots>>
<1>1. Limbo \in BOOLEAN /\ Limbo' \in BOOLEAN
  BY DEF Limbo
<1>2. /\ Owner \in Promise!Owners /\ Owner' \in Promise!Owners
      /\ armed <=> Owner \in {"autooff", "disputed"}
      /\ Timed <=> Owner \in {"timed", "disputed"}
      /\ armed' <=> Owner' \in {"autooff", "disputed"}
      /\ Timed' <=> Owner' \in {"timed", "disputed"}
  BY DEF Owner, Promise!Owners
\* Neither armed nor timed changes.
<1>3. ASSUME armed' = armed, Timed' = Timed, UNCHANGED boots
      PROVE  Promise!Next
  <2>1. Owner' = Owner
    BY <1>3 DEF Owner
  <2> QED
    BY <1>1, <1>3, <2>1 DEF Promise!Next
\* Something timed begins while the auto-off is not armed, or ends.
<1>4. ASSUME armed' = armed, armed => (Timed' => Timed), UNCHANGED boots
      PROVE  Promise!Next
  <2>1. \/ Promise!Claim \/ Promise!Release \/ Promise!Settle \/ UNCHANGED Owner
    BY <1>4 DEF Owner, Promise!Claim, Promise!Release, Promise!Settle
  <2> QED
    BY <1>1, <1>4, <2>1 DEF Promise!Next
<1>5. CASE ArmAutoOff
  <2>1. Timed' = Timed /\ UNCHANGED boots /\ armed'
    BY <1>5 DEF ArmAutoOff, Timed, AnyEnabled, cdVars, slotVars
  <2>2. Timed => Limbo
    BY <1>5 DEF ArmAutoOff, Timed, Limbo
  <2>3. Promise!Claim \/ Promise!Dispute \/ UNCHANGED Owner
    BY <2>1, <2>2 DEF Owner, Promise!Claim, Promise!Dispute
  <2> QED
    BY <1>1, <2>1, <2>3 DEF Promise!Next
<1>6. CASE ClearAutoOff
  <2>1. Timed' = Timed /\ UNCHANGED boots /\ ~armed'
    BY <1>6 DEF ClearAutoOff, Timed, AnyEnabled, cdVars, slotVars
  <2>2. Promise!Release \/ Promise!Settle \/ UNCHANGED Owner
    BY <2>1 DEF Owner, Promise!Release, Promise!Settle
  <2> QED
    BY <1>1, <2>1, <2>2 DEF Promise!Next
<1>7. CASE PostTimer
  BY <1>4, <1>7 DEF PostTimer, aoVars
<1>8. CASE DeleteTimer
  <2>1. Timed' => Timed
    BY <1>8 DEF DeleteTimer, Timed, AnyEnabled, slotVars
  <2> QED
    BY <1>4, <1>8, <2>1 DEF DeleteTimer, aoVars
<1>9. CASE FactoryReset
  BY <1>3, <1>9 DEF FactoryReset, Timed, AnyEnabled
<1>10. ASSUME NEW i \in Slots, NEW r \in Routine, Edit([slots EXCEPT ![i] = r]),
              armed => ~Enabled(r)
       PROVE  Promise!Next
  <2>1. armed => (Timed' => Timed)
    BY <1>10 DEF Edit, Timed, AnyEnabled, cdVars, TypeOK
  <2> QED
    BY <1>4, <1>10, <2>1 DEF Edit, aoVars
<1>11. CASE ControlLoop
  <2>1. PICK expired, toggled \in SUBSET Slots : FireDue(expired, toggled)
    BY <1>11 DEF ControlLoop
  <2>2. AnyEnabled' => AnyEnabled
    BY <2>1 DEF FireDue, AnyEnabled, Enabled
  <2>3. cd' # "none" => cd # "none"
    BY <1>11 DEF ControlLoop, CountdownTick, cdVars
  <2> QED
    BY <1>4, <1>11, <2>2, <2>3 DEF ControlLoop, Timed, aoVars
<1>12. CASE Expire
  <2>1. Timed' = Timed
    BY <1>12 DEF Expire, Timed, AnyEnabled, slotVars
  <2> QED
    BY <1>3, <1>12, <2>1 DEF Expire, aoVars
<1>13. CASE Uptime
  BY <1>3, <1>13 DEF Uptime, Timed, AnyEnabled, cdVars, slotVars, aoVars
<1>14. CASE Sync
  <2>1. cd = "none" <=> cd' = "none"
    BY <1>14 DEF Sync
  <2>2. Timed' = Timed
    BY <1>14, <2>1 DEF Sync, Timed, AnyEnabled, slotVars
  <2> QED
    BY <1>3, <1>14, <2>2 DEF Sync, aoVars
<1>15. CASE Restart
  <2>1. armed' => armed
    BY <1>15 DEF Restart, ArmedInRam
  <2>2. Promise!Armed(Owner') => Promise!Armed(Owner)
    BY <1>2, <2>1 DEF Promise!Armed
  <2>3. Promise!Restart
    BY <1>2, <1>15, <2>2 DEF Restart, Promise!Restart
  <2> QED
    BY <1>1, <2>3 DEF Promise!Next
<1>16. CASE UNCHANGED vars
  BY <1>3, <1>16 DEF vars, aoVars, cdVars, slotVars, Timed, AnyEnabled
<1> QED
  BY <1>5, <1>6, <1>7, <1>8, <1>9, <1>10, <1>11, <1>12, <1>13, <1>14, <1>15, <1>16, EditShape
     DEF Next, Request

\* The admission rules implement Ownership.
THEOREM OwnershipHolds == Spec => OwnershipKept
<1>1. Init => Promise!Init
  <2> SUFFICES ASSUME Init PROVE Promise!Init
    OBVIOUS
  <2>1. Owner \in Promise!Owners /\ Limbo \in BOOLEAN
    BY OwnersSeparate DEF Limbo
  <2> QED
    BY <2>1 DEF Init, Promise!Init
<1>2. Init => ArmedInRam
  BY DEF Init, ArmedInRam
<1>3. TypeOK /\ ArmedInRam /\ [Next]_vars => ArmedInRam'
  BY ArmedStep
<1>4. TypeOK /\ ArmedInRam /\ [Next]_vars => [Promise!Next]_<<Owner, Limbo, boots>>
  BY Refines
<1> QED
  BY <1>1, <1>2, <1>3, <1>4, TypeCorrect, PTL
  DEF Spec, OwnershipKept, Promise!Spec, Promise!vars
-----------------------------------------------------------------------------
LEMMA WokenStep == MarkedAreWoken /\ [Next]_vars => MarkedAreWoken'
<1> SUFFICES ASSUME MarkedAreWoken, [Next]_vars PROVE MarkedAreWoken'
  OBVIOUS
<1> USE DEF MarkedAreWoken
<1>1. CASE Request
  BY <1>1 DEF Request, ArmAutoOff, ClearAutoOff, PostTimer, DeleteTimer, FactoryReset,
              PostRoutine, PutRoutine, DeleteRoutine, Edit, slotVars
<1>2. CASE ControlLoop
  BY <1>2 DEF ControlLoop, FireDue
<1>3. CASE Expire \/ Uptime \/ Sync \/ Restart \/ UNCHANGED vars
  BY <1>3 DEF Expire, Uptime, Sync, Restart, vars, slotVars
<1> QED
  BY <1>1, <1>2, <1>3 DEF Next

LEMMA QuietStep == TypeOK /\ MarkedAreWoken /\ QuietInv /\ [Next]_vars => QuietInv'
<1> SUFFICES ASSUME TypeOK, MarkedAreWoken, QuietInv, [Next]_vars, wiped' = "quiet"
             PROVE  /\ ~nvsArmed' /\ nvsSlots' = AllFree
                    /\ ~dirty' /\ \A i \in Slots : slots'[i] \notin Circulates
                    /\ \/ ~nvsCd' /\ ~cdSave'
                       \/ clock' = "synced" /\ ~nvsEpoch'
  BY DEF QuietInv
<1>1. CASE FactoryReset /\ ~woken
  BY <1>1 DEF FactoryReset, Quiet, MarkedAreWoken
<1>2. CASE Request /\ ~FactoryReset
  BY <1>2 DEF Request, ArmAutoOff, ClearAutoOff, PostTimer, DeleteTimer, PostRoutine,
              PutRoutine, DeleteRoutine, Edit, Edited
<1>3. CASE ControlLoop
  <2>1. PICK expired, toggled \in SUBSET Slots : FireDue(expired, toggled)
    BY <1>3 DEF ControlLoop
  <2>2. /\ ~nvsArmed /\ nvsSlots = AllFree
        /\ ~dirty /\ \A i \in Slots : slots[i] \notin Circulates
        /\ \/ ~nvsCd /\ ~cdSave
           \/ clock = "synced" /\ ~nvsEpoch
    BY <1>3 DEF ControlLoop, QuietInv
  <2>3. expired = {} /\ toggled = {}
    BY <2>1, <2>2 DEF FireDue, Circulates
  <2>4. nvsSlots' = nvsSlots /\ slots' = slots /\ ~dirty'
    BY <2>1, <2>2, <2>3 DEF FireDue, TypeOK
  <2>5. ~nvsCd /\ ~cdSave => ~nvsCd' /\ ~cdSave'
    BY <1>3 DEF ControlLoop, CountdownTick, cdVars
  <2>6. clock = "synced" /\ ~nvsEpoch => clock' = "synced" /\ ~nvsEpoch'
    BY <1>3 DEF ControlLoop
  <2>7. \/ ~nvsCd' /\ ~cdSave'
        \/ clock' = "synced" /\ ~nvsEpoch'
    BY <2>2, <2>5, <2>6
  <2> QED
    BY <1>3, <2>2, <2>4, <2>7 DEF ControlLoop, aoVars
<1>4. CASE Expire \/ Uptime \/ Sync \/ UNCHANGED vars
  BY <1>4 DEF Expire, Uptime, Sync, NtpSynced, vars, aoVars, cdVars, slotVars, clockVars, QuietInv
<1>5. CASE Restart
  BY <1>5 DEF Restart
<1> QED
  BY <1>1, <1>2, <1>3, <1>4, <1>5 DEF Next, Request

LEMMA QuietRestart == QuietInv /\ [Next]_vars =>
    (boots' # boots /\ wiped = "quiet" => Defaults')
<1> SUFFICES ASSUME QuietInv, [Next]_vars, boots' # boots, wiped = "quiet"
             PROVE  Defaults'
  OBVIOUS
<1>1. Restart
  BY DEF Next, Request, ArmAutoOff, ClearAutoOff, PostTimer, DeleteTimer, FactoryReset,
         PostRoutine, PutRoutine, DeleteRoutine, Edit, ControlLoop, Expire, Uptime, Sync, vars
<1>2. /\ ~nvsArmed /\ nvsSlots = AllFree
      /\ ~nvsCd \/ ~nvsEpoch
  BY DEF QuietInv
<1>3. cd' = "none"
  BY <1>1, <1>2 DEF Restart
<1> QED
  BY <1>1, <1>2, <1>3 DEF Restart, Defaults

\* A factory reset with no circulate in use and no countdown to save leaves a
\* device with defaults.
THEOREM QuietFactoryReset == Spec => FactoryResetWipes
<1>1. Init => MarkedAreWoken /\ QuietInv
  BY DEF Init, MarkedAreWoken, QuietInv
<1>2. TypeOK /\ MarkedAreWoken /\ QuietInv /\ [Next]_vars => MarkedAreWoken' /\ QuietInv'
  BY WokenStep, QuietStep
<1>3. QuietInv /\ [Next]_vars =>
        [boots' # boots /\ wiped = "quiet" => Defaults']_vars
  BY QuietRestart
<1> QED
  BY <1>1, <1>2, <1>3, TypeCorrect, PTL DEF Spec, FactoryResetWipes
=============================================================================
