-------------------------- MODULE ConnectionProofs --------------------------
(***************************************************************************)
(* Theorems about Connection, for any credentials, any bounds on retries   *)
(* and any length of the event queue: when credentials may be erased or    *)
(* replaced, that the device uses only those it has saved, and that the    *)
(* machine never waits for nothing.                                        *)
(***************************************************************************)
EXTENDS Connection, SequenceTheorems, TLAPS

-----------------------------------------------------------------------------
(* Types.                                                                  *)

\* The count of rejections is what the history counts, as far as the wipe goes,
\* and a verification has credentials to verify.
Inv ==
    /\ TypeOK
    /\ authFails <= rejected
    /\ state = "verify" => cfg # None

LEMMA HandledTypes ==
    ASSUME TypeOK, NEW kind, Takes(kind)
    PROVE  /\ events' \in Seq(Event) /\ pc' = pc
           /\ Head(events) \in Event /\ Head(events).kind = kind
BY DEF TypeOK, Takes

LEMMA Losses ==
    ASSUME Inv, Left
    PROVE  /\ events' \in Seq(Event) /\ pc' = pc
           /\ authFails' \in 0..(MaxAuth - 1) /\ rejected' \in 0..MaxAuth
           /\ authFails' <= rejected'
<1>1. events' \in Seq(Event) /\ pc' = pc
  BY HandledTypes DEF Left, Inv
<1>2. authFails \in 0..(MaxAuth - 1) /\ rejected \in 0..MaxAuth /\ authFails <= rejected
  BY DEF Inv, TypeOK
<1>3. CASE Head(events).reason = "auth"
  BY <1>1, <1>2, <1>3, ConnectionAssumption DEF Left, Cap
<1>4. CASE Head(events).reason # "auth"
  BY <1>1, <1>2, <1>4 DEF Left
<1> QED BY <1>3, <1>4

LEMMA Appended ==
    ASSUME TypeOK, NEW e \in Event
    PROVE  Append(events, e) \in Seq(Event)
BY DEF TypeOK

LEMMA DisconnectTypes ==
    ASSUME TypeOK, Disconnect
    PROVE  link' = "idle" /\ events' \in Seq(Event)
BY Appended DEF Disconnect, Event, TypeOK

LEMMA InvInit == Init => Inv
<1> SUFFICES ASSUME Init
             PROVE  Inv
  OBVIOUS
<1>1. events \in Seq(Event)
  BY DEF Init, Event
<1>2. 0 \in 0..(MaxVerify + Warmup + 1) /\ 0 \in 0..(MaxAuth - 1) /\ 0 \in 0..MaxAuth
  BY ConnectionAssumption
<1>3. state \in {"listen", "saved"}
  BY DEF Init
<1>4. \A b \in {ackSent, retryPending, scTimer, rescueTimer, stale, skewed} : b \in BOOLEAN
  BY DEF Init
<1> QED BY <1>1, <1>2, <1>3, <1>4 DEF Init, Inv, TypeOK

LEMMA HandleInv == Inv /\ Handle => Inv'
<1> SUFFICES ASSUME Inv, Handle
             PROVE  Inv'
  OBVIOUS
<1> USE DEF Inv, TypeOK
<1>0. 0 \in 0..(MaxVerify + Warmup + 1) /\ 0 \in 0..(MaxAuth - 1) /\ 0 \in 0..MaxAuth
  BY ConnectionAssumption
<1>1. CASE OnStaStart
  BY <1>0, <1>1, HandledTypes DEF OnStaStart, Reset, history
<1>2. CASE OnStaConnected
  BY <1>2, HandledTypes DEF OnStaConnected, machine, driver
<1>3. CASE Wiped
  <2>1. rejected' \in 0..MaxAuth
    BY <1>3, ConnectionAssumption DEF Wiped, Cap
  <2>2. \A b \in {ackSent', retryPending', scTimer', rescueTimer', stale', skewed'} : b \in BOOLEAN
    BY <1>3 DEF Wiped, Reset
  <2> QED BY <1>0, <1>3, <2>1, <2>2, HandledTypes DEF Wiped, Reset
<1>4. CASE VerifyRetry
  <2>1. retry' \in 0..(MaxVerify + Warmup + 1)
    BY <1>4, ConnectionAssumption DEF VerifyRetry
  <2> QED BY <1>4, <2>1, Losses DEF VerifyRetry, driver
<1>5. CASE VerifyFails
  BY <1>0, <1>5, Losses DEF VerifyFails
<1>6. CASE SavedRetry
  <2>1. retry' \in 0..(MaxVerify + Warmup + 1)
    BY <1>6, ConnectionAssumption DEF SavedRetry, Cap
  <2>2. link' \in {"idle", "joining", "joined", "online"} /\ retryPending' \in BOOLEAN
    BY <1>6 DEF SavedRetry, Connecting
  <2> QED BY <1>6, <2>1, <2>2, Losses DEF SavedRetry
<1>7. CASE LeftListening
  BY <1>7, Losses DEF LeftListening, timers, driver
<1>8. CASE OnGotIp
  <2>1. \A b \in {ackSent', retryPending', scTimer', rescueTimer', stale', skewed'} : b \in BOOLEAN
    BY <1>8 DEF OnGotIp
  <2> QED BY <1>0, <1>8, <2>1, HandledTypes DEF OnGotIp
<1>9. CASE OnCreds
  <2>1. Head(events) \in Event /\ Head(events).kind = "creds" /\ events' \in Seq(Event)
    BY <1>9, HandledTypes DEF OnCreds
  <2>2. Head(events).cred \in Cred
    BY <2>1 DEF Event
  <2>3. link' \in {"idle", "joining", "joined", "online"}
    BY <1>9 DEF OnCreds, Connecting
  <2> QED BY <1>0, <1>9, <2>1, <2>2, <2>3, HandledTypes, ConnectionAssumption
          DEF OnCreds, timers, history
<1>10. CASE OnAck
  BY <1>10, HandledTypes DEF OnAck, history
<1> QED BY <1>1, <1>2, <1>3, <1>4, <1>5, <1>6, <1>7, <1>8, <1>9, <1>10 DEF Handle

LEMMA CallbackInv == Inv /\ (Callback \/ ScTimer \/ Rescue) => Inv'
<1> SUFFICES ASSUME Inv, Callback \/ ScTimer \/ Rescue
             PROVE  Inv'
  OBVIOUS
<1> USE DEF Inv, TypeOK, From, machine, timers, driver, history
<1>0. 0 \in 0..(MaxVerify + Warmup + 1)
  BY ConnectionAssumption
<1>1. CASE ScTimer
  BY <1>1 DEF ScTimer
<1>2. CASE Rescue
  BY <1>2 DEF Rescue
<1>3. CASE Connect
  BY <1>3 DEF Connect, Connecting
<1>4. CASE Arm
  BY <1>4 DEF Arm
<1>5. CASE Drop
  BY <1>5, DisconnectTypes DEF Drop
<1>6. CASE Restart
  <2>1. events' \in Seq(Event)
    <3>1. [kind |-> "left", reason |-> "other"] \in Event /\ [kind |-> "start"] \in Event
      BY DEF Event
    <3> DEFINE lost == IF link \in {"joined", "online"}
                       THEN <<[kind |-> "left", reason |-> "other"]>> ELSE <<>>
    <3>2. lost \in Seq(Event) /\ <<[kind |-> "start"]>> \in Seq(Event)
      BY <3>1
    <3>3. events' = events \o lost \o <<[kind |-> "start"]>>
      BY <1>6 DEF Restart
    <3> HIDE DEF lost
    <3>4. events \o lost \in Seq(Event)
      BY <3>2
    <3> QED BY <3>2, <3>3, <3>4
  <2>2. state' \in {"listen", "verify", "saved", "connected"} /\ state' # "verify"
    BY <1>6 DEF Restart
  <2>3. skewed' \in BOOLEAN
    BY <1>6 DEF Restart
  <2> QED BY <1>6, <2>1, <2>2, <2>3 DEF Restart
<1>7. CASE ScStart
  BY <1>0, <1>7 DEF ScStart, Reset
<1>8. CASE Probe
  BY <1>8 DEF Probe
<1>9. CASE SavedReconnect
  BY <1>0, <1>9 DEF SavedReconnect, Connecting
<1>10. CASE Forget
  BY <1>10 DEF Forget
<1>11. CASE Leave
  BY <1>0, <1>11, DisconnectTypes DEF Leave
<1> QED BY <1>1, <1>2, <1>3, <1>4, <1>5, <1>6, <1>7, <1>8, <1>9, <1>10, <1>11 DEF Callback

LEMMA WorldInv == Inv /\ World => Inv'
<1> SUFFICES ASSUME Inv, World
             PROVE  Inv'
  OBVIOUS
<1> USE DEF Inv, TypeOK, machine, timers, driver, history
<1>1. ASSUME NEW e \in Event, Reports(e), UNCHANGED sc \/ sc' = "found",
             link' \in {"idle", "joining", "joined", "online"}
      PROVE  Inv'
  BY <1>1, Appended DEF Reports
<1>2. /\ [kind |-> "joined"] \in Event /\ [kind |-> "address"] \in Event /\ [kind |-> "ack"] \in Event
      /\ \A r \in {"auth", "other"} : [kind |-> "left", reason |-> r] \in Event
      /\ \A c \in Cred : [kind |-> "creds", cred |-> c] \in Event
  BY DEF Event
<1>3. CASE Joins \/ GetsAddress \/ Loses \/ Acknowledges
  BY <1>1, <1>2, <1>3 DEF Joins, GetsAddress, Loses, Acknowledges
<1>4. ASSUME NEW r \in {"auth", "other"}, Fails(r)
      PROVE  Inv'
  BY <1>1, <1>2, <1>4 DEF Fails
<1>5. ASSUME NEW c \in Cred, Finds(c)
      PROVE  Inv'
  BY <1>1, <1>2, <1>5 DEF Finds
<1>6. CASE Stale
  BY <1>6 DEF Stale
<1>7. CASE Button
  BY <1>7 DEF Button, From
<1> QED BY <1>3, <1>4, <1>5, <1>6, <1>7 DEF World

LEMMA Invariant == Spec => []Inv
<1>1. Inv /\ UNCHANGED vars => Inv'
  BY DEF Inv, TypeOK, vars, machine, timers, driver, history
<1> QED BY <1>1, InvInit, HandleInv, CallbackInv, WorldInv, PTL DEF Spec, Next

\* Every variable has its type, and the count of rejections never passes the
\* bound that wipes the credentials (connection.c:94-124, 412-425).
THEOREM TypeCorrect == Spec => []TypeOK
BY Invariant, PTL DEF Inv

-----------------------------------------------------------------------------
(* Credentials.                                                            *)

\* Credentials are erased by a long press or after MaxAuth rejections since the
\* device was last online, and replaced only by those it got an address with
\* (connection.c:412-425, 505-515).
THEOREM CredentialsKept == Spec => CredsKept
<1> DEFINE Kept == creds' # creds => \/ creds' = None /\ (pc = "forget" \/ rejected' = MaxAuth)
                                     \/ creds' = cfg /\ state = "verify"
<1>1. Inv /\ Handle => Kept
  <2> SUFFICES ASSUME Inv, Handle
               PROVE  Kept
    OBVIOUS
  <2>1. CASE Wiped
    <3>1. rejected' = MaxAuth
      BY <2>1, ConnectionAssumption DEF Wiped, Cap, Inv, TypeOK
    <3> QED BY <2>1, <3>1 DEF Wiped
  <2>2. CASE OnGotIp
    BY <2>2 DEF OnGotIp
  <2>3. UNCHANGED creds \/ Wiped \/ OnGotIp
    BY DEF Handle, OnStaStart, OnStaConnected, OnCreds, OnAck, VerifyRetry, VerifyFails,
           SavedRetry, LeftListening
  <2> QED BY <2>1, <2>2, <2>3
<1>2. Callback \/ ScTimer \/ Rescue => Kept
  BY DEF Callback, ScTimer, Rescue, Connect, Arm, Drop, Restart, ScStart, Probe, SavedReconnect,
         Forget, Leave, From
<1>3. World => UNCHANGED creds
  BY DEF World, Joins, GetsAddress, Loses, Acknowledges, Fails, Finds, Reports, Stale, Button
<1>4. Inv /\ [Next]_vars => [Kept]_vars
  BY <1>1, <1>2, <1>3 DEF Next
<1> QED BY <1>4, Invariant, PTL DEF Spec, CredsKept

\* Between the two halves of a long press the machine has no credentials and
\* does not know it.
UsesInv == ~skewed /\ state \in {"saved", "connected"} => creds # None \/ pc = "leave"

LEMMA UsesStep == Inv /\ UsesInv /\ [Next]_vars => UsesInv'
<1> SUFFICES ASSUME Inv, UsesInv, [Next]_vars
             PROVE  UsesInv'
  OBVIOUS
<1> USE DEF UsesInv, machine, driver, history, timers
<1>1. CASE OnGotIp
  BY <1>1 DEF OnGotIp, Takes, Inv, TypeOK
<1>2. CASE Handle /\ ~OnGotIp
  <2>1. pc' = pc /\ (skewed => skewed')
    <3>1. pc' = pc
      <4>1. \E kind \in {"start", "joined", "left", "address", "creds", "ack"} : Takes(kind)
        BY <1>2 DEF Handle, OnStaStart, OnStaConnected, Wiped, Left, VerifyRetry, VerifyFails,
                    SavedRetry, LeftListening, OnCreds, OnAck
      <4> QED BY <4>1 DEF Takes
    <3>2. skewed' = skewed \/ skewed' = (skewed \/ state = "listen")
      BY <1>2 DEF Handle, OnStaStart, OnStaConnected, Wiped, VerifyRetry, VerifyFails,
                  SavedRetry, LeftListening, OnCreds, OnAck
    <3>3. skewed => skewed'
      <4>1. CASE skewed' = skewed
        BY <4>1
      <4>2. CASE skewed' = (skewed \/ state = "listen")
        BY <4>2
      <4> QED BY <3>2, <4>1, <4>2
    <3> QED BY <3>1, <3>3
  <2>2. CASE Wiped
    BY <2>2 DEF Wiped, Reset
  <2>3. CASE Handle /\ ~OnGotIp /\ ~Wiped
    <3>1. UNCHANGED creds
      BY <2>3 DEF Handle, OnStaStart, OnStaConnected, VerifyRetry, VerifyFails, SavedRetry,
                  LeftListening, OnCreds, OnAck
    <3>2. state' \in {"saved", "connected"} => state \in {"saved", "connected"}
      BY <2>3 DEF Handle, OnStaStart, Reset, OnStaConnected, VerifyRetry, VerifyFails, SavedRetry,
                  LeftListening, OnCreds, OnAck
    <3> QED BY <2>1, <3>1, <3>2
  <2> QED BY <1>2, <2>2, <2>3
<1>3. CASE Callback
  BY <1>3 DEF Callback, Connect, Arm, Drop, Restart, ScStart, Probe, SavedReconnect, Forget, Leave,
              From
<1>4. CASE ScTimer \/ Rescue
  BY <1>4 DEF ScTimer, Rescue, From
<1>5. CASE World
  BY <1>5 DEF World, Joins, GetsAddress, Loses, Acknowledges, Fails, Finds, Reports, Stale, Button,
              From
<1>6. CASE UNCHANGED vars
  BY <1>6 DEF vars
<1> QED BY <1>1, <1>2, <1>3, <1>4, <1>5, <1>6 DEF Next

\* Outside SmartConfig the device only uses credentials that are in NVS, but for
\* the two races named by skewed (connection.c:271-278, 505-517, 691-699).
THEOREM SavedAreUsed == Spec => []UsesSaved
<1>1. Init => UsesInv
  BY DEF Init, UsesInv
<1>2. UsesInv => UsesSaved
  BY DEF UsesInv, UsesSaved
<1> QED BY <1>1, <1>2, UsesStep, Invariant, PTL DEF Spec

-----------------------------------------------------------------------------
(* The queue.                                                              *)

LEMMA TailHas ==
    ASSUME NEW s \in Seq(Event), s # <<>>, NEW K, Has(s, K), Head(s).kind \notin K
    PROVE  Has(Tail(s), K)
<1>1. PICK i \in 1..Len(s) : s[i].kind \in K
  BY DEF Has
<1>2. i # 1 /\ Len(Tail(s)) = Len(s) - 1 /\ \A j \in 1..(Len(s) - 1) : Tail(s)[j] = s[j + 1]
  BY <1>1
<1>3. i - 1 \in 1..Len(Tail(s)) /\ Tail(s)[i - 1] = s[i]
  BY <1>1, <1>2
<1> QED BY <1>1, <1>3 DEF Has

LEMMA AppendHas ==
    ASSUME NEW s \in Seq(Event), NEW e, NEW K, Has(s, K) \/ e.kind \in K
    PROVE  Has(Append(s, e), K)
<1>1. /\ Len(Append(s, e)) = Len(s) + 1 /\ Append(s, e)[Len(s) + 1] = e
      /\ \A i \in 1..Len(s) : Append(s, e)[i] = s[i]
  OBVIOUS
<1> QED BY <1>1 DEF Has

LEMMA TailFollowed ==
    ASSUME NEW s \in Seq(Event), s # <<>>, NEW k, NEW K, Followed(s, k, K)
    PROVE  /\ Followed(Tail(s), k, K)
           /\ Head(s).kind = k => Has(Tail(s), K)
<1>1. Len(Tail(s)) = Len(s) - 1 /\ \A j \in 1..(Len(s) - 1) : Tail(s)[j] = s[j + 1]
  OBVIOUS
<1>2. Head(s) = s[1] /\ Len(s) \in Nat \ {0}
  OBVIOUS
<1>3. ASSUME NEW i \in 1..Len(s), s[i].kind = k
      PROVE  \E j \in i..Len(Tail(s)) : Tail(s)[j].kind \in K
  <2>1. PICK j \in (i + 1)..Len(s) : s[j].kind \in K
    BY <1>3 DEF Followed
  <2>2. j - 1 \in i..Len(Tail(s)) /\ Tail(s)[j - 1] = s[j]
    BY <1>1, <2>1
  <2> QED BY <2>1, <2>2
<1>4. ASSUME NEW i \in 1..Len(Tail(s)), Tail(s)[i].kind = k
      PROVE  \E j \in (i + 1)..Len(Tail(s)) : Tail(s)[j].kind \in K
  BY <1>1, <1>2, <1>3, <1>4
<1>5. Head(s).kind = k => Has(Tail(s), K)
  BY <1>2, <1>3 DEF Has
<1> QED BY <1>4, <1>5 DEF Followed

LEMMA AppendFollowed ==
    ASSUME NEW s \in Seq(Event), NEW e, NEW k, NEW K,
           e.kind # k, Followed(s, k, K) \/ e.kind \in K
    PROVE  Followed(Append(s, e), k, K)
<1>1. /\ Len(Append(s, e)) = Len(s) + 1 /\ Append(s, e)[Len(s) + 1] = e
      /\ \A i \in 1..Len(s) : Append(s, e)[i] = s[i]
  OBVIOUS
<1> SUFFICES ASSUME NEW i \in 1..(Len(s) + 1), Append(s, e)[i].kind = k
             PROVE  \E j \in (i + 1)..(Len(s) + 1) : Append(s, e)[j].kind \in K
  BY <1>1 DEF Followed
<1>2. i \in 1..Len(s) /\ s[i].kind = k
  BY <1>1
<1>3. CASE e.kind \in K
  BY <1>1, <1>2, <1>3
<1>4. CASE Followed(s, k, K)
  <2>1. PICK j \in (i + 1)..Len(s) : s[j].kind \in K
    BY <1>2, <1>4 DEF Followed
  <2> QED BY <1>1, <1>2, <2>1
<1> QED BY <1>3, <1>4

\* What an empty queue has not.
LEMMA HasEvents ==
    ASSUME NEW K, Has(events, K)
    PROVE  events # <<>>
BY DEF Has

\* A handler takes an event that is not of K, or uses what follows it.
LEMMA TakesQueue ==
    ASSUME TypeOK, NEW kind, Takes(kind)
    PROVE  /\ \A K : kind \notin K /\ Has(events, K) => Has(events', K)
           /\ \A k, K : Followed(events, k, K) => Followed(events', k, K)
           /\ \A K : Followed(events, kind, K) => Has(events', K)
BY TailHas, TailFollowed DEF Takes, TypeOK

\* An event that is reported adds to what the queue has.
LEMMA ReportQueue ==
    ASSUME TypeOK, NEW e, events' = Append(events, e)
    PROVE  /\ \A K : Has(events, K) \/ e.kind \in K => Has(events', K)
           /\ \A k, K : e.kind # k /\ (Followed(events, k, K) \/ e.kind \in K)
                          => Followed(events', k, K)
BY AppendHas, AppendFollowed DEF TypeOK

LEMMA DisconnectQueue ==
    ASSUME TypeOK, LinkInv, Disconnect
    PROVE  /\ LinkInv'
           /\ link # "idle" => Has(events', {"left", "start"})
           /\ \A K : Has(events, K) => Has(events', K)
<1>1. CASE link = "idle"
  BY <1>1 DEF Disconnect, LinkInv
<1>2. CASE link # "idle"
  <2> DEFINE e == [kind |-> "left", reason |-> "other"]
  <2>1. events' = Append(events, e) /\ e.kind = "left"
    BY <1>2 DEF Disconnect
  <2> HIDE DEF e
  <2> QED BY <2>1, ReportQueue DEF LinkInv
<1> QED BY <1>1, <1>2

LEMMA RestartQueue ==
    ASSUME TypeOK, LinkInv, Restart
    PROVE  LinkInv' /\ Has(events', {"left", "start"})  /\ Has(events', {"creds", "start"})
           /\ Has(events', {"address", "left", "start"})
<1> DEFINE left == [kind |-> "left", reason |-> "other"]
           start == [kind |-> "start"]
           lost == IF link \in {"joined", "online"} THEN Append(events, left) ELSE events
<1>0. left \in Event /\ left.kind = "left" /\ start \in Event /\ start.kind = "start"
  BY DEF Event
<1>1. events' = Append(lost, start)
  <2>1. \A s \in Seq(Event), d, e \in Event :
            s \o <<d>> \o <<e>> = Append(Append(s, d), e) /\ s \o <<>> \o <<e>> = Append(s, e)
    OBVIOUS
  <2> QED BY <1>0, <2>1 DEF Restart, TypeOK
<1>2. lost \in Seq(Event)
  BY <1>0 DEF TypeOK
<1>3. Followed(lost, "joined", {"address", "left"}) /\ Followed(lost, "address", {"left"})
  <2>1. CASE link \in {"joined", "online"}
    <3>1. lost = Append(events, left)
      BY <2>1
    <3> HIDE DEF left, lost
    <3> QED BY <1>0, <3>1, AppendFollowed DEF TypeOK
  <2>2. CASE link \notin {"joined", "online"}
    BY <2>2 DEF LinkInv
  <2> QED BY <2>1, <2>2
<1> HIDE DEF start, lost
<1>4. LinkInv'
  BY <1>0, <1>1, <1>2, <1>3, AppendFollowed DEF LinkInv
<1> QED BY <1>0, <1>1, <1>2, <1>4, AppendHas

-----------------------------------------------------------------------------
(* Something always moves the machine on.                                  *)

LEMMA LinkStep == TypeOK /\ LinkInv /\ [Next]_vars => LinkInv'
<1> SUFFICES ASSUME TypeOK, LinkInv, [Next]_vars
             PROVE  LinkInv'
  OBVIOUS
<1>1. CASE Handle
  <2>1. \E kind \in {"start", "joined", "left", "address", "creds", "ack"} : Takes(kind)
    BY <1>1 DEF Handle, OnStaStart, OnStaConnected, Wiped, Left, VerifyRetry, VerifyFails,
                SavedRetry, LeftListening, OnGotIp, OnCreds, OnAck
  <2>2. link' = link \/ link' = Connecting(link)
    BY <1>1 DEF Handle, OnStaStart, OnStaConnected, Wiped, Left, VerifyRetry, VerifyFails,
                SavedRetry, LeftListening, OnGotIp, OnCreds, OnAck, driver
  <2>3. link \in {"joined", "online"} => link' = link
    BY <2>2 DEF Connecting
  <2> QED BY <2>1, <2>3, TakesQueue DEF LinkInv
<1>2. CASE Drop \/ Leave
  BY <1>2, DisconnectQueue DEF Drop, Leave
<1>3. CASE Restart
  BY <1>3, RestartQueue
<1>4. CASE (Callback /\ ~(Drop \/ Leave \/ Restart)) \/ ScTimer \/ Rescue \/ Stale \/ Button
  <2>1. events' = events /\ (link' = link \/ link' = Connecting(link))
    BY <1>4 DEF Callback, Connect, Arm, ScStart, Probe, SavedReconnect, Forget, ScTimer, Rescue,
                Stale, Button, driver
  <2> QED BY <2>1 DEF LinkInv, Connecting
<1>5. CASE Joins
  <2> DEFINE e == [kind |-> "joined"]
  <2>1. events' = Append(events, e) /\ e.kind = "joined" /\ link = "joining" /\ link' = "joined"
    BY <1>5 DEF Joins, Reports
  <2> HIDE DEF e
  <2> QED BY <2>1, ReportQueue DEF LinkInv
<1>6. CASE GetsAddress
  <2> DEFINE e == [kind |-> "address"]
  <2>1. events' = Append(events, e) /\ e.kind = "address" /\ link' = "online"
    BY <1>6 DEF GetsAddress, Reports
  <2> HIDE DEF e
  <2> QED BY <2>1, ReportQueue DEF LinkInv
<1>7. ASSUME NEW e, events' = Append(events, e), e.kind = "left"
      PROVE  LinkInv'
  BY <1>7, ReportQueue DEF LinkInv
<1>8. CASE Loses \/ \E reason \in {"auth", "other"} : Fails(reason)
  BY <1>7, <1>8 DEF Loses, Fails, Reports
<1>9. ASSUME NEW e, events' = Append(events, e), e.kind \in {"creds", "ack"}, link' = link
      PROVE  LinkInv'
  BY <1>9, ReportQueue DEF LinkInv
<1>10. CASE Acknowledges \/ \E c \in Cred : Finds(c)
  BY <1>9, <1>10 DEF Acknowledges, Finds, Reports
<1>11. CASE UNCHANGED vars
  BY <1>11 DEF vars, driver, LinkInv
<1> QED BY <1>1, <1>2, <1>3, <1>4, <1>5, <1>6, <1>8, <1>10, <1>11 DEF Next, World

LEMMA StuckHandle == TypeOK /\ LinkInv /\ StuckInv /\ Handle => StuckInv'
<1> SUFFICES ASSUME TypeOK, LinkInv, StuckInv, Handle
             PROVE  StuckInv'
  OBVIOUS
<1> USE TakesQueue DEF StuckInv
<1>1. CASE OnStaStart
  BY <1>1 DEF OnStaStart, Reset, history, Takes
<1>2. CASE OnStaConnected
  <2>1. link = "joined" \/ Has(events', {"address", "left"})
    BY <1>2 DEF OnStaConnected, LinkInv
  <2>2. link = "online" => Has(events', {"address", "left", "start"})
    BY <2>1 DEF Has
  <2>3. link = "idle" => Has(events', {"left", "start"})
    <3>1. SUFFICES ASSUME link = "idle" PROVE Has(events', {"left"})
      BY DEF Has
    <3>2. PICK i \in 1..Len(events') : events'[i].kind \in {"address", "left"}
      BY <2>1, <3>1 DEF Has
    <3>3. Followed(events', "address", {"left"})
      BY <1>2, <3>1 DEF OnStaConnected, LinkInv
    <3>4. Len(events') \in Nat
      BY <1>2 DEF OnStaConnected, Takes, TypeOK
    <3> QED BY <3>2, <3>3, <3>4 DEF Followed, Has
  <2> QED BY <1>2, <2>2, <2>3 DEF OnStaConnected, machine, driver, Takes
<1>3. CASE Wiped
  BY <1>3 DEF Wiped, Reset
<1>4. CASE VerifyRetry
  BY <1>4 DEF VerifyRetry, Left, driver
<1>5. CASE VerifyFails
  BY <1>5 DEF VerifyFails
<1>6. CASE SavedRetry
  BY <1>6 DEF SavedRetry, Connecting, TypeOK
<1>7. CASE LeftListening
  BY <1>7 DEF LeftListening, Left, timers, driver, Takes
<1>8. CASE OnGotIp
  <2>1. link = "online" \/ Has(events', {"left"})
    BY <1>8 DEF OnGotIp, LinkInv
  <2> QED BY <1>8, <2>1 DEF OnGotIp, Has
<1>9. CASE OnCreds
  BY <1>9 DEF OnCreds, Connecting, timers, history, Takes, TypeOK
<1>10. CASE OnAck
  BY <1>10 DEF OnAck, history, Takes
<1> QED BY <1>1, <1>2, <1>3, <1>4, <1>5, <1>6, <1>7, <1>8, <1>9, <1>10 DEF Handle

LEMMA StuckCallback ==
    TypeOK /\ LinkInv /\ StuckInv /\ (Callback \/ ScTimer \/ Rescue) => StuckInv'
<1> SUFFICES ASSUME TypeOK, LinkInv, StuckInv, Callback \/ ScTimer \/ Rescue
             PROVE  StuckInv'
  OBVIOUS
<1> USE DEF StuckInv, From, machine, timers, driver, history
<1>1. CASE ScTimer
  BY <1>1 DEF ScTimer
<1>2. CASE Rescue
  BY <1>2 DEF Rescue
<1>3. CASE Connect
  BY <1>3 DEF Connect, Connecting
<1>4. CASE Arm
  BY <1>4 DEF Arm
<1>5. CASE Drop
  BY <1>5, DisconnectQueue DEF Drop, Disconnect
<1>6. CASE Restart
  BY <1>6, RestartQueue DEF Restart
<1>7. CASE ScStart
  BY <1>7 DEF ScStart, Reset
<1>8. CASE Probe
  BY <1>8 DEF Probe
<1>9. CASE SavedReconnect
  BY <1>9 DEF SavedReconnect, Connecting
<1>10. CASE Forget
  BY <1>10 DEF Forget
<1>11. CASE Leave
  BY <1>11 DEF Leave
<1> QED BY <1>1, <1>2, <1>3, <1>4, <1>5, <1>6, <1>7, <1>8, <1>9, <1>10, <1>11 DEF Callback

LEMMA StuckWorld == TypeOK /\ LinkInv /\ StuckInv /\ World => StuckInv'
<1> SUFFICES ASSUME TypeOK, LinkInv, StuckInv, World
             PROVE  StuckInv'
  OBVIOUS
<1> USE DEF StuckInv, machine, timers, driver, history
\* A report that changes the link says so.
<1>1. ASSUME NEW e, Reports(e),
             \/ link' = link
             \/ link' = "joined"
             \/ link' = "online" /\ e.kind = "address"
             \/ link' = "idle" /\ e.kind = "left",
             sc' = sc \/ e.kind = "creds"
      PROVE  StuckInv'
  BY <1>1, ReportQueue DEF Reports
<1>2. CASE Joins \/ GetsAddress \/ Loses \/ Acknowledges
  BY <1>1, <1>2 DEF Joins, GetsAddress, Loses, Acknowledges
<1>3. CASE \E reason \in {"auth", "other"} : Fails(reason)
  BY <1>1, <1>3 DEF Fails
<1>4. CASE \E c \in Cred : Finds(c)
  BY <1>1, <1>4 DEF Finds
<1>5. CASE Stale \/ Button
  BY <1>5 DEF Stale, Button, From
<1> QED BY <1>2, <1>3, <1>4, <1>5 DEF World

\* The machine never waits for nothing: while it is not online a timer runs, an
\* event is due, SmartConfig listens, or the link waits for an address
\* (connection.c:19-22, 82-86, 381-485).
THEOREM SomethingIsDue == Spec => []NeverStuck
<1>1. Init => LinkInv /\ StuckInv
  <2> SUFFICES ASSUME Init PROVE LinkInv /\ StuckInv
    OBVIOUS
  <2>1. Len(events) = 1 /\ events[1].kind = "start"
    BY DEF Init
  <2> QED BY <2>1 DEF Init, LinkInv, StuckInv, Followed, Has
<1>2. TypeOK /\ LinkInv /\ StuckInv /\ [Next]_vars => LinkInv' /\ StuckInv'
  <2>1. StuckInv /\ UNCHANGED vars => StuckInv'
    BY DEF StuckInv, vars, machine, timers, driver, history
  <2> QED BY <2>1, LinkStep, StuckHandle, StuckCallback, StuckWorld DEF Next
<1>3. TypeOK /\ StuckInv => NeverStuck
  BY HasEvents DEF TypeOK, StuckInv, NeverStuck, Busy
<1> QED BY <1>1, <1>2, <1>3, TypeCorrect, PTL DEF Spec

-----------------------------------------------------------------------------
(* The rescue timer.                                                       *)

\* A handler that enters provisioning with credentials starts the timer; one
\* that stops it leaves provisioning.
LEMMA RescueHandle == RescueDue /\ Handle => RescueDue'
<1> SUFFICES ASSUME RescueDue, Handle
             PROVE  RescueDue'
  OBVIOUS
<1> USE DEF RescueDue, Takes
<1>1. CASE OnStaStart
  BY <1>1 DEF OnStaStart, Reset
<1>2. CASE OnStaConnected
  BY <1>2 DEF OnStaConnected, machine
<1>3. CASE OnGotIp
  BY <1>3 DEF OnGotIp
<1>4. CASE OnCreds
  BY <1>4 DEF OnCreds, timers
<1>5. CASE OnAck
  BY <1>5 DEF OnAck
<1>6. CASE Wiped
  BY <1>6 DEF Wiped
<1>7. CASE VerifyRetry
  BY <1>7 DEF VerifyRetry, Left
<1>8. CASE VerifyFails
  BY <1>8 DEF VerifyFails, Left
<1>9. CASE SavedRetry
  BY <1>9 DEF SavedRetry, Left
<1>10. CASE LeftListening
  BY <1>10 DEF LeftListening, Left, timers
<1> QED
  BY <1>1, <1>2, <1>3, <1>4, <1>5, <1>6, <1>7, <1>8, <1>9, <1>10 DEF Handle

\* A callback that provisions ends in the probe, which starts the timer; the
\* rescue acts on the credentials it still finds.
LEMMA RescueCallback == RescueDue /\ (Callback \/ ScTimer \/ Rescue) => RescueDue'
<1> SUFFICES ASSUME RescueDue, Callback \/ ScTimer \/ Rescue
             PROVE  RescueDue'
  OBVIOUS
<1> USE DEF RescueDue, From, machine, timers
<1>1. CASE Connect \/ Arm \/ Drop
  BY <1>1 DEF Connect, Arm, Drop
<1>2. CASE Restart
  BY <1>2 DEF Restart
<1>3. CASE ScStart \/ Probe
  BY <1>3 DEF ScStart, Probe
<1>4. CASE SavedReconnect
  BY <1>4 DEF SavedReconnect
<1>5. CASE Forget \/ Leave
  BY <1>5 DEF Forget, Leave
<1>6. CASE ScTimer
  BY <1>6 DEF ScTimer
<1>7. CASE Rescue
  BY <1>7 DEF Rescue
<1> QED
  BY <1>1, <1>2, <1>3, <1>4, <1>5, <1>6, <1>7 DEF Callback

\* A device that provisions though it has credentials has the rescue timer
\* running, or a callback at work that will start it or try the credentials.
THEOREM RescueIsDue == Spec => []RescueDue
<1>1. Init => RescueDue
  BY DEF Init, RescueDue
<1>2. World => UNCHANGED <<state, creds, rescueTimer>> /\ (pc' = pc \/ pc = "idle")
  BY DEF World, Joins, Fails, GetsAddress, Loses, Finds, Acknowledges, Reports, Stale, Button,
         From, machine, timers
<1>3. RescueDue /\ World => RescueDue'
  BY <1>2 DEF RescueDue
<1>4. RescueDue /\ UNCHANGED vars => RescueDue'
  BY DEF RescueDue, vars, machine, timers
<1>5. RescueDue /\ [Next]_vars => RescueDue'
  BY <1>3, <1>4, RescueHandle, RescueCallback DEF Next
<1> QED
  BY <1>1, <1>5, PTL DEF Spec
=============================================================================
