----------------------------- MODULE Connection -----------------------------
(***************************************************************************)
(* connection.c: the station's state machine.  Events of the WiFi driver,  *)
(* of DHCP and of SmartConfig are handled in order on the event loop's     *)
(* task; two timers and the button run on the esp_timer task.  Both change *)
(* the same variables without a lock.  A callback of the esp_timer task is *)
(* split where a handler may step in; a handler is one step, and events    *)
(* may wait in the queue while it blocks in flash or in the driver.        *)
(*                                                                         *)
(* The driver is external: it joins or fails, loses the link, and reports  *)
(* by events.  A timer that is started again starts over.                  *)
(***************************************************************************)
EXTENDS Naturals, Sequences

CONSTANTS
    Cred,       \* WiFi credentials
    None,       \* no credentials
    MaxVerify,  \* MAX_WIFI_RETRY_VERIFY
    Warmup,     \* WIFI_WARMUP_ATTEMPTS
    MaxAuth,    \* MAX_AUTH_FAIL_WIPE
    MaxEvents   \* how many events may wait before the driver reports more

ASSUME ConnectionAssumption ==
    /\ None \notin Cred
    /\ MaxVerify \in Nat /\ Warmup \in Nat
    /\ MaxAuth \in Nat \ {0} /\ MaxEvents \in Nat \ {0}

VARIABLES
    state, retry, authFails, ackSent, retryPending,   \* s_state ... s_retry_pending
    scTimer, rescueTimer,   \* whether each timer runs
    stale,      \* s_last_progress_us is WIFI_STUCK_TIMEOUT_US ago
    creds,      \* the credentials in NVS
    cfg,        \* the driver's configuration
    link,       \* the driver: "idle", "joining", "joined" (no address yet), "online"
    sc,         \* SmartConfig: "off", "listening", "found" (credentials reported)
    events,     \* the event loop's queue
    pc,         \* where the esp_timer task is
    rejected,   \* history: authentications rejected since the last address
    skewed      \* history: an association or an address was reported while
                \* provisioning, or the driver restarted during a verification

machine == <<state, retry, authFails, ackSent, retryPending>>
timers  == <<scTimer, rescueTimer>>
driver  == <<cfg, link, sc>>
history == <<rejected, skewed>>
vars == <<machine, timers, stale, creds, driver, events, pc, history>>

Event ==
    [kind : {"start", "joined", "address", "ack"}]
        \cup [kind : {"left"}, reason : {"auth", "other"}]
        \cup [kind : {"creds"}, cred : Cred]

Cap(n, m) == IF n > m THEN m ELSE n

\* esp_wifi_connect: a driver that is joining or has joined ignores it.
Connecting(l) == IF l = "idle" THEN "joining" ELSE l

-----------------------------------------------------------------------------
(* The event handlers.                                                     *)

Takes(kind) ==
    /\ events # <<>> /\ Head(events).kind = kind
    /\ events' = Tail(events)
    /\ UNCHANGED pc

Reset == retry' = 0 /\ ackSent' = FALSE /\ retryPending' = FALSE

OnStaStart ==
    /\ Takes("start")
    /\ IF state = "saved"
       THEN /\ retryPending' = TRUE /\ scTimer' = TRUE
            /\ UNCHANGED <<state, retry, ackSent, rescueTimer, sc>>
       ELSE /\ Reset /\ state' = "listen"
            /\ scTimer' = FALSE /\ sc' = "listening"
            /\ rescueTimer' = (rescueTimer \/ creds # None)
    /\ UNCHANGED <<authFails, stale, creds, cfg, link, history>>

OnStaConnected ==
    /\ Takes("joined")
    /\ scTimer' = FALSE /\ stale' = FALSE
    /\ skewed' = (skewed \/ state = "listen")
    /\ UNCHANGED <<machine, rescueTimer, creds, driver, rejected>>

\* Mutant: the count starts over only at an address.
Wiped_KeepsCount ==
    /\ Takes("left") /\ Head(events).reason = "auth" /\ authFails + 1 >= MaxAuth
    /\ authFails' = authFails + 1 /\ creds' = None
    /\ Reset /\ state' = "listen"
    /\ sc' = "off" /\ scTimer' = TRUE
    /\ rejected' = Cap(rejected + 1, MaxAuth)
    /\ UNCHANGED <<rescueTimer, stale, cfg, link, skewed>>

\* Mutant: the credentials go, the retries go on.
Wiped_NoRestart ==
    /\ Takes("left") /\ Head(events).reason = "auth" /\ authFails + 1 >= MaxAuth
    /\ authFails' = 0 /\ creds' = None
    /\ retryPending' = TRUE /\ scTimer' = TRUE
    /\ rejected' = Cap(rejected + 1, MaxAuth)
    /\ UNCHANGED <<state, retry, ackSent, sc, rescueTimer, stale, cfg, link, skewed>>

\* The rejection that declares the credentials bad, and sc_restart.
Wiped ==
    /\ Takes("left") /\ Head(events).reason = "auth" /\ authFails + 1 >= MaxAuth
    /\ authFails' = 0 /\ creds' = None
    /\ Reset /\ state' = "listen"
    /\ sc' = "off" /\ scTimer' = TRUE
    /\ rejected' = Cap(rejected + 1, MaxAuth)
    /\ UNCHANGED <<rescueTimer, stale, cfg, link, skewed>>

\* The rejection that only counts, or any other loss of the link.
Left ==
    LET auth == Head(events).reason = "auth"
    IN  /\ Takes("left") /\ ~(auth /\ authFails + 1 >= MaxAuth)
        /\ authFails' = IF auth THEN authFails + 1 ELSE authFails
        /\ rejected' = IF auth THEN Cap(rejected + 1, MaxAuth) ELSE rejected

VerifyRetry ==
    /\ Left /\ state = "verify" /\ retry < MaxVerify
    /\ retry' = retry + 1 /\ retryPending' = TRUE /\ scTimer' = TRUE
    /\ UNCHANGED <<state, ackSent, rescueTimer, stale, creds, driver, skewed>>

\* Mutant: the rescue timer is not armed.
VerifyFails_NoRescue ==
    /\ Left /\ state = "verify" /\ retry >= MaxVerify
    /\ state' = "listen" /\ retry' = 0 /\ retryPending' = FALSE
    /\ sc' = "off" /\ scTimer' = FALSE
    /\ UNCHANGED <<ackSent, rescueTimer, stale, creds, cfg, link, skewed>>

VerifyFails ==
    /\ Left /\ state = "verify" /\ retry >= MaxVerify
    /\ state' = "listen" /\ retry' = 0 /\ retryPending' = FALSE
    /\ sc' = "off" /\ scTimer' = FALSE /\ rescueTimer' = TRUE
    /\ UNCHANGED <<ackSent, stale, creds, cfg, link, skewed>>

\* The first Warmup attempts follow at once, the others after the backoff.
SavedRetry ==
    /\ Left /\ state \in {"saved", "connected"}
    /\ state' = "saved"
    /\ retry' = Cap(retry + 1, MaxVerify + Warmup + 1)
    /\ retryPending' = (retry + 1 > Warmup)
    /\ link' = IF retry + 1 > Warmup THEN link ELSE Connecting(link)
    /\ scTimer' = TRUE
    /\ UNCHANGED <<ackSent, rescueTimer, stale, creds, cfg, sc, skewed>>

LeftListening ==
    /\ Left /\ state = "listen"
    /\ UNCHANGED <<state, retry, ackSent, retryPending, timers, stale, creds, driver, skewed>>

\* Mutant: the count of rejections survives an address.
OnGotIp_KeepsAuthFails ==
    /\ Takes("address")
    /\ retry' = 0 /\ retryPending' = FALSE /\ rejected' = 0
    /\ stale' = FALSE /\ rescueTimer' = FALSE
    /\ state' = "connected"
    /\ creds' = IF state = "verify" THEN cfg ELSE creds
    /\ sc' = IF state = "verify" /\ ackSent THEN "off" ELSE sc
    /\ scTimer' = (state = "verify" /\ ~ackSent)
    /\ skewed' = (skewed \/ state = "listen")
    /\ UNCHANGED <<authFails, ackSent, cfg, link>>

OnGotIp ==
    /\ Takes("address")
    /\ retry' = 0 /\ retryPending' = FALSE /\ authFails' = 0 /\ rejected' = 0
    /\ stale' = FALSE /\ rescueTimer' = FALSE
    /\ state' = "connected"
    /\ creds' = IF state = "verify" THEN cfg ELSE creds
    /\ sc' = IF state = "verify" /\ ackSent THEN "off" ELSE sc
    /\ scTimer' = (state = "verify" /\ ~ackSent)
    /\ skewed' = (skewed \/ state = "listen")
    /\ UNCHANGED <<ackSent, cfg, link>>

OnCreds ==
    /\ Takes("creds")
    /\ IF state \in {"verify", "connected"}
       THEN UNCHANGED <<state, retry, stale, cfg, link, timers>>
       ELSE /\ state' = "verify" /\ retry' = 0 /\ stale' = FALSE
            /\ cfg' = Head(events).cred /\ link' = Connecting(link)
            /\ scTimer' = TRUE /\ rescueTimer' = FALSE
    /\ UNCHANGED <<authFails, ackSent, retryPending, creds, sc, history>>

OnAck ==
    /\ Takes("ack")
    /\ ackSent' = TRUE
    /\ IF state = "connected" THEN scTimer' = FALSE /\ sc' = "off" ELSE UNCHANGED <<scTimer, sc>>
    /\ UNCHANGED <<state, retry, authFails, retryPending, rescueTimer, stale, creds, cfg, link,
                   history>>

-----------------------------------------------------------------------------
(* The esp_timer task.  Each step names where the callback goes on.        *)

From(here, there) == pc = here /\ pc' = there

\* sc_timer_cb reads the state.  The shortest delay is the 50 ms of SC_SETTLE_US:
\* the timer may expire while an event is still queued.
ScTimer ==
    /\ scTimer /\ scTimer' = FALSE
    /\ \/ /\ state \in {"verify", "saved"} /\ stale
          /\ From("idle", "restart") /\ UNCHANGED <<retryPending, sc>>
       \/ /\ state \in {"verify", "saved"} /\ ~stale /\ retryPending
          /\ From("idle", "connect") /\ retryPending' = FALSE /\ UNCHANGED sc
       \/ /\ state \in {"verify", "saved"} /\ ~stale /\ ~retryPending
          /\ From("idle", "drop") /\ UNCHANGED <<retryPending, sc>>
       \/ /\ state = "connected"
          /\ From("idle", "idle") /\ sc' = IF ackSent THEN sc ELSE "off"
          /\ UNCHANGED retryPending
       \/ /\ state = "listen"
          /\ From("idle", "listen") /\ UNCHANGED <<retryPending, sc>>
    /\ UNCHANGED <<state, retry, authFails, ackSent, rescueTimer, stale, creds, cfg, link, events,
                   history>>

Connect ==
    /\ From("connect", "arm")
    /\ link' = Connecting(link)
    /\ UNCHANGED <<machine, timers, stale, creds, cfg, sc, events, history>>

Arm ==
    /\ From("arm", "idle")
    /\ scTimer' = TRUE
    /\ UNCHANGED <<machine, rescueTimer, stale, creds, driver, events, history>>

\* esp_wifi_disconnect reports a loss if there was something to lose.
Disconnect ==
    /\ link' = "idle"
    /\ events' = IF link = "idle" THEN events
                 ELSE Append(events, [kind |-> "left", reason |-> "other"])

Drop ==
    /\ From("drop", "idle")
    /\ Disconnect
    /\ UNCHANGED <<machine, timers, stale, creds, cfg, sc, history>>

\* wifi_driver_restart
Restart ==
    /\ From("restart", "idle")
    /\ state' = IF state = "verify" THEN "saved" ELSE state
    /\ skewed' = (skewed \/ state = "verify")
    /\ link' = "idle"
    /\ LET lost == IF link \in {"joined", "online"}
                   THEN <<[kind |-> "left", reason |-> "other"]>> ELSE <<>>
       IN  events' = events \o lost \o <<[kind |-> "start"]>>
    /\ UNCHANGED <<retry, authFails, ackSent, retryPending, timers, stale, creds, cfg, sc, rejected>>

\* sc_start, up to the probe of the saved credentials.
ScStart ==
    /\ From("listen", "probe")
    /\ Reset /\ state' = "listen"
    /\ scTimer' = FALSE /\ sc' = "listening"
    /\ UNCHANGED <<authFails, rescueTimer, stale, creds, cfg, link, events, history>>

Probe ==
    /\ From("probe", "idle")
    /\ rescueTimer' = (rescueTimer \/ creds # None)
    /\ UNCHANGED <<machine, scTimer, stale, creds, driver, events, history>>

\* rescue_timer_cb reads the state.
Rescue ==
    /\ rescueTimer /\ rescueTimer' = FALSE /\ events = <<>>
    /\ From("idle", IF state = "listen" THEN "rescue" ELSE "idle")
    /\ UNCHANGED <<machine, scTimer, stale, creds, driver, events, history>>

\* saved_reconnect
SavedReconnect ==
    \/ /\ creds = None
       /\ From("rescue", "listen")
       /\ UNCHANGED <<machine, timers, stale, creds, driver, events, history>>
    \/ /\ creds # None
       /\ From("rescue", "arm")
       /\ sc' = "off" /\ scTimer' = FALSE
       /\ state' = "saved" /\ retry' = 0
       /\ cfg' = creds /\ link' = Connecting(link)
       /\ UNCHANGED <<authFails, ackSent, retryPending, rescueTimer, stale, creds, events, history>>

\* A long press of the button: wifi_reconnect.
Button ==
    /\ From("idle", "forget")
    /\ UNCHANGED <<machine, timers, stale, creds, driver, events, history>>

Forget ==
    /\ From("forget", "leave")
    /\ creds' = None
    /\ UNCHANGED <<machine, timers, stale, driver, events, history>>

Leave ==
    /\ From("leave", "listen")
    /\ state' = "listen" /\ retry' = 0 /\ rescueTimer' = FALSE
    /\ Disconnect
    /\ UNCHANGED <<authFails, ackSent, retryPending, scTimer, stale, creds, cfg, sc, history>>

-----------------------------------------------------------------------------
(* The driver, the access point, the app and time.                         *)

Reports(e) ==
    /\ Len(events) < MaxEvents
    /\ events' = Append(events, e)
    /\ UNCHANGED <<machine, timers, stale, creds, cfg, pc, history>>

Joins ==
    /\ link = "joining" /\ link' = "joined"
    /\ Reports([kind |-> "joined"]) /\ UNCHANGED sc

Fails(reason) ==
    /\ link = "joining" /\ link' = "idle"
    /\ Reports([kind |-> "left", reason |-> reason]) /\ UNCHANGED sc

GetsAddress ==
    /\ link = "joined" /\ link' = "online"
    /\ Reports([kind |-> "address"]) /\ UNCHANGED sc

Loses ==
    /\ link \in {"joined", "online"} /\ link' = "idle"
    /\ Reports([kind |-> "left", reason |-> "other"]) /\ UNCHANGED sc

Finds(c) ==
    /\ sc = "listening" /\ sc' = "found"
    /\ Reports([kind |-> "creds", cred |-> c]) /\ UNCHANGED link

Acknowledges ==
    /\ sc = "found" /\ link = "online" /\ ~ackSent
    /\ [kind |-> "ack"] \notin {events[i] : i \in DOMAIN events}
    /\ Reports([kind |-> "ack"]) /\ UNCHANGED <<sc, link>>

\* No progress for WIFI_STUCK_TIMEOUT_US.  The attempts of a verification, and
\* the first ones with saved credentials, take less, unless the link waits for
\* an address.
Stale ==
    /\ ~stale /\ stale' = TRUE
    /\ events = <<>>
    /\ \/ link \in {"joined", "online"}
       \/ state = "listen"
       \/ state = "saved" /\ retry > Warmup
    /\ UNCHANGED <<machine, timers, creds, driver, events, pc, history>>

-----------------------------------------------------------------------------
Init ==
    /\ creds \in Cred \cup {None} /\ cfg = creds
    /\ state = IF creds = None THEN "listen" ELSE "saved"
    /\ retry = 0 /\ authFails = 0 /\ ackSent = FALSE /\ retryPending = FALSE
    /\ scTimer = FALSE /\ rescueTimer = FALSE /\ stale = FALSE
    /\ link = "idle" /\ sc = "off" /\ events = <<[kind |-> "start"]>>
    /\ pc = "idle" /\ rejected = 0 /\ skewed = FALSE

Handle ==
    \/ OnStaStart \/ OnStaConnected \/ OnGotIp \/ OnCreds \/ OnAck
    \/ Wiped \/ VerifyRetry \/ VerifyFails \/ SavedRetry \/ LeftListening

Callback ==
    \/ Connect \/ Arm \/ Drop \/ Restart \/ ScStart \/ Probe
    \/ SavedReconnect \/ Forget \/ Leave

World ==
    \/ Joins \/ GetsAddress \/ Loses \/ Acknowledges \/ Stale \/ Button
    \/ \E reason \in {"auth", "other"} : Fails(reason)
    \/ \E c \in Cred : Finds(c)

Next == Handle \/ Callback \/ ScTimer \/ Rescue \/ World

\* Events are handled, callbacks run to their end and timers expire; a join
\* that is tried again and again succeeds, and so does a wait for an address.
Fairness ==
    /\ WF_vars(Handle) /\ WF_vars(Callback)
    /\ SF_vars(ScTimer) /\ SF_vars(Rescue)
    /\ SF_vars(Joins) /\ SF_vars(GetsAddress)

Spec == Init /\ [][Next]_vars /\ Fairness

-----------------------------------------------------------------------------
(* Properties.                                                             *)

\* Every variable has its type (connection.c:94-124).
TypeOK ==
    /\ state \in {"listen", "verify", "saved", "connected"}
    /\ retry \in 0..(MaxVerify + Warmup + 1)
    /\ authFails \in 0..(MaxAuth - 1) /\ rejected \in 0..MaxAuth
    /\ \A b \in {ackSent, retryPending, scTimer, rescueTimer, stale, skewed} : b \in BOOLEAN
    /\ creds \in Cred \cup {None} /\ cfg \in Cred \cup {None}
    /\ link \in {"idle", "joining", "joined", "online"}
    /\ sc \in {"off", "listening", "found"}
    /\ events \in Seq(Event)
    /\ pc \in {"idle", "connect", "arm", "drop", "restart", "listen", "probe", "rescue",
               "forget", "leave"}

\* Something is under way that the machine will react to.
Busy == events # <<>> \/ pc # "idle" \/ scTimer \/ link \in {"joining", "joined"}

\* The machine never waits for nothing: while it is not online a timer runs, an
\* event is due, SmartConfig listens, or the link waits for an address
\* (connection.c:19-22, 82-86, 381-485).
NeverStuck ==
    /\ state \in {"saved", "verify"} => Busy
    /\ state = "listen" /\ ~skewed => Busy \/ rescueTimer \/ sc = "listening"
    /\ state = "connected" => Busy \/ link = "online"

\* Events of these kinds wait, and none of kind k waits without one of K after it.
Has(s, K) == \E i \in 1..Len(s) : s[i].kind \in K
Followed(s, k, K) ==
    \A i \in 1..Len(s) : s[i].kind = k => \E j \in (i + 1)..Len(s) : s[j].kind \in K

\* What is reported of the link is true, or a later report says otherwise.
LinkInv ==
    /\ link = "joined" \/ Followed(events, "joined", {"address", "left"})
    /\ link = "online" \/ Followed(events, "address", {"left"})

\* NeverStuck made inductive: not every event and not every step of a callback
\* moves every state on.
StuckInv ==
    /\ state = "connected" => link # "idle" \/ Has(events, {"left", "start"})
    /\ state \in {"saved", "verify"} /\ link = "idle" =>
         \/ scTimer /\ retryPending
         \/ pc \in {"connect", "restart"} \/ Has(events, {"left", "start"})
    /\ state \in {"saved", "verify"} /\ link = "online" =>
         \/ scTimer \/ pc \in {"connect", "arm", "drop", "restart"}
         \/ Has(events, {"address", "left", "start"})
    /\ state = "listen" /\ ~skewed =>
         \/ scTimer \/ rescueTimer \/ sc = "listening" \/ pc \in {"listen", "rescue"}
         \/ Has(events, {"creds", "start"})

\* Credentials are erased by a long press, or after MaxAuth rejections since
\* the device was last online; "found" credentials replace them only when the
\* device got an address with them (connection.c:14-18, 412-425, 505-515).
CredsKept ==
    [][creds' # creds =>
          \/ creds' = None /\ (pc = "forget" \/ rejected' = MaxAuth)
          \/ creds' = cfg /\ state = "verify"]_vars

\* Outside SmartConfig the device only uses credentials that are in NVS, but
\* for the two races `skewed' names (connection.c:271-278, 505-517, 691-699).
UsesSaved == ~skewed /\ pc = "idle" /\ state \in {"saved", "connected"} => creds # None

\* "a transient failure can never strand the device in provisioning mode"
\* (connection.c:19-22).
Unstranded == (state = "listen" /\ creds # None) ~> (state # "listen" \/ creds = None)

\* What Unstranded rests on: a device that provisions though it has credentials
\* has the rescue timer running, or a callback on its way to start it or to act
\* on it; no event that is handled in between takes this away.
RescueDue ==
    state = "listen" /\ creds # None => rescueTimer \/ pc \in {"listen", "probe", "rescue"}

\* "A full esp_wifi_stop()/start() cycle recovers it without a chip reboot"
\* (connection.c:82-87).
Recovers == state = "saved" ~> state # "saved"
=============================================================================
