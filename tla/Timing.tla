------------------------------- MODULE Timing -------------------------------
(***************************************************************************)
(* timing.c: how the device comes to know that its clock is right, and its *)
(* timezone.  The event task starts SNTP and the health check when an      *)
(* address arrives, the TCP/IP task delivers answers, the timer task looks *)
(* every ten seconds, the control task acts on the first success of a      *)
(* boot.  They share s_ntp_synced without a lock, and starting the health  *)
(* check clears it after SNTP has been started.                            *)
(*                                                                         *)
(* SNTP itself is external: it repeats a request until it is answered, is  *)
(* then quiet for an hour (NTP_SYNC_INTERVAL_MS), and tells of an answer   *)
(* once.                                                                   *)
(***************************************************************************)
EXTENDS Clock

CONSTANTS
    MaxChecks,    \* NTP_HEALTH_MAX_CHECKS
    Zones,        \* timezones clients set
    MaxLosses     \* bound on how often the link is lost

ASSUME TimingAssumption == MaxChecks \in Nat \ {0} /\ MaxLosses \in Nat

VARIABLES
    checks,       \* s_ntp_health_count
    health,       \* the health timer runs
    starting,     \* the event task: "no", before "ntp", or before "health"
    sntp,         \* "off", "asking", or "quiet" until the next poll
    completed,    \* SNTP_SYNC_STATUS_COMPLETED is there to be read
    linked,       \* the device has an address
    zone,         \* s_tz
    zoneNvs,      \* the timezone in flash
    setting,      \* the HTTP task is between s_tz and flash
    told,         \* history: the last PUT was answered with success, or none since the boot
    losses        \* how often the link was lost

ntpVars  == <<synced, checks, health, starting, sntp, completed>>
timeVars == <<timeOk, wall, epoch>>
zoneVars == <<zone, zoneNvs, setting, told>>
bounds == <<real, losses, boots>>
timingVars == <<ntpVars, linked, timeVars, zoneVars, bounds>>

-----------------------------------------------------------------------------
(* SNTP and its health check.                                              *)

\* on_got_ip: a clock that is not synchronised has SNTP started, the first
\* time (s_ntp_done) as well as after a time without a link.
GotIp ==
    /\ ~linked /\ starting = "no"
    /\ linked' = TRUE
    /\ starting' = IF synced THEN "no" ELSE "ntp"
    /\ UNCHANGED <<synced, checks, health, sntp, completed, timeVars, zoneVars, bounds>>

\* timing_ntp_start
NtpStart ==
    /\ starting = "ntp" /\ starting' = "health"
    /\ sntp' = "asking"
    /\ UNCHANGED <<synced, checks, health, completed, linked, timeVars, zoneVars, bounds>>

\* Mutant: the timer is created and not started.
HealthStart_NoTimer ==
    /\ starting = "health" /\ starting' = "no"
    /\ checks' = 0 /\ synced' = FALSE
    /\ UNCHANGED <<health, sntp, completed, linked, timeVars, zoneVars, bounds>>

\* timing_ntp_health_start: an answer that came first is forgotten.
HealthStart ==
    /\ starting = "health" /\ starting' = "no"
    /\ checks' = 0 /\ synced' = FALSE
    /\ health' = TRUE
    /\ UNCHANGED <<sntp, completed, linked, timeVars, zoneVars, bounds>>

\* SNTP sets the clock and calls timing_ntp_sync_cb.
Answer ==
    /\ linked /\ sntp = "asking" /\ sntp' = "quiet"
    /\ wall' = real
    /\ completed' = TRUE /\ synced' = TRUE
    /\ UNCHANGED <<checks, health, starting, linked, timeOk, epoch, zoneVars, bounds>>

Poll ==
    /\ sntp = "quiet" /\ sntp' = "asking"
    /\ UNCHANGED <<synced, checks, health, starting, completed, linked, timeVars, zoneVars,
                   bounds>>

\* Mutant: the status is read for the log alone.
CheckAnswered_LogsOnly ==
    /\ health /\ ~synced /\ completed
    /\ completed' = FALSE
    /\ UNCHANGED <<synced, checks, health, starting, sntp, linked, timeVars, zoneVars, bounds>>

\* ntp_health_cb finds an answer that the flag does not show ...
CheckAnswered ==
    /\ health /\ ~synced /\ completed
    /\ completed' = FALSE /\ synced' = TRUE
    /\ UNCHANGED <<checks, health, starting, sntp, linked, timeVars, zoneVars, bounds>>

\* ... or none, and after the last check starts SNTP again.
CheckSilent ==
    /\ health /\ ~synced /\ ~completed
    /\ IF checks + 1 >= MaxChecks THEN checks' = 0 /\ sntp' = "asking"
                                  ELSE checks' = checks + 1 /\ UNCHANGED sntp
    /\ UNCHANGED <<synced, health, starting, completed, linked, timeVars, zoneVars, bounds>>

\* routines_sync on the control task, once per boot, and timing_save.
RoutinesSync ==
    /\ synced /\ ~timeOk
    /\ timeOk' = TRUE
    /\ epoch' = IF wall < Threshold THEN epoch ELSE wall
    /\ UNCHANGED <<ntpVars, linked, wall, zoneVars, bounds>>

-----------------------------------------------------------------------------
(* PUT /timezone.                                                          *)

\* timing_set_timezone, in RAM ...
SetTimezone(z) ==
    /\ ~setting /\ setting' = TRUE
    /\ zone' = z /\ told' = FALSE
    /\ UNCHANGED <<ntpVars, linked, timeVars, zoneNvs, bounds>>

\* Mutant: the answer does not depend on the write.
SaveTimezone_Ignores(ok) ==
    /\ setting /\ setting' = FALSE
    /\ zoneNvs' = IF ok THEN zone ELSE zoneNvs
    /\ told' = TRUE
    /\ UNCHANGED <<ntpVars, linked, timeVars, zone, bounds>>

\* ... and in flash, which may fail: the client is told, s_tz stays.
SaveTimezone(ok) ==
    /\ setting /\ setting' = FALSE
    /\ zoneNvs' = IF ok THEN zone ELSE zoneNvs
    /\ told' = ok
    /\ UNCHANGED <<ntpVars, linked, timeVars, zone, bounds>>

-----------------------------------------------------------------------------
(* The link, time, and power.                                              *)

LoseLink ==
    /\ linked /\ losses < MaxLosses
    /\ linked' = FALSE /\ losses' = losses + 1
    /\ UNCHANGED <<ntpVars, timeVars, zoneVars, real, boots>>

Pass ==
    /\ real < MaxReal
    /\ real' = real + 1 /\ wall' = wall + 1
    /\ UNCHANGED <<ntpVars, linked, timeOk, epoch, zoneVars, losses, boots>>

\* What RAM holds after a restart; the clock starts from w.
Boot(w) ==
    /\ synced' = FALSE /\ checks' = 0 /\ health' = FALSE
    /\ starting' = "no" /\ sntp' = "off" /\ completed' = FALSE
    /\ linked' = FALSE /\ timeOk' = FALSE
    /\ wall' = w

\* Mutant: a saved epoch passes for a synchronisation.
Reboot_Trusts ==
    /\ boots < MaxBoots /\ boots' = boots + 1
    /\ synced' = (epoch # 0) /\ checks' = 0 /\ health' = FALSE
    /\ starting' = "no" /\ sntp' = "off" /\ completed' = FALSE
    /\ linked' = FALSE /\ timeOk' = FALSE
    /\ wall' = epoch
    /\ zone' = zoneNvs /\ setting' = FALSE /\ told' = TRUE
    /\ UNCHANGED <<epoch, zoneNvs, real, losses>>

\* Power is cut, and timing_init seeds the clock with the saved epoch.
Reboot ==
    /\ boots < MaxBoots /\ boots' = boots + 1
    /\ Boot(IF epoch < Threshold THEN 0 ELSE epoch)
    /\ zone' = zoneNvs /\ setting' = FALSE /\ told' = TRUE
    /\ UNCHANGED <<epoch, zoneNvs, real, losses>>

TimingInit ==
    /\ synced = FALSE /\ checks = 0 /\ health = FALSE
    /\ starting = "no" /\ sntp = "off" /\ completed = FALSE
    /\ linked = FALSE /\ timeOk = FALSE
    /\ wall = 0 /\ epoch = 0
    /\ zone \in Zones /\ zoneNvs = zone /\ setting = FALSE /\ told = TRUE
    /\ real = Start /\ losses = 0 /\ boots = 0

Health == CheckAnswered \/ CheckSilent

TimingNext ==
    \/ GotIp \/ NtpStart \/ HealthStart \/ Answer \/ Poll \/ Health \/ RoutinesSync
    \/ \E z \in Zones : SetTimezone(z)
    \/ \E ok \in BOOLEAN : SaveTimezone(ok)
    \/ LoseLink \/ Pass \/ Reboot

\* The tasks run, the health timer is periodic, the link comes back and the
\* server answers.  Another poll within the hour is not promised.
TimingFairness ==
    /\ WF_timingVars(GotIp) /\ WF_timingVars(NtpStart) /\ WF_timingVars(HealthStart)
    /\ WF_timingVars(Answer) /\ WF_timingVars(Health) /\ WF_timingVars(RoutinesSync)

TimingSpec == TimingInit /\ [][TimingNext]_timingVars /\ TimingFairness

-----------------------------------------------------------------------------
(* Properties.                                                             *)

\* Every variable has its type (timing.c:38-42).
TimingTypeOK ==
    /\ synced \in BOOLEAN /\ health \in BOOLEAN /\ completed \in BOOLEAN
    /\ checks \in 0..(MaxChecks - 1)
    /\ starting \in {"no", "ntp", "health"}
    /\ sntp \in {"off", "asking", "quiet"}
    /\ linked \in BOOLEAN /\ timeOk \in BOOLEAN
    /\ wall \in 0..real /\ epoch \in 0..real
    /\ zone \in Zones /\ zoneNvs \in Zones /\ setting \in BOOLEAN /\ told \in BOOLEAN
    /\ real \in Start..MaxReal /\ losses \in 0..MaxLosses /\ boots \in 0..MaxBoots

\* A device that waits for its clock waits for something: though starting the
\* health check forgets an answer that came first (timing.c:139-141), SNTP asks,
\* or an answer is there for the next check.
NotForgotten == health /\ starting = "no" /\ ~synced => completed \/ sntp = "asking"

\* ClockRight made inductive: whatever says that SNTP answered in this boot says
\* so of a clock that is right.
RightInv == synced \/ completed \/ timeOk => wall = real

\* NotForgotten made inductive: between starting SNTP and starting the health
\* check, an answer is there twice.
AskedInv ==
    /\ NotForgotten
    /\ starting = "health" => sntp = "asking" \/ (synced /\ completed)

\* What an address is worth: as long as the device has one and no right clock,
\* SNTP is being started or its health check runs.
Watched == linked /\ ~synced => starting # "no" \/ health

\* Routines become active for good, and time is reported as valid
\* (timing.c:51-74, routines.c:575-576), on a link that in the end stays.
Activates == <>[](timeOk /\ synced)

\* A client that was told its timezone is set keeps it across a power cut;
\* a write that failed was reported (timing.c:176-187, nvs_store.c:17).
ZoneKept == [][boots' # boots /\ told => zone' = zone]_timingVars

\* What ZoneKept rests on: flash holds what a client was told.
ToldInv == told => zoneNvs = zone
=============================================================================
