----------------------------- MODULE FortDevice -----------------------------
(***************************************************************************)
(* The driver's control plane (fortdev.c, fort_conf_ref_set and its        *)
(* neighbours in fortcnf.c, fort_callout_force_reauth in fortcout.c,       *)
(* fortwrk.c): sessions of the clients, the configuration they set, the    *)
(* worker and the period timer, and the reauthorization that brings the    *)
(* statistics, the timers and the filters of the provider in line with the *)
(* configuration and has every connection classified again.                *)
(*                                                                         *)
(* A thread is a client's request, a work item of the worker, or a         *)
(* callback at DPC level (the app timer, or a change of the system time).  *)
(* An action is what a thread does between two points where another thread *)
(* can see or change shared state.                                         *)
(*                                                                         *)
(* One application group stands for all; its bit, its period and its       *)
(* limits are what the control plane looks at.  Bytes of a configuration,  *)
(* applications and addresses are left out: that they changed is not.      *)
(***************************************************************************)
EXTENDS Integers, FiniteSets

CONSTANTS
  Clients, Workers, Callbacks,  \* threads
  Confs,      \* [flags, periods, filter]: what a client may set
  FlagSets,   \* flags a client may set alone
  BootAtLoad, \* fort_prov_is_boot() when the driver is loaded
  CanFail,    \* the provider's transaction may fail
  Overlaps,   \* an operation may begin while another thread is in one
  MaxOps,     \* bound: operations of the clients
  None

Flags == [log_stat : BOOLEAN, log : BOOLEAN, prov_boot : BOOLEAN, group : BOOLEAN]

ASSUME DeviceAssumption ==
  /\ Confs \subseteq [flags : Flags, periods : BOOLEAN, filter : BOOLEAN]
  /\ FlagSets \subseteq Flags
  /\ {BootAtLoad, CanFail, Overlaps} \subseteq BOOLEAN
  /\ MaxOps \in Nat
  /\ Clients \cap (Workers \cup Callbacks) = {} /\ Workers \cap Callbacks = {}

Threads == Clients \cup Workers \cup Callbacks

VARIABLES
  opened, validated, prov_boot, filter_transport,  \* device_conf->flags
  conf_flags,  \* device_conf->conf_flags
  conf,        \* *device_conf->ref: [owner, flags, periods, mask], or None
  zones,       \* device_conf->zones: the client that set them, or None
  filter,      \* stat->conf_group: the group is fragmented or limited
  log_stat,    \* stat->log_stat
  log_timer, app_timer,  \* running
  prov,        \* the filters: [boot, flow], flow \in {"none", "stat", "transport"}
  inPeriod,    \* the time of day is in the group's period
  id_bits,     \* worker->id_bits
  queued,      \* the work item is queued
  pc,          \* [Threads -> place]
  closing,     \* clients whose cleanup runs
  old, seen,   \* [Threads -> Flags]: old_conf_flags, conf_flags of force_reauth
  update,      \* [Threads -> what period_update will write]
  dirty,       \* history: decisions changed since the last reauthorization
  failed,      \* history: the last reauthorization failed
  ops          \* operations of the clients so far

deviceVars == <<opened, validated>>
confVars == <<conf, conf_flags, prov_boot, zones, filter>>
timerVars == <<log_timer, app_timer>>
provVars == <<prov, filter_transport>>
workVars == <<id_bits, queued>>
localVars == <<old, seen, update>>
ghosts == <<dirty, failed, ops>>
(* What conf and update hold, if anything. *)
ConfValues == [owner : Clients, flags : Flags, periods : BOOLEAN, mask : BOOLEAN]
Updates == [current : BOOLEAN, group : BOOLEAN, n : BOOLEAN]

ASSUME NoneAssumption == None \notin Clients \cup ConfValues \cup Updates

vars == <<deviceVars, confVars, log_stat, timerVars, provVars, inPeriod, workVars, pc, closing,
          localVars, ghosts>>

Idle == {"out", "in", "idle"}
Busy == { t \in Threads : pc[t] \notin Idle }
NoFlags(boot) == [log_stat |-> FALSE, log |-> FALSE, prov_boot |-> boot, group |-> FALSE]

Go(t, place) == pc' = [pc EXCEPT ![t] = place]

(* Thread t begins an operation. *)
Begin(t, place) ==
  /\ Overlaps \/ Busy = {}
  /\ t \in Clients => ops < MaxOps
  /\ Go(t, place)
  /\ ops' = IF t \in Clients THEN ops + 1 ELSE ops

Init ==
  /\ opened = FALSE /\ validated = FALSE
  /\ prov_boot = BootAtLoad /\ filter_transport = FALSE
  /\ conf_flags = NoFlags(FALSE) /\ conf = None /\ zones = None /\ filter = FALSE
  /\ log_stat = FALSE /\ log_timer = FALSE /\ app_timer = FALSE
  /\ prov = [boot |-> BootAtLoad, flow |-> "none"]
  /\ inPeriod \in BOOLEAN
  /\ id_bits = FALSE /\ queued = FALSE
  /\ pc = [t \in Threads |-> IF t \in Clients THEN "out" ELSE "idle"]
  /\ closing = {}
  /\ old = [t \in Threads |-> NoFlags(FALSE)]
  /\ seen = old
  /\ update = [t \in Threads |-> None]
  /\ dirty = FALSE /\ failed = FALSE /\ ops = 0

-----------------------------------------------------------------------------
(* Sessions.  A second client is refused (and stays "out"). *)

(* fort_device_create; the buffer it clears is FortBuffer's. *)
Create(c) ==
  /\ pc[c] = "out" /\ ~ opened
  /\ opened' = TRUE
  /\ Go(c, "in")
  /\ UNCHANGED <<validated, confVars, log_stat, timerVars, provVars, inPeriod, workVars, closing,
                 localVars, ghosts>>

(* FORT_IOCTL_VALIDATE with the driver's version. *)
Validate(c) ==
  /\ pc[c] = "in"
  /\ validated' = TRUE
  /\ UNCHANGED <<opened, confVars, log_stat, timerVars, provVars, inPeriod, workVars, pc, closing,
                 localVars, ghosts>>

ClosedFlags == opened' = FALSE /\ validated' = FALSE

(* fort_device_cleanup, one step after another; a reauthorization follows. *)
CleanupBegin(c) ==
  /\ pc[c] = "in"
  /\ ClosedFlags
  /\ Begin(c, "clearConf")
  /\ closing' = closing \cup {c}
  /\ UNCHANGED <<confVars, log_stat, timerVars, provVars, inPeriod, workVars, localVars,
                 dirty, failed>>

(* What fort_conf_ref_set returns: the flags of the configuration it replaces. *)
OldFlags == IF conf = None THEN NoFlags(prov_boot) ELSE conf.flags

(* What a thread still has to write goes to a configuration nobody sees. *)
Replaced == [t \in Threads |->
               IF update[t] = None THEN None ELSE [update[t] EXCEPT !.current = FALSE]]

ClearedFlags == NoFlags(prov_boot)

CleanupConf(c) ==
  /\ pc[c] = "clearConf"
  /\ conf' = None
  /\ conf_flags' = ClearedFlags
  /\ old' = [old EXCEPT ![c] = OldFlags]
  /\ update' = Replaced
  /\ dirty' = TRUE
  /\ Go(c, "clearZones")
  /\ UNCHANGED <<deviceVars, prov_boot, zones, filter, log_stat, timerVars, provVars, inPeriod,
                 workVars, closing, seen, failed, ops>>

ClearedZones == None

CleanupZones(c) ==
  /\ pc[c] = "clearZones"
  /\ zones' = ClearedZones
  /\ dirty' = TRUE
  /\ Go(c, "off")
  /\ UNCHANGED <<deviceVars, conf, conf_flags, prov_boot, filter, log_stat, timerVars, provVars,
                 inPeriod, workVars, closing, localVars, failed, ops>>

-----------------------------------------------------------------------------
(* Control requests; a session that has not been validated is refused. *)
Accepted(c) == pc[c] = "in" /\ validated

(* FORT_IOCTL_SETCONF: fort_conf_ref_set and fort_stat_conf_update, whose  *)
(* critical sections are one step here; FortConfRef has those of the first.*)
SetConf(c, C) ==
  /\ Accepted(c)
  /\ old' = [old EXCEPT ![c] = OldFlags]
  /\ conf' = [owner |-> c, flags |-> C.flags, periods |-> C.periods, mask |-> C.flags.group]
  /\ conf_flags' = C.flags
  /\ prov_boot' = C.flags.prov_boot
  /\ filter' = C.filter
  /\ update' = Replaced
  /\ dirty' = TRUE
  /\ Begin(c, "off")
  /\ UNCHANGED <<deviceVars, zones, log_stat, timerVars, provVars, inPeriod, workVars, closing,
                 seen, failed>>

(* FORT_IOCTL_SETFLAGS: fort_conf_ref_flags_set. *)
SetFlags(c, F) ==
  /\ Accepted(c)
  /\ old' = [old EXCEPT ![c] = OldFlags]
  /\ IF conf # None
     THEN /\ conf' = [conf EXCEPT !.flags = F, !.mask = F.group]
          /\ conf_flags' = F
          /\ prov_boot' = F.prov_boot
     ELSE /\ conf_flags' = NoFlags(prov_boot)
          /\ UNCHANGED <<conf, prov_boot>>
  /\ dirty' = TRUE
  /\ Begin(c, "off")
  /\ UNCHANGED <<deviceVars, zones, filter, log_stat, timerVars, provVars, inPeriod, workVars,
                 closing, seen, update, failed>>

(* FORT_IOCTL_ADDAPP, FORT_IOCTL_DELAPP: an application of the current     *)
(* configuration changes; without one the request fails.                   *)
SetApp(c) ==
  /\ Accepted(c) /\ conf # None
  /\ dirty' = TRUE
  /\ Begin(c, "readOld")
  /\ UNCHANGED <<deviceVars, confVars, log_stat, timerVars, provVars, inPeriod, workVars, closing,
                 localVars, failed>>

(* FORT_IOCTL_SETZONES, and FORT_IOCTL_SETZONEFLAG when there are zones. *)
SetZones(c) ==
  /\ Accepted(c)
  /\ zones' = c
  /\ dirty' = TRUE
  /\ Begin(c, "readOld")
  /\ UNCHANGED <<deviceVars, conf, conf_flags, prov_boot, filter, log_stat, timerVars, provVars,
                 inPeriod, workVars, closing, localVars, failed>>

-----------------------------------------------------------------------------
(* The worker and the callbacks. *)

(* The system takes the work item out of its queue and calls the worker; a *)
(* new one may be queued, and run by another system thread, from then on.  *)
WorkerStart(w) ==
  /\ pc[w] = "idle" /\ queued
  /\ queued' = FALSE
  /\ Begin(w, "clear")
  /\ UNCHANGED <<deviceVars, confVars, log_stat, timerVars, provVars, inPeriod, id_bits, closing,
                 localVars, dirty, failed>>

(* Mistake: the bits are not cleared. *)
ClearedBits_Kept == id_bits

ClearedBits == FALSE

(* fort_worker_callback, before it calls fort_worker_reauth. *)
WorkerClear(w) ==
  /\ pc[w] = "clear"
  /\ id_bits' = ClearedBits
  /\ Go(w, "readOld")
  /\ UNCHANGED <<deviceVars, confVars, log_stat, timerVars, provVars, inPeriod, queued, closing,
                 localVars, ghosts>>

(* fort_worker_reauth, called by the worker and by requests. *)
ReadOld(t) ==
  /\ pc[t] = "readOld"
  /\ old' = [old EXCEPT ![t] = conf_flags]
  /\ Go(t, "off")
  /\ UNCHANGED <<deviceVars, confVars, log_stat, timerVars, provVars, inPeriod, workVars, closing,
                 seen, update, ghosts>>

(* The app timer, or a change of the system time while it runs. *)
CallbackBegin(d) ==
  /\ pc[d] = "idle" /\ app_timer
  /\ Begin(d, "take")
  /\ UNCHANGED <<deviceVars, confVars, log_stat, timerVars, provVars, inPeriod, workVars, closing,
                 localVars, dirty, failed>>

QueuedNow == queued \/ ~ id_bits

(* fort_worker_queue. *)
QueueWork(d) ==
  /\ pc[d] = "queue"
  /\ id_bits' = TRUE
  /\ queued' = QueuedNow
  /\ Go(d, "idle")
  /\ UNCHANGED <<deviceVars, confVars, log_stat, timerVars, provVars, inPeriod, closing,
                 localVars, ghosts>>

-----------------------------------------------------------------------------
(* fort_conf_ref_period_update, in a reauthorization (forced) or in a      *)
(* callback.                                                               *)

HasPeriods == conf # None /\ conf.periods

AfterNone(t) == IF t \in Callbacks THEN "idle" ELSE "flags"

(* No periods: nothing to write, and a reauthorization stops the app timer. *)
PeriodNone(t) ==
  /\ pc[t] = "take" /\ ~ HasPeriods
  /\ app_timer' = (app_timer /\ t \in Callbacks)
  /\ Go(t, AfterNone(t))
  /\ UNCHANGED <<deviceVars, confVars, log_stat, log_timer, provVars, inPeriod, workVars, closing,
                 localVars, ghosts>>

PeriodRead(t) ==
  /\ pc[t] = "take" /\ HasPeriods
  /\ update' = [update EXCEPT ![t] =
                  [current |-> TRUE, group |-> conf.flags.group /\ inPeriod, n |-> conf.flags.group]]
  /\ Go(t, "write")
  /\ UNCHANGED <<deviceVars, confVars, log_stat, timerVars, provVars, inPeriod, workVars, closing,
                 old, seen, ghosts>>

(* Mistake: a change is written and the worker is not told. *)
AfterChange_Idle(t) == IF t \in Callbacks THEN "idle" ELSE "flags"

AfterChange(t) == IF t \in Callbacks THEN "queue" ELSE "flags"

(* The group's bit goes to the device's flags and to the masks of the      *)
(* configuration that was read, which may have been replaced meanwhile.    *)
PeriodWrite(t) ==
  LET u == update[t]
  IN /\ pc[t] = "write"
     /\ IF t \in Callbacks /\ conf_flags.group = u.group
        THEN Go(t, "idle") /\ UNCHANGED <<conf_flags, conf, dirty>>
        ELSE /\ conf_flags' = [conf_flags EXCEPT !.group = u.group]
             /\ conf' = IF u.current THEN [conf EXCEPT !.mask = u.group] ELSE conf
             /\ dirty' = (dirty \/ conf' # conf)
             /\ Go(t, AfterChange(t))
     /\ app_timer' = IF t \in Callbacks THEN app_timer ELSE u.n
     /\ update' = [update EXCEPT ![t] = None]
     /\ UNCHANGED <<deviceVars, prov_boot, zones, filter, log_stat, log_timer, provVars, inPeriod,
                    workVars, closing, old, seen, failed, ops>>

-----------------------------------------------------------------------------
(* fort_callout_force_reauth, but for the deferred packets it flushes. *)

TimerOff(t) ==
  /\ pc[t] = "off"
  /\ log_timer' = FALSE
  /\ Go(t, "take")
  /\ UNCHANGED <<deviceVars, confVars, log_stat, app_timer, provVars, inPeriod, workVars, closing,
                 localVars, ghosts>>

ReadFlags(t) ==
  /\ pc[t] = "flags"
  /\ seen' = [seen EXCEPT ![t] = conf_flags]
  /\ Go(t, "stat")
  /\ UNCHANGED <<deviceVars, confVars, log_stat, timerVars, provVars, inPeriod, workVars, closing,
                 old, update, ghosts>>

LogStatChanged(t) == old[t].log_stat # seen[t].log_stat

UpdateStat(t) ==
  /\ pc[t] = "stat"
  /\ log_stat' = IF LogStatChanged(t) THEN seen[t].log_stat ELSE log_stat
  /\ Go(t, "commit")
  /\ UNCHANGED <<deviceVars, confVars, timerVars, provVars, inPeriod, workVars, closing,
                 localVars, ghosts>>

BootChanged(t) == old[t].prov_boot # seen[t].prov_boot
NewTransport(t) == seen[t].group /\ filter

(* Mistake: only a switch of log_stat or of the provider is looked at. *)
FlowChanges_NoTransport(t) == BootChanged(t) \/ LogStatChanged(t)

FlowChanges(t) ==
  BootChanged(t) \/ LogStatChanged(t) \/ filter_transport # NewTransport(t)

(* The transaction of fort_callout_force_reauth_prov; its last part has    *)
(* every connection classified again.                                      *)
Commit(t) ==
  /\ pc[t] = "commit"
  /\ prov' = [boot |-> IF BootChanged(t) THEN seen[t].prov_boot ELSE prov.boot,
              flow |-> IF ~ FlowChanges(t) THEN prov.flow
                       ELSE IF ~ seen[t].log_stat THEN "none"
                       ELSE IF NewTransport(t) THEN "transport" ELSE "stat"]
  /\ filter_transport' = IF FlowChanges(t) THEN NewTransport(t) ELSE filter_transport
  /\ dirty' = FALSE /\ failed' = FALSE
  /\ Go(t, "on")
  /\ UNCHANGED <<deviceVars, confVars, log_stat, timerVars, inPeriod, workVars, closing,
                 localVars, ops>>

(* The reauthorization ends: the request is completed, the worker returns. *)
Finish(t) ==
  /\ Go(t, IF t \in Workers THEN "idle" ELSE IF t \in closing THEN "out" ELSE "in")
  /\ closing' = closing \ {t}
  /\ old' = [old EXCEPT ![t] = NoFlags(FALSE)]
  /\ seen' = [seen EXCEPT ![t] = NoFlags(FALSE)]

(* The transaction is not opened, or is rolled back; a device flag that    *)
(* says which filters there are may have been set already.                 *)
CommitFail(t) ==
  /\ pc[t] = "commit" /\ CanFail
  /\ filter_transport' \in {filter_transport, IF FlowChanges(t) THEN NewTransport(t) ELSE filter_transport}
  /\ failed' = TRUE
  /\ Finish(t)
  /\ UNCHANGED <<deviceVars, confVars, log_stat, timerVars, prov, inPeriod, workVars, update, dirty, ops>>

LogsSomething(flags) == flags.log \/ flags.log_stat

TimerOn(t) ==
  /\ pc[t] = "on"
  /\ log_timer' = LogsSomething(seen[t])
  /\ Finish(t)
  /\ UNCHANGED <<deviceVars, confVars, log_stat, app_timer, provVars, inPeriod, workVars, update,
                 ghosts>>

(* The time of day enters or leaves the period. *)
TimePasses ==
  /\ inPeriod' = ~ inPeriod
  /\ UNCHANGED <<deviceVars, confVars, log_stat, timerVars, provVars, workVars, pc, closing,
                 localVars, ghosts>>

-----------------------------------------------------------------------------
Session(c) == Create(c) \/ Validate(c) \/ CleanupBegin(c)

Request(c) ==
  \/ \E C \in Confs : SetConf(c, C)
  \/ \E F \in FlagSets : SetFlags(c, F)
  \/ SetApp(c) \/ SetZones(c)

(* What a thread does once it has begun. *)
Continue(t) ==
  \/ CleanupConf(t) \/ CleanupZones(t) \/ WorkerClear(t) \/ ReadOld(t) \/ QueueWork(t)
  \/ PeriodNone(t) \/ PeriodRead(t) \/ PeriodWrite(t)
  \/ TimerOff(t) \/ ReadFlags(t) \/ UpdateStat(t)
  \/ Commit(t) \/ CommitFail(t) \/ TimerOn(t)

Next ==
  \/ \E c \in Clients : Session(c) \/ Request(c)
  \/ \E w \in Workers : WorkerStart(w)
  \/ \E d \in Callbacks : CallbackBegin(d)
  \/ \E t \in Threads : Continue(t)
  \/ TimePasses

Spec == Init /\ [][Next]_vars

(* Threads of the system run on, and a queued work item is taken by one.   *)
(* Strong for the worker: the system does not wait for a moment in which   *)
(* no other thread is in an operation; Begin does, if Overlaps is FALSE.   *)
Fairness ==
  /\ \A t \in Threads : WF_vars(Continue(t))
  /\ \A w \in Workers : SF_vars(WorkerStart(w))

FairSpec == Spec /\ Fairness

-----------------------------------------------------------------------------
(* Where a thread can be.  Callbacks run at DPC level: none of them gets to *)
(* the provider's transaction, which is left to the worker and to requests. *)
ReauthPlaces == {"off", "take", "write", "flags", "stat", "commit", "on"}
AllPlaces ==
  ReauthPlaces \cup {"idle", "out", "in", "clearConf", "clearZones", "clear", "readOld", "queue"}
Places(t) ==
  IF t \in Callbacks THEN {"idle", "take", "write", "queue"}
  ELSE ReauthPlaces \cup {"readOld"} \cup
       IF t \in Workers THEN {"idle", "clear"} ELSE {"out", "in", "clearConf", "clearZones"}

TypeOK ==
  /\ {opened, validated, prov_boot, filter_transport, filter, log_stat, log_timer, app_timer,
      inPeriod, id_bits, queued, dirty, failed} \subseteq BOOLEAN
  /\ conf_flags \in Flags
  /\ conf \in ConfValues \cup {None}
  /\ zones \in Clients \cup {None}
  /\ prov \in [boot : BOOLEAN, flow : {"none", "stat", "transport"}]
  /\ pc \in [Threads -> AllPlaces] /\ \A t \in Threads : pc[t] \in Places(t)
  /\ closing \subseteq Clients
  /\ old \in [Threads -> Flags] /\ seen \in [Threads -> Flags]
  /\ update \in [Threads -> Updates \cup {None}]

(* There is one work item: it is not queued again before the callback that *)
(* runs it has cleared the bits, though several callbacks ask for it.      *)
ItemQueuedOnce ==
  /\ queued => id_bits
  /\ \A w \in Workers : pc[w] = "clear" => id_bits /\ ~ queued

(* What the filters, the timers and the statistics should be. *)
FlowWanted ==
  IF ~ conf_flags.log_stat THEN "none"
  ELSE IF conf_flags.group /\ filter THEN "transport" ELSE "stat"

ControlsInLine ==
  /\ log_stat = conf_flags.log_stat
  /\ log_timer = (conf_flags.log \/ conf_flags.log_stat)
  /\ app_timer = (HasPeriods /\ conf.flags.group)
  /\ conf # None => conf.mask = conf_flags.group

FiltersInLine == prov = [boot |-> prov_boot, flow |-> FlowWanted]

(* A thread that will have every connection classified again. *)
WillReauth(t) ==
  IF t \in Callbacks THEN pc[t] = "queue"
  ELSE pc[t] \in {"clearZones", "clear", "readOld"} \cup (ReauthPlaces \ {"on"})

(* Connections are never left classified by what the configuration said    *)
(* before: while they are, a thread is on its way to have them classified  *)
(* again, or the work item is queued, or the last attempt failed.  Holds   *)
(* whatever overlaps: a worker that clears its bits takes on every change  *)
(* whose callback found them set.                                          *)
NoStaleDecisions == dirty => failed \/ queued \/ \E t \in Threads : WillReauth(t)

(* When no session is left, nor being closed, nothing of one is left. *)
ClosedIsClear ==
  (~ opened /\ closing = {}) => conf = None /\ zones = None /\ ~ validated

(* Stale decisions are replaced in the end. *)
Reauthorized == dirty ~> (~ dirty \/ failed)

(* A client that is between its creation and its close. *)
Connected(c) == pc[c] # "out" /\ c \notin closing
=============================================================================
