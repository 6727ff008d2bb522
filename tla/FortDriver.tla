----------------------------- MODULE FortDriver -----------------------------
(***************************************************************************)
(* The driver's life (fortdrv.c, fort_device_load and _unload of           *)
(* fortdev.c, fort_callout_install and _remove of fortcout.c, fortcb.c,    *)
(* registration in fortwrk.c and forttmr.c): what is created, opened and   *)
(* registered step by step, what each failure undoes, a session with its   *)
(* configuration, and unloading while callbacks that began before are      *)
(* still running.                                                          *)
(*                                                                         *)
(* Requests do not overlap here, and a reauthorization is one action: that *)
(* they do is the subject of FortDevice.  Here the objects in the          *)
(* filtering platform outlive the driver, and partly the system.           *)
(*                                                                         *)
(* Of the system: a callout or callback that is unregistered has no call   *)
(* running when the unregistration returns; a DPC is waited for by         *)
(* KeFlushQueuedDpcs only; a work item by nobody.                          *)
(***************************************************************************)
EXTENDS FortProv

CONSTANTS
  DriverConfs,  \* configurations: [boot, log, transport]
  MaxLoads,     \* bound: loads of the driver
  MaxCalls,     \* bound: calls that begin while others run
  NoConf

ASSUME DriverAssumption ==
  /\ DriverConfs \subseteq [boot : BOOLEAN, log : BOOLEAN, transport : BOOLEAN]
  /\ {MaxLoads, MaxCalls} \subseteq Nat
  /\ NoConf \notin [boot : BOOLEAN, log : BOOLEAN, transport : BOOLEAN]

(* Parts of the device in the order in which they come to be. *)
Parts == {"device", "link", "extension", "stat", "buffer", "defer", "item", "power", "systime"}

LoadSteps ==
  {"device", "link", "open", "is_boot", "unregister", "callouts", "item", "provider", "power",
   "systime"}
UnloadSteps ==
  {"flush", "timers", "defer", "stat", "buffer", "un_item", "un_power", "un_systime",
   "un_provider", "un_callouts", "un_link", "un_device"}

(* Calls of the driver that may be running, and what they go on to use. *)
Needs ==
  [classify |-> {"extension", "stat", "buffer"}, stream |-> {"extension", "stat", "defer"},
   log_dpc |-> {"extension", "stat", "buffer", "defer"}, app_dpc |-> {"extension", "item"},
   time |-> {"extension", "item"}, power |-> {"extension"}, work |-> {"extension", "item"}]
Calls == DOMAIN Needs

Kind(boot) == IF boot THEN "boot" ELSE "plain"

VARIABLES
  entry,      \* where the driver is: "off", a step, "loaded", "crashed"
  parts,      \* what exists
  callouts,   \* registered callouts: the ids that are not 0
  wfp,        \* objects of the provider: [objs, boot]
  bootFlag,   \* FORT_DEVICE_PROV_BOOT
  transport,  \* FORT_DEVICE_FILTER_TRANSPORT
  session,    \* a client has opened the device
  dconf,      \* configuration, or NoConf
  timers,     \* running timers
  contexts,   \* flows with a context of the driver's exist
  running,    \* calls that run or are queued
  told,       \* history: the boot flag of the last configuration that was stored
  stuck,      \* history: the last removal of the objects has failed
  late,       \* history: a call outlived its session and the beginning of the unload
  loads       \* bound

driverVars == <<entry, parts, callouts, wfp, bootFlag, transport, session, dconf, timers,
                contexts, running, told, stuck, late, loads>>

DriverTypeOK ==
  /\ entry \in {"off", "loaded", "crashed"} \cup LoadSteps \cup UnloadSteps
  /\ parts \subseteq Parts /\ callouts \subseteq Callouts
  /\ wfp.objs \subseteq Objects /\ wfp.boot \in BOOLEAN
  /\ {bootFlag, transport, session, contexts, stuck, late} \subseteq BOOLEAN
  /\ dconf \in DriverConfs \cup {NoConf}
  /\ timers \subseteq {"log", "app"} /\ running \subseteq Calls
  /\ told \in {"boot", "plain", "unknown"} /\ loads \in 0 .. MaxLoads

DriverInit ==
  /\ entry = "off" /\ parts = {} /\ callouts = {}
  /\ wfp = [objs |-> {}, boot |-> FALSE]
  /\ bootFlag = FALSE /\ transport = FALSE /\ session = FALSE /\ dconf = NoConf
  /\ timers = {} /\ contexts = FALSE /\ running = {}
  /\ told = "plain" /\ stuck = FALSE /\ late = FALSE /\ loads = 0

sessionVars == <<session, dconf, transport, timers, contexts>>
historyVars == <<stuck, late>>

-----------------------------------------------------------------------------
(* DriverEntry: each step that fails leads to fort_driver_unload, which     *)
(* begins with fort_device_unload if the device has been set.              *)

(* The filters of the boot have been removed, and are not registered again. *)
Forgotten == told' = IF told = "plain" THEN "plain" ELSE "unknown"

FailLoad == entry' = IF "extension" \in parts THEN "flush" ELSE "un_link"

(* fort_bfe_wait gives up, or the driver is loaded. *)
StartLoad ==
  /\ entry = "off" /\ loads < MaxLoads
  /\ entry' = "device" /\ loads' = loads + 1 /\ late' = FALSE
  /\ UNCHANGED <<parts, callouts, wfp, bootFlag, sessionVars, running, told, stuck>>

(* IoDeleteDevice of a device that could not be created is given NULL. *)
CreateDevice ==
  /\ entry = "device"
  /\ \/ parts' = {"device"} /\ entry' = "link"
     \/ parts' = {} /\ entry' = "crashed"
  /\ UNCHANGED <<callouts, wfp, bootFlag, sessionVars, running, told, historyVars, loads>>

CreateLink ==
  /\ entry = "link"
  /\ \/ parts' = parts \cup {"link"} /\ entry' = "open"
     \/ UNCHANGED parts /\ FailLoad
  /\ UNCHANGED <<callouts, wfp, bootFlag, sessionVars, running, told, historyVars, loads>>

(* The device is set and zeroed; its parts are opened. *)
OpenParts ==
  /\ entry = "open"
  /\ parts' = parts \cup {"extension", "stat", "buffer", "defer"}
  /\ bootFlag' = FALSE /\ transport' = FALSE /\ dconf' = NoConf /\ contexts' = FALSE
  /\ entry' = "is_boot"
  /\ UNCHANGED <<callouts, wfp, session, timers, running, told, historyVars, loads>>

(* fort_prov_is_boot: FALSE as well when the engine cannot be opened. *)
IsBoot ==
  /\ entry = "is_boot"
  /\ \/ /\ bootFlag' = (Provider \in wfp.objs /\ wfp.boot)
        /\ told' = Kind(bootFlag')
     \/ bootFlag' = FALSE /\ Forgotten
  /\ entry' = "unregister"
  /\ UNCHANGED <<parts, callouts, wfp, sessionVars, running, historyVars, loads>>

UnregisterOld ==
  /\ entry = "unregister"
  /\ \/ wfp' = [wfp EXCEPT !.objs = Unregister(@)] /\ stuck' = FALSE
     \/ UNCHANGED <<wfp, stuck>>
  /\ entry' = "callouts"
  /\ UNCHANGED <<parts, callouts, bootFlag, sessionVars, running, told, late, loads>>

(* fort_callout_install: one after the other. *)
InstallCallout ==
  LET i == Cardinality(callouts) + 1 IN
  /\ entry = "callouts"
  /\ \/ /\ callouts' = callouts \cup {CalloutOrder[i]}
        /\ entry' = IF i = Len(CalloutOrder) THEN "item" ELSE "callouts"
        /\ UNCHANGED told
     \/ FailLoad /\ UNCHANGED callouts /\ Forgotten
  /\ UNCHANGED <<parts, wfp, bootFlag, sessionVars, running, historyVars, loads>>

RegisterWorker ==
  /\ entry = "item"
  /\ \/ parts' = parts \cup {"item"} /\ entry' = "provider" /\ UNCHANGED told
     \/ FailLoad /\ UNCHANGED parts /\ Forgotten
  /\ UNCHANGED <<callouts, wfp, bootFlag, sessionVars, running, historyVars, loads>>

(* fort_prov_register: a transaction of its own. *)
RegisterProvider ==
  LET res == Register(wfp.objs) IN
  /\ entry = "provider"
  /\ \/ /\ res.ok
        /\ wfp' = [objs |-> res.objs, boot |-> bootFlag]
        /\ entry' = "power"
        /\ UNCHANGED told
     \/ FailLoad /\ UNCHANGED wfp /\ Forgotten
  /\ UNCHANGED <<parts, callouts, bootFlag, sessionVars, running, historyVars, loads>>

(* A callback is registered, or only its object created, or not even that. *)
RegisterCallback(name, next) ==
  /\ entry = name
  /\ \/ parts' = parts \cup {name} /\ entry' = next
     \/ UNCHANGED parts /\ entry' = next
     \/ UNCHANGED parts /\ FailLoad
  /\ UNCHANGED <<callouts, wfp, bootFlag, sessionVars, running, told, historyVars, loads>>

Load ==
  \/ StartLoad \/ CreateDevice \/ CreateLink \/ OpenParts \/ IsBoot \/ UnregisterOld
  \/ InstallCallout \/ RegisterWorker \/ RegisterProvider
  \/ RegisterCallback("power", "systime") \/ RegisterCallback("systime", "loaded")

-----------------------------------------------------------------------------
(* A session: one client, its configurations, its end.                     *)

FlagsOf(c) == IF c = NoConf THEN [boot |-> bootFlag, log |-> FALSE, transport |-> FALSE] ELSE c

(* fort_callout_force_reauth_prov: what the transaction makes of the       *)
(* objects, if nothing else fails.                                         *)
ReauthProv(old, new) ==
  LET recreated == old.boot # new.boot
      base == IF recreated THEN Register(Unregister(wfp.objs)) ELSE [objs |-> wfp.objs, ok |-> TRUE]
      flow == IF ~recreated /\ old.log = new.log /\ transport = new.transport THEN base
              ELSE IF new.log THEN FlowRegister(FlowUnregister(base.objs), new.transport)
              ELSE [base EXCEPT !.objs = FlowUnregister(@)]
      end == ReauthFilters(flow.objs)
  IN [objs |-> end.objs, ok |-> base.ok /\ flow.ok /\ end.ok]

(* fort_callout_force_reauth: the transaction is committed, or all of it   *)
(* is lost, but not the device flag that it may have set by then.  The log *)
(* timer runs after the former only.                                       *)
ForceReauth(old, new, appTimer) ==
  LET res == ReauthProv(old, new)
      app == IF appTimer THEN {"app"} ELSE {} IN
  \/ /\ res.ok
     /\ wfp' = [objs |-> res.objs, boot |-> IF old.boot # new.boot THEN new.boot ELSE wfp.boot]
     /\ told' = IF old.boot # new.boot THEN Kind(new.boot) ELSE told
     /\ transport' = new.transport
     /\ timers' = app \cup (IF new.log THEN {"log"} ELSE {})
  \/ /\ transport' \in {transport, new.transport}
     /\ told' = IF old.boot # new.boot THEN "unknown" ELSE told
     /\ timers' = app
     /\ UNCHANGED wfp

OpenDevice ==
  /\ entry = "loaded" /\ ~session
  /\ session' = TRUE
  /\ UNCHANGED <<entry, parts, callouts, wfp, bootFlag, dconf, transport, timers, contexts,
                 running, told, historyVars, loads>>

(* FORT_IOCTL_SETCONF; some configurations have groups with periods. *)
SetDriverConf(c) ==
  /\ session
  /\ dconf' = c /\ bootFlag' = c.boot
  /\ \E periods \in BOOLEAN : ForceReauth(FlagsOf(dconf), c, periods)
  /\ UNCHANGED <<entry, parts, callouts, session, contexts, running, historyVars, loads>>

(* Mistake: the configuration stays, for the next client. *)
CloseDriver_Kept ==
  /\ session
  /\ session' = FALSE
  /\ ForceReauth(FlagsOf(dconf), FlagsOf(NoConf), FALSE)
  /\ UNCHANGED <<entry, parts, callouts, dconf, bootFlag, contexts, running, historyVars, loads>>

(* fort_device_cleanup: no configuration, the flag of the boot stays. *)
CloseDriver ==
  /\ session
  /\ session' = FALSE /\ dconf' = NoConf
  /\ ForceReauth(FlagsOf(dconf), FlagsOf(NoConf), FALSE)
  /\ UNCHANGED <<entry, parts, callouts, bootFlag, contexts, running, historyVars, loads>>

-----------------------------------------------------------------------------
(* Calls of the driver.  What begins is a call that has passed its checks:  *)
(* it holds a configuration, a flow, or has seen the app timer running.    *)
(* Going to sleep sends the packets that wait: none after the unload's.    *)

FilterCalls(c) == <<"filter", c>> \in wfp.objs /\ c \in callouts

Begins(call) ==
  CASE call = "classify" -> FilterCalls("connect") /\ dconf # NoConf
    [] call = "stream"   -> FilterCalls("stream") /\ contexts
    [] call = "log_dpc"  -> "log" \in timers
    [] call = "app_dpc"  -> "app" \in timers
    [] call = "time"     -> "systime" \in parts /\ "app" \in timers
    [] call = "power"    -> "power" \in parts
    [] call = "work"     -> FALSE

BeginCall(call) ==
  /\ call \notin running /\ Cardinality(running) < MaxCalls /\ Begins(call)
  /\ running' = running \cup {call}
  /\ UNCHANGED <<entry, parts, callouts, wfp, bootFlag, sessionVars, told, historyVars, loads>>

(* A callback of time may queue the work item, if it does not wait yet; a   *)
(* connection that is allowed leaves a context.                            *)
EndCall(call) ==
  /\ call \in running \ {"work"}
  /\ \/ running' = running \ {call}
     \/ call \in {"app_dpc", "time"} /\ running' = (running \ {call}) \cup {"work"}
  /\ contexts' = (contexts \/ (call = "classify" /\ dconf # NoConf /\ FlagsOf(dconf).log))
  /\ UNCHANGED <<entry, parts, callouts, wfp, bootFlag, session, dconf, transport, timers, told,
                 historyVars, loads>>

(* fort_worker_callback: a reauthorization with the flags as they are. *)
Work ==
  /\ "work" \in running /\ Needs["work"] \subseteq parts
  /\ running' = running \ {"work"}
  /\ ForceReauth(FlagsOf(dconf), FlagsOf(dconf), "app" \in timers)
  /\ UNCHANGED <<entry, parts, callouts, bootFlag, session, dconf, contexts, historyVars, loads>>

FlowsEnd ==
  /\ contexts /\ contexts' = FALSE
  /\ UNCHANGED <<entry, parts, callouts, wfp, bootFlag, session, dconf, transport, timers,
                 running, told, historyVars, loads>>

-----------------------------------------------------------------------------
(* fort_driver_unload, with the client gone or after a failure.             *)

(* Packets that wait are sent.  What outlives its session is remembered:   *)
(* calls, and filters of flows that a failed transaction has left.         *)
StartUnload ==
  /\ \/ entry = "loaded" /\ ~session
     \/ entry = "flush"
  /\ entry' = "timers"
  /\ late' = (running \ {"power"} # {} \/ <<"filter", "stream">> \in wfp.objs)
  /\ UNCHANGED <<parts, callouts, wfp, bootFlag, sessionVars, running, told, stuck, loads>>

(* fort_timer_close, twice: DPCs are waited for if a timer was running. *)
CloseTimers ==
  /\ entry = "timers"
  /\ timers' = {}
  /\ running' = IF timers = {} THEN running ELSE running \ {"log_dpc", "app_dpc"}
  /\ entry' = "defer"
  /\ UNCHANGED <<parts, callouts, wfp, bootFlag, session, dconf, transport, contexts, told,
                 historyVars, loads>>

UnloadOrder ==
  [defer |-> [part |-> "defer", next |-> "stat"], stat |-> [part |-> "stat", next |-> "buffer"],
   buffer |-> [part |-> "buffer", next |-> "un_item"],
   un_item |-> [part |-> "item", next |-> "un_power"],
   un_power |-> [part |-> "power", next |-> "un_systime"],
   un_systime |-> [part |-> "systime", next |-> "un_provider"]]

(* fort_defer_close, fort_stat_close, which removes the contexts of flows,  *)
(* fort_buffer_close, fort_worker_unregister, fort_callback_unregister.    *)
ClosePart(step) ==
  /\ entry = step
  /\ step = "un_power" => "power" \notin running
  /\ step = "un_systime" => "time" \notin running
  /\ parts' = parts \ {UnloadOrder[step].part}
  /\ contexts' = (contexts /\ step # "stat")
  /\ entry' = UnloadOrder[step].next
  /\ UNCHANGED <<callouts, wfp, bootFlag, session, dconf, transport, timers, running, told,
                 historyVars, loads>>

(* Mistake: the filters of the boot are removed as well. *)
UnregisterProvider_Always ==
  /\ entry = "un_provider"
  /\ \/ wfp' = [wfp EXCEPT !.objs = Unregister(@)] /\ stuck' = FALSE
     \/ UNCHANGED wfp /\ stuck' = TRUE
  /\ entry' = "un_callouts"
  /\ UNCHANGED <<parts, callouts, bootFlag, sessionVars, running, told, late, loads>>

UnregisterProvider ==
  /\ entry = "un_provider"
  /\ IF bootFlag THEN UNCHANGED <<wfp, stuck>>
     ELSE \/ wfp' = [wfp EXCEPT !.objs = Unregister(@)] /\ stuck' = FALSE
          \/ UNCHANGED wfp /\ stuck' = TRUE
  /\ entry' = "un_callouts"
  /\ UNCHANGED <<parts, callouts, bootFlag, sessionVars, running, told, late, loads>>

(* fort_callout_remove, then the device is NULL. *)
RemoveCallouts ==
  /\ entry = "un_callouts"
  /\ running \cap {"classify", "stream"} = {}
  /\ callouts' = {} /\ parts' = parts \ {"extension"}
  /\ entry' = "un_link"
  /\ UNCHANGED <<wfp, bootFlag, sessionVars, running, told, historyVars, loads>>

(* IoDeleteSymbolicLink, IoDeleteDevice. *)
DeleteDevice ==
  /\ entry = "un_link"
  /\ parts' = parts \ {"link", "device"}
  /\ entry' = "off"
  /\ running' = {}
  /\ UNCHANGED <<callouts, wfp, bootFlag, sessionVars, told, historyVars, loads>>

(* The system is restarted, or crashes. *)
Restart ==
  /\ entry' = "off" /\ parts' = {} /\ callouts' = {}
  /\ wfp' = [wfp EXCEPT !.objs = AfterRestart(@, wfp.boot)]
  /\ session' = FALSE /\ dconf' = NoConf /\ timers' = {} /\ contexts' = FALSE
  /\ running' = {} /\ stuck' = FALSE /\ late' = FALSE
  /\ told' = IF entry \in {"unregister", "callouts", "item", "provider"} /\ told = "boot"
                THEN "unknown" ELSE told
  /\ UNCHANGED <<bootFlag, transport, loads>>

Unload ==
  \/ StartUnload \/ CloseTimers \/ (\E s \in DOMAIN UnloadOrder : ClosePart(s))
  \/ UnregisterProvider \/ RemoveCallouts \/ DeleteDevice

DriverNext ==
  \/ Load \/ Unload \/ Restart
  \/ OpenDevice \/ (\E c \in DriverConfs : SetDriverConf(c)) \/ CloseDriver
  \/ (\E c \in Calls : BeginCall(c) \/ EndCall(c)) \/ Work \/ FlowsEnd

DriverSpec == DriverInit /\ [][DriverNext]_driverVars

-----------------------------------------------------------------------------
(* What a driver that is not loaded leaves behind: nothing that is         *)
(* registered, and no object in the filtering platform but those that      *)
(* block until the next start (fortdrv.c:26, fortdev.c:354), whatever step  *)
(* of the load has failed.  Not so when they could not be removed, or the  *)
(* filters are not what the flag says, after a failed transaction.         *)
NothingLeft ==
  entry = "off" =>
    /\ parts = {} /\ callouts = {} /\ timers = {}
    /\ wfp.objs = {} \/ (wfp.boot /\ told = "boot") \/ stuck \/ told = "unknown"

(* Blocking until the driver is loaded again, also over restarts, is what   *)
(* the last configuration asked for (fortdev.c:319, :375).                  *)
BootKept ==
  entry = "off" /\ told # "unknown" =>
    ((told = "boot") <=> (Provider \in wfp.objs /\ wfp.boot))

(* No call uses what has been closed, but one that outlived its session    *)
(* (fortdev.c:354).                                                         *)
ClosedUnused == entry # "off" /\ ~late => \A c \in running : Needs[c] \subseteq parts

(* Whatever has failed before, objects that are still there or not there   *)
(* any more are never the reason why a reauthorization of a loaded driver  *)
(* fails (fortcout.c:626, :653, fortprov.c:363).                            *)
NeverRefused ==
  entry = "loaded" =>
    \A c \in DriverConfs \cup {NoConf} : ReauthProv(FlagsOf(dconf), FlagsOf(c)).ok
=============================================================================
