------------------------------- MODULE Tasks -------------------------------
(***************************************************************************)
(* The tasks of the UI: TaskManager starts the ones that are due           *)
(* (taskmanager.cpp), TaskInfo runs and aborts one (taskinfo.cpp), and     *)
(* TaskInfoZoneDownloader, the longer of the two, fetches the addresses of *)
(* one zone after the other and hands all of them to the driver at the end *)
(* (taskinfozonedownloader.cpp, taskzonedownloader.cpp, confmanager.cpp,   *)
(* fortcnf.c).  The user changes the zones while it runs.                  *)
(*                                                                         *)
(* A handler of the event loop is an action, signals it emits included.    *)
(* The addresses of a zone are what its source was at a time: data names   *)
(* the zone the source is for, the source and the time.  A checksum is the *)
(* data it is of.  A source that is a local file is read at once: it is a  *)
(* download nothing happens during.                                        *)
(***************************************************************************)
EXTENDS Integers, Sequences, FiniteSets

CONSTANTS
  MaxZones,    \* FORT_CONF_ZONE_MAX
  Given,       \* ids of the zones there are at the start
  MaxSources,  \* bound: sources a zone id has had
  MaxTime,     \* bound: times the sources change
  MaxEdits,    \* bound: acts of the user, restarts, and rows and zones that cannot be written
  None         \* no addresses, no checksum, no file, no worker

ASSUME TasksAssumption ==
  /\ {MaxZones, MaxTime, MaxEdits} \subseteq Nat /\ MaxSources \in Nat \ {0}
  /\ Given \subseteq 1 .. MaxZones

Ids == 1 .. MaxZones
TaskTypes == {"UpdateChecker", "ZoneDownloader"}
Data == [id : Ids, source : 1 .. MaxSources, time : 0 .. MaxTime]
Held == Data \cup {None}

(* A row of the table, and the download of a zone: a text and a file are   *)
(* known by their checksums, of which there is one for any data.           *)
ZoneRows == [enabled : BOOLEAN, source : 1 .. MaxSources, text : Held, bin : Held]
Downloads ==
  [id : Ids, source : 1 .. MaxSources, enabled : BOOLEAN, text : Held, bin : Held, data : Held]

ASSUME TasksNone == None \notin Downloads

VARIABLES
  enabled, due,  \* [TaskTypes -> BOOLEAN]: m_enabled, plannedRun() has come
  timerOn,       \* m_timer of TaskManager
  checking,      \* the update checker has a worker
  worker,        \* the zone downloader's worker: a record of the zone it is for, or None
  zone,          \* table zone: [a set of ids -> rows]
  sources,       \* [Ids -> sources the id has had]
  file,          \* [Ids -> Data or None]: the files of the cache
  driver,        \* FORT_CONF_ZONES: [addr |-> [mask -> Data], enabled |-> a set of ids]
  m_zoneIndex,
  m_zonesMask,   \* zones that the run has come to
  sub,           \* results so far: m_dataZonesMask, m_enabledMask, m_zonesData
  time,          \* of the sources
  edits,         \* bound
  odd, oddNow,   \* history: what has happened to the last, and to this run
  unsaved        \* history: zones of whose flag the driver alone has been told

taskVars == <<enabled, due, timerOn>>
zoneVars == <<zone, sources, file, driver>>
runVars == <<checking, worker, m_zoneIndex, m_zonesMask, sub, odd, oddNow, unsaved>>
tasksVars == <<taskVars, zoneVars, runVars, time, edits>>

NoSub == [mask |-> {}, enabled |-> {}, data |-> <<>>]
NoZones == [addr |-> [i \in {} |-> None], enabled |-> {}]

TasksInit ==
  /\ enabled = [t \in TaskTypes |-> TRUE] /\ due = enabled
  /\ timerOn = TRUE
  /\ checking = FALSE /\ worker = None
  /\ zone = [i \in Given |-> [enabled |-> TRUE, source |-> 1, text |-> None, bin |-> None]]
  /\ sources = [i \in Ids |-> IF i \in Given THEN 1 ELSE 0]
  /\ file = [i \in Ids |-> None]
  /\ driver = NoZones
  /\ m_zoneIndex = 0 /\ m_zonesMask = {} /\ sub = NoSub
  /\ time = 0 /\ edits = 0
  /\ odd = {"started"} /\ oddNow = {} /\ unsaved = {}

-----------------------------------------------------------------------------
(* The zones of the run *)

(* ZoneListModel::zoneRowAt: rows come in the order of their ids. *)
RowAt(z, n) == CHOOSE i \in DOMAIN z : Cardinality({ j \in DOMAIN z : j < i }) = n

(* setupTaskWorkerByZone *)
WorkerOf(z, i) ==
  [id |-> i, source |-> z[i].source, enabled |-> z[i].enabled, text |-> z[i].text, bin |-> z[i].bin, data |-> None]

(* TaskZoneDownloader::loadAddresses: a file with another checksum is removed. *)
Loads(f, w) == f[w.id] # None /\ f[w.id] = w.bin
LoadFile(f, w) == IF f[w.id] = w.bin THEN f ELSE [f EXCEPT ![w.id] = None]

(* Mistake: only what has been downloaded is handed to the driver. *)
AddSubResult_Downloads(s, f, w, success) ==
  IF success
    THEN [mask |-> s.mask \cup {w.id}, enabled |-> IF w.enabled THEN s.enabled \cup {w.id} ELSE s.enabled,
          data |-> Append(s.data, w.data)]
    ELSE s

(* Mistake: zones that are disabled are enabled in the driver. *)
AddSubResult_Enables(s, f, w, success) ==
  IF success \/ Loads(f, w)
    THEN [mask |-> s.mask \cup {w.id}, enabled |-> s.enabled \cup {w.id},
          data |-> Append(s.data, IF success THEN w.data ELSE f[w.id])]
    ELSE s

(* addSubResult *)
AddSubResult(s, f, w, success) ==
  IF success \/ Loads(f, w)
    THEN [mask |-> s.mask \cup {w.id}, enabled |-> IF w.enabled THEN s.enabled \cup {w.id} ELSE s.enabled,
          data |-> Append(s.data, IF success THEN w.data ELSE f[w.id])]
    ELSE s

(* ConfUtil::writeZones: the data are paired with the ids in the mask, the *)
(* lowest first; fort_conf_zones_set.                                      *)
WriteZones(s) ==
  [addr |-> [i \in s.mask |-> s.data[Cardinality({ j \in s.mask : j <= i })]], enabled |-> s.enabled]

(* removeOrphanCacheFiles *)
RemoveOrphans(f, mask) == [i \in Ids |-> IF i \in mask THEN f[i] ELSE None]

Acts(n) == edits + n <= MaxEdits /\ edits' = edits + n

(* TaskInfo::handleFinished, which ends with abortTask, and abortTask,     *)
(* which begins with it: the time of the run is kept, the worker goes.     *)
(* m_aborted and m_running, which are not modelled, end the recursion.    *)
WorkEnds(t) ==
  /\ due' = [due EXCEPT ![t] = FALSE]
  /\ checking' = (checking /\ t # "UpdateChecker")
  /\ worker' = IF t = "ZoneDownloader" THEN None ELSE worker

(* emitZonesUpdated, ConfManager::updateDriverZones, which may fail        *)
(* (fort_device_control_setzones), and the end: the driver then keeps what *)
(* it has.  The index and the mask are not read again.                     *)
EmitZonesUpdated(s, f, mask, flaws, acts) ==
  /\ \/ Acts(acts) /\ driver' = WriteZones(s) /\ odd' = flaws /\ unsaved' = {}
     \/ Acts(acts + 1) /\ odd' = odd \cup {"cut"} /\ UNCHANGED <<driver, unsaved>>
  /\ file' = RemoveOrphans(f, mask)
  /\ sub' = NoSub /\ m_zoneIndex' = 0 /\ m_zonesMask' = {}
  /\ oddNow' = {}
  /\ WorkEnds("ZoneDownloader")

(* setupNextTaskWorker, with the worker of the last zone gone. *)
SetupNextTaskWorker(n, z, s, f, mask, flaws, acts) ==
  \/ /\ n >= Cardinality(DOMAIN z)
     /\ EmitZonesUpdated(s, f, mask, flaws, acts)
  \/ /\ n < Cardinality(DOMAIN z)
     /\ worker' = WorkerOf(z, RowAt(z, n))
     /\ m_zoneIndex' = n /\ m_zonesMask' = mask \cup {RowAt(z, n)}
     /\ sub' = s /\ file' = f /\ oddNow' = flaws
     /\ Acts(acts)
     /\ UNCHANGED <<due, checking, driver, odd, unsaved>>

-----------------------------------------------------------------------------
(* TaskInfo::run, for a task without a worker. *)
RunChecker(acts) ==
  /\ ~ checking /\ Acts(acts)
  /\ checking' = TRUE
  /\ UNCHANGED <<due, worker, m_zoneIndex, m_zonesMask, sub, odd, oddNow, unsaved, file, driver>>

RunZones(acts) ==
  /\ worker = None
  /\ SetupNextTaskWorker(0, zone, NoSub, file, {}, oddNow, acts)
  /\ UNCHANGED checking

Run(t, acts) ==
  /\ \/ t = "UpdateChecker" /\ RunChecker(acts)
     \/ t = "ZoneDownloader" /\ RunZones(acts)
  /\ UNCHANGED <<enabled, timerOn, zone, sources, time>>

Started(t) == IF t = "UpdateChecker" THEN checking ELSE worker # None

(* A turn of the loop of TaskManager::runExpiredTasks *)
RunExpired(t) ==
  /\ timerOn /\ enabled[t] /\ due[t] /\ ~ Started(t)
  /\ Run(t, 0)

(* Its end: with no task enabled the timer is not set again. *)
StopTimer ==
  /\ timerOn /\ \A t \in TaskTypes : ~ enabled[t]
  /\ timerOn' = FALSE
  /\ UNCHANGED <<enabled, due, zoneVars, runVars, time, edits>>

(* The update checker's download ends, well or not; it is aborted. *)
CheckerFinished ==
  /\ checking
  /\ WorkEnds("UpdateChecker")
  /\ UNCHANGED <<enabled, timerOn, zoneVars, m_zoneIndex, m_zonesMask, sub, odd, oddNow, unsaved, time, edits>>

(* TaskZoneDownloader::downloadFinished.  Addresses that are new are       *)
(* parsed and stored, or a line is wrong, or the file cannot be written.   *)
Fetched == [id |-> worker.id, source |-> worker.source, time |-> time]
IsNew == worker.text # Fetched \/ file[worker.id] = None

Outcome(w, f, success) == [worker |-> w, file |-> f, success |-> success]

Outcomes ==
  LET fetched == [worker EXCEPT !.text = Fetched, !.bin = Fetched]
  IN { Outcome(worker, file, FALSE) } \cup
     { o \in { Outcome([fetched EXCEPT !.data = Fetched], [file EXCEPT ![worker.id] = Fetched], TRUE),
               Outcome([worker EXCEPT !.text = Fetched], file, FALSE),
               Outcome(fetched, [file EXCEPT ![worker.id] = None], FALSE) } : IsNew }

(* TaskInfoZoneDownloader::handleFinished, of a run that goes on: the row  *)
(* of the zone, if it is there, is updated (updateZoneResult), unless that *)
(* fails, and the next zone begins.                                        *)
ZoneFinished ==
  /\ worker # None
  /\ \E o \in Outcomes, kept \in BOOLEAN :
        /\ kept \/ o.worker # worker
        /\ zone' = [i \in DOMAIN zone |->
                      IF kept /\ i = worker.id THEN [zone[i] EXCEPT !.text = o.worker.text, !.bin = o.worker.bin]
                      ELSE zone[i]]
        /\ SetupNextTaskWorker(m_zoneIndex + 1, zone', AddSubResult(sub, o.file, o.worker, o.success),
                               IF o.success THEN o.file ELSE LoadFile(o.file, o.worker), m_zonesMask,
                               oddNow \cup { x \in {"cut"} : o.success /\ ~ kept },
                               IF kept THEN 0 ELSE 1)
  /\ UNCHANGED <<enabled, timerOn, checking, sources, time>>

-----------------------------------------------------------------------------
(* The user *)

UserActs == Acts(1)
During(flaw) == IF worker # None THEN {flaw} ELSE {}

RunTask(t) == ~ Started(t) /\ Run(t, 1)

(* TaskInfo::abortTask: the zones the run has not come to are left out. *)
AbortTask(t) ==
  /\ Started(t)
  /\ \/ /\ t = "UpdateChecker" /\ UserActs /\ WorkEnds(t)
        /\ UNCHANGED <<file, driver, m_zoneIndex, m_zonesMask, sub, odd, oddNow, unsaved>>
     \/ /\ t = "ZoneDownloader"
        /\ EmitZonesUpdated(sub, file, m_zonesMask, oddNow \cup {"cut"}, 1)
  /\ UNCHANGED <<enabled, timerOn, zone, sources, time>>

(* TaskManager::saveVariant *)
SaveVariant(t) ==
  /\ UserActs
  /\ enabled' = [enabled EXCEPT ![t] = ~ @]
  /\ UNCHANGED <<due, timerOn, zoneVars, runVars, time>>

(* ConfManager::addZone, getFreeZoneId: the lowest id that is free, maybe  *)
(* one whose last owner the driver still has addresses of.  When this or   *)
(* the next fails, nothing happens.                                        *)
AddZone(i, on) ==
  /\ UserActs
  /\ i \notin DOMAIN zone /\ (1 .. i - 1) \subseteq DOMAIN zone /\ sources[i] < MaxSources
  /\ sources' = [sources EXCEPT ![i] = @ + 1]
  /\ zone' = [j \in DOMAIN zone \cup {i} |->
                IF j = i THEN [enabled |-> on, source |-> sources'[i], text |-> None, bin |-> None] ELSE zone[j]]
  /\ odd' = odd \cup { "reused" : j \in DOMAIN driver.addr \cap {i} }
  /\ oddNow' = oddNow \cup During("moved")
  /\ UNCHANGED <<taskVars, file, driver, checking, worker, m_zoneIndex, m_zonesMask, sub, unsaved, time>>

(* ConfManager::deleteZone: the driver keeps its addresses. *)
DeleteZone(i) ==
  /\ UserActs /\ i \in DOMAIN zone
  /\ zone' = [j \in DOMAIN zone \ {i} |-> zone[j]]
  /\ oddNow' = oddNow \cup During("moved")
  /\ UNCHANGED <<taskVars, sources, file, driver, checking, worker, m_zoneIndex, m_zonesMask, sub, odd, unsaved, time>>

(* updateDriverZoneFlag: a driver without zones has no flags.              *)
SetZoneFlag(i, on) ==
  driver' = IF "started" \in odd THEN driver
            ELSE [driver EXCEPT !.enabled = IF on THEN @ \cup {i} ELSE @ \ {i}]

(* ConfManager::updateZone, updateZoneEnabled: the driver's flag first (if *)
(* it does not take it nothing happens), then the row, which may fail.     *)
UpdateZone(i, on, source) ==
  /\ UserActs /\ i \in DOMAIN zone /\ source \in { zone[i].source, sources[i] + 1 } /\ source <= MaxSources
  /\ on # zone[i].enabled \/ source # zone[i].source
  /\ SetZoneFlag(i, on)
  /\ \/ /\ sources' = [sources EXCEPT ![i] = IF source > @ THEN source ELSE @]
        /\ zone' = [zone EXCEPT ![i].enabled = on, ![i].source = source]
        /\ oddNow' = oddNow \cup (IF on # zone[i].enabled THEN During("toggled") ELSE {})
        /\ unsaved' = unsaved \ {i}
     \/ /\ unsaved' = IF on # zone[i].enabled /\ "started" \notin odd THEN unsaved \cup {i} ELSE unsaved \ {i}
        /\ UNCHANGED <<sources, zone, oddNow>>
  /\ UNCHANGED <<taskVars, file, checking, worker, m_zoneIndex, m_zonesMask, sub, odd, time>>

(* saveZoneAsText, with the index and the mask of the run. *)
SaveZoneAsText(n) ==
  /\ UserActs /\ n < Cardinality(DOMAIN zone)
  /\ m_zoneIndex' = IF worker = None THEN 0 ELSE n
  /\ m_zonesMask' = IF worker = None THEN {} ELSE m_zonesMask \cup {RowAt(zone, n)}
  /\ file' = LoadFile(file, WorkerOf(zone, RowAt(zone, n)))
  /\ oddNow' = oddNow \cup During("moved")
  /\ UNCHANGED <<taskVars, zone, sources, driver, checking, worker, sub, odd, unsaved, time>>

-----------------------------------------------------------------------------
(* Hours pass: the tasks are due, and the sources have changed. *)
HoursPass ==
  /\ time < MaxTime /\ time' = time + 1
  /\ due' = [t \in TaskTypes |-> TRUE]
  /\ UNCHANGED <<enabled, timerOn, zoneVars, runVars, edits>>

(* The program ends, maybe between the file of a zone and its row, and is  *)
(* started again.  The driver drops the zones with the device; loadZones   *)
(* reads the files before anyone is connected to zonesUpdated              *)
(* (FortManager::initialize), so they do not reach it.                     *)
Restart ==
  /\ UserActs
  /\ \E f \in {file} \cup (IF worker = None THEN {} ELSE { [file EXCEPT ![worker.id] = x] : x \in {Fetched, None} }) :
        file' = [i \in Ids |-> IF i \in DOMAIN zone /\ f[i] = zone[i].bin THEN f[i] ELSE None]
  /\ driver' = NoZones
  /\ timerOn' = TRUE /\ checking' = FALSE /\ worker' = None
  /\ m_zoneIndex' = 0 /\ m_zonesMask' = {} /\ sub' = NoSub
  /\ odd' = {"started"} /\ oddNow' = {} /\ unsaved' = {}
  /\ UNCHANGED <<enabled, due, zone, sources, time>>

TasksNext ==
  \/ \E t \in TaskTypes : RunExpired(t) \/ RunTask(t) \/ AbortTask(t) \/ SaveVariant(t)
  \/ StopTimer \/ CheckerFinished \/ ZoneFinished
  \/ \E i \in Ids, on \in BOOLEAN : AddZone(i, on) \/ \E s \in 1 .. MaxSources : UpdateZone(i, on, s)
  \/ \E i \in Ids : DeleteZone(i) \/ SaveZoneAsText(i - 1)
  \/ HoursPass \/ Restart

TasksSpec == TasksInit /\ [][TasksNext]_tasksVars

-----------------------------------------------------------------------------
(* Between runs the driver has, for every zone, the addresses that are in  *)
(* the zone's file, and none of another zone: whatever downloads fail,     *)
(* files cannot be written and sources change.  But for a program that has *)
(* just started, a run that was cut short (it was aborted, the driver did  *)
(* not take its zones, or a row was not updated) or during which zones     *)
(* came or went or were saved as text, and an id that is used again; the   *)
(* next whole run that the driver takes mends these.                       *)
CachedOf(i) == IF file[i] = zone[i].bin THEN file[i] ELSE None
InDriver(i) == IF i \in DOMAIN driver.addr THEN driver.addr[i] ELSE None

ZonesInDriver ==
  worker = None /\ odd \subseteq {"toggled"} => \A i \in DOMAIN zone : InDriver(i) = CachedOf(i)

(* A zone is enabled in the driver if and only if it is in the table, but  *)
(* for one that is enabled or disabled during a run (its worker has the    *)
(* flag of when it was set up) or whose row moved during it, for an id     *)
(* that is used again, and for a flag whose row was not saved after the    *)
(* driver had taken it.                                                    *)
ZoneFlagsAgree ==
  odd \subseteq {"started", "cut"} =>
    \A i \in (DOMAIN zone \cap DOMAIN driver.addr) \ unsaved : (i \in driver.enabled) = zone[i].enabled
=============================================================================
