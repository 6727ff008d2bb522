---------------------------- MODULE StatSession ----------------------------
(***************************************************************************)
(* The two ends of the traffic log: the driver's statistics (FortStat) and *)
(* the table of processes StatManager (statmanager.cpp) rebuilds from the  *)
(* PROC_NEW and traffic records it reads.  The log between them is a FIFO, *)
(* which is what FortBuffer implements.                                    *)
(*                                                                         *)
(* The UI changes the configuration in FortManager::updateDriverConf: it   *)
(* stops reading, lets the driver switch, adapts StatManager and reads on. *)
(***************************************************************************)
EXTENDS FortStat

VARIABLES
  m_appPidPathMap,  \* the processes the UI knows; their paths are left out
  logStat,          \* conf()->logStat()
  switching,        \* the UI is inside updateDriverConf
  mismatch,         \* history: "UI & Driver's states mismatch!" was logged
  repeated,         \* history: a PROC_NEW record of a known process was read
  raced             \* history: the log stopped to describe the driver, see Races

uiVars == <<m_appPidPathMap, logStat, switching, mismatch, repeated>>
sessionVars == <<vars, uiVars, raced>>

SessionInit ==
  /\ Init
  /\ m_appPidPathMap = {} /\ logStat = FALSE /\ switching = FALSE
  /\ mismatch = FALSE /\ repeated = FALSE /\ raced = FALSE

-----------------------------------------------------------------------------
(* StatManager::logProcNew. *)
LogProcNew(p) ==
  /\ repeated' = (repeated \/ p \in m_appPidPathMap)
  /\ m_appPidPathMap' = m_appPidPathMap \cup {p}
  /\ UNCHANGED mismatch

(* Mistake: processes that have gone are kept. *)
LogStatTraf_KeepGone(rec) ==
  IF logStat
  THEN /\ mismatch' = (mismatch \/ ~ (RangeOf(rec.pids) \subseteq m_appPidPathMap))
       /\ UNCHANGED <<m_appPidPathMap, repeated>>
  ELSE UNCHANGED <<m_appPidPathMap, mismatch, repeated>>

(* StatManager::logStatTraf: nothing is read from a record that arrives    *)
(* after the statistics were switched off.                                 *)
LogStatTraf(rec) ==
  IF logStat
  THEN /\ mismatch' = (mismatch \/ ~ (RangeOf(rec.pids) \subseteq m_appPidPathMap))
       /\ m_appPidPathMap' = m_appPidPathMap \ rec.gone
       /\ UNCHANGED repeated
  ELSE UNCHANGED <<m_appPidPathMap, mismatch, repeated>>

(* LogManager hands the oldest record to StatManager. *)
ReadRecord ==
  LET rec == Head(log)
  IN /\ ~ switching
     /\ LogRead
     /\ IF rec.new THEN LogProcNew(rec.pids[1]) ELSE LogStatTraf(rec)
     /\ UNCHANGED <<logStat, switching, raced>>

-----------------------------------------------------------------------------
(* FortManager::updateDriverConf: the driver switches. *)
BeginSwitch(on) ==
  /\ ~ switching
  /\ switching' = TRUE
  /\ StatUpdate(on)
  /\ UNCHANGED <<m_appPidPathMap, logStat, mismatch, repeated>>

(* Mistake: the table is kept when the statistics are switched off. *)
SetupByConf_Keep(on) == m_appPidPathMap

(* StatManager::setupByConf *)
SetupByConf(on) == IF on THEN m_appPidPathMap ELSE {}

(* StatManager follows, and the UI reads again. *)
EndSwitch ==
  /\ switching
  /\ switching' = FALSE
  /\ logStat' = log_stat
  /\ m_appPidPathMap' = SetupByConf(log_stat)
  /\ UNCHANGED <<vars, mismatch, repeated>>

(* The log does not describe the driver any more when a process is         *)
(* reported before its PROC_NEW record is written, or when the statistics  *)
(* are switched off while records about them are written or unread.        *)
Races ==
  \/ Len(log') > Len(log) /\ ~ log'[Len(log')].new
     /\ \E t \in Threads, k \in Len(log) + 1 .. Len(log') :
           writing[t] \in RangeOf(log'[k].pids)
  \/ log_stat /\ ~ log_stat' /\ (log # <<>> \/ \E t \in Threads : writing[t] # NoPid)

SessionNext ==
  \/ Work /\ UNCHANGED uiVars /\ raced' = (raced \/ Races)
  \/ (\E on \in BOOLEAN : BeginSwitch(on)) /\ raced' = (raced \/ Races)
  \/ EndSwitch /\ UNCHANGED raced
  \/ ReadRecord

SessionSpec == SessionInit /\ [][SessionNext]_sessionVars

-----------------------------------------------------------------------------
(* Properties. *)

(* The UI will know process p when it has read k more records: it knows it *)
(* or reads its PROC_NEW record, and none after that says that it is gone. *)
KnowsAt(p, k) ==
  LET Stays(j) == \A l \in j + 1 .. k : p \notin log[l].gone
  IN \/ p \in m_appPidPathMap /\ Stays(0)
     \/ \E j \in 1 .. k : log[j].new /\ p \in RangeOf(log[j].pids) /\ Stays(j)

(* Unless the log was raced, the UI meets neither an unknown process nor a *)
(* known one that is new; and what it knows and will learn from the unread *)
(* records and from those still to be written is exactly the table of the  *)
(* driver.                                                                 *)
TablesAgree ==
  ~ raced =>
    /\ ~ mismatch /\ ~ repeated
    /\ ~ switching /\ logStat =>
         { p \in Pids : KnowsAt(p, Len(log)) } \cup ({ writing[t] : t \in Threads } \ {NoPid})
           = { procs[i].pid : i \in procs_map }
=============================================================================
