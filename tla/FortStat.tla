------------------------------ MODULE FortStat ------------------------------
(***************************************************************************)
(* The driver's traffic statistics (fortstat.c): processes, the flows that *)
(* count on them, the chain of processes with news, and the log records    *)
(* about them that classify callbacks and the log timer write.             *)
(*                                                                         *)
(* Everything but the write of a PROC_NEW record runs under the stat lock, *)
(* so one action is one critical section; that record is written by the    *)
(* classify callback after it has released the lock.                       *)
(*                                                                         *)
(* Indexes of the process array count from 1 here.  Memory for an element  *)
(* of an array is always found, as in the code, which does not check.      *)
(***************************************************************************)
EXTENDS Integers, Sequences, FiniteSets

CONSTANTS
  Threads,   \* threads running a classify callback
  Pids,      \* process identifiers
  FlowIds,   \* flow handles
  PidOf,     \* [FlowIds -> Pids]: the process a flow belongs to
  ProcMax,   \* FORT_PROC_COUNT_MAX
  ChunkMax,  \* FORT_LOG_STAT_BUFFER_PROC_COUNT: processes in a traffic record
  RefWord,   \* 2^16: a process's UINT16 refcount wraps here
  Lens,      \* data lengths
  NoPid,     \* a thread that has no record to write
  MaxLog,    \* bound: records waiting in the log
  MaxBytes,  \* bound: unreported bytes of a process
  MaxToggles \* bound: times log_stat is switched on

ASSUME StatAssumption ==
  /\ PidOf \in [FlowIds -> Pids]
  /\ NoPid \notin Pids
  /\ ProcMax \in Nat /\ ChunkMax \in Nat \ {0}
  /\ Lens \subseteq Nat
  /\ MaxLog \in Nat /\ MaxBytes \in Nat /\ MaxToggles \in Nat

(* Fewer flows than a refcount can count. *)
ASSUME RefAssumption ==
  /\ IsFiniteSet(FlowIds)
  /\ RefWord \in Nat
  /\ Cardinality(FlowIds) < RefWord

VARIABLES
  log_stat,     \* stat->log_stat
  procs,        \* the array: sequence of [pid, active, refcount, traf]
  procs_map,    \* indexes in the hash table
  proc_free,    \* indexes in the free chain; which one is used next is not said
  proc_active,  \* the chain of processes with news, head first
  proc_active_count,
  flows,        \* [FlowIds -> index, BadIndex or NoFlow]
  writing,      \* [Threads -> the pid whose PROC_NEW record is still to be written]
  log,          \* records written and not read yet
  unreported,   \* history: bytes counted and not reported, per process
  toggles

procVars == <<procs, procs_map, proc_free, proc_active, proc_active_count>>
vars == <<log_stat, procVars, flows, writing, log, unreported, toggles>>

BadIndex == 0   \* FORT_PROC_BAD_INDEX: the flow outlived the statistics it was in
NoFlow == -1    \* the flow is not in the table

Indexes == DOMAIN procs
RangeOf(s) == { s[k] : k \in DOMAIN s }
FlowsOn(i) == { f \in FlowIds : flows[f] = i }

Init ==
  /\ log_stat = FALSE
  /\ procs = <<>> /\ procs_map = {} /\ proc_free = {}
  /\ proc_active = <<>> /\ proc_active_count = 0
  /\ flows = [f \in FlowIds |-> NoFlow]
  /\ writing = [t \in Threads |-> NoPid]
  /\ log = <<>>
  /\ unreported = [p \in Pids |-> 0]
  /\ toggles = 0

-----------------------------------------------------------------------------
(* Processes. *)

Found(p) == { i \in procs_map : procs[i].pid = p }

(* The process is put in the chain; the caller sets its active flag. *)
ActiveAdd(i) ==
  IF procs[i].active
  THEN UNCHANGED <<proc_active, proc_active_count>>
  ELSE /\ proc_active' = <<i>> \o proc_active
       /\ proc_active_count' = proc_active_count + 1

CanGrow == Len(procs) + 1 < ProcMax

(* The indexes a new process can get. *)
NewIndexes ==
  IF proc_free # {} THEN proc_free ELSE IF CanGrow THEN {Len(procs) + 1} ELSE {}

(* Mistake: the bytes of the last process with this index are kept. *)
NewProc_KeepTraf(i, p, count) ==
  [pid |-> p, active |-> FALSE, refcount |-> count,
   traf |-> IF i \in Indexes THEN procs[i].traf ELSE 0]

NewProc(i, p, count) == [pid |-> p, active |-> FALSE, refcount |-> count, traf |-> 0]

FreeAfter(i) == proc_free \ {i}

(* Process p gets index i, and count flows count on it. *)
ProcAdd(i, p, count) ==
  /\ procs' = IF i \in Indexes
              THEN [procs EXCEPT ![i] = NewProc(i, p, count)]
              ELSE Append(procs, NewProc(i, p, count))
  /\ proc_free' = FreeAfter(i)
  /\ procs_map' = procs_map \cup {i}

-----------------------------------------------------------------------------
(* fort_flow_associate, called by a classify callback for an allowed flow. *)

IsNewFlow(f) == flows[f] \in {NoFlow, BadIndex}

(* Its process is unknown: it is added, and the callback will log it.  A   *)
(* reauthorized flow is blocked instead, and no action models that.        *)
AssociateNew(t, f) ==
  \E i \in NewIndexes :
     /\ log_stat /\ writing[t] = NoPid /\ Found(PidOf[f]) = {}
     /\ ProcAdd(i, PidOf[f], IF IsNewFlow(f) THEN 1 ELSE 0)
     /\ flows' = [flows EXCEPT ![f] = i]
     /\ writing' = [writing EXCEPT ![t] = PidOf[f]]
     /\ UNCHANGED <<log_stat, proc_active, proc_active_count, log, unreported, toggles>>

(* Its process is known.  A reauthorized flow that is not is blocked. *)
AssociateOld(f, reauth) ==
  \E i \in Found(PidOf[f]) :
     /\ log_stat
     /\ flows[f] = NoFlow => ~ reauth
     /\ procs' = IF IsNewFlow(f)
                 THEN [procs EXCEPT ![i].refcount = (@ + 1) % RefWord]
                 ELSE procs
     /\ flows' = [flows EXCEPT ![f] = i]
     /\ UNCHANGED <<log_stat, procs_map, proc_free, proc_active, proc_active_count,
                    writing, log, unreported, toggles>>

(* The callback writes the PROC_NEW record it owes, after the unlock. *)
ProcNewWrite(t) ==
  /\ writing[t] # NoPid
  /\ Len(log) < MaxLog
  /\ log' = Append(log, [pids |-> <<writing[t]>>, new |-> TRUE, gone |-> {}])
  /\ writing' = [writing EXCEPT ![t] = NoPid]
  /\ UNCHANGED <<log_stat, procVars, flows, unreported, toggles>>

-----------------------------------------------------------------------------
(* Data and end of a flow. *)

(* fort_flow_classify: a stream or datagram callout saw len bytes of the flow. *)
FlowClassify(f, len) ==
  LET i == flows[f]
  IN /\ log_stat /\ i \notin {NoFlow, BadIndex}
     /\ unreported[PidOf[f]] + len <= MaxBytes
     /\ procs' = [procs EXCEPT ![i].traf = @ + len, ![i].active = TRUE]
     /\ ActiveAdd(i)
     /\ unreported' = [unreported EXCEPT ![PidOf[f]] = @ + len]
     /\ UNCHANGED <<log_stat, procs_map, proc_free, flows, writing, log, toggles>>

(* The flow that ends was the last one of its process. *)
LastFlow(i) == (procs[i].refcount - 1) % RefWord = 0

(* fort_flow_delete.  A process whose last flow has gone has news: it is   *)
(* inactive.                                                               *)
FlowDelete(f) ==
  LET i == flows[f]
  IN /\ i # NoFlow
     /\ flows' = [flows EXCEPT ![f] = NoFlow]
     /\ IF i = BadIndex
        THEN UNCHANGED procVars
        ELSE /\ procs' = [procs EXCEPT ![i].refcount = (@ - 1) % RefWord,
                                       ![i].active = @ \/ LastFlow(i)]
             /\ IF LastFlow(i) THEN ActiveAdd(i)
                ELSE UNCHANGED <<proc_active, proc_active_count>>
             /\ UNCHANGED <<procs_map, proc_free>>
     /\ UNCHANGED <<log_stat, writing, log, unreported, toggles>>

-----------------------------------------------------------------------------
(* The log timer, which holds both locks. *)

(* Mistake: a process without traffic is gone. *)
Gone_NoTraffic(i) == procs[i].traf = 0

Gone(i) == procs[i].refcount = 0

(* The traffic record of a part of the chain. *)
TrafRecord(s) ==
  [pids |-> [k \in DOMAIN s |-> procs[s[k]].pid], new |-> FALSE,
   gone |-> { procs[i].pid : i \in { j \in RangeOf(s) : Gone(j) } }]

Records(n) ==
  [k \in 1 .. (n + ChunkMax - 1) \div ChunkMax |->
     TrafRecord(SubSeq(proc_active, (k - 1) * ChunkMax + 1,
                       IF k * ChunkMax < n THEN k * ChunkMax ELSE n))]

(* A process that has been reported and goes on. *)
Restarted(proc) == [proc EXCEPT !.active = FALSE, !.traf = 0]

CountAfter(n) == proc_active_count - n

(* Mistake: the chain is emptied wherever the timer stops. *)
ChainAfter_Empty(n) == <<>>

ChainAfter(n) == SubSeq(proc_active, n + 1, Len(proc_active))

(* The first n processes of the chain are written: all of them, or a whole *)
(* number of records when there is no memory for the next one.  Processes  *)
(* without flows are removed, the others start anew.                       *)
TrafFlush(n) ==
  LET flushed == { proc_active[k] : k \in 1 .. n }
      gone == { i \in flushed : Gone(i) }
  IN /\ n \in 1 .. Len(proc_active)
     /\ n = Len(proc_active) \/ n % ChunkMax = 0
     /\ Len(log) + Len(Records(n)) <= MaxLog
     /\ log' = log \o Records(n)
     /\ procs' = [i \in Indexes |-> IF i \in flushed \ gone THEN Restarted(procs[i]) ELSE procs[i]]
     /\ procs_map' = procs_map \ gone
     /\ proc_free' = proc_free \cup gone
     /\ proc_active' = ChainAfter(n)
     /\ proc_active_count' = CountAfter(n)
     /\ unreported' = [p \in Pids |->
                         IF \E i \in flushed : procs[i].pid = p THEN 0 ELSE unreported[p]]
     /\ UNCHANGED <<log_stat, flows, writing, toggles>>

-----------------------------------------------------------------------------
(* fort_stat_update, called when the configuration's log_stat changes. *)

FlowsClosed == [f \in FlowIds |-> IF flows[f] = NoFlow THEN NoFlow ELSE BadIndex]

StatClear ==
  /\ procs_map' = {}
  /\ proc_free' = proc_free \cup procs_map
  /\ proc_active' = <<>> /\ proc_active_count' = 0
  /\ flows' = FlowsClosed
  /\ unreported' = [p \in Pids |-> 0]
  /\ UNCHANGED procs

StatUpdate(on) ==
  /\ toggles' = IF on /\ ~ log_stat THEN toggles + 1 ELSE toggles
  /\ toggles' <= MaxToggles
  /\ log_stat' = on
  /\ IF log_stat /\ ~ on THEN StatClear ELSE UNCHANGED <<procVars, flows, unreported>>
  /\ UNCHANGED <<writing, log>>

(* The client takes the oldest record. *)
LogRead ==
  /\ log # <<>>
  /\ log' = Tail(log)
  /\ UNCHANGED <<log_stat, procVars, flows, writing, unreported, toggles>>

(* Classify callbacks and the log timer. *)
Work ==
  \/ \E t \in Threads, f \in FlowIds : AssociateNew(t, f)
  \/ \E f \in FlowIds, reauth \in BOOLEAN : AssociateOld(f, reauth)
  \/ \E t \in Threads : ProcNewWrite(t)
  \/ \E f \in FlowIds, len \in Lens : FlowClassify(f, len)
  \/ \E f \in FlowIds : FlowDelete(f)
  \/ \E n \in 1 .. Len(proc_active) : TrafFlush(n)

Next ==
  \/ Work
  \/ \E on \in BOOLEAN : StatUpdate(on)
  \/ LogRead

Spec == Init /\ [][Next]_vars

-----------------------------------------------------------------------------
(* Properties. *)

Proc == [pid : Pids, active : BOOLEAN, refcount : Nat, traf : Nat]

(* The state has its types; indexes stay below the 15 bits they are kept in. *)
TypeOK ==
  /\ log_stat \in BOOLEAN
  /\ procs \in Seq(Proc) /\ (procs # <<>> => Len(procs) < ProcMax)
  /\ procs_map \subseteq Indexes /\ proc_free \subseteq Indexes
  /\ proc_active \in Seq(Indexes) /\ proc_active_count \in Nat
  /\ flows \in [FlowIds -> Indexes \cup {BadIndex, NoFlow}]
  /\ writing \in [Threads -> Pids \cup {NoPid}]
  /\ log \in Seq([pids : Seq(Pids), new : BOOLEAN, gone : SUBSET Pids])
  /\ unreported \in [Pids -> Nat]
  /\ toggles \in Nat

(* Every index is in the hash table or in the free chain, never in both: a *)
(* process is neither leaked nor used after it was freed.                  *)
IndexesSplit == procs_map \cap proc_free = {} /\ procs_map \cup proc_free = Indexes

(* A flow counts on a live process, its own. *)
FlowsOnLiveProc ==
  \A f \in FlowIds : flows[f] \in Indexes =>
     flows[f] \in procs_map /\ procs[flows[f]].pid = PidOf[f]

(* The refcount of a process is the number of its flows, through new flows, *)
(* reauthorizations, ends of flows and switches of log_stat.                *)
RefcountExact == \A i \in procs_map : procs[i].refcount = Cardinality(FlowsOn(i))

(* The chain the timer reports holds the processes marked active, once     *)
(* each, and its counter, which bounds the timer's loop, is its length.    *)
ActiveChain ==
  /\ proc_active_count = Len(proc_active)
  /\ \A k, l \in DOMAIN proc_active : proc_active[k] = proc_active[l] => k = l
  /\ RangeOf(proc_active) = { i \in procs_map : procs[i].active }

(* A process the timer has to come to: it has bytes to report, or no flow, *)
(* so that it is to be reported as inactive and freed, which nobody else   *)
(* does.                                                                   *)
HasNews(i) == procs[i].traf # 0 \/ procs[i].refcount = 0

(* Such a process is marked active. *)
NewsIsActive == \A i \in procs_map : HasNews(i) => procs[i].active

(* A process identifier is in the table once. *)
PidOnce == \A i, j \in procs_map : procs[i].pid = procs[j].pid => i = j

(* The bytes kept for a process are those its flows had since it was last  *)
(* reported. *)
BytesExact ==
  \A p \in Pids :
     /\ \A i \in Found(p) : procs[i].traf = unreported[p]
     /\ Found(p) = {} => unreported[p] = 0

(* No byte is lost, counted twice or for another process, and what there   *)
(* is to report waits for the timer in its chain: also after the timer has *)
(* stopped half-way, because there was no memory for the next record.      *)
TrafficExact ==
  /\ BytesExact
  /\ \A i \in procs_map : HasNews(i) => i \in RangeOf(proc_active)

(* Without statistics there is nothing left that could be reported. *)
OffIsEmpty ==
  ~ log_stat => procs_map = {} /\ \A f \in FlowIds : flows[f] \in {BadIndex, NoFlow}

(* A flow is never taken from one process to another one. *)
FlowKeepsProc ==
  [][\A f \in FlowIds : flows[f] \in Indexes /\ flows'[f] \in Indexes => flows'[f] = flows[f]]_vars

(* A process is reported as gone only when none of its flows is left. *)
GoneHasNoFlows ==
  [][\A k \in Len(log) + 1 .. Len(log') : \A p \in log'[k].gone :
        \A f \in FlowIds : PidOf[f] = p => flows[f] \in {BadIndex, NoFlow}]_vars
=============================================================================
