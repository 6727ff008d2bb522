----------------------------- MODULE WorkerPool -----------------------------
(***************************************************************************)
(* WorkerManager (workermanager.cpp) and its WorkerObjects: threads that   *)
(* start on demand, take jobs from one queue, and end when they were idle  *)
(* for 15 seconds or the manager is aborted.  One mutex and one condition  *)
(* variable serve the jobs and the end of the threads.                     *)
(*                                                                         *)
(* An action is one critical section of m_mutex, or what a thread does     *)
(* between two of them.  QThreadPool has 8 threads or more, which is more  *)
(* than all managers want, so a worker that is started does run.           *)
(***************************************************************************)
EXTENDS Naturals, FiniteSets, Sequences

CONSTANTS
  Workers,     \* WorkerObjects; one that has ended may be started again
  MaxWorkers,  \* maxWorkersCount()
  Jobs,        \* what is looked up
  NoJob,
  MaxJobs      \* bound: jobs queued, being done, or done and not delivered

ASSUME PoolAssumption ==
  /\ MaxWorkers \in Nat \ {0} /\ MaxJobs \in Nat
  /\ IsFiniteSet(Workers) /\ MaxWorkers <= Cardinality(Workers)

VARIABLES
  m_jobQueue,
  aborted,  \* m_aborted
  worker,   \* [Workers -> "none", and, in m_workers: "ready", "waiting",
            \*  "expired", "working" or "leaving"]
  job,      \* [Workers -> the job it works on]
  owner,    \* the thread of the manager: "open", "closing", "waiting", "closed"
  lookups,  \* lookupFinished signals on their way to that thread
  missed    \* history: the last job found only workers that were leaving

poolVars == <<m_jobQueue, aborted, worker, job, owner, lookups, missed>>

m_workers == { w \in Workers : worker[w] # "none" }
In(place) == { w \in Workers : worker[w] = place }

PoolInit ==
  /\ m_jobQueue = <<>> /\ aborted = FALSE
  /\ worker = [w \in Workers |-> "none"]
  /\ job = [w \in Workers |-> NoJob]
  /\ owner = "open" /\ lookups = <<>> /\ missed = FALSE

-----------------------------------------------------------------------------
(* The thread of the manager. *)

(* Mistake: a worker is started only when jobs are waiting already. *)
Starts_Late == Cardinality(m_workers) < MaxWorkers /\ m_jobQueue # <<>>

(* setupWorker, before the job is in the queue. *)
Starts == m_workers = {} \/ (Cardinality(m_workers) < MaxWorkers /\ m_jobQueue # <<>>)

(* m_waitCondition.wakeOne of a job: one of those that wait, if any. *)
WakeOne(at) ==
  LET waiting == { v \in Workers : at[v] = "waiting" }
  IN IF waiting = {} THEN {at} ELSE { [at EXCEPT ![w] = "ready"] : w \in waiting }

(* enqueueJob *)
EnqueueJob(j) ==
  /\ m_jobQueue' = Append(m_jobQueue, j)
  /\ \/ Starts /\ \E w \in In("none") : worker' \in WakeOne([worker EXCEPT ![w] = "ready"])
     \/ ~ Starts /\ worker' \in WakeOne(worker)
  /\ missed' = (m_workers # {} /\ \A w \in Workers : worker'[w] \in {"none", "leaving"})
  /\ UNCHANGED <<aborted, job, owner, lookups>>

(* clear: the jobs are gone. *)
ClearJobs == m_jobQueue' = <<>> /\ missed' = FALSE

(* All are woken. *)
AbortWorkers ==
  /\ owner = "closing"
  /\ aborted' = TRUE
  /\ worker' = [w \in Workers |-> IF worker[w] = "waiting" THEN "ready" ELSE worker[w]]
  /\ owner' = IF m_workers = {} THEN "closed" ELSE "waiting"
  /\ UNCHANGED <<m_jobQueue, job, lookups, missed>>

-----------------------------------------------------------------------------
(* A worker: WorkerObject::run. *)

(* Mistake: a worker that has timed out does not look again. *)
Takes_Unexpired(w) == ~ aborted /\ m_jobQueue # <<>> /\ worker[w] = "ready"

Takes(w) == ~ aborted /\ m_jobQueue # <<>>

(* dequeueJob, at its start and when it was woken or timed out. *)
DequeueJob(w) ==
  /\ worker[w] \in {"ready", "expired"}
  /\ IF Takes(w)
     THEN /\ job' = [job EXCEPT ![w] = Head(m_jobQueue)]
          /\ m_jobQueue' = Tail(m_jobQueue)
          /\ worker' = [worker EXCEPT ![w] = "working"]
     ELSE /\ worker' = [worker EXCEPT ![w] =
                IF aborted \/ worker[w] = "expired" THEN "leaving" ELSE "waiting"]
          /\ UNCHANGED <<job, m_jobQueue>>
  /\ UNCHANGED <<aborted, owner, lookups, missed>>

(* WORKER_TIMEOUT_MSEC are over. *)
Expire(w) ==
  /\ worker[w] = "waiting"
  /\ worker' = [worker EXCEPT ![w] = "expired"]
  /\ UNCHANGED <<m_jobQueue, aborted, job, owner, lookups, missed>>

(* doJob, handleWorkerResult: nothing is reported once it was aborted. *)
DoJob(w) ==
  /\ worker[w] = "working"
  /\ lookups' = IF aborted THEN lookups ELSE Append(lookups, job[w])
  /\ worker' = [worker EXCEPT ![w] = "ready"]
  /\ job' = [job EXCEPT ![w] = NoJob]
  /\ UNCHANGED <<m_jobQueue, aborted, owner, missed>>

(* Mistake: the owner is not woken. *)
WakesOwner_Never(left) == FALSE

(* Only the owner can be waiting when no worker is left. *)
WakesOwner(left) == left = {}

(* workerFinished; the owner waits until there are no workers. *)
WorkerFinished(w) ==
  /\ worker[w] = "leaving"
  /\ worker' = [worker EXCEPT ![w] = "none"]
  /\ owner' = IF owner = "waiting" /\ WakesOwner(m_workers \ {w}) THEN "closed" ELSE owner
  /\ UNCHANGED <<m_jobQueue, aborted, job, lookups, missed>>

Run(w) == DequeueJob(w) \/ Expire(w) \/ DoJob(w) \/ WorkerFinished(w)

-----------------------------------------------------------------------------
(* A job is waiting for a worker that will look at the queue, and a worker *)
(* sleeps only when each job has another that is awake for it.  The code   *)
(* has one hole: a worker that has timed out is still in m_workers until   *)
(* it reports its end, and a job that comes in between starts no other.    *)
JobHasWorker ==
  m_jobQueue # <<>> /\ ~ aborted =>
    /\ missed \/ m_workers # In("leaving")
    /\ In("waiting") # {} => Len(m_jobQueue) <= Cardinality(In("ready") \cup In("expired"))
=============================================================================
