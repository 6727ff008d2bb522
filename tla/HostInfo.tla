------------------------------ MODULE HostInfo ------------------------------
(***************************************************************************)
(* The names of hosts: HostInfoCache (hostinfocache.cpp) shows what it     *)
(* knows of an address and has HostInfoManager, a WorkerPool, look up the  *)
(* rest.  Results come back as queued signals, after the list of           *)
(* connections may have been cleared, or the entry evicted.                *)
(***************************************************************************)
EXTENDS WorkerPool

CONSTANT MaxCost  \* entries m_cache can hold

VARIABLE m_cache  \* [Jobs -> "none", "asked" or "known"]

hostVars == <<poolVars, m_cache>>

HostInit == PoolInit /\ m_cache = [a \in Jobs |-> "none"]

Cached == { a \in Jobs : m_cache[a] # "none" }

Pending == Len(m_jobQueue) + Cardinality(In("working")) + Len(lookups)

(* HostInfoCache::hostName of an address it does not know.  A full cache   *)
(* drops its least recently used entry: any one, as those that are shown   *)
(* are read again and again.                                               *)
HostName(a) ==
  /\ owner = "open" /\ m_cache[a] = "none" /\ Pending < MaxJobs
  /\ \E out \in IF Cardinality(Cached) < MaxCost THEN {{}} ELSE { {b} : b \in Cached } :
        m_cache' = [b \in Jobs |-> IF b = a THEN "asked" ELSE IF b \in out THEN "none" ELSE m_cache[b]]
  /\ EnqueueJob(a)

(* HostInfoCache::clear *)
Clear ==
  /\ owner = "open"
  /\ ClearJobs
  /\ m_cache' = [a \in Jobs |-> "none"]
  /\ UNCHANGED <<aborted, worker, job, owner, lookups>>

(* HostInfoCache::handleFinishedLookup, from the event loop. *)
HandleFinishedLookup ==
  /\ owner = "open" /\ lookups # <<>>
  /\ lookups' = Tail(lookups)
  /\ m_cache' = [m_cache EXCEPT ![Head(lookups)] = IF @ = "none" THEN "none" ELSE "known"]
  /\ UNCHANGED <<m_jobQueue, aborted, worker, job, owner, missed>>

(* ~HostInfoCache: clear, and close. *)
Destroy ==
  /\ owner = "open"
  /\ owner' = "closing"
  /\ ClearJobs
  /\ m_cache' = [a \in Jobs |-> "none"]
  /\ UNCHANGED <<aborted, worker, job, lookups>>

HostNext ==
  \/ \E a \in Jobs : HostName(a)
  \/ Clear
  \/ HandleFinishedLookup
  \/ Destroy
  \/ AbortWorkers /\ UNCHANGED m_cache
  \/ \E w \in Workers : Run(w) /\ UNCHANGED m_cache

(* Lookups end, threads run, waits time out and the event loop turns. *)
HostFair ==
  /\ WF_hostVars(HandleFinishedLookup) /\ WF_hostVars(AbortWorkers /\ UNCHANGED m_cache)
  /\ \A w \in Workers : WF_hostVars(Run(w) /\ UNCHANGED m_cache)

HostSpec == HostInit /\ [][HostNext]_hostVars /\ HostFair

-----------------------------------------------------------------------------
(* Every name that is shown as unknown becomes known, unless its entry     *)
(* goes, or its job was missed by workers that were leaving; the next job  *)
(* takes that one along.                                                   *)
NamesArrive ==
  \A a \in Jobs : m_cache[a] = "asked" ~> m_cache[a] # "asked" \/ missed

(* The end of the program waits for the lookups and not longer. *)
CloseEnds == owner = "closing" ~> owner = "closed" /\ m_workers = {}
=============================================================================
