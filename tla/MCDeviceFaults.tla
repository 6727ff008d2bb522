--------------------------- MODULE MCDeviceFaults ---------------------------
(* The control plane with a provider that fails in some behaviours only:   *)
(* what those that never fail promise more is told apart.                  *)
EXTENDS MCFortDevice

VARIABLE faulty  \* the provider's transactions may fail

FaultsInit == Init /\ faulty \in BOOLEAN
FaultsNext == Next /\ (failed' => faulty) /\ UNCHANGED faulty
FaultsSpec == FaultsInit /\ [][FaultsNext]_<<vars, faulty>> /\ Fairness

(* As long as no two operations overlap: whenever none runs and the worker *)
(* has nothing to do, through any sequence of sessions, requests and       *)
(* changes of period, the statistics, both timers and the masks are what   *)
(* the flags say, if the last transaction did not fail; and so are the     *)
(* filters of the provider, if none ever did.  (The filters are rebuilt    *)
(* when old and new flags differ, so a transaction that succeeds after one *)
(* that failed need not repair them; the rest is.)                         *)
Settled ==
  (Busy = {} /\ ~ queued /\ ~ Overlaps) =>
     /\ ~ failed => ControlsInLine
     /\ ~ faulty => FiltersInLine
=============================================================================
