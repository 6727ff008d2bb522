----------------------------- MODULE MCService -----------------------------
(* The service: its clients, and the quotas it alerts them of.  A run of   *)
(* the model is of either.                                                 *)
EXTENDS Rpc, StatQuota, TLC

MCKeepDays == {-1, 0}

VARIABLE part

ServiceInit ==
  /\ Init /\ QuotaInit /\ part \in {"calls", "quotas"}
  /\ part = "quotas" => ~ hasPassword

ServiceNext ==
  \/ part = "calls" /\ Next /\ UNCHANGED <<quotaVars, part>>
  \/ part = "quotas" /\ QuotaNext /\ UNCHANGED <<vars, part>>

ServiceSpec == ServiceInit /\ [][ServiceNext]_<<vars, quotaVars, part>>

Symmetry == Permutations(Clients) \cup Permutations(Values)
=============================================================================
