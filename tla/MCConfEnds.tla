----------------------------- MODULE MCConfEnds -----------------------------
(* Model-checking values for ConfEnds: a program and its name. *)
EXTENDS ConfEnds

CONSTANTS t1, r1, r2, p1, n1

MCNameOf == [p \in Programs |-> n1]

Filtering == [filter_enabled |-> TRUE, stop_traffic |-> FALSE, stop_inet_traffic |-> FALSE,
              allow_all_new |-> FALSE, log_blocked |-> TRUE, app_block_all |-> TRUE]

MCFlagSets == { Filtering }
=============================================================================
