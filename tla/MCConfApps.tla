----------------------------- MODULE MCConfApps -----------------------------
(* Model-checking values for ConfApps. *)
EXTENDS ConfApps, TLC

CONSTANTS t1, t2, r1, r2, r3, p1, p2

Filtering == [filter_enabled |-> TRUE, stop_traffic |-> FALSE, stop_inet_traffic |-> FALSE,
              allow_all_new |-> FALSE, log_blocked |-> TRUE, app_block_all |-> TRUE]

(* New programs are blocked and reported; or allowed and reported. *)
MCFlagSets == { Filtering, [Filtering EXCEPT !.allow_all_new = TRUE] }

Symmetry == Permutations(Callbacks) \cup Permutations(Refs)
=============================================================================
