---------------------------- MODULE MCStatistics ----------------------------
(* The statistics: the session of driver and UI, with two flows of one     *)
(* process, one of each of two others, and two classify threads; the       *)
(* tables of the database.  A run of the model is of either.               *)
EXTENDS StatSession, StatDb, TLC

CONSTANTS f1, f2, f3, f4, p1, p2, p3

MCPidOf == f1 :> p1 @@ f2 :> p1 @@ f3 :> p2 @@ f4 :> p3

VARIABLE part

allVars == <<sessionVars, statDbVars, part>>

StatisticsInit ==
  /\ SessionInit /\ StatDbInit
  /\ part \in {"session", "tables"}

StatisticsNext ==
  \/ part = "session" /\ SessionNext /\ UNCHANGED <<statDbVars, part>>
  \/ part = "tables" /\ StatDbNext /\ UNCHANGED <<sessionVars, part>>

StatisticsSpec == StatisticsInit /\ [][StatisticsNext]_allVars

(* Past a race the properties of the session say nothing. *)
Unraced == ~ raced

Symmetry == Permutations(Threads) \cup Permutations({f1, f2})
=============================================================================
