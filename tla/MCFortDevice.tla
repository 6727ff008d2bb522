---------------------------- MODULE MCFortDevice ----------------------------
(* FortDevice with small sets of configurations and flags. *)
EXTENDS FortDevice

Off == NoFlags(FALSE)
Stat == [Off EXCEPT !.log_stat = TRUE]

(* A group with a period and a limit, statistics on; no period, boot-time  *)
(* filters, other logs; a group without limits.                            *)
MCConfs ==
  { [flags |-> [Stat EXCEPT !.group = TRUE], periods |-> TRUE, filter |-> TRUE],
    [flags |-> [Off EXCEPT !.log = TRUE, !.prov_boot = TRUE], periods |-> FALSE, filter |-> FALSE],
    [flags |-> [Stat EXCEPT !.group = TRUE], periods |-> FALSE, filter |-> FALSE] }

(* A group with a period and nothing else, for runs with more threads. *)
MCConfsPeriods == { [flags |-> [Off EXCEPT !.group = TRUE], periods |-> TRUE, filter |-> FALSE] }

MCFlagSets ==
  { [Off EXCEPT !.group = TRUE, !.prov_boot = TRUE], [Stat EXCEPT !.log = TRUE] }

NoFlagSets == {}
=============================================================================
