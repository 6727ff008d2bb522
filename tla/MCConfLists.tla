----------------------------- MODULE MCConfLists -----------------------------
(* A configuration has lists of addresses and of programs, zones whose     *)
(* addresses are downloaded, and groups of programs; a run of the model is *)
(* of one list of either kind, of the zones, or of the groups.             *)
EXTENDS AddressList, ProgramList, Tasks, ConfGroups

VARIABLE part

ConfListsInit ==
  /\ part \in {"addresses", "programs", "zones", "groups"}
  /\ TasksInit /\ GroupsInit
  /\ \/ part = "addresses" /\ AddressInit /\ rules = <<>> /\ ProgramStart /\ programPlace = "none"
     \/ part = "programs" /\ ProgramInit /\ lines = <<>> /\ AddressStart /\ place = "none"
     \/ /\ part \in {"zones", "groups"}
        /\ rules = <<>> /\ ProgramStart /\ programPlace = "none"
        /\ lines = <<>> /\ AddressStart /\ place = "none"

ConfListsNext ==
  \/ part = "addresses" /\ AddressNext /\ UNCHANGED <<programVars, tasksVars, groupVars, part>>
  \/ part = "programs" /\ ProgramNext /\ UNCHANGED <<addressVars, tasksVars, groupVars, part>>
  \/ part = "zones" /\ TasksNext /\ UNCHANGED <<addressVars, programVars, groupVars, part>>
  \/ part = "groups" /\ GroupsNext /\ UNCHANGED <<addressVars, programVars, tasksVars, part>>

ConfListsSpec ==
  ConfListsInit /\ [][ConfListsNext]_<<addressVars, programVars, tasksVars, groupVars, part>>
=============================================================================
