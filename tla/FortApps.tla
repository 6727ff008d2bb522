------------------------------ MODULE FortApps ------------------------------
(***************************************************************************)
(* The rules of programs in the driver: the hash table exe_map of each     *)
(* configuration block (fortcnf.c), and the classify callback that looks a *)
(* program up, adds one it does not find and reports it (fortcout.c).      *)
(*                                                                         *)
(* FortConfRef has the blocks themselves.  An action here is one critical  *)
(* section: of ref_lock, of a block's conf_lock, or of the buffer's lock.  *)
(* Addresses are judged before programs; the part of the decision that     *)
(* changes no state, and statistics (FortStat), are left out.              *)
(***************************************************************************)
EXTENDS FortConfRef, Sequences

CONSTANTS
  Programs,  \* paths of executables
  FlagSets,  \* the FORT_CONF_FLAGS a configuration can have
  Addrs,     \* remote addresses: some of {"local", "inet", "excluded"}
  NoRule,    \* FORT_APP_FLAGS that are 0: a program that is not found
  NoBlock,   \* what an address that is not allocated holds
  NoJob,     \* a thread that classifies nothing
  MaxLog     \* bound: records in the buffer

Flags == [filter_enabled : BOOLEAN, stop_traffic : BOOLEAN, stop_inet_traffic : BOOLEAN,
          allow_all_new : BOOLEAN, log_blocked : BOOLEAN, app_block_all : BOOLEAN]
Rules == [blocked : BOOLEAN, own : BOOLEAN]  \* own: history, added by a callback
Jobs == [prog : Programs, allow : BOOLEAN, blocked : BOOLEAN,
         at : {"find", "add", "write", "end"}]
Callbacks == Threads \ Setters

ASSUME AppsAssumption ==
  FlagSets \subseteq Flags /\ NoRule \notin Rules /\ NoJob \notin Jobs

VARIABLES
  conf,  \* [Refs -> NoBlock, or the flags and the rules (exe_map) of the block]
  job,   \* [Threads -> what a callback has found out so far]
  log,   \* BLOCKED records written and not read yet
  lost   \* history: programs whose record found no memory

appVars == <<conf, job, log, lost>>

AppsInit ==
  /\ Init
  /\ conf = [r \in Refs |-> NoBlock]
  /\ job = [t \in Threads |-> NoJob]
  /\ log = <<>> /\ lost = {}

-----------------------------------------------------------------------------
(* fort_callout_classify_v4 *)

(* Neither the switches nor the address decide: the program does. *)
JudgedByProgram(F, addr) ==
  /\ F.filter_enabled /\ ~ F.stop_traffic
  /\ addr # "local" /\ ~ F.stop_inet_traffic /\ addr # "excluded"

(* A program without a rule is reported. *)
Reports(F) == F.allow_all_new \/ F.log_blocked

(* fort_conf_app_blocked of a program without a rule. *)
NewIsBlocked(F) == F.app_block_all

(* The configuration is taken and its flags are copied. *)
ClassifyBegin(t, p, addr) ==
  /\ Take(t)
  /\ LET F == conf[ref].flags
     IN job' = [job EXCEPT ![t] =
          [prog |-> p, allow |-> F.allow_all_new, blocked |-> FALSE,
           at |-> IF JudgedByProgram(F, addr) /\ Reports(F) THEN "find" ELSE "end"]]
  /\ UNCHANGED <<conf, log, lost>>

At(t, place) == job[t] # NoJob /\ job[t].at = place
Goes(t, place) == job' = [job EXCEPT ![t].at = place]
RuleFor(t) == conf[held[t]].rules[job[t].prog]

(* fort_conf_exe_find, and the verdict on a program that is not found; it  *)
(* reads the block's flags, not the copy.  A flow that the statistics      *)
(* block when it is reauthorized ends here.                                *)
FindApp(t) ==
  /\ At(t, "find")
  /\ \/ /\ RuleFor(t) = NoRule
        /\ job' = [job EXCEPT ![t].at = "add",
                              ![t].blocked = ~ job[t].allow /\ NewIsBlocked(conf[held[t]].flags)]
     \/ Goes(t, "end")
  /\ UNCHANGED <<vars, conf, log, lost>>

(* fort_conf_ref_exe_add_path_locked, with is_new, searches once more. *)
AddsNew(t) == RuleFor(t) = NoRule

(* Mistake: the program is reported although it was not added. *)
FailedAdd_Reports(t) == Goes(t, "write")

FailedAdd(t) == Goes(t, "end")

(* fort_conf_ref_exe_add_path; it fails when the program has a rule, or    *)
(* when there is no memory, and then nothing is reported.                  *)
AddPath(t) ==
  /\ At(t, "add")
  /\ \/ /\ AddsNew(t)
        /\ conf' = [conf EXCEPT ![held[t]].rules[job[t].prog] =
                       [blocked |-> job[t].blocked, own |-> TRUE]]
        /\ Goes(t, "write")
     \/ FailedAdd(t) /\ UNCHANGED conf
  /\ UNCHANGED <<vars, log, lost>>

(* fort_buffer_blocked_write; its failure is ignored. *)
WriteBlocked(t) ==
  /\ At(t, "write")
  /\ \/ /\ Len(log) < MaxLog
        /\ log' = Append(log, [prog |-> job[t].prog, blocked |-> job[t].blocked])
        /\ UNCHANGED lost
     \/ /\ lost' = lost \cup {job[t].prog}
        /\ UNCHANGED log
  /\ Goes(t, "end")
  /\ UNCHANGED <<vars, conf>>

(* A deleted block takes its rules with it. *)
PutRules(t) ==
  /\ Put(t)
  /\ conf' = [r \in Refs |-> IF r \in live' THEN conf[r] ELSE NoBlock]

(* The configuration is put back. *)
ClassifyEnd(t) ==
  /\ At(t, "end")
  /\ PutRules(t)
  /\ job' = [job EXCEPT ![t] = NoJob]
  /\ UNCHANGED <<log, lost>>

Classify(t) ==
  \/ \E p \in Programs, addr \in Addrs : ClassifyBegin(t, p, addr)
  \/ FindApp(t) \/ AddPath(t) \/ WriteBlocked(t) \/ ClassifyEnd(t)

-----------------------------------------------------------------------------
(* Control requests. *)

(* SETCONF: a new block with the given rules and flags (fort_conf_ref_new, *)
(* fort_conf_ref_exe_fill) is about to be stored.                          *)
ConfBegin(t, n, F, rules) ==
  /\ SetBegin(t, n)
  /\ conf' = [conf EXCEPT ![n] = [flags |-> F, rules |-> rules]]
  /\ UNCHANGED <<job, log, lost>>

(* The end of a session leaves no configuration. *)
CloseBegin(t) == ref # NoRef /\ SetBegin(t, NoRef) /\ UNCHANGED appVars

ConfStore(t) == SetStore(t) /\ UNCHANGED appVars

(* The old block is put. *)
ConfPutOld(t) == PutRules(t) /\ UNCHANGED <<job, log, lost>>

(* SETFLAGS: fort_conf_ref_flags_set changes the current block. *)
FlagsSet(F) ==
  /\ ref # NoRef
  /\ conf' = [conf EXCEPT ![ref].flags = F]
  /\ UNCHANGED <<vars, job, log, lost>>

(* ADDAPP and DELAPP: fort_device_control_app takes the block, changes it  *)
(* and puts it.  Nobody replaces the block meanwhile, so that its three    *)
(* critical sections are as good as one.                                   *)
ControlApp(p, rule) ==
  /\ ref # NoRef
  /\ conf' = [conf EXCEPT ![ref].rules[p] = rule]
=============================================================================
