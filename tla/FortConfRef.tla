---------------------------- MODULE FortConfRef ----------------------------
(***************************************************************************)
(* The driver's configuration as reference-counted blocks (fortcnf.c).     *)
(* Classify callbacks, timers and control requests take the current block, *)
(* use it without a lock and put it back; a control request or the end of  *)
(* a session replaces it.  Each action is one critical section of          *)
(* device_conf->ref_lock.                                                  *)
(*                                                                         *)
(* An address is free for a new block as soon as the old one is deleted.   *)
(* What a block holds is left out here: FortDevice has it.                 *)
(***************************************************************************)
EXTENDS Integers, FiniteSets

CONSTANTS
  Threads,  \* everything that takes the configuration
  Setters,  \* those of them that replace it
  Refs,     \* addresses of blocks
  NoRef     \* NULL

ASSUME ConfRefAssumption ==
  /\ IsFiniteSet(Threads) /\ Setters \subseteq Threads
  /\ NoRef \notin Refs

VARIABLES
  ref,         \* device_conf->ref
  live,        \* blocks that are allocated
  refcount,    \* [Refs -> Nat]
  pc,          \* [Threads -> "idle", "using" or "setting"]
  held,        \* [Threads -> the block it has taken]
  new,         \* [Threads -> the block it is about to store]
  overlapped   \* history: two threads were in fort_conf_ref_set at once

vars == <<ref, live, refcount, pc, held, new, overlapped>>

Holders(r) == { t \in Threads : held[t] = r }
Setting == { t \in Threads : pc[t] = "setting" }

Init ==
  /\ ref = NoRef
  /\ live = {}
  /\ refcount = [r \in Refs |-> 0]
  /\ pc = [t \in Threads |-> "idle"]
  /\ held = [t \in Threads |-> NoRef]
  /\ new = [t \in Threads |-> NoRef]
  /\ overlapped = FALSE

-----------------------------------------------------------------------------
(* The counts when one more thread has the current block. *)
Taken(counts) == IF ref = NoRef THEN counts ELSE [counts EXCEPT ![ref] = @ + 1]

(* fort_conf_ref_take; with no configuration there is nothing to use. *)
Take(t) ==
  /\ pc[t] = "idle" /\ ref # NoRef
  /\ refcount' = Taken(refcount)
  /\ held' = [held EXCEPT ![t] = ref]
  /\ pc' = [pc EXCEPT ![t] = "using"]
  /\ UNCHANGED <<ref, live, new, overlapped>>

(* Mistake: a replaced block is deleted by the first thread that puts it. *)
Deletes_Replaced(r, count) == r # ref

(* fort_conf_ref_put deletes the block it puts. *)
Deletes(r, count) == count = 0 /\ r # ref

(* fort_conf_ref_put. *)
Put(t) ==
  /\ pc[t] = "using"
  /\ refcount' = [refcount EXCEPT ![held[t]] = @ - 1]
  /\ live' = IF Deletes(held[t], refcount[held[t]] - 1) THEN live \ {held[t]} ELSE live
  /\ held' = [held EXCEPT ![t] = NoRef]
  /\ pc' = [pc EXCEPT ![t] = "idle"]
  /\ UNCHANGED <<ref, new, overlapped>>

(* fort_conf_ref_new, and the first half of fort_conf_ref_set: the old     *)
(* block is taken, for its flags.  The end of a session stores NoRef.      *)
SetBegin(t, n) ==
  /\ pc[t] = "idle"
  /\ n \in (Refs \ live) \cup {NoRef}
  /\ live' = IF n = NoRef THEN live ELSE live \cup {n}
  /\ refcount' = Taken(IF n = NoRef THEN refcount ELSE [refcount EXCEPT ![n] = 0])
  /\ held' = [held EXCEPT ![t] = ref]
  /\ new' = [new EXCEPT ![t] = n]
  /\ pc' = [pc EXCEPT ![t] = "setting"]
  /\ overlapped' = (overlapped \/ Setting # {})
  /\ UNCHANGED ref

PutsOld(t) == held[t] # NoRef

(* The second half of fort_conf_ref_set; the old block is put next. *)
SetStore(t) ==
  /\ pc[t] = "setting"
  /\ ref' = new[t]
  /\ new' = [new EXCEPT ![t] = NoRef]
  /\ held' = [held EXCEPT ![t] = IF PutsOld(t) THEN @ ELSE NoRef]
  /\ pc' = [pc EXCEPT ![t] = IF PutsOld(t) THEN "using" ELSE "idle"]
  /\ UNCHANGED <<live, refcount, overlapped>>

Next ==
  \/ \E t \in Threads : Take(t) \/ Put(t)
  \/ \E t \in Setters : SetStore(t) \/ \E n \in Refs \cup {NoRef} : SetBegin(t, n)

Spec == Init /\ [][Next]_vars

(* A callback returns and a request ends: none waits for another thread. *)
Fairness ==
  /\ \A t \in Threads : WF_vars(Put(t))
  /\ \A t \in Setters : WF_vars(SetStore(t))

FairSpec == Spec /\ Fairness

-----------------------------------------------------------------------------
TypeOK ==
  /\ ref \in Refs \cup {NoRef}
  /\ live \subseteq Refs
  /\ refcount \in [Refs -> Nat]
  /\ pc \in [Threads -> {"idle", "using", "setting"}]
  /\ held \in [Threads -> Refs \cup {NoRef}]
  /\ new \in [Threads -> Refs \cup {NoRef}]
  /\ overlapped \in BOOLEAN

(* A block that a thread works with, or is about to store, has not been    *)
(* deleted, whoever replaced it meanwhile.                                 *)
HeldIsLive == \A t \in Threads : {held[t], new[t]} \subseteq live \cup {NoRef}

(* The block that the next thread will take has not been deleted. *)
CurrentIsLive == ref \in live \cup {NoRef}

(* refcount is the number of threads that have the block: fort_conf_ref_put *)
(* deletes at zero, and only there.                                        *)
RefcountExact == \A r \in live : refcount[r] = Cardinality(Holders(r))

(* Unless two threads were replacing the configuration at once, every      *)
(* block is the current one, or about to be, or some thread will put it.   *)
NoLeak ==
  ~ overlapped =>
    \A r \in live : r = ref \/ \E t \in Threads : r \in {held[t], new[t]}

(* A new block is stored at an address no thread still uses: no thread     *)
(* sees a block change under it, even when addresses are used again.       *)
FreshIsUnused ==
  [][\A r \in live' \ live : Holders(r) = {} /\ r # ref]_vars

(* As long as no two threads replaced the configuration at once, a         *)
(* replaced block is deleted in the end.                                   *)
Reclaimed ==
  \A r \in Refs : r \in live /\ r # ref ~> r \notin live \/ r = ref \/ overlapped
=============================================================================
