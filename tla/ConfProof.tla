----------------------------- MODULE ConfProof -----------------------------
(***************************************************************************)
(* Proofs about the configuration.                                         *)
(*                                                                         *)
(* Its reference-counted blocks in the driver, for any threads and         *)
(* addresses: counts are exact, no block is deleted while a thread or the  *)
(* device has it, and none leaks unless two threads replaced it at once.   *)
(*                                                                         *)
(* The rules of programs in it (ConfApps), for any programs and flags: the *)
(* driver does what the user set, and the user learns of every program the *)
(* driver decided on itself.                                               *)
(*                                                                         *)
(* Its lists of addresses, of any length: an address is found when, and    *)
(* only when, a line has it (AddressInv: what the map has of the lines,    *)
(* the arrays of the map, and the search has left of the arrays).          *)
(*                                                                         *)
(* Its zones, of any number and changed in any way while they are          *)
(* downloaded: the driver has the addresses of their files (TasksInv: what *)
(* a run has collected are the files of the zones it has finished, which   *)
(* are the first ones, each in the place of its rank).                     *)
(***************************************************************************)
EXTENDS ConfApps, AddressList, Tasks, SequenceLemmas, SequenceTheorems, FiniteSetTheorems, TLAPS

-----------------------------------------------------------------------------
(* Blocks and the rules in them. *)

(* What a thread has at each place of its code. *)
PcHeld ==
  \A t \in Threads :
     /\ pc[t] = "idle" => held[t] = NoRef
     /\ pc[t] = "using" => held[t] \in live
     /\ pc[t] # "setting" => new[t] = NoRef

(* A block that is not stored yet is known to its thread only. *)
NewIsPrivate ==
  \A t \in Threads :
     new[t] # NoRef =>
       /\ new[t] # ref
       /\ \A u \in Threads : held[u] # new[t] /\ (u # t => new[u] # new[t])

(* A lone setter replaces the block it took. *)
LoneSetter ==
  ~ overlapped => \A t \in Setting : held[t] = ref /\ \A u \in Setting : u = t

IInv ==
  /\ TypeOK /\ HeldIsLive /\ CurrentIsLive /\ RefcountExact
  /\ PcHeld /\ NewIsPrivate
  /\ LoneSetter /\ NoLeak

-----------------------------------------------------------------------------
(* Threads that have a block, counted. *)

LEMMA HoldersFinite ==
  ASSUME NEW r
  PROVE  IsFiniteSet(Holders(r)) /\ Cardinality(Holders(r)) \in Nat
<1>1. Holders(r) \in SUBSET Threads
  BY DEF Holders
<1>2. QED
  BY <1>1, ConfRefAssumption, FS_Subset, FS_CardinalityType DEF ConfRefAssumption

LEMMA HolderArrives ==
  ASSUME NEW t \in Threads, NEW r, held \in [Threads -> Refs \cup {NoRef}], held[t] = NoRef,
         r # NoRef, held' = [held EXCEPT ![t] = r]
  PROVE  /\ Cardinality(Holders(r)') = Cardinality(Holders(r)) + 1
         /\ \A q : q # r /\ q # NoRef => Holders(q)' = Holders(q)
<1>1. Holders(r)' = Holders(r) \cup {t} /\ t \notin Holders(r)
  BY DEF Holders
<1>2. \A q : q # r /\ q # NoRef => Holders(q)' = Holders(q)
  BY DEF Holders
<1>3. QED
  BY <1>1, <1>2, HoldersFinite, FS_AddElement

LEMMA HolderLeaves ==
  ASSUME NEW t \in Threads, NEW r, held \in [Threads -> Refs \cup {NoRef}], held[t] = r,
         r # NoRef, held' = [held EXCEPT ![t] = NoRef]
  PROVE  /\ Cardinality(Holders(r)') = Cardinality(Holders(r)) - 1
         /\ Cardinality(Holders(r)) # 0
         /\ \A q : q # r /\ q # NoRef => Holders(q)' = Holders(q)
<1>1. Holders(r)' = Holders(r) \ {t} /\ t \in Holders(r)
  BY DEF Holders
<1>2. \A q : q # r /\ q # NoRef => Holders(q)' = Holders(q)
  BY DEF Holders
<1>3. Cardinality(Holders(r)) # 0
  BY <1>1, HoldersFinite, FS_EmptySet
<1>4. QED
  BY <1>1, <1>2, <1>3, HoldersFinite, FS_RemoveElement

LEMMA NoHolders ==
  ASSUME NEW r, Cardinality(Holders(r)) = 0
  PROVE  \A t \in Threads : held[t] # r
<1>1. Holders(r) = {}
  BY HoldersFinite, FS_EmptySet
<1>2. QED
  BY <1>1 DEF Holders

-----------------------------------------------------------------------------
LEMMA InitInv == Init => IInv
<1>1. SUFFICES ASSUME Init PROVE IInv
  OBVIOUS
<1>2. TypeOK /\ PcHeld /\ NewIsPrivate
  BY <1>1 DEF Init, TypeOK, PcHeld, NewIsPrivate
<1>3. HeldIsLive /\ CurrentIsLive /\ RefcountExact /\ NoLeak
  BY <1>1 DEF Init, HeldIsLive, CurrentIsLive, RefcountExact, NoLeak
<1>4. LoneSetter
  BY <1>1 DEF Init, LoneSetter, Setting
<1>5. QED
  BY <1>2, <1>3, <1>4 DEF IInv

LEMMA TakeInv ==
  ASSUME IInv, NEW t \in Threads, Take(t)
  PROVE  IInv'
<1>1. ref \in live /\ ref \in Refs /\ held[t] = NoRef /\ new[t] = NoRef
  BY DEF IInv, Take, CurrentIsLive, TypeOK, PcHeld
<1>2. refcount' = [refcount EXCEPT ![ref] = @ + 1] /\ UNCHANGED <<ref, live, new, overlapped>>
  BY DEF Take, Taken
<1>3. TypeOK'
  BY <1>1, <1>2 DEF IInv, TypeOK, Take
<1>4. HeldIsLive' /\ CurrentIsLive'
  BY <1>1, <1>2 DEF IInv, TypeOK, Take, HeldIsLive, CurrentIsLive
<1>5. RefcountExact'
  <2>1. /\ Cardinality(Holders(ref)') = Cardinality(Holders(ref)) + 1
        /\ \A q : q # ref /\ q # NoRef => Holders(q)' = Holders(q)
    BY <1>1, HolderArrives DEF IInv, TypeOK, Take
  <2>2. NoRef \notin live
    BY ConfRefAssumption DEF IInv, TypeOK, ConfRefAssumption
  <2>3. QED
    BY <1>1, <1>2, <2>1, <2>2 DEF IInv, TypeOK, RefcountExact
<1>6. PcHeld'
  BY <1>1, <1>2 DEF IInv, TypeOK, Take, PcHeld
<1>7. NewIsPrivate'
  BY <1>1, <1>2 DEF IInv, TypeOK, Take, NewIsPrivate
<1>8. LoneSetter'
  <2>1. Setting' = Setting /\ t \notin Setting
    BY DEF IInv, TypeOK, Take, Setting
  <2>2. \A u \in Setting : held'[u] = held[u]
    BY <2>1 DEF IInv, TypeOK, Take, Setting
  <2>3. QED
    BY <1>2, <2>1, <2>2 DEF IInv, LoneSetter
<1>9. NoLeak'
  BY <1>1, <1>2 DEF IInv, TypeOK, Take, NoLeak
<1>10. QED
  BY <1>3, <1>4, <1>5, <1>6, <1>7, <1>8, <1>9 DEF IInv

LEMMA PutInv ==
  ASSUME IInv, NEW t \in Threads, Put(t)
  PROVE  IInv'
<1>1. PICK r \in live : r = held[t]
  BY DEF IInv, PcHeld, Put
<1>2. r \in Refs /\ r # NoRef /\ NoRef \notin live /\ new[t] = NoRef
  BY ConfRefAssumption DEF IInv, TypeOK, PcHeld, Put, ConfRefAssumption
<1>3. /\ Cardinality(Holders(r)') = Cardinality(Holders(r)) - 1
      /\ Cardinality(Holders(r)) # 0
      /\ \A q : q # r /\ q # NoRef => Holders(q)' = Holders(q)
  BY <1>1, <1>2, HolderLeaves DEF IInv, TypeOK, Put
<1>4. /\ refcount' = [refcount EXCEPT ![r] = @ - 1]
      /\ live' = IF refcount[r] - 1 = 0 /\ r # ref THEN live \ {r} ELSE live
      /\ held' = [held EXCEPT ![t] = NoRef]
      /\ pc' = [pc EXCEPT ![t] = "idle"]
      /\ UNCHANGED <<ref, new, overlapped>>
  BY <1>1 DEF Put, Deletes
<1>5. refcount[r] = Cardinality(Holders(r)) /\ refcount[r] - 1 \in Nat
  BY <1>1, <1>3, HoldersFinite DEF IInv, RefcountExact
<1>6. TypeOK'
  BY <1>2, <1>4, <1>5 DEF IInv, TypeOK
<1>7. RefcountExact'
  BY <1>2, <1>3, <1>4, <1>5 DEF IInv, TypeOK, RefcountExact
(* A block that goes has no user left, is not current and not about to be. *)
<1>8. r \notin live' => r # ref /\ \A u \in Threads : held'[u] # r /\ new[u] # r
  <2>1. SUFFICES ASSUME r \notin live'
                 PROVE  r # ref /\ \A u \in Threads : held'[u] # r /\ new[u] # r
    OBVIOUS
  <2>2. refcount[r] - 1 = 0 /\ r # ref
    BY <1>4, <2>1
  <2>3. Cardinality(Holders(r)') = 0
    BY <1>3, <1>5, <2>2
  <2>4. Holders(r)' = {}
    <3>1. Holders(r)' \in SUBSET Threads
      BY DEF Holders
    <3>2. IsFiniteSet(Holders(r)')
      BY <3>1, ConfRefAssumption, FS_Subset DEF ConfRefAssumption
    <3>3. QED
      BY <2>3, <3>2, FS_EmptySet
  <2>5. \A u \in Threads : new[u] # r
    BY <1>1, <1>2 DEF IInv, NewIsPrivate
  <2>6. QED
    BY <2>2, <2>4, <2>5 DEF Holders
<1>9. live' = live \/ live' = live \ {r}
  BY <1>4
<1>10. HeldIsLive' /\ CurrentIsLive'
  BY <1>4, <1>8, <1>9 DEF IInv, TypeOK, HeldIsLive, CurrentIsLive
<1>11. PcHeld'
  BY <1>2, <1>4, <1>8, <1>9 DEF IInv, TypeOK, PcHeld
<1>12. NewIsPrivate'
  BY <1>4 DEF IInv, TypeOK, NewIsPrivate
<1>13. LoneSetter'
  <2>1. Setting' = Setting /\ t \notin Setting
    BY <1>4 DEF IInv, TypeOK, Put, Setting
  <2>2. \A u \in Setting : held'[u] = held[u]
    BY <1>4, <2>1 DEF IInv, TypeOK, Setting
  <2>3. QED
    BY <1>4, <2>1, <2>2 DEF IInv, LoneSetter
<1>14. NoLeak'
  <2>1. SUFFICES ASSUME ~ overlapped, NEW q \in live', q # ref
                 PROVE  \E u \in Threads : q \in {held'[u], new[u]}
    BY <1>4 DEF NoLeak
  <2>2. PICK u \in Threads : q \in {held[u], new[u]}
    BY <1>9, <2>1 DEF IInv, NoLeak
  <2>3. CASE q # r
    BY <1>2, <1>4, <2>2, <2>3, <1>1 DEF IInv, TypeOK
  <2>4. CASE q = r
    <3>1. refcount[r] - 1 # 0
      BY <1>4, <2>1, <2>4
    <3>2. Cardinality(Holders(r)') # 0
      BY <1>3, <1>5, <3>1
    <3>3. Holders(r)' # {}
      BY <3>2, FS_EmptySet
    <3>4. QED
      BY <2>4, <3>3 DEF Holders
  <2>5. QED
    BY <2>3, <2>4
<1>15. QED
  BY <1>6, <1>7, <1>10, <1>11, <1>12, <1>13, <1>14 DEF IInv

LEMMA SetBeginInv ==
  ASSUME IInv, NEW t \in Setters, NEW n \in Refs \cup {NoRef}, SetBegin(t, n)
  PROVE  IInv'
<1>1. /\ t \in Threads /\ held[t] = NoRef /\ new[t] = NoRef
      /\ NoRef \notin Refs /\ NoRef \notin live
      /\ n \notin live /\ n \in Refs \cup {NoRef} /\ ref \in live \cup {NoRef}
  BY ConfRefAssumption DEF IInv, TypeOK, PcHeld, SetBegin, CurrentIsLive, ConfRefAssumption
<1>2. \A u \in Threads : held[u] \in live \cup {NoRef} /\ new[u] \in live \cup {NoRef}
  BY DEF IInv, HeldIsLive
(* The counts after the new block got its zero, before the old one is taken. *)
<1>3. PICK counts \in [Refs -> Nat] :
        /\ counts = IF n = NoRef THEN refcount ELSE [refcount EXCEPT ![n] = 0]
        /\ refcount' = IF ref = NoRef THEN counts ELSE [counts EXCEPT ![ref] = @ + 1]
  <2>1. CASE n = NoRef
    <3>1. refcount' = IF ref = NoRef THEN refcount ELSE [refcount EXCEPT ![ref] = @ + 1]
      BY <2>1 DEF SetBegin, Taken
    <3>2. QED
      BY <2>1, <3>1 DEF IInv, TypeOK
  <2>2. CASE n # NoRef
    <3>1. PICK c : c = [refcount EXCEPT ![n] = 0]
      OBVIOUS
    <3>2. refcount' = IF ref = NoRef THEN c ELSE [c EXCEPT ![ref] = @ + 1]
      BY <2>2, <3>1 DEF SetBegin, Taken
    <3>3. c \in [Refs -> Nat]
      BY <2>2, <3>1 DEF IInv, TypeOK
    <3>4. QED
      BY <2>2, <3>1, <3>2, <3>3
  <2>3. QED
    BY <2>1, <2>2
<1>4. /\ live' = IF n = NoRef THEN live ELSE live \cup {n}
      /\ held' = [held EXCEPT ![t] = ref]
      /\ new' = [new EXCEPT ![t] = n]
      /\ pc' = [pc EXCEPT ![t] = "setting"]
      /\ overlapped' = (overlapped \/ Setting # {})
      /\ ref' = ref
  BY DEF SetBegin
<1>5. TypeOK'
  BY <1>1, <1>3, <1>4 DEF IInv, TypeOK
<1>6. HeldIsLive' /\ CurrentIsLive'
  BY <1>1, <1>2, <1>4 DEF IInv, TypeOK, HeldIsLive, CurrentIsLive
<1>7. RefcountExact'
  <2>1. \A q \in live' : counts[q] = Cardinality(Holders(q))
    <3>1. n # NoRef => Cardinality(Holders(n)) = 0
      <4>1. n # NoRef => Holders(n) = {}
        BY <1>1, <1>2 DEF Holders
      <4>2. QED
        BY <4>1, FS_EmptySet
    <3>2. \A q \in live : counts[q] = refcount[q]
      BY <1>1, <1>3 DEF IInv, TypeOK
    <3>3. n # NoRef => counts[n] = 0
      BY <1>1, <1>3 DEF IInv, TypeOK
    <3>4. QED
      BY <1>4, <3>1, <3>2, <3>3 DEF IInv, RefcountExact
  <2>2. CASE ref = NoRef
    <3>1. held' = held
      BY <1>1, <1>4, <2>2 DEF IInv, TypeOK
    <3>2. \A q : Holders(q)' = Holders(q)
      BY <3>1 DEF Holders
    <3>3. QED
      BY <1>3, <2>1, <2>2, <3>2 DEF RefcountExact
  <2>3. CASE ref # NoRef
    <3>1. PICK o \in live : o = ref
      BY <1>1, <2>3
    <3>2. /\ Cardinality(Holders(o)') = Cardinality(Holders(o)) + 1
          /\ \A q : q # o /\ q # NoRef => Holders(q)' = Holders(q)
      BY <1>1, <1>4, <2>3, <3>1, HolderArrives DEF IInv, TypeOK
    <3>3. refcount' = [counts EXCEPT ![o] = @ + 1]
      BY <1>3, <2>3, <3>1
    <3>4. live' \subseteq Refs /\ NoRef \notin live' /\ o \in live'
      BY <1>1, <1>4, <1>5, <3>1 DEF TypeOK
    <3>5. QED
      BY <2>1, <3>2, <3>3, <3>4 DEF RefcountExact
  <2>4. QED
    BY <2>2, <2>3
<1>8. PcHeld'
  BY <1>1, <1>4 DEF IInv, TypeOK, PcHeld
<1>9. NewIsPrivate'
  BY <1>1, <1>2, <1>4 DEF IInv, TypeOK, NewIsPrivate
<1>10. LoneSetter'
  <2>1. SUFFICES ASSUME ~ overlapped' PROVE \A u \in Setting' : held'[u] = ref' /\ \A v \in Setting' : v = u
    BY DEF LoneSetter
  <2>2. Setting = {}
    BY <1>4, <2>1
  <2>3. Setting' = {t}
    BY <1>1, <1>4, <2>2 DEF IInv, TypeOK, Setting
  <2>4. QED
    BY <1>1, <1>4, <2>3 DEF IInv, TypeOK
<1>11. NoLeak'
  <2>1. SUFFICES ASSUME ~ overlapped', NEW q \in live', q # ref
                 PROVE  \E u \in Threads : q \in {held'[u], new'[u]}
    BY <1>4 DEF NoLeak
  <2>2. CASE q = n
    BY <1>1, <1>4, <2>2 DEF IInv, TypeOK
  <2>3. CASE q # n
    <3>1. q \in live /\ ~ overlapped
      BY <1>4, <2>1, <2>3 DEF IInv, TypeOK
    <3>2. PICK u \in Threads : q \in {held[u], new[u]}
      BY <2>1, <3>1 DEF IInv, NoLeak
    <3>3. u # t
      BY <1>1, <3>1, <3>2
    <3>4. QED
      BY <1>4, <3>2, <3>3 DEF IInv, TypeOK
  <2>4. QED
    BY <2>2, <2>3
<1>12. QED
  BY <1>5, <1>6, <1>7, <1>8, <1>9, <1>10, <1>11 DEF IInv

LEMMA SetStoreInv ==
  ASSUME IInv, NEW t \in Setters, SetStore(t)
  PROVE  IInv'
<1>1. t \in Threads /\ t \in Setting /\ NoRef \notin Refs /\ NoRef \notin live
  BY ConfRefAssumption DEF IInv, TypeOK, SetStore, Setting, ConfRefAssumption
<1>2. /\ ref' = new[t]
      /\ new' = [new EXCEPT ![t] = NoRef]
      /\ pc' = [pc EXCEPT ![t] = IF held[t] # NoRef THEN "using" ELSE "idle"]
      /\ UNCHANGED <<live, refcount, overlapped>>
  BY DEF SetStore, PutsOld
<1>3. held' = held
  BY <1>1 DEF IInv, TypeOK, SetStore, PutsOld
<1>4. TypeOK'
  BY <1>1, <1>2, <1>3 DEF IInv, TypeOK
<1>5. HeldIsLive' /\ CurrentIsLive'
  BY <1>1, <1>2, <1>3 DEF IInv, TypeOK, HeldIsLive, CurrentIsLive
<1>6. RefcountExact'
  <2>1. \A r : Holders(r)' = Holders(r)
    BY <1>3 DEF Holders
  <2>2. QED
    BY <1>2, <2>1 DEF IInv, RefcountExact
<1>7. PcHeld'
  BY <1>1, <1>2, <1>3 DEF IInv, TypeOK, PcHeld, HeldIsLive
<1>8. NewIsPrivate'
  BY <1>1, <1>2, <1>3 DEF IInv, TypeOK, NewIsPrivate
<1>9. LoneSetter'
  <2>1. Setting' = Setting \ {t}
    BY <1>1, <1>2 DEF IInv, TypeOK, Setting
  <2>2. ~ overlapped => Setting' = {}
    BY <1>1, <2>1 DEF IInv, LoneSetter
  <2>3. QED
    BY <1>2, <2>2 DEF LoneSetter
<1>10. NoLeak'
  <2>1. SUFFICES ASSUME ~ overlapped, NEW q \in live, q # new[t]
                 PROVE  \E u \in Threads : q \in {held[u], new'[u]}
    BY <1>2, <1>3 DEF NoLeak
  <2>2. CASE q = ref
    BY <1>1, <2>1, <2>2 DEF IInv, LoneSetter
  <2>3. CASE q # ref
    <3>1. PICK u \in Threads : q \in {held[u], new[u]}
      BY <2>1, <2>3 DEF IInv, NoLeak
    <3>2. q = held[u] \/ u # t
      BY <2>1, <3>1
    <3>3. QED
      BY <1>2, <3>1, <3>2 DEF IInv, TypeOK
  <2>4. QED
    BY <2>2, <2>3
<1>11. QED
  BY <1>4, <1>5, <1>6, <1>7, <1>8, <1>9, <1>10 DEF IInv

LEMMA StepInv == IInv /\ [Next]_vars => IInv'
<1>1. SUFFICES ASSUME IInv, [Next]_vars PROVE IInv'
  OBVIOUS
<1>2. ASSUME NEW t \in Threads, Take(t) PROVE IInv'
  BY <1>1, <1>2, TakeInv
<1>3. ASSUME NEW t \in Threads, Put(t) PROVE IInv'
  BY <1>1, <1>3, PutInv
<1>4. ASSUME NEW t \in Setters, SetStore(t) PROVE IInv'
  BY <1>1, <1>4, SetStoreInv
<1>5. ASSUME NEW t \in Setters, NEW n \in Refs \cup {NoRef}, SetBegin(t, n) PROVE IInv'
  BY <1>1, <1>5, SetBeginInv
<1>6. CASE UNCHANGED vars
  <2>1. UNCHANGED <<ref, live, refcount, pc, held, new, overlapped>>
    BY <1>6 DEF vars
  <2>2. (\A r : Holders(r)' = Holders(r)) /\ Setting' = Setting
    BY <2>1 DEF Holders, Setting
  <2>3. TypeOK' /\ HeldIsLive' /\ CurrentIsLive' /\ PcHeld' /\ NewIsPrivate' /\ NoLeak'
    BY <1>1, <2>1 DEF IInv, TypeOK, HeldIsLive, CurrentIsLive, PcHeld, NewIsPrivate, NoLeak
  <2>4. RefcountExact' /\ LoneSetter'
    BY <1>1, <2>1, <2>2 DEF IInv, RefcountExact, LoneSetter
  <2>5. QED
    BY <2>3, <2>4 DEF IInv
<1>7. QED
  BY <1>1, <1>2, <1>3, <1>4, <1>5, <1>6 DEF Next

(* The inductive invariant: exact counts, private new blocks, and one      *)
(* setter at a time unless two were seen to overlap.                       *)
THEOREM ConfRefInvariant == Spec => []IInv
<1>1. QED
  BY InitInv, StepInv, PTL DEF Spec

(* The state of the configuration store keeps its types. *)
THEOREM ConfRefTypes == Spec => []TypeOK
<1>1. IInv => TypeOK
  BY DEF IInv
<1>2. QED
  BY <1>1, ConfRefInvariant, PTL

(* No thread works with a configuration that was deleted under it, however *)
(* many threads replace it.                                                *)
THEOREM NoUseAfterFree == Spec => []HeldIsLive
<1>1. IInv => HeldIsLive
  BY DEF IInv
<1>2. QED
  BY <1>1, ConfRefInvariant, PTL

(* The device never points to a deleted configuration. *)
THEOREM CurrentStaysLive == Spec => []CurrentIsLive
<1>1. IInv => CurrentIsLive
  BY DEF IInv
<1>2. QED
  BY <1>1, ConfRefInvariant, PTL

(* A refcount is the number of threads that have the block. *)
THEOREM RefcountIsExact == Spec => []RefcountExact
<1>1. IInv => RefcountExact
  BY DEF IInv
<1>2. QED
  BY <1>1, ConfRefInvariant, PTL

(* No block leaks as long as no two threads replaced the configuration at once. *)
THEOREM NothingLeaks == Spec => []NoLeak
<1>1. IInv => NoLeak
  BY DEF IInv
<1>2. QED
  BY <1>1, ConfRefInvariant, PTL

(* A new block is never stored at an address that is still used. *)
THEOREM FreshIsFree == Spec => FreshIsUnused
<1>1. IInv /\ [Next]_vars => [\A r \in live' \ live : Holders(r) = {} /\ r # ref]_vars
  <2>1. SUFFICES ASSUME IInv, NEW r, r \notin live, r \in live', [Next]_vars
                 PROVE  Holders(r) = {} /\ r # ref
    OBVIOUS
  <2>2. r \in Refs
    BY <2>1, StepInv DEF IInv, TypeOK
  <2>3. r # NoRef
    BY <2>2, ConfRefAssumption DEF ConfRefAssumption
  <2>4. QED
    BY <2>1, <2>3 DEF IInv, HeldIsLive, CurrentIsLive, Holders
<1>2. QED
  BY <1>1, ConfRefInvariant, PTL DEF Spec, FreshIsUnused

-----------------------------------------------------------------------------
(* The programs of the user: what the invariant says of their rules, rows  *)
(* and records.                                                            *)

Blocks == [flags : FlagSets, rules : [Programs -> Rules \cup {NoRule}]]
Records == [prog : Programs, blocked : BOOLEAN]

Rule(p) == CurrentRules[p]
Judges(t, p) == job[t] # NoJob /\ job[t].prog = p /\ job[t].at # "end"
Writes(t, p) == job[t] # NoJob /\ job[t].prog = p /\ job[t].at = "write"

ConfTypes ==
  /\ conf \in [Refs -> Blocks \cup {NoBlock}]
  /\ \A r \in live : conf[r] \in Blocks

JobTypes == job \in [Threads -> Jobs \cup {NoJob}]

DbTypes ==
  /\ db \in [Programs -> Rows \cup {NoRow}]
  /\ listed \in SUBSET Programs /\ failed \in SUBSET Programs

LogTypes == log \in Seq(Records)

(* A thread classifies while it uses a block; setters do not.              *)
JobPlaces == \A t \in Threads : job[t] # NoJob => t \in Callbacks /\ pc[t] = "using"

(* Only programs that are apart are judged by a block that was replaced.   *)
JudgesCurrent ==
  \A t \in Threads, p \in Programs \ apart : Judges(t, p) => held[t] = ref

(* A block that is about to be stored has what the database says.          *)
NewIsWritten ==
  pc[ui] = "setting" /\ new[ui] # NoRef =>
    \A p \in Programs : conf[new[ui]].rules[p] = Written(p, listed)

(* A record of a program without a row says what its rule says.            *)
RuleReported ==
  ref # NoRef =>
    \A p \in Programs \ (failed \cup apart) : db[p] = NoRow =>
      /\ \A k \in DOMAIN log : log[k].prog = p =>
           Rule(p) # NoRule /\ Rule(p).blocked = log[k].blocked
      /\ \A t \in Threads : Writes(t, p) =>
           Rule(p) # NoRule /\ Rule(p).blocked = job[t].blocked

(* A rule of the driver's own has a record, or is about to have one.       *)
OwnReported ==
  ref # NoRef =>
    \A p \in Programs \ (failed \cup lost) : Rule(p) # NoRule /\ Rule(p).own =>
      \/ db[p] # NoRow
      \/ \E k \in DOMAIN log : log[k].prog = p
      \/ \E t \in Threads : Writes(t, p)

NoReport(p) ==
  /\ \A k \in DOMAIN log : log[k].prog # p
  /\ \A t \in Threads : ~ Writes(t, p)

OneReport(p) ==
  /\ \A k, l \in DOMAIN log : log[k].prog = p /\ log[l].prog = p => k = l
  /\ \A t, u \in Threads : Writes(t, p) /\ Writes(u, p) => t = u
  /\ (\A k \in DOMAIN log : log[k].prog # p) \/ \A t \in Threads : ~ Writes(t, p)

(* A program without a rule has no record, and none has two.               *)
ReportsOnce ==
  \A p \in Programs \ apart :
    /\ ref = NoRef \/ Rule(p) = NoRule => NoReport(p)
    /\ OneReport(p)

TypesInv == ConfTypes /\ JobTypes /\ DbTypes /\ LogTypes
ReportsInv == JudgesCurrent /\ RuleReported /\ OwnReported /\ ReportsOnce

AppsInv == TypesInv /\ JobPlaces /\ NewIsWritten /\ ReportsInv /\ RulesAgree

-----------------------------------------------------------------------------
(* What the steps do to the log, the jobs and the blocks. *)

LEMMA LogRead ==
  ASSUME LogTypes, log # <<>>, log' = Tail(log)
  PROVE  /\ LogTypes'
         /\ 1 \in DOMAIN log /\ Head(log) = log[1] /\ DOMAIN log \subseteq Int
         /\ \A k \in DOMAIN log' : k + 1 \in DOMAIN log /\ log'[k] = log[k + 1]
         /\ \A k \in DOMAIN log \ {1} : k - 1 \in DOMAIN log' /\ log'[k - 1] = log[k]
<1>1. LogTypes' /\ Len(log) \in Nat /\ Len(log) # 0 /\ Len(log') = Len(log) - 1
  BY DEF LogTypes
<1>2. DOMAIN log = 1 .. Len(log) /\ DOMAIN log' = 1 .. Len(log')
  BY <1>1 DEF LogTypes
<1>3. Head(log) = log[1] /\ \A k \in 1 .. Len(log') : log'[k] = log[k + 1]
  BY <1>1 DEF LogTypes
<1>4. QED
  BY <1>1, <1>2, <1>3

LEMMA LogWritten ==
  ASSUME LogTypes, NEW r \in Records, log' = Append(log, r)
  PROVE  /\ LogTypes'
         /\ \E n : /\ n \notin DOMAIN log /\ DOMAIN log' = DOMAIN log \cup {n}
                   /\ log'[n] = r /\ \A k \in DOMAIN log : log'[k] = log[k]
<1>1. LogTypes' /\ Len(log) \in Nat /\ Len(log') = Len(log) + 1
  BY DEF LogTypes
<1>2. DOMAIN log = 1 .. Len(log) /\ DOMAIN log' = 1 .. Len(log) + 1
  BY <1>1 DEF LogTypes
<1>3. log'[Len(log) + 1] = r /\ \A k \in 1 .. Len(log) : log'[k] = log[k]
  BY DEF LogTypes
<1>4. Len(log) + 1 \notin DOMAIN log /\ DOMAIN log' = DOMAIN log \cup {Len(log) + 1}
  BY <1>1, <1>2
<1>5. QED
  BY <1>1, <1>2, <1>3, <1>4

LEMMA JobGoes ==
  ASSUME JobTypes, NEW t \in Threads, NEW from, At(t, from),
         NEW to \in {"add", "write", "end"}, Goes(t, to)
  PROVE  /\ JobTypes' /\ job[t].prog \in Programs
         /\ job'[t] # NoJob /\ job'[t].prog = job[t].prog
         /\ job'[t].blocked = job[t].blocked /\ job'[t].at = to
         /\ \A u \in Threads \ {t} : job'[u] = job[u]
<1>1. job[t] \in Jobs /\ job'[t] = [job[t] EXCEPT !.at = to] /\ job[t].at = from
  BY DEF JobTypes, At, Goes
<1>2. job'[t] \in Jobs /\ job'[t].prog = job[t].prog
      /\ job'[t].blocked = job[t].blocked /\ job'[t].at = to
  BY <1>1 DEF Jobs
<1>3. job' = [u \in Threads |-> IF u = t THEN job'[t] ELSE job[u]]
  BY DEF JobTypes, Goes
<1>4. job'[t] # NoJob
  BY <1>2, AppsAssumption DEF AppsAssumption
<1>5. job[t].prog \in Programs
  BY <1>1 DEF Jobs
<1>6. JobTypes'
  BY <1>2, <1>3 DEF JobTypes
<1>7. QED
  BY <1>2, <1>3, <1>4, <1>5, <1>6

(* A block gets one rule, and nothing else changes.                        *)
SetsRule(r, p, rule) == conf' = [conf EXCEPT ![r].rules[p] = rule]
HasRule(r, p, rule) ==
  /\ conf'[r].rules[p] = rule
  /\ \A q \in Programs \ {p} : conf'[r].rules[q] = conf[r].rules[q]
  /\ \A s \in Refs \ {r} : conf'[s] = conf[s]

LEMMA RuleChanged ==
  ASSUME ConfTypes, live \subseteq Refs, NEW r \in live, NEW p \in Programs,
         NEW rule \in Rules \cup {NoRule}, SetsRule(r, p, rule), live' = live
  PROVE  ConfTypes' /\ HasRule(r, p, rule)
<1>1. conf[r] \in Blocks /\ r \in Refs
  BY DEF ConfTypes
<1>2. conf'[r] = [conf[r] EXCEPT !.rules[p] = rule]
      /\ \A s \in Refs \ {r} : conf'[s] = conf[s]
  BY <1>1 DEF ConfTypes, SetsRule
<1>3. conf'[r].flags = conf[r].flags /\ conf'[r].rules = [conf[r].rules EXCEPT ![p] = rule]
  BY <1>1, <1>2 DEF Blocks
<1>4. conf[r].rules \in [Programs -> Rules \cup {NoRule}] /\ conf[r].flags \in FlagSets
  BY <1>1 DEF Blocks
<1>5. /\ conf'[r].rules \in [Programs -> Rules \cup {NoRule}] /\ conf'[r].rules[p] = rule
      /\ \A q \in Programs \ {p} : conf'[r].rules[q] = conf[r].rules[q]
  BY <1>3, <1>4
<1>6. conf'[r] \in Blocks
  <2>1. conf'[r] = [flags |-> conf[r].flags, rules |-> [conf[r].rules EXCEPT ![p] = rule]]
    BY <1>1, <1>2 DEF Blocks
  <2>2. QED
    BY <1>3, <1>4, <1>5, <2>1 DEF Blocks
<1>7. conf' \in [Refs -> Blocks \cup {NoBlock}]
  <2>1. conf' = [s \in Refs |-> IF s = r THEN conf'[r] ELSE conf[s]]
    BY <1>1 DEF ConfTypes, SetsRule
  <2>2. QED
    BY <1>6, <2>1 DEF ConfTypes
<1>8. QED
  BY <1>2, <1>3, <1>5, <1>6, <1>7 DEF ConfTypes, HasRule

LEMMA RulesPut ==
  ASSUME ConfTypes, live' \subseteq live, live \subseteq Refs,
         conf' = [r \in Refs |-> IF r \in live' THEN conf[r] ELSE NoBlock]
  PROVE  ConfTypes' /\ \A r \in live' : conf'[r] = conf[r]
BY DEF ConfTypes

-----------------------------------------------------------------------------
(* The invariant, for each thing that can happen to a program. *)

LEMMA QuietReports ==
  ASSUME ReportsInv, ref' = ref, UNCHANGED <<log, lost, failed, apart>>,
         ref # NoRef => \A p \in Programs : Rule(p)' = Rule(p),
         \A p \in Programs : db'[p] = NoRow <=> db[p] = NoRow,
         \A t \in Threads, p \in Programs :
           /\ Writes(t, p)' <=> Writes(t, p)
           /\ Writes(t, p) => job'[t].blocked = job[t].blocked
           /\ Judges(t, p)' => held'[t] = ref \/ (Judges(t, p) /\ held'[t] = held[t])
  PROVE  ReportsInv'
<1>1. JudgesCurrent'
  BY DEF ReportsInv, JudgesCurrent
<1>2. RuleReported'
  BY DEF ReportsInv, RuleReported
<1>3. OwnReported'
  BY DEF ReportsInv, OwnReported
<1>4. ReportsOnce'
  BY DEF ReportsInv, ReportsOnce, NoReport, OneReport
<1>5. QED
  BY <1>1, <1>2, <1>3, <1>4 DEF ReportsInv

LEMMA QuietRules ==
  ASSUME RulesAgree, ref' = ref, UNCHANGED <<listed, failed, apart>>,
         pc'[ui] # "setting" => pc[ui] # "setting",
         ref # NoRef => \A p \in Programs : Rule(p)' = Rule(p),
         \A p \in Programs : /\ db'[p] = NoRow <=> db[p] = NoRow
                             /\ db[p] # NoRow => db'[p].blocked = db[p].blocked
  PROVE  RulesAgree'
BY DEF RulesAgree, Rule

(* A callback gives a program a rule, in the block it has.                 *)
LEMMA ReportsAdded ==
  ASSUME ReportsInv, NEW t \in Threads, NEW p \in Programs,
         Judges(t, p), ~ Writes(t, p), Writes(t, p)', held[t] # NoRef,
         UNCHANGED <<ref, held, db, log, lost, failed, apart>>,
         held[t] = ref => /\ Rule(p) = NoRule /\ Rule(p)' # NoRule
                          /\ Rule(p)'.blocked = job'[t].blocked,
         \A q \in Programs \ {p} : ref # NoRef => Rule(q)' = Rule(q),
         ref # NoRef /\ held[t] # ref => Rule(p)' = Rule(p),
         \A q \in Programs \ {p} :
           ~ Writes(t, q) /\ ~ Writes(t, q)' /\ ~ Judges(t, q)',
         \A u \in Threads \ {t}, q \in Programs :
           /\ Writes(u, q)' <=> Writes(u, q)
           /\ Judges(u, q)' <=> Judges(u, q)
           /\ job'[u] = job[u]
  PROVE  ReportsInv'
<1>1. JudgesCurrent'
  BY DEF ReportsInv, JudgesCurrent
<1>2. p \notin apart => held[t] = ref
  BY DEF ReportsInv, JudgesCurrent
<1>3. p \notin apart => NoReport(p)
  BY <1>2 DEF ReportsInv, ReportsOnce
<1>4. RuleReported'
  BY <1>2, <1>3 DEF ReportsInv, RuleReported, NoReport
<1>5. OwnReported'
  BY DEF ReportsInv, OwnReported
<1>6. ReportsOnce'
  BY <1>2, <1>3 DEF ReportsInv, ReportsOnce, NoReport, OneReport
<1>7. QED
  BY <1>1, <1>4, <1>5, <1>6 DEF ReportsInv

(* What a callback has found out is written, or lost.                      *)
LEMMA ReportsWritten ==
  ASSUME ReportsInv, NEW t \in Threads, NEW p \in Programs, Writes(t, p),
         UNCHANGED <<ref, held, db, failed, apart>>,
         \A q \in Programs : /\ ref # NoRef => Rule(q)' = Rule(q)
                             /\ ~ Writes(t, q)' /\ ~ Judges(t, q)'
                             /\ q # p => ~ Writes(t, q),
         \A u \in Threads \ {t}, q \in Programs :
           /\ Writes(u, q)' <=> Writes(u, q)
           /\ Judges(u, q)' <=> Judges(u, q)
           /\ job'[u] = job[u],
         \/ p \in lost' /\ lost \subseteq lost' /\ log' = log
         \/ /\ lost' = lost
            /\ \E n : /\ n \notin DOMAIN log /\ DOMAIN log' = DOMAIN log \cup {n}
                      /\ log'[n].prog = p /\ log'[n].blocked = job[t].blocked
                      /\ \A k \in DOMAIN log : log'[k] = log[k]
  PROVE  ReportsInv'
<1>1. JudgesCurrent'
  BY DEF ReportsInv, JudgesCurrent
<1>2. p \notin apart => \A k \in DOMAIN log : log[k].prog # p
  BY DEF ReportsInv, ReportsOnce, OneReport
<1>3. p \notin apart => \A u \in Threads \ {t} : ~ Writes(u, p)
  BY DEF ReportsInv, ReportsOnce, OneReport
<1>4. p \notin apart => ref # NoRef /\ Rule(p) # NoRule
  BY DEF ReportsInv, ReportsOnce, NoReport
<1>5. CASE p \in lost' /\ lost \subseteq lost' /\ log' = log
  <2>1. RuleReported'
    BY <1>5 DEF ReportsInv, RuleReported
  <2>2. OwnReported'
    BY <1>5 DEF ReportsInv, OwnReported
  <2>3. ReportsOnce'
    BY <1>5 DEF ReportsInv, ReportsOnce, NoReport, OneReport
  <2>4. QED
    BY <1>1, <2>1, <2>2, <2>3 DEF ReportsInv
<1>6. ASSUME lost' = lost, NEW n, n \notin DOMAIN log, DOMAIN log' = DOMAIN log \cup {n},
             log'[n].prog = p, log'[n].blocked = job[t].blocked,
             \A k \in DOMAIN log : log'[k] = log[k]
      PROVE  ReportsInv'
  <2>1. RuleReported'
    BY <1>6 DEF ReportsInv, RuleReported
  <2>2. OwnReported'
    <3>1. SUFFICES ASSUME ref # NoRef, NEW q \in Programs \ (failed \cup lost),
                          Rule(q) # NoRule, Rule(q).own, db[q] = NoRow
                   PROVE  \/ \E k \in DOMAIN log' : log'[k].prog = q
                          \/ \E u \in Threads : Writes(u, q)'
      BY <1>6 DEF OwnReported
    <3>2. \/ \E k \in DOMAIN log : log[k].prog = q
          \/ \E u \in Threads : Writes(u, q)
      BY <3>1 DEF ReportsInv, OwnReported
    <3>3. QED
      BY <1>6, <3>2
  <2>3. ReportsOnce'
    <3>1. \A q \in Programs \ (apart \cup {p}) :
            /\ NoReport(q) => NoReport(q)'
            /\ OneReport(q) => OneReport(q)'
      BY <1>6 DEF NoReport, OneReport
    <3>2. p \notin apart => OneReport(p)'
      BY <1>2, <1>3, <1>6 DEF OneReport
    <3>3. QED
      BY <1>4, <3>1, <3>2 DEF ReportsInv, ReportsOnce
  <2>4. QED
    BY <1>1, <2>1, <2>2, <2>3 DEF ReportsInv
<1>7. QED
  BY <1>5, <1>6

(* A record is read: the program has a row then, or the write failed.      *)
LEMMA ReportsRead ==
  ASSUME ReportsInv, LogTypes, log # <<>>, log' = Tail(log),
         NEW p \in Programs, Head(log).prog = p,
         UNCHANGED <<ref, held, job, lost, apart>>, failed \subseteq failed',
         ref # NoRef => \A q \in Programs : Rule(q)' = Rule(q),
         \A q \in Programs \ {p} : db'[q] = db[q],
         db'[p] # NoRow \/ p \in failed', db[p] # NoRow => db'[p] # NoRow
  PROVE  ReportsInv'
<1>1. /\ 1 \in DOMAIN log /\ log[1].prog = p /\ DOMAIN log \subseteq Int
      /\ \A k \in DOMAIN log' : k + 1 \in DOMAIN log /\ log'[k] = log[k + 1]
      /\ \A k \in DOMAIN log \ {1} : k - 1 \in DOMAIN log' /\ log'[k - 1] = log[k]
  BY LogRead
<1>2. \A u, q : (Writes(u, q)' <=> Writes(u, q)) /\ (Judges(u, q)' <=> Judges(u, q))
  BY DEF Writes, Judges
<1>3. \A q : (\A k \in DOMAIN log : log[k].prog # q) => \A k \in DOMAIN log' : log'[k].prog # q
  BY <1>1
<1>4. \A q : q # p /\ (\E k \in DOMAIN log : log[k].prog = q) => \E k \in DOMAIN log' : log'[k].prog = q
  BY <1>1
<1>5. \A k, l \in DOMAIN log' : k + 1 = l + 1 => k = l
  <2>1. DOMAIN log' = 1 .. Len(log')
    BY LogRead DEF LogTypes
  <2>2. Len(log') \in Nat
    BY LogRead DEF LogTypes
  <2>3. QED
    BY <2>1, <2>2
<1>6. JudgesCurrent'
  BY <1>2 DEF ReportsInv, JudgesCurrent
<1>7. RuleReported'
  <2>1. SUFFICES ASSUME ref # NoRef, NEW q \in Programs \ (failed' \cup apart), db'[q] = NoRow
                 PROVE  /\ \A k \in DOMAIN log' : log'[k].prog = q =>
                             Rule(q) # NoRule /\ Rule(q).blocked = log'[k].blocked
                        /\ \A t \in Threads : Writes(t, q) =>
                             Rule(q) # NoRule /\ Rule(q).blocked = job[t].blocked
    BY <1>2 DEF RuleReported
  <2>2. q \in Programs \ (failed \cup apart) /\ db[q] = NoRow
    BY <2>1
  <2>3. /\ \A k \in DOMAIN log : log[k].prog = q =>
             Rule(q) # NoRule /\ Rule(q).blocked = log[k].blocked
        /\ \A t \in Threads : Writes(t, q) =>
             Rule(q) # NoRule /\ Rule(q).blocked = job[t].blocked
    BY <2>1, <2>2 DEF ReportsInv, RuleReported
  <2>4. QED
    BY <1>1, <2>3
<1>8. OwnReported'
  <2>1. SUFFICES ASSUME ref # NoRef, NEW q \in Programs \ (failed' \cup lost),
                        Rule(q) # NoRule, Rule(q).own, db'[q] = NoRow
                 PROVE  \/ \E k \in DOMAIN log' : log'[k].prog = q
                        \/ \E t \in Threads : Writes(t, q)
    BY <1>2 DEF OwnReported
  <2>2. q # p /\ db[q] = NoRow /\ q \notin failed
    BY <2>1
  <2>3. \/ \E k \in DOMAIN log : log[k].prog = q
        \/ \E t \in Threads : Writes(t, q)
    BY <2>1, <2>2 DEF ReportsInv, OwnReported
  <2>4. QED
    BY <1>4, <2>2, <2>3
<1>9. ReportsOnce'
  <2>1. \A q \in Programs : NoReport(q) => NoReport(q)'
    BY <1>2, <1>3 DEF NoReport
  <2>2. \A q \in Programs : OneReport(q) => OneReport(q)'
    <3>1. SUFFICES ASSUME NEW q \in Programs, OneReport(q) PROVE OneReport(q)'
      OBVIOUS
    <3>2. \A k, l \in DOMAIN log' : log'[k].prog = q /\ log'[l].prog = q => k = l
      BY <1>1, <1>5, <3>1 DEF OneReport
    <3>3. QED
      BY <1>2, <1>3, <3>1, <3>2 DEF OneReport
  <2>3. QED
    BY <2>1, <2>2 DEF ReportsInv, ReportsOnce
<1>10. QED
  BY <1>6, <1>7, <1>8, <1>9 DEF ReportsInv

(* The user gives a program a rule; the database may fail.                 *)
LEMMA ReportsEdited ==
  ASSUME ReportsInv, NEW p \in Programs, ref # NoRef,
         UNCHANGED <<ref, held, job, log, lost>>, apart' \subseteq apart,
         Rule(p)' # NoRule, ~ Rule(p)'.own,
         \A q \in Programs \ {p} : /\ Rule(q)' = Rule(q) /\ db'[q] = db[q]
                                   /\ q \in failed' <=> q \in failed,
         db'[p] # NoRow \/ p \in failed',
         \A q \in apart \ apart' : NoReport(q) /\ \A t \in Threads : ~ Judges(t, q)
  PROVE  ReportsInv'
<1>1. \A u, q : (Writes(u, q)' <=> Writes(u, q)) /\ (Judges(u, q)' <=> Judges(u, q))
  BY DEF Writes, Judges
<1>2. \A q : (NoReport(q)' <=> NoReport(q)) /\ (OneReport(q)' <=> OneReport(q))
  BY <1>1 DEF NoReport, OneReport
<1>3. \A q : NoReport(q) => OneReport(q)
  BY DEF NoReport, OneReport
<1>4. JudgesCurrent'
  BY <1>1 DEF ReportsInv, JudgesCurrent
<1>5. RuleReported'
  BY <1>1 DEF ReportsInv, RuleReported, NoReport
<1>6. OwnReported'
  BY <1>1 DEF ReportsInv, OwnReported
<1>7. ReportsOnce'
  BY <1>2, <1>3 DEF ReportsInv, ReportsOnce
<1>8. QED
  BY <1>4, <1>5, <1>6, <1>7 DEF ReportsInv

(* The user deletes a program; the driver may fail.                        *)
LEMMA ReportsDeleted ==
  ASSUME ReportsInv, NEW p \in Programs,
         UNCHANGED <<ref, held, job, log, lost>>, apart \subseteq apart', failed \subseteq failed',
         \A q \in Programs \ {p} : /\ ref # NoRef => Rule(q)' = Rule(q)
                                   /\ db'[q] = db[q],
         p \notin apart' => NoReport(p),
         ref # NoRef /\ p \notin failed' => Rule(p)' = NoRule
  PROVE  ReportsInv'
<1>1. \A u, q : (Writes(u, q)' <=> Writes(u, q)) /\ (Judges(u, q)' <=> Judges(u, q))
  BY DEF Writes, Judges
<1>2. \A q : (NoReport(q)' <=> NoReport(q)) /\ (OneReport(q)' <=> OneReport(q))
  BY <1>1 DEF NoReport, OneReport
<1>3. \A q : NoReport(q) => OneReport(q)
  BY DEF NoReport, OneReport
<1>4. JudgesCurrent'
  BY <1>1 DEF ReportsInv, JudgesCurrent
<1>5. RuleReported'
  BY <1>1 DEF ReportsInv, RuleReported, NoReport
<1>6. OwnReported'
  BY <1>1 DEF ReportsInv, OwnReported
<1>7. ReportsOnce'
  BY <1>2, <1>3 DEF ReportsInv, ReportsOnce
<1>8. QED
  BY <1>4, <1>5, <1>6, <1>7 DEF ReportsInv

(* A whole configuration is stored: what is on its way is apart.           *)
LEMMA ReportsStored ==
  ASSUME UNCHANGED <<job, log, lost>>,
         \A p \in Programs \ apart' : NoReport(p) /\ \A t \in Threads : ~ Judges(t, p),
         ref' # NoRef => \A p \in Programs : Rule(p)' # NoRule => ~ Rule(p)'.own
  PROVE  ReportsInv'
<1>1. \A u, q : (Writes(u, q)' <=> Writes(u, q)) /\ (Judges(u, q)' <=> Judges(u, q))
  BY DEF Writes, Judges
<1>2. \A q : (NoReport(q)' <=> NoReport(q)) /\ (OneReport(q)' <=> OneReport(q))
  BY <1>1 DEF NoReport, OneReport
<1>3. \A q : NoReport(q) => OneReport(q)
  BY DEF NoReport, OneReport
<1>4. JudgesCurrent' /\ RuleReported' /\ OwnReported'
  BY <1>1 DEF JudgesCurrent, RuleReported, OwnReported, NoReport
<1>5. ReportsOnce'
  BY <1>2, <1>3 DEF ReportsOnce
<1>6. QED
  BY <1>4, <1>5 DEF ReportsInv

-----------------------------------------------------------------------------
(* The invariant, for each action. *)

LEMMA UsedBlock ==
  ASSUME IInv, NEW t \in Threads, pc[t] = "using"
  PROVE  /\ held[t] \in live /\ held[t] \in Refs /\ held[t] # NoRef
         /\ new[ui] # NoRef => new[ui] # held[t] /\ new[ui] # ref
         /\ live \subseteq Refs /\ ref \in live \cup {NoRef} /\ NoRef \notin live
         /\ ui \in Threads
BY ConfRefAssumption, UiAssumption
   DEF IInv, TypeOK, PcHeld, CurrentIsLive, NewIsPrivate, ConfRefAssumption, UiAssumption

LEMMA BlockUnderUi ==
  ASSUME IInv
  PROVE  /\ live \subseteq Refs /\ ref \in live \cup {NoRef} /\ NoRef \notin live
         /\ ui \in Threads /\ ui \in Setters
         /\ new[ui] \in live \cup {NoRef} /\ held[ui] \in live \cup {NoRef}
         /\ new[ui] # NoRef => new[ui] # ref
BY ConfRefAssumption, UiAssumption
   DEF IInv, TypeOK, HeldIsLive, CurrentIsLive, NewIsPrivate, ConfRefAssumption, UiAssumption

LEMMA ClassifyBeginInv ==
  ASSUME IInv, AppsInv, NEW t \in Callbacks, NEW p \in Programs, NEW addr,
         ClassifyBegin(t, p, addr), UNCHANGED confVars
  PROVE  AppsInv'
<1>1. /\ t \in Threads /\ t \notin Setters /\ t # ui /\ ref \in live /\ ref # NoRef
      /\ pc[t] = "idle" /\ ui \in Threads
  BY BlockUnderUi DEF ClassifyBegin, Take, Callbacks
<1>2. /\ UNCHANGED <<ref, live, new, conf, log, lost, db, listed, failed, apart>>
      /\ held' = [held EXCEPT ![t] = ref] /\ pc' = [pc EXCEPT ![t] = "using"]
  BY DEF ClassifyBegin, Take, confVars
<1>3. PICK blocked \in BOOLEAN, allow \in BOOLEAN, at \in {"find", "end"} :
        job' = [job EXCEPT ![t] = [prog |-> p, allow |-> allow, blocked |-> blocked, at |-> at]]
  <2>1. conf[ref].flags \in Flags
    BY <1>1, AppsAssumption DEF AppsInv, TypesInv, ConfTypes, Blocks, AppsAssumption
  <2>2. conf[ref].flags.allow_all_new \in BOOLEAN
    BY <2>1 DEF Flags
  <2>3. QED
    BY <2>2 DEF ClassifyBegin
<1>4. job[t] = NoJob
  BY <1>1 DEF AppsInv, JobPlaces
<1>5. /\ job'[t] = [prog |-> p, allow |-> allow, blocked |-> blocked, at |-> at]
      /\ job'[t] \in Jobs /\ job'[t] # NoJob
      /\ \A u \in Threads \ {t} : job'[u] = job[u]
      /\ JobTypes'
  <2>1. [prog |-> p, allow |-> allow, blocked |-> blocked, at |-> at] \in Jobs
    BY DEF Jobs
  <2>2. QED
    BY <1>1, <1>3, <2>1, AppsAssumption DEF AppsInv, TypesInv, JobTypes, AppsAssumption
<1>6. TypesInv'
  BY <1>2, <1>5 DEF AppsInv, TypesInv, ConfTypes, DbTypes, LogTypes
<1>7. JobPlaces'
  BY <1>1, <1>2, <1>5 DEF AppsInv, JobPlaces, IInv, TypeOK
<1>8. pc'[ui] = pc[ui] /\ new'[ui] = new[ui]
  BY <1>1, <1>2 DEF IInv, TypeOK
<1>9. NewIsWritten'
  BY <1>2, <1>8 DEF AppsInv, NewIsWritten, Written
<1>10. \A q \in Programs : Rule(q)' = Rule(q)
  BY <1>2 DEF Rule, CurrentRules
<1>11. \A u \in Threads, q \in Programs :
         /\ Writes(u, q)' <=> Writes(u, q)
         /\ Writes(u, q) => job'[u].blocked = job[u].blocked
         /\ Judges(u, q)' => held'[u] = ref \/ (Judges(u, q) /\ held'[u] = held[u])
  <2>1. \A q \in Programs : ~ Writes(t, q) /\ ~ Writes(t, q)'
    BY <1>4, <1>5 DEF Writes
  <2>2. held'[t] = ref /\ \A u \in Threads \ {t} : held'[u] = held[u]
    BY <1>1, <1>2 DEF IInv, TypeOK
  <2>3. QED
    BY <1>5, <2>1, <2>2 DEF Writes, Judges
<1>12. ReportsInv'
  BY <1>2, <1>10, <1>11, QuietReports DEF AppsInv
<1>13. RulesAgree'
  BY <1>2, <1>8, <1>10, QuietRules DEF AppsInv
<1>14. QED
  BY <1>6, <1>7, <1>9, <1>12, <1>13 DEF AppsInv

(* The block that a callback has is not one that is about to be stored. *)
LEMMA JobStepInv ==
  ASSUME IInv, AppsInv, NEW t \in Threads, UNCHANGED vars, UNCHANGED confVars, UNCHANGED <<conf, log, lost>>,
         NEW from, At(t, from), JobTypes', job'[t] # NoJob,
         job'[t].prog = job[t].prog,
         from \notin {"write", "end"}, job'[t].at \notin {"write"},
         \A u \in Threads \ {t} : job'[u] = job[u]
  PROVE  AppsInv'
<1>1. /\ UNCHANGED <<ref, live, pc, held, new, conf, log, lost, db, listed, failed, apart>>
  BY DEF vars, confVars
<1>2. TypesInv'
  BY <1>1 DEF AppsInv, TypesInv, ConfTypes, DbTypes, LogTypes
<1>3. JobPlaces' /\ NewIsWritten'
  BY <1>1 DEF AppsInv, JobPlaces, NewIsWritten, Written, At
<1>4. \A q \in Programs : Rule(q)' = Rule(q)
  BY <1>1 DEF Rule, CurrentRules
<1>5. \A u \in Threads, q \in Programs :
        /\ Writes(u, q)' <=> Writes(u, q)
        /\ Writes(u, q) => job'[u].blocked = job[u].blocked
        /\ Judges(u, q)' => Judges(u, q)
  BY DEF Writes, Judges, At
<1>6. ReportsInv'
  BY <1>1, <1>4, <1>5, QuietReports DEF AppsInv
<1>7. RulesAgree'
  BY <1>1, <1>4, QuietRules DEF AppsInv
<1>8. QED
  BY <1>2, <1>3, <1>6, <1>7 DEF AppsInv

LEMMA FindAppInv ==
  ASSUME IInv, AppsInv, NEW t \in Callbacks, FindApp(t), UNCHANGED confVars
  PROVE  AppsInv'
<1>1. t \in Threads /\ At(t, "find") /\ UNCHANGED vars /\ UNCHANGED <<conf, log, lost>>
  BY DEF FindApp, Callbacks
<1>2. CASE Goes(t, "end")
  BY <1>1, <1>2, JobGoes, JobStepInv DEF AppsInv, TypesInv
<1>3. ASSUME NEW blocked \in BOOLEAN,
             job' = [job EXCEPT ![t].at = "add", ![t].blocked = blocked]
      PROVE  AppsInv'
  <2>1. job[t] \in Jobs /\ job'[t] = [[job[t] EXCEPT !.at = "add"] EXCEPT !.blocked = blocked]
    BY <1>1, <1>3 DEF AppsInv, TypesInv, JobTypes, At
  <2>2. job'[t] \in Jobs /\ job'[t].prog = job[t].prog /\ job'[t].at = "add"
    BY <2>1 DEF Jobs
  <2>3. job' = [u \in Threads |-> IF u = t THEN job'[t] ELSE job[u]]
    BY <1>3 DEF AppsInv, TypesInv, JobTypes
  <2>4. JobTypes'
    BY <2>2, <2>3 DEF AppsInv, TypesInv, JobTypes
  <2>5. job'[t] # NoJob
    BY <2>2, AppsAssumption DEF AppsAssumption
  <2>6. QED
    BY <1>1, <2>2, <2>3, <2>4, <2>5, JobStepInv
<1>4. QED
  BY <1>2, <1>3 DEF FindApp

LEMMA AddPathInv ==
  ASSUME IInv, AppsInv, NEW t \in Callbacks, AddPath(t), UNCHANGED confVars
  PROVE  AppsInv'
<1>1. t \in Threads /\ At(t, "add") /\ UNCHANGED vars /\ UNCHANGED <<log, lost>>
  BY DEF AddPath, Callbacks
<1>2. CASE Goes(t, "end") /\ UNCHANGED conf
  BY <1>1, <1>2, JobGoes, JobStepInv DEF AppsInv, TypesInv
<1>3. CASE /\ AddsNew(t) /\ Goes(t, "write")
           /\ conf' = [conf EXCEPT ![held[t]].rules[job[t].prog] =
                          [blocked |-> job[t].blocked, own |-> TRUE]]
  <2>0. PICK p, r, rule : p = job[t].prog /\ r = held[t]
                          /\ rule = [blocked |-> job[t].blocked, own |-> TRUE]
    OBVIOUS
  <2>1. /\ JobTypes' /\ p \in Programs
        /\ job'[t] # NoJob /\ job'[t].prog = p
        /\ job'[t].blocked = job[t].blocked /\ job'[t].at = "write"
        /\ \A u \in Threads \ {t} : job'[u] = job[u]
    BY <1>1, <1>3, <2>0, JobGoes DEF AppsInv, TypesInv
  <2>2. UNCHANGED <<ref, live, pc, held, new, db, listed, failed, apart>>
    BY <1>1 DEF vars, confVars
  <2>3. pc[t] = "using" /\ job[t] # NoJob /\ job[t].at = "add"
    BY <1>1 DEF AppsInv, JobPlaces, At
  <2>4. /\ r \in live /\ r \in Refs /\ r # NoRef /\ live \subseteq Refs
        /\ ref \in live \cup {NoRef} /\ NoRef \notin live
        /\ new[ui] # NoRef => new[ui] # r /\ new[ui] # ref
    BY <1>1, <2>0, <2>3, UsedBlock
  <2>5. rule \in Rules /\ rule # NoRule /\ rule.blocked = job'[t].blocked
    <3>1. job[t].blocked \in BOOLEAN
      BY <1>1, <2>3 DEF AppsInv, TypesInv, JobTypes, Jobs
    <3>2. rule \in Rules
      BY <2>0, <3>1 DEF Rules
    <3>3. QED
      BY <2>0, <2>1, <3>2, AppsAssumption DEF AppsAssumption
  <2>6. /\ ConfTypes' /\ conf'[r].rules[p] = rule
        /\ \A q \in Programs \ {p} : conf'[r].rules[q] = conf[r].rules[q]
        /\ \A s \in Refs \ {r} : conf'[s] = conf[s]
    <3>1. SetsRule(r, p, rule)
      BY <1>3, <2>0 DEF SetsRule
    <3>2. ConfTypes /\ live' = live
      BY <2>2 DEF AppsInv, TypesInv
    <3>3. p \in Programs /\ r \in live /\ rule \in Rules \cup {NoRule} /\ live \subseteq Refs
      BY <2>1, <2>4, <2>5
    <3>4. ConfTypes' /\ HasRule(r, p, rule)
      BY <3>1, <3>2, <3>3, RuleChanged
    <3>5. QED
      BY <3>4 DEF HasRule
  <2>7. conf[r].rules[p] = NoRule
    BY <1>3, <2>0 DEF AddsNew, RuleFor
  <2>8. TypesInv'
    BY <1>1, <2>1, <2>2, <2>6 DEF AppsInv, TypesInv, DbTypes, LogTypes
  <2>9. JobPlaces'
    BY <1>1, <2>1, <2>2, <2>3 DEF AppsInv, JobPlaces
  <2>10. NewIsWritten'
    <3>1. new[ui] # NoRef => conf'[new[ui]] = conf[new[ui]]
      BY <2>4, <2>6, BlockUnderUi
    <3>2. QED
      BY <2>2, <3>1 DEF AppsInv, NewIsWritten, Written
  <2>11. /\ \A q \in Programs \ {p} : ref # NoRef => Rule(q)' = Rule(q)
         /\ ref # NoRef /\ r # ref => Rule(p)' = Rule(p)
         /\ r = ref => Rule(p) = NoRule /\ Rule(p)' = rule
    <3>1. \A q : Rule(q) = conf[ref].rules[q] /\ Rule(q)' = conf'[ref].rules[q]
      BY <2>2 DEF Rule, CurrentRules
    <3>2. ref # NoRef => ref \in Refs
      BY <2>4
    <3>3. QED
      BY <2>6, <2>7, <3>1, <3>2
  <2>12. /\ Judges(t, p) /\ ~ Writes(t, p) /\ Writes(t, p)'
         /\ \A q \in Programs \ {p} : ~ Writes(t, q) /\ ~ Writes(t, q)' /\ ~ Judges(t, q)'
         /\ \A u \in Threads \ {t}, q \in Programs :
              /\ Writes(u, q)' <=> Writes(u, q)
              /\ Judges(u, q)' <=> Judges(u, q)
              /\ job'[u] = job[u]
    BY <2>0, <2>1, <2>3 DEF Judges, Writes
  <2>13. held[t] = ref => /\ Rule(p) = NoRule /\ Rule(p)' # NoRule
                          /\ Rule(p)'.blocked = job'[t].blocked
    BY <2>0, <2>5, <2>11
  <2>14. ReportsInv'
    <3>1. ref # NoRef /\ held[t] # ref => Rule(p)' = Rule(p)
      BY <2>0, <2>11
    <3>2. UNCHANGED <<ref, held, db, log, lost, failed, apart>> /\ held[t] # NoRef
      BY <1>1, <2>0, <2>2, <2>4
    <3>3. ReportsInv
      BY DEF AppsInv
    <3>4. QED
      BY <1>1, <2>1, <2>11, <2>12, <2>13, <3>1, <3>2, <3>3, ReportsAdded
  <2>15. RulesAgree'
    <3>1. SUFFICES ASSUME ref # NoRef, pc[ui] # "setting", NEW q \in Programs \ (failed \cup apart),
                          db[q] # NoRow \/ q \in listed
                   PROVE  Rule(q)' # NoRule /\ Rule(q)'.blocked = (db[q] # NoRow /\ db[q].blocked)
      BY <2>2 DEF RulesAgree, Rule
    <3>2. Rule(q) # NoRule /\ Rule(q).blocked = (db[q] # NoRow /\ db[q].blocked)
      BY <3>1 DEF AppsInv, RulesAgree, Rule
    <3>3. Rule(q)' = Rule(q)
      <4>1. r = ref => q # p
        BY <2>11, <3>2
      <4>2. CASE q = p
        BY <2>11, <3>1, <4>1, <4>2
      <4>3. CASE q # p
        BY <2>11, <3>1, <4>3
      <4>4. QED
        BY <4>2, <4>3
    <3>4. QED
      BY <3>2, <3>3
  <2>16. QED
    BY <2>8, <2>9, <2>10, <2>14, <2>15 DEF AppsInv
<1>4. QED
  BY <1>2, <1>3 DEF AddPath, FailedAdd

LEMMA WriteBlockedInv ==
  ASSUME IInv, AppsInv, NEW t \in Callbacks, WriteBlocked(t), UNCHANGED confVars
  PROVE  AppsInv'
<1>1. t \in Threads /\ At(t, "write") /\ UNCHANGED vars /\ conf' = conf /\ Goes(t, "end")
  BY DEF WriteBlocked, Callbacks
<1>2. UNCHANGED <<ref, live, pc, held, new, conf, db, listed, failed, apart>>
  BY <1>1 DEF vars, confVars
<1>3. PICK p : p = job[t].prog
  OBVIOUS
<1>4. /\ JobTypes' /\ p \in Programs
      /\ job'[t] # NoJob /\ job'[t].prog = p
      /\ job'[t].blocked = job[t].blocked /\ job'[t].at = "end"
      /\ \A u \in Threads \ {t} : job'[u] = job[u]
  BY <1>1, <1>3, JobGoes DEF AppsInv, TypesInv
<1>5. /\ LogTypes'
      /\ \/ p \in lost' /\ lost \subseteq lost' /\ log' = log
         \/ /\ lost' = lost
            /\ \E n : /\ n \notin DOMAIN log /\ DOMAIN log' = DOMAIN log \cup {n}
                      /\ log'[n].prog = p /\ log'[n].blocked = job[t].blocked
                      /\ \A k \in DOMAIN log : log'[k] = log[k]
  <2>1. CASE log' = log /\ lost' = lost \cup {job[t].prog}
    BY <1>3, <2>1 DEF AppsInv, TypesInv, LogTypes
  <2>2. CASE /\ log' = Append(log, [prog |-> job[t].prog, blocked |-> job[t].blocked])
             /\ lost' = lost
    <3>1. PICK r : r = [prog |-> p, blocked |-> job[t].blocked]
      OBVIOUS
    <3>2. job[t].blocked \in BOOLEAN
      BY <1>1 DEF AppsInv, TypesInv, JobTypes, Jobs, At
    <3>3. r \in Records /\ r.prog = p /\ r.blocked = job[t].blocked
      BY <1>4, <3>1, <3>2 DEF Records
    <3>4. log' = Append(log, r) /\ LogTypes
      BY <1>3, <2>2, <3>1 DEF AppsInv, TypesInv
    <3>5. /\ LogTypes'
          /\ \E n : /\ n \notin DOMAIN log /\ DOMAIN log' = DOMAIN log \cup {n}
                    /\ log'[n] = r /\ \A k \in DOMAIN log : log'[k] = log[k]
      BY <3>3, <3>4, LogWritten
    <3>6. QED
      BY <2>2, <3>3, <3>5
  <2>3. QED
    BY <2>1, <2>2 DEF WriteBlocked
<1>6. TypesInv'
  BY <1>2, <1>4, <1>5 DEF AppsInv, TypesInv, ConfTypes, DbTypes
<1>7. JobPlaces' /\ NewIsWritten'
  BY <1>1, <1>2, <1>4 DEF AppsInv, JobPlaces, NewIsWritten, Written, At
<1>8. \A q \in Programs : Rule(q)' = Rule(q)
  BY <1>2 DEF Rule, CurrentRules
<1>9. /\ Writes(t, p)
      /\ \A q \in Programs : ~ Writes(t, q)' /\ ~ Judges(t, q)' /\ (q # p => ~ Writes(t, q))
      /\ \A u \in Threads \ {t}, q \in Programs :
           /\ Writes(u, q)' <=> Writes(u, q)
           /\ Judges(u, q)' <=> Judges(u, q)
           /\ job'[u] = job[u]
  BY <1>1, <1>3, <1>4 DEF Writes, Judges, At
<1>10. ReportsInv'
  <2>1. ReportsInv
    BY DEF AppsInv
  <2>2. UNCHANGED <<ref, held, db, failed, apart>>
    BY <1>2
  <2>3. QED
    BY <1>1, <1>4, <1>5, <1>8, <1>9, <2>1, <2>2, ReportsWritten
<1>11. RulesAgree'
  BY <1>2, <1>8, QuietRules DEF AppsInv
<1>12. QED
  BY <1>6, <1>7, <1>10, <1>11 DEF AppsInv

LEMMA PutRulesInv ==
  ASSUME IInv, IInv', AppsInv, NEW t \in Threads, PutRules(t),
         UNCHANGED <<log, lost, db, listed, failed, apart>>,
         job' = [job EXCEPT ![t] = NoJob], job[t] # NoJob => job[t].at = "end"
  PROVE  AppsInv'
<1>1. /\ pc[t] = "using" /\ pc' = [pc EXCEPT ![t] = "idle"]
      /\ held' = [held EXCEPT ![t] = NoRef] /\ live' \subseteq live
      /\ UNCHANGED <<ref, new>>
  BY DEF PutRules, Put
<1>2. /\ live \subseteq Refs /\ ref \in live' \cup {NoRef} /\ NoRef \notin live' /\ ui \in Threads
      /\ new[ui] \in live' \cup {NoRef}
  BY <1>1, BlockUnderUi DEF IInv, HeldIsLive, CurrentIsLive
<1>3. ConfTypes' /\ \A r \in live' : conf'[r] = conf[r]
  BY <1>1, <1>2, RulesPut DEF PutRules, AppsInv, TypesInv
<1>4. /\ job' = [u \in Threads |-> IF u = t THEN NoJob ELSE job[u]] /\ job'[t] = NoJob
      /\ \A u \in Threads \ {t} : job'[u] = job[u]
  BY DEF AppsInv, TypesInv, JobTypes
<1>5. TypesInv'
  <2>1. JobTypes'
    BY <1>4 DEF AppsInv, TypesInv, JobTypes
  <2>2. QED
    BY <1>3, <2>1 DEF AppsInv, TypesInv, DbTypes, LogTypes
<1>6. /\ \A u \in Threads \ {t} : pc'[u] = pc[u] /\ held'[u] = held[u]
      /\ pc'[t] = "idle"
  BY <1>1 DEF IInv, TypeOK
<1>7. JobPlaces'
  BY <1>4, <1>6 DEF AppsInv, JobPlaces
<1>8. pc'[ui] = "setting" <=> pc[ui] = "setting"
  BY <1>1, <1>2, <1>6
<1>9. NewIsWritten'
  BY <1>1, <1>2, <1>3, <1>8 DEF AppsInv, NewIsWritten, Written
<1>10. ref # NoRef => \A q \in Programs : Rule(q)' = Rule(q)
  BY <1>1, <1>2, <1>3 DEF Rule, CurrentRules
<1>11. \A u \in Threads, q \in Programs :
         /\ Writes(u, q)' <=> Writes(u, q)
         /\ Writes(u, q) => job'[u].blocked = job[u].blocked
         /\ Judges(u, q)' => held'[u] = ref \/ (Judges(u, q) /\ held'[u] = held[u])
  BY <1>4, <1>6 DEF Writes, Judges
<1>12. ReportsInv'
  BY <1>1, <1>10, <1>11, QuietReports DEF AppsInv
<1>13. RulesAgree'
  BY <1>1, <1>8, <1>10, QuietRules DEF AppsInv
<1>14. QED
  BY <1>5, <1>7, <1>9, <1>12, <1>13 DEF AppsInv

LEMMA ClassifyEndInv ==
  ASSUME IInv, IInv', AppsInv, NEW t \in Callbacks, ClassifyEnd(t), UNCHANGED confVars
  PROVE  AppsInv'
<1>1. t \in Threads /\ job[t].at = "end"
  BY DEF ClassifyEnd, Callbacks, At
<1>2. QED
  BY <1>1, PutRulesInv DEF ClassifyEnd, confVars

LEMMA UiHasNoJob ==
  ASSUME AppsInv
  PROVE  \A t \in Setters : job[t] = NoJob
BY ConfRefAssumption DEF AppsInv, JobPlaces, Callbacks, ConfRefAssumption

LEMMA ConfPutOldInv ==
  ASSUME IInv, IInv', AppsInv, ConfPutOld(ui), UNCHANGED confVars
  PROVE  AppsInv'
<1>1. ui \in Threads /\ job[ui] = NoJob
  BY BlockUnderUi, UiHasNoJob
<1>2. job' = [job EXCEPT ![ui] = NoJob]
  BY <1>1 DEF ConfPutOld, AppsInv, TypesInv, JobTypes
<1>3. QED
  BY <1>1, <1>2, PutRulesInv DEF ConfPutOld, confVars

LEMMA CloseBeginInv ==
  ASSUME IInv, AppsInv, CloseBegin(ui), UNCHANGED confVars
  PROVE  AppsInv'
<1>1. /\ ui \in Threads /\ pc[ui] = "idle"
      /\ UNCHANGED <<ref, conf, job, log, lost, db, listed, failed, apart>>
      /\ live' = live /\ held' = [held EXCEPT ![ui] = ref] /\ new'[ui] = NoRef
      /\ pc' = [pc EXCEPT ![ui] = "setting"]
  BY BlockUnderUi DEF CloseBegin, SetBegin, appVars, confVars, IInv, TypeOK
<1>2. pc'[ui] = "setting" /\ \A u \in Threads \ {ui} : pc'[u] = pc[u] /\ held'[u] = held[u]
  BY <1>1 DEF IInv, TypeOK
<1>3. job[ui] = NoJob
  BY BlockUnderUi, UiHasNoJob
<1>4. TypesInv' /\ JobPlaces' /\ NewIsWritten'
  BY <1>1, <1>2, <1>3
     DEF AppsInv, TypesInv, ConfTypes, JobTypes, DbTypes, LogTypes, JobPlaces, NewIsWritten
<1>5. \A q \in Programs : Rule(q)' = Rule(q)
  BY <1>1 DEF Rule, CurrentRules
<1>6. \A u \in Threads, q \in Programs :
        /\ Writes(u, q)' <=> Writes(u, q)
        /\ Writes(u, q) => job'[u].blocked = job[u].blocked
        /\ Judges(u, q)' => held'[u] = ref \/ (Judges(u, q) /\ held'[u] = held[u])
  BY <1>1, <1>2, <1>3 DEF Writes, Judges
<1>7. ReportsInv'
  BY <1>1, <1>5, <1>6, QuietReports DEF AppsInv
<1>8. RulesAgree'
  BY <1>2 DEF RulesAgree
<1>9. QED
  BY <1>4, <1>7, <1>8 DEF AppsInv

LEMMA ConfBeginInv ==
  ASSUME IInv, AppsInv, NEW n \in Refs, NEW F \in FlagSets, listed' \in SUBSET Programs,
         ConfBegin(ui, n, F, [p \in Programs |-> Written(p, listed')]),
         UNCHANGED <<db, failed, apart>>
  PROVE  AppsInv'
<1>1. /\ ui \in Threads /\ pc[ui] = "idle" /\ NoRef \notin Refs
      /\ n \notin live /\ ref \in live \cup {NoRef} /\ live \subseteq Refs
      /\ UNCHANGED <<ref, job, log, lost>>
      /\ live' = live \cup {n} /\ held' = [held EXCEPT ![ui] = ref] /\ new'[ui] = n
      /\ pc' = [pc EXCEPT ![ui] = "setting"]
  BY BlockUnderUi, ConfRefAssumption DEF ConfBegin, SetBegin, IInv, TypeOK, ConfRefAssumption
<1>2. pc'[ui] = "setting" /\ \A u \in Threads \ {ui} : pc'[u] = pc[u] /\ held'[u] = held[u]
  BY <1>1 DEF IInv, TypeOK
<1>3. job[ui] = NoJob
  BY BlockUnderUi, UiHasNoJob
<1>4. PICK rules : rules = [p \in Programs |-> Written(p, listed')]
  OBVIOUS
<1>5. rules \in [Programs -> Rules \cup {NoRule}]
  <2>1. \A p \in Programs : db[p] # NoRow => db[p].blocked \in BOOLEAN
    BY DEF AppsInv, TypesInv, DbTypes, Rows
  <2>2. \A p \in Programs : Written(p, listed') \in Rules \cup {NoRule}
    BY <2>1 DEF Written, RuleOf, Rules
  <2>3. QED
    BY <1>4, <2>2
<1>6. /\ conf' = [conf EXCEPT ![n] = [flags |-> F, rules |-> rules]]
      /\ [flags |-> F, rules |-> rules] \in Blocks
  BY <1>4, <1>5 DEF ConfBegin, Blocks
<1>7. /\ conf'[n].rules = rules /\ conf'[n] \in Blocks
      /\ \A r \in Refs \ {n} : conf'[r] = conf[r]
      /\ conf' \in [Refs -> Blocks \cup {NoBlock}]
  BY <1>6 DEF AppsInv, TypesInv, ConfTypes
<1>8. TypesInv'
  BY <1>1, <1>7 DEF AppsInv, TypesInv, ConfTypes, JobTypes, DbTypes, LogTypes
<1>9. JobPlaces'
  BY <1>1, <1>2, <1>3 DEF AppsInv, JobPlaces
<1>10. NewIsWritten'
  <2>1. \A p \in Programs : conf'[n].rules[p] = Written(p, listed')
    BY <1>4, <1>7
  <2>2. QED
    BY <1>1, <2>1 DEF NewIsWritten, Written
<1>11. ref # NoRef => \A q \in Programs : Rule(q)' = Rule(q)
  BY <1>1, <1>7 DEF Rule, CurrentRules
<1>12. \A u \in Threads, q \in Programs :
         /\ Writes(u, q)' <=> Writes(u, q)
         /\ Writes(u, q) => job'[u].blocked = job[u].blocked
         /\ Judges(u, q)' => held'[u] = ref \/ (Judges(u, q) /\ held'[u] = held[u])
  BY <1>1, <1>2, <1>3 DEF Writes, Judges
<1>13. ReportsInv'
  BY <1>1, <1>11, <1>12, QuietReports DEF AppsInv
<1>14. RulesAgree'
  BY <1>2 DEF RulesAgree
<1>15. QED
  BY <1>8, <1>9, <1>10, <1>13, <1>14 DEF AppsInv

LEMMA UserRule ==
  ASSUME NEW b \in BOOLEAN
  PROVE  /\ RuleOf(b) \in Rules /\ RuleOf(b) # NoRule
         /\ RuleOf(b).blocked = b /\ ~ RuleOf(b).own
<1>1. RuleOf(b) \in Rules /\ RuleOf(b).blocked = b /\ ~ RuleOf(b).own
  BY DEF RuleOf, Rules
<1>2. QED
  BY <1>1, AppsAssumption DEF AppsAssumption

LEMMA UserRow ==
  ASSUME NEW blocked \in BOOLEAN, NEW alerted \in BOOLEAN
  PROVE  /\ Row(blocked, alerted) \in Rows /\ Row(blocked, alerted) # NoRow
         /\ Row(blocked, alerted).blocked = blocked
<1>1. Row(blocked, alerted) \in Rows /\ Row(blocked, alerted).blocked = blocked
  BY DEF Row, Rows
<1>2. QED
  BY <1>1, UiAssumption DEF UiAssumption

LEMMA ConfStoreInv ==
  ASSUME IInv, IInv', AppsInv, ConfStore(ui), apart' = { p \in Programs : InFlight(p) },
         failed' = {}, UNCHANGED <<db, listed>>
  PROVE  AppsInv'
<1>1. /\ ui \in Threads /\ pc[ui] = "setting" /\ UNCHANGED <<live, conf, job, log, lost>>
      /\ ref' = new[ui] /\ pc'[ui] # "setting"
      /\ \A u \in Threads \ {ui} : pc'[u] = pc[u]
      /\ new[ui] \in live \cup {NoRef} /\ NoRef \notin live /\ live \subseteq Refs
  BY BlockUnderUi DEF ConfStore, SetStore, appVars, IInv, TypeOK
<1>2. job[ui] = NoJob
  BY BlockUnderUi, UiHasNoJob
<1>3. TypesInv'
  BY <1>1 DEF AppsInv, TypesInv, ConfTypes, JobTypes, DbTypes, LogTypes
<1>4. JobPlaces' /\ NewIsWritten'
  BY <1>1, <1>2 DEF AppsInv, JobPlaces, NewIsWritten
<1>5. \A p \in Programs \ apart' : NoReport(p) /\ \A t \in Threads : ~ Judges(t, p)
  BY DEF InFlight, Unread, Judging, NoReport, Judges, Writes, AppsInv, JobPlaces
<1>6. ref' # NoRef => \A p \in Programs : Rule(p)' = Written(p, listed)
  BY <1>1 DEF AppsInv, NewIsWritten, Rule, CurrentRules
<1>7. ref' # NoRef => \A p \in Programs : Rule(p)' # NoRule => ~ Rule(p)'.own
  BY <1>6 DEF Written, RuleOf
<1>8. ReportsInv'
  BY <1>1, <1>5, <1>7, ReportsStored
<1>9. RulesAgree'
  <2>1. \A b \in BOOLEAN : RuleOf(b) # NoRule /\ RuleOf(b).blocked = b
    BY UserRule
  <2>2. \A p \in Programs : db[p] # NoRow => db[p].blocked \in BOOLEAN
    BY DEF AppsInv, TypesInv, DbTypes, Rows
  <2>3. SUFFICES ASSUME ref' # NoRef, NEW p \in Programs, db[p] # NoRow \/ p \in listed
                 PROVE  /\ Rule(p)' # NoRule
                        /\ Rule(p)'.blocked = (db[p] # NoRow /\ db[p].blocked)
    BY DEF RulesAgree, Rule
  <2>4. Rule(p)' = Written(p, listed)
    BY <1>6, <2>3
  <2>5. CASE db[p] # NoRow
    BY <2>1, <2>2, <2>4, <2>5 DEF Written
  <2>6. CASE db[p] = NoRow
    BY <2>1, <2>3, <2>4, <2>6 DEF Written
  <2>7. QED
    BY <2>5, <2>6
<1>10. QED
  BY <1>3, <1>4, <1>8, <1>9 DEF AppsInv

(* A row is written, or an alert is taken back: what that does to the table. *)
LEMMA RowWritten ==
  ASSUME DbTypes, NEW p \in Programs, NEW row \in Rows, db' = [db EXCEPT ![p] = row]
  PROVE  /\ db' \in [Programs -> Rows \cup {NoRow}] /\ db'[p] = row
         /\ \A q \in Programs \ {p} : db'[q] = db[q]
BY DEF DbTypes

LEMMA LogBlockedAppInv ==
  ASSUME IInv, AppsInv, LogBlockedApp
  PROVE  AppsInv'
<1>1. /\ pc[ui] = "idle" /\ log # <<>> /\ log' = Tail(log)
      /\ UNCHANGED <<ref, live, pc, held, new, conf, job, lost, listed, apart>>
  BY DEF LogBlockedApp, vars
<1>2. PICK p, blocked : p = Head(log).prog /\ blocked = Head(log).blocked
  OBVIOUS
<1>3. /\ LogTypes' /\ 1 \in DOMAIN log /\ Head(log) = log[1]
  BY <1>1, LogRead DEF AppsInv, TypesInv
<1>4. p \in Programs /\ blocked \in BOOLEAN
  <2>1. log[1] \in Records
    BY <1>3, ElementOfSeq DEF AppsInv, TypesInv, LogTypes
  <2>2. QED
    BY <1>2, <1>3, <2>1 DEF Records
<1>5. \/ db[p] = NoRow /\ db' = [db EXCEPT ![p] = Row(blocked, TRUE)] /\ failed' = failed
      \/ failed' = failed \cup {p} /\ db' = db
      \/ db[p] # NoRow /\ db' = db /\ failed' = failed
  BY <1>2 DEF LogBlockedApp, IsUnknown
<1>6. /\ db' \in [Programs -> Rows \cup {NoRow}]
      /\ \A q \in Programs \ {p} : db'[q] = db[q]
      /\ failed \subseteq failed' /\ failed' \in SUBSET Programs
      /\ \A q \in failed' \ failed : q = p
      /\ db'[p] # NoRow \/ p \in failed'
      /\ db[p] # NoRow => db'[p] = db[p]
      /\ p \notin failed' /\ db[p] = NoRow => db'[p].blocked = blocked
  <2>1. DbTypes
    BY DEF AppsInv, TypesInv
  <2>2. CASE db[p] = NoRow /\ db' = [db EXCEPT ![p] = Row(blocked, TRUE)] /\ failed' = failed
    <3>1. Row(blocked, TRUE) \in Rows /\ Row(blocked, TRUE) # NoRow
          /\ Row(blocked, TRUE).blocked = blocked
      BY <1>4, UserRow
    <3>2. /\ db' \in [Programs -> Rows \cup {NoRow}] /\ db'[p] = Row(blocked, TRUE)
          /\ \A q \in Programs \ {p} : db'[q] = db[q]
      BY <1>4, <2>1, <2>2, <3>1, RowWritten
    <3>3. QED
      BY <2>1, <2>2, <3>1, <3>2 DEF DbTypes
  <2>3. CASE db' = db /\ failed' = failed \cup {p}
    BY <1>4, <2>1, <2>3 DEF DbTypes
  <2>4. CASE db[p] # NoRow /\ db' = db /\ failed' = failed
    BY <2>1, <2>4 DEF DbTypes
  <2>5. QED
    BY <1>5, <2>2, <2>3, <2>4
<1>7. TypesInv'
  BY <1>1, <1>3, <1>6 DEF AppsInv, TypesInv, ConfTypes, JobTypes, DbTypes
<1>8. JobPlaces' /\ NewIsWritten'
  BY <1>1 DEF AppsInv, JobPlaces, NewIsWritten
<1>9. \A q \in Programs : Rule(q)' = Rule(q)
  BY <1>1 DEF Rule, CurrentRules
<1>10. ReportsInv'
  <2>1. ReportsInv /\ LogTypes
    BY DEF AppsInv, TypesInv
  <2>2. UNCHANGED <<ref, held, job, lost, apart>>
    BY <1>1
  <2>3. Head(log).prog = p /\ (db[p] # NoRow => db'[p] # NoRow)
    BY <1>2, <1>6
  <2>4. QED
    BY <1>1, <1>4, <1>6, <1>9, <2>1, <2>2, <2>3, ReportsRead
<1>11. RulesAgree'
  <2>1. SUFFICES ASSUME ref # NoRef, NEW q \in Programs \ (failed' \cup apart),
                        db'[q] # NoRow \/ q \in listed
                 PROVE  Rule(q) # NoRule /\ Rule(q).blocked = (db'[q] # NoRow /\ db'[q].blocked)
    BY <1>1, <1>9 DEF RulesAgree, Rule
  <2>2. q \in Programs \ (failed \cup apart)
    BY <1>6, <2>1
  <2>3. CASE q # p \/ db[q] # NoRow
    <3>1. db'[q] = db[q]
      BY <1>6, <2>1, <2>3
    <3>2. QED
      BY <1>1, <2>1, <2>2, <3>1 DEF AppsInv, RulesAgree, Rule
  <2>4. CASE q = p /\ db[q] = NoRow
    <3>1. Rule(q) # NoRule /\ Rule(q).blocked = log[1].blocked
      BY <1>2, <1>3, <2>1, <2>2, <2>4 DEF AppsInv, ReportsInv, RuleReported
    <3>2. db'[q] # NoRow /\ db'[q].blocked = blocked
      BY <1>6, <2>1, <2>4
    <3>3. QED
      BY <1>2, <1>3, <1>4, <3>1, <3>2
  <2>5. QED
    BY <2>3, <2>4
<1>12. QED
  BY <1>7, <1>8, <1>10, <1>11 DEF AppsInv

(* What ControlApp does to the current block. *)
LEMMA AppControlled ==
  ASSUME IInv, AppsInv, NEW p \in Programs, NEW rule \in Rules \cup {NoRule},
         ControlApp(p, rule), UNCHANGED <<ref, live>>
  PROVE  /\ ConfTypes' /\ ref # NoRef /\ Rule(p)' = rule
         /\ \A q \in Programs \ {p} : Rule(q)' = Rule(q)
<1>1. ref \in live /\ ref # NoRef /\ live \subseteq Refs
  BY BlockUnderUi DEF ControlApp
<1>2. ConfTypes /\ SetsRule(ref, p, rule)
  BY DEF AppsInv, TypesInv, ControlApp, SetsRule
<1>3. ConfTypes' /\ HasRule(ref, p, rule)
  BY <1>1, <1>2, RuleChanged
<1>4. QED
  BY <1>1, <1>3 DEF HasRule, Rule, CurrentRules

(* The driver, and perhaps the database, are told of a program.            *)
LEMMA WriteAppInv ==
  ASSUME IInv, AppsInv, NEW p \in Programs, NEW blocked \in BOOLEAN, NEW to \in {"both", "driver"},
         pc[ui] = "idle", WriteApp(p, Row(blocked, FALSE), to),
         UNCHANGED vars, UNCHANGED <<job, lost, listed>>,
         apart' = apart \/ (to = "both" /\ ~ InFlight(p) /\ apart' = apart \ {p})
  PROVE  AppsInv'
<1>1. UNCHANGED <<ref, live, pc, held, new, job, log, lost, listed>>
  BY DEF WriteApp, vars
<1>2. PICK row : row = Row(blocked, FALSE)
  OBVIOUS
<1>3. row \in Rows /\ row # NoRow /\ row.blocked = blocked
  BY <1>2, UserRow
<1>4. PICK rule : rule = RuleOf(blocked)
  OBVIOUS
<1>5. rule \in Rules /\ rule # NoRule /\ rule.blocked = blocked /\ ~ rule.own
  BY <1>4, UserRule
<1>6. /\ ConfTypes' /\ ref # NoRef /\ Rule(p)' = rule
      /\ \A q \in Programs \ {p} : Rule(q)' = Rule(q)
  <2>1. ControlApp(p, rule)
    BY <1>2, <1>3, <1>4 DEF WriteApp
  <2>2. QED
    BY <1>1, <1>5, <2>1, AppControlled
<1>7. /\ db' \in [Programs -> Rows \cup {NoRow}]
      /\ \A q \in Programs \ {p} : db'[q] = db[q] /\ (q \in failed' <=> q \in failed)
      /\ failed' \in SUBSET Programs
      /\ p \notin failed' => to = "both" /\ db'[p] = row
      /\ to # "both" => p \in failed'
  <2>1. DbTypes
    BY DEF AppsInv, TypesInv
  <2>2. CASE to = "both"
    <3>1. db' = [db EXCEPT ![p] = row] /\ failed' = failed \ {p}
      BY <1>2, <2>2 DEF WriteApp
    <3>2. /\ db' \in [Programs -> Rows \cup {NoRow}] /\ db'[p] = row
          /\ \A q \in Programs \ {p} : db'[q] = db[q]
      BY <1>3, <2>1, <3>1, RowWritten
    <3>3. QED
      BY <2>1, <2>2, <3>1, <3>2 DEF DbTypes
  <2>3. CASE to # "both"
    BY <2>1, <2>3 DEF WriteApp, DbTypes
  <2>4. QED
    BY <2>2, <2>3
<1>8. TypesInv'
  BY <1>1, <1>6, <1>7 DEF AppsInv, TypesInv, JobTypes, DbTypes, LogTypes
<1>9. JobPlaces' /\ NewIsWritten'
  BY <1>1 DEF AppsInv, JobPlaces, NewIsWritten
<1>10. \A q \in apart \ apart' : NoReport(q) /\ \A t \in Threads : ~ Judges(t, q)
  <2>1. ~ InFlight(p) => NoReport(p) /\ \A t \in Threads : ~ Judges(t, p)
    BY DEF InFlight, Unread, Judging, NoReport, Judges, Writes, AppsInv, JobPlaces
  <2>2. QED
    BY <2>1
<1>11. ReportsInv'
  <2>1. ReportsInv /\ apart' \subseteq apart
    BY DEF AppsInv
  <2>2. /\ UNCHANGED <<ref, held, job, log, lost>> /\ ref # NoRef
        /\ Rule(p)' # NoRule /\ ~ Rule(p)'.own
        /\ db'[p] # NoRow \/ p \in failed'
        /\ \A q \in Programs \ {p} : /\ Rule(q)' = Rule(q) /\ db'[q] = db[q]
                                     /\ q \in failed' <=> q \in failed
    BY <1>1, <1>3, <1>5, <1>6, <1>7
  <2>3. QED
    BY <1>10, <2>1, <2>2, ReportsEdited
<1>12. RulesAgree'
  <2>1. SUFFICES ASSUME NEW q \in Programs \ (failed' \cup apart'), db'[q] # NoRow \/ q \in listed
                 PROVE  Rule(q)' # NoRule /\ Rule(q)'.blocked = (db'[q] # NoRow /\ db'[q].blocked)
    BY <1>1 DEF RulesAgree, Rule
  <2>2. CASE q = p
    BY <1>3, <1>5, <1>6, <1>7, <2>1, <2>2
  <2>3. CASE q # p
    <3>1. q \in Programs \ (failed \cup apart) /\ db'[q] = db[q] /\ Rule(q)' = Rule(q)
      BY <1>6, <1>7, <2>1, <2>3
    <3>2. QED
      BY <1>6, <2>1, <3>1 DEF AppsInv, RulesAgree, Rule
  <2>4. QED
    BY <2>2, <2>3
<1>13. QED
  BY <1>8, <1>9, <1>11, <1>12 DEF AppsInv

LEMMA AddAppInv ==
  ASSUME IInv, AppsInv, NEW p \in Programs, NEW blocked \in BOOLEAN, NEW to \in {"both", "driver"},
         AddApp(p, blocked, to)
  PROVE  AppsInv'
BY WriteAppInv DEF AddApp

LEMMA UpdateAppBlockedInv ==
  ASSUME IInv, AppsInv, NEW p \in Programs, NEW blocked \in BOOLEAN, NEW to \in {"both", "driver"},
         UpdateAppBlocked(p, blocked, to)
  PROVE  AppsInv'
<1>1. /\ pc[ui] = "idle" /\ db[p] # NoRow /\ UNCHANGED vars
      /\ UNCHANGED <<job, lost, listed, apart>>
  BY DEF UpdateAppBlocked
<1>2. CASE blocked # db[p].blocked
  BY <1>1, <1>2, WriteAppInv DEF UpdateAppBlocked
<1>3. CASE blocked = db[p].blocked
  <2>1. db' = [db EXCEPT ![p].alerted = FALSE] /\ UNCHANGED <<conf, log, failed>>
    BY <1>3 DEF UpdateAppBlocked
  <2>2. UNCHANGED <<ref, live, pc, held, new, conf, job, log, lost, listed, failed, apart>>
    BY <1>1, <2>1 DEF vars
  <2>3. db[p] \in Rows /\ db'[p] = [db[p] EXCEPT !.alerted = FALSE]
    BY <1>1, <2>1 DEF AppsInv, TypesInv, DbTypes
  <2>4. db'[p] \in Rows /\ db'[p].blocked = db[p].blocked
    BY <2>3 DEF Rows
  <2>5. db'[p] # NoRow
    BY <2>4, UiAssumption DEF UiAssumption
  <2>6. db' = [q \in Programs |-> IF q = p THEN db'[p] ELSE db[q]]
    BY <2>1 DEF AppsInv, TypesInv, DbTypes
  <2>7. /\ db' \in [Programs -> Rows \cup {NoRow}]
        /\ \A q \in Programs : /\ db'[q] = NoRow <=> db[q] = NoRow
                               /\ db[q] # NoRow => db'[q].blocked = db[q].blocked
    BY <1>1, <2>4, <2>5, <2>6 DEF AppsInv, TypesInv, DbTypes
  <2>8. TypesInv'
    BY <2>2, <2>7 DEF AppsInv, TypesInv, ConfTypes, JobTypes, DbTypes, LogTypes
  <2>9. JobPlaces' /\ NewIsWritten'
    BY <1>1, <2>2 DEF AppsInv, JobPlaces, NewIsWritten
  <2>10. \A q \in Programs : Rule(q)' = Rule(q)
    BY <2>2 DEF Rule, CurrentRules
  <2>11. \A u \in Threads, q \in Programs :
           /\ Writes(u, q)' <=> Writes(u, q)
           /\ Writes(u, q) => job'[u].blocked = job[u].blocked
           /\ Judges(u, q)' => held'[u] = ref \/ (Judges(u, q) /\ held'[u] = held[u])
    BY <2>2 DEF Writes, Judges
  <2>12. ReportsInv'
    BY <2>2, <2>7, <2>10, <2>11, QuietReports DEF AppsInv
  <2>13. RulesAgree'
    BY <2>2, <2>7, <2>10, QuietRules DEF AppsInv
  <2>14. QED
    BY <2>8, <2>9, <2>12, <2>13 DEF AppsInv
<1>4. QED
  BY <1>2, <1>3

LEMMA DeleteAppInv ==
  ASSUME IInv, AppsInv, NEW p \in Programs, DeleteApp(p)
  PROVE  AppsInv'
<1>1. /\ pc[ui] = "idle" /\ UNCHANGED <<ref, live, pc, held, new, job, log, lost, listed>>
      /\ db' = [db EXCEPT ![p] = NoRow]
      /\ apart' = IF InFlight(p) \/ p \in listed THEN apart \cup {p} ELSE apart
  BY DEF DeleteApp, vars
<1>2. \/ failed' = failed /\ ControlApp(p, NoRule)
      \/ failed' = failed \cup {p} /\ conf' = conf
  BY DEF DeleteApp, DriverDelete
<1>3. /\ ConfTypes' /\ failed \subseteq failed' /\ failed' \in SUBSET Programs
      /\ \A q \in Programs \ {p} : ref # NoRef => Rule(q)' = Rule(q)
      /\ ref # NoRef /\ p \notin failed' => Rule(p)' = NoRule
  <2>1. CASE failed' = failed /\ ControlApp(p, NoRule)
    BY <1>1, <2>1, AppControlled DEF AppsInv, TypesInv, DbTypes
  <2>2. CASE failed' = failed \cup {p} /\ conf' = conf
    BY <1>1, <2>2 DEF AppsInv, TypesInv, DbTypes, ConfTypes, Rule, CurrentRules
  <2>3. QED
    BY <1>2, <2>1, <2>2
<1>4. /\ db' \in [Programs -> Rows \cup {NoRow}] /\ db'[p] = NoRow
      /\ \A q \in Programs \ {p} : db'[q] = db[q]
  BY <1>1 DEF AppsInv, TypesInv, DbTypes
<1>5. TypesInv'
  BY <1>1, <1>3, <1>4 DEF AppsInv, TypesInv, JobTypes, DbTypes, LogTypes
<1>6. JobPlaces' /\ NewIsWritten'
  BY <1>1 DEF AppsInv, JobPlaces, NewIsWritten
<1>7. apart \subseteq apart' /\ (p \notin apart' => NoReport(p) /\ p \notin listed)
  BY <1>1 DEF InFlight, Unread, Judging, NoReport, Writes, AppsInv, JobPlaces
<1>8. ReportsInv'
  <2>1. ReportsInv /\ UNCHANGED <<ref, held, job, log, lost>>
    BY <1>1 DEF AppsInv
  <2>2. \A q \in Programs \ {p} : (ref # NoRef => Rule(q)' = Rule(q)) /\ db'[q] = db[q]
    BY <1>3, <1>4
  <2>3. QED
    BY <1>3, <1>7, <2>1, <2>2, ReportsDeleted
<1>9. RulesAgree'
  <2>1. SUFFICES ASSUME ref # NoRef, NEW q \in Programs \ (failed' \cup apart'),
                        db'[q] # NoRow \/ q \in listed
                 PROVE  Rule(q)' # NoRule /\ Rule(q)'.blocked = (db'[q] # NoRow /\ db'[q].blocked)
    BY <1>1 DEF RulesAgree, Rule
  <2>2. q # p
    BY <1>4, <1>7, <2>1
  <2>3. q \in Programs \ (failed \cup apart) /\ db'[q] = db[q] /\ Rule(q)' = Rule(q)
    BY <1>3, <1>4, <1>7, <2>1, <2>2
  <2>4. QED
    BY <1>1, <2>1, <2>3 DEF AppsInv, RulesAgree, Rule
<1>10. QED
  BY <1>5, <1>6, <1>8, <1>9 DEF AppsInv

LEMMA WriteFlagsInv ==
  ASSUME IInv, AppsInv, WriteFlags
  PROVE  AppsInv'
<1>1. PICK F \in FlagSets : FlagsSet(F)
  BY DEF WriteFlags
<1>2. /\ pc[ui] = "idle" /\ ref # NoRef
      /\ UNCHANGED <<ref, live, pc, held, new, job, log, lost, db, listed, failed, apart>>
      /\ conf' = [conf EXCEPT ![ref].flags = F]
  BY <1>1 DEF WriteFlags, FlagsSet, vars, confVars
<1>3. ref \in live /\ live \subseteq Refs
  BY <1>2, BlockUnderUi
<1>4. conf[ref] \in Blocks /\ conf'[ref] = [conf[ref] EXCEPT !.flags = F]
  BY <1>2, <1>3 DEF AppsInv, TypesInv, ConfTypes
<1>5. conf'[ref] \in Blocks /\ conf'[ref].rules = conf[ref].rules
  BY <1>4 DEF Blocks
<1>6. conf' = [r \in Refs |-> IF r = ref THEN conf'[ref] ELSE conf[r]]
  BY <1>2, <1>3 DEF AppsInv, TypesInv, ConfTypes
<1>7. TypesInv'
  BY <1>2, <1>3, <1>5, <1>6 DEF AppsInv, TypesInv, ConfTypes, JobTypes, DbTypes, LogTypes
<1>8. JobPlaces' /\ NewIsWritten'
  BY <1>2 DEF AppsInv, JobPlaces, NewIsWritten
<1>9. \A q \in Programs : Rule(q)' = Rule(q)
  BY <1>2, <1>5 DEF Rule, CurrentRules
<1>10. \A u \in Threads, q \in Programs :
         /\ Writes(u, q)' <=> Writes(u, q)
         /\ Writes(u, q) => job'[u].blocked = job[u].blocked
         /\ Judges(u, q)' => held'[u] = ref \/ (Judges(u, q) /\ held'[u] = held[u])
  BY <1>2 DEF Writes, Judges
<1>11. ReportsInv'
  BY <1>2, <1>9, <1>10, QuietReports DEF AppsInv
<1>12. RulesAgree'
  BY <1>2, <1>9, QuietRules DEF AppsInv
<1>13. QED
  BY <1>7, <1>8, <1>11, <1>12 DEF AppsInv

-----------------------------------------------------------------------------
(* All together. *)

LEMMA AppsInitInv == ConfInit => IInv /\ AppsInv
<1>1. SUFFICES ASSUME ConfInit PROVE IInv /\ AppsInv
  OBVIOUS
<1>2. Init /\ IInv
  BY <1>1, InitInv DEF ConfInit, AppsInit
<1>3. /\ ref = NoRef /\ live = {} /\ \A t \in Threads : pc[t] = "idle"
      /\ conf = [r \in Refs |-> NoBlock] /\ job = [t \in Threads |-> NoJob] /\ log = <<>>
      /\ db = [p \in Programs |-> NoRow] /\ listed = {} /\ failed = {} /\ apart = {}
  BY <1>1 DEF ConfInit, AppsInit, Init
<1>4. TypesInv
  BY <1>3 DEF TypesInv, ConfTypes, JobTypes, DbTypes, LogTypes
<1>5. JobPlaces /\ NewIsWritten /\ RulesAgree
  BY <1>3, BlockUnderUi, <1>2 DEF JobPlaces, NewIsWritten, RulesAgree
<1>6. \A t \in Threads : \A p : ~ Writes(t, p) /\ ~ Judges(t, p)
  BY <1>3 DEF Writes, Judges
<1>7. DOMAIN log = {}
  BY <1>3
<1>8. ReportsInv
  BY <1>3, <1>6, <1>7
     DEF ReportsInv, JudgesCurrent, RuleReported, OwnReported, ReportsOnce, NoReport, OneReport
<1>9. QED
  BY <1>2, <1>4, <1>5, <1>8 DEF AppsInv

(* An action of the programs is one of the blocks, or leaves them alone.   *)
LEMMA AppsStepRefines == [ConfNext]_allVars => [Next]_vars
<1>1. SUFFICES ASSUME [ConfNext]_allVars PROVE [Next]_vars
  OBVIOUS
<1>2. ASSUME NEW t \in Callbacks, Classify(t) PROVE [Next]_vars
  BY <1>2 DEF Classify, ClassifyBegin, FindApp, AddPath, WriteBlocked, ClassifyEnd, PutRules,
              Callbacks, Next
<1>3. CASE LogBlockedApp
  BY <1>3 DEF LogBlockedApp
<1>4. CASE Edit
  BY <1>4 DEF Edit, DeleteApp, AddApp, UpdateAppBlocked
<1>5. CASE WriteConf
  <2>1. ui \in Setters /\ ui \in Threads
    BY UiAssumption, ConfRefAssumption DEF UiAssumption, ConfRefAssumption
  <2>2. QED
    BY <1>5, <2>1 DEF WriteConf, ConfBegin, CloseBegin, ConfStore, ConfPutOld, PutRules, Next
<1>6. CASE WriteFlags
  BY <1>6 DEF WriteFlags, FlagsSet
<1>7. CASE UNCHANGED allVars
  BY <1>7 DEF allVars
<1>8. QED
  BY <1>1, <1>2, <1>3, <1>4, <1>5, <1>6, <1>7 DEF ConfNext

LEMMA AppsStepInv == IInv /\ AppsInv /\ [ConfNext]_allVars => IInv' /\ AppsInv'
<1>1. SUFFICES ASSUME IInv, AppsInv, [ConfNext]_allVars PROVE IInv' /\ AppsInv'
  OBVIOUS
<1>2. IInv'
  BY <1>1, AppsStepRefines, StepInv
<1>3. ASSUME NEW t \in Callbacks, Classify(t), UNCHANGED confVars PROVE AppsInv'
  BY <1>1, <1>2, <1>3, ClassifyBeginInv, FindAppInv, AddPathInv, WriteBlockedInv, ClassifyEndInv
     DEF Classify
<1>4. CASE LogBlockedApp
  BY <1>1, <1>2, <1>4, LogBlockedAppInv
<1>5. CASE Edit
  BY <1>1, <1>2, <1>5, DeleteAppInv, AddAppInv, UpdateAppBlockedInv DEF Edit
<1>6. CASE WriteConf
  <2>1. CASE /\ listed' \in SUBSET Programs
             /\ \E n \in Refs, F \in FlagSets :
                  ConfBegin(ui, n, F, [p \in Programs |-> Written(p, listed')])
             /\ UNCHANGED <<db, failed, apart>>
    BY <1>1, <1>2, <2>1, ConfBeginInv
  <2>2. CASE CloseBegin(ui) /\ UNCHANGED confVars
    BY <1>1, <1>2, <2>2, CloseBeginInv
  <2>3. CASE /\ ConfStore(ui) /\ apart' = { p \in Programs : InFlight(p) }
             /\ failed' = {} /\ UNCHANGED <<db, listed>>
    BY <1>1, <1>2, <2>3, ConfStoreInv
  <2>4. CASE ConfPutOld(ui) /\ UNCHANGED confVars
    BY <1>1, <1>2, <2>4, ConfPutOldInv
  <2>5. QED
    BY <1>6, <2>1, <2>2, <2>3, <2>4 DEF WriteConf
<1>7. CASE WriteFlags
  BY <1>1, <1>2, <1>7, WriteFlagsInv
<1>8. CASE UNCHANGED allVars
  <2>1. UNCHANGED <<ref, live, pc, held, new, conf, job, log, lost, db, listed, failed, apart>>
    BY <1>8 DEF allVars, vars, appVars, confVars
  <2>2. (\A p : Rule(p)' = Rule(p)) /\ \A t, p : Writes(t, p)' = Writes(t, p) /\ Judges(t, p)' = Judges(t, p)
    BY <2>1 DEF Rule, CurrentRules, Writes, Judges
  <2>3. TypesInv' /\ JobPlaces' /\ NewIsWritten'
    BY <1>1, <2>1 DEF AppsInv, TypesInv, ConfTypes, JobTypes, DbTypes, LogTypes, JobPlaces,
                      NewIsWritten, Written
  <2>4. ReportsInv'
    BY <1>1, <2>1, <2>2, QuietReports DEF AppsInv
  <2>5. RulesAgree'
    BY <1>1, <2>1, <2>2, QuietRules DEF AppsInv
  <2>6. QED
    BY <1>2, <2>3, <2>4, <2>5 DEF AppsInv
<1>9. QED
  BY <1>1, <1>2, <1>3, <1>4, <1>5, <1>6, <1>7, <1>8 DEF ConfNext

(* The inductive invariant of the programs: what is on its way agrees with *)
(* the rule it was made with, and nothing is reported twice.               *)
THEOREM AppsInvariant == ConfSpec => [](IInv /\ AppsInv)
<1>1. QED
  BY AppsInitInv, AppsStepInv, PTL DEF ConfSpec

(* The programs and their database use the configuration blocks as the     *)
(* specification of the blocks says.                                       *)
THEOREM AppsUseBlocks == ConfSpec => Spec
<1>1. ConfInit => Init
  BY DEF ConfInit, AppsInit
<1>2. QED
  BY <1>1, AppsStepRefines, PTL DEF ConfSpec, Spec

(* No classify callback works with a configuration that was deleted under  *)
(* it, whatever the user edits.                                            *)
THEOREM AppsHeldIsLive == ConfSpec => []HeldIsLive
<1>1. QED
  BY AppsUseBlocks, NoUseAfterFree, PTL

(* What the user set is what the driver does, for every program whose      *)
(* writes did not fail and that had no record on its way.                  *)
THEOREM RulesFollowUser == ConfSpec => []RulesAgree
<1>1. AppsInv => RulesAgree
  BY DEF AppsInv
<1>2. QED
  BY <1>1, AppsInvariant, PTL

(* No program that the driver decides on by itself stays unknown, and none *)
(* is reported twice.                                                      *)
THEOREM NewAreReported == ConfSpec => []EveryNewReported
<1>1. AppsInv => EveryNewReported
  <2>1. SUFFICES ASSUME AppsInv PROVE EveryNewReported
    OBVIOUS
  <2>2. \A t \in Threads, p \in Programs : Writes(t, p) => t \in Judging(p) /\ job[t].at = "write"
    BY <2>1 DEF AppsInv, JobPlaces, Writes, Judging
  <2>3. ASSUME ref # NoRef, NEW p \in Programs \ (failed \cup lost),
               CurrentRules[p] # NoRule, CurrentRules[p].own
        PROVE  db[p] # NoRow \/ InFlight(p)
    <3>1. \/ db[p] # NoRow
          \/ \E k \in DOMAIN log : log[k].prog = p
          \/ \E t \in Threads : Writes(t, p)
      BY <2>1, <2>3 DEF AppsInv, ReportsInv, OwnReported, Rule
    <3>2. QED
      BY <2>2, <3>1 DEF InFlight, Unread
  <2>4. ASSUME NEW p \in Programs \ apart
        PROVE  Cardinality(Unread(p)) + Cardinality({ t \in Judging(p) : job[t].at = "write" }) <= 1
    <3>1. PICK W : W = { t \in Judging(p) : job[t].at = "write" }
      OBVIOUS
    <3>2. OneReport(p)
      BY <2>1 DEF AppsInv, ReportsInv, ReportsOnce
    <3>3. \A k, l \in Unread(p) : k = l
      BY <3>2 DEF OneReport, Unread
    <3>4. \A t, u \in W : t = u
      BY <3>1, <3>2 DEF OneReport, Writes, Judging, Callbacks
    <3>5. Unread(p) = {} \/ W = {}
      BY <3>1, <3>2 DEF OneReport, Unread, Writes, Judging, Callbacks
    <3>6. ASSUME NEW S, \A x, y \in S : x = y
          PROVE  Cardinality(S) \in {0, 1} /\ (S = {} => Cardinality(S) = 0)
      <4>1. CASE S = {}
        BY <4>1, FS_EmptySet
      <4>2. CASE S # {}
        <5>1. PICK x : S = {x}
          BY <3>6, <4>2
        <5>2. QED
          BY <4>2, <5>1, FS_Singleton
      <4>3. QED
        BY <4>1, <4>2
    <3>7. /\ Cardinality(Unread(p)) \in {0, 1} /\ (Unread(p) = {} => Cardinality(Unread(p)) = 0)
          /\ Cardinality(W) \in {0, 1} /\ (W = {} => Cardinality(W) = 0)
      BY <3>3, <3>4, <3>6
    <3>8. Cardinality(Unread(p)) + Cardinality(W) <= 1
      BY <3>5, <3>7
    <3>9. QED
      BY <3>1, <3>8
  <2>5. QED
    BY <2>3, <2>4 DEF EveryNewReported
<1>2. QED
  BY <1>1, AppsInvariant, PTL

-----------------------------------------------------------------------------
(* Lists of addresses. *)

(* The map has the lines that were inserted, but those that were lost.     *)
MapInv ==
  /\ lines \in Seq(Ranges) /\ next \in 1 .. Len(lines) + 1
  /\ DOMAIN ipRangeMap \subseteq Ips
  /\ \A f \in DOMAIN ipRangeMap :
       /\ ipRangeMap[f] \in Ips /\ f <= ipRangeMap[f]
       /\ \E n \in 1 .. next - 1 : lines[n].from = f /\ lines[n].to = ipRangeMap[f]
  /\ \A n \in 1 .. next - 1 :
       lines[n].from \in DOMAIN ipRangeMap /\ (lines[n].to <= ipRangeMap[lines[n].from] \/ Lost)

(* The arrays have the ranges of the keys that were taken, the lowest ones. *)
Covered(ip) == \E f \in taken : f <= ip /\ ip <= ipRangeMap[f]

TakenInv == taken \subseteq DOMAIN ipRangeMap /\ \A t \in taken, j \in DOMAIN ipRangeMap \ taken : t < j

IpsInv ==
  /\ ipArray \in Seq(Ips) /\ \A i \in 1 .. Len(ipArray) : ipArray[i] \in taken
  /\ \A i, j \in 1 .. Len(ipArray) : i < j => ipArray[i] < ipArray[j]

PairsInv ==
  /\ pairFrom \in Seq(Ips) /\ pairTo \in Seq(Ips) /\ Len(pairFrom) = Len(pairTo)
  /\ \A i \in 1 .. Len(pairFrom) :
       /\ pairFrom[i] \in taken /\ pairFrom[i] <= pairTo[i]
       /\ \E f \in taken : ipRangeMap[f] = pairTo[i]
       /\ \A ip \in Ips : pairFrom[i] <= ip /\ ip <= pairTo[i] => Covered(ip)
  /\ \A i, j \in 1 .. Len(pairFrom) :
       i < j => pairFrom[i] < pairFrom[j] /\ (pairTo[i] < pairFrom[j] \/ Hidden)

InArrays(k) ==
  \/ ipRangeMap[k] = k /\ \E i \in 1 .. Len(ipArray) : ipArray[i] = k
  \/ \E i \in 1 .. Len(pairFrom) : pairFrom[i] <= k /\ ipRangeMap[k] <= pairTo[i]

PlacesInv ==
  /\ place \in {"insert", "fill", "written", "ip", "pair", "done"}
  /\ place = "insert" => taken = {}
  /\ place # "insert" => next = Len(lines) + 1
  /\ place \notin {"insert", "fill"} => DOMAIN ipRangeMap \subseteq taken

(* The search: the address is not left of low, nor right of high.          *)
Narrowed(array, ip, l, h) ==
  /\ l \in 0 .. Len(array) /\ h \in -1 .. Len(array) - 1 /\ l <= h + 1
  /\ \A i \in 1 .. Len(array) : (i <= l => array[i] < ip) /\ (i > h + 1 => array[i] > ip)

FindInv ==
  /\ remote_ip \in Ips
  /\ place = "ip" => Narrowed(ipArray, remote_ip, low, high) /\ answer = FALSE
  /\ place = "pair" => Narrowed(pairFrom, remote_ip, low, high) /\ answer = FALSE /\ \A i \in 1 .. Len(ipArray) : ipArray[i] # remote_ip

AddressInv ==
  /\ MapInv /\ TakenInv /\ IpsInv /\ PairsInv /\ (\A k \in taken : InArrays(k))
  /\ PlacesInv /\ FindInv /\ AddressDecided

(* What the arrays say does not change while they are searched. *)
LEMMA ArraysStay ==
  ASSUME AddressInv, UNCHANGED <<parseVars, arrayVars>>
  PROVE  /\ MapInv' /\ TakenInv' /\ IpsInv' /\ PairsInv' /\ (\A k \in taken : InArrays(k))'
         /\ (Lost' <=> Lost) /\ (Hidden' <=> Hidden) /\ \A ip \in Ips : Listed(ip)' <=> Listed(ip)
<1>1. UNCHANGED <<lines, ipRangeMap, next, taken, ipArray, pairFrom, pairTo>>
  BY DEF parseVars, arrayVars
<1>2. (Lost' <=> Lost) /\ (Hidden' <=> Hidden) /\ \A ip \in Ips : Listed(ip)' <=> Listed(ip)
  BY <1>1 DEF Lost, Hidden, Listed
<1>3. MapInv'
  BY <1>1, <1>2 DEF AddressInv, MapInv
<1>4. TakenInv' /\ IpsInv'
  BY <1>1 DEF AddressInv, TakenInv, IpsInv
<1>5. PairsInv'
  BY <1>1, <1>2 DEF AddressInv, PairsInv, Covered
<1>6. (\A k \in taken : InArrays(k))'
  BY <1>1 DEF AddressInv, InArrays
<1>. QED
  BY <1>2, <1>3, <1>4, <1>5, <1>6

(* When all lines are in the map and all keys in the arrays: what they     *)
(* have is listed, and what is listed they have, but for a flaw.           *)
LEMMA CoveredIsListed ==
  ASSUME MapInv, TakenInv, NEW ip \in Ips, Covered(ip)
  PROVE  Listed(ip)
<1>1. PICK f \in taken : f <= ip /\ ip <= ipRangeMap[f]
  BY DEF Covered
<1>2. PICK n \in 1 .. next - 1 : lines[n].from = f /\ lines[n].to = ipRangeMap[f]
  BY <1>1 DEF MapInv, TakenInv
<1>3. n \in DOMAIN lines
  BY <1>2 DEF MapInv
<1>. QED
  BY <1>1, <1>2, <1>3 DEF Listed, Within

LEMMA ListedIsCovered ==
  ASSUME MapInv, TakenInv, next = Len(lines) + 1, DOMAIN ipRangeMap \subseteq taken,
         NEW ip \in Ips, Listed(ip)
  PROVE  Covered(ip) \/ Lost
<1>1. PICK n \in DOMAIN lines : lines[n].from <= ip /\ ip <= lines[n].to
  BY DEF Listed, Within
<1>2. n \in 1 .. next - 1 /\ lines[n] \in Ranges
  BY <1>1 DEF MapInv
<1>3. lines[n].from \in DOMAIN ipRangeMap /\ (lines[n].to <= ipRangeMap[lines[n].from] \/ Lost)
  BY <1>2 DEF MapInv
<1>4. lines[n].from \in Int /\ lines[n].to \in Int /\ ip \in Int /\ ipRangeMap[lines[n].from] \in Int
  BY <1>2, <1>3 DEF MapInv, Ranges, Ips
<1>. QED
  BY <1>1, <1>3, <1>4 DEF Covered

(* The map *)
LEMMA StepInsertLine ==
  ASSUME AddressInv, InsertLine
  PROVE  AddressInv'
<1>. DEFINE r == lines[next]
<1>1. /\ place = "insert" /\ next \in 1 .. Len(lines) /\ lines \in Seq(Ranges) /\ taken = {}
      /\ DOMAIN ipRangeMap' = DOMAIN ipRangeMap \cup {r.from}
      /\ \A f \in DOMAIN ipRangeMap' : ipRangeMap'[f] = IF f = r.from THEN r.to ELSE ipRangeMap[f]
      /\ next' = next + 1
      /\ UNCHANGED <<lines, taken, ipArray, pairFrom, pairTo, remote_ip, low, high, answer, place>>
  BY DEF AddressInv, InsertLine, MapInv, PlacesInv, arrayVars, findVars
<1>2. r \in Ranges /\ r.from \in Ips /\ r.to \in Ips /\ r.from <= r.to
  BY <1>1 DEF Ranges
<1>. HIDE DEF r
<1>3. (Lost' <=> Lost) /\ (Hidden' <=> Hidden)
  BY <1>1 DEF Lost, Hidden
<1>4. DOMAIN ipRangeMap' \subseteq Ips /\ next' \in 1 .. Len(lines') + 1
  BY <1>1, <1>2 DEF AddressInv, MapInv
<1>5. ASSUME NEW f \in DOMAIN ipRangeMap'
      PROVE  /\ ipRangeMap'[f] \in Ips /\ f <= ipRangeMap'[f]
             /\ \E n \in 1 .. next' - 1 : lines[n].from = f /\ lines[n].to = ipRangeMap'[f]
  <2>1. CASE f = r.from
    BY <1>1, <1>2, <2>1 DEF r
  <2>2. CASE f # r.from
    <3>1. f \in DOMAIN ipRangeMap /\ ipRangeMap'[f] = ipRangeMap[f]
      BY <1>1, <2>2
    <3>2. PICK n \in 1 .. next - 1 : lines[n].from = f /\ lines[n].to = ipRangeMap[f]
      BY <3>1 DEF AddressInv, MapInv
    <3>. QED
      BY <1>1, <3>1, <3>2 DEF AddressInv, MapInv
  <2>. QED
    BY <2>1, <2>2
<1>6. ASSUME NEW n \in 1 .. next' - 1
      PROVE  lines[n].from \in DOMAIN ipRangeMap' /\ (lines[n].to <= ipRangeMap'[lines[n].from] \/ Lost)
  <2>1. CASE n = next
    BY <1>1, <1>2, <2>1 DEF r, Ips
  <2>2. CASE n # next
    <3>1. n \in 1 .. next - 1 /\ n < next /\ n \in DOMAIN lines /\ next \in DOMAIN lines /\ lines[n] \in Ranges
      BY <1>1, <2>2
    <3>2. lines[n].from \in DOMAIN ipRangeMap /\ (lines[n].to <= ipRangeMap[lines[n].from] \/ Lost)
      BY <3>1 DEF AddressInv, MapInv
    <3>3. CASE lines[n].from = r.from
      <4>1. lines[n].to > r.to => Lost
        BY <3>1, <3>3 DEF Lost, r
      <4>2. lines[n].to \in Int /\ r.to \in Int
        BY <1>2, <3>1 DEF Ranges, Ips
      <4>. QED
        BY <1>1, <3>3, <4>1, <4>2
    <3>4. CASE lines[n].from # r.from
      BY <1>1, <3>2, <3>4
    <3>. QED
      BY <3>3, <3>4
  <2>. QED
    BY <2>1, <2>2
<1>7. MapInv'
  BY <1>1, <1>3, <1>4, <1>5, <1>6 DEF MapInv
<1>8. ipArray = <<>> /\ pairFrom = <<>> /\ pairTo = <<>>
  <2>1. ipArray \in Seq(Ips) /\ Len(ipArray) = 0
    BY <1>1, LenProperties DEF AddressInv, IpsInv
  <2>2. pairFrom \in Seq(Ips) /\ pairTo \in Seq(Ips) /\ Len(pairFrom) = 0 /\ Len(pairTo) = 0
    BY <1>1, LenProperties DEF AddressInv, PairsInv
  <2>. QED
    BY <2>1, <2>2, EmptySeq
<1>9. TakenInv' /\ IpsInv' /\ PairsInv' /\ (\A k \in taken : InArrays(k))'
  BY <1>1, <1>8 DEF TakenInv, IpsInv, PairsInv
<1>10. PlacesInv' /\ FindInv' /\ AddressDecided'
  BY <1>1 DEF AddressInv, PlacesInv, FindInv, AddressDecided
<1>. QED
  BY <1>7, <1>9, <1>10 DEF AddressInv

LEMMA StepInsertEnd ==
  ASSUME AddressInv, InsertEnd
  PROVE  AddressInv'
<1>1. /\ UNCHANGED <<parseVars, arrayVars>> /\ place = "insert" /\ place' = "fill" /\ UNCHANGED findVars
      /\ lines \in Seq(Ranges) /\ next \in 1 .. Len(lines) + 1 /\ next \notin DOMAIN lines
  BY DEF InsertEnd, AddressInv, MapInv
<1>2. next = Len(lines) + 1
  BY <1>1
<1>3. PlacesInv' /\ FindInv' /\ AddressDecided'
  BY <1>1, <1>2 DEF AddressInv, PlacesInv, FindInv, AddressDecided, parseVars, arrayVars, findVars
<1>. QED
  BY <1>1, <1>3, ArraysStay DEF AddressInv

(* The arrays.  The next key is higher than those that were taken. *)
LEMMA NextKey ==
  ASSUME AddressInv, NEW k, IsNext(k)
  PROVE  /\ k \in DOMAIN ipRangeMap /\ k \notin taken /\ k \in Ips /\ ipRangeMap[k] \in Ips /\ k <= ipRangeMap[k]
         /\ \A t \in taken : t < k /\ t \in Ips /\ ipRangeMap[t] \in Ips
         /\ \A j \in DOMAIN ipRangeMap \ (taken \cup {k}) : k < j
<1>1. /\ k \in DOMAIN ipRangeMap \ taken /\ \A j \in DOMAIN ipRangeMap \ taken : k <= j
  BY DEF IsNext
<1>2. /\ DOMAIN ipRangeMap \subseteq Ips /\ taken \subseteq DOMAIN ipRangeMap
      /\ \A f \in DOMAIN ipRangeMap : ipRangeMap[f] \in Ips /\ f <= ipRangeMap[f]
  BY DEF AddressInv, MapInv, TakenInv
<1>3. \A t \in taken : t < k
  BY <1>1 DEF AddressInv, TakenInv
<1>4. \A j \in DOMAIN ipRangeMap \ (taken \cup {k}) : j \in Int /\ k \in Int /\ j # k /\ k <= j
  BY <1>1, <1>2 DEF Ips
<1>5. \A j \in DOMAIN ipRangeMap \ (taken \cup {k}) : k < j
  BY <1>4
<1>. QED
  BY <1>1, <1>2, <1>3, <1>5

LEMMA TakeNext ==
  ASSUME AddressInv, NEW k, IsNext(k), place = "fill", taken' = taken \cup {k},
         UNCHANGED <<parseVars, findVars, place>>
  PROVE  /\ MapInv' /\ TakenInv' /\ PlacesInv' /\ FindInv' /\ AddressDecided'
         /\ (Hidden' <=> Hidden) /\ UNCHANGED ipRangeMap
         /\ \A ip \in Ips : Covered(ip) \/ (k <= ip /\ ip <= ipRangeMap[k]) => Covered(ip)'
<1>1. UNCHANGED <<lines, ipRangeMap, next, remote_ip, low, high, answer, place>>
  BY DEF parseVars, findVars
<1>2. (Lost' <=> Lost) /\ (Hidden' <=> Hidden)
  BY <1>1 DEF Lost, Hidden
<1>3. MapInv'
  BY <1>1, <1>2 DEF AddressInv, MapInv
<1>4. TakenInv'
  BY <1>1, NextKey DEF AddressInv, TakenInv
<1>5. PlacesInv' /\ FindInv' /\ AddressDecided'
  BY <1>1 DEF AddressInv, PlacesInv, FindInv, AddressDecided
<1>6. \A ip \in Ips : Covered(ip) \/ (k <= ip /\ ip <= ipRangeMap[k]) => Covered(ip)'
  BY <1>1 DEF Covered
<1>. QED
  BY <1>1, <1>2, <1>3, <1>4, <1>5, <1>6

(* Merged or not: the address after the last one is 0. *)
LEMMA After ==
  ASSUME NEW a \in Ips
  PROVE  (a + 1) % (LastIp + 1) = IF a = LastIp THEN 0 ELSE a + 1
BY AddressAssumption DEF Ips

LEMMA StepMerge ==
  ASSUME AddressInv, NEW k \in Ips, Merge(k)
  PROVE  AddressInv'
<1>. DEFINE n == Len(pairTo)
<1>1. /\ place = "fill" /\ IsNext(k) /\ Merges(k) /\ taken' = taken \cup {k}
      /\ pairTo' = IF ipRangeMap[k] > LastTo THEN [pairTo EXCEPT ![n] = ipRangeMap[k]] ELSE pairTo
      /\ UNCHANGED <<parseVars, findVars, place>> /\ UNCHANGED <<ipArray, pairFrom>>
  BY DEF Merge
<1>2. /\ MapInv' /\ TakenInv' /\ PlacesInv' /\ FindInv' /\ AddressDecided'
      /\ (Hidden' <=> Hidden) /\ UNCHANGED ipRangeMap
      /\ \A ip \in Ips : Covered(ip) \/ (k <= ip /\ ip <= ipRangeMap[k]) => Covered(ip)'
  BY <1>1, TakeNext
<1>3. /\ ipRangeMap[k] \in Ips /\ k <= ipRangeMap[k]
      /\ \A t \in taken : t < k /\ t \in Ips /\ ipRangeMap[t] \in Ips
  BY <1>1, NextKey
<1>4. /\ pairFrom \in Seq(Ips) /\ pairTo \in Seq(Ips) /\ Len(pairFrom) = n
      /\ n \in 1 .. n /\ LastTo = pairTo[n] /\ LastTo \in Ips
      /\ k <= (LastTo + 1) % (LastIp + 1)
  BY <1>1, EmptySeq DEF AddressInv, PairsInv, Merges, LastTo
<1>5. k <= LastTo + 1
  BY <1>4, After DEF Ips
<1>6. /\ pairTo' \in Seq(Ips) /\ Len(pairTo') = n
      /\ \A i \in 1 .. n : i # n => pairTo'[i] = pairTo[i]
      /\ \/ ipRangeMap[k] > LastTo /\ pairTo'[n] = ipRangeMap[k]
         \/ ipRangeMap[k] <= LastTo /\ pairTo'[n] = LastTo
  <2>1. CASE ipRangeMap[k] > LastTo
    BY <1>1, <1>3, <1>4, <2>1, ExceptSeq
  <2>2. CASE ~ (ipRangeMap[k] > LastTo)
    BY <1>1, <1>3, <1>4, <2>2 DEF Ips
  <2>. QED
    BY <2>1, <2>2
<1>. HIDE DEF n
<1>7. IpsInv'
  BY <1>1 DEF AddressInv, IpsInv
<1>8. \A i \in 1 .. n :
        /\ pairFrom[i] \in taken /\ pairFrom[i] <= pairTo[i] /\ pairFrom[i] \in Ips /\ pairTo[i] \in Ips
        /\ \E f \in taken : ipRangeMap[f] = pairTo[i]
        /\ \A ip \in Ips : pairFrom[i] <= ip /\ ip <= pairTo[i] => Covered(ip)
  BY <1>4, ElementOfSeq DEF AddressInv, PairsInv
<1>9. ASSUME NEW i \in 1 .. n PROVE pairTo'[i] \in Ips /\ pairTo[i] <= pairTo'[i]
  <2>1. CASE i = n
    BY <1>3, <1>4, <1>6, <2>1 DEF Ips
  <2>2. CASE i # n
    BY <1>6, <1>8, <2>2 DEF Ips
  <2>. QED
    BY <2>1, <2>2
<1>10. ASSUME NEW i \in 1 .. n
       PROVE  /\ pairFrom[i] \in taken' /\ pairFrom[i] <= pairTo'[i]
              /\ \E f \in taken' : ipRangeMap[f] = pairTo'[i]
              /\ \A ip \in Ips : pairFrom[i] <= ip /\ ip <= pairTo'[i] => Covered(ip)'
  <2>1. pairFrom[i] \in taken' /\ pairFrom[i] <= pairTo'[i]
    BY <1>1, <1>8, <1>9 DEF Ips
  <2>2. \E f \in taken' : ipRangeMap[f] = pairTo'[i]
    BY <1>1, <1>4, <1>6, <1>8
  <2>3. ASSUME NEW ip \in Ips, pairFrom[i] <= ip, ip <= pairTo'[i] PROVE Covered(ip)'
    <3>1. CASE ip <= pairTo[i]
      BY <1>2, <1>8, <2>3, <3>1
    <3>2. CASE ~ (ip <= pairTo[i])
      <4>1. i = n /\ ip <= ipRangeMap[k] /\ ip > LastTo
        BY <1>4, <1>6, <1>8, <2>3, <3>2, SMTT(60) DEF Ips
      <4>2. k <= ip
        BY <1>4, <1>5, <4>1 DEF Ips
      <4>. QED
        BY <1>2, <4>1, <4>2
    <3>. QED
      BY <3>1, <3>2
  <2>. QED
    BY <2>1, <2>2, <2>3
<1>11. ASSUME NEW i \in 1 .. n, NEW j \in 1 .. n, i < j
       PROVE  pairFrom[i] < pairFrom[j] /\ (pairTo'[i] < pairFrom[j] \/ Hidden)
  BY <1>4, <1>6, <1>11 DEF AddressInv, PairsInv
<1>12. PairsInv'
  BY <1>1, <1>2, <1>4, <1>6, <1>10, <1>11 DEF PairsInv
<1>13. \A t \in taken : InArrays(t)'
  <2> SUFFICES ASSUME NEW t \in taken PROVE InArrays(t)'
    OBVIOUS
  <2>1. CASE ipRangeMap[t] = t /\ \E i \in 1 .. Len(ipArray) : ipArray[i] = t
    BY <1>1, <1>2, <2>1 DEF InArrays
  <2>2. CASE \E i \in 1 .. Len(pairFrom) : pairFrom[i] <= t /\ ipRangeMap[t] <= pairTo[i]
    <3>1. PICK i \in 1 .. n : pairFrom[i] <= t /\ ipRangeMap[t] <= pairTo[i]
      BY <1>4, <2>2
    <3>2. ipRangeMap[t] <= pairTo'[i]
      BY <1>3, <1>8, <1>9, <3>1 DEF Ips
    <3>. QED
      BY <1>1, <1>2, <1>4, <3>1, <3>2 DEF InArrays
  <2>. QED
    BY <2>1, <2>2 DEF AddressInv, InArrays
<1>14. InArrays(k)'
  <2>1. pairFrom[n] <= k /\ ipRangeMap[k] <= pairTo'[n]
    BY <1>3, <1>4, <1>6, <1>8 DEF Ips
  <2>. QED
    BY <1>1, <1>2, <1>4, <2>1 DEF InArrays
<1>. QED
  BY <1>1, <1>2, <1>7, <1>12, <1>13, <1>14 DEF AddressInv

LEMMA StepAppendIp ==
  ASSUME AddressInv, NEW k \in Ips, AppendIp(k)
  PROVE  AddressInv'
<1>. DEFINE m == Len(ipArray)
<1>1. /\ place = "fill" /\ IsNext(k) /\ ipRangeMap[k] = k /\ taken' = taken \cup {k}
      /\ ipArray' = Append(ipArray, k)
      /\ UNCHANGED <<parseVars, findVars, place>> /\ UNCHANGED <<pairFrom, pairTo>>
  BY DEF AppendIp
<1>2. /\ MapInv' /\ TakenInv' /\ PlacesInv' /\ FindInv' /\ AddressDecided'
      /\ (Hidden' <=> Hidden) /\ UNCHANGED ipRangeMap
      /\ \A ip \in Ips : Covered(ip) \/ (k <= ip /\ ip <= ipRangeMap[k]) => Covered(ip)'
  BY <1>1, TakeNext
<1>3. \A t \in taken : t < k
  BY <1>1, NextKey
<1>4. /\ ipArray \in Seq(Ips) /\ m \in Nat
      /\ \A i \in 1 .. m : ipArray[i] \in taken
      /\ \A i, j \in 1 .. m : i < j => ipArray[i] < ipArray[j]
  BY LenProperties DEF AddressInv, IpsInv
<1>5. /\ ipArray' \in Seq(Ips) /\ Len(ipArray') = m + 1 /\ ipArray'[m + 1] = k
      /\ \A i \in 1 .. m : ipArray'[i] = ipArray[i]
  BY <1>1, <1>4, AppendProperties
<1>. HIDE DEF m
<1>6. IpsInv'
  <2>1. ASSUME NEW i \in 1 .. m + 1 PROVE ipArray'[i] \in taken'
    BY <1>1, <1>4, <1>5
  <2>2. ASSUME NEW i \in 1 .. m + 1, NEW j \in 1 .. m + 1, i < j PROVE ipArray'[i] < ipArray'[j]
    <3>1. i \in 1 .. m
      BY <1>4, <2>2
    <3>2. CASE j = m + 1
      BY <1>3, <1>4, <1>5, <3>1, <3>2
    <3>3. CASE j # m + 1
      BY <1>4, <1>5, <2>2, <3>1, <3>3
    <3>. QED
      BY <3>2, <3>3
  <2>. QED
    BY <1>5, <2>1, <2>2 DEF IpsInv
<1>7. PairsInv'
  BY <1>1, <1>2 DEF AddressInv, PairsInv
<1>8. \A t \in taken : InArrays(t)'
  <2> SUFFICES ASSUME NEW t \in taken PROVE InArrays(t)'
    OBVIOUS
  <2>1. CASE ipRangeMap[t] = t /\ \E i \in 1 .. m : ipArray[i] = t
    <3>1. PICK i \in 1 .. m : ipArray[i] = t
      BY <2>1
    <3>2. i \in 1 .. m + 1 /\ ipArray'[i] = t
      BY <1>4, <1>5, <3>1
    <3>. QED
      BY <1>2, <1>5, <2>1, <3>2 DEF InArrays
  <2>2. CASE \E i \in 1 .. Len(pairFrom) : pairFrom[i] <= t /\ ipRangeMap[t] <= pairTo[i]
    BY <1>1, <1>2, <2>2 DEF InArrays
  <2>. QED
    BY <2>1, <2>2 DEF AddressInv, InArrays, m
<1>9. InArrays(k)'
  BY <1>1, <1>2, <1>4, <1>5 DEF InArrays
<1>. QED
  BY <1>1, <1>2, <1>6, <1>7, <1>8, <1>9 DEF AddressInv

(* A range that is not merged begins behind the last one, or that one has  *)
(* the last address of all.                                                *)
LEMMA Behind ==
  ASSUME AddressInv, NEW k \in Ips, place = "fill", IsNext(k), ~ Merges(k)
  PROVE  \A i \in 1 .. Len(pairTo) : pairTo[i] < k \/ Hidden
<1> SUFFICES ASSUME NEW i \in 1 .. Len(pairTo) PROVE pairTo[i] < k \/ Hidden
  OBVIOUS
<1>. DEFINE n == Len(pairTo)
<1>1. /\ pairTo \in Seq(Ips) /\ n \in Nat /\ n > 0 /\ i \in 1 .. n /\ n \in 1 .. n /\ Len(pairFrom) = n
      /\ pairTo[n] \in Ips /\ pairTo[i] \in Ips /\ pairFrom[n] \in taken
      /\ (i < n => pairTo[i] < pairFrom[n] \/ Hidden)
      /\ \E f \in taken : ipRangeMap[f] = pairTo[n]
  BY LenProperties, ElementOfSeq DEF AddressInv, PairsInv
<1>2. \A t \in taken : t < k /\ t \in Ips
  BY NextKey
<1>3. CASE i < n
  BY <1>1, <1>2, <1>3 DEF Ips
<1>4. CASE i = n
  <2>1. pairTo # <<>>
    BY <1>1, EmptySeq
  <2>2. k > (pairTo[n] + 1) % (LastIp + 1)
    <3>1. ~ (k <= (pairTo[n] + 1) % (LastIp + 1))
      BY <2>1 DEF Merges, LastTo
    <3>2. (pairTo[n] + 1) % (LastIp + 1) \in Int
      BY <1>1, After DEF Ips
    <3>. QED
      BY <3>1, <3>2 DEF Ips
  <2>3. CASE pairTo[n] # LastIp
    BY <1>1, <1>4, <2>2, <2>3, After DEF Ips
  <2>4. CASE pairTo[n] = LastIp
    <3>1. PICK f \in taken : ipRangeMap[f] = LastIp
      BY <1>1, <2>4
    <3>2. PICK a \in 1 .. next - 1 : lines[a].from = f /\ lines[a].to = LastIp
      BY <3>1 DEF AddressInv, MapInv, TakenInv
    <3>3. PICK b \in 1 .. next - 1 : lines[b].from = k
      BY NextKey DEF AddressInv, MapInv
    <3>4. a \in DOMAIN lines /\ b \in DOMAIN lines /\ f < k
      BY <1>2, <3>1, <3>2, <3>3 DEF AddressInv, MapInv
    <3>. QED
      BY <3>2, <3>3, <3>4 DEF Hidden
  <2>. QED
    BY <2>3, <2>4
<1>. QED
  BY <1>1, <1>3, <1>4

LEMMA StepAppendPair ==
  ASSUME AddressInv, NEW k \in Ips, AppendPair(k)
  PROVE  AddressInv'
<1>. DEFINE n == Len(pairTo)
            to == ipRangeMap[k]
<1>1. /\ place = "fill" /\ IsNext(k) /\ ~ Merges(k) /\ taken' = taken \cup {k}
      /\ pairFrom' = Append(pairFrom, k) /\ pairTo' = Append(pairTo, to)
      /\ UNCHANGED <<parseVars, findVars, place>> /\ UNCHANGED ipArray
  BY DEF AppendPair
<1>2. /\ MapInv' /\ TakenInv' /\ PlacesInv' /\ FindInv' /\ AddressDecided'
      /\ (Hidden' <=> Hidden) /\ UNCHANGED ipRangeMap
      /\ \A ip \in Ips : Covered(ip) \/ (k <= ip /\ ip <= to) => Covered(ip)'
  BY <1>1, TakeNext
<1>3. to \in Ips /\ k <= to /\ \A t \in taken : t < k
  BY <1>1, NextKey
<1>4. /\ pairFrom \in Seq(Ips) /\ pairTo \in Seq(Ips) /\ Len(pairFrom) = n /\ n \in Nat
      /\ \A i \in 1 .. n :
           /\ pairFrom[i] \in taken /\ pairFrom[i] <= pairTo[i]
           /\ \E f \in taken : ipRangeMap[f] = pairTo[i]
           /\ \A ip \in Ips : pairFrom[i] <= ip /\ ip <= pairTo[i] => Covered(ip)
      /\ \A i, j \in 1 .. n :
           i < j => pairFrom[i] < pairFrom[j] /\ (pairTo[i] < pairFrom[j] \/ Hidden)
  BY LenProperties DEF AddressInv, PairsInv
<1>5. /\ pairFrom' \in Seq(Ips) /\ Len(pairFrom') = n + 1 /\ pairFrom'[n + 1] = k
      /\ \A i \in 1 .. n : pairFrom'[i] = pairFrom[i]
  BY <1>1, <1>4, AppendProperties
<1>6. /\ pairTo' \in Seq(Ips) /\ Len(pairTo') = n + 1 /\ pairTo'[n + 1] = to
      /\ \A i \in 1 .. n : pairTo'[i] = pairTo[i]
  BY <1>1, <1>3, <1>4, AppendProperties
<1>7. \A i \in 1 .. n : pairTo[i] < k \/ Hidden
  BY <1>1, Behind
<1>. HIDE DEF n, to
<1>8. PairsInv'
  <2>1. ASSUME NEW i \in 1 .. n + 1
        PROVE  /\ pairFrom'[i] \in taken' /\ pairFrom'[i] <= pairTo'[i]
               /\ \E f \in taken' : ipRangeMap[f] = pairTo'[i]
               /\ \A ip \in Ips : pairFrom'[i] <= ip /\ ip <= pairTo'[i] => Covered(ip)'
    <3>1. CASE i = n + 1
      BY <1>1, <1>2, <1>3, <1>5, <1>6, <3>1 DEF to
    <3>2. CASE i # n + 1
      <4>1. i \in 1 .. n
        BY <1>4, <3>2
      <4>. QED
        BY <1>1, <1>2, <1>4, <1>5, <1>6, <4>1
    <3>. QED
      BY <3>1, <3>2
  <2>2. ASSUME NEW i \in 1 .. n + 1, NEW j \in 1 .. n + 1, i < j
        PROVE  pairFrom'[i] < pairFrom'[j] /\ (pairTo'[i] < pairFrom'[j] \/ Hidden)
    <3>1. i \in 1 .. n
      BY <1>4, <2>2
    <3>2. CASE j = n + 1
      BY <1>3, <1>4, <1>5, <1>6, <1>7, <3>1, <3>2
    <3>3. CASE j # n + 1
      <4>1. j \in 1 .. n
        BY <1>4, <3>3
      <4>. QED
        BY <1>4, <1>5, <1>6, <2>2, <3>1, <4>1
    <3>. QED
      BY <3>2, <3>3
  <2>. QED
    BY <1>2, <1>5, <1>6, <2>1, <2>2 DEF PairsInv
<1>9. IpsInv'
  BY <1>1 DEF AddressInv, IpsInv
<1>10. \A t \in taken : InArrays(t)'
  <2> SUFFICES ASSUME NEW t \in taken PROVE InArrays(t)'
    OBVIOUS
  <2>1. CASE ipRangeMap[t] = t /\ \E i \in 1 .. Len(ipArray) : ipArray[i] = t
    BY <1>1, <1>2, <2>1 DEF InArrays
  <2>2. CASE \E i \in 1 .. n : pairFrom[i] <= t /\ ipRangeMap[t] <= pairTo[i]
    <3>1. PICK i \in 1 .. n : pairFrom[i] <= t /\ ipRangeMap[t] <= pairTo[i]
      BY <2>2
    <3>2. i \in 1 .. n + 1 /\ pairFrom'[i] <= t /\ ipRangeMap[t] <= pairTo'[i]
      BY <1>4, <1>5, <1>6, <3>1
    <3>. QED
      BY <1>2, <1>5, <3>2 DEF InArrays
  <2>. QED
    BY <1>4, <2>1, <2>2 DEF AddressInv, InArrays
<1>11. InArrays(k)'
  <2>1. n + 1 \in 1 .. n + 1 /\ pairFrom'[n + 1] <= k /\ ipRangeMap[k] <= pairTo'[n + 1]
    BY <1>3, <1>4, <1>5, <1>6 DEF to, Ips
  <2>. QED
    BY <1>2, <1>5, <2>1 DEF InArrays
<1>. QED
  BY <1>1, <1>2, <1>8, <1>9, <1>10, <1>11 DEF AddressInv

LEMMA StepFillEnd ==
  ASSUME AddressInv, FillEnd
  PROVE  AddressInv'
<1>1. /\ UNCHANGED <<parseVars, arrayVars>> /\ place = "fill" /\ place' = "written" /\ UNCHANGED findVars
      /\ DOMAIN ipRangeMap \subseteq taken
  BY DEF FillEnd
<1>2. PlacesInv' /\ FindInv' /\ AddressDecided'
  BY <1>1 DEF AddressInv, PlacesInv, FindInv, AddressDecided, parseVars, arrayVars, findVars
<1>. QED
  BY <1>1, <1>2, ArraysStay DEF AddressInv

(* The search *)
LEMMA SearchBegins ==
  ASSUME NEW array \in Seq(Ips), NEW ip \in Ips
  PROVE  Narrowed(array, ip, 0, Len(array) - 1)
<1>1. Len(array) \in Nat
  BY LenProperties
<1>. QED
  BY <1>1 DEF Narrowed

(* A probe halves what is left, of an array in ascending order. *)
LEMMA ProbeNarrows ==
  ASSUME NEW array \in Seq(Ips), \A i, j \in 1 .. Len(array) : i < j => array[i] < array[j],
         NEW ip \in Ips, NEW l, NEW h, Narrowed(array, ip, l, h), l <= h,
         NEW a, a = (l + h) \div 2
  PROVE  /\ a + 1 \in 1 .. Len(array) /\ array[a + 1] \in Ips
         /\ ip < array[a + 1] => Narrowed(array, ip, l, a - 1)
         /\ ip > array[a + 1] => Narrowed(array, ip, a + 1, h)
<1>. DEFINE n == Len(array)
<1>1. n \in Nat /\ l \in 0 .. n /\ h \in -1 .. n - 1
      /\ \A i \in 1 .. n : (i <= l => array[i] < ip) /\ (i > h + 1 => array[i] > ip)
  BY LenProperties DEF Narrowed
<1>2. a \in Int /\ l <= a /\ a <= h
  BY <1>1
<1>. HIDE DEF n
<1>3. a \in 0 .. n - 1 /\ a + 1 \in 1 .. n
  BY <1>1, <1>2
<1>4. array[a + 1] \in Ips /\ \A i \in 1 .. n : array[i] \in Ips
  BY <1>3, ElementOfSeq DEF n
<1>5. \A i \in 1 .. n : (i < a + 1 => array[i] < array[a + 1]) /\ (i > a + 1 => array[i] > array[a + 1])
  BY <1>3, <1>4 DEF n, Ips
<1>6. ASSUME ip < array[a + 1] PROVE Narrowed(array, ip, l, a - 1)
  <2>1. \A i \in 1 .. n : (i <= l => array[i] < ip) /\ (i > (a - 1) + 1 => array[i] > ip)
    BY <1>1, <1>2, <1>3, <1>4, <1>5, <1>6 DEF Ips
  <2>2. a - 1 \in -1 .. n - 1 /\ l <= (a - 1) + 1
    BY <1>1, <1>2, <1>3, <1>6
  <2>. QED
    BY <1>1, <2>1, <2>2 DEF Narrowed, n
<1>7. ASSUME ip > array[a + 1] PROVE Narrowed(array, ip, a + 1, h)
  <2>1. \A i \in 1 .. n : (i <= a + 1 => array[i] < ip) /\ (i > h + 1 => array[i] > ip)
    BY <1>1, <1>2, <1>3, <1>4, <1>5, <1>7 DEF Ips
  <2>2. a + 1 \in 0 .. n /\ a + 1 <= h + 1
    BY <1>1, <1>2, <1>3, <1>7
  <2>. QED
    BY <1>1, <2>1, <2>2 DEF Narrowed, n
<1>. QED
  BY <1>3, <1>4, <1>6, <1>7 DEF n

(* At the end, the address would be behind the last element before it. *)
LEMMA NarrowEnds ==
  ASSUME NEW array \in Seq(Ips), NEW ip \in Ips, NEW l, NEW h, Narrowed(array, ip, l, h), l > h
  PROVE  /\ h \in -1 .. Len(array) - 1
         /\ \A i \in 1 .. Len(array) : array[i] \in Ips /\ array[i] # ip /\ (array[i] <= ip <=> i <= h + 1)
<1>1. Len(array) \in Nat /\ l \in Int /\ h \in -1 .. Len(array) - 1 /\ l = h + 1
  BY LenProperties DEF Narrowed
<1>2. ASSUME NEW i \in 1 .. Len(array)
      PROVE  array[i] \in Ips /\ array[i] # ip /\ (array[i] <= ip <=> i <= h + 1)
  <2>1. array[i] \in Ips /\ (i <= l => array[i] < ip) /\ (i > h + 1 => array[i] > ip)
    BY ElementOfSeq DEF Narrowed
  <2>. QED
    BY <1>1, <2>1 DEF Ips
<1>. QED
  BY <1>1, <1>2

LEMMA StepAsk ==
  ASSUME AddressInv, Ask
  PROVE  AddressInv'
<1>1. /\ UNCHANGED <<parseVars, arrayVars>> /\ place = "written" /\ place' = "ip" /\ answer' = FALSE
      /\ remote_ip' \in Ips /\ low' = 0 /\ high' = Len(ipArray) - 1
  BY DEF Ask, Search, Array
<1>2. ipArray \in Seq(Ips) /\ ipArray' = ipArray
  BY <1>1 DEF AddressInv, IpsInv, arrayVars
<1>3. Narrowed(ipArray, remote_ip, low, high)'
  BY <1>1, <1>2, SearchBegins
<1>4. PlacesInv' /\ FindInv' /\ AddressDecided'
  BY <1>1, <1>3 DEF AddressInv, PlacesInv, FindInv, AddressDecided, parseVars, arrayVars
<1>. QED
  BY <1>1, <1>4, ArraysStay DEF AddressInv

LEMMA StepNotInArray ==
  ASSUME AddressInv, NotInArray
  PROVE  AddressInv'
<1>1. /\ UNCHANGED <<parseVars, arrayVars>> /\ place = "ip" /\ place' = "pair" /\ UNCHANGED <<remote_ip, answer>>
      /\ low' = 0 /\ high' = Len(pairFrom) - 1 /\ low > high
  BY DEF NotInArray, Search, Array
<1>2. /\ ipArray \in Seq(Ips) /\ pairFrom \in Seq(Ips) /\ UNCHANGED <<ipArray, pairFrom>>
      /\ remote_ip \in Ips /\ Narrowed(ipArray, remote_ip, low, high) /\ answer = FALSE
  BY <1>1 DEF AddressInv, IpsInv, PairsInv, FindInv, arrayVars
<1>3. Narrowed(pairFrom, remote_ip, low, high)'
  BY <1>1, <1>2, SearchBegins
<1>4. \A i \in 1 .. Len(ipArray) : ipArray[i] # remote_ip
  BY <1>1, <1>2, NarrowEnds
<1>5. PlacesInv' /\ FindInv' /\ AddressDecided'
  BY <1>1, <1>2, <1>3, <1>4 DEF AddressInv, PlacesInv, FindInv, AddressDecided, parseVars, arrayVars
<1>. QED
  BY <1>1, <1>5, ArraysStay DEF AddressInv

LEMMA StepProbe ==
  ASSUME AddressInv, Probe
  PROVE  AddressInv'
<1>1. /\ UNCHANGED <<parseVars, arrayVars>> /\ UNCHANGED remote_ip /\ place \in {"ip", "pair"} /\ low <= high
      /\ \/ remote_ip < mid_ip /\ high' = mid - 1 /\ UNCHANGED <<low, answer, place>>
         \/ remote_ip > mid_ip /\ low' = mid + 1 /\ UNCHANGED <<high, answer, place>>
         \/ remote_ip = mid_ip /\ answer' = TRUE /\ place' = "done"
  BY DEF Probe
<1>. DEFINE array == Array(place)
<1>2. /\ array \in Seq(Ips) /\ \A i, j \in 1 .. Len(array) : i < j => array[i] < array[j]
      /\ remote_ip \in Ips /\ Narrowed(array, remote_ip, low, high) /\ answer = FALSE
  BY <1>1 DEF AddressInv, IpsInv, PairsInv, FindInv, Array
<1>3. /\ mid + 1 \in 1 .. Len(array) /\ mid_ip \in Ips /\ mid_ip = array[mid + 1]
      /\ remote_ip < mid_ip => Narrowed(array, remote_ip, low, mid - 1)
      /\ remote_ip > mid_ip => Narrowed(array, remote_ip, mid + 1, high)
  BY <1>1, <1>2, ProbeNarrows DEF mid, mid_ip
<1>4. UNCHANGED <<ipArray, pairFrom, pairTo>> /\ PlacesInv
  BY <1>1 DEF arrayVars, AddressInv
<1>5. CASE place' = place /\ answer' = FALSE /\ Narrowed(array, remote_ip, low', high')
  <2>1. PlacesInv' /\ FindInv' /\ AddressDecided'
    BY <1>1, <1>4, <1>5 DEF AddressInv, PlacesInv, FindInv, AddressDecided, parseVars, arrayVars, Array
  <2>. QED
    BY <1>1, <2>1, ArraysStay DEF AddressInv
<1>6. CASE remote_ip = mid_ip /\ answer' = TRUE /\ place' = "done"
  <2>1. Covered(remote_ip)
    <3>1. CASE place = "ip"
      <4>1. ipArray[mid + 1] \in taken /\ mid + 1 \in 1 .. Len(ipArray) /\ ipArray[mid + 1] = remote_ip
        BY <1>3, <1>6, <3>1 DEF AddressInv, IpsInv, Array
      <4>2. remote_ip \in DOMAIN ipRangeMap /\ remote_ip <= ipRangeMap[remote_ip] /\ remote_ip <= remote_ip
        BY <1>2, <4>1 DEF AddressInv, TakenInv, MapInv, Ips
      <4>. QED
        BY <4>1, <4>2 DEF Covered
    <3>2. CASE place = "pair"
      <4>1. mid + 1 \in 1 .. Len(pairFrom) /\ pairFrom[mid + 1] = remote_ip
        BY <1>3, <1>6, <3>2 DEF Array
      <4>2. pairFrom[mid + 1] <= remote_ip
        BY <1>2, <4>1 DEF Ips
      <4>. QED
        BY <1>2, <4>1, <4>2 DEF AddressInv, PairsInv
    <3>. QED
      BY <1>1, <3>1, <3>2
  <2>2. Listed(remote_ip)
    BY <1>2, <2>1, CoveredIsListed DEF AddressInv
  <2>3. Listed(remote_ip)'
    BY <1>1, <2>2 DEF Listed, parseVars
  <2>4. PlacesInv' /\ FindInv' /\ AddressDecided'
    BY <1>1, <1>2, <1>4, <1>6, <2>3
    DEF AddressInv, PlacesInv, FindInv, AddressDecided, Sound, Complete, parseVars, arrayVars
  <2>. QED
    BY <1>1, <2>4, ArraysStay DEF AddressInv
<1>. QED
  BY <1>1, <1>2, <1>3, <1>5, <1>6

LEMMA StepInRange ==
  ASSUME AddressInv, InRange
  PROVE  AddressInv'
<1>1. /\ UNCHANGED <<parseVars, arrayVars>> /\ UNCHANGED remote_ip /\ place = "pair" /\ low > high
      /\ place' = "done"
      /\ answer' = (high >= 0 /\ remote_ip >= pairFrom[high + 1] /\ remote_ip <= pairTo[high + 1])
  BY DEF InRange
<1>2. /\ pairFrom \in Seq(Ips) /\ remote_ip \in Ips /\ Narrowed(pairFrom, remote_ip, low, high)
      /\ \A i \in 1 .. Len(ipArray) : ipArray[i] # remote_ip
  BY <1>1 DEF AddressInv, PairsInv, FindInv
<1>3. /\ high \in -1 .. Len(pairFrom) - 1
      /\ \A i \in 1 .. Len(pairFrom) : pairFrom[i] \in Ips /\ (pairFrom[i] <= remote_ip <=> i <= high + 1)
  BY <1>1, <1>2, NarrowEnds
<1>4. \A i \in 1 .. Len(pairFrom) : pairTo[i] \in Ips
  BY ElementOfSeq DEF AddressInv, PairsInv
<1>5. Len(pairFrom) \in Nat
  BY <1>2, LenProperties
<1>6. ASSUME answer' PROVE Listed(remote_ip)
  <2>0. high >= 0 /\ remote_ip >= pairFrom[high + 1] /\ remote_ip <= pairTo[high + 1]
    BY <1>1, <1>6, Zenon
  <2>1. high + 1 \in 1 .. Len(pairFrom) /\ pairFrom[high + 1] <= remote_ip /\ remote_ip <= pairTo[high + 1]
    BY <1>2, <1>3, <1>5, <2>0 DEF Ips
  <2>2. Covered(remote_ip)
    BY <1>2, <2>1 DEF AddressInv, PairsInv
  <2>. QED
    BY <1>2, <2>2, CoveredIsListed DEF AddressInv
<1>7. ASSUME Listed(remote_ip) PROVE answer' \/ Lost \/ Hidden
  <2> SUFFICES ASSUME ~ Lost, ~ Hidden PROVE answer'
    OBVIOUS
  <2>1. Covered(remote_ip)
    BY <1>1, <1>2, <1>7, ListedIsCovered DEF AddressInv, PlacesInv
  <2>2. PICK t \in taken : t <= remote_ip /\ remote_ip <= ipRangeMap[t]
    BY <2>1 DEF Covered
  <2>3. t \in Ips /\ ipRangeMap[t] \in Ips
    BY DEF AddressInv, MapInv, TakenInv
  <2>4. PICK i \in 1 .. Len(pairFrom) : pairFrom[i] <= t /\ ipRangeMap[t] <= pairTo[i]
    <3>1. t # remote_ip \/ ipRangeMap[t] # t \/ \A i \in 1 .. Len(ipArray) : ipArray[i] # t
      BY <1>2
    <3>2. ipRangeMap[t] = t => t = remote_ip
      BY <1>2, <2>2, <2>3 DEF Ips
    <3>. QED
      BY <3>1, <3>2 DEF AddressInv, InArrays
  <2>5. pairFrom[i] <= remote_ip /\ remote_ip <= pairTo[i] /\ i <= high + 1
    BY <1>2, <1>3, <1>4, <2>2, <2>3, <2>4 DEF Ips
  <2>6. high + 1 \in 1 .. Len(pairFrom) /\ pairFrom[high + 1] <= remote_ip
    BY <1>3, <1>5, <2>5
  <2>7. i = high + 1
    <3> SUFFICES ASSUME i < high + 1 PROVE FALSE
      BY <1>3, <2>5
    <3>1. pairTo[i] < pairFrom[high + 1]
      BY <2>6 DEF AddressInv, PairsInv
    <3>. QED
      BY <1>2, <1>3, <1>4, <2>5, <2>6, <3>1 DEF Ips
  <2>8. high >= 0 /\ remote_ip >= pairFrom[high + 1] /\ remote_ip <= pairTo[high + 1]
    BY <1>2, <1>3, <2>5, <2>6, <2>7 DEF Ips
  <2>. QED
    BY <1>1, <2>8, Zenon
<1>8. (Lost' <=> Lost) /\ (Hidden' <=> Hidden) /\ (Listed(remote_ip)' <=> Listed(remote_ip))
  BY <1>1 DEF Lost, Hidden, Listed, parseVars
<1>9. PlacesInv' /\ FindInv' /\ AddressDecided'
  BY <1>1, <1>2, <1>6, <1>7, <1>8
  DEF AddressInv, PlacesInv, FindInv, AddressDecided, Sound, Complete, parseVars, arrayVars
<1>. QED
  BY <1>1, <1>9, ArraysStay DEF AddressInv

-----------------------------------------------------------------------------
LEMMA AddressStarts ==
  ASSUME AddressInit
  PROVE  AddressInv
<1>1. PICK n \in 0 .. MaxLines : lines \in [1 .. n -> Ranges]
  BY DEF AddressInit, Lists
<1>2. lines \in Seq(Ranges) /\ Len(lines) \in Nat
  BY <1>1, AddressAssumption, LenProperties
<1>3. /\ DOMAIN ipRangeMap = {} /\ next = 1 /\ taken = {} /\ place = "insert" /\ remote_ip = 0
      /\ ipArray = <<>> /\ pairFrom = <<>> /\ pairTo = <<>>
  BY DEF AddressInit, AddressStart
<1>4. MapInv /\ TakenInv /\ IpsInv /\ PairsInv
  BY <1>2, <1>3 DEF MapInv, TakenInv, IpsInv, PairsInv
<1>5. PlacesInv /\ FindInv /\ AddressDecided
  BY <1>3, AddressAssumption DEF PlacesInv, FindInv, AddressDecided, Ips
<1>. QED
  BY <1>3, <1>4, <1>5 DEF AddressInv

LEMMA AddressSteps ==
  ASSUME AddressInv, [AddressNext]_addressVars
  PROVE  AddressInv'
<1>1. CASE UNCHANGED addressVars
  <2>1. UNCHANGED <<parseVars, arrayVars>> /\ UNCHANGED <<remote_ip, low, high, answer, place>>
    BY <1>1 DEF addressVars, findVars
  <2>2. PlacesInv' /\ FindInv' /\ AddressDecided'
    BY <2>1 DEF AddressInv, PlacesInv, FindInv, AddressDecided, Sound, Complete, Lost, Hidden, Listed,
                parseVars, arrayVars
  <2>. QED
    BY <2>1, <2>2, ArraysStay DEF AddressInv
<1>2. CASE AddressNext
  BY <1>2, StepInsertLine, StepInsertEnd, StepMerge, StepAppendIp, StepAppendPair, StepFillEnd, StepAsk,
     StepProbe, StepNotInArray, StepInRange DEF AddressNext
<1>. QED
  BY <1>1, <1>2

(* The arrays have what the lines of the list have, in order, and the      *)
(* search leaves out nothing of them: the invariant of Ip4Range and        *)
(* fort_conf_ip_find for any list, of any length, of any width of address. *)
THEOREM AddressInvariant == AddressSpec => []AddressInv
<1>1. AddressInit => AddressInv
  BY AddressStarts
<1>2. AddressInv /\ [AddressNext]_addressVars => AddressInv'
  BY AddressSteps
<1>. QED
  BY <1>1, <1>2, PTL DEF AddressSpec

(* An address is decided as the user's list says, but for lists with a     *)
(* range that a shorter one replaces, or that ends at the last address and *)
(* has others in it.                                                       *)
THEOREM AddressIsDecided == AddressSpec => []AddressDecided
<1>1. AddressInv => AddressDecided
  BY DEF AddressInv
<1>. QED
  BY <1>1, AddressInvariant, PTL

-----------------------------------------------------------------------------
(* Zones. *)

(* Sets of ids *)
LEMMA IdSets ==
  ASSUME NEW D, D \subseteq Ids
  PROVE  /\ IsFiniteSet(D) /\ D \subseteq Nat /\ Cardinality(D) \in Nat
         /\ \A S : S \subseteq D => /\ IsFiniteSet(S) /\ Cardinality(S) \in Nat
                                    /\ Cardinality(S) <= Cardinality(D)
                                    /\ (Cardinality(S) = Cardinality(D) => S = D)
<1>1. IsFiniteSet(Ids) /\ Ids \subseteq Nat
  BY TasksAssumption, FS_Interval DEF Ids
<1>2. IsFiniteSet(D)
  BY <1>1, FS_Subset
<1>. QED
  BY <1>1, <1>2, FS_Subset, FS_CardinalityType

(* One more. *)
LEMMA OneMore ==
  ASSUME NEW D, D \subseteq Ids, NEW i, i \notin D
  PROVE  Cardinality(D \cup {i}) = Cardinality(D) + 1
BY IdSets, FS_AddElement

Lower(D, i) == { j \in D : j < i }

(* Elements of the sets, one by one. *)
LEMMA LowerIs ==
  ASSUME NEW D, D \subseteq Nat, NEW i \in D
  PROVE  /\ \A j : j \in Lower(D, i) <=> j \in D /\ j < i
         /\ i \notin Lower(D, i) /\ Lower(D, i) \cup {i} \subseteq D
         /\ \A j \in D : j \notin Lower(D, i) \cup {i} => i < j
<1>1. \A j : j \in Lower(D, i) <=> j \in D /\ j < i
  BY DEF Lower
<1>2. i \in Nat /\ ~ (i < i)
  OBVIOUS
<1>3. \A j \in D : j \in Nat /\ (j < i \/ j = i \/ i < j)
  BY <1>2
<1>. QED
  BY <1>1, <1>2, <1>3

(* ZoneRows are counted from the lowest id: there is one for every number.     *)
LEMMA RankExists ==
  ASSUME NEW D, D \subseteq Ids, NEW n \in Nat, n < Cardinality(D)
  PROVE  \E i \in D : Cardinality(Lower(D, i)) = n
<1>. DEFINE Good == { m \in Nat : m < Cardinality(D) => \E i \in D : Cardinality(Lower(D, i)) = m }
<1>0. D \subseteq Nat /\ Cardinality(D) \in Nat
  BY IdSets
<1>1. 0 \in Good
  <2> SUFFICES ASSUME 0 < Cardinality(D) PROVE \E i \in D : Cardinality(Lower(D, i)) = 0
    OBVIOUS
  <2>1. D # {}
    BY FS_EmptySet
  <2>2. PICK i \in D : \A j \in D : i <= j
    BY <1>0, <2>1, NatMin
  <2>3. Lower(D, i) = {}
    <3> SUFFICES ASSUME NEW j \in Lower(D, i) PROVE FALSE
      OBVIOUS
    <3>1. j \in Nat /\ i \in Nat /\ j < i /\ i <= j
      BY <1>0, <2>2, LowerIs
    <3>. QED
      BY <3>1
  <2>. QED
    BY <2>2, <2>3, FS_EmptySet
<1>2. ASSUME NEW m \in Nat, m \in Good PROVE m + 1 \in Good
  <2> SUFFICES ASSUME m + 1 < Cardinality(D) PROVE \E i \in D : Cardinality(Lower(D, i)) = m + 1
    OBVIOUS
  <2>1. PICK i \in D : Cardinality(Lower(D, i)) = m
    BY <1>0, <1>2
  <2>2. Lower(D, i) \cup {i} \subseteq D /\ i \notin Lower(D, i) /\ Lower(D, i) \subseteq Ids
    BY <1>0, LowerIs
  <2>3. Cardinality(Lower(D, i) \cup {i}) = m + 1
    BY <2>1, <2>2, OneMore
  <2>4. { j \in D : i < j } # {}
    <3> SUFFICES ASSUME \A j \in D : j <= i PROVE FALSE
      BY <1>0
    <3>1. \A j \in D : j \in Nat /\ i \in Nat /\ ~ (i < j)
      BY <1>0
    <3>2. D \subseteq Lower(D, i) \cup {i}
      BY <1>0, <3>1, LowerIs
    <3>3. Lower(D, i) \cup {i} = D
      BY <2>2, <3>2
    <3>. QED
      BY <2>3, <3>3, <1>0
  <2>5. PICK k \in { j \in D : i < j } : \A j \in { x \in D : i < x } : k <= j
    BY <1>0, <2>4, NatMin
  <2>6. Lower(D, k) = Lower(D, i) \cup {i}
    <3>1. k \in D /\ i \in Nat /\ k \in Nat /\ i < k
      BY <1>0, <2>5
    <3>2. ASSUME NEW j \in D PROVE j < k <=> j < i \/ j = i
      <4>1. j \in Nat /\ (i < j => k <= j)
        BY <1>0, <2>5
      <4>. QED
        BY <3>1, <4>1
    <3>. QED
      BY <3>2 DEF Lower
  <2>. QED
    BY <2>3, <2>5, <2>6
<1>. HIDE DEF Good
<1>3. n \in Good
  BY <1>1, <1>2, NatSetInduction
<1>. QED
  BY <1>3 DEF Good

(* The row that a run comes to when it has come to the rows of `mask'.     *)
LEMMA RowAtFound ==
  ASSUME NEW z, DOMAIN z \subseteq Ids, NEW n \in Nat, n < Cardinality(DOMAIN z)
  PROVE  RowAt(z, n) \in DOMAIN z /\ Cardinality(Lower(DOMAIN z, RowAt(z, n))) = n
<1>1. \E i \in DOMAIN z : Cardinality({ j \in DOMAIN z : j < i }) = n
  BY RankExists DEF Lower
<1>. QED
  BY <1>1, Zenon DEF RowAt, Lower

(* The zones a run has come to are the first ones. *)
First(D, mask) == mask \subseteq D /\ \A i \in mask, j \in D : j < i => j \in mask

LEMMA NextRow ==
  ASSUME NEW z, DOMAIN z \subseteq Ids, NEW n \in Nat, NEW mask, First(DOMAIN z, mask), Cardinality(mask) = n
  PROVE  /\ n < Cardinality(DOMAIN z) => Lower(DOMAIN z, RowAt(z, n)) = mask
         /\ n >= Cardinality(DOMAIN z) => mask = DOMAIN z
<1>. DEFINE D == DOMAIN z
<1>0. D \subseteq Nat /\ Cardinality(D) \in Nat /\ mask \subseteq D
  BY IdSets DEF First
<1>1. ASSUME n < Cardinality(D) PROVE Lower(D, RowAt(z, n)) = mask
  <2>. DEFINE r == RowAt(z, n)
  <2>1. r \in D /\ Cardinality(Lower(D, r)) = n
    BY <1>1, RowAtFound
  <2> HIDE DEF r
  <2>2. r \notin mask
    <3> SUFFICES ASSUME r \in mask PROVE FALSE
      OBVIOUS
    <3>1. Lower(D, r) \cup {r} \subseteq mask /\ Lower(D, r) \subseteq Ids /\ r \notin Lower(D, r)
      BY <1>0, <2>1 DEF First, Lower
    <3>2. Cardinality(Lower(D, r) \cup {r}) = n + 1
      BY <2>1, <3>1, OneMore
    <3>3. Cardinality(Lower(D, r) \cup {r}) <= Cardinality(mask)
      BY <1>0, <3>1, IdSets
    <3>. QED
      BY <3>2, <3>3
  <2>3. mask \subseteq Lower(D, r) /\ Lower(D, r) \subseteq Ids
    BY <1>0, <2>1, <2>2 DEF First, Lower
  <2>4. mask = Lower(D, r)
    BY <2>1, <2>3, IdSets
  <2>. QED
    BY <2>4 DEF r
<1>2. ASSUME n >= Cardinality(D) PROVE mask = D
  <2>1. Cardinality(mask) <= Cardinality(D)
    BY <1>0, IdSets
  <2>2. Cardinality(mask) = Cardinality(D)
    BY <1>0, <1>2, <2>1
  <2>. QED
    BY <1>0, <2>2, IdSets
<1>. QED
  BY <1>1, <1>2

-----------------------------------------------------------------------------
SubTypes(s) ==
  /\ s = [mask |-> s.mask, enabled |-> s.enabled, data |-> s.data]
  /\ s.mask \subseteq Ids /\ s.data \in Seq(Held)

TasksTypes ==
  /\ DOMAIN zone \subseteq Ids /\ zone \in [DOMAIN zone -> ZoneRows]
  /\ sources \in [Ids -> 0 .. MaxSources]
  /\ file \in [Ids -> Held] /\ worker \in Downloads \cup {None} /\ time \in 0 .. MaxTime
  /\ SubTypes(sub) /\ m_zoneIndex \in Nat
  /\ oddNow \subseteq {"moved", "toggled", "cut"} /\ (worker = None => oddNow = {})

(* The driver has been told nothing yet. *)
StartedInv ==
  /\ "started" \in odd => driver = NoZones
  /\ driver = [addr |-> driver.addr, enabled |-> driver.enabled]

(* The run has collected of zones it has finished only.                    *)
Masked(s, finished) == s.mask \subseteq finished /\ s.enabled \subseteq s.mask

(* What it has collected of the zones it has finished: their files.        *)
Collected(z, f, s, finished) ==
  /\ Masked(s, finished) /\ Len(s.data) = Cardinality(s.mask)
  /\ \A j \in finished :
       IF j \in s.mask
       THEN f[j] = z[j].bin /\ s.data[Cardinality({ k \in s.mask : k <= j })] = f[j]
       ELSE f[j] # z[j].bin \/ f[j] = None

FlagsKept(z, s) == \A j \in s.mask : (j \in s.enabled) = z[j].enabled

RunInv ==
  worker # None /\ "moved" \notin oddNow =>
    LET i == worker.id IN
    /\ i \in DOMAIN zone
    /\ m_zoneIndex = Cardinality(Lower(DOMAIN zone, i))
    /\ m_zonesMask = Lower(DOMAIN zone, i) \cup {i}
    /\ Masked(sub, Lower(DOMAIN zone, i))
    /\ "cut" \notin oddNow => /\ worker.text = zone[i].text /\ worker.bin = zone[i].bin
                              /\ Collected(zone, file, sub, Lower(DOMAIN zone, i))
    /\ "toggled" \notin oddNow => worker.enabled = zone[i].enabled /\ FlagsKept(zone, sub)

TasksInv == TasksTypes /\ StartedInv /\ RunInv /\ ZonesInDriver /\ ZoneFlagsAgree

(* Effects of the parts of a run. *)
LEMMA WorkerTypes ==
  ASSUME NEW z, DOMAIN z \subseteq Ids, z \in [DOMAIN z -> ZoneRows], NEW i \in DOMAIN z
  PROVE  /\ WorkerOf(z, i) \in Downloads /\ WorkerOf(z, i) # None /\ WorkerOf(z, i).id = i
         /\ WorkerOf(z, i).text = z[i].text /\ WorkerOf(z, i).bin = z[i].bin
         /\ WorkerOf(z, i).enabled = z[i].enabled
<1>1. z[i] \in ZoneRows /\ i \in Ids
  OBVIOUS
<1>2. WorkerOf(z, i) \in Downloads
  BY <1>1 DEF WorkerOf, ZoneRows, Downloads, Held
<1>. QED
  BY <1>2, TasksNone DEF WorkerOf

(* What the driver is given. *)
LEMMA ZonesWritten ==
  ASSUME NEW s, SubTypes(s)
  PROVE  /\ DOMAIN WriteZones(s).addr = s.mask /\ WriteZones(s).enabled = s.enabled
         /\ \A i \in s.mask : WriteZones(s).addr[i] = s.data[Cardinality({ j \in s.mask : j <= i })]
BY DEF WriteZones

(* The end of a run that was not disturbed. *)
LEMMA RunEnds ==
  ASSUME NEW z, DOMAIN z \subseteq Ids, NEW f \in [Ids -> Held], NEW s, SubTypes(s),
         zone' = z, driver' = WriteZones(s), file' = RemoveOrphans(f, DOMAIN z),
         Collected(z, f, s, DOMAIN z)
  PROVE  ZonesInDriver'
<1> SUFFICES ASSUME NEW i \in DOMAIN z PROVE InDriver(i)' = CachedOf(i)'
  BY DEF ZonesInDriver
<1>1. file'[i] = f[i]
  BY DEF RemoveOrphans
<1>2. CachedOf(i)' = IF f[i] = z[i].bin THEN f[i] ELSE None
  BY <1>1 DEF CachedOf
<1>3. InDriver(i)' = IF i \in s.mask THEN s.data[Cardinality({ j \in s.mask : j <= i })] ELSE None
  BY ZonesWritten DEF InDriver
<1>. QED
  BY <1>2, <1>3 DEF Collected

(* The driver has been sent what a run has collected. *)
LEMMA FlagsSent ==
  ASSUME NEW z, zone' = z, NEW s, SubTypes(s), driver' = WriteZones(s),
         odd' \subseteq {"started", "cut"} => FlagsKept(z, s)
  PROVE  ZoneFlagsAgree'
<1> SUFFICES ASSUME odd' \subseteq {"started", "cut"}, NEW i \in DOMAIN z \cap DOMAIN driver'.addr
             PROVE  (i \in driver'.enabled) = z[i].enabled
  BY DEF ZoneFlagsAgree
<1>1. i \in s.mask /\ driver'.enabled = s.enabled
  BY ZonesWritten
<1>. QED
  BY <1>1 DEF FlagsKept

(* The driver has not taken them. *)
LEMMA FlagsNotSent ==
  ASSUME ZoneFlagsAgree, DOMAIN zone' = DOMAIN zone, \A i \in DOMAIN zone : zone'[i].enabled = zone[i].enabled,
         odd' = odd \cup {"cut"}, UNCHANGED <<driver, unsaved>>
  PROVE  ZoneFlagsAgree' /\ ZonesInDriver'
<1>1. ZonesInDriver'
  BY DEF ZonesInDriver
<1>2. ZoneFlagsAgree'
  <2> SUFFICES ASSUME odd' \subseteq {"started", "cut"}, NEW i \in (DOMAIN zone \cap DOMAIN driver.addr) \ unsaved
               PROVE  (i \in driver.enabled) = zone'[i].enabled
    BY DEF ZoneFlagsAgree
  <2>1. (i \in driver.enabled) = zone[i].enabled
    BY DEF ZoneFlagsAgree
  <2>. QED
    BY <2>1
<1>. QED
  BY <1>1, <1>2

(* The run comes to the next zone, or ends. *)
LEMMA SetupNext ==
  ASSUME TasksTypes, StartedInv, ZoneFlagsAgree,
         NEW z, NEW s, NEW f \in [Ids -> Held], NEW mask, NEW n \in Nat, zone' = z,
         DOMAIN z = DOMAIN zone, z \in [DOMAIN z -> ZoneRows],
         \A i \in DOMAIN z : z[i].enabled = zone[i].enabled,
         SubTypes(s), UNCHANGED <<sources, time>>,
         NEW flaws, flaws \subseteq {"moved", "toggled", "cut"}, NEW acts,
         SetupNextTaskWorker(n, z, s, f, mask, flaws, acts),
         "moved" \notin flaws =>
            /\ First(DOMAIN z, mask) /\ Cardinality(mask) = n /\ Masked(s, mask)
            /\ "cut" \notin flaws => Collected(z, f, s, mask)
            /\ "toggled" \notin flaws => FlagsKept(z, s)
  PROVE  TasksInv'
<1>0. DOMAIN z \subseteq Ids /\ Cardinality(DOMAIN z) \in Nat
  BY IdSets DEF TasksTypes
<1>1. CASE n >= Cardinality(DOMAIN z) /\ EmitZonesUpdated(s, f, mask, flaws, acts)
  <2>1. /\ \/ driver' = WriteZones(s) /\ odd' = flaws
           \/ odd' = odd \cup {"cut"} /\ UNCHANGED <<driver, unsaved>>
        /\ file' = RemoveOrphans(f, mask) /\ sub' = NoSub
        /\ m_zoneIndex' = 0 /\ oddNow' = {} /\ worker' = None
    BY <1>1 DEF EmitZonesUpdated, WorkEnds
  <2>2. SubTypes(NoSub)
    BY DEF SubTypes, NoSub
  <2>3. file' \in [Ids -> Held]
    BY <2>1 DEF RemoveOrphans, Held
  <2>4. TasksTypes'
    BY <1>0, <2>1, <2>2, <2>3 DEF TasksTypes
  <2>5. StartedInv'
    BY <1>0, <2>1 DEF StartedInv, WriteZones
  <2>6. RunInv'
    BY <2>1 DEF RunInv
  <2>7. CASE driver' = WriteZones(s) /\ odd' = flaws
    <3>1. ZonesInDriver'
      <4>1. CASE "moved" \in flaws \/ "cut" \in flaws
        BY <2>7, <4>1 DEF ZonesInDriver
      <4>2. CASE "moved" \notin flaws /\ "cut" \notin flaws
        <5>1. mask = DOMAIN z /\ Collected(z, f, s, DOMAIN z)
          BY <1>0, <1>1, <4>2, NextRow
        <5>. QED
          BY <1>0, <2>1, <2>7, <5>1, RunEnds
      <4>. QED
        BY <4>1, <4>2
    <3>2. ZoneFlagsAgree'
      BY <2>7, FlagsSent
    <3>. QED
      BY <2>4, <2>5, <2>6, <3>1, <3>2 DEF TasksInv
  <2>8. CASE odd' = odd \cup {"cut"} /\ UNCHANGED <<driver, unsaved>>
    BY <2>4, <2>5, <2>6, <2>8, FlagsNotSent DEF TasksInv
  <2>. QED
    BY <2>1, <2>7, <2>8
<1>2. CASE n < Cardinality(DOMAIN z) /\ worker' = WorkerOf(z, RowAt(z, n))
           /\ m_zoneIndex' = n /\ m_zonesMask' = mask \cup {RowAt(z, n)}
           /\ sub' = s /\ file' = f /\ oddNow' = flaws
           /\ UNCHANGED <<due, checking, driver, odd, unsaved>>
  <2>. DEFINE r == RowAt(z, n)
  <2>1. r \in DOMAIN z
    BY <1>0, <1>2, RowAtFound
  <2>2. worker' = WorkerOf(z, r) /\ m_zonesMask' = mask \cup {r}
    BY <1>2
  <2>3. "moved" \notin flaws => Lower(DOMAIN z, r) = mask
    BY <1>0, <1>2, NextRow
  <2>. HIDE DEF r
  <2>4. /\ worker' \in Downloads /\ worker' # None /\ worker'.id = r /\ worker'.text = z[r].text
        /\ worker'.bin = z[r].bin /\ worker'.enabled = z[r].enabled
    BY <1>0, <2>1, <2>2, WorkerTypes
  <2>5. TasksTypes'
    BY <1>0, <1>2, <2>4 DEF TasksTypes
  <2>6. StartedInv'
    BY <1>2 DEF StartedInv
  <2>7. RunInv'
    BY <1>2, <2>1, <2>2, <2>3, <2>4 DEF RunInv
  <2>8. ZonesInDriver'
    BY <2>4 DEF ZonesInDriver
  <2>9. ZoneFlagsAgree'
    BY <1>2 DEF ZoneFlagsAgree
  <2>. QED
    BY <2>5, <2>6, <2>7, <2>8, <2>9 DEF TasksInv
<1>. QED
  BY <1>1, <1>2 DEF SetupNextTaskWorker

(* One zone further. *)
LEMMA OneFurther ==
  ASSUME NEW D, D \subseteq Ids, NEW i \in D
  PROVE  /\ First(D, Lower(D, i) \cup {i})
         /\ Cardinality(Lower(D, i) \cup {i}) = Cardinality(Lower(D, i)) + 1
<1>1. D \subseteq Nat
  BY IdSets
<1>2. i \notin Lower(D, i) /\ Lower(D, i) \cup {i} \subseteq D
  BY <1>1, LowerIs
<1>3. ASSUME NEW k \in Lower(D, i) \cup {i}, NEW j \in D, j < k PROVE j \in Lower(D, i) \cup {i}
  <2>1. k \in Nat /\ j \in Nat /\ i \in Nat /\ (k < i \/ k = i)
    BY <1>1, <1>3, LowerIs
  <2>2. j < i
    BY <1>3, <2>1
  <2>. QED
    BY <1>1, <2>2, LowerIs
<1>. QED
  BY <1>2, <1>3, OneMore DEF First

(* How the download of a zone may end. *)
LEMMA OutcomeEffects ==
  ASSUME TasksTypes, worker # None, NEW o \in Outcomes
  PROVE  /\ o.worker \in Downloads /\ o.worker.id = worker.id /\ o.worker.enabled = worker.enabled
         /\ o.file \in [Ids -> Held] /\ \A j \in Ids \ {worker.id} : o.file[j] = file[j]
         /\ o.success => o.file[worker.id] = o.worker.bin /\ o.worker.data = o.worker.bin
         /\ o.success \in BOOLEAN
         /\ ~ o.success => o.worker.bin = worker.bin \/ o.file[worker.id] = None
<1>1. worker \in Downloads /\ worker.id \in Ids
  BY DEF TasksTypes, Downloads
<1>2. Fetched \in Data /\ Fetched \in Held
  BY <1>1 DEF Fetched, Data, Held, TasksTypes, Downloads
<1>. DEFINE fetched == [worker EXCEPT !.text = Fetched, !.bin = Fetched]
            parsed == [fetched EXCEPT !.data = Fetched]
            read == [worker EXCEPT !.text = Fetched]
<1>3. /\ fetched \in Downloads /\ parsed \in Downloads /\ read \in Downloads
      /\ parsed.bin = Fetched /\ parsed.data = Fetched /\ read.bin = worker.bin
      /\ fetched.id = worker.id /\ parsed.id = worker.id /\ read.id = worker.id
      /\ fetched.enabled = worker.enabled /\ parsed.enabled = worker.enabled
      /\ read.enabled = worker.enabled
  BY <1>1, <1>2 DEF Downloads
<1>4. \/ o = Outcome(worker, file, FALSE)
      \/ o = Outcome(parsed, [file EXCEPT ![worker.id] = Fetched], TRUE)
      \/ o = Outcome(read, file, FALSE)
      \/ o = Outcome(fetched, [file EXCEPT ![worker.id] = None], FALSE)
  BY DEF Outcomes
<1>5. file \in [Ids -> Held] /\ None \in Held
  BY DEF TasksTypes, Held
<1>. HIDE DEF fetched, parsed, read
<1>6. CASE o = Outcome(worker, file, FALSE)
  BY <1>1, <1>5, <1>6 DEF Outcome
<1>7. CASE o = Outcome(parsed, [file EXCEPT ![worker.id] = Fetched], TRUE)
  BY <1>1, <1>2, <1>3, <1>5, <1>7 DEF Outcome
<1>8. CASE o = Outcome(read, file, FALSE)
  BY <1>1, <1>3, <1>5, <1>8 DEF Outcome
<1>9. CASE o = Outcome(fetched, [file EXCEPT ![worker.id] = None], FALSE)
  BY <1>1, <1>3, <1>5, <1>9 DEF Outcome
<1>. QED
  BY <1>4, <1>6, <1>7, <1>8, <1>9

(* What is added has the types of results, wherever the zone is. *)
LEMMA AddTypes ==
  ASSUME NEW s, SubTypes(s), NEW f \in [Ids -> Held], NEW w \in Downloads, NEW success
  PROVE  /\ SubTypes(AddSubResult(s, f, w, success))
         /\ (IF success THEN f ELSE LoadFile(f, w)) \in [Ids -> Held]
<1>1. w.id \in Ids /\ w.data \in Held /\ f[w.id] \in Held /\ None \in Held
  BY DEF Downloads, Held
<1>2. LoadFile(f, w) \in [Ids -> Held]
  BY <1>1 DEF LoadFile
<1>3. CASE success \/ Loads(f, w)
  <2>. DEFINE d == IF success THEN w.data ELSE f[w.id]
  <2>1. d \in Held
    BY <1>1
  <2>2. Append(s.data, d) \in Seq(Held)
    BY <2>1, AppendProperties DEF SubTypes
  <2>3. AddSubResult(s, f, w, success) =
          [mask |-> s.mask \cup {w.id},
           enabled |-> IF w.enabled THEN s.enabled \cup {w.id} ELSE s.enabled,
           data |-> Append(s.data, d)]
    BY <1>3 DEF AddSubResult
  <2>4. SubTypes(AddSubResult(s, f, w, success))
    BY <1>1, <2>2, <2>3 DEF SubTypes
  <2>. QED
    BY <1>2, <2>4
<1>4. CASE ~ (success \/ Loads(f, w))
  BY <1>2, <1>4 DEF AddSubResult
<1>. QED
  BY <1>3, <1>4

(* A file that does not become the result of a run is lost or of no use. *)
LEMMA LoadEffects ==
  ASSUME NEW f \in [Ids -> Held], NEW w \in Downloads
  PROVE  /\ LoadFile(f, w) \in [Ids -> Held]
         /\ \A j \in Ids \ {w.id} : LoadFile(f, w)[j] = f[j]
         /\ Loads(f, w) => LoadFile(f, w) = f /\ f[w.id] = w.bin
         /\ ~ Loads(f, w) => LoadFile(f, w)[w.id] # w.bin \/ LoadFile(f, w)[w.id] = None
         /\ f[w.id] = None => LoadFile(f, w)[w.id] = None
<1>1. w.id \in Ids /\ None \in Held
  BY DEF Downloads, Held
<1>. QED
  BY <1>1 DEF LoadFile, Loads

(* What is collected with one zone more, the highest one. *)
LEMMA CollectMore ==
  ASSUME NEW D, D \subseteq Ids, NEW i \in D, NEW z, NEW y, NEW f, NEW g, NEW s, NEW a, SubTypes(s),
         Collected(z, f, s, Lower(D, i)),
         \A j \in D \ {i} : y[j].bin = z[j].bin /\ g[j] = f[j],
         \/ /\ a.mask = s.mask \cup {i} /\ a.data = Append(s.data, g[i]) /\ g[i] = y[i].bin /\ g[i] \in Held
            /\ a.enabled = s.enabled \/ a.enabled = s.enabled \cup {i}
         \/ a = s /\ (g[i] # y[i].bin \/ g[i] = None)
  PROVE  Collected(y, g, a, Lower(D, i) \cup {i})
<1>0. D \subseteq Nat
  BY IdSets
<1>1. /\ s.mask \subseteq Lower(D, i) /\ s.enabled \subseteq s.mask /\ Len(s.data) = Cardinality(s.mask)
      /\ \A j \in Lower(D, i) :
           IF j \in s.mask
           THEN f[j] = z[j].bin /\ s.data[Cardinality({ k \in s.mask : k <= j })] = f[j]
           ELSE f[j] # z[j].bin \/ f[j] = None
  BY DEF Collected, Masked
<1>2. /\ \A j \in Lower(D, i) : j \in D \ {i} /\ j \in Nat /\ i \in Nat /\ j < i
      /\ i \notin s.mask /\ s.mask \subseteq Ids /\ s.data \in Seq(Held)
  BY <1>0, <1>1, LowerIs DEF SubTypes
<1>5. i \in Nat /\ (\A j \in s.mask : j \in Lower(D, i) /\ j <= i)
  BY <1>0, <1>1, <1>2
<1>3. CASE a = s /\ (g[i] # y[i].bin \/ g[i] = None)
  BY <1>1, <1>2, <1>3 DEF Collected, Masked
<1>4. CASE /\ a.mask = s.mask \cup {i} /\ a.data = Append(s.data, g[i]) /\ g[i] = y[i].bin /\ g[i] \in Held
           /\ a.enabled = s.enabled \/ a.enabled = s.enabled \cup {i}
  <2>1. Cardinality(a.mask) = Cardinality(s.mask) + 1
    BY <1>2, <1>4, OneMore
  <2>2. /\ Len(a.data) = Len(s.data) + 1 /\ a.data[Len(s.data) + 1] = g[i]
        /\ \A k \in 1 .. Len(s.data) : a.data[k] = s.data[k]
    BY <1>2, <1>4, AppendProperties
  <2>3. ASSUME NEW j \in s.mask
        PROVE  a.data[Cardinality({ k \in a.mask : k <= j })] = s.data[Cardinality({ k \in s.mask : k <= j })]
    <3>. DEFINE S == { k \in s.mask : k <= j }
    <3>1. { k \in a.mask : k <= j } = S
      <4>1. j \in Nat /\ i \in Nat /\ ~ (i <= j)
        BY <1>1, <1>2
      <4>. QED
        BY <1>4, <4>1
    <3>2. S \subseteq s.mask /\ j \in S
      BY <1>1, <1>2
    <3>. HIDE DEF S
    <3>3. Cardinality(S) \in Nat /\ Cardinality(S) <= Cardinality(s.mask) /\ S # {} /\ IsFiniteSet(S)
      BY <1>2, <3>2, IdSets
    <3>4. Cardinality(S) # 0
      BY <3>3, FS_EmptySet
    <3>5. Cardinality(S) \in 1 .. Len(s.data)
      BY <1>1, <3>3, <3>4
    <3>. QED
      BY <2>2, <3>1, <3>5 DEF S
  <2>4. { k \in a.mask : k <= i } = a.mask
    <3>1. \A k \in a.mask : k <= i
      BY <1>4, <1>5
    <3>. QED
      BY <3>1
  <2>5. a.data[Cardinality({ k \in a.mask : k <= i })] = g[i]
    BY <1>1, <2>1, <2>2, <2>4
  <2>6. ASSUME NEW j \in Lower(D, i)
        PROVE IF j \in a.mask
              THEN g[j] = y[j].bin /\ a.data[Cardinality({ k \in a.mask : k <= j })] = g[j]
              ELSE g[j] # y[j].bin \/ g[j] = None
    <3>1. y[j].bin = z[j].bin /\ g[j] = f[j] /\ (j \in a.mask <=> j \in s.mask)
      BY <1>2, <1>4
    <3>2. CASE j \in s.mask
      BY <1>1, <2>3, <3>1, <3>2
    <3>3. CASE j \notin s.mask
      BY <1>1, <3>1, <3>3
    <3>. QED
      BY <3>2, <3>3
  <2>7. a.mask \subseteq Lower(D, i) \cup {i} /\ a.enabled \subseteq a.mask /\ i \in a.mask
    BY <1>1, <1>4
  <2>8. Len(a.data) = Cardinality(a.mask)
    BY <1>1, <2>1, <2>2
  <2>9. ASSUME NEW j \in Lower(D, i) \cup {i}
        PROVE IF j \in a.mask
              THEN g[j] = y[j].bin /\ a.data[Cardinality({ k \in a.mask : k <= j })] = g[j]
              ELSE g[j] # y[j].bin \/ g[j] = None
    <3>1. CASE j = i
      BY <1>4, <2>5, <2>7, <3>1
    <3>2. CASE j \in Lower(D, i)
      BY <2>6, <3>2
    <3>. QED
      BY <3>1, <3>2
  <2>. QED
    BY <2>7, <2>8, <2>9 DEF Collected, Masked
<1>. QED
  BY <1>3, <1>4

(* The download of a zone ends, well or not. *)
LEMMA StepZoneFinished ==
  ASSUME TasksInv, ZoneFinished
  PROVE  TasksInv'
<1>. DEFINE i == worker.id
<1>1. worker # None /\ worker \in Downloads /\ i \in Ids /\ UNCHANGED <<sources, time>>
      /\ m_zoneIndex \in Nat /\ SubTypes(sub) /\ DOMAIN zone \subseteq Ids
  BY DEF ZoneFinished, TasksInv, TasksTypes, Downloads
<1>2. PICK o \in Outcomes, kept \in BOOLEAN :
        /\ zone' = [j \in DOMAIN zone |->
                      IF kept /\ j = i THEN [zone[j] EXCEPT !.text = o.worker.text, !.bin = o.worker.bin]
                      ELSE zone[j]]
        /\ SetupNextTaskWorker(m_zoneIndex + 1, zone', AddSubResult(sub, o.file, o.worker, o.success),
                               IF o.success THEN o.file ELSE LoadFile(o.file, o.worker), m_zonesMask,
                               oddNow \cup { x \in {"cut"} : o.success /\ ~ kept }, IF kept THEN 0 ELSE 1)
  BY DEF ZoneFinished
<1>3. /\ o.worker \in Downloads /\ o.worker.id = i /\ o.worker.enabled = worker.enabled
      /\ o.file \in [Ids -> Held] /\ \A j \in Ids \ {i} : o.file[j] = file[j]
      /\ o.success => o.file[i] = o.worker.bin /\ o.worker.data = o.worker.bin
      /\ o.success \in BOOLEAN
      /\ ~ o.success => o.worker.bin = worker.bin \/ o.file[i] = None
  BY <1>1, OutcomeEffects DEF TasksInv, i
<1>. DEFINE a == AddSubResult(sub, o.file, o.worker, o.success)
            g == IF o.success THEN o.file ELSE LoadFile(o.file, o.worker)
            flaws == oddNow \cup { x \in {"cut"} : o.success /\ ~ kept }
            acts == IF kept THEN 0 ELSE 1
<1>4. SetupNextTaskWorker(m_zoneIndex + 1, zone', a, g, m_zonesMask, flaws, acts)
  BY <1>2
<1>12. /\ flaws \subseteq {"moved", "toggled", "cut"} /\ oddNow \subseteq flaws
       /\ flaws \subseteq oddNow \cup {"cut"} /\ (o.success /\ ~ kept => "cut" \in flaws)
  BY DEF TasksInv, TasksTypes
<1>5. \A j \in DOMAIN zone : zone[j] \in ZoneRows
  BY DEF TasksInv, TasksTypes
<1>6. ASSUME NEW j \in DOMAIN zone
      PROVE  /\ zone'[j] \in ZoneRows /\ zone'[j].enabled = zone[j].enabled
             /\ j # i => zone'[j] = zone[j]
             /\ j = i => zone'[j].bin = IF kept THEN o.worker.bin ELSE zone[j].bin
  <2>1. zone'[j] = IF kept /\ j = i THEN [zone[j] EXCEPT !.text = o.worker.text, !.bin = o.worker.bin] ELSE zone[j]
    BY <1>2
  <2>2. o.worker.text \in Held /\ o.worker.bin \in Held
    BY <1>3 DEF Downloads
  <2>. QED
    BY <1>5, <2>1, <2>2 DEF ZoneRows
<1>7. DOMAIN zone' = DOMAIN zone /\ zone' \in [DOMAIN zone -> ZoneRows]
  BY <1>2, <1>6
<1>. HIDE DEF a, g, i, flaws, acts
<1>8. i \notin sub.mask =>
        /\ SubTypes(a) /\ g \in [Ids -> Held] /\ \A j \in Ids \ {i} : g[j] = o.file[j]
        /\ \/ /\ a.mask = sub.mask \cup {i} /\ a.data = Append(sub.data, g[i]) /\ g[i] = o.worker.bin
              /\ a.enabled = IF worker.enabled THEN sub.enabled \cup {i} ELSE sub.enabled
              /\ o.success \/ g[i] # None
           \/ a = sub /\ ~ o.success /\ (g[i] # o.worker.bin \/ g[i] = None)
        /\ o.file[i] = None => g[i] = None
  <2>1. o.worker.bin \in Held
    BY <1>3 DEF Downloads
  <2>2. PICK w \in Downloads : w = o.worker
    BY <1>3
  <2>3. PICK f \in [Ids -> Held] : f = o.file
    BY <1>3
  <2>4. /\ LoadFile(f, w) \in [Ids -> Held] /\ \A j \in Ids \ {i} : LoadFile(f, w)[j] = f[j]
        /\ Loads(f, w) => LoadFile(f, w) = f /\ f[i] = w.bin
        /\ ~ Loads(f, w) => LoadFile(f, w)[i] # w.bin \/ LoadFile(f, w)[i] = None
        /\ f[i] = None => LoadFile(f, w)[i] = None
    BY <1>3, <2>2, LoadEffects
  <2>5. CASE o.success \/ Loads(f, w)
    <3>1. g = f /\ g[i] = w.bin
      BY <1>3, <2>2, <2>3, <2>4, <2>5 DEF g
    <3>2. (IF o.success THEN w.data ELSE f[w.id]) = w.bin
      BY <1>3, <2>2, <2>3, <2>4, <2>5
    <3>3. a = [mask |-> sub.mask \cup {w.id},
               enabled |-> IF w.enabled THEN sub.enabled \cup {w.id} ELSE sub.enabled,
               data |-> Append(sub.data, w.bin)]
      BY <2>2, <2>3, <2>5, <3>2 DEF a, AddSubResult
    <3>4. /\ SubTypes(a) /\ a.mask = sub.mask \cup {w.id} /\ a.data = Append(sub.data, w.bin)
          /\ a.enabled = IF w.enabled THEN sub.enabled \cup {w.id} ELSE sub.enabled
      <4>1. w.id \in Ids
        BY DEF Downloads
      <4>2. sub.data \in Seq(Held) /\ w.bin \in Held
        BY <1>1, <2>1, <2>2 DEF SubTypes
      <4>3. Append(sub.data, w.bin) \in Seq(Held)
        BY <4>2, AppendProperties
      <4>. QED
        BY <1>1, <3>3, <4>1, <4>3 DEF SubTypes
    <3>5. o.success \/ g[i] # None
      BY <1>3, <2>2, <2>3, <2>5, <3>1 DEF Loads
    <3>. QED
      BY <1>3, <2>2, <2>3, <3>1, <3>4, <3>5
  <2>6. CASE ~ (o.success \/ Loads(f, w))
    <3>1. a = sub
      BY <2>2, <2>3, <2>6 DEF a, AddSubResult
    <3>2. g = LoadFile(f, w)
      BY <2>2, <2>3, <2>6 DEF g
    <3>. QED
      BY <1>1, <2>2, <2>3, <2>4, <2>6, <3>1, <3>2
  <2>. QED
    BY <2>5, <2>6
<1>9. SubTypes(a) /\ g \in [Ids -> Held]
  BY <1>1, <1>3, AddTypes DEF a, g
<1>10. ASSUME "moved" \notin flaws
       PROVE  /\ First(DOMAIN zone', m_zonesMask) /\ Cardinality(m_zonesMask) = m_zoneIndex + 1
              /\ Masked(a, m_zonesMask)
              /\ "cut" \notin flaws => Collected(zone', g, a, m_zonesMask)
              /\ "toggled" \notin flaws => FlagsKept(zone', a)
  <2>1. /\ i \in DOMAIN zone /\ m_zoneIndex = Cardinality(Lower(DOMAIN zone, i))
        /\ m_zonesMask = Lower(DOMAIN zone, i) \cup {i}
        /\ Masked(sub, Lower(DOMAIN zone, i))
        /\ "cut" \notin oddNow => worker.bin = zone[i].bin /\ Collected(zone, file, sub, Lower(DOMAIN zone, i))
        /\ "toggled" \notin oddNow => worker.enabled = zone[i].enabled /\ FlagsKept(zone, sub)
    BY <1>1, <1>10, <1>12 DEF TasksInv, RunInv, i
  <2>2. First(DOMAIN zone', m_zonesMask) /\ Cardinality(m_zonesMask) = m_zoneIndex + 1
    BY <1>1, <1>7, <2>1, OneFurther
  <2>3. i \notin sub.mask /\ sub.enabled \subseteq sub.mask /\ sub.mask \subseteq DOMAIN zone
    <3>1. DOMAIN zone \subseteq Nat
      BY <1>1, IdSets
    <3>. QED
      BY <2>1, <3>1, LowerIs DEF Masked
  <2>4. g[i] \in Held /\ \A j \in DOMAIN zone \ {i} : zone'[j].bin = zone[j].bin /\ g[j] = file[j]
    BY <1>1, <1>3, <1>6, <1>8, <1>9, <2>1, <2>3
  <2>5. ASSUME "cut" \notin flaws PROVE Collected(zone', g, a, m_zonesMask)
    <3>1. worker.bin = zone[i].bin /\ Collected(zone, file, sub, Lower(DOMAIN zone, i)) /\ (o.success => kept)
      BY <1>12, <2>1, <2>5
    <3>2. zone'[i].bin = o.worker.bin \/ (~ o.success /\ g[i] = None)
      <4>1. CASE kept
        BY <1>6, <2>1, <4>1
      <4>2. CASE ~ kept
        <5>1. ~ o.success /\ zone'[i].bin = worker.bin
          BY <1>6, <2>1, <3>1, <4>2
        <5>2. o.file[i] = None => g[i] = None
          BY <1>8, <2>3
        <5>. QED
          BY <1>3, <5>1, <5>2
      <4>. QED
        BY <4>1, <4>2
    <3>3. \/ /\ a.mask = sub.mask \cup {i} /\ a.data = Append(sub.data, g[i]) /\ g[i] = zone'[i].bin /\ g[i] \in Held
             /\ a.enabled = sub.enabled \/ a.enabled = sub.enabled \cup {i}
          \/ a = sub /\ (g[i] # zone'[i].bin \/ g[i] = None)
      <4>1. CASE /\ a.mask = sub.mask \cup {i} /\ a.data = Append(sub.data, g[i]) /\ g[i] = o.worker.bin
                 /\ a.enabled = IF worker.enabled THEN sub.enabled \cup {i} ELSE sub.enabled
                 /\ o.success \/ g[i] # None
        <5>1. a.enabled = sub.enabled \/ a.enabled = sub.enabled \cup {i}
          BY <4>1
        <5>2. g[i] = zone'[i].bin
          BY <3>2, <4>1
        <5>. QED
          BY <2>4, <4>1, <5>1, <5>2
      <4>2. CASE a = sub /\ ~ o.success /\ (g[i] # o.worker.bin \/ g[i] = None)
        BY <3>2, <4>2
      <4>. QED
        BY <1>8, <2>3, <4>1, <4>2
    <3>4. Collected(zone', g, a, Lower(DOMAIN zone, i) \cup {i})
      BY <1>1, <2>1, <2>4, <3>1, <3>3, CollectMore
    <3>. QED
      BY <2>1, <3>4
  <2>6. ASSUME "toggled" \notin flaws PROVE FlagsKept(zone', a)
    <3>1. worker.enabled = zone[i].enabled /\ \A j \in sub.mask : (j \in sub.enabled) = zone[j].enabled
      BY <1>12, <2>1, <2>6 DEF FlagsKept
    <3>2. \A j \in DOMAIN zone : zone'[j].enabled = zone[j].enabled /\ zone[j].enabled \in BOOLEAN
      BY <1>5, <1>6 DEF ZoneRows
    <3>3. CASE /\ a.mask = sub.mask \cup {i}
               /\ a.enabled = IF worker.enabled THEN sub.enabled \cup {i} ELSE sub.enabled
      BY <2>1, <2>3, <3>1, <3>2, <3>3 DEF FlagsKept
    <3>4. CASE a = sub
      BY <2>3, <3>1, <3>2, <3>4 DEF FlagsKept
    <3>. QED
      BY <1>8, <2>3, <3>3, <3>4
  <2>7. Masked(a, m_zonesMask)
    BY <1>8, <2>1, <2>3 DEF Masked
  <2>. QED
    BY <2>2, <2>5, <2>6, <2>7
<1>11. m_zoneIndex + 1 \in Nat /\ \A j \in DOMAIN zone' : zone'[j].enabled = zone[j].enabled
  BY <1>1, <1>6, <1>7
<1>. QED
  BY <1>1, <1>4, <1>7, <1>9, <1>10, <1>11, <1>12, SetupNext DEF TasksInv

(* A run is started: by the timer, or by the user. *)
LEMMA StepRunZones ==
  ASSUME TasksInv, NEW acts, RunZones(acts), UNCHANGED <<zone, sources, time>>
  PROVE  TasksInv'
<1>1. SetupNextTaskWorker(0, zone, NoSub, file, {}, oddNow, acts) /\ worker = None
  BY DEF RunZones
<1>2. oddNow \subseteq {"moved", "toggled", "cut"} /\ file \in [Ids -> Held] /\ zone \in [DOMAIN zone -> ZoneRows]
  BY <1>1 DEF TasksInv, TasksTypes
<1>3. First(DOMAIN zone, {}) /\ Cardinality({}) = 0
  BY FS_EmptySet DEF First
<1>4. SubTypes(NoSub) /\ Collected(zone, file, NoSub, {}) /\ FlagsKept(zone, NoSub)
      /\ Masked(NoSub, {})
  BY FS_EmptySet DEF SubTypes, Collected, Masked, FlagsKept, NoSub
<1>. QED
  BY <1>1, <1>2, <1>3, <1>4, SetupNext DEF TasksInv

(* What a step leaves alone. *)
LEMMA StepOthers ==
  ASSUME TasksInv, UNCHANGED <<zone, file, driver, worker, m_zoneIndex, m_zonesMask, sub, odd, oddNow, unsaved>>,
         sources' = sources, time' \in 0 .. MaxTime
  PROVE  TasksInv'
<1>1. TasksTypes' /\ StartedInv'
  BY DEF TasksInv, TasksTypes, StartedInv, SubTypes
<1>2. RunInv'
  BY DEF TasksInv, RunInv, Collected, Masked, FlagsKept, Lower
<1>3. ZonesInDriver' /\ ZoneFlagsAgree'
  BY DEF TasksInv, ZonesInDriver, ZoneFlagsAgree, InDriver, CachedOf
<1>. QED
  BY <1>1, <1>2, <1>3 DEF TasksInv

(* A run is aborted: what has been collected goes to the driver. *)
LEMMA StepAbort ==
  ASSUME TasksInv, worker # None, EmitZonesUpdated(sub, file, m_zonesMask, oddNow \cup {"cut"}, 1),
         UNCHANGED <<zone, sources, time>>
  PROVE  TasksInv'
<1>1. /\ \/ driver' = WriteZones(sub) /\ odd' = oddNow \cup {"cut"}
         \/ odd' = odd \cup {"cut"} /\ UNCHANGED <<driver, unsaved>>
      /\ file' = RemoveOrphans(file, m_zonesMask) /\ sub' = NoSub
      /\ m_zoneIndex' = 0 /\ oddNow' = {} /\ worker' = None
  BY DEF EmitZonesUpdated, WorkEnds
<1>2. TasksTypes'
  <2>1. file' \in [Ids -> Held] /\ SubTypes(NoSub)
    BY <1>1 DEF RemoveOrphans, Held, TasksInv, TasksTypes, SubTypes, NoSub
  <2>. QED
    BY <1>1, <2>1 DEF TasksInv, TasksTypes
<1>3. StartedInv'
  BY <1>1 DEF StartedInv, WriteZones, TasksInv, TasksTypes
<1>4. RunInv' /\ ZonesInDriver'
  BY <1>1 DEF RunInv, ZonesInDriver
<1>5. ZoneFlagsAgree'
  <2>1. CASE driver' = WriteZones(sub) /\ odd' = oddNow \cup {"cut"}
    <3>1. odd' \subseteq {"started", "cut"} => FlagsKept(zone, sub)
      BY <2>1 DEF TasksInv, RunInv
    <3>2. SubTypes(sub)
      BY DEF TasksInv, TasksTypes
    <3>. QED
      BY <2>1, <3>1, <3>2, FlagsSent
  <2>2. CASE odd' = odd \cup {"cut"} /\ UNCHANGED <<driver, unsaved>>
    BY <2>2, FlagsNotSent DEF TasksInv
  <2>. QED
    BY <1>1, <2>1, <2>2
<1>. QED
  BY <1>2, <1>3, <1>4, <1>5 DEF TasksInv

(* A zone is added, maybe with the id of one the driver still has. *)
LEMMA StepAddZone ==
  ASSUME TasksInv, NEW i \in Ids, NEW on \in BOOLEAN, AddZone(i, on)
  PROVE  TasksInv'
<1>1. /\ i \notin DOMAIN zone /\ sources[i] < MaxSources /\ sources' = [sources EXCEPT ![i] = @ + 1]
      /\ zone' = [j \in DOMAIN zone \cup {i} |->
                    IF j = i THEN [enabled |-> on, source |-> sources'[i], text |-> None, bin |-> None]
                    ELSE zone[j]]
      /\ odd' = odd \cup { "reused" : j \in DOMAIN driver.addr \cap {i} }
      /\ oddNow' = oddNow \cup During("moved")
      /\ UNCHANGED <<file, driver, worker, m_zoneIndex, m_zonesMask, sub, unsaved, time>>
  BY DEF AddZone
<1>2. /\ sources \in [Ids -> 0 .. MaxSources] /\ MaxSources \in Nat /\ DOMAIN zone \subseteq Ids
      /\ zone \in [DOMAIN zone -> ZoneRows] /\ oddNow \subseteq {"moved", "toggled", "cut"}
      /\ (worker = None => oddNow = {})
  BY TasksAssumption DEF TasksInv, TasksTypes
<1>3. sources' \in [Ids -> 0 .. MaxSources] /\ sources'[i] \in 1 .. MaxSources
  BY <1>1, <1>2
<1>4. /\ DOMAIN zone' = DOMAIN zone \cup {i} /\ zone'[i].bin = None /\ zone' \in [DOMAIN zone' -> ZoneRows]
      /\ \A j \in DOMAIN zone : zone'[j] = zone[j]
  <2>1. [enabled |-> on, source |-> sources'[i], text |-> None, bin |-> None] \in ZoneRows
    BY <1>3 DEF ZoneRows, Held
  <2>. QED
    BY <1>1, <1>2, <2>1
<1>5. oddNow' = IF worker = None THEN {} ELSE oddNow \cup {"moved"}
  BY <1>1, <1>2 DEF During
<1>6. TasksTypes'
  BY <1>1, <1>2, <1>3, <1>4, <1>5 DEF TasksInv, TasksTypes
<1>7. StartedInv'
  BY <1>1 DEF TasksInv, StartedInv
<1>8. RunInv'
  BY <1>1, <1>5 DEF RunInv
<1>9. i \in DOMAIN driver.addr => "reused" \in odd'
  BY <1>1
<1>10. ZonesInDriver'
  <2> SUFFICES ASSUME worker = None, odd' \subseteq {"toggled"}, NEW j \in DOMAIN zone \cup {i}
               PROVE  InDriver(j)' = CachedOf(j)'
    BY <1>1, <1>4 DEF ZonesInDriver
  <2>1. i \notin DOMAIN driver.addr /\ odd \subseteq {"toggled"}
    BY <1>1, <1>9
  <2>2. CASE j = i
    BY <1>1, <1>4, <2>1, <2>2 DEF InDriver, CachedOf
  <2>3. CASE j \in DOMAIN zone
    <3>1. InDriver(j) = CachedOf(j)
      BY <2>1, <2>3 DEF TasksInv, ZonesInDriver
    <3>. QED
      BY <1>1, <1>4, <2>3, <3>1 DEF InDriver, CachedOf
  <2>. QED
    BY <2>2, <2>3
<1>11. ZoneFlagsAgree'
  BY <1>1, <1>4, <1>9 DEF TasksInv, ZoneFlagsAgree
<1>. QED
  BY <1>6, <1>7, <1>8, <1>10, <1>11 DEF TasksInv

(* A zone is deleted; the driver keeps what it has. *)
LEMMA StepDeleteZone ==
  ASSUME TasksInv, NEW i \in Ids, DeleteZone(i)
  PROVE  TasksInv'
<1>1. /\ zone' = [j \in DOMAIN zone \ {i} |-> zone[j]] /\ oddNow' = oddNow \cup During("moved")
      /\ UNCHANGED <<sources, file, driver, worker, m_zoneIndex, m_zonesMask, sub, odd, unsaved, time>>
  BY DEF DeleteZone
<1>2. /\ DOMAIN zone' = DOMAIN zone \ {i} /\ zone' \in [DOMAIN zone' -> ZoneRows]
      /\ \A j \in DOMAIN zone' : zone'[j] = zone[j]
  BY <1>1 DEF TasksInv, TasksTypes
<1>3. oddNow' = IF worker = None THEN {} ELSE oddNow \cup {"moved"}
  BY <1>1 DEF During, TasksInv, TasksTypes
<1>4. TasksTypes'
  BY <1>1, <1>2, <1>3 DEF TasksInv, TasksTypes
<1>5. StartedInv' /\ RunInv'
  BY <1>1, <1>3 DEF TasksInv, StartedInv, RunInv
<1>6. ZonesInDriver' /\ ZoneFlagsAgree'
  BY <1>1, <1>2 DEF TasksInv, ZonesInDriver, ZoneFlagsAgree, InDriver, CachedOf
<1>. QED
  BY <1>4, <1>5, <1>6 DEF TasksInv

(* A zone is enabled, disabled, or given another source, in driver and row. *)
LEMMA StepRowUpdated ==
  ASSUME TasksInv, NEW i \in DOMAIN zone, NEW on \in BOOLEAN, NEW x \in 1 .. MaxSources,
         sources' = [sources EXCEPT ![i] = IF x > @ THEN x ELSE @],
         zone' = [zone EXCEPT ![i].enabled = on, ![i].source = x],
         SetZoneFlag(i, on),
         oddNow' = oddNow \cup (IF on # zone[i].enabled THEN During("toggled") ELSE {}),
         unsaved' = unsaved \ {i},
         UNCHANGED <<file, worker, m_zoneIndex, m_zonesMask, sub, odd, time>>
  PROVE  TasksInv'
<1>1. /\ i \in DOMAIN zone
      /\ sources' = [sources EXCEPT ![i] = IF x > @ THEN x ELSE @]
      /\ zone' = [zone EXCEPT ![i].enabled = on, ![i].source = x]
      /\ driver' = IF "started" \in odd THEN driver
                   ELSE [driver EXCEPT !.enabled = IF on THEN @ \cup {i} ELSE @ \ {i}]
      /\ oddNow' = oddNow \cup (IF on # zone[i].enabled THEN During("toggled") ELSE {})
      /\ UNCHANGED <<file, worker, m_zoneIndex, m_zonesMask, sub, odd, time>>
  BY DEF SetZoneFlag
<1>2. /\ sources \in [Ids -> 0 .. MaxSources] /\ DOMAIN zone \subseteq Ids
      /\ zone \in [DOMAIN zone -> ZoneRows] /\ oddNow \subseteq {"moved", "toggled", "cut"}
      /\ (worker = None => oddNow = {})
  BY DEF TasksInv, TasksTypes
<1>3. sources' \in [Ids -> 0 .. MaxSources]
  BY <1>1, <1>2
<1>4. DOMAIN zone' = DOMAIN zone /\ zone' \in [DOMAIN zone' -> ZoneRows]
      /\ zone'[i].enabled = on
      /\ \A j \in DOMAIN zone : /\ zone'[j].text = zone[j].text /\ zone'[j].bin = zone[j].bin
                                /\ j # i => zone'[j] = zone[j]
  BY <1>1, <1>2 DEF ZoneRows
<1>5. /\ driver'.addr = driver.addr /\ driver' = [addr |-> driver'.addr, enabled |-> driver'.enabled]
      /\ "started" \in odd => driver' = NoZones
      /\ "started" \notin odd => driver'.enabled = IF on THEN driver.enabled \cup {i} ELSE driver.enabled \ {i}
  BY <1>1 DEF TasksInv, StartedInv
<1>6. TasksTypes'
  BY <1>1, <1>2, <1>3, <1>4 DEF TasksInv, TasksTypes, During
<1>7. StartedInv'
  BY <1>1, <1>5 DEF StartedInv
<1>8. RunInv'
  <2> SUFFICES ASSUME worker # None, "moved" \notin oddNow'
               PROVE  LET w == worker.id IN
                      /\ w \in DOMAIN zone'
                      /\ m_zoneIndex = Cardinality(Lower(DOMAIN zone', w))
                      /\ m_zonesMask = Lower(DOMAIN zone', w) \cup {w}
                      /\ Masked(sub, Lower(DOMAIN zone', w))
                      /\ "cut" \notin oddNow' => /\ worker.text = zone'[w].text /\ worker.bin = zone'[w].bin
                                                 /\ Collected(zone', file, sub, Lower(DOMAIN zone', w))
                      /\ "toggled" \notin oddNow' => worker.enabled = zone'[w].enabled /\ FlagsKept(zone', sub)
    BY <1>1 DEF RunInv
  <2>. DEFINE w == worker.id
  <2>1. /\ w \in DOMAIN zone
        /\ m_zoneIndex = Cardinality(Lower(DOMAIN zone, w))
        /\ m_zonesMask = Lower(DOMAIN zone, w) \cup {w}
        /\ Masked(sub, Lower(DOMAIN zone, w))
        /\ "cut" \notin oddNow => /\ worker.text = zone[w].text /\ worker.bin = zone[w].bin
                                  /\ Collected(zone, file, sub, Lower(DOMAIN zone, w))
        /\ "toggled" \notin oddNow => worker.enabled = zone[w].enabled /\ FlagsKept(zone, sub)
    BY <1>1 DEF TasksInv, RunInv
  <2>. HIDE DEF w
  <2>2. Lower(DOMAIN zone, w) \subseteq DOMAIN zone
    BY DEF Lower
  <2>3. ASSUME "cut" \notin oddNow' PROVE Collected(zone', file, sub, Lower(DOMAIN zone, w))
    <3>1. Collected(zone, file, sub, Lower(DOMAIN zone, w))
      BY <1>1, <2>1, <2>3
    <3>. QED
      BY <1>4, <2>2, <3>1 DEF Collected
  <2>4. ASSUME "toggled" \notin oddNow' PROVE worker.enabled = zone'[w].enabled /\ FlagsKept(zone', sub)
    <3>1. on = zone[i].enabled /\ "toggled" \notin oddNow
      BY <1>1, <2>4 DEF During
    <3>2. \A j \in DOMAIN zone : zone'[j].enabled = zone[j].enabled
      BY <1>4, <3>1
    <3>3. sub.mask \subseteq DOMAIN zone
      BY <2>1, <2>2 DEF Masked
    <3>. QED
      BY <2>1, <3>1, <3>2, <3>3 DEF FlagsKept
  <2>. QED
    BY <1>1, <1>4, <2>1, <2>3, <2>4 DEF w
<1>9. ZonesInDriver'
  <2> SUFFICES ASSUME worker = None, odd \subseteq {"toggled"}, NEW j \in DOMAIN zone
               PROVE  InDriver(j)' = CachedOf(j)'
    BY <1>1, <1>4 DEF ZonesInDriver
  <2>1. InDriver(j) = CachedOf(j)
    BY DEF TasksInv, ZonesInDriver
  <2>. QED
    BY <1>1, <1>4, <1>5, <2>1 DEF InDriver, CachedOf
<1>10. ZoneFlagsAgree'
  <2> SUFFICES ASSUME odd \subseteq {"started", "cut"}, NEW j \in (DOMAIN zone \cap DOMAIN driver.addr) \ (unsaved \ {i})
               PROVE  (j \in driver'.enabled) = zone'[j].enabled
    BY <1>1, <1>4, <1>5 DEF ZoneFlagsAgree
  <2>1. "started" \notin odd
    BY DEF TasksInv, StartedInv, NoZones
  <2>2. j # i => (j \in driver.enabled) = zone[j].enabled
    BY DEF TasksInv, ZoneFlagsAgree
  <2>. QED
    BY <1>4, <1>5, <2>1, <2>2
<1>. QED
  BY <1>6, <1>7, <1>8, <1>9, <1>10 DEF TasksInv

(* The driver's flag is set, and the row is not. *)
LEMMA StepRowLost ==
  ASSUME TasksInv, NEW i \in DOMAIN zone, NEW on \in BOOLEAN,
         SetZoneFlag(i, on),
         unsaved' = IF on # zone[i].enabled /\ "started" \notin odd THEN unsaved \cup {i} ELSE unsaved \ {i},
         UNCHANGED <<zone, sources, file, worker, m_zoneIndex, m_zonesMask, sub, odd, oddNow, time>>
  PROVE  TasksInv'
<1>1. /\ driver'.addr = driver.addr /\ driver' = [addr |-> driver'.addr, enabled |-> driver'.enabled]
      /\ "started" \in odd => driver' = NoZones
      /\ "started" \notin odd => driver'.enabled = IF on THEN driver.enabled \cup {i} ELSE driver.enabled \ {i}
  BY DEF TasksInv, StartedInv, SetZoneFlag
<1>2. TasksTypes'
  BY DEF TasksInv, TasksTypes
<1>3. StartedInv'
  BY <1>1 DEF StartedInv
<1>4. RunInv'
  BY DEF TasksInv, RunInv
<1>5. ZonesInDriver'
  BY <1>1 DEF TasksInv, ZonesInDriver, InDriver, CachedOf
<1>6. ZoneFlagsAgree'
  <2> SUFFICES ASSUME odd \subseteq {"started", "cut"}, NEW j \in (DOMAIN zone \cap DOMAIN driver.addr) \ unsaved'
               PROVE  (j \in driver'.enabled) = zone[j].enabled
    BY <1>1 DEF ZoneFlagsAgree
  <2>1. "started" \notin odd
    BY DEF TasksInv, StartedInv, NoZones
  <2>2. CASE j = i
    BY <1>1, <2>1, <2>2
  <2>3. CASE j # i
    <3>1. j \notin unsaved
      BY <2>3
    <3>2. (j \in driver.enabled) = zone[j].enabled
      BY <3>1 DEF TasksInv, ZoneFlagsAgree
    <3>. QED
      BY <1>1, <2>1, <2>3, <3>2
  <2>. QED
    BY <2>2, <2>3
<1>. QED
  BY <1>2, <1>3, <1>4, <1>5, <1>6 DEF TasksInv

(* A zone is changed by the user. *)
LEMMA StepUpdateZone ==
  ASSUME TasksInv, NEW i \in Ids, NEW on \in BOOLEAN, NEW x \in 1 .. MaxSources, UpdateZone(i, on, x)
  PROVE  TasksInv'
BY StepRowUpdated, StepRowLost DEF UpdateZone

(* A zone is saved as text, which loads its file. *)
LEMMA StepSaveZoneAsText ==
  ASSUME TasksInv, NEW n \in Nat, SaveZoneAsText(n)
  PROVE  TasksInv'
<1>. DEFINE r == RowAt(zone, n)
<1>1. /\ n < Cardinality(DOMAIN zone) /\ m_zoneIndex' = (IF worker = None THEN 0 ELSE n)
      /\ file' = LoadFile(file, WorkerOf(zone, r)) /\ oddNow' = oddNow \cup During("moved")
      /\ UNCHANGED <<zone, sources, driver, worker, sub, odd, unsaved, time>>
  BY DEF SaveZoneAsText
<1>2. DOMAIN zone \subseteq Ids /\ zone \in [DOMAIN zone -> ZoneRows] /\ file \in [Ids -> Held] /\ n \in Nat
  BY DEF TasksInv, TasksTypes
<1>3. r \in DOMAIN zone
  BY <1>1, <1>2, RowAtFound
<1>. HIDE DEF r
<1>4. WorkerOf(zone, r).id = r /\ WorkerOf(zone, r).bin = zone[r].bin
  BY DEF WorkerOf
<1>5. /\ file' \in [Ids -> Held]
      /\ \A j \in Ids : file'[j] = file[j] \/ (j = r /\ file[j] # zone[j].bin /\ file'[j] = None)
  BY <1>1, <1>2, <1>3, <1>4 DEF LoadFile, Held
<1>6. oddNow' = IF worker = None THEN {} ELSE oddNow \cup {"moved"}
  BY <1>1 DEF During, TasksInv, TasksTypes
<1>7. TasksTypes'
  BY <1>1, <1>5, <1>6 DEF TasksInv, TasksTypes
<1>8. StartedInv' /\ RunInv'
  BY <1>1, <1>6 DEF TasksInv, StartedInv, RunInv
<1>9. ASSUME NEW j \in DOMAIN zone PROVE CachedOf(j)' = CachedOf(j) /\ InDriver(j)' = InDriver(j)
  BY <1>1, <1>2, <1>5 DEF CachedOf, InDriver
<1>10. ZonesInDriver' /\ ZoneFlagsAgree'
  BY <1>1, <1>9 DEF TasksInv, ZonesInDriver, ZoneFlagsAgree
<1>. QED
  BY <1>7, <1>8, <1>10 DEF TasksInv

(* The program is started again. *)
LEMMA StepRestart ==
  ASSUME TasksInv, Restart
  PROVE  TasksInv'
<1>1. /\ driver' = NoZones /\ worker' = None /\ m_zoneIndex' = 0 /\ sub' = NoSub
      /\ odd' = {"started"} /\ oddNow' = {} /\ UNCHANGED <<zone, sources, time>>
  BY DEF Restart
<1>2. file' \in [Ids -> Held]
  <2>1. PICK f : /\ \/ f = file
                    \/ worker # None /\ \E x \in {Fetched, None} : f = [file EXCEPT ![worker.id] = x]
                 /\ file' = [i \in Ids |-> IF i \in DOMAIN zone /\ f[i] = zone[i].bin THEN f[i] ELSE None]
    BY DEF Restart
  <2>2. \A i \in DOMAIN zone : zone[i].bin \in Held
    BY DEF TasksInv, TasksTypes, ZoneRows
  <2>3. ASSUME NEW i \in Ids PROVE file'[i] \in Held
    BY <2>1, <2>2 DEF Held
  <2>. QED
    BY <2>1, <2>3
<1>3. TasksTypes' /\ StartedInv'
  BY <1>1, <1>2 DEF TasksInv, TasksTypes, StartedInv, SubTypes, NoSub, NoZones
<1>4. RunInv' /\ ZonesInDriver' /\ ZoneFlagsAgree'
  BY <1>1 DEF RunInv, ZonesInDriver, ZoneFlagsAgree, NoZones
<1>. QED
  BY <1>3, <1>4 DEF TasksInv

(* The inductive invariant of the tasks. *)
THEOREM TasksInvariant == TasksSpec => []TasksInv
<1>1. TasksInit => TasksInv
  <2> SUFFICES ASSUME TasksInit PROVE TasksInv
    OBVIOUS
  <2>1. DOMAIN zone = Given /\ Given \subseteq Ids /\ MaxSources \in Nat \ {0} /\ MaxTime \in Nat
    BY TasksAssumption DEF TasksInit, Ids
  <2>2. zone \in [DOMAIN zone -> ZoneRows] /\ sources \in [Ids -> 0 .. MaxSources] /\ file \in [Ids -> Held]
    BY <2>1 DEF TasksInit, ZoneRows, Held
  <2>3. TasksTypes
    <3>1. SubTypes(NoSub)
      BY DEF SubTypes, NoSub
    <3>. QED
      <4>1. /\ sub = NoSub /\ worker = None /\ time = 0 /\ m_zoneIndex = 0 /\ oddNow = {}
            /\ DOMAIN zone \subseteq Ids /\ 0 \in 0 .. MaxTime
        BY <2>1 DEF TasksInit
      <4>2. SubTypes(sub)
        BY <3>1, <4>1
      <4>. QED
        BY <2>2, <4>1, <4>2 DEF TasksTypes
  <2>4. StartedInv /\ RunInv /\ ZonesInDriver /\ ZoneFlagsAgree
    BY DEF TasksInit, StartedInv, RunInv, ZonesInDriver, ZoneFlagsAgree, NoZones
  <2>. QED
    BY <2>3, <2>4 DEF TasksInv
<1>2. TasksInv /\ [TasksNext]_tasksVars => TasksInv'
  <2> SUFFICES ASSUME TasksInv, [TasksNext]_tasksVars PROVE TasksInv'
    OBVIOUS
  <2>0. time \in 0 .. MaxTime /\ MaxTime \in Nat
    BY TasksAssumption DEF TasksInv, TasksTypes
  <2>1. ASSUME NEW t \in TaskTypes, NEW acts, Run(t, acts) PROVE TasksInv'
    <3>1. CASE RunChecker(acts)
      BY <2>0, <2>1, <3>1, StepOthers DEF Run, RunChecker
    <3>2. CASE RunZones(acts)
      BY <2>1, <3>2, StepRunZones DEF Run
    <3>. QED
      BY <2>1, <3>1, <3>2 DEF Run
  <2>2. ASSUME NEW t \in TaskTypes, RunExpired(t) \/ RunTask(t) PROVE TasksInv'
    BY <2>1, <2>2 DEF RunExpired, RunTask
  <2>3. ASSUME NEW t \in TaskTypes, AbortTask(t) PROVE TasksInv'
    <3>1. CASE t = "UpdateChecker" /\ WorkEnds(t)
               /\ UNCHANGED <<file, driver, m_zoneIndex, m_zonesMask, sub, odd, oddNow, unsaved>>
      BY <2>0, <2>3, <3>1, StepOthers DEF AbortTask, WorkEnds
    <3>2. CASE t = "ZoneDownloader" /\ EmitZonesUpdated(sub, file, m_zonesMask, oddNow \cup {"cut"}, 1)
      BY <2>3, <3>2, StepAbort DEF AbortTask, Started
    <3>. QED
      BY <2>3, <3>1, <3>2 DEF AbortTask
  <2>4. ASSUME NEW t \in TaskTypes, SaveVariant(t) PROVE TasksInv'
    BY <2>0, <2>4, StepOthers DEF SaveVariant, zoneVars, runVars
  <2>5. CASE StopTimer
    BY <2>0, <2>5, StepOthers DEF StopTimer, zoneVars, runVars
  <2>6. CASE CheckerFinished
    BY <2>0, <2>6, StepOthers DEF CheckerFinished, WorkEnds, zoneVars
  <2>7. CASE HoursPass
    <3>1. time' \in 0 .. MaxTime
      BY <2>0, <2>7 DEF HoursPass
    <3>. QED
      BY <2>7, <3>1, StepOthers DEF HoursPass, zoneVars, runVars
  <2>8. CASE UNCHANGED tasksVars
    BY <2>0, <2>8, StepOthers DEF tasksVars, zoneVars, runVars
  <2>9. ASSUME NEW i \in Ids, SaveZoneAsText(i - 1) PROVE TasksInv'
    <3>1. i - 1 \in Nat
      BY TasksAssumption DEF Ids
    <3>. QED
      BY <2>9, <3>1, StepSaveZoneAsText
  <2>. QED
    BY <2>2, <2>3, <2>4, <2>5, <2>6, <2>7, <2>8, <2>9, StepZoneFinished, StepAddZone, StepDeleteZone,
       StepUpdateZone, StepRestart DEF TasksNext
<1>. QED
  BY <1>1, <1>2, PTL DEF TasksSpec

(* Between runs the driver has the addresses of every zone's file, and none *)
(* of another (TaskInfoZoneDownloader, ConfUtil::writeZones,                *)
(* fort_conf_zones_set), for any number of zones and changes of the user.   *)
THEOREM DriverHasZones == TasksSpec => []ZonesInDriver
BY TasksInvariant, PTL DEF TasksInv

(* The driver's flag of a zone is the table's (ConfManager::updateZone,     *)
(* fort_conf_zone_flag_set), for any number of zones and changes.           *)
THEOREM FlagsOfZonesAgree == TasksSpec => []ZoneFlagsAgree
BY TasksInvariant, PTL DEF TasksInv
=============================================================================
