--------------------------- MODULE FortStatProof ---------------------------
(***************************************************************************)
(* Proofs about the traffic statistics.  Those of the driver, for any      *)
(* processes, flows, threads and sizes of records, as long as there are    *)
(* fewer flows than a refcount can count: refcounts are exact, no process  *)
(* is used after it was freed or leaked, the chain the timer reports is    *)
(* sound, and the bytes kept for a process are those its flows had.  Those *)
(* of the session: the table of processes the UI rebuilds from the log is  *)
(* the driver's.  And the tables of the UI, for any number of rows:        *)
(* programs keep their numbers, the table of blocked connections is cut in *)
(* time and loses none of the newest, and the list shows it.               *)
(***************************************************************************)
EXTENDS StatSession, StatDb, SequenceLemmas, SequenceTheorems, FiniteSetTheorems, TLAPS

-----------------------------------------------------------------------------
(* Flows on a process, counted. *)

LEMMA FlowsOnFinite ==
  ASSUME NEW i
  PROVE  /\ IsFiniteSet(FlowsOn(i))
         /\ Cardinality(FlowsOn(i)) \in Nat
         /\ Cardinality(FlowsOn(i)) <= Cardinality(FlowIds)
<1>1. FlowsOn(i) \in SUBSET FlowIds
  BY DEF FlowsOn
<1>2. QED
  BY <1>1, RefAssumption, FS_Subset, FS_CardinalityType DEF RefAssumption

LEMMA FlowArrives ==
  ASSUME NEW f \in FlowIds, NEW i, flows \in [FlowIds -> Int], flows[f] # i, i \in Int,
         flows' = [flows EXCEPT ![f] = i]
  PROVE  /\ Cardinality(FlowsOn(i)') = Cardinality(FlowsOn(i)) + 1
         /\ Cardinality(FlowsOn(i)) + 1 < RefWord
         /\ \A j : j # i /\ j # flows[f] => FlowsOn(j)' = FlowsOn(j)
<1>1. FlowsOn(i)' = FlowsOn(i) \cup {f} /\ f \notin FlowsOn(i)
  BY DEF FlowsOn
<1>2. Cardinality(FlowsOn(i)') = Cardinality(FlowsOn(i)) + 1
  BY <1>1, FlowsOnFinite, FS_AddElement
<1>3. FlowsOn(i)' \in SUBSET FlowIds
  BY <1>1 DEF FlowsOn
<1>4. Cardinality(FlowsOn(i)') <= Cardinality(FlowIds)
  BY <1>3, RefAssumption, FS_Subset DEF RefAssumption
<1>5. Cardinality(FlowIds) \in Nat
  BY RefAssumption, FS_CardinalityType DEF RefAssumption
<1>6. \A j : j # i /\ j # flows[f] => FlowsOn(j)' = FlowsOn(j)
  BY DEF FlowsOn
<1>7. QED
  BY <1>2, <1>4, <1>5, <1>6, FlowsOnFinite, RefAssumption DEF RefAssumption

LEMMA FlowLeaves ==
  ASSUME NEW f \in FlowIds, NEW i \in Int, flows \in [FlowIds -> Int], flows[f] = i,
         i # NoFlow, flows' = [flows EXCEPT ![f] = NoFlow]
  PROVE  /\ Cardinality(FlowsOn(i)') = Cardinality(FlowsOn(i)) - 1
         /\ Cardinality(FlowsOn(i)) \in 1 .. RefWord - 1
         /\ \A j : j # NoFlow /\ j # i => FlowsOn(j)' = FlowsOn(j)
<1>1. FlowsOn(i)' = FlowsOn(i) \ {f} /\ f \in FlowsOn(i)
  BY DEF FlowsOn, NoFlow
<1>2. Cardinality(FlowsOn(i)') = Cardinality(FlowsOn(i)) - 1
  BY <1>1, FlowsOnFinite, FS_RemoveElement
<1>3. FlowsOn(i) # {}
  BY <1>1
<1>4. Cardinality(FlowsOn(i)) # 0
  BY <1>3, FlowsOnFinite, FS_EmptySet
<1>5. Cardinality(FlowIds) \in Nat
  BY RefAssumption, FS_CardinalityType DEF RefAssumption
<1>6. \A j : j # NoFlow /\ j # i => FlowsOn(j)' = FlowsOn(j)
  BY DEF FlowsOn
<1>7. QED
  BY <1>2, <1>4, <1>5, <1>6, FlowsOnFinite, RefAssumption DEF RefAssumption

-----------------------------------------------------------------------------
(* Types.  The array and what refers to it: *)
ArrayType ==
  /\ procs \in Seq(Proc) /\ (procs # <<>> => Len(procs) < ProcMax)
  /\ procs_map \subseteq Indexes /\ proc_free \subseteq Indexes
  /\ proc_active \in Seq(Indexes) /\ proc_active_count \in Nat
  /\ flows \in [FlowIds -> Indexes \cup {BadIndex, NoFlow}]

(* An element of the array is replaced. *)
LEMMA ElementReplaced ==
  ASSUME procs \in Seq(Proc), NEW i \in Indexes, NEW pr \in Proc,
         procs' = [procs EXCEPT ![i] = pr]
  PROVE  /\ procs' \in Seq(Proc) /\ Len(procs') = Len(procs) /\ Indexes' = Indexes
         /\ procs'[i] = pr
         /\ \A j \in Indexes : j # i => procs'[j] = procs[j]
<1>1. i \in 1 .. Len(procs) /\ Indexes = 1 .. Len(procs)
  BY LenProperties DEF Indexes
<1>2. /\ procs' \in Seq(Proc) /\ Len(procs') = Len(procs)
      /\ \A j \in 1 .. Len(procs) : procs'[j] = IF j = i THEN pr ELSE procs[j]
  BY <1>1, ExceptSeq
<1>3. Indexes' = 1 .. Len(procs')
  BY <1>2, LenProperties DEF Indexes
<1>4. QED
  BY <1>1, <1>2, <1>3

(* A new process gets index i. *)
LEMMA ProcAddArray ==
  ASSUME procs \in Seq(Proc), procs # <<>> => Len(procs) < ProcMax,
         NEW i \in NewIndexes, proc_free \subseteq Indexes,
         NEW p \in Pids, NEW c \in Nat, ProcAdd(i, p, c)
  PROVE  /\ procs' \in Seq(Proc) /\ (procs' # <<>> => Len(procs') < ProcMax)
         /\ Indexes' = Indexes \cup {i}
         /\ i \notin Indexes \/ i \in proc_free
         /\ procs'[i] = [pid |-> p, active |-> FALSE, refcount |-> c, traf |-> 0]
         /\ \A j \in Indexes : j # i => procs'[j] = procs[j]
<1>. DEFINE pr == [pid |-> p, active |-> FALSE, refcount |-> c, traf |-> 0]
<1>1. pr \in Proc /\ NewProc(i, p, c) = pr
  BY DEF Proc, NewProc
<1>2. Len(procs) \in Nat /\ Indexes = 1 .. Len(procs)
  BY LenProperties DEF Indexes
<1>3. CASE proc_free # {}
  <2>1. i \in proc_free /\ i \in Indexes
    BY <1>3 DEF NewIndexes
  <2>2. procs' = [procs EXCEPT ![i] = pr]
    BY <2>1, <1>1 DEF ProcAdd
  <2>3. procs # <<>>
    BY <2>1, <1>2, EmptySeq
  <2>4. QED
    BY <2>1, <2>2, <2>3, <1>1, ElementReplaced
<1>4. CASE proc_free = {}
  <2>1. i = Len(procs) + 1 /\ Len(procs) + 1 < ProcMax
    BY <1>4 DEF NewIndexes, CanGrow
  <2>2. i \notin Indexes
    BY <2>1, <1>2
  <2>3. procs' = Append(procs, pr)
    BY <2>2, <1>1 DEF ProcAdd
  <2>4. /\ procs' \in Seq(Proc) /\ Len(procs') = Len(procs) + 1
        /\ \A j \in 1 .. Len(procs) : procs'[j] = procs[j]
        /\ procs'[Len(procs) + 1] = pr
    BY <2>3, <1>1, AppendProperties
  <2>5. Indexes' = 1 .. Len(procs) + 1
    BY <2>4, LenProperties DEF Indexes
  <2>6. QED
    BY <2>1, <2>2, <2>4, <2>5, <1>2
<1>5. QED
  BY <1>3, <1>4

(* The chain of processes with news gets one more. *)
LEMMA ActiveAddChain ==
  ASSUME NEW S, proc_active \in Seq(S), NEW i \in S, proc_active' = <<i>> \o proc_active
  PROVE  /\ proc_active' \in Seq(S)
         /\ Len(proc_active') = Len(proc_active) + 1
         /\ proc_active'[1] = i
         /\ \A k \in 1 .. Len(proc_active) : proc_active'[k + 1] = proc_active[k]
         /\ DOMAIN proc_active' = 1 .. Len(proc_active) + 1
         /\ DOMAIN proc_active = 1 .. Len(proc_active)
         /\ Len(proc_active) \in Nat
<1>1. <<i>> \in Seq(S) /\ Len(<<i>>) = 1 /\ <<i>>[1] = i
  OBVIOUS
<1>2. Len(proc_active) \in Nat /\ DOMAIN proc_active = 1 .. Len(proc_active)
  BY LenProperties
<1>3. /\ proc_active' \in Seq(S)
      /\ Len(proc_active') = 1 + Len(proc_active)
      /\ \A k \in 1 .. 1 + Len(proc_active) :
            proc_active'[k] = IF k <= 1 THEN <<i>>[k] ELSE proc_active[k - 1]
  BY <1>1, ConcatProperties
<1>4. DOMAIN proc_active' = 1 .. Len(proc_active')
  BY <1>3, LenProperties
<1>5. QED
  BY <1>1, <1>2, <1>3, <1>4

LEMMA ArrayFacts ==
  ASSUME ArrayType
  PROVE  /\ Len(procs) \in Nat /\ Indexes = 1 .. Len(procs)
         /\ BadIndex \notin Indexes /\ NoFlow \notin Indexes
         /\ \A i \in Indexes : /\ i \in Nat /\ procs[i] \in Proc
                               /\ procs[i].pid \in Pids /\ procs[i].active \in BOOLEAN
                               /\ procs[i].refcount \in Nat /\ procs[i].traf \in Nat
         /\ \A f \in FlowIds : flows[f] \in Indexes \cup {BadIndex, NoFlow}
         /\ flows \in [FlowIds -> Int]
<1>1. Len(procs) \in Nat /\ Indexes = 1 .. Len(procs)
  BY LenProperties DEF Indexes, ArrayType
<1>2. BadIndex \notin Indexes /\ NoFlow \notin Indexes
  BY <1>1 DEF BadIndex, NoFlow
<1>3. \A i \in Indexes : procs[i] \in Proc
  BY <1>1, ElementOfSeq DEF ArrayType
<1>4. \A f \in FlowIds : flows[f] \in Indexes \cup {BadIndex, NoFlow}
  BY DEF ArrayType
<1>5. Indexes \cup {BadIndex, NoFlow} \subseteq Int
  BY <1>1 DEF BadIndex, NoFlow
<1>6. flows \in [FlowIds -> Int]
  BY <1>5 DEF ArrayType
<1>7. QED
  BY <1>1, <1>2, <1>3, <1>4, <1>6 DEF Proc

-----------------------------------------------------------------------------
(* The inductive invariant: what the counters, the chain, the free chain   *)
(* and the table say of one another is needed together.  A refcount, for   *)
(* instance, is exact after a new process was added only because no flow   *)
(* can be left on the index it got.                                        *)
Core ==
  /\ ArrayType /\ log_stat \in BOOLEAN /\ unreported \in [Pids -> Nat]
  /\ IndexesSplit /\ FlowsOnLiveProc /\ RefcountExact
  /\ ActiveChain /\ NewsIsActive /\ PidOnce
  /\ BytesExact /\ OffIsEmpty

coreVars == <<log_stat, procVars, flows, unreported>>

LEMMA InitCore == Init => Core
<1>1. SUFFICES ASSUME Init PROVE Core
  OBVIOUS
<1>2. procs = <<>> /\ Indexes = {} /\ proc_active = <<>> /\ DOMAIN proc_active = {}
  BY <1>1 DEF Init, Indexes
<1>3. ArrayType
  BY <1>1, <1>2, EmptySeq DEF Init, ArrayType, NoFlow, BadIndex
<1>4. IndexesSplit /\ FlowsOnLiveProc /\ RefcountExact /\ NewsIsActive /\ PidOnce /\ OffIsEmpty
  BY <1>1, <1>2 DEF Init, IndexesSplit, FlowsOnLiveProc, RefcountExact, NewsIsActive, HasNews, PidOnce,
                    OffIsEmpty
<1>5. ActiveChain
  BY <1>1, <1>2, EmptySeq DEF Init, ActiveChain, RangeOf
<1>6. BytesExact
  BY <1>1 DEF Init, BytesExact, Found
<1>7. QED
  BY <1>1, <1>3, <1>4, <1>5, <1>6 DEF Core, Init

LEMMA CoreUnchanged ==
  ASSUME Core, UNCHANGED coreVars
  PROVE  Core'
  BY DEF Core, coreVars, procVars, ArrayType, IndexesSplit, FlowsOnLiveProc, RefcountExact,
         ActiveChain, NewsIsActive, HasNews, PidOnce, BytesExact, OffIsEmpty, Indexes, FlowsOn, Found,
         RangeOf

-----------------------------------------------------------------------------
(* A flow of a process nobody knows: an index of its own, one reference. *)
LEMMA AssociateNewCore ==
  ASSUME Core, NEW t \in Threads, NEW f \in FlowIds, AssociateNew(t, f)
  PROVE  Core'
<1>. DEFINE p == PidOf[f]
<1>1. PICK i \in NewIndexes :
        /\ log_stat /\ Found(p) = {}
        /\ ProcAdd(i, p, IF IsNewFlow(f) THEN 1 ELSE 0)
        /\ flows' = [flows EXCEPT ![f] = i]
        /\ UNCHANGED <<log_stat, proc_active, proc_active_count, unreported>>
  BY DEF AssociateNew
<1>2. p \in Pids
  BY StatAssumption DEF StatAssumption
<1>3. flows[f] \in {BadIndex, NoFlow}
  BY <1>1, ArrayFacts DEF Core, FlowsOnLiveProc, Found
<1>4. IsNewFlow(f)
  BY <1>3 DEF IsNewFlow
<1>5. ProcAdd(i, p, 1)
  BY <1>1, <1>4
<1>6. /\ procs' \in Seq(Proc) /\ (procs' # <<>> => Len(procs') < ProcMax)
      /\ Indexes' = Indexes \cup {i}
      /\ i \notin Indexes \/ i \in proc_free
      /\ procs'[i] = [pid |-> p, active |-> FALSE, refcount |-> 1, traf |-> 0]
      /\ \A j \in Indexes : j # i => procs'[j] = procs[j]
  BY <1>2, <1>5, ProcAddArray DEF Core, ArrayType
<1>7. /\ procs_map' = procs_map \cup {i} /\ proc_free' = proc_free \ {i}
      /\ i \notin procs_map /\ procs_map \subseteq Indexes
  BY <1>5, <1>6 DEF ProcAdd, FreeAfter, Core, IndexesSplit, ArrayType
<1>8. i \in Nat /\ i # BadIndex /\ i # NoFlow
  <2>1. i \in Indexes \/ i = Len(procs) + 1
    BY DEF NewIndexes, Core, ArrayType
  <2>2. QED
    BY <2>1, ArrayFacts DEF Core, BadIndex, NoFlow
<1>9. \A g \in FlowIds : flows[g] # i /\ flows'[g] = IF g = f THEN i ELSE flows[g]
  BY <1>1, <1>7, <1>8, ArrayFacts DEF Core, FlowsOnLiveProc, ArrayType
<1>10. /\ procs'[i].pid = p /\ procs'[i].active = FALSE /\ procs'[i].refcount = 1
       /\ procs'[i].traf = 0
  BY <1>6
<1>11. \A j \in procs_map : j # i /\ procs'[j] = procs[j]
  BY <1>6, <1>7
<1>12. ArrayType'
  <2>1. flows' \in [FlowIds -> Indexes' \cup {BadIndex, NoFlow}]
    BY <1>1, <1>6 DEF Core, ArrayType
  <2>2. proc_active' \in Seq(Indexes')
    <3>1. proc_active \in Seq(Indexes) /\ proc_active' = proc_active
      BY <1>1 DEF Core, ArrayType
    <3>2. \A k \in 1 .. Len(proc_active) : proc_active[k] \in Indexes'
      BY <3>1, <1>6, ElementOfSeq
    <3>3. QED
      BY <3>1, <3>2, LenProperties, SeqDef, <1>6
  <2>3. QED
    BY <2>1, <2>2, <1>1, <1>6, <1>7 DEF Core, ArrayType
<1>13. IndexesSplit'
  BY <1>6, <1>7 DEF Core, IndexesSplit
<1>14. FlowsOnLiveProc'
  BY <1>6, <1>7, <1>8, <1>9, <1>10, <1>11, ArrayFacts DEF Core, FlowsOnLiveProc
<1>15. RefcountExact'
  <2>1. FlowsOn(i) = {}
    BY <1>9 DEF FlowsOn
  <2>2. /\ Cardinality(FlowsOn(i)') = Cardinality(FlowsOn(i)) + 1
        /\ \A j : j # i /\ j # flows[f] => FlowsOn(j)' = FlowsOn(j)
    <3>1. i \in Int /\ flows[f] # i /\ flows \in [FlowIds -> Int]
      BY <1>8, <1>9, ArrayFacts DEF Core
    <3>2. flows' = [flows EXCEPT ![f] = i]
      BY <1>1
    <3>3. QED
      BY <3>1, <3>2, FlowArrives
  <2>3. Cardinality(FlowsOn(i)') = 1
    BY <2>1, <2>2, FS_EmptySet
  <2>4. ASSUME NEW j \in procs_map
        PROVE  procs'[j].refcount = Cardinality(FlowsOn(j)')
    <3>1. j # flows[f] /\ j # i
      BY <1>3, <1>11, <1>7, ArrayFacts DEF Core
    <3>2. QED
      BY <3>1, <2>2, <1>11 DEF Core, RefcountExact
  <2>5. QED
    BY <2>3, <2>4, <1>7, <1>10 DEF RefcountExact
<1>16. ActiveChain'
  BY <1>1, <1>7, <1>10, <1>11 DEF Core, ActiveChain, RangeOf
<1>17. NewsIsActive'
  BY <1>7, <1>10, <1>11 DEF Core, NewsIsActive, HasNews
<1>18. PidOnce'
  BY <1>1, <1>7, <1>10, <1>11 DEF Core, PidOnce, Found
<1>19. BytesExact'
  <2>1. ASSUME NEW q \in Pids
        PROVE  Found(q)' = IF q = p THEN {i} ELSE Found(q)
    BY <1>1, <1>7, <1>10, <1>11 DEF Found
  <2>2. \A j \in procs_map : procs'[j].traf = procs[j].traf
    BY <1>11
  <2>3. QED
    BY <2>1, <2>2, <1>1, <1>2, <1>10 DEF Core, BytesExact, Found
<1>20. OffIsEmpty' /\ log_stat' \in BOOLEAN /\ unreported' \in [Pids -> Nat]
  BY <1>1 DEF OffIsEmpty, Core
<1>21. QED
  BY <1>12, <1>13, <1>14, <1>15, <1>16, <1>17, <1>18, <1>19, <1>20 DEF Core

(* A flow of a known process. *)
LEMMA AssociateOldCore ==
  ASSUME Core, NEW f \in FlowIds, NEW reauth, AssociateOld(f, reauth)
  PROVE  Core'
<1>. DEFINE p == PidOf[f]
<1>1. PICK i \in Found(p) :
        /\ log_stat
        /\ procs' = IF IsNewFlow(f)
                    THEN [procs EXCEPT ![i].refcount = (@ + 1) % RefWord]
                    ELSE procs
        /\ flows' = [flows EXCEPT ![f] = i]
        /\ UNCHANGED <<log_stat, procs_map, proc_free, proc_active, proc_active_count, unreported>>
  BY DEF AssociateOld
<1>2. i \in procs_map /\ procs[i].pid = p /\ i \in Indexes
  BY DEF Found, Core, ArrayType
<1>3. CASE ~ IsNewFlow(f)
  <2>1. flows[f] \in Indexes
    BY <1>3, ArrayFacts DEF IsNewFlow, Core
  <2>2. flows[f] = i
    BY <2>1, <1>2 DEF Core, FlowsOnLiveProc, PidOnce
  <2>3. flows' = flows /\ procs' = procs
    BY <2>2, <1>1, <1>3 DEF Core, ArrayType
  <2>4. UNCHANGED coreVars
    BY <2>3, <1>1 DEF coreVars, procVars
  <2>5. QED
    BY <2>4, CoreUnchanged
<1>4. CASE IsNewFlow(f)
  <2>1. i \in Nat /\ flows[f] \in {BadIndex, NoFlow} /\ flows[f] # i
        /\ i # BadIndex /\ i # NoFlow /\ flows \in [FlowIds -> Int]
    BY <1>4, <1>2, ArrayFacts DEF IsNewFlow, Core
  <2>2. flows' = [flows EXCEPT ![f] = i]
    BY <1>1
  <2>3. /\ Cardinality(FlowsOn(i)') = Cardinality(FlowsOn(i)) + 1
        /\ Cardinality(FlowsOn(i)) + 1 < RefWord
        /\ \A j : j # i /\ j # flows[f] => FlowsOn(j)' = FlowsOn(j)
    <3>1. i \in Int /\ flows[f] # i /\ flows \in [FlowIds -> Int]
      BY <2>1
    <3>2. QED
      BY <3>1, <2>2, FlowArrives
  <2>. DEFINE pr == [pid |-> procs[i].pid, active |-> procs[i].active,
                     refcount |-> (procs[i].refcount + 1) % RefWord, traf |-> procs[i].traf]
  <2>4. procs[i].refcount = Cardinality(FlowsOn(i)) /\ Cardinality(FlowsOn(i)) \in Nat
        /\ RefWord \in Nat
    BY <1>2, FlowsOnFinite, RefAssumption DEF Core, RefcountExact, RefAssumption
  <2>5. (procs[i].refcount + 1) % RefWord = Cardinality(FlowsOn(i)')
    BY <2>3, <2>4
  <2>6. pr \in Proc
    BY <2>5, <2>4, <2>3, <1>2, ArrayFacts DEF Core, Proc
  <2>7. procs' = [procs EXCEPT ![i] = pr]
    <3>1. procs[i] \in Proc
      BY <1>2, ArrayFacts DEF Core
    <3>2. [procs[i] EXCEPT !.refcount = (procs[i].refcount + 1) % RefWord] = pr
      BY <3>1 DEF Proc
    <3>3. QED
      BY <3>2, <1>1, <1>4
  <2>8. /\ procs' \in Seq(Proc) /\ Len(procs') = Len(procs) /\ Indexes' = Indexes
        /\ procs'[i] = pr
        /\ \A j \in Indexes : j # i => procs'[j] = procs[j]
    BY <2>6, <2>7, <1>2, ElementReplaced DEF Core, ArrayType
  <2>9. \A g \in FlowIds : flows'[g] = IF g = f THEN i ELSE flows[g]
    BY <2>1, <2>2
  <2>10. \A j \in Indexes : /\ procs'[j].pid = procs[j].pid
                             /\ procs'[j].active = procs[j].active
                             /\ procs'[j].traf = procs[j].traf
    BY <2>8
  <2>11. ArrayType'
    <3>1. flows' \in [FlowIds -> Indexes' \cup {BadIndex, NoFlow}]
      BY <1>1, <1>2, <2>8 DEF Core, ArrayType
    <3>2. procs' # <<>> => Len(procs') < ProcMax
      BY <2>8, <1>2, EmptySeq DEF Core, ArrayType, Indexes
    <3>3. QED
      BY <3>1, <3>2, <2>8, <1>1 DEF Core, ArrayType
  <2>12. FlowsOnLiveProc'
    BY <1>1, <1>2, <2>8, <2>9, <2>10 DEF Core, FlowsOnLiveProc
  <2>13. RefcountExact'
    <3>1. ASSUME NEW j \in procs_map
          PROVE  procs'[j].refcount = Cardinality(FlowsOn(j)')
      <4>1. CASE j = i
        BY <4>1, <2>5, <2>8
      <4>2. CASE j # i
        <5>1. j \in Indexes /\ j # flows[f]
          BY <2>1, ArrayFacts DEF Core, ArrayType
        <5>2. QED
          BY <5>1, <4>2, <2>3, <2>8 DEF Core, RefcountExact
      <4>3. QED
        BY <4>1, <4>2
    <3>2. QED
      BY <3>1, <1>1 DEF RefcountExact
  <2>14. IndexesSplit' /\ OffIsEmpty'
    BY <1>1, <2>8 DEF Core, IndexesSplit, OffIsEmpty
  <2>15. ActiveChain'
    BY <1>1, <2>10 DEF Core, ActiveChain, RangeOf, ArrayType
  <2>16. NewsIsActive'
    <3>1. \A j \in procs_map : j \in Indexes
      BY DEF Core, ArrayType
    <3>2. procs'[i].refcount # 0
      BY <2>3, <2>4, <2>5, <2>8
    <3>3. QED
      BY <3>1, <3>2, <1>1, <2>8, <2>10 DEF Core, NewsIsActive, HasNews
  <2>17. PidOnce' /\ BytesExact'
    BY <1>1, <2>10 DEF Core, PidOnce, BytesExact, Found, ArrayType
  <2>18. QED
    BY <1>1, <2>11, <2>12, <2>13, <2>14, <2>15, <2>16, <2>17 DEF Core
<1>5. QED
  BY <1>3, <1>4

-----------------------------------------------------------------------------
(* Process i has news: it is in the chain, once. *)
LEMMA ChainAfterNews ==
  ASSUME ArrayType, ActiveChain, NEW i \in procs_map, ActiveAdd(i),
         procs_map' = procs_map, Indexes' = Indexes,
         procs'[i].active = TRUE,
         \A j \in procs_map : j # i => procs'[j].active = procs[j].active
  PROVE  ActiveChain' /\ proc_active' \in Seq(Indexes) /\ proc_active_count' \in Nat
<1>1. i \in Indexes /\ procs[i].active \in BOOLEAN
  BY ArrayFacts DEF ArrayType
<1>2. CASE procs[i].active
  BY <1>2 DEF ActiveAdd, ActiveChain, RangeOf, ArrayType
<1>3. CASE ~ procs[i].active
  <2>1. proc_active' = <<i>> \o proc_active /\ proc_active_count' = proc_active_count + 1
    BY <1>3 DEF ActiveAdd
  <2>2. /\ proc_active' \in Seq(Indexes)
        /\ Len(proc_active') = Len(proc_active) + 1
        /\ proc_active'[1] = i
        /\ \A k \in 1 .. Len(proc_active) : proc_active'[k + 1] = proc_active[k]
        /\ DOMAIN proc_active' = 1 .. Len(proc_active) + 1
        /\ DOMAIN proc_active = 1 .. Len(proc_active)
        /\ Len(proc_active) \in Nat
    BY <2>1, <1>1, ActiveAddChain DEF ArrayType
  <2>3. \A k \in 1 .. Len(proc_active) : proc_active[k] # i
    BY <1>3, <2>2 DEF ActiveChain, RangeOf
  <2>4. \A k \in 2 .. Len(proc_active) + 1 :
           k - 1 \in 1 .. Len(proc_active) /\ proc_active'[k] = proc_active[k - 1]
    <3>1. TAKE k \in 2 .. Len(proc_active) + 1
    <3>2. k - 1 \in 1 .. Len(proc_active) /\ (k - 1) + 1 = k
      BY <2>2
    <3>3. QED
      BY <3>2, <2>2
  <2>5. \A k, l \in DOMAIN proc_active' : proc_active'[k] = proc_active'[l] => k = l
    <3>1. TAKE k, l \in DOMAIN proc_active'
    <3>2. HAVE proc_active'[k] = proc_active'[l]
    <3>3. (k = 1 \/ k \in 2 .. Len(proc_active) + 1) /\ (l = 1 \/ l \in 2 .. Len(proc_active) + 1)
      BY <2>2
    <3>4. CASE k = 1 \/ l = 1
      BY <3>2, <3>3, <3>4, <2>2, <2>3, <2>4
    <3>5. CASE k # 1 /\ l # 1
      <4>1. k - 1 = l - 1
        BY <3>2, <3>3, <3>5, <2>2, <2>4 DEF ActiveChain
      <4>2. QED
        BY <4>1, <3>3, <3>5, <2>2
    <3>6. QED
      BY <3>4, <3>5
  <2>6. RangeOf(proc_active)' = RangeOf(proc_active) \cup {i}
    <3>1. RangeOf(proc_active)' \subseteq RangeOf(proc_active) \cup {i}
      BY <2>2, <2>4 DEF RangeOf
    <3>2. i \in RangeOf(proc_active)'
      BY <2>2 DEF RangeOf
    <3>3. ASSUME NEW k \in DOMAIN proc_active
          PROVE  proc_active[k] \in RangeOf(proc_active)'
      <4>1. k + 1 \in DOMAIN proc_active' /\ proc_active'[k + 1] = proc_active[k]
        BY <2>2
      <4>2. QED
        BY <4>1 DEF RangeOf
    <3>4. QED
      BY <3>1, <3>2, <3>3 DEF RangeOf
  <2>7. RangeOf(proc_active)' = { j \in procs_map' : procs'[j].active }
    BY <2>6 DEF ActiveChain
  <2>8. proc_active_count' = Len(proc_active') /\ proc_active_count' \in Nat
    BY <2>1, <2>2 DEF ActiveChain
  <2>9. QED
    BY <2>2, <2>5, <2>7, <2>8 DEF ActiveChain
<1>4. QED
  BY <1>1, <1>2, <1>3

-----------------------------------------------------------------------------
(* Data of a flow. *)
LEMMA FlowClassifyCore ==
  ASSUME Core, NEW f \in FlowIds, NEW len \in Lens, FlowClassify(f, len)
  PROVE  Core'
<1>1. PICK i : i = flows[f]
  OBVIOUS
<1>2. /\ log_stat /\ i \notin {NoFlow, BadIndex}
      /\ procs' = [procs EXCEPT ![i].traf = @ + len, ![i].active = TRUE]
      /\ ActiveAdd(i)
      /\ unreported' = [unreported EXCEPT ![PidOf[f]] = @ + len]
      /\ UNCHANGED <<log_stat, procs_map, proc_free, flows>>
  BY <1>1 DEF FlowClassify
<1>3. i \in Indexes /\ i \in procs_map /\ procs[i].pid = PidOf[f] /\ procs[i] \in Proc
  BY <1>1, <1>2, ArrayFacts DEF Core, FlowsOnLiveProc
<1>4. len \in Nat /\ PidOf[f] \in Pids
  BY StatAssumption DEF StatAssumption
<1>. DEFINE pr == [pid |-> procs[i].pid, active |-> TRUE,
                   refcount |-> procs[i].refcount, traf |-> procs[i].traf + len]
<1>5. pr \in Proc
  BY <1>3, <1>4 DEF Proc
<1>6. procs' = [procs EXCEPT ![i] = pr]
  <2>. DEFINE r == [pid |-> procs[i].pid, active |-> procs[i].active,
                    refcount |-> procs[i].refcount, traf |-> procs[i].traf + len]
  <2>1. [[procs[i] EXCEPT !.traf = procs[i].traf + len] EXCEPT !.active = TRUE] = pr
    <3>1. [procs[i] EXCEPT !.traf = procs[i].traf + len] = r
      BY <1>3 DEF Proc
    <3>2. \A b \in BOOLEAN : [r EXCEPT !.active = b] =
             [pid |-> procs[i].pid, active |-> b,
              refcount |-> procs[i].refcount, traf |-> procs[i].traf + len]
      OBVIOUS
    <3>3. QED
      BY <3>1, <3>2
  <2>2. procs \in [Indexes -> Proc]
    BY LenProperties DEF Core, ArrayType, Indexes
  <2>3. QED
    BY <2>1, <2>2, <1>2, <1>3
<1>7. /\ procs' \in Seq(Proc) /\ Len(procs') = Len(procs) /\ Indexes' = Indexes
      /\ procs'[i] = pr
      /\ \A j \in Indexes : j # i => procs'[j] = procs[j]
  BY <1>3, <1>5, <1>6, ElementReplaced DEF Core, ArrayType
<1>8. /\ \A j \in Indexes : procs'[j].pid = procs[j].pid /\ procs'[j].refcount = procs[j].refcount
      /\ procs'[i].active = TRUE /\ procs'[i].traf = procs[i].traf + len
  BY <1>7
<1>9. procs_map \subseteq Indexes
  BY DEF Core, ArrayType
<1>10. ActiveChain' /\ proc_active' \in Seq(Indexes) /\ proc_active_count' \in Nat
  BY <1>2, <1>3, <1>7, <1>8, <1>9, ChainAfterNews DEF Core
<1>11. ArrayType'
  <2>1. procs' # <<>> => Len(procs') < ProcMax
    BY <1>7, <1>3, EmptySeq DEF Core, ArrayType, Indexes
  <2>2. QED
    BY <2>1, <1>2, <1>7, <1>10 DEF Core, ArrayType
<1>12. FlowsOnLiveProc' /\ IndexesSplit' /\ OffIsEmpty' /\ PidOnce'
  <2>1. FlowsOnLiveProc'
    BY <1>2, <1>7, <1>8 DEF Core, FlowsOnLiveProc
  <2>2. IndexesSplit' /\ OffIsEmpty'
    BY <1>2, <1>7 DEF Core, IndexesSplit, OffIsEmpty
  <2>3. PidOnce'
    BY <1>2, <1>8, <1>9 DEF Core, PidOnce
  <2>4. QED
    BY <2>1, <2>2, <2>3
<1>13. RefcountExact'
  <2>1. \A j : FlowsOn(j)' = FlowsOn(j)
    BY <1>2 DEF FlowsOn
  <2>2. QED
    BY <2>1, <1>2, <1>8, <1>9 DEF Core, RefcountExact
<1>14. NewsIsActive'
  BY <1>2, <1>7, <1>8, <1>9 DEF Core, NewsIsActive, HasNews
<1>15. BytesExact'
  <2>1. \A q \in Pids : Found(q)' = Found(q)
    BY <1>2, <1>8, <1>9 DEF Found
  <2>2. \A q \in Pids : unreported'[q] = IF q = PidOf[f] THEN unreported[q] + len ELSE unreported[q]
    BY <1>2, <1>4 DEF Core
  <2>3. \A j \in procs_map : procs'[j].traf = IF j = i THEN procs[j].traf + len ELSE procs[j].traf
    BY <1>7, <1>8, <1>9
  <2>4. \A j \in procs_map : procs[j].pid = PidOf[f] => j = i
    BY <1>3 DEF Core, PidOnce
  <2>5. QED
    BY <2>1, <2>2, <2>3, <2>4, <1>3 DEF Core, BytesExact, Found
<1>16. unreported' \in [Pids -> Nat]
  BY <1>2, <1>4 DEF Core
<1>17. QED
  BY <1>2, <1>10, <1>11, <1>12, <1>13, <1>14, <1>15, <1>16 DEF Core

-----------------------------------------------------------------------------
(* The end of a flow. *)
LEMMA FlowDeleteCore ==
  ASSUME Core, NEW f \in FlowIds, FlowDelete(f)
  PROVE  Core'
<1>1. PICK i : i = flows[f]
  OBVIOUS
<1>2. /\ i # NoFlow
      /\ flows' = [flows EXCEPT ![f] = NoFlow]
      /\ UNCHANGED <<log_stat, unreported>>
  BY <1>1 DEF FlowDelete
<1>3. /\ i \in Int /\ i \in Indexes \cup {BadIndex} /\ flows \in [FlowIds -> Int]
      /\ \A g \in FlowIds : flows'[g] = IF g = f THEN NoFlow ELSE flows[g]
  <2>1. flows[f] \in Indexes \cup {BadIndex, NoFlow} /\ flows \in [FlowIds -> Int]
    BY ArrayFacts DEF Core
  <2>2. QED
    BY <2>1, <1>1, <1>2
<1>4. /\ Cardinality(FlowsOn(i)') = Cardinality(FlowsOn(i)) - 1
      /\ Cardinality(FlowsOn(i)) \in 1 .. RefWord - 1
      /\ \A j : j # NoFlow /\ j # i => FlowsOn(j)' = FlowsOn(j)
  BY <1>1, <1>2, <1>3, FlowLeaves
<1>5. flows' \in [FlowIds -> Indexes \cup {BadIndex, NoFlow}]
  BY <1>2 DEF Core, ArrayType
<1>6. procs_map \subseteq Indexes /\ NoFlow \notin Indexes /\ BadIndex \notin Indexes
  BY ArrayFacts DEF Core, ArrayType
<1>7. CASE i = BadIndex
  <2>1. UNCHANGED procVars
    BY <1>1, <1>7 DEF FlowDelete
  <2>2. /\ procs' = procs /\ procs_map' = procs_map /\ proc_free' = proc_free
        /\ proc_active' = proc_active /\ proc_active_count' = proc_active_count
        /\ Indexes' = Indexes
    BY <2>1 DEF procVars, Indexes
  <2>3. ArrayType'
    BY <2>2, <1>5 DEF Core, ArrayType
  <2>4. RefcountExact'
    BY <2>2, <1>4, <1>6, <1>7 DEF Core, RefcountExact
  <2>5. FlowsOnLiveProc' /\ OffIsEmpty'
    BY <2>2, <1>2, <1>3, <1>6 DEF Core, FlowsOnLiveProc, OffIsEmpty
  <2>6. IndexesSplit' /\ ActiveChain' /\ NewsIsActive' /\ PidOnce' /\ BytesExact'
    BY <2>2, <1>2 DEF Core, IndexesSplit, ActiveChain, NewsIsActive, HasNews, PidOnce, BytesExact,
                      Found, RangeOf
  <2>7. QED
    BY <2>3, <2>4, <2>5, <2>6, <1>2 DEF Core
<1>8. CASE i # BadIndex
  <2>1. i \in procs_map /\ i \in Indexes /\ procs[i] \in Proc /\ procs[i].pid = PidOf[f] /\ log_stat
    BY <1>1, <1>2, <1>3, <1>8, ArrayFacts DEF Core, FlowsOnLiveProc, OffIsEmpty
  <2>2. /\ procs' = [procs EXCEPT ![i].refcount = (@ - 1) % RefWord,
                                  ![i].active = @ \/ LastFlow(i)]
        /\ IF LastFlow(i) THEN ActiveAdd(i)
           ELSE UNCHANGED <<proc_active, proc_active_count>>
        /\ UNCHANGED <<procs_map, proc_free>>
    BY <1>1, <1>8 DEF FlowDelete
  <2>3. procs[i].refcount = Cardinality(FlowsOn(i)) /\ RefWord \in Nat
    BY <2>1, RefAssumption DEF Core, RefcountExact, RefAssumption
  <2>4. (procs[i].refcount - 1) % RefWord = procs[i].refcount - 1 /\ procs[i].refcount - 1 \in Nat
    BY <2>3, <1>4
  <2>5. LastFlow(i) \in BOOLEAN /\ (LastFlow(i) <=> procs[i].refcount - 1 = 0)
    BY <2>4 DEF LastFlow
  <2>. DEFINE pr == [pid |-> procs[i].pid, active |-> procs[i].active \/ LastFlow(i),
                     refcount |-> procs[i].refcount - 1, traf |-> procs[i].traf]
  <2>6. pr \in Proc
    BY <2>1, <2>4 DEF Proc
  <2>7. procs' = [procs EXCEPT ![i] = pr]
    <3>. DEFINE r == [pid |-> procs[i].pid, active |-> procs[i].active,
                      refcount |-> procs[i].refcount - 1, traf |-> procs[i].traf]
    <3>1. [[procs[i] EXCEPT !.refcount = (procs[i].refcount - 1) % RefWord]
              EXCEPT !.active = procs[i].active \/ LastFlow(i)] = pr
      <4>1. [procs[i] EXCEPT !.refcount = (procs[i].refcount - 1) % RefWord] = r
        BY <2>1, <2>4 DEF Proc
      <4>2. [r EXCEPT !.active = procs[i].active \/ LastFlow(i)] = pr
        OBVIOUS
      <4>3. QED
        BY <4>1, <4>2
    <3>2. procs \in [Indexes -> Proc]
      BY LenProperties DEF Core, ArrayType, Indexes
    <3>3. QED
      BY <3>1, <3>2, <2>1, <2>2
  <2>8. /\ procs' \in Seq(Proc) /\ Len(procs') = Len(procs) /\ Indexes' = Indexes
        /\ procs'[i] = pr
        /\ \A j \in Indexes : j # i => procs'[j] = procs[j]
    BY <2>1, <2>6, <2>7, ElementReplaced DEF Core, ArrayType
  <2>9. /\ \A j \in Indexes : procs'[j].pid = procs[j].pid /\ procs'[j].traf = procs[j].traf
        /\ procs'[i].refcount = procs[i].refcount - 1
        /\ procs'[i].active = (procs[i].active \/ LastFlow(i))
    BY <2>8
  <2>10. ActiveChain' /\ proc_active' \in Seq(Indexes) /\ proc_active_count' \in Nat
    <3>1. CASE LastFlow(i)
      <4>1. procs'[i].active = TRUE
        BY <3>1, <2>9, <2>1 DEF Proc
      <4>2. \A j \in procs_map : j # i => procs'[j].active = procs[j].active
        BY <2>8, <1>6
      <4>3. ActiveAdd(i) /\ procs_map' = procs_map
        BY <3>1, <2>2
      <4>4. QED
        BY <4>1, <4>2, <4>3, <2>1, <2>8, ChainAfterNews DEF Core
    <3>2. CASE ~ LastFlow(i)
      <4>1. procs'[i].active = procs[i].active
        BY <3>2, <2>9, <2>1 DEF Proc
      <4>2. \A j \in procs_map : procs'[j].active = procs[j].active
        BY <4>1, <2>8, <1>6
      <4>3. { j \in procs_map : procs'[j].active } = { j \in procs_map : procs[j].active }
        BY <4>2
      <4>4. proc_active' = proc_active /\ proc_active_count' = proc_active_count
            /\ procs_map' = procs_map
        BY <3>2, <2>2
      <4>5. proc_active \in Seq(Indexes) /\ proc_active_count \in Nat /\ ActiveChain
        BY DEF Core, ArrayType
      <4>6. ActiveChain'
        BY <4>3, <4>4, <4>5 DEF ActiveChain, RangeOf
      <4>7. QED
        BY <4>4, <4>5, <4>6
    <3>3. QED
      BY <3>1, <3>2
  <2>11. ArrayType'
    <3>1. procs' # <<>> => Len(procs') < ProcMax
      BY <2>8, <2>1, EmptySeq DEF Core, ArrayType, Indexes
    <3>2. QED
      BY <3>1, <1>5, <2>2, <2>8, <2>10 DEF Core, ArrayType
  <2>12. RefcountExact'
    <3>1. ASSUME NEW j \in procs_map
          PROVE  procs'[j].refcount = Cardinality(FlowsOn(j)')
      <4>1. CASE j = i
        BY <4>1, <2>9, <2>3, <1>4
      <4>2. CASE j # i
        BY <4>2, <2>8, <1>4, <1>6 DEF Core, RefcountExact
      <4>3. QED
        BY <4>1, <4>2
    <3>2. QED
      BY <3>1, <2>2 DEF RefcountExact
  <2>13. FlowsOnLiveProc' /\ OffIsEmpty' /\ IndexesSplit'
    <3>1. IndexesSplit'
      BY <2>2, <2>8, Zenon DEF Core, IndexesSplit
    <3>2. log_stat' = log_stat /\ OffIsEmpty'
      BY <1>2, <2>1, Zenon DEF OffIsEmpty
    <3>3. ASSUME NEW h \in FlowIds, flows'[h] \in Indexes'
          PROVE  flows'[h] \in procs_map' /\ procs'[flows'[h]].pid = PidOf[h]
      <4>1. flows'[h] = flows[h] /\ flows[h] \in Indexes
        BY <1>3, <1>6, <2>8, <3>3
      <4>2. flows[h] \in procs_map /\ procs[flows[h]].pid = PidOf[h]
        BY <4>1, Zenon DEF Core, FlowsOnLiveProc
      <4>. QED
        BY <2>2, <2>9, <4>1, <4>2, Zenon
    <3>. QED
      BY <3>1, <3>2, <3>3, Zenon DEF FlowsOnLiveProc
  <2>14. NewsIsActive'
    <3>1. procs'[i].refcount = 0 => procs'[i].active
      BY <2>5, <2>9
    <3>2. procs'[i].traf # 0 => procs'[i].active
      BY <2>1, <2>9 DEF Core, NewsIsActive, HasNews
    <3>3. QED
      BY <3>1, <3>2, <2>2, <2>8, <1>6 DEF Core, NewsIsActive, HasNews
  <2>15. PidOnce' /\ BytesExact'
    <3>1. \A q : Found(q)' = Found(q)
      BY <2>2, <2>9, <1>6 DEF Found
    <3>2. PidOnce'
      BY <1>6, <2>2, <2>9 DEF Core, PidOnce
    <3>3. \A q : \A j \in Found(q) : procs'[j].traf = procs[j].traf
      BY <1>6, <2>9 DEF Found
    <3>4. BytesExact'
      BY <3>1, <3>3, <1>2 DEF Core, BytesExact
    <3>5. QED
      BY <3>2, <3>4
  <2>16. QED
    BY <1>2, <2>10, <2>11, <2>12, <2>13, <2>14, <2>15 DEF Core
<1>9. QED
  BY <1>7, <1>8

-----------------------------------------------------------------------------
(* The log timer: what is flushed starts anew or, without flows, is freed. *)
LEMMA TrafFlushCore ==
  ASSUME Core, NEW n \in 1 .. Len(proc_active), TrafFlush(n)
  PROVE  Core'
<1>1. PICK flushed : flushed = { proc_active[k] : k \in 1 .. n }
  OBVIOUS
<1>2. PICK gone : gone = { i \in flushed : Gone(i) }
  OBVIOUS
<1>3. /\ procs' = [i \in Indexes |-> IF i \in flushed \ gone THEN Restarted(procs[i]) ELSE procs[i]]
      /\ procs_map' = procs_map \ gone
      /\ proc_free' = proc_free \cup gone
      /\ proc_active' = SubSeq(proc_active, n + 1, Len(proc_active))
      /\ proc_active_count' = proc_active_count - n
      /\ unreported' = [p \in Pids |->
                          IF \E i \in flushed : procs[i].pid = p THEN 0 ELSE unreported[p]]
      /\ UNCHANGED <<log_stat, flows>>
  BY <1>1, <1>2 DEF TrafFlush, CountAfter, ChainAfter
<1>4. /\ Len(proc_active) \in Nat /\ DOMAIN proc_active = 1 .. Len(proc_active)
      /\ \A k \in 1 .. Len(proc_active) : proc_active[k] \in Indexes
  BY LenProperties, ElementOfSeq DEF Core, ArrayType
<1>5. /\ Len(procs) \in Nat /\ Indexes = 1 .. Len(procs) /\ procs_map \subseteq Indexes
      /\ \A i \in Indexes : procs[i] \in Proc
  BY ArrayFacts DEF Core, ArrayType
<1>6. /\ flushed \subseteq procs_map /\ gone \subseteq flushed
      /\ \A i \in flushed : i \in gone <=> procs[i].refcount = 0
  BY <1>1, <1>2, <1>4 DEF Core, ActiveChain, RangeOf, Gone
<1>7. \A i \in Indexes : Restarted(procs[i]) =
         [pid |-> procs[i].pid, active |-> FALSE, refcount |-> procs[i].refcount, traf |-> 0]
  <2>1. TAKE i \in Indexes
  <2>2. procs[i] \in Proc
    BY <1>5
  <2>3. \A b \in BOOLEAN : [procs[i] EXCEPT !.active = b] =
           [pid |-> procs[i].pid, active |-> b,
            refcount |-> procs[i].refcount, traf |-> procs[i].traf]
    BY <2>2 DEF Proc
  <2>4. \A b \in BOOLEAN :
           [[pid |-> procs[i].pid, active |-> b,
             refcount |-> procs[i].refcount, traf |-> procs[i].traf] EXCEPT !.traf = 0] =
           [pid |-> procs[i].pid, active |-> b, refcount |-> procs[i].refcount, traf |-> 0]
    OBVIOUS
  <2>5. QED
    BY <2>3, <2>4 DEF Restarted
<1>8. \A i \in Indexes : /\ procs'[i] \in Proc
                         /\ procs'[i].pid = procs[i].pid
                         /\ procs'[i].refcount = procs[i].refcount
                         /\ i \in flushed \ gone => procs'[i].active = FALSE /\ procs'[i].traf = 0
                         /\ i \notin flushed \ gone => procs'[i] = procs[i]
  <2>1. TAKE i \in Indexes
  <2>2. procs'[i] = IF i \in flushed \ gone THEN Restarted(procs[i]) ELSE procs[i]
    BY <1>3
  <2>3. procs[i] \in Proc /\ Restarted(procs[i]) =
          [pid |-> procs[i].pid, active |-> FALSE, refcount |-> procs[i].refcount, traf |-> 0]
    BY <1>5, <1>7
  <2>4. Restarted(procs[i]) \in Proc
    BY <2>3 DEF Proc
  <2>5. QED
    BY <2>2, <2>3, <2>4
<1>9. procs' \in Seq(Proc) /\ Len(procs') = Len(procs) /\ Indexes' = Indexes
  <2>1. procs' \in [1 .. Len(procs) -> Proc]
    BY <1>3, <1>5, <1>8
  <2>2. procs' \in Seq(Proc)
    BY <2>1, <1>5, SeqDef
  <2>3. DOMAIN procs' = 1 .. Len(procs) /\ DOMAIN procs' = 1 .. Len(procs') /\ Len(procs') \in Nat
    BY <2>1, <2>2, LenProperties
  <2>4. Len(procs') = Len(procs)
    BY <2>3, <1>5
  <2>5. QED
    BY <2>2, <2>3, <2>4, <1>5 DEF Indexes
<1>10. /\ proc_active' \in Seq(Indexes) /\ Len(proc_active') = Len(proc_active) - n
       /\ DOMAIN proc_active' = 1 .. Len(proc_active) - n
       /\ \A k \in 1 .. Len(proc_active) - n : proc_active'[k] = proc_active[n + k]
  <2>1. \A k \in n + 1 .. Len(proc_active) : proc_active[k] \in Indexes
    BY <1>4
  <2>2. n \in Nat /\ n + 1 \in Int /\ Len(proc_active) \in Int
    BY <1>4
  <2>3. /\ proc_active' \in Seq(Indexes)
        /\ Len(proc_active') = IF n + 1 <= Len(proc_active) THEN Len(proc_active) - (n + 1) + 1 ELSE 0
        /\ \A k \in 1 .. Len(proc_active) - (n + 1) + 1 : proc_active'[k] = proc_active[(n + 1) + k - 1]
    BY <2>1, <2>2, <1>3, SubSeqProperties
  <2>4. PICK m \in Nat : m = Len(proc_active) /\ n \in 1 .. m
    BY <1>4
  <2>5. Len(proc_active') = m - n
    BY <2>3, <2>4
  <2>6. ASSUME NEW k \in 1 .. m - n
        PROVE  proc_active'[k] = proc_active[n + k]
    <3>1. k \in 1 .. m - (n + 1) + 1 /\ (n + 1) + k - 1 = n + k
      BY <2>4
    <3>2. proc_active'[k] = proc_active[(n + 1) + k - 1]
      BY <2>3, <2>4, <3>1
    <3>3. QED
      BY <3>1, <3>2
  <2>7. DOMAIN proc_active' = 1 .. m - n
    BY <2>3, <2>5, LenProperties
  <2>8. QED
    BY <2>3, <2>4, <2>5, <2>6, <2>7
<1>11. ArrayType'
  <2>1. gone \subseteq Indexes
    BY <1>5, <1>6
  <2>2. procs' # <<>> => Len(procs') < ProcMax
    <3>1. procs = <<>> => Len(procs') = 0
      BY <1>9, EmptySeq
    <3>2. QED
      BY <3>1, <1>9, EmptySeq DEF Core, ArrayType
  <2>3. proc_active_count' \in Nat
    BY <1>3, <1>4 DEF Core, ActiveChain
  <2>4. flows' \in [FlowIds -> Indexes' \cup {BadIndex, NoFlow}]
    BY <1>3, <1>9 DEF Core, ArrayType
  <2>5. QED
    BY <2>1, <2>2, <2>3, <2>4, <1>3, <1>9, <1>10 DEF Core, ArrayType
<1>12. IndexesSplit' /\ OffIsEmpty'
  BY <1>3, <1>5, <1>6, <1>9 DEF Core, IndexesSplit, OffIsEmpty
<1>13. RefcountExact'
  <2>1. \A i : FlowsOn(i)' = FlowsOn(i)
    BY <1>3 DEF FlowsOn
  <2>2. QED
    BY <2>1, <1>3, <1>5, <1>8 DEF Core, RefcountExact
<1>14. FlowsOnLiveProc'
  <2>1. ASSUME NEW f \in FlowIds, flows[f] \in Indexes
        PROVE  flows[f] \in procs_map' /\ procs'[flows[f]].pid = PidOf[f]
    <3>1. flows[f] \in procs_map /\ procs[flows[f]].pid = PidOf[f]
      BY <2>1 DEF Core, FlowsOnLiveProc
    <3>2. FlowsOn(flows[f]) # {} /\ IsFiniteSet(FlowsOn(flows[f]))
      BY FlowsOnFinite DEF FlowsOn
    <3>3. Cardinality(FlowsOn(flows[f])) # 0
      BY <3>2, FS_EmptySet
    <3>4. flows[f] \notin gone
      BY <3>1, <3>3, <1>6 DEF Core, RefcountExact
    <3>5. QED
      BY <3>1, <3>4, <1>3, <1>8, <2>1
  <2>2. QED
    BY <2>1, <1>3, <1>9 DEF FlowsOnLiveProc
<1>15. ActiveChain'
  <2>1. proc_active_count' = Len(proc_active')
    BY <1>3, <1>10 DEF Core, ActiveChain
  <2>2. \A k, l \in DOMAIN proc_active' : proc_active'[k] = proc_active'[l] => k = l
    <3>1. TAKE k, l \in DOMAIN proc_active'
    <3>2. HAVE proc_active'[k] = proc_active'[l]
    <3>3. /\ n + k \in DOMAIN proc_active /\ n + l \in DOMAIN proc_active
          /\ proc_active[n + k] = proc_active[n + l] /\ k \in Int /\ l \in Int /\ n \in Int
      BY <3>2, <1>10, <1>4
    <3>4. n + k = n + l
      BY <3>3 DEF Core, ActiveChain
    <3>5. QED
      BY <3>3, <3>4
  <2>3. RangeOf(proc_active)' = RangeOf(proc_active) \ flushed
    <3>1. ASSUME NEW k \in DOMAIN proc_active'
          PROVE  proc_active'[k] \in RangeOf(proc_active) \ flushed
      <4>1. n + k \in DOMAIN proc_active /\ n + k \notin 1 .. n /\ proc_active'[k] = proc_active[n + k]
        <5>1. PICK m \in Nat : m = Len(proc_active) /\ n \in 1 .. m
          BY <1>4
        <5>2. k \in 1 .. m - n
          BY <5>1, <1>10
        <5>3. n + k \in 1 .. m /\ n + k \notin 1 .. n
          BY <5>1, <5>2
        <5>4. QED
          BY <5>1, <5>2, <5>3, <1>4, <1>10
      <4>2. \A l \in 1 .. n : l \in DOMAIN proc_active
        BY <1>4
      <4>3. \A l \in 1 .. n : proc_active[l] # proc_active[n + k]
        BY <4>1, <4>2 DEF Core, ActiveChain
      <4>4. QED
        BY <4>1, <4>3, <1>1 DEF RangeOf
    <3>2. ASSUME NEW k \in DOMAIN proc_active, proc_active[k] \notin flushed
          PROVE  proc_active[k] \in RangeOf(proc_active)'
      <4>1. k \in 1 .. Len(proc_active) /\ k \notin 1 .. n
        BY <3>2, <1>1, <1>4
      <4>2. k - n \in 1 .. Len(proc_active) - n /\ n + (k - n) = k
        BY <4>1, <1>4
      <4>3. k - n \in DOMAIN proc_active' /\ proc_active'[k - n] = proc_active[k]
        BY <4>2, <1>10
      <4>4. QED
        BY <4>3 DEF RangeOf
    <3>3. QED
      BY <3>1, <3>2 DEF RangeOf
  <2>4. ASSUME NEW i
        PROVE  (i \in procs_map' /\ procs'[i].active) <=>
               (i \in procs_map /\ procs[i].active /\ i \notin flushed)
    BY <1>3, <1>5, <1>6, <1>8
  <2>5. RangeOf(proc_active) = { i \in procs_map : procs[i].active }
    BY DEF Core, ActiveChain
  <2>6. RangeOf(proc_active)' = { i \in procs_map' : procs'[i].active }
    BY <2>3, <2>4, <2>5
  <2>7. QED
    BY <2>1, <2>2, <2>6 DEF ActiveChain
<1>16. NewsIsActive'
  <2>1. ASSUME NEW i \in procs_map', procs'[i].traf # 0 \/ procs'[i].refcount = 0
        PROVE  procs'[i].active
    <3>1. i \in procs_map /\ i \notin gone /\ i \in Indexes
      BY <1>3, <1>5, <2>1
    <3>2. procs'[i].refcount = procs[i].refcount
      BY <1>8, <3>1
    <3>3. i \notin flushed
      BY <1>6, <1>8, <2>1, <3>1, <3>2
    <3>4. procs'[i] = procs[i]
      BY <1>8, <3>1, <3>3
    <3>5. procs[i].active
      BY <2>1, <3>1, <3>4 DEF Core, NewsIsActive, HasNews
    <3>. QED
      BY <3>4, <3>5, Zenon
  <2>. QED
    BY <2>1, Zenon DEF NewsIsActive, HasNews
<1>17. PidOnce'
  BY <1>3, <1>5, <1>8 DEF Core, PidOnce
<1>18. BytesExact'
  <2>1. ASSUME NEW p \in Pids
        PROVE  /\ \A i \in procs_map' : procs'[i].pid = p => procs'[i].traf = unreported'[p]
               /\ (\A i \in procs_map' : procs'[i].pid # p) => unreported'[p] = 0
    <3>1. unreported'[p] = IF \E i \in flushed : procs[i].pid = p THEN 0 ELSE unreported[p]
      BY <1>3
    <3>2. /\ \A i \in procs_map : procs[i].pid = p => procs[i].traf = unreported[p]
          /\ (\A i \in procs_map : procs[i].pid # p) => unreported[p] = 0
      BY DEF Core, BytesExact, Found
    <3>3. CASE \E i \in flushed : procs[i].pid = p
      <4>1. PICK i \in flushed : procs[i].pid = p
        BY <3>3
      <4>2. \A j \in procs_map : procs[j].pid = p => j = i
        BY <4>1, <1>6 DEF Core, PidOnce
      <4>3. \A j \in procs_map' : procs'[j].pid = p => procs'[j].traf = 0
        BY <4>1, <4>2, <1>3, <1>5, <1>6, <1>8
      <4>4. QED
        BY <4>3, <3>1, <3>3
    <3>4. CASE ~ \E i \in flushed : procs[i].pid = p
      <4>1. \A j \in procs_map : procs[j].pid = p => j \in procs_map' /\ procs'[j] = procs[j]
        BY <3>4, <1>3, <1>5, <1>6, <1>8
      <4>2. \A j \in procs_map' : j \in procs_map /\ procs'[j].pid = procs[j].pid
        BY <1>3, <1>5, <1>8
      <4>3. QED
        BY <4>1, <4>2, <3>1, <3>2, <3>4
    <3>5. QED
      BY <3>3, <3>4
  <2>2. QED
    BY <2>1 DEF BytesExact, Found
<1>19. unreported' \in [Pids -> Nat] /\ log_stat' \in BOOLEAN
  BY <1>3 DEF Core
<1>20. QED
  BY <1>11, <1>12, <1>13, <1>14, <1>15, <1>16, <1>17, <1>18, <1>19 DEF Core

-----------------------------------------------------------------------------
(* Statistics switched on or off. *)
LEMMA StatUpdateCore ==
  ASSUME Core, NEW on \in BOOLEAN, StatUpdate(on)
  PROVE  Core'
<1>1. CASE log_stat /\ ~ on
  <2>1. /\ procs_map' = {} /\ proc_free' = proc_free \cup procs_map
        /\ proc_active' = <<>> /\ proc_active_count' = 0
        /\ flows' = [f \in FlowIds |-> IF flows[f] = NoFlow THEN NoFlow ELSE BadIndex]
        /\ unreported' = [p \in Pids |-> 0]
        /\ procs' = procs /\ Indexes' = Indexes /\ log_stat' = on
    BY <1>1 DEF StatUpdate, StatClear, FlowsClosed, Indexes
  <2>2. \A f \in FlowIds : flows'[f] \in {NoFlow, BadIndex}
    BY <2>1
  <2>3. BadIndex \notin Indexes /\ NoFlow \notin Indexes
    BY ArrayFacts DEF Core
  <2>4. ArrayType'
    <3>1. flows' \in [FlowIds -> Indexes' \cup {BadIndex, NoFlow}]
      BY <2>1
    <3>2. proc_active' \in Seq(Indexes')
      BY <2>1, EmptySeq
    <3>3. QED
      BY <3>1, <3>2, <2>1 DEF Core, ArrayType
  <2>5. FlowsOnLiveProc' /\ OffIsEmpty' /\ IndexesSplit'
    BY <2>1, <2>2, <2>3 DEF Core, FlowsOnLiveProc, OffIsEmpty, IndexesSplit, ArrayType
  <2>6. RefcountExact' /\ NewsIsActive' /\ PidOnce'
    BY <2>1 DEF RefcountExact, NewsIsActive, HasNews, PidOnce
  <2>7. ActiveChain'
    BY <2>1, EmptySeq DEF ActiveChain, RangeOf
  <2>8. BytesExact'
    BY <2>1 DEF BytesExact, Found
  <2>9. QED
    BY <2>1, <2>4, <2>5, <2>6, <2>7, <2>8 DEF Core
<1>2. CASE ~ (log_stat /\ ~ on)
  <2>1. /\ log_stat' = on
        /\ procs' = procs /\ procs_map' = procs_map /\ proc_free' = proc_free
        /\ proc_active' = proc_active /\ proc_active_count' = proc_active_count
        /\ flows' = flows /\ unreported' = unreported /\ Indexes' = Indexes
    BY <1>2 DEF StatUpdate, procVars, Indexes
  <2>2. OffIsEmpty'
    BY <2>1, <1>2 DEF Core, OffIsEmpty
  <2>3. ArrayType' /\ FlowsOnLiveProc' /\ IndexesSplit' /\ RefcountExact'
    BY <2>1 DEF Core, ArrayType, FlowsOnLiveProc, IndexesSplit, RefcountExact, FlowsOn
  <2>4. ActiveChain' /\ NewsIsActive' /\ PidOnce' /\ BytesExact'
    BY <2>1 DEF Core, ActiveChain, RangeOf, NewsIsActive, HasNews, PidOnce, BytesExact, Found
  <2>5. QED
    BY <2>1, <2>2, <2>3, <2>4 DEF Core
<1>3. QED
  BY <1>1, <1>2

-----------------------------------------------------------------------------
(* Every step. *)
LEMMA CoreStep ==
  ASSUME Core, [Next]_vars
  PROVE  Core'
<1>1. ASSUME NEW t \in Threads, NEW f \in FlowIds, AssociateNew(t, f)
      PROVE  Core'
  BY <1>1, AssociateNewCore
<1>2. ASSUME NEW f \in FlowIds, NEW reauth \in BOOLEAN, AssociateOld(f, reauth)
      PROVE  Core'
  BY <1>2, AssociateOldCore
<1>3. ASSUME NEW t \in Threads, ProcNewWrite(t)
      PROVE  Core'
  BY <1>3, CoreUnchanged DEF ProcNewWrite, coreVars
<1>4. ASSUME NEW f \in FlowIds, NEW len \in Lens, FlowClassify(f, len)
      PROVE  Core'
  BY <1>4, FlowClassifyCore
<1>5. ASSUME NEW f \in FlowIds, FlowDelete(f)
      PROVE  Core'
  BY <1>5, FlowDeleteCore
<1>6. ASSUME NEW n \in 1 .. Len(proc_active), TrafFlush(n)
      PROVE  Core'
  BY <1>6, TrafFlushCore
<1>7. ASSUME NEW on \in BOOLEAN, StatUpdate(on)
      PROVE  Core'
  BY <1>7, StatUpdateCore
<1>8. ASSUME LogRead
      PROVE  Core'
  BY <1>8, CoreUnchanged DEF LogRead, coreVars
<1>9. CASE UNCHANGED vars
  BY <1>9, CoreUnchanged DEF vars, coreVars
<1>10. QED
  BY <1>1, <1>2, <1>3, <1>4, <1>5, <1>6, <1>7, <1>8, <1>9 DEF Next, Work

(* The inductive invariant holds. *)
THEOREM CoreInvariant == Spec => []Core
<1>1. Init => Core
  BY InitCore
<1>2. Core /\ [Next]_vars => Core'
  BY CoreStep
<1>3. QED
  BY <1>1, <1>2, PTL DEF Spec

(* No process is leaked or used after it was freed: fort_stat_proc_free    *)
(* and fort_stat_proc_add keep every index in exactly one place.           *)
THEOREM IndexesAreSplit == Spec => []IndexesSplit
<1>1. Core => IndexesSplit
  BY DEF Core
<1>2. QED
  BY <1>1, CoreInvariant, PTL

(* A flow counts on a live process of its own. *)
THEOREM FlowsCountOnLive == Spec => []FlowsOnLiveProc
<1>1. Core => FlowsOnLiveProc
  BY DEF Core
<1>2. QED
  BY <1>1, CoreInvariant, PTL

(* The UINT16 refcount of a process is the number of its flows, as long as *)
(* there are fewer than 2^16 flows.                                        *)
THEOREM RefcountsExact == Spec => []RefcountExact
<1>1. Core => RefcountExact
  BY DEF Core
<1>2. QED
  BY <1>1, CoreInvariant, PTL

(* The chain the log timer walks, and the counter that bounds its walk. *)
THEOREM ActiveChainSound == Spec => [](ActiveChain /\ NewsIsActive)
<1>1. Core => ActiveChain /\ NewsIsActive
  BY DEF Core
<1>2. QED
  BY <1>1, CoreInvariant, PTL

(* A process identifier is in the table once. *)
THEOREM PidsOnce == Spec => []PidOnce
<1>1. Core => PidOnce
  BY DEF Core
<1>2. QED
  BY <1>1, CoreInvariant, PTL

(* The timer reports the bytes the flows of a process had, none else. *)
THEOREM TrafficIsExact == Spec => []TrafficExact
<1>1. Core => TrafficExact
  BY DEF Core, TrafficExact, ActiveChain, NewsIsActive, HasNews
<1>2. QED
  BY <1>1, CoreInvariant, PTL

(* Without statistics the table is empty and no flow counts on it. *)
THEOREM OffMeansEmpty == Spec => []OffIsEmpty
<1>1. Core => OffIsEmpty
  BY DEF Core
<1>2. QED
  BY <1>1, CoreInvariant, PTL

(* A flow is never taken from one process to another, whatever the order   *)
(* of reauthorizations, ends of processes and switches of the statistics.  *)
THEOREM FlowsKeepProc == Spec => FlowKeepsProc
<1>. DEFINE Kept == \A f \in FlowIds :
       flows[f] \in Indexes /\ flows'[f] \in Indexes => flows'[f] = flows[f]
<1>1. Core /\ [Next]_vars => [Kept]_vars
  <2>1. SUFFICES ASSUME Core, Next PROVE Kept
    BY DEF Kept
  <2>2. ASSUME NEW f \in FlowIds, NEW v \in Int, flows' = [flows EXCEPT ![f] = v],
               flows[f] \in Indexes => v = flows[f] \/ v \notin Indexes
        PROVE  Kept
    BY <2>2, <2>1 DEF Core, ArrayType
  <2>3. \A i \in Indexes : i \in Int
    BY <2>1, ArrayFacts DEF Core
  <2>4. ASSUME NEW t \in Threads, NEW f \in FlowIds, AssociateNew(t, f)
        PROVE  Kept
    <3>1. PICK i \in NewIndexes : flows' = [flows EXCEPT ![f] = i] /\ Found(PidOf[f]) = {}
      BY <2>4 DEF AssociateNew
    <3>2. flows[f] \notin Indexes
      BY <2>1, <3>1 DEF Core, FlowsOnLiveProc, Found
    <3>3. i \in Int
      <4>1. i \in Indexes \/ i = Len(procs) + 1
        BY <2>1 DEF NewIndexes, Core, ArrayType
      <4>2. QED
        BY <4>1, <2>1, <2>3, ArrayFacts DEF Core
    <3>4. QED
      BY <2>2, <3>1, <3>2, <3>3
  <2>5. ASSUME NEW f \in FlowIds, NEW reauth \in BOOLEAN, AssociateOld(f, reauth)
        PROVE  Kept
    <3>1. PICK i \in Found(PidOf[f]) : flows' = [flows EXCEPT ![f] = i]
      BY <2>5 DEF AssociateOld
    <3>2. i \in procs_map /\ procs[i].pid = PidOf[f] /\ i \in Int
      BY <2>1, <2>3 DEF Found, Core, ArrayType
    <3>3. flows[f] \in Indexes => flows[f] = i
      BY <2>1, <3>2 DEF Core, FlowsOnLiveProc, PidOnce
    <3>4. QED
      BY <2>2, <3>1, <3>2, <3>3
  <2>6. ASSUME NEW f \in FlowIds, FlowDelete(f)
        PROVE  Kept
    <3>1. flows' = [flows EXCEPT ![f] = NoFlow] /\ NoFlow \in Int
      BY <2>6 DEF FlowDelete, NoFlow
    <3>2. NoFlow \notin Indexes
      BY <2>1, ArrayFacts DEF Core
    <3>3. QED
      BY <2>2, <3>1, <3>2
  <2>7. ASSUME NEW on \in BOOLEAN, StatUpdate(on)
        PROVE  Kept
    <3>1. flows' = flows \/ flows' = FlowsClosed
      BY <2>7 DEF StatUpdate, StatClear
    <3>2. CASE flows' = FlowsClosed
      <4>1. \A f \in FlowIds : flows'[f] \in {NoFlow, BadIndex}
        BY <3>2 DEF FlowsClosed
      <4>2. NoFlow \notin Indexes /\ BadIndex \notin Indexes
        BY <2>1, ArrayFacts DEF Core
      <4>3. QED
        BY <4>1, <4>2
    <3>3. QED
      BY <3>1, <3>2
  <2>8. ASSUME flows' = flows
        PROVE  Kept
    BY <2>8
  <2>9. QED
    BY <2>1, <2>4, <2>5, <2>6, <2>7, <2>8
       DEF Next, Work, ProcNewWrite, FlowClassify, TrafFlush, LogRead
<1>2. QED
  BY <1>1, CoreInvariant, PTL DEF Spec, FlowKeepsProc

-----------------------------------------------------------------------------
(* What is written to the log. *)

Record == [pids : Seq(Pids), new : BOOLEAN, gone : SUBSET Pids]

OtherTypes ==
  /\ writing \in [Threads -> Pids \cup {NoPid}]
  /\ log \in Seq(Record)
  /\ toggles \in Nat

(* One record reports a part of the chain. *)
LEMMA RecordType ==
  ASSUME Core, NEW a \in Nat \ {0}, NEW b \in Nat, b <= Len(proc_active)
  PROVE  /\ TrafRecord(SubSeq(proc_active, a, b)) \in Record
         /\ \A p \in TrafRecord(SubSeq(proc_active, a, b)).gone :
               \E j \in procs_map : procs[j].pid = p /\ procs[j].refcount = 0
<1>1. PICK s : s = SubSeq(proc_active, a, b)
  OBVIOUS
<1>2. \A k \in a .. b : proc_active[k] \in procs_map
  <2>1. DOMAIN proc_active = 1 .. Len(proc_active) /\ Len(proc_active) \in Nat
    BY LenProperties DEF Core, ArrayType
  <2>2. QED
    BY <2>1 DEF Core, ActiveChain, RangeOf
<1>3. s \in Seq(procs_map)
  BY <1>1, <1>2, SubSeqProperties
<1>4. /\ DOMAIN s = 1 .. Len(s) /\ Len(s) \in Nat
      /\ \A k \in DOMAIN s : s[k] \in procs_map
  BY <1>3, LenProperties, ElementOfSeq
<1>5. \A j \in procs_map : procs[j].pid \in Pids
  BY ArrayFacts DEF Core, ArrayType
<1>6. [k \in DOMAIN s |-> procs[s[k]].pid] \in Seq(Pids)
  <2>1. [k \in DOMAIN s |-> procs[s[k]].pid] \in [1 .. Len(s) -> Pids]
    BY <1>4, <1>5
  <2>2. QED
    BY <2>1, <1>4, SeqDef
<1>7. RangeOf(s) \subseteq procs_map
  BY <1>4 DEF RangeOf
<1>8. { procs[i].pid : i \in { j \in RangeOf(s) : Gone(j) } } \subseteq Pids
  BY <1>5, <1>7
<1>9. TrafRecord(s) \in Record
  BY <1>6, <1>8 DEF TrafRecord, Record
<1>10. TrafRecord(s).gone = { procs[i].pid : i \in { j \in RangeOf(s) : Gone(j) } }
  BY DEF TrafRecord
<1>11. QED
  BY <1>1, <1>7, <1>9, <1>10 DEF Gone

(* The records of one flush. *)
LEMMA RecordsType ==
  ASSUME Core, NEW n \in 1 .. Len(proc_active)
  PROVE  /\ Records(n) \in Seq(Record)
         /\ \A k \in 1 .. Len(Records(n)) : \A p \in Records(n)[k].gone :
               \E j \in procs_map : procs[j].pid = p /\ procs[j].refcount = 0
<1>1. ChunkMax \in Nat \ {0} /\ n \in Nat
  BY StatAssumption DEF StatAssumption
<1>2. PICK m : m = (n + ChunkMax - 1) \div ChunkMax
  OBVIOUS
<1>3. m \in Nat
  BY <1>1, <1>2
<1>. DEFINE From(k) == (k - 1) * ChunkMax + 1
            To(k) == IF k * ChunkMax < n THEN k * ChunkMax ELSE n
<1>4. Len(proc_active) \in Nat
  BY LenProperties DEF Core, ArrayType
<1>5. ASSUME NEW k \in 1 .. m
      PROVE  From(k) \in Nat \ {0} /\ To(k) \in Nat /\ To(k) <= Len(proc_active)
  <2>1. k - 1 \in Nat /\ k \in Nat
    BY <1>3
  <2>2. (k - 1) * ChunkMax \in Nat /\ k * ChunkMax \in Nat
    BY <1>1, <2>1
  <2>3. QED
    BY <1>1, <1>4, <2>2
<1>6. Records(n) = [k \in 1 .. m |-> TrafRecord(SubSeq(proc_active, From(k), To(k)))]
  BY <1>2 DEF Records
<1>7. ASSUME NEW k \in 1 .. m
      PROVE  /\ TrafRecord(SubSeq(proc_active, From(k), To(k))) \in Record
             /\ \A p \in TrafRecord(SubSeq(proc_active, From(k), To(k))).gone :
                   \E j \in procs_map : procs[j].pid = p /\ procs[j].refcount = 0
  BY <1>5, RecordType
<1>. HIDE DEF From, To
<1>8. Records(n) \in [1 .. m -> Record]
  BY <1>6, <1>7
<1>9. Records(n) \in Seq(Record)
  BY <1>8, <1>3, SeqDef
<1>10. DOMAIN Records(n) = 1 .. m /\ DOMAIN Records(n) = 1 .. Len(Records(n))
  BY <1>8, <1>9, LenProperties
<1>11. \A k \in 1 .. m : \A p \in Records(n)[k].gone :
          \E j \in procs_map : procs[j].pid = p /\ procs[j].refcount = 0
  <2>1. TAKE k \in 1 .. m
  <2>2. Records(n)[k] = TrafRecord(SubSeq(proc_active, From(k), To(k)))
    BY <1>6
  <2>3. QED
    BY <2>2, <1>7
<1>12. QED
  BY <1>9, <1>10, <1>11

LEMMA OtherTypesStep ==
  ASSUME Core, OtherTypes, [Next]_vars
  PROVE  OtherTypes'
<1>1. /\ StatAssumption
      /\ writing \in [Threads -> Pids \cup {NoPid}] /\ log \in Seq(Record) /\ toggles \in Nat
  BY StatAssumption DEF OtherTypes
<1>2. ASSUME NEW t \in Threads, NEW f \in FlowIds, AssociateNew(t, f)
      PROVE  OtherTypes'
  BY <1>1, <1>2 DEF AssociateNew, OtherTypes, StatAssumption
<1>3. ASSUME NEW f \in FlowIds, NEW reauth \in BOOLEAN, AssociateOld(f, reauth)
      PROVE  OtherTypes'
  BY <1>1, <1>3 DEF AssociateOld, OtherTypes
<1>4. ASSUME NEW t \in Threads, ProcNewWrite(t)
      PROVE  OtherTypes'
  <2>1. writing[t] \in Pids
    BY <1>1, <1>4 DEF ProcNewWrite
  <2>. DEFINE r == [pids |-> <<writing[t]>>, new |-> TRUE, gone |-> {}]
  <2>2. r \in Record
    BY <2>1 DEF Record
  <2>3. log' = Append(log, r)
    BY <1>4 DEF ProcNewWrite
  <2>4. log' \in Seq(Record)
    BY <2>2, <2>3, <1>1, AppendProperties
  <2>5. QED
    BY <2>4, <1>1, <1>4 DEF ProcNewWrite, OtherTypes
<1>5. ASSUME NEW f \in FlowIds, NEW len \in Lens, FlowClassify(f, len)
      PROVE  OtherTypes'
  BY <1>1, <1>5 DEF FlowClassify, OtherTypes
<1>6. ASSUME NEW f \in FlowIds, FlowDelete(f)
      PROVE  OtherTypes'
  BY <1>1, <1>6 DEF FlowDelete, OtherTypes
<1>7. ASSUME NEW n \in 1 .. Len(proc_active), TrafFlush(n)
      PROVE  OtherTypes'
  <2>1. log' = log \o Records(n)
    BY <1>7 DEF TrafFlush
  <2>2. log' \in Seq(Record)
    BY <2>1, <1>1, RecordsType, ConcatProperties
  <2>3. QED
    BY <2>2, <1>1, <1>7 DEF TrafFlush, OtherTypes
<1>8. ASSUME NEW on \in BOOLEAN, StatUpdate(on)
      PROVE  OtherTypes'
  BY <1>1, <1>8 DEF StatUpdate, OtherTypes
<1>9. ASSUME LogRead
      PROVE  OtherTypes'
  <2>1. log # <<>> /\ log' = Tail(log)
    BY <1>9 DEF LogRead
  <2>2. log' \in Seq(Record)
    BY <2>1, <1>1, HeadTailProperties
  <2>3. QED
    BY <2>2, <1>1, <1>9 DEF LogRead, OtherTypes
<1>10. CASE UNCHANGED vars
  BY <1>1, <1>10 DEF vars, OtherTypes
<1>11. QED
  BY <1>2, <1>3, <1>4, <1>5, <1>6, <1>7, <1>8, <1>9, <1>10 DEF Next, Work

(* The state has its types; the array of processes stays below the limit   *)
(* of FORT_PROC_COUNT_MAX, which the 15 bits of an index can hold.         *)
THEOREM TypeCorrect == Spec => []TypeOK
<1>1. Init => OtherTypes
  BY EmptySeq DEF Init, OtherTypes
<1>2. Core /\ OtherTypes /\ [Next]_vars => OtherTypes'
  BY OtherTypesStep
<1>3. Spec => []OtherTypes
  BY <1>1, <1>2, CoreInvariant, PTL DEF Spec
<1>4. Core /\ OtherTypes => TypeOK
  BY DEF Core, OtherTypes, ArrayType, TypeOK, Record
<1>5. QED
  BY <1>3, <1>4, CoreInvariant, PTL

(* The timer reports a process as gone only when no flow is left that      *)
(* counts on it: the client never forgets a process that still has traffic *)
(* to come.                                                                *)
THEOREM GoneWithoutFlows == Spec => GoneHasNoFlows
<1>. DEFINE Fine(r) == \A p \in r.gone : \A f \in FlowIds :
                         PidOf[f] = p => flows[f] \in {BadIndex, NoFlow}
            Written == \A k \in Len(log) + 1 .. Len(log') : Fine(log'[k])
<1>1. Core /\ OtherTypes /\ [Next]_vars => [Written]_vars
  <2>1. SUFFICES ASSUME Core, OtherTypes, Next PROVE Written
    OBVIOUS
  <2>2. log \in Seq(Record) /\ Len(log) \in Nat
    BY <2>1, LenProperties DEF OtherTypes
  <2>3. CASE log' = log
    BY <2>2, <2>3
  <2>4. ASSUME NEW t \in Threads, ProcNewWrite(t)
        PROVE  Written
    <3>. DEFINE r == [pids |-> <<writing[t]>>, new |-> TRUE, gone |-> {}]
    <3>1. log' = Append(log, r)
      BY <2>4 DEF ProcNewWrite
    <3>2. Len(log') = Len(log) + 1 /\ log'[Len(log) + 1] = r
      <4>1. log \in Seq(Record \cup {r}) /\ r \in Record \cup {r}
        BY <2>2, SeqMonotonic
      <4>2. QED
        BY <4>1, <3>1, AppendProperties
    <3>3. Fine(r)
      OBVIOUS
    <3>4. QED
      BY <3>2, <3>3, <2>2
  <2>5. ASSUME NEW n \in 1 .. Len(proc_active), TrafFlush(n)
        PROVE  Written
    <3>1. log' = log \o Records(n)
      BY <2>5 DEF TrafFlush
    <3>2. /\ Records(n) \in Seq(Record) /\ Len(Records(n)) \in Nat
          /\ \A k \in 1 .. Len(Records(n)) : \A p \in Records(n)[k].gone :
               \E j \in procs_map : procs[j].pid = p /\ procs[j].refcount = 0
      BY <2>1, RecordsType, LenProperties
    <3>3. ASSUME NEW k \in Len(log) + 1 .. Len(log')
          PROVE  Fine(log'[k])
      <4>1. /\ Len(log') = Len(log) + Len(Records(n))
            /\ log'[k] = Records(n)[k - Len(log)]
            /\ k - Len(log) \in 1 .. Len(Records(n))
        BY <3>1, <3>2, <2>2, ConcatProperties
      <4>2. SUFFICES ASSUME NEW p \in log'[k].gone, NEW f \in FlowIds, PidOf[f] = p
                     PROVE  flows[f] \in {BadIndex, NoFlow}
        OBVIOUS
      <4>3. PICK j \in procs_map : procs[j].pid = p /\ procs[j].refcount = 0
        BY <4>1, <4>2, <3>2
      <4>4. FlowsOn(j) = {}
        BY <4>3, <2>1, FlowsOnFinite, FS_EmptySet DEF Core, RefcountExact
      <4>5. flows[f] \notin Indexes
        BY <4>2, <4>3, <4>4, <2>1 DEF Core, FlowsOnLiveProc, PidOnce, FlowsOn
      <4>6. QED
        BY <4>5, <2>1, ArrayFacts DEF Core
    <3>4. QED
      BY <3>3
  <2>6. CASE LogRead
    <3>1. log # <<>> /\ log' = Tail(log)
      BY <2>6 DEF LogRead
    <3>2. Len(log') = Len(log) - 1
      BY <3>1, <2>2, HeadTailProperties
    <3>3. QED
      BY <3>2, <2>2
  <2>7. QED
    BY <2>1, <2>3, <2>4, <2>5, <2>6
       DEF Next, Work, AssociateNew, AssociateOld, FlowClassify, FlowDelete, StatUpdate
<1>2. Init => OtherTypes
  BY EmptySeq DEF Init, OtherTypes
<1>3. Core /\ OtherTypes /\ [Next]_vars => OtherTypes'
  BY OtherTypesStep
<1>4. Spec => []OtherTypes
  BY <1>2, <1>3, CoreInvariant, PTL DEF Spec
<1>5. QED
  BY <1>1, <1>4, CoreInvariant, PTL DEF Spec, GoneHasNoFlows

-----------------------------------------------------------------------------
(* The session: the table of the UI follows the table of the driver.  The  *)
(* UI knows a process when it reads a record about it, and does not when   *)
(* it reads its PROC_NEW record; a thread that still has to write one is   *)
(* the only one, and the UI will not know the process before.              *)
InDriver(p) == \E i \in procs_map : procs[i].pid = p
Owes(t, p) == writing[t] # NoPid /\ writing[t] = p
Reports(k, p) == p \in RangeOf(log[k].pids)

RecordsFit ==
  \A k \in 1 .. Len(log) :
    /\ log[k].new => log[k].gone = {} /\ Reports(k, log[k].pids[1])
    /\ \A p : log[k].new /\ Reports(k, p) => p = log[k].pids[1] /\ ~ KnowsAt(p, k - 1)
    /\ \A p : ~ log[k].new /\ Reports(k, p) => KnowsAt(p, k - 1)

DebtsFit ==
  /\ \A t \in Threads : \A p : Owes(t, p) => ~ KnowsAt(p, Len(log))
  /\ \A t, u \in Threads : \A p : Owes(t, p) /\ Owes(u, p) => t = u
  /\ \A p : InDriver(p) <=> KnowsAt(p, Len(log)) \/ \E t \in Threads : Owes(t, p)

NothingOpen ==
  /\ log = <<>> /\ procs_map = {} /\ \A t \in Threads : writing[t] = NoPid
  /\ ~ switching => m_appPidPathMap = {}

SessionInv ==
  /\ ~ switching => logStat = log_stat
  /\ ~ raced =>
       /\ ~ mismatch /\ ~ repeated
       /\ IF log_stat THEN RecordsFit /\ DebtsFit ELSE NothingOpen

(* What reading a record changes. *)
LEMMA KnowsFirst ==
  ASSUME NEW p
  PROVE  KnowsAt(p, 0) <=> p \in m_appPidPathMap
  BY DEF KnowsAt

(* Records that follow change nothing about those before. *)
LEMMA KnowsKept ==
  ASSUME NEW n \in Nat, \A l \in 1 .. n : log'[l] = log[l], m_appPidPathMap' = m_appPidPathMap,
         NEW p, NEW k \in 0 .. n
  PROVE  KnowsAt(p, k)' <=> KnowsAt(p, k)
<1>1. \A l \in 1 .. k : l \in 1 .. n
  OBVIOUS
<1>2. \A j \in 0 .. k : \A l \in j + 1 .. k : l \in 1 .. n
  OBVIOUS
<1>3. 0 \in 0 .. k /\ \A j \in 1 .. k : j \in 0 .. k
  OBVIOUS
<1>. QED
  BY <1>1, <1>2, <1>3 DEF KnowsAt

(* The first record is read. *)
LEMMA KnowsRead ==
  ASSUME NEW n \in Nat, \A l \in 1 .. n : log'[l] = log[l + 1],
         NEW p,
         p \in m_appPidPathMap' <=>
           (log[1].new /\ Reports(1, p)) \/ (p \in m_appPidPathMap /\ p \notin log[1].gone),
         NEW k \in 0 .. n
  PROVE  KnowsAt(p, k)' <=> KnowsAt(p, k + 1)
<1>. DEFINE Stays(j, i) == \A l \in j + 1 .. i : p \notin log[l].gone
            Learns(j) == log[j].new /\ Reports(j, p)
<1>1. KnowsAt(p, k + 1) <=>
         \/ p \in m_appPidPathMap /\ Stays(0, k + 1)
         \/ \E j \in 1 .. k + 1 : Learns(j) /\ Stays(j, k + 1)
  BY DEF KnowsAt, Reports
<1>2. Stays(0, k + 1) <=> p \notin log[1].gone /\ Stays(1, k + 1)
  <2>1. \A l : l \in 0 + 1 .. k + 1 <=> l = 1 \/ l \in 1 + 1 .. k + 1
    OBVIOUS
  <2>. QED
    BY <2>1
<1>3. ASSUME NEW j \in 0 .. k
      PROVE  (\A l \in j + 1 .. k : p \notin log'[l].gone) <=> Stays(j + 1, k + 1)
  <2>1. \A l \in j + 1 .. k : l \in 1 .. n /\ l + 1 \in (j + 1) + 1 .. k + 1
    OBVIOUS
  <2>2. \A l \in (j + 1) + 1 .. k + 1 : l - 1 \in j + 1 .. k /\ l - 1 \in 1 .. n /\ (l - 1) + 1 = l
    OBVIOUS
  <2>3. \A l \in (j + 1) + 1 .. k + 1 : log'[l - 1] = log[l]
    BY <2>2
  <2>4. ASSUME Stays(j + 1, k + 1), NEW l \in j + 1 .. k
        PROVE  p \notin log'[l].gone
    BY <2>4, <2>1
  <2>5. ASSUME \A l \in j + 1 .. k : p \notin log'[l].gone
        PROVE  Stays(j + 1, k + 1)
    BY <2>2, <2>3, <2>5
  <2>. QED
    BY <2>4, <2>5
<1>4. \A j \in 1 .. k : (log'[j].new /\ p \in RangeOf(log'[j].pids)) <=> Learns(j + 1)
  BY DEF Reports
<1>5. /\ \A j \in 1 .. k : j + 1 \in 1 .. k + 1 /\ j \in 0 .. k
      /\ \A j \in 1 .. k + 1 : j = 1 \/ (j - 1 \in 1 .. k /\ (j - 1) + 1 = j)
      /\ 0 \in 0 .. k /\ 0 + 1 = 1 /\ 1 \in 1 .. k + 1
  OBVIOUS
<1>6. KnowsAt(p, k)' <=>
         \/ p \in m_appPidPathMap' /\ \A l \in 0 + 1 .. k : p \notin log'[l].gone
         \/ \E j \in 1 .. k : /\ log'[j].new /\ p \in RangeOf(log'[j].pids)
                              /\ \A l \in j + 1 .. k : p \notin log'[l].gone
  BY DEF KnowsAt
<1>7. Learns(1) <=> log[1].new /\ Reports(1, p)
  OBVIOUS
<1>. HIDE DEF Stays, Learns
<1>8. (\A l \in 0 + 1 .. k : p \notin log'[l].gone) <=> Stays(1, k + 1)
  BY <1>3, <1>5
<1>9. (\E j \in 1 .. k : /\ log'[j].new /\ p \in RangeOf(log'[j].pids)
                         /\ \A l \in j + 1 .. k : p \notin log'[l].gone)
        <=> \E j \in 1 .. k : Learns(j + 1) /\ Stays(j + 1, k + 1)
  BY <1>3, <1>4, <1>5
<1>10. (\E j \in 1 .. k + 1 : Learns(j) /\ Stays(j, k + 1))
         <=> (Learns(1) /\ Stays(1, k + 1)) \/ \E j \in 1 .. k : Learns(j + 1) /\ Stays(j + 1, k + 1)
  BY <1>5
<1>11. p \in m_appPidPathMap' <=> Learns(1) \/ (p \in m_appPidPathMap /\ p \notin log[1].gone)
  BY <1>7
<1>12. PICK L : L = \E j \in 1 .. k : Learns(j + 1) /\ Stays(j + 1, k + 1)
  OBVIOUS
<1>13. KnowsAt(p, k)' <=> (p \in m_appPidPathMap' /\ Stays(1, k + 1)) \/ L
  BY <1>6, <1>8, <1>9, <1>12
<1>14. KnowsAt(p, k + 1) <=>
         \/ p \in m_appPidPathMap /\ Stays(0, k + 1)
         \/ Learns(1) /\ Stays(1, k + 1)
         \/ L
  BY <1>1, <1>10, <1>12
<1>. QED
  BY <1>2, <1>11, <1>13, <1>14, Zenon

(* A record reports the processes of its part of the chain, and those of   *)
(* them without flows as gone.                                             *)
IsReport(r, a, b) ==
  /\ ~ r.new
  /\ \A p : p \in RangeOf(r.pids) => \E i \in a .. b : procs[proc_active[i]].pid = p
  /\ \A i \in a .. b : procs[proc_active[i]].pid \in RangeOf(r.pids)
  /\ \A p : p \in r.gone =>
        \E i \in a .. b : procs[proc_active[i]].pid = p /\ procs[proc_active[i]].refcount = 0
  /\ \A i \in a .. b : procs[proc_active[i]].refcount = 0 => procs[proc_active[i]].pid \in r.gone

LEMMA TrafRecordIs ==
  ASSUME Core, NEW a \in Nat \ {0}, NEW b \in Nat, b <= Len(proc_active), NEW r,
         r = TrafRecord(SubSeq(proc_active, a, b))
  PROVE  IsReport(r, a, b)
<1>1. PICK s : s = SubSeq(proc_active, a, b)
  OBVIOUS
<1>2. DOMAIN proc_active = 1 .. Len(proc_active) /\ Len(proc_active) \in Nat
  BY LenProperties DEF Core, ArrayType
<1>3. \A k \in a .. b : proc_active[k] \in Indexes
  BY <1>2, ElementOfSeq DEF Core, ArrayType
<1>4. /\ s \in Seq(Indexes) /\ Len(s) = IF a <= b THEN b - a + 1 ELSE 0
      /\ \A k \in 1 .. b - a + 1 : s[k] = proc_active[a + k - 1]
  BY <1>1, <1>3, SubSeqProperties
<1>5. DOMAIN s = 1 .. Len(s) /\ Len(s) \in Nat
  BY <1>4, LenProperties
<1>6. \A k \in DOMAIN s : a + k - 1 \in a .. b /\ s[k] = proc_active[a + k - 1]
  BY <1>4, <1>5
<1>7. \A i \in a .. b : i - a + 1 \in DOMAIN s /\ s[i - a + 1] = proc_active[i]
  <2>1. \A i \in a .. b : i - a + 1 \in 1 .. b - a + 1 /\ a <= b /\ a + (i - a + 1) - 1 = i
    OBVIOUS
  <2>. QED
    BY <2>1, <1>4, <1>5
<1>8. r = [pids |-> [k \in DOMAIN s |-> procs[s[k]].pid], new |-> FALSE,
           gone |-> { procs[i].pid : i \in { j \in RangeOf(s) : Gone(j) } }]
  BY <1>1 DEF TrafRecord
<1>9. r.pids = [k \in DOMAIN s |-> procs[s[k]].pid] /\ ~ r.new
      /\ r.gone = { procs[i].pid : i \in { j \in RangeOf(s) : Gone(j) } }
  BY <1>8
<1>10. \A p : p \in RangeOf(r.pids) <=> \E k \in DOMAIN s : procs[s[k]].pid = p
  BY <1>9 DEF RangeOf
<1>11. \A p : p \in r.gone <=> \E k \in DOMAIN s : procs[s[k]].pid = p /\ procs[s[k]].refcount = 0
  BY <1>9 DEF RangeOf, Gone
<1>12. ASSUME NEW k \in DOMAIN s
       PROVE  \E i \in a .. b : proc_active[i] = s[k]
  BY <1>6
<1>13. ASSUME NEW i \in a .. b
       PROVE  \E k \in DOMAIN s : s[k] = proc_active[i]
  BY <1>7
<1>14. ASSUME NEW p, p \in RangeOf(r.pids)
       PROVE  \E i \in a .. b : procs[proc_active[i]].pid = p
  <2>1. PICK k \in DOMAIN s : procs[s[k]].pid = p
    BY <1>10, <1>14
  <2>. QED
    BY <2>1, <1>12
<1>15. ASSUME NEW p, NEW i \in a .. b, procs[proc_active[i]].pid = p
       PROVE  p \in RangeOf(r.pids)
  <2>1. PICK k \in DOMAIN s : s[k] = proc_active[i]
    BY <1>13
  <2>. QED
    BY <2>1, <1>10, <1>15
<1>16. ASSUME NEW p, p \in r.gone
       PROVE  \E i \in a .. b : procs[proc_active[i]].pid = p /\ procs[proc_active[i]].refcount = 0
  <2>1. PICK k \in DOMAIN s : procs[s[k]].pid = p /\ procs[s[k]].refcount = 0
    BY <1>11, <1>16
  <2>. QED
    BY <2>1, <1>12
<1>17. ASSUME NEW p, NEW i \in a .. b, procs[proc_active[i]].pid = p, procs[proc_active[i]].refcount = 0
       PROVE  p \in r.gone
  <2>1. PICK k \in DOMAIN s : s[k] = proc_active[i]
    BY <1>13
  <2>. QED
    BY <2>1, <1>11, <1>17
<1>. QED
  BY <1>9, <1>14, <1>15, <1>16, <1>17 DEF IsReport

(* Element i of the chain is reported by record k. *)
InRecord(i, k) == (k - 1) * ChunkMax < i /\ i <= k * ChunkMax

(* Records do not overlap, and leave none of the elements out. *)
LEMMA InOneRecord ==
  ASSUME NEW i \in Nat, NEW k \in Nat, NEW l \in Nat, k < l
  PROVE  ~ (InRecord(i, k) /\ InRecord(i, l))
<1>1. ChunkMax \in Nat \ {0}
  BY StatAssumption DEF StatAssumption
<1>2. PICK d \in Nat : l = k + 1 + d
  <2>1. l - k - 1 \in Nat /\ l = k + 1 + (l - k - 1)
    OBVIOUS
  <2>. QED
    BY <2>1
<1>3. (l - 1) * ChunkMax = k * ChunkMax + d * ChunkMax /\ d * ChunkMax \in Nat
      /\ k * ChunkMax \in Nat
  BY <1>1, <1>2
<1>. QED
  BY <1>3 DEF InRecord

LEMMA InSomeRecord ==
  ASSUME NEW n \in Nat, NEW i \in 1 .. n
  PROVE  \E k \in 1 .. (n + ChunkMax - 1) \div ChunkMax : InRecord(i, k)
<1>1. ChunkMax \in Nat \ {0}
  BY StatAssumption DEF StatAssumption
<1>2. PICK q \in Nat, r \in 0 .. ChunkMax - 1 : i - 1 = q * ChunkMax + r
  <2>1. /\ i - 1 \in Nat
        /\ (i - 1) \div ChunkMax \in Nat /\ (i - 1) % ChunkMax \in 0 .. ChunkMax - 1
        /\ i - 1 = ((i - 1) \div ChunkMax) * ChunkMax + ((i - 1) % ChunkMax)
    BY <1>1
  <2>. QED
    BY <2>1
<1>3. q * ChunkMax \in Nat /\ (q + 1) * ChunkMax = q * ChunkMax + ChunkMax /\ (q + 1) - 1 = q
  BY <1>1
<1>4. InRecord(i, q + 1)
  BY <1>1, <1>2, <1>3 DEF InRecord
<1>5. (q + 1) * ChunkMax <= n + ChunkMax - 1
  BY <1>1, <1>2, <1>3
<1>6. q + 1 <= (n + ChunkMax - 1) \div ChunkMax
  BY <1>1, <1>5
<1>7. q + 1 \in 1 .. (n + ChunkMax - 1) \div ChunkMax
  BY <1>1, <1>6
<1>. QED
  BY <1>4, <1>7

(* r is record k of a flush of the first n elements. *)
IsRecord(r, n, k) ==
  /\ ~ r.new
  /\ \A p : p \in RangeOf(r.pids) =>
        \E i \in 1 .. n : InRecord(i, k) /\ procs[proc_active[i]].pid = p
  /\ \A i \in 1 .. n : InRecord(i, k) => procs[proc_active[i]].pid \in RangeOf(r.pids)
  /\ \A p : p \in r.gone =>
        \E i \in 1 .. n : /\ InRecord(i, k) /\ procs[proc_active[i]].pid = p
                          /\ procs[proc_active[i]].refcount = 0
  /\ \A i \in 1 .. n : InRecord(i, k) /\ procs[proc_active[i]].refcount = 0 =>
        procs[proc_active[i]].pid \in r.gone

LEMMA RecordsAre ==
  ASSUME Core, NEW n \in 1 .. Len(proc_active)
  PROVE  /\ Len(Records(n)) \in Nat
         /\ \A k \in 1 .. Len(Records(n)) : IsRecord(Records(n)[k], n, k)
         /\ \A i \in 1 .. n : \E k \in 1 .. Len(Records(n)) : InRecord(i, k)
<1>1. ChunkMax \in Nat \ {0} /\ n \in Nat
  BY StatAssumption DEF StatAssumption
<1>2. PICK m : m = (n + ChunkMax - 1) \div ChunkMax
  OBVIOUS
<1>3. m \in Nat
  BY <1>1, <1>2
<1>. DEFINE From(k) == (k - 1) * ChunkMax + 1
            To(k) == IF k * ChunkMax < n THEN k * ChunkMax ELSE n
<1>4. Len(proc_active) \in Nat
  BY LenProperties DEF Core, ArrayType
<1>5. ASSUME NEW k \in 1 .. m
      PROVE  /\ From(k) \in Nat \ {0} /\ To(k) \in Nat /\ To(k) <= Len(proc_active)
             /\ \A i : i \in From(k) .. To(k) <=> i \in 1 .. n /\ InRecord(i, k)
  <2>1. k - 1 \in Nat /\ k \in Nat
    BY <1>3
  <2>2. (k - 1) * ChunkMax \in Nat /\ k * ChunkMax \in Nat
    BY <1>1, <2>1
  <2>3. QED
    BY <1>1, <1>4, <2>2 DEF InRecord
<1>6. Records(n) = [k \in 1 .. m |-> TrafRecord(SubSeq(proc_active, From(k), To(k)))]
  BY <1>2 DEF Records
<1>. HIDE DEF From, To
<1>7. Records(n) \in Seq(Record)
  BY RecordsType
<1>8. Len(Records(n)) = m
  BY <1>3, <1>6, <1>7, LenProperties
<1>9. ASSUME NEW k \in 1 .. m
      PROVE  IsReport(Records(n)[k], From(k), To(k))
  <2>1. PICK a, b : a = From(k) /\ b = To(k)
    OBVIOUS
  <2>2. PICK r : r = Records(n)[k]
    OBVIOUS
  <2>3. r = TrafRecord(SubSeq(proc_active, a, b))
    BY <1>6, <2>1, <2>2
  <2>4. a \in Nat \ {0} /\ b \in Nat /\ b <= Len(proc_active)
    BY <1>5, <2>1
  <2>5. IsReport(r, a, b)
    BY <2>3, <2>4, TrafRecordIs
  <2>. QED
    BY <2>1, <2>2, <2>5, Zenon
<1>10. \A i \in 1 .. n : \E k \in 1 .. m : InRecord(i, k)
  BY <1>1, <1>2, InSomeRecord
<1>11. ASSUME NEW k \in 1 .. m
       PROVE  IsRecord(Records(n)[k], n, k)
  <2>1. PICK a, b : a = From(k) /\ b = To(k)
    OBVIOUS
  <2>2. \A i : i \in a .. b <=> i \in 1 .. n /\ InRecord(i, k)
    BY <1>5, <2>1
  <2>3. PICK r : r = Records(n)[k]
    OBVIOUS
  <2>4. IsReport(r, a, b)
    BY <1>9, <2>1, <2>3
  <2>5. IsRecord(r, n, k)
    BY <2>2, <2>4 DEF IsReport, IsRecord
  <2>. QED
    BY <2>3, <2>5
<1>. QED
  BY <1>3, <1>8, <1>10, <1>11

(* A PROC_NEW record is written. *)
LEMMA KnowsNew ==
  ASSUME NEW n \in Nat, \A l \in 1 .. n : log'[l] = log[l], m_appPidPathMap' = m_appPidPathMap,
         NEW q, log'[n + 1].new, log'[n + 1].pids = <<q>>, log'[n + 1].gone = {}, NEW p
  PROVE  KnowsAt(p, n + 1)' <=> KnowsAt(p, n) \/ p = q
<1>. DEFINE Stays(j, k) == \A l \in j + 1 .. k : p \notin log'[l].gone
            Learns(j) == log'[j].new /\ p \in RangeOf(log'[j].pids)
<1>1. KnowsAt(p, n)' <=> KnowsAt(p, n)
  BY KnowsKept
<1>2. \A k \in Nat : KnowsAt(p, k)' <=>
         \/ p \in m_appPidPathMap' /\ Stays(0, k)
         \/ \E j \in 1 .. k : Learns(j) /\ Stays(j, k)
  BY DEF KnowsAt
<1>3. \A j \in 0 .. n : Stays(j, n + 1) <=> Stays(j, n)
  <2>1. \A j \in 0 .. n, l \in Int : l \in j + 1 .. n + 1 <=> l \in j + 1 .. n \/ l = n + 1
    OBVIOUS
  <2>. QED
    BY <2>1
<1>4. Stays(n + 1, n + 1)
  OBVIOUS
<1>5. Learns(n + 1) <=> p = q
  BY DEF RangeOf
<1>6. /\ \A j : j \in 1 .. n + 1 <=> j \in 1 .. n \/ j = n + 1
      /\ 0 \in 0 .. n /\ n + 1 \in Nat /\ \A j \in 1 .. n : j \in 0 .. n
  OBVIOUS
<1>. HIDE DEF Stays, Learns
<1>7. (\E j \in 1 .. n + 1 : Learns(j) /\ Stays(j, n + 1))
        <=> p = q \/ \E j \in 1 .. n : Learns(j) /\ Stays(j, n)
  BY <1>3, <1>4, <1>5, <1>6
<1>8. Stays(0, n + 1) <=> Stays(0, n)
  BY <1>3, <1>6
<1>9. KnowsAt(p, n + 1)' <=> KnowsAt(p, n)' \/ p = q
  BY <1>2, <1>6, <1>7, <1>8
<1>. QED
  BY <1>1, <1>9

(* Traffic records are written. *)
LEMMA KnowsFlushed ==
  ASSUME NEW n \in Nat, \A l \in 1 .. n : log'[l] = log[l], m_appPidPathMap' = m_appPidPathMap,
         NEW j \in Nat, \A l \in n + 1 .. n + j : ~ log'[l].new, NEW p
  PROVE  KnowsAt(p, n + j)' <=> KnowsAt(p, n) /\ \A l \in n + 1 .. n + j : p \notin log'[l].gone
<1>. DEFINE Stays(i, k) == \A l \in i + 1 .. k : p \notin log'[l].gone
            Learns(i) == log'[i].new /\ p \in RangeOf(log'[i].pids)
<1>1. KnowsAt(p, n)' <=> KnowsAt(p, n)
  BY KnowsKept
<1>2. \A k \in Nat : KnowsAt(p, k)' <=>
         \/ p \in m_appPidPathMap' /\ Stays(0, k)
         \/ \E i \in 1 .. k : Learns(i) /\ Stays(i, k)
  BY DEF KnowsAt
<1>3. \A i \in 0 .. n : Stays(i, n + j) <=> Stays(i, n) /\ Stays(n, n + j)
  <2>1. \A i \in 0 .. n, l \in Int : l \in i + 1 .. n + j <=> l \in i + 1 .. n \/ l \in n + 1 .. n + j
    OBVIOUS
  <2>. QED
    BY <2>1
<1>4. \A i \in n + 1 .. n + j : ~ Learns(i)
  OBVIOUS
<1>5. /\ \A i : i \in 1 .. n + j <=> i \in 1 .. n \/ i \in n + 1 .. n + j
      /\ 0 \in 0 .. n /\ n + j \in Nat /\ \A i \in 1 .. n : i \in 0 .. n
  OBVIOUS
<1>6. (\A l \in n + 1 .. n + j : p \notin log'[l].gone) <=> Stays(n, n + j)
  OBVIOUS
<1>. HIDE DEF Stays, Learns
<1>7. (\E i \in 1 .. n + j : Learns(i) /\ Stays(i, n + j))
        <=> Stays(n, n + j) /\ \E i \in 1 .. n : Learns(i) /\ Stays(i, n)
  BY <1>3, <1>4, <1>5
<1>8. Stays(0, n + j) <=> Stays(0, n) /\ Stays(n, n + j)
  BY <1>3, <1>5
<1>9. KnowsAt(p, n + j)' <=> KnowsAt(p, n)' /\ Stays(n, n + j)
  BY <1>2, <1>5, <1>7, <1>8
<1>. QED
  BY <1>1, <1>6, <1>9

(* What the records of one flush say, all together. *)
LEMMA FlushReports ==
  ASSUME Core, NEW n \in 1 .. Len(proc_active)
  PROVE  /\ \A k \in 1 .. Len(Records(n)) :
              /\ ~ Records(n)[k].new
              /\ \A p \in RangeOf(Records(n)[k].pids) : InDriver(p)
              /\ \A p \in Records(n)[k].gone : p \in RangeOf(Records(n)[k].pids)
         /\ \A k, l \in 1 .. Len(Records(n)) :
              l < k => \A p \in RangeOf(Records(n)[k].pids) : p \notin Records(n)[l].gone
         /\ TrafFlush(n) => \A p :
              InDriver(p)' <=> InDriver(p) /\ \A k \in 1 .. Len(Records(n)) : p \notin Records(n)[k].gone
<1>1. PICK R : R = Records(n)
  OBVIOUS
<1>2. /\ Len(R) \in Nat /\ \A k \in 1 .. Len(R) : IsRecord(R[k], n, k)
      /\ \A i \in 1 .. n : \E k \in 1 .. Len(R) : InRecord(i, k)
  BY <1>1, RecordsAre
<1>3. /\ DOMAIN proc_active = 1 .. Len(proc_active) /\ Len(proc_active) \in Nat
      /\ \A i \in 1 .. n : i \in DOMAIN proc_active /\ i \in Nat
  BY LenProperties DEF Core, ArrayType
<1>4. /\ \A i \in 1 .. n : proc_active[i] \in procs_map
      /\ \A i, j \in 1 .. n : proc_active[i] = proc_active[j] => i = j
  BY <1>3 DEF Core, ActiveChain, RangeOf
<1>5. ASSUME NEW k \in 1 .. Len(R)
      PROVE  /\ ~ R[k].new
             /\ \A p \in RangeOf(R[k].pids) : InDriver(p)
             /\ \A p \in R[k].gone : p \in RangeOf(R[k].pids)
  <2>1. PICK r : r = R[k]
    OBVIOUS
  <2>2. IsRecord(r, n, k)
    BY <1>2, <2>1
  <2>3. ~ r.new
    BY <2>2 DEF IsRecord
  <2>4. ASSUME NEW p \in RangeOf(r.pids)
        PROVE  InDriver(p)
    <3>1. PICK i \in 1 .. n : procs[proc_active[i]].pid = p
      BY <2>2 DEF IsRecord
    <3>. QED
      BY <3>1, <1>4 DEF InDriver
  <2>5. ASSUME NEW p \in r.gone
        PROVE  p \in RangeOf(r.pids)
    <3>1. PICK i \in 1 .. n : InRecord(i, k) /\ procs[proc_active[i]].pid = p
      BY <2>2 DEF IsRecord
    <3>. QED
      BY <3>1, <2>2 DEF IsRecord
  <2>. QED
    BY <2>1, <2>3, <2>4, <2>5
<1>6. ASSUME NEW k \in 1 .. Len(R), NEW l \in 1 .. Len(R), l < k, NEW p \in RangeOf(R[k].pids),
             p \in R[l].gone
      PROVE  FALSE
  <2>1. PICK i \in 1 .. n : InRecord(i, k) /\ procs[proc_active[i]].pid = p
    BY <1>2, <1>6 DEF IsRecord
  <2>2. PICK j \in 1 .. n : InRecord(j, l) /\ procs[proc_active[j]].pid = p
    BY <1>2, <1>6 DEF IsRecord
  <2>3. i = j
    BY <2>1, <2>2, <1>4 DEF Core, PidOnce
  <2>. QED
    BY <2>1, <2>2, <2>3, <1>3, <1>6, <1>2, InOneRecord
<1>7. ASSUME TrafFlush(n), NEW p
      PROVE  InDriver(p)' <=> InDriver(p) /\ \A k \in 1 .. Len(R) : p \notin R[k].gone
  <2>1. PICK gone : gone = { i \in { proc_active[k] : k \in 1 .. n } : Gone(i) }
    OBVIOUS
  <2>2. procs_map' = procs_map \ gone
    BY <1>7, <2>1 DEF TrafFlush
  <2>3. \A i \in Indexes : procs'[i].pid = procs[i].pid
    <3>1. PICK F : procs' = [i \in Indexes |-> IF i \in F THEN Restarted(procs[i]) ELSE procs[i]]
      BY <1>7, Zenon DEF TrafFlush
    <3>2. \A i \in Indexes : procs[i] \in Proc
      BY ArrayFacts DEF Core
    <3>3. \A i \in Indexes : Restarted(procs[i]).pid = procs[i].pid
      BY <3>2 DEF Restarted, Proc
    <3>. QED
      BY <3>1, <3>3
  <2>4. \A i : i \in gone <=> \E k \in 1 .. n : proc_active[k] = i /\ procs[i].refcount = 0
    BY <2>1 DEF Gone
  <2>5. procs_map \subseteq Indexes
    BY DEF Core, ArrayType
  <2>6. \A k \in 1 .. Len(R) : \A q \in R[k].gone :
           \E i \in gone : i \in procs_map /\ procs[i].pid = q
    <3>1. TAKE k \in 1 .. Len(R)
    <3>2. PICK r : r = R[k] /\ IsRecord(r, n, k)
      BY <1>2
    <3>3. TAKE q \in R[k].gone
    <3>4. PICK i \in 1 .. n : procs[proc_active[i]].pid = q /\ procs[proc_active[i]].refcount = 0
      BY <3>2 DEF IsRecord
    <3>. QED
      BY <3>4, <1>4, <2>4
  <2>7. \A i \in gone : \E k \in 1 .. Len(R) : procs[i].pid \in R[k].gone
    <3>1. TAKE i \in gone
    <3>2. PICK m \in 1 .. n : proc_active[m] = i /\ procs[i].refcount = 0
      BY <2>4
    <3>3. PICK k \in 1 .. Len(R) : InRecord(m, k)
      BY <1>2
    <3>4. IsRecord(R[k], n, k)
      BY <1>2
    <3>. QED
      BY <3>2, <3>3, <3>4 DEF IsRecord
  <2>8. ASSUME InDriver(p), \A k \in 1 .. Len(R) : p \notin R[k].gone
        PROVE  InDriver(p)'
    BY <2>2, <2>3, <2>5, <2>7, <2>8 DEF InDriver
  <2>9. ASSUME InDriver(p)'
        PROVE  InDriver(p) /\ \A k \in 1 .. Len(R) : p \notin R[k].gone
    <3>1. PICK i \in procs_map : i \notin gone /\ procs[i].pid = p
      BY <2>2, <2>3, <2>5, <2>9 DEF InDriver
    <3>2. \A j \in procs_map : procs[j].pid = p => j = i
      BY <3>1 DEF Core, PidOnce
    <3>. QED
      BY <3>1, <3>2, <2>6 DEF InDriver
  <2>. QED
    BY <2>8, <2>9
<1>. QED
  BY <1>1, <1>5, <1>6, <1>7

-----------------------------------------------------------------------------
(* The steps of the driver. *)

(* The table of the UI and the log stay. *)
LEMMA LogStays ==
  ASSUME UNCHANGED <<m_appPidPathMap, log>>
  PROVE  /\ \A p, k : KnowsAt(p, k)' <=> KnowsAt(p, k)
         /\ \A p : KnowsAt(p, Len(log))' <=> KnowsAt(p, Len(log))
         /\ RecordsFit => RecordsFit'
<1>1. \A p, k : KnowsAt(p, k)' <=> KnowsAt(p, k)
  BY DEF KnowsAt
<1>2. \A p : KnowsAt(p, Len(log))' <=> KnowsAt(p, Len(log))
  BY DEF KnowsAt
<1>3. \A k, p : Reports(k, p)' <=> Reports(k, p)
  BY DEF Reports
<1>4. \A k : Reports(k, log[k].pids[1])' <=> Reports(k, log[k].pids[1])
  BY DEF Reports
<1>5. ASSUME RecordsFit, NEW k \in 1 .. Len(log')
      PROVE  /\ log'[k].new => log'[k].gone = {} /\ Reports(k, log[k].pids[1])'
             /\ \A p : log'[k].new /\ Reports(k, p)' => p = log'[k].pids[1] /\ ~ KnowsAt(p, k - 1)'
             /\ \A p : ~ log'[k].new /\ Reports(k, p)' => KnowsAt(p, k - 1)'
  BY <1>1, <1>3, <1>4, <1>5 DEF RecordsFit
<1>6. RecordsFit => RecordsFit'
  BY <1>5 DEF RecordsFit
<1>. QED
  BY <1>1, <1>2, <1>6

(* So does the table of the driver. *)
LEMMA SessionStays ==
  ASSUME SessionInv, UNCHANGED uiVars, UNCHANGED <<log_stat, log, writing, procs_map>>,
         \A i \in procs_map : procs'[i].pid = procs[i].pid, raced => raced'
  PROVE  SessionInv'
<1>1. \A p : InDriver(p)' <=> InDriver(p)
  BY DEF InDriver
<1>2. RecordsFit => RecordsFit'
  BY LogStays DEF uiVars
<1>3. DebtsFit => DebtsFit'
  <2>1. \A p : KnowsAt(p, Len(log))' <=> KnowsAt(p, Len(log))
    BY LogStays DEF uiVars
  <2>2. \A t, p : Owes(t, p)' <=> Owes(t, p)
    BY DEF Owes
  <2>. QED
    BY <1>1, <2>1, <2>2 DEF DebtsFit
<1>4. NothingOpen => NothingOpen'
  BY DEF NothingOpen, uiVars
<1>. QED
  BY <1>2, <1>3, <1>4 DEF SessionInv, uiVars

(* The driver gets a process, whose PROC_NEW record is owed. *)
LEMMA AssociateNewTables ==
  ASSUME Core, OtherTypes, SessionInv, UNCHANGED uiVars, raced => raced',
         NEW t \in Threads, NEW f \in FlowIds, AssociateNew(t, f)
  PROVE  SessionInv'
<1>1. PICK q : q = PidOf[f] /\ q \in Pids /\ q # NoPid
  BY StatAssumption DEF StatAssumption
<1>2. PICK i \in NewIndexes :
        /\ log_stat /\ Found(q) = {} /\ writing[t] = NoPid
        /\ ProcAdd(i, q, IF IsNewFlow(f) THEN 1 ELSE 0)
        /\ writing' = [writing EXCEPT ![t] = q]
        /\ UNCHANGED <<log_stat, log>>
  BY <1>1 DEF AssociateNew
<1>3. PICK c \in Nat : ProcAdd(i, q, c)
  BY <1>2
<1>4. /\ procs'[i].pid = q
      /\ i \notin Indexes \/ i \in proc_free
      /\ \A j \in Indexes : j # i => procs'[j] = procs[j]
      /\ procs_map' = procs_map \cup {i}
  <2>1. /\ i \notin Indexes \/ i \in proc_free
        /\ procs'[i] = [pid |-> q, active |-> FALSE, refcount |-> c, traf |-> 0]
        /\ \A j \in Indexes : j # i => procs'[j] = procs[j]
    BY <1>1, <1>3, ProcAddArray DEF Core, ArrayType
  <2>2. procs'[i].pid = q
    BY <2>1
  <2>3. procs_map' = procs_map \cup {i}
    BY <1>3 DEF ProcAdd
  <2>. QED
    BY <2>1, <2>2, <2>3, Zenon
<1>5. i \notin procs_map /\ procs_map \subseteq Indexes
  BY <1>4 DEF Core, IndexesSplit, ArrayType
<1>6. \A p : InDriver(p)' <=> InDriver(p) \/ p = q
  BY <1>4, <1>5 DEF InDriver
<1>7. ~ InDriver(q)
  BY <1>2 DEF InDriver, Found
<1>8. \A u \in Threads : \A p : Owes(u, p)' <=> Owes(u, p) \/ (u = t /\ p = q)
  BY <1>1, <1>2 DEF Owes, OtherTypes
<1>9. RecordsFit => RecordsFit'
  BY <1>2, LogStays DEF uiVars
<1>10. \A p : KnowsAt(p, Len(log))' <=> KnowsAt(p, Len(log))
  BY <1>2, LogStays DEF uiVars
<1>11. DebtsFit => DebtsFit'
  BY <1>6, <1>7, <1>8, <1>10, <1>2 DEF DebtsFit, Owes
<1>. QED
  BY <1>2, <1>9, <1>11 DEF SessionInv, uiVars

(* The record is written. *)
LEMMA ProcNewWriteTables ==
  ASSUME Core, OtherTypes, SessionInv, UNCHANGED uiVars, raced => raced',
         NEW t \in Threads, ProcNewWrite(t)
  PROVE  SessionInv'
<1>1. PICK q : q = writing[t] /\ q # NoPid /\ q \in Pids
  BY DEF ProcNewWrite, OtherTypes
<1>2. PICK r : r = [pids |-> <<q>>, new |-> TRUE, gone |-> {}] /\ r \in Record
  <2>1. [pids |-> <<q>>, new |-> TRUE, gone |-> {}] \in Record
    BY <1>1 DEF Record
  <2>. QED
    BY <2>1
<1>3. log \in Seq(Record) /\ log' = Append(log, r) /\ Len(log) \in Nat
  BY <1>1, <1>2, LenProperties DEF ProcNewWrite, OtherTypes
<1>4. PICK n \in Nat : n = Len(log)
  BY <1>3
<1>5. /\ Len(log') = n + 1 /\ \A l \in 1 .. n : log'[l] = log[l]
      /\ log'[n + 1].new /\ log'[n + 1].pids = <<q>> /\ log'[n + 1].gone = {}
  <2>1. log'[n + 1] = r /\ Len(log') = n + 1 /\ \A l \in 1 .. n : log'[l] = log[l]
    BY <1>2, <1>3, <1>4, AppendProperties
  <2>. QED
    BY <2>1, <1>2
<1>6. m_appPidPathMap' = m_appPidPathMap /\ log_stat' = log_stat
  BY DEF uiVars, ProcNewWrite
<1>7. \A p : KnowsAt(p, n + 1)' <=> KnowsAt(p, n) \/ p = q
  BY <1>5, <1>6, KnowsNew
<1>8. \A p, k : k \in 0 .. n => (KnowsAt(p, k)' <=> KnowsAt(p, k))
  BY <1>5, <1>6, KnowsKept
<1>9. \A p : InDriver(p)' <=> InDriver(p)
  BY DEF InDriver, ProcNewWrite, procVars
<1>10. \A u \in Threads : \A p : Owes(u, p)' <=> Owes(u, p) /\ u # t
  BY DEF Owes, OtherTypes, ProcNewWrite
<1>11. Owes(t, q) /\ ~ NothingOpen
  BY <1>1 DEF Owes, NothingOpen
<1>12. ASSUME RecordsFit, DebtsFit
       PROVE  RecordsFit'
  <2>1. ~ KnowsAt(q, n)
    BY <1>4, <1>11, <1>12 DEF DebtsFit
  <2>2. \A k \in 1 .. n : \A p : Reports(k, p)' <=> Reports(k, p)
    BY <1>5 DEF Reports
  <2>3. \A p : Reports(n + 1, p)' <=> p = q
    BY <1>5 DEF Reports, RangeOf
  <2>4. \A k \in 1 .. n : k - 1 \in 0 .. n
    OBVIOUS
  <2>5. ASSUME NEW k \in 1 .. n
        PROVE  /\ log'[k].new => log'[k].gone = {} /\ Reports(k, log[k].pids[1])'
               /\ \A p : log'[k].new /\ Reports(k, p)' => p = log'[k].pids[1] /\ ~ KnowsAt(p, k - 1)'
               /\ \A p : ~ log'[k].new /\ Reports(k, p)' => KnowsAt(p, k - 1)'
    BY <1>4, <1>5, <1>8, <1>12, <2>2, <2>4 DEF RecordsFit
  <2>6. /\ log'[n + 1].gone = {} /\ Reports(n + 1, q)' /\ log'[n + 1].pids[1] = q
        /\ \A p : Reports(n + 1, p)' => p = q /\ ~ KnowsAt(p, (n + 1) - 1)'
    BY <1>5, <1>8, <2>1, <2>3
  <2>7. \A k \in 1 .. Len(log') : k \in 1 .. n \/ k = n + 1
    BY <1>5
  <2>. QED
    BY <1>5, <2>5, <2>6, <2>7 DEF RecordsFit, Reports
<1>13. ASSUME DebtsFit
       PROVE  DebtsFit'
  <2>1. \A p : KnowsAt(p, Len(log))' <=> KnowsAt(p, n) \/ p = q
    BY <1>5, <1>7
  <2>2. /\ \A u \in Threads : \A p : Owes(u, p) => ~ KnowsAt(p, n)
        /\ \A u, v \in Threads : \A p : Owes(u, p) /\ Owes(v, p) => u = v
        /\ \A p : InDriver(p) <=> KnowsAt(p, n) \/ \E u \in Threads : Owes(u, p)
    BY <1>4, <1>13 DEF DebtsFit
  <2>3. \A p : Owes(t, p) <=> p = q
    BY <1>1 DEF Owes
  <2>4. \A u \in Threads : \A p : Owes(u, p)' => ~ KnowsAt(p, Len(log))'
    BY <1>10, <1>11, <2>1, <2>2
  <2>5. \A u, v \in Threads : \A p : Owes(u, p)' /\ Owes(v, p)' => u = v
    BY <1>10, <2>2
  <2>6. ASSUME NEW p
        PROVE  InDriver(p)' <=> KnowsAt(p, Len(log))' \/ \E u \in Threads : Owes(u, p)'
    BY <1>9, <1>10, <2>1, <2>2, <2>3
  <2>. QED
    BY <2>4, <2>5, <2>6 DEF DebtsFit
<1>. QED
  BY <1>6, <1>11, <1>12, <1>13 DEF SessionInv, uiVars

(* The timer writes traffic records, none about an owed process unless it races. *)
LEMMA TrafFlushTables ==
  ASSUME Core, OtherTypes, SessionInv, UNCHANGED uiVars, raced' = (raced \/ Races),
         NEW m \in 1 .. Len(proc_active), TrafFlush(m)
  PROVE  SessionInv'
<1>1. PICK R : R = Records(m)
  OBVIOUS
<1>2. PICK n, c : n = Len(log) /\ c = Len(R)
  OBVIOUS
<1>3. /\ n \in Nat /\ c \in Nat /\ Len(log') = n + c
      /\ \A l \in 1 .. n : log'[l] = log[l]
      /\ \A k \in 1 .. c : log'[n + k] = R[k]
  <2>1. log \in Seq(Record) /\ R \in Seq(Record) /\ log' = log \o R
    BY <1>1, RecordsType DEF OtherTypes, TrafFlush
  <2>2. /\ n \in Nat /\ c \in Nat /\ Len(log') = n + c
        /\ \A l \in 1 .. n + c : log'[l] = IF l <= n THEN log[l] ELSE R[l - n]
    BY <1>2, <2>1, LenProperties, ConcatProperties
  <2>3. \A k \in 1 .. c : n + k \in 1 .. n + c /\ ~ (n + k <= n) /\ (n + k) - n = k
    BY <2>2
  <2>. QED
    BY <2>2, <2>3
<1>4. /\ m_appPidPathMap' = m_appPidPathMap
      /\ UNCHANGED <<log_stat, writing, logStat, switching, mismatch, repeated>>
  BY DEF uiVars, TrafFlush
<1>5. /\ \A k \in 1 .. c : /\ ~ R[k].new
                           /\ \A p \in RangeOf(R[k].pids) : InDriver(p)
                           /\ \A p \in R[k].gone : p \in RangeOf(R[k].pids)
      /\ \A k, l \in 1 .. c : l < k => \A p \in RangeOf(R[k].pids) : p \notin R[l].gone
      /\ \A p : InDriver(p)' <=> InDriver(p) /\ \A k \in 1 .. c : p \notin R[k].gone
  BY <1>1, <1>2, FlushReports
<1>6. \A l \in n + 1 .. n + c : l - n \in 1 .. c /\ n + (l - n) = l /\ log'[l] = R[l - n]
  <2>1. \A l \in n + 1 .. n + c : l - n \in 1 .. c /\ n + (l - n) = l
    BY <1>3
  <2>. QED
    BY <2>1, <1>3
<1>7. \A p, k : k \in 0 .. n => (KnowsAt(p, k)' <=> KnowsAt(p, k))
  BY <1>3, <1>4, KnowsKept
<1>8. ASSUME NEW j \in 0 .. c, NEW p
      PROVE  KnowsAt(p, n + j)' <=> KnowsAt(p, n) /\ \A k \in 1 .. j : p \notin R[k].gone
  <2>1. j \in Nat /\ \A l \in n + 1 .. n + j : l \in n + 1 .. n + c /\ l - n \in 1 .. j
    BY <1>3
  <2>2. \A l \in n + 1 .. n + j : ~ log'[l].new
    BY <2>1, <1>5, <1>6
  <2>3. KnowsAt(p, n + j)' <=> KnowsAt(p, n) /\ \A l \in n + 1 .. n + j : p \notin log'[l].gone
    BY <1>3, <1>4, <2>1, <2>2, KnowsFlushed
  <2>4. \A k \in 1 .. j : n + k \in n + 1 .. n + j /\ k \in 1 .. c
    BY <1>3
  <2>. QED
    BY <2>1, <2>3, <2>4, <1>3, <1>6
<1>9. log_stat
  <2>1. m \in DOMAIN proc_active
    BY LenProperties DEF Core, ArrayType
  <2>. QED
    BY <2>1 DEF Core, ActiveChain, RangeOf, OffIsEmpty
<1>10. ASSUME ~ raced', NEW k \in 1 .. c, NEW t \in Threads, NEW p, Owes(t, p)
       PROVE  p \notin RangeOf(R[k].pids)
  <2>1. Len(log') > Len(log) /\ Len(log') = n + c /\ c \in 1 .. c /\ Len(log') \in n + 1 .. n + c
    BY <1>2, <1>3
  <2>2. ~ log'[Len(log')].new
    BY <2>1, <1>3, <1>5
  <2>3. n + k \in Len(log) + 1 .. Len(log') /\ log'[n + k] = R[k]
    BY <1>2, <1>3
  <2>. QED
    BY <1>10, <2>1, <2>2, <2>3 DEF Races, Owes
<1>11. ASSUME ~ raced', RecordsFit, DebtsFit
       PROVE  RecordsFit'
  <2>1. \A k \in 1 .. n : k - 1 \in 0 .. n
    BY <1>3
  <2>2. \A k \in 1 .. n : \A p : Reports(k, p)' <=> Reports(k, p)
    BY <1>3 DEF Reports
  <2>3. ASSUME NEW k \in 1 .. n
        PROVE  /\ log'[k].new => log'[k].gone = {} /\ Reports(k, log[k].pids[1])'
               /\ \A p : log'[k].new /\ Reports(k, p)' => p = log'[k].pids[1] /\ ~ KnowsAt(p, k - 1)'
               /\ \A p : ~ log'[k].new /\ Reports(k, p)' => KnowsAt(p, k - 1)'
    BY <1>2, <1>3, <1>7, <1>11, <2>1, <2>2, SMTT(60) DEF RecordsFit
  <2>4. ASSUME NEW k \in 1 .. c
        PROVE  /\ ~ log'[n + k].new
               /\ \A p : Reports(n + k, p)' => KnowsAt(p, (n + k) - 1)'
    <3>1. SUFFICES ASSUME NEW p \in RangeOf(R[k].pids)
                   PROVE  KnowsAt(p, (n + k) - 1)'
      BY <1>3, <1>5 DEF Reports
    <3>2. InDriver(p) /\ \A t \in Threads : ~ Owes(t, p)
      BY <1>5, <1>10, <1>11
    <3>3. KnowsAt(p, n)
      BY <3>2, <1>2, <1>11 DEF DebtsFit
    <3>4. /\ k - 1 \in 0 .. c /\ n + (k - 1) = (n + k) - 1
          /\ \A l \in 1 .. k - 1 : l \in 1 .. c /\ l < k
      <4>1. k \in Nat /\ k >= 1 /\ k <= c /\ n \in Nat /\ c \in Nat
        BY <1>3
      <4>. QED
        BY <4>1
    <3>5. \A l \in 1 .. k - 1 : p \notin R[l].gone
      BY <3>4, <1>5
    <3>6. KnowsAt(p, n + (k - 1))'
      BY <3>3, <3>4, <3>5, <1>8
    <3>. QED
      BY <3>4, <3>6
  <2>5. \A k \in 1 .. Len(log') : k \in 1 .. n \/ (k - n \in 1 .. c /\ n + (k - n) = k)
    BY <1>3
  <2>. QED
    BY <1>3, <2>3, <2>4, <2>5 DEF RecordsFit, Reports
<1>12. ASSUME ~ raced', DebtsFit
       PROVE  DebtsFit'
  <2>1. \A p : KnowsAt(p, Len(log))' <=> KnowsAt(p, n) /\ \A k \in 1 .. c : p \notin R[k].gone
    <3>1. c \in 0 .. c /\ Len(log') = n + c
      BY <1>3
    <3>2. \A p : KnowsAt(p, n + c)' <=> KnowsAt(p, n) /\ \A k \in 1 .. c : p \notin R[k].gone
      BY <3>1, <1>8
    <3>3. TAKE p
    <3>4. KnowsAt(p, Len(log))' <=> KnowsAt(p, n + c)'
      BY <3>1
    <3>. QED
      BY <3>2, <3>4
  <2>2. \A t \in Threads : \A p : Owes(t, p)' <=> Owes(t, p)
    BY <1>4 DEF Owes
  <2>3. \A t \in Threads : \A p : Owes(t, p) => \A k \in 1 .. c : p \notin R[k].gone
    BY <1>5, <1>10, <1>12
  <2>4. /\ \A u \in Threads : \A p : Owes(u, p) => ~ KnowsAt(p, n)
        /\ \A u, v \in Threads : \A p : Owes(u, p) /\ Owes(v, p) => u = v
        /\ \A p : InDriver(p) <=> KnowsAt(p, n) \/ \E u \in Threads : Owes(u, p)
    BY <1>2, <1>12 DEF DebtsFit
  <2>5. ASSUME NEW p
        PROVE  InDriver(p)' <=> KnowsAt(p, Len(log))' \/ \E u \in Threads : Owes(u, p)'
    BY <1>5, <2>1, <2>2, <2>3, <2>4
  <2>. QED
    BY <2>1, <2>2, <2>4, <2>5 DEF DebtsFit
<1>. QED
  BY <1>4, <1>9, <1>11, <1>12 DEF SessionInv

(* fort_stat_update *)
LEMMA BeginSwitchTables ==
  ASSUME Core, OtherTypes, SessionInv, NEW on \in BOOLEAN, BeginSwitch(on),
         raced' = (raced \/ Races)
  PROVE  SessionInv'
<1>1. /\ ~ switching /\ switching' /\ log_stat' = on /\ log_stat \in BOOLEAN
      /\ UNCHANGED <<m_appPidPathMap, logStat, mismatch, repeated, writing, log>>
  BY DEF BeginSwitch, StatUpdate, Core
<1>2. CASE log_stat /\ ~ on
  <2>1. ~ raced' => log = <<>> /\ \A t \in Threads : writing[t] = NoPid
    BY <1>1, <1>2 DEF Races
  <2>2. procs_map' = {}
    BY <1>2 DEF BeginSwitch, StatUpdate, StatClear
  <2>3. ~ raced' => NothingOpen'
    BY <1>1, <2>1, <2>2 DEF NothingOpen
  <2>. QED
    BY <1>1, <1>2, <2>3 DEF SessionInv
<1>3. CASE ~ (log_stat /\ ~ on)
  <2>1. procs' = procs /\ procs_map' = procs_map
    BY <1>3 DEF BeginSwitch, StatUpdate, procVars
  <2>2. \A p : InDriver(p)' <=> InDriver(p)
    BY <2>1 DEF InDriver
  <2>3. CASE log_stat
    <3>1. RecordsFit => RecordsFit'
      BY <1>1, LogStays
    <3>2. \A p : KnowsAt(p, Len(log))' <=> KnowsAt(p, Len(log))
      BY <1>1, LogStays
    <3>3. \A t, p : Owes(t, p)' <=> Owes(t, p)
      BY <1>1 DEF Owes
    <3>4. DebtsFit => DebtsFit'
      BY <2>2, <3>2, <3>3 DEF DebtsFit
    <3>. QED
      BY <1>1, <1>3, <2>3, <3>1, <3>4 DEF SessionInv
  <2>4. CASE ~ log_stat
    <3>1. NothingOpen => NothingOpen'
      BY <1>1, <2>1 DEF NothingOpen
    <3>2. ASSUME NothingOpen
          PROVE  RecordsFit' /\ DebtsFit'
      <4>1. log' = <<>> /\ procs_map' = {} /\ m_appPidPathMap' = {}
            /\ \A t \in Threads : writing'[t] = NoPid
        BY <1>1, <2>1, <3>2 DEF NothingOpen
      <4>2. Len(log') = 0
        BY <4>1
      <4>3. \A p : ~ KnowsAt(p, Len(log))'
        BY <4>1, <4>2 DEF KnowsAt
      <4>4. \A p : ~ InDriver(p)'
        BY <4>1 DEF InDriver
      <4>5. \A t \in Threads : \A p : ~ Owes(t, p)'
        BY <4>1 DEF Owes
      <4>. QED
        BY <4>2, <4>3, <4>4, <4>5 DEF RecordsFit, DebtsFit
    <3>. QED
      BY <1>1, <2>4, <3>1, <3>2 DEF SessionInv
  <2>. QED
    BY <2>3, <2>4
<1>. QED
  BY <1>2, <1>3

-----------------------------------------------------------------------------
(* The steps of the UI. *)

(* The UI follows a switch. *)
LEMMA EndSwitchTables ==
  ASSUME Core, SessionInv, EndSwitch, UNCHANGED raced
  PROVE  SessionInv'
<1>1. /\ ~ switching' /\ logStat' = log_stat /\ m_appPidPathMap' = IF log_stat THEN m_appPidPathMap ELSE {}
      /\ UNCHANGED <<log_stat, procs, procs_map, writing, log, mismatch, repeated, raced>>
      /\ log_stat \in BOOLEAN
  BY DEF EndSwitch, SetupByConf, vars, procVars, Core
<1>2. CASE log_stat
  <2>1. RecordsFit => RecordsFit'
    BY <1>1, <1>2, LogStays
  <2>2. \A p : KnowsAt(p, Len(log))' <=> KnowsAt(p, Len(log))
    BY <1>1, <1>2, LogStays
  <2>3. \A t, p : Owes(t, p)' <=> Owes(t, p)
    BY <1>1 DEF Owes
  <2>4. \A p : InDriver(p)' <=> InDriver(p)
    BY <1>1 DEF InDriver
  <2>5. DebtsFit => DebtsFit'
    BY <2>2, <2>3, <2>4 DEF DebtsFit
  <2>. QED
    BY <1>1, <1>2, <2>1, <2>5 DEF SessionInv
<1>3. CASE ~ log_stat
  <2>1. NothingOpen => NothingOpen'
    BY <1>1, <1>3 DEF NothingOpen
  <2>. QED
    BY <1>1, <1>3, <2>1 DEF SessionInv
<1>. QED
  BY <1>2, <1>3

(* The UI reads the oldest record. *)
LEMMA ReadRecordTables ==
  ASSUME Core, OtherTypes, SessionInv, ReadRecord
  PROVE  SessionInv'
<1>1. /\ log # <<>> /\ log' = Tail(log) /\ ~ switching /\ log_stat \in BOOLEAN
      /\ UNCHANGED <<log_stat, procs, procs_map, writing, logStat, switching, raced>>
  BY DEF ReadRecord, LogRead, procVars, Core
<1>2. PICK n \in Nat : Len(log) = n + 1
  <2>1. log \in Seq(Record) /\ Len(log) \in Nat
    BY LenProperties DEF OtherTypes
  <2>2. Len(log) # 0
    BY <1>1, <2>1, EmptySeq
  <2>3. Len(log) - 1 \in Nat /\ Len(log) = (Len(log) - 1) + 1
    BY <2>1, <2>2
  <2>. QED
    BY <2>3
<1>3. /\ Len(log') = n /\ \A l \in 1 .. n : log'[l] = log[l + 1]
      /\ Head(log) = log[1]
  BY <1>1, <1>2, HeadTailProperties DEF OtherTypes
<1>4. SUFFICES ASSUME ~ raced PROVE SessionInv'
  BY <1>1 DEF SessionInv
<1>5. /\ log_stat /\ logStat /\ RecordsFit /\ DebtsFit /\ ~ mismatch /\ ~ repeated
  BY <1>1, <1>4 DEF SessionInv, NothingOpen
<1>6. 1 \in 1 .. Len(log)
  BY <1>2
<1>7. /\ \A p : p \in m_appPidPathMap' <=>
                  (log[1].new /\ Reports(1, p)) \/ (p \in m_appPidPathMap /\ p \notin log[1].gone)
      /\ ~ mismatch' /\ ~ repeated'
  <2>1. \A p : KnowsAt(p, 1 - 1) <=> p \in m_appPidPathMap
    BY KnowsFirst
  <2>2. CASE log[1].new
    <3>1. m_appPidPathMap' = m_appPidPathMap \cup {log[1].pids[1]}
          /\ repeated' = (repeated \/ log[1].pids[1] \in m_appPidPathMap) /\ mismatch' = mismatch
      BY <1>3, <2>2 DEF ReadRecord, LogProcNew
    <3>2. /\ log[1].gone = {} /\ Reports(1, log[1].pids[1])
          /\ \A p : Reports(1, p) => p = log[1].pids[1] /\ ~ KnowsAt(p, 1 - 1)
      BY <1>5, <1>6, <2>2 DEF RecordsFit
    <3>. QED
      BY <1>5, <2>1, <2>2, <3>1, <3>2
  <2>3. CASE ~ log[1].new
    <3>1. mismatch' = (mismatch \/ ~ (RangeOf(log[1].pids) \subseteq m_appPidPathMap))
          /\ m_appPidPathMap' = m_appPidPathMap \ log[1].gone /\ repeated' = repeated
      BY <1>3, <1>5, <2>3 DEF ReadRecord, LogStatTraf
    <3>2. \A p : Reports(1, p) => KnowsAt(p, 1 - 1)
      BY <1>5, <1>6, <2>3 DEF RecordsFit
    <3>. QED
      BY <1>5, <2>1, <2>3, <3>1, <3>2 DEF Reports
  <2>. QED
    BY <2>2, <2>3
<1>8. ASSUME NEW p, NEW k \in 0 .. n
      PROVE  KnowsAt(p, k)' <=> KnowsAt(p, k + 1)
  BY <1>3, <1>7, KnowsRead
<1>9. RecordsFit'
  <2>1. ASSUME NEW k \in 1 .. n
        PROVE  /\ k + 1 \in 1 .. Len(log) /\ k - 1 \in 0 .. n /\ (k + 1) - 1 = (k - 1) + 1
               /\ log'[k] = log[k + 1]
    BY <1>2, <1>3
  <2>2. \A k \in 1 .. n : \A p : Reports(k, p)' <=> Reports(k + 1, p)
    BY <2>1 DEF Reports
  <2>3. ASSUME NEW k \in 1 .. n
        PROVE  /\ log'[k].new => log'[k].gone = {} /\ log'[k].pids[1] \in RangeOf(log'[k].pids)
               /\ \A p : log'[k].new /\ Reports(k, p)' => p = log'[k].pids[1] /\ ~ KnowsAt(p, k - 1)'
               /\ \A p : ~ log'[k].new /\ Reports(k, p)' => KnowsAt(p, k - 1)'
    <3>1. k + 1 \in 1 .. Len(log)
      BY <2>1
    <3>2. /\ log[k + 1].new => log[k + 1].gone = {} /\ Reports(k + 1, log[k + 1].pids[1])
          /\ \A p : log[k + 1].new /\ Reports(k + 1, p) =>
                      p = log[k + 1].pids[1] /\ ~ KnowsAt(p, (k + 1) - 1)
          /\ \A p : ~ log[k + 1].new /\ Reports(k + 1, p) => KnowsAt(p, (k + 1) - 1)
      BY <3>1, <1>5 DEF RecordsFit
    <3>3. \A p : KnowsAt(p, k - 1)' <=> KnowsAt(p, (k + 1) - 1)
      BY <1>8, <2>1
    <3>. QED
      BY <2>1, <2>2, <3>2, <3>3 DEF Reports
  <2>. QED
    BY <1>3, <2>3 DEF RecordsFit, Reports
<1>10. DebtsFit'
  <2>1. n \in 0 .. n /\ Len(log') = n
    BY <1>3
  <2>2. ASSUME NEW p
        PROVE  KnowsAt(p, Len(log))' <=> KnowsAt(p, Len(log))
    <3>1. KnowsAt(p, n)' <=> KnowsAt(p, n + 1)
      BY <2>1, <1>8
    <3>2. KnowsAt(p, Len(log))' <=> KnowsAt(p, n)'
      BY <2>1
    <3>. QED
      BY <1>2, <3>1, <3>2
  <2>3. \A t, p : Owes(t, p)' <=> Owes(t, p)
    BY <1>1 DEF Owes
  <2>4. \A p : InDriver(p)' <=> InDriver(p)
    BY <1>1 DEF InDriver
  <2>. QED
    BY <1>5, <2>2, <2>3, <2>4 DEF DebtsFit
<1>. QED
  BY <1>1, <1>5, <1>7, <1>9, <1>10 DEF SessionInv

-----------------------------------------------------------------------------
(* Every step. *)

(* The session does to the driver's statistics what their module allows:   *)
(* callbacks and timer at any time, a switch only from updateDriverConf.   *)
LEMMA SessionStep ==
  ASSUME [SessionNext]_sessionVars
  PROVE  [Next]_vars
<1>1. CASE Work
  BY <1>1 DEF Next
<1>2. ASSUME NEW on \in BOOLEAN, BeginSwitch(on)
      PROVE  Next
  BY <1>2 DEF BeginSwitch, Next
<1>3. CASE EndSwitch
  BY <1>3 DEF EndSwitch
<1>4. CASE ReadRecord
  BY <1>4 DEF ReadRecord, Next
<1>5. CASE UNCHANGED sessionVars
  BY <1>5 DEF sessionVars
<1>. QED
  BY <1>1, <1>2, <1>3, <1>4, <1>5 DEF SessionNext

(* A flow counts its bytes on a process, or leaves it. *)
LEMMA PidKept ==
  ASSUME NEW s, NEW i, NEW x, NEW b, \A j \in DOMAIN s : s[j] \in Proc, NEW j \in DOMAIN s
  PROVE  /\ [s EXCEPT ![i].traf = x, ![i].active = b][j].pid = s[j].pid
         /\ [s EXCEPT ![i].refcount = x, ![i].active = b][j].pid = s[j].pid
<1>1. PICK r : r = s[j] /\ r \in Proc
  OBVIOUS
<1>2. PICK y, z : y = [r EXCEPT !.traf = x] /\ z = [r EXCEPT !.refcount = x]
  OBVIOUS
<1>3. "pid" \in DOMAIN y /\ y.pid = r.pid /\ "pid" \in DOMAIN z /\ z.pid = r.pid
  BY <1>1, <1>2 DEF Proc
<1>4. [y EXCEPT !.active = b].pid = r.pid /\ [z EXCEPT !.active = b].pid = r.pid
  BY <1>3
<1>5. CASE j = i
  BY <1>1, <1>2, <1>4, <1>5
<1>6. CASE j # i
  BY <1>1, <1>6
<1>. QED
  BY <1>5, <1>6

LEMMA WorkTables ==
  ASSUME Core, OtherTypes, SessionInv, Work, UNCHANGED uiVars, raced' = (raced \/ Races)
  PROVE  SessionInv'
<1>1. \A i \in Indexes : procs[i] \in Proc
  BY ArrayFacts DEF Core
<1>2. procs_map \subseteq Indexes
  BY DEF Core, ArrayType
<1>3. ASSUME NEW t \in Threads, NEW f \in FlowIds, AssociateNew(t, f)
      PROVE  SessionInv'
  BY <1>3, AssociateNewTables
<1>4. ASSUME NEW f \in FlowIds, NEW reauth \in BOOLEAN, AssociateOld(f, reauth)
      PROVE  SessionInv'
  <2>1. /\ UNCHANGED <<log_stat, log, writing, procs_map>>
        /\ \A j \in Indexes : procs'[j].pid = procs[j].pid
    BY <1>1, <1>4 DEF AssociateOld, Proc
  <2>. QED
    BY <1>2, <2>1, SessionStays
<1>5. ASSUME NEW t \in Threads, ProcNewWrite(t)
      PROVE  SessionInv'
  BY <1>5, ProcNewWriteTables
<1>6. ASSUME NEW f \in FlowIds, NEW len \in Lens, FlowClassify(f, len)
      PROVE  SessionInv'
  <2>1. /\ UNCHANGED <<log_stat, log, writing, procs_map>>
        /\ \A j \in Indexes : procs'[j].pid = procs[j].pid
    <3>1. PICK i, x, b : procs' = [procs EXCEPT ![i].traf = x, ![i].active = b]
      BY <1>6 DEF FlowClassify
    <3>2. \A j \in Indexes : procs'[j].pid = procs[j].pid
      BY <1>1, <3>1, PidKept DEF Indexes
    <3>. QED
      BY <1>6, <3>2 DEF FlowClassify
  <2>. QED
    BY <1>2, <2>1, SessionStays
<1>7. ASSUME NEW f \in FlowIds, FlowDelete(f)
      PROVE  SessionInv'
  <2>1. /\ UNCHANGED <<log_stat, log, writing, procs_map>>
        /\ \A j \in Indexes : procs'[j].pid = procs[j].pid
    <3>1. /\ UNCHANGED <<log_stat, log, writing, procs_map>>
          /\ procs' = procs \/ \E i, x, b : procs' = [procs EXCEPT ![i].refcount = x, ![i].active = b]
      BY <1>7 DEF FlowDelete, procVars
    <3>2. CASE procs' = procs
      BY <3>1, <3>2
    <3>3. CASE \E i, x, b : procs' = [procs EXCEPT ![i].refcount = x, ![i].active = b]
      <4>1. PICK i, x, b : procs' = [procs EXCEPT ![i].refcount = x, ![i].active = b]
        BY <3>3
      <4>2. \A j \in Indexes : procs'[j].pid = procs[j].pid
        BY <1>1, <4>1, PidKept DEF Indexes
      <4>. QED
        BY <3>1, <4>2
    <3>. QED
      BY <3>1, <3>2, <3>3
  <2>. QED
    BY <1>2, <2>1, SessionStays
<1>8. ASSUME NEW n \in 1 .. Len(proc_active), TrafFlush(n)
      PROVE  SessionInv'
  BY <1>8, TrafFlushTables
<1>. QED
  BY <1>3, <1>4, <1>5, <1>6, <1>7, <1>8 DEF Work

(* The invariant of the session is inductive. *)
LEMMA SessionInvStep ==
  ASSUME Core, OtherTypes, SessionInv, [SessionNext]_sessionVars
  PROVE  SessionInv'
<1>1. CASE Work /\ UNCHANGED uiVars /\ raced' = (raced \/ Races)
  BY <1>1, WorkTables
<1>2. ASSUME NEW on \in BOOLEAN, BeginSwitch(on), raced' = (raced \/ Races)
      PROVE  SessionInv'
  BY <1>2, BeginSwitchTables
<1>3. CASE EndSwitch /\ UNCHANGED raced
  BY <1>3, EndSwitchTables
<1>4. CASE ReadRecord
  BY <1>4, ReadRecordTables
<1>5. CASE UNCHANGED sessionVars
  BY <1>5, SessionStays DEF sessionVars, vars, procVars
<1>. QED
  BY <1>1, <1>2, <1>3, <1>4, <1>5 DEF SessionNext

(* The session implements the statistics of the driver: whatever is proved *)
(* of them above holds with a UI that reads the log and switches.          *)
THEOREM SessionIsDriver == SessionSpec => Spec
<1>1. SessionInit => Init
  BY DEF SessionInit
<1>2. [SessionNext]_sessionVars => [Next]_vars
  BY SessionStep
<1>. QED
  BY <1>1, <1>2, PTL DEF SessionSpec, Spec

(* The inductive invariant of the session holds. *)
THEOREM SessionInvariant == SessionSpec => []SessionInv
<1>1. SessionInit => SessionInv
  BY DEF SessionInit, Init, SessionInv, NothingOpen
<1>2. Init => OtherTypes
  BY EmptySeq DEF Init, OtherTypes
<1>3. Core /\ OtherTypes /\ [Next]_vars => OtherTypes'
  BY OtherTypesStep
<1>4. Core /\ OtherTypes /\ SessionInv /\ [SessionNext]_sessionVars => SessionInv'
  BY SessionInvStep
<1>5. SessionSpec => []Core
  BY SessionIsDriver, CoreInvariant, PTL
<1>6. SessionSpec => []OtherTypes
  BY <1>2, <1>3, SessionIsDriver, CoreInvariant, PTL DEF Spec
<1>. QED
  BY <1>1, <1>4, <1>5, <1>6, PTL DEF SessionSpec

(* Driver and UI agree on the processes (StatManager::logProcNew,          *)
(* logStatTraf): unless a record overtook a PROC_NEW record or a switch    *)
(* the log, the UI never meets an unknown process or one it knows as new,  *)
(* and its table is the driver's once the log is read.                     *)
THEOREM TablesStayEqual == SessionSpec => []TablesAgree
<1>1. ASSUME Core, OtherTypes, SessionInv
      PROVE  TablesAgree
  <2>1. SUFFICES ASSUME ~ raced PROVE TablesAgree
    BY DEF TablesAgree
  <2>2. ~ mismatch /\ ~ repeated
    BY <1>1, <2>1 DEF SessionInv
  <2>3. SUFFICES ASSUME ~ switching, logStat
                 PROVE  { p \in Pids : KnowsAt(p, Len(log)) } \cup ({ writing[t] : t \in Threads } \ {NoPid})
                          = { procs[i].pid : i \in procs_map }
    BY <2>2 DEF TablesAgree
  <2>4. DebtsFit
    BY <1>1, <2>1, <2>3 DEF SessionInv
  <2>5. \A p : p \in { procs[i].pid : i \in procs_map } <=> InDriver(p)
    BY DEF InDriver
  <2>6. \A p : p \in { writing[t] : t \in Threads } \ {NoPid} <=> \E t \in Threads : Owes(t, p)
    BY DEF Owes
  <2>7. \A p : InDriver(p) => p \in Pids
    BY <1>1, ArrayFacts DEF InDriver, Core, ArrayType
  <2>. QED
    BY <2>4, <2>5, <2>6, <2>7 DEF DebtsFit
<1>2. SessionSpec => []Core
  BY SessionIsDriver, CoreInvariant, PTL
<1>3. Init => OtherTypes
  BY EmptySeq DEF Init, OtherTypes
<1>4. Core /\ OtherTypes /\ [Next]_vars => OtherTypes'
  BY OtherTypesStep
<1>5. SessionSpec => []OtherTypes
  BY <1>3, <1>4, SessionIsDriver, CoreInvariant, PTL DEF Spec
<1>. QED
  BY <1>1, <1>2, <1>5, SessionInvariant, PTL

-----------------------------------------------------------------------------
(* The tables of the UI. *)

(* A program has a number. *)
IsApp(i, p) == i \in DOMAIN app /\ app[i] = p

TrafficAgrees == \A i \in DOMAIN traffic : IsApp(i, traffic[i])
ConnAgrees == \A i \in DOMAIN conn : IsApp(conn[i].app, conn[i].path)
CacheAgrees == \A p \in DOMAIN m_appPathIdCache : IsApp(m_appPathIdCache[p], p)

AppsAgree ==
  /\ TrafficAgrees /\ ConnAgrees /\ CacheAgrees
  /\ Numbers(DOMAIN app) /\ Numbers(DOMAIN conn)

DbTypes ==
  /\ m_connBlockIdMin \in Nat /\ m_connBlockIdMax \in Nat
  /\ m_rowIdMin \in Nat /\ m_rowIdMax \in Nat
  /\ start \in Nat /\ m_connBlockInc \in 0 .. IncMax - 1
  /\ place \in {"idle", "old", "blocks"} /\ m_connChangedTimer \in BOOLEAN

(* The list has the range of the table, or will be told of it.             *)
ListTold ==
  ~ m_connChangedTimer => m_rowIdMin = m_connBlockIdMin /\ m_rowIdMax = m_connBlockIdMax

(* The rows of conn_block are those from lo to hi; the range counted beside *)
(* them may begin too early, or be lost.                                   *)
RowsAre(lo, hi) ==
  /\ lo \in Nat /\ hi \in Nat /\ 1 <= lo /\ lo <= hi + 1 /\ (lo > hi => lo = 1 /\ hi = 0 /\ conn_block = Empty)
  /\ DOMAIN conn_block = lo .. hi
  /\ m_connBlockIdMax <= hi
  /\ m_connBlockIdMax = 0 => m_connBlockIdMin = 0
  /\ m_connBlockIdMax # 0 => 1 <= m_connBlockIdMin /\ m_connBlockIdMin <= m_connBlockIdMax
  /\ "oneLeft" \notin flaws =>
       m_connBlockIdMax = hi /\ (hi # 0 => m_connBlockIdMin <= lo)
  /\ {"oneLeft", "gone"} \cap flaws = {} /\ hi # 0 => m_connBlockIdMin = lo

(* They are few, once it has been looked whether they are too many.        *)
FewRows(lo, hi) ==
  place = "idle" /\ "oneLeft" \notin flaws =>
    hi - lo + 1 <= KeepCount + m_connBlockInc \/ hi - lo + 1 <= start + m_connBlockInc

BlocksInv == \E lo, hi \in Nat : RowsAre(lo, hi) /\ FewRows(lo, hi)

CutInv ==
  /\ place # "idle" => m_connBlockIdMax # 0
  /\ place = "blocks" => OldCount > 0

(* A row of conn_block is of its own row of conn; but for what the second  *)
(* statement of deleteOldConnBlock is about to delete.                     *)
Left(j) == place = "blocks" => j > OldTo
PairsInv ==
  flaws \subseteq {"oneLeft", "gone"} =>
    /\ { conn_block[j] : j \in { k \in DOMAIN conn_block : Left(k) } } = DOMAIN conn
    /\ \A i, j \in DOMAIN conn_block : conn_block[i] = conn_block[j] => i = j

DbInv == DbTypes /\ ListTold /\ AppsAgree /\ BlocksInv /\ CutInv /\ PairsInv

-----------------------------------------------------------------------------
(* The greatest of numbers, and the number of a new row. *)

LEMMA MinIs ==
  ASSUME NEW S, S \subseteq Int, NEW x \in S, \A y \in S : x <= y
  PROVE  Min(S) = x
<1>1. PICK m : m = Min(S)
  OBVIOUS
<1>2. \E z \in S : \A y \in S : z <= y
  OBVIOUS
<1>3. m \in S /\ \A y \in S : m <= y
  BY <1>1, <1>2, Zenon DEF Min
<1>4. QED
  BY <1>1, <1>3

LEMMA MaxOfTwo ==
  ASSUME NEW a \in Nat, NEW b \in Nat
  PROVE  Max({a, b}) = IF a >= b THEN a ELSE b
BY MaxIs

LEMMA NewNumber ==
  ASSUME NEW t, Numbers(DOMAIN t)
  PROVE  /\ NewId(t) \in Nat /\ NewId(t) \notin DOMAIN t
         /\ Numbers(DOMAIN t \cup {NewId(t)})
<1>1. PICK m \in DOMAIN t \cup {0} : \A i \in DOMAIN t \cup {0} : i <= m
  BY Greatest
<1>2. DOMAIN t \cup {0} \subseteq Nat
  BY DEF Numbers
<1>3. Max(DOMAIN t \cup {0}) = m
  BY <1>1, <1>2, MaxIs
<1>4. NewId(t) = m + 1 /\ m \in Nat
  BY <1>2, <1>3 DEF NewId
<1>5. QED
  BY <1>1, <1>2, <1>4 DEF Numbers

LEMMA Emptied == DOMAIN Empty = {} /\ Numbers({})
BY DEF Empty, Numbers

-----------------------------------------------------------------------------
(* Programs keep their numbers as long as a row has them. *)

LEMMA GotApp ==
  ASSUME AppsAgree, NEW path, NEW n, n = AppOf(path), GetOrCreateAppId(path)
  PROVE  /\ \A i, p : IsApp(i, p) => IsApp(i, p)'
         /\ IsApp(n, path)' /\ CacheAgrees' /\ Numbers(DOMAIN app')
<1>1. /\ m_appPathIdCache' = With(m_appPathIdCache, path, n)
      /\ app' = IF path \in DOMAIN m_appPathIdCache THEN app ELSE With(app, n, path)
  BY DEF GetOrCreateAppId
<1>2. /\ DOMAIN m_appPathIdCache' = DOMAIN m_appPathIdCache \cup {path}
      /\ m_appPathIdCache'[path] = n
      /\ \A p \in DOMAIN m_appPathIdCache \ {path} : m_appPathIdCache'[p] = m_appPathIdCache[p]
  BY <1>1 DEF With
<1>3. CASE path \in DOMAIN m_appPathIdCache
  <2>1. app' = app /\ n = m_appPathIdCache[path]
    BY <1>1, <1>3 DEF AppOf
  <2>2. \A i, p : IsApp(i, p)' <=> IsApp(i, p)
    BY <2>1 DEF IsApp
  <2>3. IsApp(n, path)
    BY <1>3, <2>1 DEF AppsAgree, CacheAgrees
  <2>4. CacheAgrees'
    BY <1>2, <2>2, <2>3 DEF AppsAgree, CacheAgrees
  <2>5. QED
    BY <2>1, <2>2, <2>3, <2>4 DEF AppsAgree
<1>4. CASE path \notin DOMAIN m_appPathIdCache
  <2>1. app' = With(app, n, path)
    BY <1>1, <1>4
  <2>2. (n \in DOMAIN app => app[n] = path) /\ Numbers(DOMAIN app \cup {n})
    <3>1. CASE \E i \in DOMAIN app : app[i] = path
      <4>1. n \in DOMAIN app /\ app[n] = path
        <5>1. n = CHOOSE i \in DOMAIN app : app[i] = path
          BY <1>4, <3>1 DEF AppOf
        <5>2. QED
          BY <3>1, <5>1, Zenon
      <4>2. DOMAIN app \cup {n} = DOMAIN app
        BY <4>1
      <4>3. QED
        BY <4>1, <4>2 DEF AppsAgree
    <3>2. CASE ~ \E i \in DOMAIN app : app[i] = path
      <4>1. n = NewId(app)
        BY <1>4, <3>2 DEF AppOf
      <4>2. Numbers(DOMAIN app)
        BY DEF AppsAgree
      <4>3. QED
        BY <4>1, <4>2, NewNumber
    <3>3. QED
      BY <3>1, <3>2
  <2>3. /\ DOMAIN app' = DOMAIN app \cup {n} /\ app'[n] = path
        /\ \A i \in DOMAIN app : app'[i] = app[i]
    BY <2>1, <2>2 DEF With
  <2>4. \A i, p : IsApp(i, p) => IsApp(i, p)'
    BY <2>3 DEF IsApp
  <2>5. IsApp(n, path)'
    BY <2>3 DEF IsApp
  <2>6. CacheAgrees'
    BY <1>2, <2>4, <2>5 DEF AppsAgree, CacheAgrees
  <2>7. QED
    BY <2>2, <2>3, <2>4, <2>5, <2>6
<1>5. QED
  BY <1>3, <1>4

LEMMA AppsGone ==
  ASSUME AppsAgree, NEW ids, DeleteApps(ids)
  PROVE  /\ \A i, p : IsApp(i, p) /\ i \notin ids => IsApp(i, p)'
         /\ CacheAgrees' /\ Numbers(DOMAIN app')
<1>1. DOMAIN app' = DOMAIN app \ ids /\ \A i \in DOMAIN app \ ids : app'[i] = app[i]
  BY DEF DeleteApps, Without
<1>2. \A i, p : IsApp(i, p) /\ i \notin ids => IsApp(i, p)'
  BY <1>1 DEF IsApp
<1>3. Numbers(DOMAIN app')
  BY <1>1, NumbersLess DEF AppsAgree
<1>4. /\ DOMAIN m_appPathIdCache' = DOMAIN m_appPathIdCache \ { app[i] : i \in ids }
      /\ \A p \in DOMAIN m_appPathIdCache' : m_appPathIdCache'[p] = m_appPathIdCache[p]
  BY DEF DeleteApps, Without
<1>5. ASSUME NEW p \in DOMAIN m_appPathIdCache'
      PROVE  IsApp(m_appPathIdCache[p], p) /\ m_appPathIdCache[p] \notin ids
  <2>1. IsApp(m_appPathIdCache[p], p)
    BY <1>4, <1>5 DEF AppsAgree, CacheAgrees
  <2>2. QED
    BY <1>4, <1>5, <2>1 DEF IsApp
<1>6. CacheAgrees'
  BY <1>2, <1>4, <1>5 DEF CacheAgrees
<1>7. QED
  BY <1>2, <1>3, <1>6

-----------------------------------------------------------------------------
(* The rows of conn_block. *)

(* Deleting the rows up to one, and what is said of the range then.        *)
CutsTo(to) ==
  /\ conn_block' = Without(conn_block, 1 .. to)
  /\ RangeFrom(to)
  /\ flaws' = (flaws \ {"gone"}) \cup { "oneLeft" : i \in {to + 1} \cap {m_connBlockIdMax} }
                                \cup { "gone" : i \in {to + 1} \cap ((1 .. m_connBlockIdMax - 1) \ DOMAIN conn_block) }

LEMMA CutFlaws ==
  ASSUME NEW to \in Nat, CutsTo(to)
  PROVE  /\ "oneLeft" \in flaws' <=> "oneLeft" \in flaws \/ to + 1 = m_connBlockIdMax
         /\ to + 1 \in (1 .. m_connBlockIdMax - 1) \ DOMAIN conn_block => "gone" \in flaws'
         /\ flaws' \subseteq {"oneLeft", "gone"} => flaws \subseteq {"oneLeft", "gone"}
BY DEF CutsTo

LEMMA RowsCut ==
  ASSUME NEW lo \in Nat, NEW hi \in Nat, RowsAre(lo, hi), NEW to \in Nat, CutsTo(to),
         m_connBlockIdMin \in Nat, m_connBlockIdMax \in Nat
  PROVE  /\ m_connBlockIdMin' \in Nat /\ m_connBlockIdMax' \in Nat
         /\ \E l, h \in Nat :
              /\ RowsAre(l, h)'
              /\ h - l <= hi - lo
              /\ h = 0 \/ (h = hi /\ to < l)
         /\ "oneLeft" \notin flaws' => "oneLeft" \notin flaws
<1>1. /\ lo >= 1 /\ lo <= hi + 1 /\ (lo > hi => lo = 1 /\ hi = 0)
      /\ DOMAIN conn_block = lo .. hi /\ m_connBlockIdMax <= hi
      /\ DOMAIN conn_block' = (lo .. hi) \ (1 .. to)
      /\ "oneLeft" \notin flaws => m_connBlockIdMax = hi /\ (hi # 0 => m_connBlockIdMin <= lo)
      /\ {"oneLeft", "gone"} \cap flaws = {} /\ hi # 0 => m_connBlockIdMin = lo
  BY DEF RowsAre, CutsTo, Without
<1>2. /\ "oneLeft" \in flaws' <=> "oneLeft" \in flaws \/ to + 1 = m_connBlockIdMax
      /\ to + 1 \in (1 .. m_connBlockIdMax - 1) \ DOMAIN conn_block => "gone" \in flaws'
  BY CutFlaws
<1>3. CASE /\ to + 1 >= m_connBlockIdMax
           /\ m_connBlockIdMin' = 0 /\ m_connBlockIdMax' = 0
  <2>1. CASE to >= hi
    <3>1. DOMAIN conn_block' = 1 .. 0 /\ conn_block' = Empty
      <4>1. DOMAIN conn_block \ (1 .. to) = {} /\ 1 .. 0 = {}
        BY <1>1, <2>1
      <4>2. QED
        BY <4>1 DEF CutsTo, Without, Empty
    <3>2. RowsAre(1, 0)'
      BY <1>3, <3>1 DEF RowsAre
    <3>3. QED
      BY <1>1, <1>2, <1>3, <3>2
  <2>2. CASE to < hi /\ to >= lo
    <3>1. DOMAIN conn_block' = to + 1 .. hi
      BY <1>1, <2>2
    <3>2. "oneLeft" \in flaws'
      BY <1>1, <1>2, <1>3, <2>2
    <3>3. RowsAre(to + 1, hi)'
      BY <1>3, <2>2, <3>1, <3>2 DEF RowsAre
    <3>4. QED
      BY <1>1, <1>3, <2>2, <3>2, <3>3
  <2>3. CASE to < hi /\ to < lo
    <3>1. DOMAIN conn_block' = lo .. hi
      BY <1>1, <2>3
    <3>2. "oneLeft" \in flaws'
      BY <1>1, <1>2, <1>3, <2>3
    <3>3. RowsAre(lo, hi)'
      BY <1>1, <1>3, <2>3, <3>1, <3>2 DEF RowsAre
    <3>4. QED
      BY <1>1, <1>3, <2>3, <3>2, <3>3
  <2>4. QED
    BY <2>1, <2>2, <2>3
<1>4. CASE /\ to + 1 < m_connBlockIdMax
           /\ m_connBlockIdMin' = to + 1 /\ m_connBlockIdMax' = m_connBlockIdMax
  <2>1. "gone" \notin flaws' => to + 1 \in lo .. hi
    BY <1>1, <1>2, <1>4
  <2>2. CASE to >= lo
    <3>1. DOMAIN conn_block' = to + 1 .. hi
      BY <1>1, <1>4, <2>2
    <3>2. RowsAre(to + 1, hi)'
      BY <1>1, <1>2, <1>4, <2>2, <3>1 DEF RowsAre
    <3>3. QED
      BY <1>1, <1>2, <1>4, <2>2, <3>2
  <2>3. CASE to < lo
    <3>1. DOMAIN conn_block' = lo .. hi
      BY <1>1, <2>3
    <3>2. RowsAre(lo, hi)'
      BY <1>1, <1>2, <1>4, <2>1, <2>3, <3>1 DEF RowsAre
    <3>3. QED
      BY <1>1, <1>2, <1>4, <2>3, <3>2
  <2>4. QED
    BY <2>2, <2>3
<1>5. QED
  BY <1>3, <1>4 DEF CutsTo, RangeFrom

-----------------------------------------------------------------------------
(* The invariant, for each action. *)

LEMMA AppsKept ==
  ASSUME AppsAgree, UNCHANGED <<app, traffic, conn, m_appPathIdCache>>
  PROVE  AppsAgree'
BY DEF AppsAgree, TrafficAgrees, ConnAgrees, CacheAgrees, IsApp

LEMMA BlocksKept ==
  ASSUME BlocksInv, CutInv, PairsInv,
         UNCHANGED <<conn_block, m_connBlockIdMin, m_connBlockIdMax, m_connBlockInc, place, start, flaws>>
  PROVE  /\ BlocksInv' /\ CutInv'
         /\ conn' = conn => PairsInv'
<1>1. BlocksInv'
  BY DEF BlocksInv, RowsAre, FewRows
<1>2. OldCount' = OldCount /\ OldTo' = OldTo
  BY DEF OldCount, OldTo
<1>3. QED
  BY <1>1, <1>2 DEF CutInv, PairsInv, Left

(* A step that writes programs only, and perhaps traffic.                  *)
LEMMA AppStepInv ==
  ASSUME DbInv, AppsAgree',
         UNCHANGED <<conn, conn_block, rangeVars, m_connBlockInc, m_connChangedTimer, listVars,
                     place, start, flaws>>
  PROVE  DbInv'
<1>1. /\ UNCHANGED <<conn, conn_block, m_connBlockIdMin, m_connBlockIdMax, m_connBlockInc,
                     m_connChangedTimer, m_rowIdMin, m_rowIdMax, place, start, flaws>>
      /\ DbTypes /\ ListTold /\ BlocksInv /\ CutInv /\ PairsInv
  BY DEF rangeVars, listVars, DbInv
<1>2. DbTypes' /\ ListTold'
  BY <1>1 DEF DbTypes, ListTold
<1>3. BlocksInv' /\ CutInv' /\ PairsInv'
  BY <1>1, BlocksKept
<1>4. QED
  BY <1>2, <1>3 DEF DbInv

LEMMA LogProcNewAppInv ==
  ASSUME DbInv, NEW path \in Paths, LogProcNewApp(path)
  PROVE  DbInv'
<1>1. PICK n : n = AppOf(path)
  OBVIOUS
<1>2. /\ \A i, p : IsApp(i, p) => IsApp(i, p)'
      /\ CacheAgrees' /\ Numbers(DOMAIN app')
  BY <1>1, GotApp DEF DbInv, LogProcNewApp
<1>3. AppsAgree'
  BY <1>2 DEF LogProcNewApp, DbInv, AppsAgree, TrafficAgrees, ConnAgrees
<1>4. QED
  BY <1>3, AppStepInv DEF LogProcNewApp

LEMMA LogStatTrafAppInv ==
  ASSUME DbInv, NEW path \in Paths, NEW m_isActivePeriod \in BOOLEAN,
         LogStatTrafApp(path, m_isActivePeriod)
  PROVE  DbInv'
<1>1. PICK n : n = AppOf(path)
  OBVIOUS
<1>2. /\ \A i, p : IsApp(i, p) => IsApp(i, p)'
      /\ IsApp(n, path)' /\ CacheAgrees' /\ Numbers(DOMAIN app')
  BY <1>1, GotApp DEF DbInv, LogStatTrafApp
<1>3. traffic' = traffic \/ traffic' = With(traffic, n, path)
  BY <1>1 DEF LogStatTrafApp
<1>4. \A i \in DOMAIN traffic' :
        (i = n /\ traffic'[i] = path) \/ (i \in DOMAIN traffic /\ traffic'[i] = traffic[i])
  BY <1>3 DEF With
<1>5. TrafficAgrees'
  BY <1>2, <1>4 DEF DbInv, AppsAgree, TrafficAgrees
<1>6. AppsAgree'
  BY <1>2, <1>5 DEF LogStatTrafApp, DbInv, AppsAgree, ConnAgrees
<1>7. QED
  BY <1>6, AppStepInv DEF LogStatTrafApp

LEMMA DeleteStatAppInv ==
  ASSUME DbInv, NEW appId, DeleteStatApp(appId)
  PROVE  DbInv'
<1>1. /\ traffic' = Without(traffic, {appId}) /\ conn' = conn
      /\ DeleteApps({appId} \ Used(conn))
  BY DEF DeleteStatApp
<1>2. /\ \A i, p : IsApp(i, p) /\ i \notin {appId} \ Used(conn) => IsApp(i, p)'
      /\ CacheAgrees' /\ Numbers(DOMAIN app')
  BY <1>1, AppsGone DEF DbInv
<1>3. \A i \in DOMAIN traffic' : i # appId /\ i \in DOMAIN traffic /\ traffic'[i] = traffic[i]
  BY <1>1 DEF Without
<1>4. TrafficAgrees'
  BY <1>2, <1>3 DEF DbInv, AppsAgree, TrafficAgrees
<1>5. ConnAgrees'
  BY <1>1, <1>2 DEF DbInv, AppsAgree, ConnAgrees, Used
<1>6. AppsAgree'
  BY <1>1, <1>2, <1>4, <1>5 DEF DbInv, AppsAgree
<1>7. QED
  BY <1>6, AppStepInv DEF DeleteStatApp

LEMMA ClearTrafficInv ==
  ASSUME DbInv, ClearTraffic
  PROVE  DbInv'
<1>1. /\ DOMAIN traffic' = {} /\ DOMAIN m_appPathIdCache' = {} /\ conn' = conn
      /\ app' = Without(app, DOMAIN app \ Used(conn))
  BY Emptied DEF ClearTraffic
<1>2. /\ \A i, p : IsApp(i, p) /\ i \in Used(conn) => IsApp(i, p)'
      /\ DOMAIN app' \subseteq DOMAIN app
  BY <1>1 DEF IsApp, Without
<1>3. TrafficAgrees' /\ CacheAgrees'
  BY <1>1 DEF TrafficAgrees, CacheAgrees
<1>4. ConnAgrees'
  BY <1>1, <1>2 DEF DbInv, AppsAgree, ConnAgrees, Used
<1>5. AppsAgree'
  BY <1>1, <1>2, <1>3, <1>4, NumbersLess DEF DbInv, AppsAgree
<1>6. QED
  BY <1>5, AppStepInv DEF ClearTraffic

LEMMA UpdateRowIdRangeInv ==
  ASSUME DbInv, UpdateRowIdRange
  PROVE  DbInv'
<1>1. /\ UNCHANGED <<app, traffic, conn, conn_block, m_appPathIdCache, m_connBlockIdMin, m_connBlockIdMax,
                     m_connBlockInc, place, start, flaws>>
      /\ m_rowIdMin' = m_connBlockIdMin /\ m_rowIdMax' = m_connBlockIdMax
      /\ m_connChangedTimer' = FALSE
      /\ DbTypes /\ ListTold /\ AppsAgree /\ BlocksInv /\ CutInv /\ PairsInv
  BY DEF UpdateRowIdRange, tableVars, rangeVars, countVars, DbInv
<1>2. DbTypes' /\ ListTold'
  BY <1>1 DEF DbTypes, ListTold
<1>3. AppsAgree' /\ BlocksInv' /\ CutInv' /\ PairsInv'
  BY <1>1, AppsKept, BlocksKept
<1>4. QED
  BY <1>2, <1>3 DEF DbInv

LEMMA NothingOldInv ==
  ASSUME DbInv, NothingOld
  PROVE  DbInv'
<1>1. /\ UNCHANGED <<app, traffic, conn, conn_block, m_appPathIdCache, m_connBlockIdMin, m_connBlockIdMax,
                     m_connBlockInc, m_connChangedTimer, m_rowIdMin, m_rowIdMax, flaws>>
      /\ place = "old" /\ place' = "idle" /\ start' = KeepCount /\ OldCount <= 0
      /\ DbTypes /\ ListTold /\ AppsAgree /\ BlocksInv /\ CutInv /\ PairsInv /\ KeepCount \in Nat
  BY StatDbAssumption DEF NothingOld, tableVars, rangeVars, listVars, DbInv, StatDbAssumption
<1>2. DbTypes' /\ ListTold'
  BY <1>1 DEF DbTypes, ListTold
<1>3. AppsAgree'
  BY <1>1, AppsKept
<1>4. BlocksInv'
  <2>1. PICK lo \in Nat, hi \in Nat : RowsAre(lo, hi)
    BY <1>1 DEF BlocksInv
  <2>2. RowsAre(lo, hi)'
    BY <1>1, <2>1 DEF RowsAre
  <2>3. FewRows(lo, hi)'
    BY <1>1, <2>1 DEF RowsAre, FewRows, OldCount, CutInv, DbTypes
  <2>4. QED
    BY <2>2, <2>3 DEF BlocksInv
<1>5. CutInv' /\ PairsInv'
  BY <1>1 DEF CutInv, PairsInv, Left
<1>6. QED
  BY <1>2, <1>3, <1>4, <1>5 DEF DbInv

LEMMA DeleteOldConnsInv ==
  ASSUME DbInv, DeleteOldConns
  PROVE  DbInv'
<1>1. /\ UNCHANGED <<app, traffic, conn_block, m_appPathIdCache, m_connBlockIdMin, m_connBlockIdMax,
                     m_connBlockInc, m_connChangedTimer, m_rowIdMin, m_rowIdMax, start, flaws>>
      /\ place = "old" /\ place' = "blocks" /\ OldCount > 0
      /\ conn' = Without(conn, ConnsTo(conn_block, OldTo))
      /\ DbTypes /\ ListTold /\ AppsAgree /\ BlocksInv /\ CutInv /\ PairsInv
  BY DEF DeleteOldConns, rangeVars, listVars, countVars, DbInv
<1>2. DbTypes' /\ ListTold'
  BY <1>1 DEF DbTypes, ListTold
<1>3. /\ DOMAIN conn' = DOMAIN conn \ { conn_block[j] : j \in { k \in DOMAIN conn_block : k <= OldTo } }
      /\ \A i \in DOMAIN conn' : conn'[i] = conn[i]
  BY <1>1 DEF Without, ConnsTo
<1>4. AppsAgree'
  <2>1. Numbers(DOMAIN conn')
    BY <1>1, <1>3, NumbersLess DEF AppsAgree
  <2>2. TrafficAgrees' /\ CacheAgrees' /\ ConnAgrees'
    BY <1>1, <1>3 DEF AppsAgree, TrafficAgrees, CacheAgrees, ConnAgrees, IsApp
  <2>3. QED
    BY <1>1, <2>1, <2>2 DEF AppsAgree
<1>5. BlocksInv'
  BY <1>1 DEF BlocksInv, RowsAre, FewRows
<1>6. OldCount' = OldCount /\ OldTo' = OldTo
  BY <1>1 DEF OldCount, OldTo
<1>7. CutInv'
  BY <1>1, <1>6 DEF CutInv
<1>8. PairsInv'
  <2>1. SUFFICES ASSUME flaws \subseteq {"oneLeft", "gone"}
                 PROVE  /\ { conn_block[j] : j \in { k \in DOMAIN conn_block : k > OldTo } } = DOMAIN conn'
                        /\ \A i, j \in DOMAIN conn_block : conn_block[i] = conn_block[j] => i = j
    BY <1>1, <1>6 DEF PairsInv, Left
  <2>2. /\ { conn_block[j] : j \in DOMAIN conn_block } = DOMAIN conn
        /\ \A i, j \in DOMAIN conn_block : conn_block[i] = conn_block[j] => i = j
    BY <1>1, <2>1 DEF PairsInv, Left
  <2>3. OldTo \in Int /\ DOMAIN conn_block \subseteq Int
    BY <1>1, StatDbAssumption DEF DbTypes, BlocksInv, RowsAre, OldTo, OldCount, StatDbAssumption
  <2>4. { conn_block[j] : j \in { k \in DOMAIN conn_block : k > OldTo } } = DOMAIN conn'
    BY <1>3, <2>2, <2>3
  <2>5. QED
    BY <2>2, <2>4
<1>9. QED
  BY <1>2, <1>4, <1>5, <1>7, <1>8 DEF DbInv


(* A row of conn for a program that has its number.                        *)
LEMMA ConnWritten ==
  ASSUME AppsAgree, NEW path, NEW n, NEW c, n = AppOf(path), c = NewId(conn),
         GetOrCreateAppId(path), traffic' = traffic,
         conn' = With(conn, c, [app |-> n, path |-> path])
  PROVE  /\ AppsAgree' /\ c \notin DOMAIN conn
         /\ DOMAIN conn' = DOMAIN conn \cup {c}
<1>1. /\ \A i, p : IsApp(i, p) => IsApp(i, p)'
      /\ IsApp(n, path)' /\ CacheAgrees' /\ Numbers(DOMAIN app')
  BY GotApp
<1>2. c \notin DOMAIN conn /\ Numbers(DOMAIN conn \cup {c})
  BY NewNumber DEF AppsAgree
<1>3. /\ DOMAIN conn' = DOMAIN conn \cup {c}
      /\ conn'[c].app = n /\ conn'[c].path = path
      /\ \A i \in DOMAIN conn : conn'[i] = conn[i]
  BY <1>2 DEF With
<1>4. ConnAgrees'
  BY <1>1, <1>3 DEF AppsAgree, ConnAgrees
<1>5. TrafficAgrees'
  BY <1>1 DEF AppsAgree, TrafficAgrees
<1>6. QED
  BY <1>1, <1>2, <1>3, <1>4, <1>5 DEF AppsAgree

LEMMA LogBlockedIpFailsInv ==
  ASSUME DbInv, NEW path \in Paths, LogBlockedIpFails(path)
  PROVE  DbInv'
<1>1. PICK n : n = AppOf(path)
  OBVIOUS
<1>2. PICK c : c = NewId(conn)
  OBVIOUS
<1>3. /\ UNCHANGED <<conn_block, m_connBlockIdMin, m_connBlockIdMax, m_connBlockInc,
                     m_connChangedTimer, m_rowIdMin, m_rowIdMax, place, start>>
      /\ place = "idle" /\ flaws' = flaws \cup {"failed"}
      /\ DbTypes /\ ListTold /\ AppsAgree /\ BlocksInv /\ CutInv
  BY DEF LogBlockedIpFails, rangeVars, listVars, DbInv
<1>4. AppsAgree'
  BY <1>1, <1>2, <1>3, ConnWritten DEF LogBlockedIpFails
<1>5. DbTypes' /\ ListTold'
  BY <1>3 DEF DbTypes, ListTold
<1>6. BlocksInv'
  BY <1>3 DEF BlocksInv, RowsAre, FewRows
<1>7. CutInv' /\ PairsInv'
  BY <1>3 DEF CutInv, PairsInv
<1>8. QED
  BY <1>4, <1>5, <1>6, <1>7 DEF DbInv

LEMMA LogBlockedIpInv ==
  ASSUME DbInv, NEW path \in Paths, LogBlockedIp(path)
  PROVE  DbInv'
<1>1. PICK n : n = AppOf(path)
  OBVIOUS
<1>2. PICK c : c = NewId(conn)
  OBVIOUS
<1>3. PICK lo \in Nat, hi \in Nat : RowsAre(lo, hi) /\ FewRows(lo, hi)
  BY DEF DbInv, BlocksInv
<1>4. NewId(conn_block) = hi + 1
  <2>1. DOMAIN conn_block = lo .. hi /\ (lo > hi => hi = 0)
    BY <1>3 DEF RowsAre
  <2>2. Max((lo .. hi) \cup {0}) = hi
    <3>1. (lo .. hi) \cup {0} \subseteq Int /\ hi \in (lo .. hi) \cup {0}
      BY <2>1
    <3>2. \A y \in (lo .. hi) \cup {0} : y <= hi
      OBVIOUS
    <3>3. QED
      BY <3>1, <3>2, MaxIs
  <2>3. QED
    BY <2>1, <2>2 DEF NewId
<1>5. /\ UNCHANGED <<m_rowIdMin, m_rowIdMax, start, flaws>>
      /\ place = "idle" /\ m_connChangedTimer' = TRUE
      /\ \A i \in DOMAIN conn_block : conn_block[i] # c
      /\ conn_block' = With(conn_block, hi + 1, c)
      /\ m_connBlockIdMax' = m_connBlockIdMax + 1
      /\ m_connBlockIdMin' = IF m_connBlockIdMax > 0 THEN m_connBlockIdMin ELSE 1
      /\ m_connBlockInc' = (m_connBlockInc + 1) % IncMax
      /\ place' = IF m_connBlockInc' = 0 THEN "old" ELSE "idle"
      /\ DbTypes /\ AppsAgree /\ CutInv /\ PairsInv
  BY <1>2, <1>4 DEF LogBlockedIp, EmitConnChanged, listVars, DbInv
<1>6. AppsAgree' /\ c \notin DOMAIN conn /\ DOMAIN conn' = DOMAIN conn \cup {c}
  BY <1>1, <1>2, <1>5, ConnWritten DEF LogBlockedIp
<1>7. /\ m_connBlockInc' \in 0 .. IncMax - 1
      /\ m_connBlockInc' = 0 \/ m_connBlockInc' = m_connBlockInc + 1
  <2>1. IncMax \in Nat \ {0} /\ m_connBlockInc \in 0 .. IncMax - 1
    BY <1>5, StatDbAssumption DEF StatDbAssumption, DbTypes
  <2>2. CASE m_connBlockInc + 1 = IncMax
    BY <1>5, <2>1, <2>2
  <2>3. CASE m_connBlockInc + 1 < IncMax
    BY <1>5, <2>1, <2>3
  <2>4. QED
    BY <2>1, <2>2, <2>3
<1>8. DbTypes' /\ ListTold'
  BY <1>5, <1>7 DEF DbTypes, ListTold
<1>9. /\ DOMAIN conn_block' = lo .. hi + 1
      /\ hi + 1 \notin DOMAIN conn_block /\ DOMAIN conn_block = lo .. hi
      /\ conn_block'[hi + 1] = c
      /\ \A i \in DOMAIN conn_block : conn_block'[i] = conn_block[i]
  BY <1>3, <1>5 DEF RowsAre, With
<1>10. BlocksInv'
  <2>1. RowsAre(lo, hi + 1)'
    BY <1>3, <1>5, <1>9 DEF RowsAre, DbTypes
  <2>2. FewRows(lo, hi + 1)'
    BY <1>3, <1>5, <1>7, StatDbAssumption DEF FewRows, DbTypes, StatDbAssumption
  <2>3. QED
    BY <2>1, <2>2 DEF BlocksInv
<1>11. CutInv'
  BY <1>5 DEF CutInv, DbTypes
<1>12. PairsInv'
  <2>1. SUFFICES ASSUME flaws \subseteq {"oneLeft", "gone"}
                 PROVE  /\ { conn_block'[j] : j \in DOMAIN conn_block' } = DOMAIN conn'
                        /\ \A i, j \in DOMAIN conn_block' : conn_block'[i] = conn_block'[j] => i = j
    BY <1>5 DEF PairsInv, Left
  <2>2. /\ { conn_block[j] : j \in DOMAIN conn_block } = DOMAIN conn
        /\ \A i, j \in DOMAIN conn_block : conn_block[i] = conn_block[j] => i = j
    BY <1>5, <2>1 DEF PairsInv, Left
  <2>3. DOMAIN conn_block' = DOMAIN conn_block \cup {hi + 1}
    BY <1>3, <1>9 DEF RowsAre
  <2>4. { conn_block'[j] : j \in DOMAIN conn_block' } = DOMAIN conn'
    <3>1. ASSUME NEW j \in DOMAIN conn_block' PROVE conn_block'[j] \in DOMAIN conn'
      BY <1>6, <1>9, <2>2, <2>3, <3>1
    <3>2. ASSUME NEW i \in DOMAIN conn' PROVE \E j \in DOMAIN conn_block' : conn_block'[j] = i
      <4>1. CASE i = c
        BY <1>9, <2>3, <4>1
      <4>2. CASE i \in DOMAIN conn
        <5>1. PICK j \in DOMAIN conn_block : conn_block[j] = i
          BY <2>2, <4>2
        <5>2. QED
          BY <1>9, <2>3, <5>1
      <4>3. QED
        BY <1>6, <3>2, <4>1, <4>2
    <3>3. QED
      BY <3>1, <3>2
  <2>5. ASSUME NEW i \in DOMAIN conn_block', NEW j \in DOMAIN conn_block', conn_block'[i] = conn_block'[j]
        PROVE  i = j
    BY <1>5, <1>9, <2>2, <2>3, <2>5
  <2>6. QED
    BY <2>4, <2>5
<1>13. QED
  BY <1>6, <1>8, <1>10, <1>11, <1>12 DEF DbInv

(* Programs go of which there are no rows left.                            *)
LEMMA AppsDeleted ==
  ASSUME AppsAgree, NEW ids, DeleteApps(ids), traffic' = traffic,
         DOMAIN conn' \subseteq DOMAIN conn, \A i \in DOMAIN conn' : conn'[i] = conn[i],
         \A i \in DOMAIN traffic : i \notin ids,
         \A i \in DOMAIN conn' : conn'[i].app \notin ids
  PROVE  AppsAgree'
<1>1. /\ \A i, p : IsApp(i, p) /\ i \notin ids => IsApp(i, p)'
      /\ CacheAgrees' /\ Numbers(DOMAIN app')
  BY AppsGone
<1>2. TrafficAgrees' /\ ConnAgrees'
  BY <1>1 DEF AppsAgree, TrafficAgrees, ConnAgrees
<1>3. Numbers(DOMAIN conn')
  BY NumbersLess DEF AppsAgree
<1>4. QED
  BY <1>1, <1>2, <1>3 DEF AppsAgree

LEMMA DeleteOldBlocksInv ==
  ASSUME DbInv, DeleteOldBlocks
  PROVE  DbInv'
<1>1. /\ UNCHANGED <<traffic, conn, m_rowIdMin, m_rowIdMax, m_connBlockInc>>
      /\ place = "blocks" /\ place' = "idle" /\ start' = KeepCount /\ m_connChangedTimer' = TRUE
      /\ DeleteApps(DOMAIN app \ (DOMAIN traffic \cup Used(conn)))
      /\ CutsTo(OldTo)
      /\ DbTypes /\ AppsAgree /\ BlocksInv /\ CutInv /\ PairsInv /\ KeepCount \in Nat
  BY StatDbAssumption
     DEF DeleteOldBlocks, DeleteBlocks, CutsTo, EmitConnChanged, listVars, DbInv, StatDbAssumption
<1>2. PICK to : to = OldTo
  OBVIOUS
<1>3. PICK lo \in Nat, hi \in Nat : RowsAre(lo, hi)
  BY <1>1 DEF BlocksInv
<1>4. to \in Nat /\ to = m_connBlockIdMax - KeepCount
  BY <1>1, <1>2, <1>3 DEF OldTo, OldCount, DbTypes, CutInv, RowsAre
<1>5. CutsTo(to)
  BY <1>1, <1>2
<1>6. /\ m_connBlockIdMin' \in Nat /\ m_connBlockIdMax' \in Nat
      /\ \E l, h \in Nat : RowsAre(l, h)' /\ (h = 0 \/ (h = hi /\ to < l))
      /\ "oneLeft" \notin flaws' => "oneLeft" \notin flaws
  BY <1>1, <1>3, <1>4, <1>5, RowsCut DEF DbTypes
<1>7. AppsAgree'
  <2>1. PICK ids : ids = DOMAIN app \ (DOMAIN traffic \cup Used(conn))
    OBVIOUS
  <2>2. /\ \A i \in DOMAIN traffic : i \notin ids
        /\ \A i \in DOMAIN conn' : conn'[i].app \notin ids
    BY <1>1, <2>1 DEF Used
  <2>3. QED
    BY <1>1, <2>1, <2>2, AppsDeleted
<1>8. DbTypes' /\ ListTold' /\ CutInv'
  BY <1>1, <1>6 DEF DbTypes, ListTold, CutInv
<1>9. BlocksInv'
  <2>1. PICK l \in Nat, h \in Nat : RowsAre(l, h)' /\ (h = 0 \/ (h = hi /\ to < l))
    BY <1>6
  <2>2. "oneLeft" \notin flaws' => hi - to = KeepCount
    BY <1>1, <1>3, <1>4, <1>6 DEF RowsAre, DbTypes
  <2>3. l <= h + 1 /\ l >= 1
    BY <2>1 DEF RowsAre
  <2>4. "oneLeft" \notin flaws' => h - l + 1 <= KeepCount
    BY <1>1, <1>4, <2>1, <2>2, <2>3
  <2>5. FewRows(l, h)'
    BY <1>1, <2>1, <2>4 DEF FewRows, DbTypes
  <2>6. QED
    BY <2>1, <2>5 DEF BlocksInv
<1>10. PairsInv'
  <2>1. flaws' \subseteq {"oneLeft", "gone"} => flaws \subseteq {"oneLeft", "gone"}
    BY <1>4, <1>5, CutFlaws
  <2>2. SUFFICES ASSUME flaws \subseteq {"oneLeft", "gone"}
                 PROVE  /\ { conn_block'[j] : j \in DOMAIN conn_block' } = DOMAIN conn
                        /\ \A i, j \in DOMAIN conn_block' : conn_block'[i] = conn_block'[j] => i = j
    BY <1>1, <2>1 DEF PairsInv, Left
  <2>3. /\ { conn_block[j] : j \in { k \in DOMAIN conn_block : k > to } } = DOMAIN conn
        /\ \A i, j \in DOMAIN conn_block : conn_block[i] = conn_block[j] => i = j
    BY <1>1, <1>2, <2>2 DEF PairsInv, Left
  <2>4. /\ DOMAIN conn_block' = { k \in DOMAIN conn_block : k > to }
        /\ \A j \in DOMAIN conn_block' : conn_block'[j] = conn_block[j]
    BY <1>3, <1>4, <1>5 DEF CutsTo, Without, RowsAre
  <2>5. { conn_block'[j] : j \in DOMAIN conn_block' } = DOMAIN conn
    BY <2>3, <2>4
  <2>6. QED
    BY <2>3, <2>4, <2>5
<1>11. QED
  BY <1>7, <1>8, <1>9, <1>10 DEF DbInv

LEMMA DeleteConnInv ==
  ASSUME DbInv, NEW to, DeleteConn(to)
  PROVE  DbInv'
<1>1. PICK ids : ids = DOMAIN app \ (DOMAIN traffic \cup { conn'[i].app : i \in DOMAIN conn' })
  OBVIOUS
<1>2. /\ UNCHANGED <<traffic, m_rowIdMin, m_rowIdMax, m_connBlockInc, place, start>>
      /\ place = "idle" /\ m_connChangedTimer' = TRUE
      /\ to \in m_rowIdMin .. m_rowIdMax
      /\ conn' = Without(conn, ConnsTo(conn_block, to))
      /\ DeleteApps(ids)
      /\ CutsTo(to)
      /\ DbTypes /\ AppsAgree /\ BlocksInv /\ PairsInv
  BY <1>1 DEF DeleteConn, DeleteBlocks, Used, CutsTo, Change, EmitConnChanged, listVars, DbInv
<1>3. PICK lo \in Nat, hi \in Nat : RowsAre(lo, hi) /\ FewRows(lo, hi)
  BY <1>2 DEF BlocksInv
<1>4. to \in Nat
  BY <1>2 DEF DbTypes
<1>5. /\ m_connBlockIdMin' \in Nat /\ m_connBlockIdMax' \in Nat
      /\ \E l, h \in Nat : RowsAre(l, h)' /\ h - l <= hi - lo
      /\ "oneLeft" \notin flaws' => "oneLeft" \notin flaws
  BY <1>2, <1>3, <1>4, RowsCut DEF DbTypes
<1>6. /\ DOMAIN conn' = DOMAIN conn \ { conn_block[j] : j \in { k \in DOMAIN conn_block : k <= to } }
      /\ \A i \in DOMAIN conn' : conn'[i] = conn[i]
  BY <1>2 DEF Without, ConnsTo
<1>7. AppsAgree'
  BY <1>1, <1>2, <1>6, AppsDeleted
<1>8. DbTypes' /\ ListTold' /\ CutInv'
  BY <1>2, <1>5 DEF DbTypes, ListTold, CutInv
<1>9. BlocksInv'
  <2>1. PICK l \in Nat, h \in Nat : RowsAre(l, h)' /\ h - l <= hi - lo
    BY <1>5
  <2>2. FewRows(l, h)'
    BY <1>2, <1>3, <1>5, <2>1, StatDbAssumption DEF FewRows, DbTypes, StatDbAssumption
  <2>3. QED
    BY <2>1, <2>2 DEF BlocksInv
<1>10. PairsInv'
  <2>1. flaws' \subseteq {"oneLeft", "gone"} => flaws \subseteq {"oneLeft", "gone"}
    BY <1>2, <1>4, CutFlaws
  <2>2. SUFFICES ASSUME flaws \subseteq {"oneLeft", "gone"}
                 PROVE  /\ { conn_block'[j] : j \in DOMAIN conn_block' } = DOMAIN conn'
                        /\ \A i, j \in DOMAIN conn_block' : conn_block'[i] = conn_block'[j] => i = j
    BY <1>2, <2>1 DEF PairsInv, Left
  <2>3. /\ { conn_block[j] : j \in DOMAIN conn_block } = DOMAIN conn
        /\ \A i, j \in DOMAIN conn_block : conn_block[i] = conn_block[j] => i = j
    BY <1>2, <2>2 DEF PairsInv, Left
  <2>4. /\ DOMAIN conn_block' = { k \in DOMAIN conn_block : k > to }
        /\ DOMAIN conn_block \subseteq Int
        /\ \A j \in DOMAIN conn_block' : conn_block'[j] = conn_block[j]
    BY <1>2, <1>3, <1>4 DEF CutsTo, Without, RowsAre
  <2>5. { conn_block'[j] : j \in DOMAIN conn_block' } = DOMAIN conn'
    BY <1>4, <1>6, <2>3, <2>4
  <2>6. QED
    BY <2>3, <2>4, <2>5
<1>11. QED
  BY <1>7, <1>8, <1>9, <1>10 DEF DbInv

LEMMA DeleteConnAllInv ==
  ASSUME DbInv, DeleteConnAll
  PROVE  DbInv'
<1>1. /\ UNCHANGED <<traffic, m_rowIdMin, m_rowIdMax, m_connBlockInc, place, start>>
      /\ place = "idle" /\ m_connChangedTimer' = TRUE
      /\ DOMAIN conn' = {} /\ DOMAIN conn_block' = {} /\ conn_block' = Empty
      /\ DeleteApps(DOMAIN app \ DOMAIN traffic)
      /\ m_connBlockIdMin' = 0 /\ m_connBlockIdMax' = 0 /\ flaws' = {}
      /\ DbTypes /\ AppsAgree /\ KeepCount \in Nat
  BY Emptied, StatDbAssumption
     DEF DeleteConnAll, Change, EmitConnChanged, listVars, DbInv, StatDbAssumption
<1>2. AppsAgree'
  <2>1. PICK ids : ids = DOMAIN app \ DOMAIN traffic
    OBVIOUS
  <2>2. QED
    BY <1>1, <2>1, AppsDeleted
<1>3. DbTypes' /\ ListTold' /\ CutInv'
  BY <1>1 DEF DbTypes, ListTold, CutInv
<1>4. BlocksInv'
  <2>1. RowsAre(1, 0)'
    BY <1>1 DEF RowsAre
  <2>2. FewRows(1, 0)'
    BY <1>1 DEF FewRows, DbTypes
  <2>3. QED
    BY <2>1, <2>2 DEF BlocksInv
<1>5. PairsInv'
  BY <1>1 DEF PairsInv
<1>6. QED
  BY <1>2, <1>3, <1>4, <1>5 DEF DbInv

(* What updateConnBlockId finds in the table.                              *)
LEMMA RangeFound ==
  ASSUME NEW lo \in Nat, NEW hi \in Nat, RowsAre(lo, hi)
  PROVE  /\ Max(DOMAIN conn_block \cup {0}) = hi
         /\ Min(DOMAIN conn_block \cup (IF conn_block = Empty THEN {0} ELSE {})) = IF hi = 0 THEN 0 ELSE lo
         /\ Cardinality(DOMAIN conn_block) = hi - lo + 1
<1>1. /\ DOMAIN conn_block = lo .. hi /\ lo >= 1 /\ lo <= hi + 1
      /\ lo > hi => hi = 0 /\ conn_block = Empty
  BY DEF RowsAre
<1>2. Max((lo .. hi) \cup {0}) = hi
  <2>1. (lo .. hi) \cup {0} \subseteq Int /\ hi \in (lo .. hi) \cup {0}
    BY <1>1
  <2>2. \A y \in (lo .. hi) \cup {0} : y <= hi
    OBVIOUS
  <2>3. QED
    BY <2>1, <2>2, MaxIs
<1>3. Min(DOMAIN conn_block \cup (IF conn_block = Empty THEN {0} ELSE {})) = IF hi = 0 THEN 0 ELSE lo
  <2>1. CASE hi = 0
    <3>1. DOMAIN conn_block = {} /\ conn_block = Empty
      BY <1>1, <2>1
    <3>2. Min({} \cup {0}) = 0
      BY MinIs
    <3>3. QED
      BY <2>1, <3>1, <3>2
  <2>2. CASE hi # 0
    <3>1. conn_block # Empty
      BY <1>1, <2>2 DEF Empty
    <3>2. Min((lo .. hi) \cup {}) = lo
      <4>1. (lo .. hi) \cup {} \subseteq Int /\ lo \in (lo .. hi) \cup {}
        BY <1>1, <2>2
      <4>2. \A y \in (lo .. hi) \cup {} : lo <= y
        OBVIOUS
      <4>3. QED
        BY <4>1, <4>2, MinIs
    <3>3. QED
      BY <1>1, <2>2, <3>1, <3>2
  <2>3. QED
    BY <2>1, <2>2
<1>4. Cardinality(lo .. hi) = hi - lo + 1
  BY <1>1, FS_Interval
<1>5. QED
  BY <1>1, <1>2, <1>3, <1>4

LEMMA RestartInv ==
  ASSUME DbInv, Restart
  PROVE  DbInv'
<1>1. PICK lo \in Nat, hi \in Nat : RowsAre(lo, hi)
  BY DEF DbInv, BlocksInv
<1>2. /\ Max(DOMAIN conn_block \cup {0}) = hi
      /\ Min(DOMAIN conn_block \cup (IF conn_block = Empty THEN {0} ELSE {})) = IF hi = 0 THEN 0 ELSE lo
      /\ Cardinality(DOMAIN conn_block) = hi - lo + 1
      /\ lo >= 1 /\ lo <= hi + 1
  BY <1>1, RangeFound DEF RowsAre
<1>3. PICK most : most = Max({KeepCount, Cardinality(DOMAIN conn_block)})
  OBVIOUS
<1>4. most \in Nat /\ hi - lo + 1 <= most
  BY <1>2, <1>3, MaxOfTwo, StatDbAssumption DEF StatDbAssumption
<1>5. /\ UNCHANGED <<app, traffic, conn, conn_block>>
      /\ DOMAIN m_appPathIdCache' = {}
      /\ m_connBlockIdMin' = (IF hi = 0 THEN 0 ELSE lo) /\ m_connBlockIdMax' = hi
      /\ m_rowIdMin' = m_connBlockIdMin' /\ m_rowIdMax' = m_connBlockIdMax'
      /\ m_connChangedTimer' = FALSE /\ m_connBlockInc' = 0 /\ place' = "idle"
      /\ start' = most
      /\ flaws' = (flaws \ {"oneLeft", "gone"}) \cup (IF place = "blocks" THEN {"torn"} ELSE {})
      /\ AppsAgree /\ PairsInv /\ IncMax \in Nat /\ IncMax > 0 /\ KeepCount \in Nat
  BY <1>2, <1>3, Emptied, StatDbAssumption DEF Restart, tableVars, DbInv, StatDbAssumption
<1>6. AppsAgree'
  BY <1>5 DEF AppsAgree, TrafficAgrees, ConnAgrees, CacheAgrees, IsApp
<1>7. DbTypes' /\ ListTold' /\ CutInv'
  <2>1. m_connBlockIdMin' \in Nat /\ m_connBlockIdMax' \in Nat /\ 0 \in 0 .. IncMax - 1
    BY <1>1, <1>5
  <2>2. DbTypes'
    BY <1>4, <1>5, <2>1 DEF DbTypes
  <2>3. ListTold' /\ CutInv'
    BY <1>5 DEF ListTold, CutInv
  <2>4. QED
    BY <2>2, <2>3
<1>8. BlocksInv'
  <2>1. RowsAre(lo, hi)'
    BY <1>1, <1>2, <1>5 DEF RowsAre
  <2>2. FewRows(lo, hi)'
    BY <1>4, <1>5 DEF FewRows
  <2>3. QED
    BY <2>1, <2>2 DEF BlocksInv
<1>9. PairsInv'
  <2>1. SUFFICES ASSUME flaws' \subseteq {"oneLeft", "gone"}
                 PROVE  /\ { conn_block[j] : j \in DOMAIN conn_block } = DOMAIN conn
                        /\ \A i, j \in DOMAIN conn_block : conn_block[i] = conn_block[j] => i = j
    BY <1>5 DEF PairsInv, Left
  <2>2. place # "blocks" /\ flaws \subseteq {"oneLeft", "gone"}
    BY <1>5, <2>1
  <2>3. QED
    BY <1>5, <2>2 DEF PairsInv, Left
<1>10. QED
  BY <1>6, <1>7, <1>8, <1>9 DEF DbInv

LEMMA DbInitInv ==
  ASSUME StatDbInit
  PROVE  DbInv
<1>1. /\ DOMAIN app = {} /\ DOMAIN traffic = {} /\ DOMAIN conn = {} /\ DOMAIN conn_block = {}
      /\ DOMAIN m_appPathIdCache = {} /\ conn_block = Empty /\ Numbers({})
      /\ m_connBlockIdMin = 0 /\ m_connBlockIdMax = 0 /\ m_connBlockInc = 0
      /\ m_connChangedTimer = FALSE /\ m_rowIdMin = 0 /\ m_rowIdMax = 0
      /\ place = "idle" /\ start = KeepCount /\ flaws = {}
      /\ KeepCount \in Nat /\ IncMax \in Nat /\ IncMax > 0
  BY Emptied, StatDbAssumption DEF StatDbInit, StatDbAssumption
<1>2. AppsAgree
  BY <1>1 DEF AppsAgree, TrafficAgrees, ConnAgrees, CacheAgrees
<1>3. DbTypes /\ ListTold /\ CutInv /\ PairsInv
  <2>1. 0 \in 0 .. IncMax - 1
    BY <1>1
  <2>2. DbTypes
    BY <1>1, <2>1 DEF DbTypes
  <2>3. ListTold /\ CutInv
    BY <1>1 DEF ListTold, CutInv
  <2>4. PairsInv
    BY <1>1 DEF PairsInv, Left
  <2>5. QED
    BY <2>2, <2>3, <2>4
<1>4. RowsAre(1, 0) /\ FewRows(1, 0)
  BY <1>1 DEF RowsAre, FewRows
<1>5. QED
  BY <1>2, <1>3, <1>4 DEF DbInv, BlocksInv

LEMMA DbKept ==
  ASSUME DbInv, UNCHANGED statDbVars
  PROVE  DbInv'
<1>1. /\ UNCHANGED <<app, traffic, conn, conn_block, m_appPathIdCache, m_connBlockIdMin, m_connBlockIdMax,
                     m_connBlockInc, m_connChangedTimer, m_rowIdMin, m_rowIdMax, place, start, flaws>>
      /\ DbTypes /\ ListTold /\ AppsAgree /\ BlocksInv /\ CutInv /\ PairsInv
  BY DEF statDbVars, tableVars, rangeVars, listVars, countVars, DbInv
<1>2. DbTypes' /\ ListTold'
  BY <1>1 DEF DbTypes, ListTold
<1>3. AppsAgree' /\ BlocksInv' /\ CutInv' /\ PairsInv'
  BY <1>1, AppsKept, BlocksKept
<1>4. QED
  BY <1>2, <1>3 DEF DbInv

LEMMA DbStepInv ==
  ASSUME DbInv, [StatDbNext]_statDbVars
  PROVE  DbInv'
<1>1. ASSUME NEW path \in Paths, LogProcNewApp(path)  PROVE DbInv'
  BY <1>1, LogProcNewAppInv
<1>2. ASSUME NEW path \in Paths, LogBlockedIp(path)  PROVE DbInv'
  BY <1>2, LogBlockedIpInv
<1>3. ASSUME NEW path \in Paths, LogBlockedIpFails(path)  PROVE DbInv'
  BY <1>3, LogBlockedIpFailsInv
<1>4. ASSUME NEW path \in Paths, NEW m_isActivePeriod \in BOOLEAN, LogStatTrafApp(path, m_isActivePeriod)
      PROVE  DbInv'
  BY <1>4, LogStatTrafAppInv
<1>5. CASE NothingOld
  BY <1>5, NothingOldInv
<1>6. CASE DeleteOldConns
  BY <1>6, DeleteOldConnsInv
<1>7. CASE DeleteOldBlocks
  BY <1>7, DeleteOldBlocksInv
<1>8. ASSUME NEW to \in m_rowIdMin .. m_rowIdMax, DeleteConn(to)  PROVE DbInv'
  BY <1>8, DeleteConnInv
<1>9. ASSUME NEW appId \in DOMAIN traffic, DeleteStatApp(appId)  PROVE DbInv'
  BY <1>9, DeleteStatAppInv
<1>10. CASE DeleteConnAll
  BY <1>10, DeleteConnAllInv
<1>11. CASE ClearTraffic
  BY <1>11, ClearTrafficInv
<1>12. CASE UpdateRowIdRange
  BY <1>12, UpdateRowIdRangeInv
<1>13. CASE Restart
  BY <1>13, RestartInv
<1>14. CASE UNCHANGED statDbVars
  BY <1>14, DbKept
<1>15. QED
  BY <1>1, <1>2, <1>3, <1>4, <1>5, <1>6, <1>7, <1>8, <1>9, <1>10, <1>11, <1>12, <1>13, <1>14
     DEF StatDbNext

(* The numbers of programs, the rows of blocked connections, the range     *)
(* that is counted beside them and the range the list shows agree, always. *)
THEOREM DbInvariant == StatDbSpec => []DbInv
<1>1. StatDbInit => DbInv
  BY DbInitInv
<1>2. DbInv /\ [StatDbNext]_statDbVars => DbInv'
  BY DbStepInv
<1>3. QED
  BY <1>1, <1>2, PTL DEF StatDbSpec

(* The table of blocked connections is cut in time, whatever is cleared in *)
(* between, wherever the program ends, for every number of rows to be kept *)
(* and of rows between two cuts.                                           *)
THEOREM TableStaysBounded == StatDbSpec => []TableBounded
<1>1. DbInv => TableBounded
  <2>1. SUFFICES ASSUME DbInv, place = "idle", "oneLeft" \notin flaws
                 PROVE  Cardinality(DOMAIN conn_block) <= Max({KeepCount, start}) + m_connBlockInc
    BY DEF TableBounded
  <2>2. PICK lo \in Nat, hi \in Nat : RowsAre(lo, hi) /\ FewRows(lo, hi)
    BY <2>1 DEF DbInv, BlocksInv
  <2>3. Cardinality(DOMAIN conn_block) = hi - lo + 1
    BY <2>2, RangeFound
  <2>4. /\ KeepCount \in Nat /\ start \in Nat /\ m_connBlockInc \in Int
        /\ hi - lo + 1 <= KeepCount + m_connBlockInc \/ hi - lo + 1 <= start + m_connBlockInc
    BY <2>1, <2>2, StatDbAssumption DEF DbInv, DbTypes, FewRows, StatDbAssumption
  <2>5. PICK most : most = Max({KeepCount, start})
    OBVIOUS
  <2>6. most \in Nat /\ KeepCount <= most /\ start <= most
    BY <2>4, <2>5, MaxOfTwo
  <2>7. QED
    BY <2>3, <2>4, <2>5, <2>6
<1>2. QED
  BY <1>1, DbInvariant, PTL

(* Rows and cached numbers are of the program they were written for, for   *)
(* all programs, and a blocked connection has its row as long as nothing   *)
(* has failed between two statements.                                      *)
THEOREM RowsStayTogether == StatDbSpec => []RowsAgree
<1>1. DbInv => RowsAgree
  <2>1. SUFFICES ASSUME DbInv PROVE RowsAgree
    OBVIOUS
  <2>2. TrafficAgrees /\ ConnAgrees /\ CacheAgrees /\ PairsInv
    BY <2>1 DEF DbInv, AppsAgree
  <2>3. place = "idle" /\ flaws \subseteq {"oneLeft", "gone"} =>
          /\ { conn_block[j] : j \in DOMAIN conn_block } = DOMAIN conn
          /\ \A i, j \in DOMAIN conn_block : conn_block[i] = conn_block[j] => i = j
    BY <2>2 DEF PairsInv, Left
  <2>4. QED
    BY <2>2, <2>3 DEF RowsAgree, TrafficAgrees, ConnAgrees, CacheAgrees, IsApp
<1>2. QED
  BY <1>1, DbInvariant, PTL

(* The list of blocked connections shows the rows of the table once it has *)
(* been told, though each counts its range for itself.                     *)
THEOREM ListShowsRows == StatDbSpec => []ListFollows
<1>1. DbInv => ListFollows
  <2>1. SUFFICES ASSUME DbInv, ~ m_connChangedTimer, flaws \cap {"oneLeft", "gone"} = {}
                 PROVE  DOMAIN conn_block = IF m_rowIdMax = 0 THEN {} ELSE m_rowIdMin .. m_rowIdMax
    BY DEF ListFollows
  <2>2. PICK lo \in Nat, hi \in Nat : RowsAre(lo, hi)
    BY <2>1 DEF DbInv, BlocksInv
  <2>3. m_rowIdMin = m_connBlockIdMin /\ m_rowIdMax = m_connBlockIdMax
    BY <2>1 DEF DbInv, ListTold
  <2>4. /\ DOMAIN conn_block = lo .. hi /\ m_connBlockIdMax = hi /\ lo >= 1
        /\ hi # 0 => m_connBlockIdMin = lo
    BY <2>1, <2>2 DEF RowsAre
  <2>5. QED
    BY <2>3, <2>4
<1>2. QED
  BY <1>1, DbInvariant, PTL

(* Between the two statements of a cut no row of conn_block goes; the      *)
(* second one takes only those that KeepCount newer ones follow.           *)
LEMMA CutKeepsNewest ==
  ASSUME DbInv, DeleteOldBlocks, NEW i \in DOMAIN conn_block \ DOMAIN conn_block'
  PROVE  Cardinality({ j \in DOMAIN conn_block : j > i }) >= KeepCount
<1>1. PICK lo \in Nat, hi \in Nat : RowsAre(lo, hi)
  BY DEF DbInv, BlocksInv
<1>2. /\ DOMAIN conn_block' = DOMAIN conn_block \ (1 .. OldTo)
      /\ DOMAIN conn_block = lo .. hi /\ lo >= 1 /\ m_connBlockIdMax <= hi
      /\ m_connBlockIdMin \in Nat /\ m_connBlockIdMax \in Nat /\ KeepCount \in Nat
  BY <1>1, StatDbAssumption
     DEF DeleteOldBlocks, DeleteBlocks, Without, RowsAre, DbInv, DbTypes, StatDbAssumption
<1>3. OldTo = m_connBlockIdMax - KeepCount
  BY <1>2 DEF OldTo, OldCount
<1>4. i \in lo .. hi /\ i <= hi - KeepCount
  BY <1>2, <1>3
<1>5. { j \in DOMAIN conn_block : j > i } = i + 1 .. hi
  BY <1>2, <1>4
<1>6. Cardinality(i + 1 .. hi) = hi - i
  BY <1>2, <1>4, FS_Interval
<1>7. hi - i >= KeepCount
  BY <1>2, <1>4
<1>8. QED
  BY <1>5, <1>6, <1>7

(* Only the user removes a blocked connection that is among the newest,    *)
(* for every number of rows to be kept.                                    *)
THEOREM NewestStay == StatDbSpec => NewestKept
<1>1. DbInv /\ [StatDbNext]_statDbVars =>
        [ place = "blocks" =>
            \A i \in DOMAIN conn_block \ DOMAIN conn_block' :
               Cardinality({ j \in DOMAIN conn_block : j > i }) >= KeepCount ]_statDbVars
  <2>1. SUFFICES ASSUME DbInv, StatDbNext, place = "blocks", NEW i \in DOMAIN conn_block \ DOMAIN conn_block'
                 PROVE  Cardinality({ j \in DOMAIN conn_block : j > i }) >= KeepCount
    OBVIOUS
  <2>2. CASE DeleteOldBlocks
    BY <2>1, <2>2, CutKeepsNewest
  <2>3. CASE Restart
    BY <2>1, <2>3 DEF Restart, tableVars
  <2>4. DeleteOldBlocks \/ Restart
    BY <2>1 DEF StatDbNext, Change, LogProcNewApp, LogBlockedIp, LogBlockedIpFails, LogStatTrafApp,
                NothingOld, DeleteOldConns, DeleteConn, DeleteStatApp, DeleteConnAll, ClearTraffic,
                UpdateRowIdRange
  <2>5. QED
    BY <2>2, <2>3, <2>4
<1>2. QED
  BY <1>1, DbInvariant, PTL DEF StatDbSpec, NewestKept
=============================================================================
