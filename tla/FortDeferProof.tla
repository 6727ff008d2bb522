--------------------------- MODULE FortDeferProof ---------------------------
(***************************************************************************)
(* Proofs about the deferred packets, for any flows, packets and limits.   *)
(* Packets live in lists and chains through one next pointer, so first the *)
(* pointers: what it is to be linked, and that taking the head, adding at  *)
(* the tail and joining keep packets linked.  With that, which packets are *)
(* where after each critical section (Arranged): a packet of the pool is   *)
(* in one place.  Then what is deferred while the power is off, and that   *)
(* no segment waits for one that has passed.                               *)
(***************************************************************************)
EXTENDS FortDefer, SequenceLemmas, FiniteSetTheorems

-----------------------------------------------------------------------------
(* Linked packets. *)

(* The packets X linked from h on by the pointers m, the last of them is t. *)
Linked(m, h, X, t, k, s) ==
  /\ k \in Nat /\ s \in [1 .. k -> Packets]
  /\ \A i, j \in 1 .. k : s[i] = s[j] => i = j
  /\ \A i \in 1 .. k : m[s[i]] = IF i = k THEN Nil ELSE s[i + 1]
  /\ X = { s[i] : i \in 1 .. k }
  /\ h = IF k = 0 THEN Nil ELSE s[1]
  /\ t = IF k = 0 THEN Nil ELSE s[k]

Leads(m, h, X, t) == \E k, s : Linked(m, h, X, t, k, s)

(* Linked packets end in NULL, and there are none only if the head is      *)
(* NULL.                                                                   *)
LEMMA LeadsTypes ==
  ASSUME NEW m, NEW h, NEW X, NEW t, Leads(m, h, X, t)
  PROVE  /\ X \subseteq Packets
         /\ \/ h = Nil /\ t = Nil /\ X = {}
            \/ h # Nil /\ t # Nil /\ h \in X /\ t \in X /\ h \in Packets /\ t \in Packets /\ m[t] = Nil
<1>1. PICK k, s : Linked(m, h, X, t, k, s)
  BY DEF Leads
<1>2. X \subseteq Packets /\ Nil \notin Packets
  BY <1>1, DeferAssumption DEF Linked
<1>3. CASE k = 0
  BY <1>1, <1>2, <1>3 DEF Linked
<1>4. CASE k # 0
  <2>1. k \in Nat /\ 1 \in 1 .. k /\ k \in 1 .. k
    BY <1>1, <1>4 DEF Linked
  <2>2. s[1] \in Packets /\ s[k] \in Packets /\ s[1] \in X /\ s[k] \in X /\ m[s[k]] = Nil
    BY <1>1, <2>1 DEF Linked
  <2>. QED
    BY <1>1, <1>2, <1>4, <2>2 DEF Linked
<1>. QED
  BY <1>3, <1>4

(* Nothing is linked from NULL on. *)
LEMMA LeadsNone ==
  ASSUME NEW m
  PROVE  Leads(m, Nil, {}, Nil)
<1>1. Linked(m, Nil, {}, Nil, 0, [i \in 1 .. 0 |-> i])
  BY DEF Linked
<1>. QED
  BY <1>1 DEF Leads

(* Pointers of other packets do not matter. *)
LEMMA LeadsStill ==
  ASSUME NEW m, NEW w, NEW h, NEW X, NEW t, Leads(m, h, X, t), \A q \in X : w[q] = m[q]
  PROVE  Leads(w, h, X, t)
<1>1. PICK k, s : Linked(m, h, X, t, k, s)
  BY DEF Leads
<1>2. Linked(w, h, X, t, k, s)
  BY <1>1 DEF Linked
<1>. QED
  BY <1>2 DEF Leads

(* What is linked from h on is one set. *)
LEMMA LeadsOnly ==
  ASSUME NEW m, NEW h, NEW X, NEW t, Leads(m, h, X, t)
  PROVE  /\ {h} \cup { m[q] : q \in X } \subseteq X \cup {Nil}
         /\ \A S \in SUBSET Packets : {h} \cup { m[q] : q \in S } \subseteq S \cup {Nil} => X \subseteq S
<1>1. PICK k, s : Linked(m, h, X, t, k, s)
  BY DEF Leads
<1>2. {h} \cup { m[q] : q \in X } \subseteq X \cup {Nil}
  <2>1. h \in X \cup {Nil}
    BY LeadsTypes
  <2>2. \A i \in 1 .. k : m[s[i]] \in X \cup {Nil}
    <3> SUFFICES ASSUME NEW i \in 1 .. k, i # k PROVE s[i + 1] \in X
      BY <1>1 DEF Linked
    <3>1. i + 1 \in 1 .. k
      BY <1>1 DEF Linked
    <3>. QED
      BY <1>1, <3>1 DEF Linked
  <2>. QED
    BY <1>1, <2>1, <2>2 DEF Linked
<1>3. ASSUME NEW S \in SUBSET Packets, {h} \cup { m[q] : q \in S } \subseteq S \cup {Nil} PROVE X \subseteq S
  <2>. DEFINE Good == { i \in Nat : i + 1 \in 1 .. k => s[i + 1] \in S }
  <2>0. k \in Nat /\ Nil \notin Packets /\ \A i \in 1 .. k : s[i] \in Packets
    BY <1>1, DeferAssumption DEF Linked
  <2>1. 0 \in Good
    BY <1>1, <1>3, <2>0 DEF Linked
  <2>2. ASSUME NEW i \in Nat, i \in Good PROVE i + 1 \in Good
    <3> SUFFICES ASSUME (i + 1) + 1 \in 1 .. k PROVE s[(i + 1) + 1] \in S
      OBVIOUS
    <3>1. i + 1 \in 1 .. k /\ i + 1 # k
      BY <2>0
    <3>2. s[i + 1] \in S /\ m[s[i + 1]] = s[(i + 1) + 1]
      BY <1>1, <2>2, <3>1 DEF Linked
    <3>3. s[(i + 1) + 1] \in S \cup {Nil}
      BY <1>3, <3>2
    <3>. QED
      BY <2>0, <3>3
  <2>. HIDE DEF Good
  <2>3. Nat \subseteq Good
    BY <2>1, <2>2, NatSetInduction
  <2>4. ASSUME NEW j \in 1 .. k PROVE s[j] \in S
    <3>1. j - 1 \in Nat /\ (j - 1) + 1 = j
      BY <2>0
    <3>. QED
      BY <2>3, <3>1 DEF Good
  <2>. QED
    BY <1>1, <2>4 DEF Linked
<1>. QED
  BY <1>2, <1>3

(* A packet is put before all others, *)
LEMMA LeadsPush ==
  ASSUME NEW m, NEW w, NEW h, NEW X, NEW t, Leads(m, h, X, t),
         NEW p \in Packets, p \notin X, w[p] = h, \A q \in X : w[q] = m[q]
  PROVE  Leads(w, p, X \cup {p}, IF t = Nil THEN p ELSE t)
<1>1. PICK k, s : Linked(m, h, X, t, k, s)
  BY DEF Leads
<1>. DEFINE r == [i \in 1 .. k + 1 |-> IF i = 1 THEN p ELSE s[i - 1]]
<1>0. k \in Nat /\ \A i \in 1 .. k : s[i] \in Packets /\ s[i] \in X
  BY <1>1 DEF Linked
<1>2. r \in [1 .. k + 1 -> Packets] /\ r[1] = p /\ \A i \in 2 .. k + 1 : r[i] = s[i - 1] /\ i - 1 \in 1 .. k
  BY <1>0
<1>. HIDE DEF r
<1>3. \A i, j \in 1 .. k + 1 : r[i] = r[j] => i = j
  <2>1. ASSUME NEW i \in 2 .. k + 1, NEW j \in 2 .. k + 1, r[i] = r[j] PROVE i = j
    <3>1. i - 1 = j - 1
      BY <1>1, <1>2, <2>1 DEF Linked
    <3>. QED
      BY <3>1, <1>0
  <2>2. \A i \in 2 .. k + 1 : r[i] # p
    BY <1>0, <1>2
  <2>3. \A i \in 1 .. k + 1 : i = 1 \/ i \in 2 .. k + 1
    BY <1>0
  <2>. QED
    BY <1>2, <2>1, <2>2, <2>3
<1>4. ASSUME NEW i \in 1 .. k + 1 PROVE w[r[i]] = IF i = k + 1 THEN Nil ELSE r[i + 1]
  <2>1. CASE i = 1
    <3>1. CASE k = 0
      BY <1>1, <1>2, <2>1, <3>1 DEF Linked
    <3>2. CASE k # 0
      <4>1. r[2] = s[1]
        BY <1>0, <1>2, <3>2
      <4>. QED
        BY <1>0, <1>1, <1>2, <2>1, <3>2, <4>1 DEF Linked
    <3>. QED
      BY <3>1, <3>2
  <2>2. CASE i # 1
    <3>1. i \in 2 .. k + 1 /\ i - 1 \in 1 .. k /\ r[i] = s[i - 1]
      BY <1>0, <1>2, <2>2
    <3>2. w[r[i]] = IF i - 1 = k THEN Nil ELSE s[(i - 1) + 1]
      BY <1>0, <1>1, <3>1 DEF Linked
    <3>3. i # k + 1 => i + 1 \in 2 .. k + 1 /\ r[i + 1] = s[i]
      BY <1>0, <1>2, <3>1
    <3>. QED
      BY <1>0, <3>1, <3>2, <3>3
  <2>. QED
    BY <2>1, <2>2
<1>5. X \cup {p} = { r[i] : i \in 1 .. k + 1 }
  <2>1. ASSUME NEW q \in X PROVE q \in { r[i] : i \in 1 .. k + 1 }
    <3>1. PICK i \in 1 .. k : q = s[i]
      BY <1>1 DEF Linked
    <3>2. i + 1 \in 2 .. k + 1 /\ i + 1 \in 1 .. k + 1 /\ (i + 1) - 1 = i
      BY <1>0
    <3>. QED
      BY <1>2, <3>1, <3>2
  <2>2. ASSUME NEW i \in 1 .. k + 1 PROVE r[i] \in X \cup {p}
    BY <1>0, <1>2
  <2>3. 1 \in 1 .. k + 1
    BY <1>0
  <2>. QED
    BY <1>2, <2>1, <2>2, <2>3
<1>6. (IF t = Nil THEN p ELSE t) = r[k + 1]
  <2>1. CASE k = 0
    BY <1>1, <1>2, <2>1 DEF Linked
  <2>2. CASE k # 0
    <3>1. t = s[k] /\ k \in 1 .. k /\ k + 1 \in 2 .. k + 1 /\ (k + 1) - 1 = k
      BY <1>0, <1>1, <2>2 DEF Linked
    <3>2. t # Nil
      BY <1>0, <3>1, DeferAssumption
    <3>. QED
      BY <1>2, <3>1, <3>2
  <2>. QED
    BY <2>1, <2>2
<1>7. Linked(w, p, X \cup {p}, IF t = Nil THEN p ELSE t, k + 1, r)
  BY <1>0, <1>2, <1>3, <1>4, <1>5, <1>6 DEF Linked
<1>. QED
  BY <1>7 DEF Leads

(* or taken from there. *)
LEMMA LeadsPop ==
  ASSUME NEW m, NEW h, NEW X, NEW t, Leads(m, h, X, t), h # Nil
  PROVE  \E u : Leads(m, m[h], X \ {h}, u)
<1>1. PICK k, s : Linked(m, h, X, t, k, s)
  BY DEF Leads
<1>2. k \in Nat /\ k # 0 /\ h = s[1] /\ 1 \in 1 .. k
  BY <1>1 DEF Linked
<1>. DEFINE l == k - 1
            r == [i \in 1 .. l |-> s[i + 1]]
<1>3. l \in Nat /\ k = l + 1 /\ \A i \in 1 .. l : i + 1 \in 1 .. k
  BY <1>2
<1>4. r \in [1 .. l -> Packets] /\ \A i \in 1 .. l : r[i] = s[i + 1]
  BY <1>1, <1>3 DEF Linked
<1>. HIDE DEF l, r
<1>5. \A i, j \in 1 .. l : r[i] = r[j] => i = j
  <2> SUFFICES ASSUME NEW i \in 1 .. l, NEW j \in 1 .. l, r[i] = r[j] PROVE i = j
    OBVIOUS
  <2>1. i + 1 = j + 1
    BY <1>1, <1>3, <1>4 DEF Linked
  <2>. QED
    BY <1>3, <2>1
<1>6. ASSUME NEW i \in 1 .. l PROVE m[r[i]] = IF i = l THEN Nil ELSE r[i + 1]
  <2>1. m[s[i + 1]] = IF i + 1 = k THEN Nil ELSE s[(i + 1) + 1]
    BY <1>1, <1>3 DEF Linked
  <2>2. i # l => r[i + 1] = s[(i + 1) + 1]
    BY <1>3, <1>4
  <2>. QED
    BY <1>3, <1>4, <2>1, <2>2
<1>7. X \ {h} = { r[i] : i \in 1 .. l }
  <2>1. ASSUME NEW q \in X, q # h PROVE q \in { r[i] : i \in 1 .. l }
    <3>1. PICK i \in 1 .. k : q = s[i]
      BY <1>1 DEF Linked
    <3>2. i - 1 \in 1 .. l /\ (i - 1) + 1 = i
      BY <1>2, <1>3, <2>1, <3>1
    <3>. QED
      BY <1>4, <3>1, <3>2
  <2>2. ASSUME NEW i \in 1 .. l PROVE r[i] \in X \ {h}
    <3>1. r[i] = s[i + 1] /\ i + 1 \in 1 .. k /\ i + 1 # 1
      BY <1>3, <1>4
    <3>. QED
      BY <1>1, <1>2, <3>1 DEF Linked
  <2>. QED
    BY <2>1, <2>2
<1>8. m[h] = IF l = 0 THEN Nil ELSE r[1]
  <2>1. m[s[1]] = IF 1 = k THEN Nil ELSE s[1 + 1]
    BY <1>1, <1>2 DEF Linked
  <2>2. l # 0 => r[1] = s[1 + 1]
    BY <1>3, <1>4
  <2>. QED
    BY <1>2, <1>3, <2>1, <2>2
<1>9. Linked(m, m[h], X \ {h}, IF l = 0 THEN Nil ELSE r[l], l, r)
  BY <1>3, <1>4, <1>5, <1>6, <1>7, <1>8 DEF Linked
<1>. QED
  BY <1>9 DEF Leads

(* Packets are put before others. *)
LEMMA LeadsJoin ==
  ASSUME NEW m, NEW w, NEW h, NEW X, NEW t, Leads(m, h, X, t), t # Nil,
         NEW g, NEW Y, NEW u, Leads(m, g, Y, u), X \cap Y = {},
         w[t] = g, \A q \in (X \cup Y) \ {t} : w[q] = m[q]
  PROVE  Leads(w, h, X \cup Y, IF u = Nil THEN t ELSE u)
<1>1. PICK k, s : Linked(m, h, X, t, k, s)
  BY DEF Leads
<1>2. PICK l, r : Linked(m, g, Y, u, l, r)
  BY DEF Leads
<1>3. /\ k \in Nat /\ l \in Nat /\ k # 0 /\ k \in 1 .. k /\ t = s[k]
      /\ \A i \in 1 .. k : s[i] \in Packets /\ s[i] \in X
      /\ \A i \in 1 .. l : r[i] \in Packets /\ r[i] \in Y
  BY <1>1, <1>2 DEF Linked
<1>. DEFINE e == k + l
            c == [i \in 1 .. e |-> IF i <= k THEN s[i] ELSE r[i - k]]
<1>4. e \in Nat /\ e = k + l /\ \A i \in 1 .. e : i \in 1 .. k \/ i - k \in 1 .. l
  BY <1>3
<1>5. /\ c \in [1 .. e -> Packets]
      /\ \A i \in 1 .. k : i \in 1 .. e /\ c[i] = s[i]
      /\ \A i \in 1 .. e : i \notin 1 .. k => c[i] = r[i - k] /\ i - k \in 1 .. l
  BY <1>3
<1>. HIDE DEF e, c
<1>6. \A i, j \in 1 .. e : c[i] = c[j] => i = j
  <2> SUFFICES ASSUME NEW i \in 1 .. e, NEW j \in 1 .. e, c[i] = c[j] PROVE i = j
    OBVIOUS
  <2>1. CASE i \in 1 .. k /\ j \in 1 .. k
    BY <1>1, <1>5, <2>1 DEF Linked
  <2>2. CASE i \notin 1 .. k /\ j \notin 1 .. k
    <3>1. i - k = j - k
      BY <1>2, <1>5, <2>2 DEF Linked
    <3>. QED
      BY <1>3, <1>4, <3>1
  <2>3. CASE (i \in 1 .. k) # (j \in 1 .. k)
    BY <1>3, <1>5, <2>3
  <2>. QED
    BY <2>1, <2>2, <2>3
<1>7. ASSUME NEW i \in 1 .. e PROVE w[c[i]] = IF i = e THEN Nil ELSE c[i + 1]
  <2>1. CASE i \in 1 .. k /\ i # k
    <3>1. s[i] # t /\ i + 1 \in 1 .. k /\ i # e
      BY <1>1, <1>3, <1>4, <2>1 DEF Linked
    <3>. QED
      BY <1>1, <1>3, <1>5, <2>1, <3>1 DEF Linked
  <2>2. CASE i = k
    <3>1. w[c[i]] = g
      BY <1>3, <1>5, <2>2
    <3>2. CASE l = 0
      BY <1>2, <1>4, <1>3, <2>2, <3>1, <3>2 DEF Linked
    <3>3. CASE l # 0
      <4>1. k + 1 \in 1 .. e /\ k + 1 \notin 1 .. k /\ (k + 1) - k = 1 /\ i # e
        BY <1>3, <1>4, <2>2, <3>3
      <4>. QED
        BY <1>2, <1>5, <2>2, <3>1, <3>3, <4>1 DEF Linked
    <3>. QED
      BY <3>2, <3>3
  <2>3. CASE i \notin 1 .. k
    <3>1. c[i] = r[i - k] /\ i - k \in 1 .. l /\ r[i - k] \in Y /\ r[i - k] # t
      BY <1>3, <1>5, <2>3
    <3>2. w[r[i - k]] = IF i - k = l THEN Nil ELSE r[(i - k) + 1]
      BY <1>2, <3>1 DEF Linked
    <3>3. i # e => i + 1 \in 1 .. e /\ i + 1 \notin 1 .. k /\ (i + 1) - k = (i - k) + 1
      BY <1>3, <1>4, <2>3
    <3>4. i - k = l <=> i = e
      BY <1>3, <1>4
    <3>. QED
      BY <1>5, <3>1, <3>2, <3>3, <3>4
  <2>. QED
    BY <2>1, <2>2, <2>3
<1>8. X \cup Y = { c[i] : i \in 1 .. e }
  <2>1. ASSUME NEW q \in X PROVE q \in { c[i] : i \in 1 .. e }
    BY <1>1, <1>5 DEF Linked
  <2>2. ASSUME NEW q \in Y PROVE q \in { c[i] : i \in 1 .. e }
    <3>1. PICK j \in 1 .. l : q = r[j]
      BY <1>2 DEF Linked
    <3>2. j + k \in 1 .. e /\ j + k \notin 1 .. k /\ (j + k) - k = j
      BY <1>3, <1>4
    <3>. QED
      BY <1>5, <3>1, <3>2
  <2>3. ASSUME NEW i \in 1 .. e PROVE c[i] \in X \cup Y
    BY <1>3, <1>5
  <2>. QED
    BY <2>1, <2>2, <2>3
<1>9. h = c[1] /\ e # 0
  BY <1>1, <1>3, <1>4, <1>5 DEF Linked
<1>10. (IF u = Nil THEN t ELSE u) = c[e]
  <2>1. CASE l = 0
    BY <1>2, <1>3, <1>4, <1>5, <2>1 DEF Linked
  <2>2. CASE l # 0
    <3>1. e \in 1 .. e /\ e \notin 1 .. k /\ e - k = l /\ l \in 1 .. l
      BY <1>3, <1>4, <2>2
    <3>2. u = r[l] /\ u # Nil
      BY <1>2, <1>3, <2>2, <3>1, DeferAssumption DEF Linked
    <3>. QED
      BY <1>5, <3>1, <3>2
  <2>. QED
    BY <2>1, <2>2
<1>11. Linked(w, h, X \cup Y, IF u = Nil THEN t ELSE u, e, c)
  BY <1>4, <1>5, <1>6, <1>7, <1>8, <1>9, <1>10 DEF Linked
<1>. QED
  BY <1>11 DEF Leads

(* A packet is added at the end. *)
LEMMA LeadsAdd ==
  ASSUME NEW m, NEW w, NEW h, NEW X, NEW t, Leads(m, h, X, t),
         NEW p \in Packets, p \notin X, w[p] = Nil, t # Nil => w[t] = p,
         \A q \in X \ {t} : w[q] = m[q]
  PROVE  Leads(w, IF t = Nil THEN p ELSE h, X \cup {p}, p)
<1>. DEFINE v == [q \in Packets |-> IF q = p THEN Nil ELSE m[q]]
<1>1. p # Nil /\ v[p] = Nil /\ \A q \in X : v[q] = m[q]
  BY LeadsTypes, DeferAssumption
<1>. HIDE DEF v
<1>2. Leads(v, p, {} \cup {p}, IF Nil = Nil THEN p ELSE Nil)
  BY <1>1, LeadsNone, LeadsPush
<1>3. Leads(v, p, {p}, p)
  BY <1>2
<1>4. Leads(v, h, X, t)
  BY <1>1, LeadsStill
<1>5. CASE t = Nil
  <2>1. X = {} /\ X \cup {p} = {p}
    BY <1>5, LeadsTypes
  <2>2. Leads(w, p, {p}, p)
    BY <1>1, <1>3, LeadsStill
  <2>. QED
    BY <1>5, <2>1, <2>2
<1>6. CASE t # Nil
  <2>1. X \cap {p} = {} /\ \A q \in (X \cup {p}) \ {t} : w[q] = v[q]
    BY <1>1
  <2>2. Leads(w, h, X \cup {p}, IF p = Nil THEN t ELSE p)
    BY <1>3, <1>4, <1>6, <2>1, LeadsJoin
  <2>. QED
    BY <1>1, <1>6, <2>2
<1>. QED
  BY <1>5, <1>6

(* There are no more links than packets. *)
LEMMA LinksFit ==
  ASSUME NEW m, NEW h, NEW X, NEW t, NEW k, NEW s, Linked(m, h, X, t, k, s)
  PROVE  Cardinality(Packets) \in Nat /\ k <= Cardinality(Packets)
<1>1. k \in Nat /\ IsFiniteSet(Packets) /\ Cardinality(Packets) \in Nat
  BY DeferAssumption, FS_CardinalityType DEF Linked
<1>2. IsFiniteSet(1 .. k) /\ Cardinality(1 .. k) = k
  BY <1>1, FS_Interval
<1>3. s \in Injection(1 .. k, Packets)
  BY DEF Linked, Injection, IsInjective
<1>4. Cardinality(1 .. k) <= Cardinality(Packets)
  BY <1>1, <1>3, FS_Injection
<1>. QED
  BY <1>1, <1>2, <1>4

(* A flow that owns all packets of the list takes them as they are linked. *)
LEMMA FlowGetAll ==
  ASSUME NEW X, NEW f, NEW h, NEW u, h = list["stream"].head, u = list["stream"].tail,
         Leads(next, h, X, u),
         next \in [Packets -> Packets \cup {Nil}], \A p \in X : pktFlow[p] = f
  PROVE  FlowGet(f) = [list  |-> [list EXCEPT !["stream"] = [head |-> Nil, tail |-> Nil]],
                       next  |-> next,
                       chain |-> h]
<1>1. PICK k, s : Linked(next, h, X, u, k, s)
  BY DEF Leads
<1>. DEFINE C == Cardinality(Packets)
            start == [pkt |-> list["stream"].head, prev |-> Nil, chain |-> Nil,
                head |-> list["stream"].head, tail |-> list["stream"].tail, next |-> next]
            W(n) == [pkt |-> IF n < k THEN s[n + 1] ELSE Nil,
                     prev |-> IF n = 0 \/ k = 0 THEN Nil ELSE IF n < k THEN s[n] ELSE s[k],
                     chain |-> IF n = 0 \/ k = 0 THEN Nil ELSE s[1],
                     head |-> IF n < k THEN s[n + 1] ELSE Nil,
                     tail |-> IF n < k THEN s[k] ELSE Nil,
                     next |-> IF n # 0 /\ n < k THEN [next EXCEPT ![s[n]] = Nil] ELSE next]
            g == [n \in 0 .. C |-> W(n)]
<1>2. C \in Nat /\ k \in Nat /\ k <= C
  <2>1. Cardinality(Packets) \in Nat /\ k <= Cardinality(Packets)
    BY <1>1, LinksFit
  <2>2. k \in Nat
    BY <1>1 DEF Linked
  <2>. QED
    BY <2>1, <2>2
<1>3. /\ \A i \in 1 .. k : s[i] \in Packets /\ s[i] # Nil /\ pktFlow[s[i]] = f
      /\ \A i \in 1 .. k : next[s[i]] = IF i = k THEN Nil ELSE s[i + 1]
      /\ \A i, j \in 1 .. k : s[i] = s[j] => i = j
  BY <1>1, DeferAssumption DEF Linked
<1>4. W(0) = start
  BY <1>1, <1>2 DEF Linked
<1>5. ASSUME NEW n \in Nat PROVE W(n + 1) = FlowGetTurn(W(n), f)
  <2>1. CASE k <= n
    BY <1>2, <2>1 DEF FlowGetTurn
  <2>2. CASE n < k
    <3>1. n + 1 \in 1 .. k /\ s[n + 1] \in Packets /\ s[n + 1] # Nil /\ pktFlow[s[n + 1]] = f
      BY <1>2, <1>3, <2>2
    <3>. DEFINE w == W(n)
                pk == s[n + 1]
                last == pk = s[k]
                after == [q \in Packets |-> IF q = pk THEN Nil
                                             ELSE IF q = w.prev THEN pk ELSE w.next[q]]
    <3>2. w.pkt = pk /\ w.head = pk /\ w.tail = s[k]
      BY <2>2
    <3>3. FlowGetTurn(w, f) = [pkt |-> IF last THEN Nil ELSE w.next[pk],
                                 prev |-> pk, chain |-> IF w.prev = Nil THEN pk ELSE w.chain,
                                 head |-> w.next[pk], tail |-> IF last THEN Nil ELSE w.tail,
                                 next |-> after]
      BY <3>1, <3>2 DEF FlowGetTurn
    <3>4. last <=> n + 1 = k
      BY <1>2, <1>3, <3>1
    <3>5. w.next[pk] = IF n + 1 = k THEN Nil ELSE s[(n + 1) + 1]
      <4>1. CASE n = 0
        BY <1>3, <3>1, <4>1
      <4>2. CASE n # 0
        <5>1. n \in 1 .. k /\ s[n] # pk
          BY <1>2, <1>3, <2>2, <4>2, <3>1
        <5>. QED
          BY <1>3, <2>2, <3>1, <4>2, <5>1
      <4>. QED
        BY <4>1, <4>2
    <3>6. w.prev = IF n = 0 THEN Nil ELSE s[n]
      BY <1>2, <2>2
    <3>7. (IF w.prev = Nil THEN pk ELSE w.chain) = s[1]
      <4>1. n # 0 => n \in 1 .. k
        BY <1>2, <2>2
      <4>. QED
        BY <1>3, <3>6, <4>1, <2>2
    <3>8. after = W(n + 1).next
      <4>1. after = IF n + 1 = k THEN next ELSE [next EXCEPT ![pk] = Nil]
        <5> SUFFICES ASSUME NEW q \in Packets
                     PROVE  after[q] = (IF n + 1 = k THEN next ELSE [next EXCEPT ![pk] = Nil])[q]
          OBVIOUS
        <5>1. CASE q = pk
          BY <1>3, <3>1, <5>1
        <5>2. CASE q # pk /\ n = 0
          BY <1>2, <3>6, <5>2, <3>1, DeferAssumption
        <5>3. CASE q # pk /\ n # 0
          <6>1. n \in 1 .. k /\ n # k /\ next[s[n]] = pk /\ s[n] \in Packets
            BY <1>2, <1>3, <2>2, <5>3
          <6>2. w.next = [next EXCEPT ![s[n]] = Nil]
            BY <2>2, <5>3
          <6>. QED
            BY <3>6, <5>3, <6>1, <6>2
        <5>. QED
          BY <5>1, <5>2, <5>3
      <4>2. W(n + 1).next = IF n + 1 < k THEN [next EXCEPT ![s[n + 1]] = Nil] ELSE next
        OBVIOUS
      <4>. QED
        BY <1>2, <2>2, <4>1, <4>2
    <3>. HIDE DEF after, last
    <3>9. W(n + 1) = [pkt |-> IF n + 1 < k THEN s[(n + 1) + 1] ELSE Nil,
                     prev |-> s[n + 1],
                     chain |-> s[1],
                     head |-> IF n + 1 < k THEN s[(n + 1) + 1] ELSE Nil,
                     tail |-> IF n + 1 < k THEN s[k] ELSE Nil,
                     next |-> W(n + 1).next]
      BY <1>2, <2>2
    <3>10. n + 1 < k <=> ~ (n + 1 = k)
      BY <1>2, <2>2
    <3>11. w = W(n)
      OBVIOUS
    <3>. HIDE DEF W, w
    <3>. QED
      BY <3>11, <3>2, <3>3, <3>4, <3>5, <3>7, <3>8, <3>9, <3>10
  <2>. QED
    BY <1>2, <2>1, <2>2
<1>6. \A n \in 0 .. C : g[n] = W(n)
  OBVIOUS
<1>7. g = [n \in 0 .. C |-> IF n = 0 THEN start ELSE FlowGetTurn(g[n - 1], f)]
  <2> SUFFICES ASSUME NEW n \in 0 .. C
               PROVE  W(n) = IF n = 0 THEN start ELSE FlowGetTurn(g[n - 1], f)
    BY Zenon
  <2>1. CASE n = 0
    BY <1>4, <2>1
  <2>2. CASE n # 0
    <3>1. n - 1 \in Nat /\ n - 1 \in 0 .. C /\ (n - 1) + 1 = n
      BY <1>2, <2>2
    <3>2. W((n - 1) + 1) = FlowGetTurn(W(n - 1), f)
      BY <1>5, <3>1
    <3>. HIDE DEF W
    <3>. QED
      BY <1>6, <2>2, <3>1, <3>2
  <2>. QED
    BY <2>1, <2>2
<1>. DEFINE T == CHOOSE t : t = [n \in 0 .. C |-> IF n = 0 THEN start ELSE FlowGetTurn(t[n - 1], f)]
<1>8. T = [n \in 0 .. C |-> IF n = 0 THEN start ELSE FlowGetTurn(T[n - 1], f)]
  <2>. HIDE DEF g, start
  <2>. QED
    BY <1>7, Zenon
<1>9. T[C] = g[C]
  <2>. DEFINE Good == { n \in Nat : n \in 0 .. C => T[n] = g[n] }
  <2>. HIDE DEF g, start, T, C
  <2>1. 0 \in Good
    <3>1. 0 \in 0 .. C
      BY <1>2
    <3>2. T[0] = start
      BY <1>8, <3>1
    <3>3. g[0] = start
      BY <1>7, <3>1
    <3>. QED
      BY <3>2, <3>3
  <2>2. ASSUME NEW n \in Nat, n \in Good PROVE n + 1 \in Good
    <3> SUFFICES ASSUME n + 1 \in 0 .. C PROVE T[n + 1] = g[n + 1]
      OBVIOUS
    <3>1. n \in 0 .. C /\ (n + 1) - 1 = n /\ n + 1 # 0
      BY <1>2
    <3>2. T[n + 1] = FlowGetTurn(T[n], f)
      BY <1>8, <3>1
    <3>3. g[n + 1] = FlowGetTurn(g[n], f)
      BY <1>7, <3>1
    <3>. QED
      BY <2>2, <3>1, <3>2, <3>3
  <2>. HIDE DEF Good
  <2>3. Nat \subseteq Good
    BY <2>1, <2>2, NatSetInduction
  <2>4. C \in Good /\ C \in 0 .. C
    BY <1>2, <2>3
  <2>. QED
    BY <2>4 DEF Good
<1>10. g[C].head = Nil /\ g[C].tail = Nil /\ g[C].next = next /\ g[C].chain = h
  <2>1. g[C] = W(C) /\ ~ (C < k) /\ C \in Nat
    BY <1>2, <1>6
  <2>2. (IF C = 0 \/ k = 0 THEN Nil ELSE s[1]) = h
    BY <1>1, <1>2 DEF Linked
  <2>. HIDE DEF g
  <2>. QED
    BY <2>1, <2>2
<1>11. FlowGet(f) = [list  |-> [list EXCEPT !["stream"] = [head |-> T[C].head, tail |-> T[C].tail]],
                     next  |-> T[C].next,
                     chain |-> T[C].chain]
  BY Zenon DEF FlowGet
<1>. HIDE DEF T, g
<1>. QED
  BY <1>9, <1>10, <1>11

(* The packets of a list, as the model defines them, are those linked from *)
(* its head on.                                                            *)
LEMMA LeadsFrom ==
  ASSUME NEW h, NEW X, NEW t, Leads(next, h, X, t)
  PROVE  From(h) = X
<1>1. X \in SUBSET Packets /\ Follows(X, h)
  BY LeadsTypes, LeadsOnly DEF Follows
<1>2. \A S \in SUBSET Packets : Follows(S, h) => X \subseteq S
  BY LeadsOnly DEF Follows
<1>. QED
  BY <1>1, <1>2 DEF From

-----------------------------------------------------------------------------
(* What the variables are. *)
Stages == {"idle", "defer", "takeAcks", "injectAcks", "takeStream", "injectStream"}

TypeInv ==
  /\ list \in [Lists -> [head : Packets \cup {Nil}, tail : Packets \cup {Nil}]]
  /\ next \in [Packets -> Packets \cup {Nil}]
  /\ pktFlow \in [Packets -> Flows \cup {Nil}] /\ pktList \in [Packets -> Lists \cup {Nil}]
  /\ free \in Packets \cup {Nil} /\ pool \in SUBSET Packets /\ sent \in SUBSET Packets
  /\ flags \in [Flows -> SUBSET FlagNames]
  /\ stage \in [Actors -> Stages] /\ bits \in [Actors -> SUBSET Acks]
  /\ chain \in [Actors -> Packets \cup {Nil}]
  /\ listBits \in SUBSET Acks /\ sending \in SUBSET Flows /\ refused \in SUBSET Flows

(* What an actor has taken, it injects before it does anything else; only  *)
(* a fragmented flow is cut.                                               *)
FlowInv ==
  /\ \A a \in Actors : chain[a] # Nil => stage[a] \in {"injectAcks", "injectStream"}
  /\ \A f \in Flows : stage[f] \notin {"takeAcks", "injectAcks"}
  /\ \A f \in Flows : stage[f] = "takeStream" \/ f \in sending \/ {"fragment", "fragmentDefer"} \cap flags[f] # {}
        => f \in FragmentFlows

(* An ACK waits only while the bit of its list is set; and while the power *)
(* is off, only until the power callback has taken it.                     *)
AsleepInv ==
  /\ list["out"].head # Nil => "out" \in listBits
  /\ powerOff /\ ~ overtaken =>
       /\ \A f \in Flows : stage[f] # "defer"
       /\ list["out"].head = Nil \/ (stage["power"] = "takeAcks" /\ bits["power"] = Acks)

(* When the callouts of a flow do not overlap: *)
SerialInv ==
  ~ StreamRace => \A f \in sending : "fragmented" \notin flags[f] /\ stage[f] \notin {"takeStream", "injectStream"}

(* The places where packets are linked, and the first packet of each.      *)
Heads == AllPlaces \ {"sent"}

HeadOf(x) ==
  CASE x = "free" -> free
    [] x \in Lists -> list[x].head
    [] x \in Actors -> chain[x]

(* The packets of the pool, R[x] at place x. *)
Arranged(R) ==
  /\ R \in [AllPlaces -> SUBSET Packets] /\ R["sent"] = sent
  /\ \A x, y \in AllPlaces : x # y => R[x] \cap R[y] = {}
  /\ pool = UNION { R[x] : x \in AllPlaces }
  /\ \A x \in Heads : \E t : Leads(next, HeadOf(x), R[x], t) /\ (x \in Lists => t = list[x].tail)
  /\ \A p \in R["stream"] : pktFlow[p] \in FragmentFlows

(* No packet of a flow waits for a segment that has passed. *)
Passed(R) ==
  \A f \in Flows \ refused :
    "fragmented" \in flags[f] \/ stage[f] = "injectStream" => \A p \in R["stream"] : pktFlow[p] # f

(* One flow is fragmented at most.                                         *)
OneFlow == Cardinality(FragmentFlows) <= 1

PoolInv == OneFlow => \E R : Arranged(R) /\ (~ StreamRace => Passed(R))

IInv == TypeInv /\ FlowInv /\ AsleepInv /\ SerialInv /\ PoolInv

-----------------------------------------------------------------------------
(* The places of a packet are different ones. *)
LEMMA PlacesAre ==
  /\ \A l \in Lists : l # "free" /\ l # "sent" /\ l \notin Actors /\ l \in Heads
  /\ \A a \in Actors : a # "free" /\ a # "sent" /\ a \notin Lists /\ a \in Heads
  /\ "free" \in Heads /\ "free" \notin Lists \cup Actors /\ "sent" \notin Lists \cup Actors /\ "sent" \in AllPlaces
  /\ \A x \in Heads : x = "free" \/ x \in Lists \/ x \in Actors
  /\ \A x \in AllPlaces : x = "sent" \/ x \in Heads
  /\ Heads \subseteq AllPlaces /\ "sent" \notin Heads
BY DeferAssumption DEF Heads, AllPlaces, Lists, Acks, Actors

(* The first packet of each place, *)
LEMMA HeadsAre ==
  /\ HeadOf("free") = free
  /\ \A l \in Lists : HeadOf(l) = list[l].head
  /\ \A a \in Actors : HeadOf(a) = chain[a]
<1>1. HeadOf("free") = free
  BY PlacesAre DEF HeadOf
<1>2. ASSUME NEW l \in Lists PROVE HeadOf(l) = list[l].head
  BY PlacesAre DEF HeadOf
<1>3. ASSUME NEW a \in Actors PROVE HeadOf(a) = chain[a]
  BY PlacesAre DEF HeadOf
<1>. QED
  BY <1>1, <1>2, <1>3

(* and after a step. *)
LEMMA HeadsWillBe ==
  /\ HeadOf("free")' = free'
  /\ \A l \in Lists : HeadOf(l)' = list'[l].head
  /\ \A a \in Actors : HeadOf(a)' = chain'[a]
<1>1. HeadOf("free")' = free'
  BY PlacesAre DEF HeadOf
<1>2. ASSUME NEW l \in Lists PROVE HeadOf(l)' = list'[l].head
  BY PlacesAre DEF HeadOf
<1>3. ASSUME NEW a \in Actors PROVE HeadOf(a)' = chain'[a]
  BY PlacesAre DEF HeadOf
<1>. QED
  BY <1>1, <1>2, <1>3

(* Packets move between the places D, and those of N come into the pool;   *)
(* they are at T after it.                                                 *)
Moves(R, T, D, N) ==
  /\ T \in [AllPlaces -> SUBSET Packets] /\ T["sent"] = sent'
  /\ D \in SUBSET AllPlaces /\ N \in SUBSET Packets /\ N \cap pool = {} /\ pool' = pool \cup N
  /\ \A x \in AllPlaces \ D : T[x] = R[x]
  /\ \A x \in Heads \ D : /\ HeadOf(x)' = HeadOf(x)
                          /\ x \in Lists => list'[x].tail = list[x].tail
                          /\ \A q \in R[x] : next'[q] = next[q]
  /\ \A x \in Heads \cap D : \E t : Leads(next', HeadOf(x)', T[x], t) /\ (x \in Lists => t = list'[x].tail)
  /\ \A x, y \in D : x # y => T[x] \cap T[y] = {}
  /\ \A p \in Packets : (\E x \in D : p \in T[x]) <=> p \in N \/ \E x \in D : p \in R[x]
  /\ \A p \in T["stream"] : pktFlow'[p] \in FragmentFlows

(* Packets that move so are arranged after it. *)
LEMMA Rearranged ==
  ASSUME NEW R, Arranged(R), NEW T, NEW D, NEW N, Moves(R, T, D, N)
  PROVE  Arranged(T)'
<1>0. /\ T \in [AllPlaces -> SUBSET Packets] /\ T["sent"] = sent'
      /\ D \in SUBSET AllPlaces /\ N \in SUBSET Packets /\ N \cap pool = {} /\ pool' = pool \cup N
      /\ \A x \in AllPlaces \ D : T[x] = R[x]
      /\ \A x \in Heads \ D : /\ HeadOf(x)' = HeadOf(x)
                              /\ x \in Lists => list'[x].tail = list[x].tail
                              /\ \A q \in R[x] : next'[q] = next[q]
      /\ \A x \in Heads \cap D : \E t : Leads(next', HeadOf(x)', T[x], t) /\ (x \in Lists => t = list'[x].tail)
      /\ \A x, y \in D : x # y => T[x] \cap T[y] = {}
      /\ \A p \in Packets : (\E x \in D : p \in T[x]) <=> p \in N \/ \E x \in D : p \in R[x]
      /\ \A p \in T["stream"] : pktFlow'[p] \in FragmentFlows
  BY DEF Moves
<1>. USE <1>0
<1>1. ASSUME NEW x \in AllPlaces, NEW y \in AllPlaces, x # y PROVE T[x] \cap T[y] = {}
  <2>1. ASSUME NEW v \in D, NEW w \in AllPlaces \ D PROVE T[v] \cap T[w] = {}
    <3>1. ASSUME NEW p \in T[v] PROVE p \notin T[w]
      <4>1. p \in Packets /\ T[w] = R[w]
        BY <2>1, <3>1
      <4>2. CASE p \in N
        BY <2>1, <4>1, <4>2 DEF Arranged
      <4>3. CASE p \notin N
        <5>1. PICK z \in D : p \in R[z]
          BY <2>1, <3>1, <4>1, <4>3
        <5>2. z # w /\ z \in AllPlaces /\ w \in AllPlaces
          BY <2>1
        <5>. QED
          BY <4>1, <5>1, <5>2 DEF Arranged
      <4>. QED
        BY <4>2, <4>3
    <3>. QED
      BY <3>1
  <2>2. CASE x \in D /\ y \in D
    BY <1>1, <2>2
  <2>3. CASE x \notin D /\ y \notin D
    BY <1>1, <2>3 DEF Arranged
  <2>. QED
    BY <2>1, <2>2, <2>3
<1>2. pool' = UNION { T[x] : x \in AllPlaces }
  <2>1. ASSUME NEW p, p \in pool' PROVE \E x \in AllPlaces : p \in T[x]
    <3>1. CASE p \in N
      BY <3>1
    <3>2. CASE p \notin N
      <4>1. PICK x \in AllPlaces : p \in R[x] /\ p \in Packets
        BY <2>1, <3>2 DEF Arranged
      <4>. QED
        BY <4>1
    <3>. QED
      BY <3>1, <3>2
  <2>2. ASSUME NEW x \in AllPlaces, NEW p \in T[x] PROVE p \in pool'
    <3>1. CASE x \in D
      <4>1. p \in N \/ \E y \in D : p \in R[y]
        BY <2>2, <3>1
      <4>. QED
        BY <4>1 DEF Arranged
    <3>2. CASE x \notin D
      BY <2>2, <3>2 DEF Arranged
    <3>. QED
      BY <3>1, <3>2
  <2>. QED
    BY <2>1, <2>2
<1>3. ASSUME NEW x \in Heads
      PROVE  \E t : Leads(next', HeadOf(x)', T[x], t) /\ (x \in Lists => t = list'[x].tail)
  <2>1. CASE x \in D
    BY <2>1
  <2>2. CASE x \notin D
    <3>1. PICK t : Leads(next, HeadOf(x), R[x], t) /\ (x \in Lists => t = list[x].tail)
      BY DEF Arranged
    <3>2. T[x] = R[x] /\ HeadOf(x)' = HeadOf(x) /\ \A q \in R[x] : next'[q] = next[q]
      BY <2>2, PlacesAre
    <3>3. Leads(next', HeadOf(x), R[x], t)
      BY <3>1, <3>2, LeadsStill
    <3>. QED
      BY <2>2, <3>1, <3>2, <3>3
  <2>. QED
    BY <2>1, <2>2
<1>. QED
  BY <1>1, <1>2, <1>3 DEF Arranged

(* A packet of the pool is in one place. *)
LEMMA OnePlace ==
  ASSUME NEW R, Arranged(R)
  PROVE  /\ R \in [AllPlaces -> SUBSET Packets] /\ R["sent"] = sent
         /\ \A x, y \in AllPlaces : \A p \in R[x] : p \in R[y] => x = y
         /\ \A x \in AllPlaces : \A p \in R[x] : p \in pool
BY DEF Arranged

(* A packet that is deferred goes from the free chain, or from outside the *)
(* pool, to the end of a list.                                             *)
LEMMA AddArranges ==
  ASSUME TypeInv, NEW R, Arranged(R), NEW l \in Lists, NEW f \in Flows, Add(l, f),
         l = "stream" => f \in FragmentFlows, UNCHANGED <<chain, sent>>
  PROVE  \E T : /\ Arranged(T)'
                /\ \A p \in T["stream"] : (p \in R["stream"] /\ pktFlow'[p] = pktFlow[p])
                                             \/ (l = "stream" /\ pktFlow'[p] = f)
<1>1. PICK p \in Packets :
        /\ CanGet(p)
        /\ free' = IF free = Nil THEN Nil ELSE next[free]
        /\ pool' = pool \cup {p}
        /\ ListAdd(l, p)
        /\ pktFlow' = [pktFlow EXCEPT ![p] = f]
  BY DEF Add
<1>. DEFINE tail == list[l].tail
<1>a. PICK N, D : N = {p} \ pool /\ D = {"free", l}
  OBVIOUS
<1>2. /\ "free" \in AllPlaces /\ l \in AllPlaces /\ l # "free" /\ l # "sent" /\ "free" \in Heads /\ l \in Heads
      /\ Nil \notin Packets /\ p # Nil /\ "stream" \in AllPlaces /\ "stream" # "free" /\ Heads \subseteq AllPlaces
      /\ "sent" \notin D /\ "sent" \in AllPlaces
  BY <1>a, PlacesAre, DeferAssumption DEF Lists
<1>3. /\ \E t : Leads(next, free, R["free"], t)
      /\ Leads(next, list[l].head, R[l], tail)
  BY <1>2, HeadsAre DEF Arranged
<1>4. /\ \A x \in AllPlaces : x # "free" => p \notin R[x]
      /\ free = Nil => p \notin pool
      /\ free # Nil => p = free
  <2>1. CASE free # Nil
    BY <1>1, <1>2, <1>3, <2>1, LeadsTypes, OnePlace DEF CanGet
  <2>2. CASE free = Nil
    <3>1. p \in Packets \ pool
      BY <1>1, <2>2 DEF CanGet, TypeInv
    <3>. QED
      BY <2>2, <3>1, OnePlace
  <2>. QED
    BY <2>1, <2>2
<1>5. /\ list'[l].head = (IF tail = Nil THEN p ELSE list[l].head) /\ list'[l].tail = p
      /\ \A m \in Lists : m # l => list'[m] = list[m]
      /\ next'[p] = Nil
      /\ \A q \in Packets : q # p => next'[q] = IF q = tail THEN p ELSE next[q]
  BY <1>1 DEF ListAdd, TypeInv
<1>6. PICK T \in [AllPlaces -> SUBSET Packets] :
        /\ T["free"] = R["free"] \ {p} /\ T[l] = R[l] \cup {p}
        /\ \A x \in AllPlaces \ D : T[x] = R[x]
  <2>. DEFINE T == [R EXCEPT !["free"] = @ \ {p}, ![l] = @ \cup {p}]
  <2>1. T \in [AllPlaces -> SUBSET Packets]
    BY <1>a, <1>2, OnePlace
  <2>2. T["free"] = R["free"] \ {p} /\ T[l] = R[l] \cup {p} /\ \A x \in AllPlaces \ D : T[x] = R[x]
    BY <1>a, <1>2, OnePlace
  <2>. QED
    BY <2>1, <2>2
<1>7. tail # Nil => tail \in R[l] /\ tail # p /\ tail \in Packets
  BY <1>2, <1>3, <1>4, LeadsTypes
<1>8. \A x \in AllPlaces : x # l => \A q \in R[x] : q \in Packets /\ (q # p => next'[q] = next[q])
  BY <1>2, <1>5, <1>7, OnePlace
<1>9. \E t : Leads(next', free', T["free"], t)
  <2>1. CASE free = Nil
    <3>1. R["free"] = {} /\ free' = Nil
      BY <1>1, <1>2, <1>3, <2>1, LeadsTypes
    <3>2. T["free"] = {}
      BY <1>6, <3>1
    <3>. QED
      BY <3>1, <3>2, LeadsNone
  <2>2. CASE free # Nil
    <3>1. PICK t : Leads(next, next[free], R["free"] \ {p}, t)
      BY <1>3, <1>4, <2>2, LeadsPop
    <3>2. \A q \in R["free"] \ {p} : next'[q] = next[q]
      BY <1>2, <1>8
    <3>3. Leads(next', next[free], R["free"] \ {p}, t)
      BY <3>1, <3>2, LeadsStill
    <3>. QED
      BY <1>1, <1>6, <2>2, <3>3
  <2>. QED
    BY <2>1, <2>2
<1>10. Leads(next', list'[l].head, T[l], p)
  <2>1. \A q \in R[l] \ {tail} : next'[q] = next[q]
    BY <1>2, <1>4, <1>5, OnePlace
  <2>2. p \notin R[l] /\ next'[p] = Nil /\ (tail # Nil => next'[tail] = p)
    BY <1>2, <1>4, <1>5, <1>7
  <2>. HIDE DEF tail
  <2>3. Leads(next', IF tail = Nil THEN p ELSE list[l].head, R[l] \cup {p}, p)
    BY <1>3, <2>1, <2>2, LeadsAdd
  <2>. QED
    BY <1>5, <1>6, <2>3
<1>. HIDE DEF tail
<1>11. \A x \in Heads \cap D : \E t : Leads(next', HeadOf(x)', T[x], t) /\ (x \in Lists => t = list'[x].tail)
  BY <1>a, <1>2, <1>5, <1>9, <1>10, HeadsWillBe, PlacesAre
<1>12. ASSUME NEW x \in Heads \ D
       PROVE  /\ HeadOf(x)' = HeadOf(x)
              /\ x \in Lists => list'[x].tail = list[x].tail
              /\ \A q \in R[x] : next'[q] = next[q]
  <2>1. HeadOf(x)' = HeadOf(x)
    BY <1>a, <1>5, HeadsAre, HeadsWillBe, PlacesAre
  <2>2. \A q \in R[x] : next'[q] = next[q]
    BY <1>a, <1>2, <1>4, <1>8
  <2>. QED
    BY <1>a, <1>5, <2>1, <2>2
<1>13. \A x, y \in D : x # y => T[x] \cap T[y] = {}
  BY <1>a, <1>2, <1>6, OnePlace
<1>14. \A q \in Packets : (\E x \in D : q \in T[x]) <=> q \in N \/ \E x \in D : q \in R[x]
  <2>1. p \in N \/ p \in R["free"]
    <3>1. free # Nil => p \in R["free"]
      BY <1>3, <1>4, LeadsTypes
    <3>. QED
      BY <1>a, <1>4, <3>1
  <2>. QED
    BY <1>a, <1>6, <2>1
<1>15. \A q \in T["stream"] : (q \in R["stream"] /\ pktFlow'[q] = pktFlow[q]) \/ (l = "stream" /\ pktFlow'[q] = f)
  <2>1. \A q \in Packets : pktFlow'[q] = IF q = p THEN f ELSE pktFlow[q]
    BY <1>1 DEF TypeInv
  <2>2. CASE l = "stream"
    BY <1>2, <1>6, <2>1, <2>2
  <2>3. CASE l # "stream"
    <3>1. T["stream"] = R["stream"] /\ p \notin R["stream"] /\ R["stream"] \subseteq Packets
      BY <1>a, <1>2, <1>4, <1>6, <2>3, OnePlace
    <3>. QED
      BY <2>1, <3>1
  <2>. QED
    BY <2>2, <2>3
<1>16. \A q \in T["stream"] : pktFlow'[q] \in FragmentFlows
  BY <1>15 DEF Arranged
<1>17. T["sent"] = sent' /\ N \cap pool = {} /\ pool' = pool \cup N /\ N \in SUBSET Packets /\ D \in SUBSET AllPlaces
  BY <1>a, <1>1, <1>2, <1>6, OnePlace
<1>18. Moves(R, T, D, N)
  BY <1>6, <1>11, <1>12, <1>13, <1>14, <1>16, <1>17 DEF Moves
<1>. QED
  BY <1>15, <1>18, Rearranged

(* One flow is fragmented, or none. *)
LEMMA OneOnly ==
  ASSUME OneFlow, NEW f \in FragmentFlows, NEW g \in FragmentFlows
  PROVE  f = g
<1> SUFFICES ASSUME f # g PROVE FALSE
  OBVIOUS
<1>1. IsFiniteSet(FragmentFlows)
  BY DeferAssumption, FS_Subset
<1>2. IsFiniteSet({f}) /\ Cardinality({f}) = 1
  BY FS_Singleton
<1>3. Cardinality({f} \cup {g}) = 2
  BY <1>2, FS_AddElement
<1>4. {f} \cup {g} \subseteq FragmentFlows
  OBVIOUS
<1>5. Cardinality({f} \cup {g}) <= Cardinality(FragmentFlows)
  BY <1>1, <1>4, FS_Subset
<1>6. Cardinality(FragmentFlows) \in Nat
  BY <1>1, FS_CardinalityType
<1>. QED
  BY <1>3, <1>5, <1>6 DEF OneFlow

PtrTypes(s) ==
  /\ s.list \in [Lists -> [head : Packets \cup {Nil}, tail : Packets \cup {Nil}]]
  /\ s.next \in [Packets -> Packets \cup {Nil}]

(* What fort_defer_list_get leaves: the packets X of the list are before   *)
(* the chain Y.                                                            *)
Gets(s, l, X, Y, r) ==
  /\ PtrTypes(r)
  /\ r.list[l].head = Nil /\ r.list[l].tail = Nil /\ \A m \in Lists : m # l => r.list[m] = s.list[m]
  /\ \A q \in Packets : q \notin X => r.next[q] = s.next[q]
  /\ \E v : Leads(r.next, r.chain, X \cup Y, v)

(* It puts the list before the chain. *)
LEMMA GetAll ==
  ASSUME NEW s, NEW l \in Lists, PtrTypes(s), NEW X, NEW Y, NEW u,
         Leads(s.next, s.list[l].head, X, s.list[l].tail), Leads(s.next, s.chain, Y, u), X \cap Y = {},
         NEW r, r = ListGet(s, l)
  PROVE  Gets(s, l, X, Y, r)
<1>. DEFINE h == s.list[l].head
            t == s.list[l].tail
<1>1. Nil \notin Packets
  BY DeferAssumption
<1>2. CASE h = Nil
  <2>1. t = Nil /\ X = {}
    BY <1>2, LeadsTypes
  <2>2. r = s /\ X \cup Y = Y
    BY <1>2, <2>1 DEF ListGet
  <2>. QED
    BY <1>2, <2>1, <2>2 DEF Gets
<1>3. CASE h # Nil
  <2>1. t # Nil /\ t \in X /\ t \in Packets /\ h \in Packets /\ X \subseteq Packets /\ Y \subseteq Packets
    BY <1>3, LeadsTypes
  <2>2. r = [list  |-> [s.list EXCEPT ![l] = [head |-> Nil, tail |-> Nil]],
             next  |-> [s.next EXCEPT ![t] = s.chain], chain |-> h]
    BY <1>3 DEF ListGet
  <2>3. s.chain \in Packets \cup {Nil}
    BY LeadsTypes
  <2>4. PtrTypes(r)
    BY <2>1, <2>2, <2>3 DEF PtrTypes
  <2>5. r.list[l].head = Nil /\ r.list[l].tail = Nil /\ \A m \in Lists : m # l => r.list[m] = s.list[m]
    BY <2>2 DEF PtrTypes
  <2>6. r.next[t] = s.chain /\ \A q \in Packets : q # t => r.next[q] = s.next[q]
    BY <2>1, <2>2 DEF PtrTypes
  <2>7. \A q \in (X \cup Y) \ {t} : r.next[q] = s.next[q]
    BY <2>1, <2>6
  <2>8. r.chain = h
    BY <2>2
  <2>. HIDE DEF t, h
  <2>9. Leads(r.next, h, X \cup Y, IF u = Nil THEN t ELSE u)
    <3>1. Leads(s.next, h, X, t)
      BY DEF h, t
    <3>. QED
      BY <2>1, <2>6, <2>7, <3>1, LeadsJoin, ZenonT(60)
  <2>. QED
    BY <2>1, <2>4, <2>5, <2>6, <2>8, <2>9 DEF Gets
<1>. QED
  BY <1>2, <1>3

(* A packet that is injected goes from its chain to those being injected,  *)
(* or to the free chain.                                                   *)
LEMMA InjectArranges ==
  ASSUME TypeInv, NEW R, Arranged(R), NEW a \in Actors, Inject(a)
  PROVE  \E T : Arranged(T)' /\ \A q \in T["stream"] : q \in R["stream"] /\ pktFlow'[q] = pktFlow[q]
<1>. DEFINE p == chain[a]
<1>1. p # Nil /\ p \in Packets /\ pool' = pool /\ list' = list /\ chain' = [chain EXCEPT ![a] = next[p]]
  BY DEF Inject, TypeInv
<1>2. /\ chain'[a] = next[p]
      /\ \A b \in Actors : b # a => chain'[b] = chain[b]
  BY <1>1 DEF TypeInv
<1>3. /\ a \in AllPlaces /\ a \in Heads /\ a # "free" /\ a # "sent" /\ a \notin Lists /\ a # "stream"
      /\ "free" \in Heads /\ "free" \in AllPlaces /\ "sent" \in AllPlaces /\ "stream" \in AllPlaces
      /\ Heads \subseteq AllPlaces /\ "sent" \notin Heads /\ "free" \notin Lists /\ "free" \notin Actors
  BY PlacesAre DEF Lists
<1>4. PICK t : Leads(next, p, R[a], t)
  BY <1>3, HeadsAre DEF Arranged
<1>5. p \in R[a] /\ \A x \in AllPlaces : x # a => p \notin R[x]
  BY <1>1, <1>3, <1>4, LeadsTypes, OnePlace
<1>6. PICK u : Leads(next, next[p], R[a] \ {p}, u)
  BY <1>1, <1>4, LeadsPop
<1>. HIDE DEF p
<1>8. CASE sent' = sent \cup {p} /\ next' = [next EXCEPT ![p] = Nil] /\ UNCHANGED <<free, pktFlow, pktList>>
  <2>1. PICK T : T = [R EXCEPT ![a] = @ \ {p}, !["sent"] = @ \cup {p}]
    OBVIOUS
  <2>2. /\ T \in [AllPlaces -> SUBSET Packets] /\ T[a] = R[a] \ {p} /\ T["sent"] = R["sent"] \cup {p}
        /\ \A x \in AllPlaces \ {a, "sent"} : T[x] = R[x]
        /\ \A x, y \in {a, "sent"} : x # y => T[x] \cap T[y] = {}
        /\ \A q \in Packets : (\E x \in {a, "sent"} : q \in T[x]) <=> q \in {} \/ \E x \in {a, "sent"} : q \in R[x]
        /\ T["stream"] = R["stream"] /\ p \notin R["stream"]
        /\ {a, "sent"} \in SUBSET AllPlaces /\ {} \in SUBSET Packets /\ {} \cap pool = {} /\ pool' = pool \cup {}
    <3>1. /\ T \in [AllPlaces -> SUBSET Packets] /\ T[a] = R[a] \ {p} /\ T["sent"] = R["sent"] \cup {p}
          /\ \A x \in AllPlaces \ {a, "sent"} : T[x] = R[x]
      BY <1>1, <1>3, <2>1, OnePlace
    <3>2. \A x, y \in {a, "sent"} : x # y => T[x] \cap T[y] = {}
      BY <1>3, <3>1, OnePlace
    <3>3. \A q \in Packets : (\E x \in {a, "sent"} : q \in T[x]) <=> q \in {} \/ \E x \in {a, "sent"} : q \in R[x]
      BY <1>5, <3>1
    <3>. QED
      BY <1>1, <1>3, <1>5, <3>1, <3>2, <3>3
  <2>3. \A q \in Packets : q # p => next'[q] = next[q]
    BY <1>8 DEF TypeInv
  <2>4. Leads(next', next[p], R[a] \ {p}, u)
    <3>1. \A q \in R[a] \ {p} : next'[q] = next[q]
      BY <1>3, <2>3, OnePlace
    <3>. QED
      BY <1>6, <3>1, LeadsStill
  <2>5. \A x \in Heads \cap {a, "sent"} : \E v : Leads(next', HeadOf(x)', T[x], v) /\ (x \in Lists => v = list'[x].tail)
    <3>1. Leads(next', HeadOf(a)', T[a], u)
      BY <1>2, <2>2, <2>4, HeadsWillBe
    <3>2. Heads \cap {a, "sent"} = {a}
      BY <1>3
    <3>. QED
      BY <1>3, <3>1, <3>2
  <2>6. ASSUME NEW x \in Heads \ {a, "sent"}
        PROVE  /\ HeadOf(x)' = HeadOf(x)
               /\ x \in Lists => list'[x].tail = list[x].tail
               /\ \A q \in R[x] : next'[q] = next[q]
    <3>1. HeadOf(x)' = HeadOf(x)
      BY <1>1, <1>2, <1>8, HeadsAre, HeadsWillBe, PlacesAre
    <3>2. \A q \in R[x] : next'[q] = next[q]
      BY <1>3, <1>5, <2>3, OnePlace
    <3>. QED
      BY <1>1, <3>1, <3>2
  <2>7. T["sent"] = sent'
    BY <1>8, <2>2, OnePlace
  <2>8. \A q \in T["stream"] : pktFlow'[q] \in FragmentFlows
    BY <1>8, <2>2 DEF Arranged
  <2>9. Moves(R, T, {a, "sent"}, {})
    BY <2>2, <2>5, <2>6, <2>7, <2>8 DEF Moves
  <2>. QED
    BY <1>8, <2>2, <2>9, Rearranged
<1>9. CASE Freed(p) /\ UNCHANGED sent
  <2>1. PICK T : T = [R EXCEPT ![a] = @ \ {p}, !["free"] = @ \cup {p}]
    OBVIOUS
  <2>2. /\ T \in [AllPlaces -> SUBSET Packets] /\ T[a] = R[a] \ {p} /\ T["free"] = R["free"] \cup {p}
        /\ \A x \in AllPlaces \ {a, "free"} : T[x] = R[x]
        /\ \A x, y \in {a, "free"} : x # y => T[x] \cap T[y] = {}
        /\ \A q \in Packets : (\E x \in {a, "free"} : q \in T[x]) <=> q \in {} \/ \E x \in {a, "free"} : q \in R[x]
        /\ T["stream"] = R["stream"] /\ p \notin R["stream"]
        /\ {a, "free"} \in SUBSET AllPlaces /\ {} \in SUBSET Packets /\ {} \cap pool = {} /\ pool' = pool \cup {}
    <3>1. /\ T \in [AllPlaces -> SUBSET Packets] /\ T[a] = R[a] \ {p} /\ T["free"] = R["free"] \cup {p}
          /\ \A x \in AllPlaces \ {a, "free"} : T[x] = R[x]
      BY <1>1, <1>3, <2>1, OnePlace
    <3>2. \A x, y \in {a, "free"} : x # y => T[x] \cap T[y] = {}
      BY <1>3, <3>1, OnePlace
    <3>3. \A q \in Packets : (\E x \in {a, "free"} : q \in T[x]) <=> q \in {} \/ \E x \in {a, "free"} : q \in R[x]
      BY <1>5, <3>1
    <3>. QED
      BY <1>1, <1>3, <1>5, <3>1, <3>2, <3>3
  <2>3. next'[p] = free /\ free' = p /\ \A q \in Packets : q # p => next'[q] = next[q] /\ pktFlow'[q] = pktFlow[q]
    BY <1>1, <1>9 DEF Freed, FreedNext, TypeInv
  <2>4. Leads(next', next[p], R[a] \ {p}, u)
    <3>1. \A q \in R[a] \ {p} : next'[q] = next[q]
      BY <1>3, <2>3, OnePlace
    <3>. QED
      BY <1>6, <3>1, LeadsStill
  <2>5. PICK v : Leads(next', p, R["free"] \cup {p}, v)
    <3>1. PICK v : Leads(next, free, R["free"], v)
      BY <1>3, HeadsAre DEF Arranged
    <3>2. \A q \in R["free"] : next'[q] = next[q]
      BY <1>3, <1>5, <2>3, OnePlace
    <3>3. p \notin R["free"] /\ next'[p] = free
      BY <1>3, <1>5, <2>3
    <3>4. Leads(next', p, R["free"] \cup {p}, IF v = Nil THEN p ELSE v)
      BY <1>1, <3>1, <3>2, <3>3, LeadsPush
    <3>. QED
      BY <3>4
  <2>6. \A x \in Heads \cap {a, "free"} : \E w : Leads(next', HeadOf(x)', T[x], w) /\ (x \in Lists => w = list'[x].tail)
    <3>1. Leads(next', HeadOf(a)', T[a], u)
      BY <1>2, <2>2, <2>4, HeadsWillBe
    <3>2. Leads(next', HeadOf("free")', T["free"], v)
      BY <2>2, <2>3, <2>5, HeadsWillBe
    <3>. QED
      BY <1>3, <3>1, <3>2
  <2>7. ASSUME NEW x \in Heads \ {a, "free"}
        PROVE  /\ HeadOf(x)' = HeadOf(x)
               /\ x \in Lists => list'[x].tail = list[x].tail
               /\ \A q \in R[x] : next'[q] = next[q]
    <3>1. HeadOf(x)' = HeadOf(x)
      BY <1>1, <1>2, HeadsAre, HeadsWillBe, PlacesAre
    <3>2. \A q \in R[x] : next'[q] = next[q]
      BY <1>3, <1>5, <2>3, OnePlace
    <3>. QED
      BY <1>1, <3>1, <3>2
  <2>8. T["sent"] = sent'
    BY <1>3, <1>9, <2>2, OnePlace
  <2>9. \A q \in T["stream"] : pktFlow'[q] = pktFlow[q] /\ pktFlow'[q] \in FragmentFlows
    BY <1>3, <2>2, <2>3, OnePlace DEF Arranged
  <2>10. Moves(R, T, {a, "free"}, {})
    BY <2>2, <2>6, <2>7, <2>8, <2>9 DEF Moves
  <2>. QED
    BY <2>2, <2>9, <2>10, Rearranged
<1>. QED
  BY <1>8, <1>9 DEF Inject, p

(* A packet whose injection is complete goes to the free chain. *)
LEMMA CompleteArranges ==
  ASSUME TypeInv, NEW R, Arranged(R), NEW p \in Packets, Complete(p)
  PROVE  \E T : Arranged(T)' /\ \A q \in T["stream"] : q \in R["stream"] /\ pktFlow'[q] = pktFlow[q]
<1>1. p \in sent /\ sent' = sent \ {p} /\ p # Nil /\ pool' = pool /\ list' = list /\ chain' = chain
  BY DeferAssumption DEF Complete, actVars
<1>2. next'[p] = free /\ free' = p /\ \A q \in Packets : q # p => next'[q] = next[q] /\ pktFlow'[q] = pktFlow[q]
  BY DEF Complete, Freed, FreedNext, TypeInv
<1>3. /\ "free" \in Heads /\ "free" \in AllPlaces /\ "sent" \in AllPlaces /\ "stream" \in AllPlaces
      /\ Heads \subseteq AllPlaces /\ "sent" \notin Heads /\ "free" \notin Lists /\ "free" \notin Actors
      /\ "stream" # "sent" /\ "stream" # "free"
  BY PlacesAre DEF Lists
<1>4. p \in R["sent"] /\ \A x \in AllPlaces : x # "sent" => p \notin R[x]
  BY <1>1, <1>3, OnePlace
<1>5. PICK T : T = [R EXCEPT !["sent"] = @ \ {p}, !["free"] = @ \cup {p}]
  OBVIOUS
<1>6. /\ T \in [AllPlaces -> SUBSET Packets] /\ T["sent"] = R["sent"] \ {p} /\ T["free"] = R["free"] \cup {p}
      /\ \A x \in AllPlaces \ {"sent", "free"} : T[x] = R[x]
      /\ {"sent", "free"} \in SUBSET AllPlaces /\ {} \in SUBSET Packets /\ {} \cap pool = {} /\ pool' = pool \cup {}
  BY <1>1, <1>3, <1>5, OnePlace
<1>7. T["stream"] = R["stream"] /\ p \notin R["stream"]
  BY <1>3, <1>4, <1>6
<1>8. \A x, y \in {"sent", "free"} : x # y => T[x] \cap T[y] = {}
  BY <1>3, <1>6, OnePlace
<1>9. \A q \in Packets : (\E x \in {"sent", "free"} : q \in T[x]) <=> q \in {} \/ \E x \in {"sent", "free"} : q \in R[x]
  BY <1>4, <1>6
<1>10. PICK v : Leads(next', p, R["free"] \cup {p}, v)
  <2>1. PICK v : Leads(next, free, R["free"], v)
    BY <1>3, HeadsAre DEF Arranged
  <2>2. \A q \in R["free"] : next'[q] = next[q]
    BY <1>2, <1>3, <1>4, OnePlace
  <2>3. p \notin R["free"]
    BY <1>3, <1>4
  <2>4. Leads(next', p, R["free"] \cup {p}, IF v = Nil THEN p ELSE v)
    BY <1>2, <2>1, <2>2, <2>3, LeadsPush
  <2>. QED
    BY <2>4
<1>11. \A x \in Heads \cap {"sent", "free"} : \E w : Leads(next', HeadOf(x)', T[x], w) /\ (x \in Lists => w = list'[x].tail)
  <2>1. Leads(next', HeadOf("free")', T["free"], v)
    BY <1>2, <1>6, <1>10, HeadsWillBe
  <2>. QED
    BY <1>3, <2>1
<1>12. ASSUME NEW x \in Heads \ {"sent", "free"}
       PROVE  /\ HeadOf(x)' = HeadOf(x)
              /\ x \in Lists => list'[x].tail = list[x].tail
              /\ \A q \in R[x] : next'[q] = next[q]
  <2>1. HeadOf(x)' = HeadOf(x)
    BY <1>1, HeadsAre, HeadsWillBe, PlacesAre
  <2>2. \A q \in R[x] : next'[q] = next[q]
    BY <1>2, <1>3, <1>4, OnePlace
  <2>. QED
    BY <1>1, <2>1, <2>2
<1>13. T["sent"] = sent'
  BY <1>1, <1>6, OnePlace
<1>14. \A q \in T["stream"] : pktFlow'[q] = pktFlow[q] /\ pktFlow'[q] \in FragmentFlows
  BY <1>2, <1>3, <1>7, OnePlace DEF Arranged
<1>15. Moves(R, T, {"sent", "free"}, {})
  BY <1>6, <1>8, <1>9, <1>11, <1>12, <1>13, <1>14 DEF Moves
<1>. QED
  BY <1>7, <1>14, <1>15, Rearranged

(* Actor a has taken the packets S of the lists L: the lists are then s.   *)
Takes(R, a, L, S, s) ==
  /\ PtrTypes(s) /\ list' = s.list /\ next' = s.next /\ chain' = [chain EXCEPT ![a] = s.chain]
  /\ L \in SUBSET Lists /\ S \in SUBSET Packets /\ S = UNION { R[m] : m \in L }
  /\ \A m \in Lists : m \notin L => s.list[m] = list[m]
  /\ \A m \in L : s.list[m].head = Nil /\ s.list[m].tail = Nil
  /\ \A q \in Packets : q \notin S => s.next[q] = next[q]
  /\ \E v : Leads(s.next, s.chain, S, v)
  /\ UNCHANGED <<pktFlow, free, pool, sent>>

(* Lists that are taken become the chain of the actor. *)
LEMMA TakenArranges ==
  ASSUME TypeInv, NEW R, Arranged(R), NEW a \in Actors, chain[a] = Nil, NEW L, NEW S, NEW s,
         Takes(R, a, L, S, s)
  PROVE  \E T : Arranged(T)' /\ (\A q \in T["stream"] : q \in R["stream"] /\ pktFlow'[q] = pktFlow[q])
                /\ ("stream" \in L => T["stream"] = {})
<1>0. /\ PtrTypes(s) /\ list' = s.list /\ next' = s.next /\ chain' = [chain EXCEPT ![a] = s.chain]
      /\ L \in SUBSET Lists /\ S \in SUBSET Packets /\ S = UNION { R[m] : m \in L }
      /\ \A m \in Lists : m \notin L => s.list[m] = list[m]
      /\ \A m \in L : s.list[m].head = Nil /\ s.list[m].tail = Nil
      /\ \A q \in Packets : q \notin S => s.next[q] = next[q]
      /\ \E v : Leads(s.next, s.chain, S, v)
      /\ UNCHANGED <<pktFlow, free, pool, sent>>
  BY DEF Takes
<1>. USE <1>0
<1>1. /\ a \in AllPlaces /\ a \in Heads /\ a # "free" /\ a # "sent" /\ a \notin Lists /\ a # "stream"
      /\ "free" \in Heads /\ "free" \in AllPlaces /\ "sent" \in AllPlaces /\ "stream" \in AllPlaces
      /\ Heads \subseteq AllPlaces /\ "sent" \notin Heads /\ "free" \notin Lists /\ "free" \notin Actors
      /\ \A m \in L : m \in AllPlaces /\ m \in Heads /\ m # a /\ m # "free" /\ m # "sent" /\ m \in Lists
      /\ "sent" \notin L
  BY PlacesAre DEF Lists
<1>2. PICK D : D = L \cup {a}
  OBVIOUS
<1>3. R[a] = {}
  <2>1. \E t : Leads(next, chain[a], R[a], t)
    BY <1>1, HeadsAre DEF Arranged
  <2>. QED
    BY <2>1, LeadsTypes
<1>4. PICK T \in [AllPlaces -> SUBSET Packets] :
        T[a] = S /\ (\A m \in L : T[m] = {}) /\ \A x \in AllPlaces \ D : T[x] = R[x]
  <2>. DEFINE T == [x \in AllPlaces |-> IF x = a THEN S ELSE IF x \in L THEN {} ELSE R[x]]
  <2>1. T \in [AllPlaces -> SUBSET Packets]
    BY OnePlace
  <2>2. T[a] = S /\ (\A m \in L : T[m] = {}) /\ \A x \in AllPlaces \ D : T[x] = R[x]
    BY <1>1, <1>2
  <2>. QED
    BY <2>1, <2>2
<1>5. chain'[a] = s.chain /\ \A b \in Actors : b # a => chain'[b] = chain[b]
  BY DEF TypeInv
<1>6. \A x, y \in D : x # y => T[x] \cap T[y] = {}
  BY <1>1, <1>2, <1>4
<1>7. \A q \in Packets : (\E x \in D : q \in T[x]) <=> q \in {} \/ \E x \in D : q \in R[x]
  BY <1>1, <1>2, <1>3, <1>4
<1>8. \A x \in Heads \cap D : \E w : Leads(next', HeadOf(x)', T[x], w) /\ (x \in Lists => w = list'[x].tail)
  <2>1. \E w : Leads(next', HeadOf(a)', T[a], w)
    <3>1. PICK v : Leads(s.next, s.chain, S, v)
      OBVIOUS
    <3>2. HeadOf(a)' = s.chain /\ T[a] = S /\ next' = s.next
      BY <1>4, <1>5, HeadsWillBe
    <3>. QED
      BY <3>1, <3>2
  <2>2. ASSUME NEW m \in L PROVE Leads(next', HeadOf(m)', T[m], list'[m].tail)
    <3>1. HeadOf(m)' = Nil /\ list'[m].tail = Nil /\ T[m] = {}
      BY <1>4, HeadsWillBe
    <3>. QED
      BY <3>1, LeadsNone
  <2>. QED
    BY <1>1, <1>2, <2>1, <2>2
<1>9. ASSUME NEW x \in Heads \ D
      PROVE  /\ HeadOf(x)' = HeadOf(x)
             /\ x \in Lists => list'[x].tail = list[x].tail
             /\ \A q \in R[x] : next'[q] = next[q]
  <2>1. x # a /\ x \notin L /\ x \in AllPlaces
    BY <1>1, <1>2
  <2>2. HeadOf(x)' = HeadOf(x)
    BY <1>5, <2>1, HeadsAre, HeadsWillBe, PlacesAre
  <2>3. \A q \in R[x] : q \notin S
    BY <1>1, <2>1, OnePlace
  <2>4. \A q \in R[x] : next'[q] = next[q]
    BY <2>1, <2>3, OnePlace
  <2>. QED
    BY <2>1, <2>2, <2>4
<1>10. T["sent"] = sent'
  BY <1>1, <1>2, <1>4, OnePlace
<1>11. \A q \in T["stream"] : q \in R["stream"] /\ pktFlow'[q] = pktFlow[q] /\ pktFlow'[q] \in FragmentFlows
  <2>1. T["stream"] = {} \/ T["stream"] = R["stream"]
    BY <1>1, <1>2, <1>4
  <2>. QED
    BY <2>1 DEF Arranged
<1>12. D \in SUBSET AllPlaces /\ {} \in SUBSET Packets /\ {} \cap pool = {} /\ pool' = pool \cup {}
  BY <1>1, <1>2
<1>13. Moves(R, T, D, {})
  BY <1>4, <1>6, <1>7, <1>8, <1>9, <1>10, <1>11, <1>12 DEF Moves
<1>14. Arranged(T)'
  BY <1>13, Rearranged
<1>. QED
  BY <1>4, <1>11, <1>14

(* So do the lists of ACKs that are flushed, *)
LEMMA TakeAcksArranges ==
  ASSUME TypeInv, NEW R, Arranged(R), NEW a \in Actors, chain[a] = Nil, TakeAcks(a)
  PROVE  \E T : Arranged(T)' /\ \A q \in T["stream"] : q \in R["stream"] /\ pktFlow'[q] = pktFlow[q]
<1>. DEFINE todo == bits[a] \cap listBits
            first == IF "in" \in todo THEN ListGet(Now, "in") ELSE Now
            all == IF "out" \in todo THEN ListGet(first, "out") ELSE first
<1>1. /\ list' = all.list /\ next' = all.next /\ chain' = [chain EXCEPT ![a] = all.chain]
      /\ UNCHANGED <<pktFlow, free, pool, sent>>
  BY DEF TakeAcks, Leave, sentVars
<1>2. PICK X, Y : /\ X = (IF "in" \in todo THEN R["in"] ELSE {})
                  /\ Y = (IF "out" \in todo THEN R["out"] ELSE {})
  OBVIOUS
<1>3. /\ "in" \in Lists /\ "out" \in Lists /\ "in" \in AllPlaces /\ "out" \in AllPlaces /\ "in" # "out"
      /\ R["in"] \cap R["out"] = {} /\ X \subseteq Packets /\ R["out"] \subseteq Packets
      /\ Leads(next, list["in"].head, R["in"], list["in"].tail)
      /\ Leads(next, list["out"].head, R["out"], list["out"].tail)
  <2>1. "in" \in Lists /\ "out" \in Lists /\ "in" \in AllPlaces /\ "out" \in AllPlaces /\ "in" \in Heads /\ "out" \in Heads
    BY PlacesAre DEF Lists, Acks
  <2>2. /\ Leads(next, list["in"].head, R["in"], list["in"].tail)
        /\ Leads(next, list["out"].head, R["out"], list["out"].tail)
    BY <2>1, HeadsAre DEF Arranged
  <2>. QED
    BY <1>2, <2>1, <2>2, OnePlace
<1>0. PICK n : n = Now
  OBVIOUS
<1>4. PtrTypes(n) /\ n.list = list /\ n.next = next /\ n.chain = Nil /\ Leads(n.next, n.chain, {}, Nil)
  BY <1>0, LeadsNone DEF Now, PtrTypes, TypeInv
<1>5. PICK b : b = first
  OBVIOUS
<1>6. /\ PtrTypes(b) /\ ("in" \in todo => b.list["in"].head = Nil /\ b.list["in"].tail = Nil)
      /\ \A m \in Lists : m # "in" \/ "in" \notin todo => b.list[m] = list[m]
      /\ \A q \in Packets : q \notin X => b.next[q] = next[q]
      /\ \E v : Leads(b.next, b.chain, X, v)
  <2>1. CASE "in" \notin todo

    BY <1>0, <1>2, <1>4, <1>5, <2>1
  <2>2. CASE "in" \in todo
    <3>1. b = ListGet(n, "in") /\ X = R["in"] /\ X \cap {} = {} /\ X \cup {} = X
      BY <1>0, <1>2, <1>5, <2>2
    <3>2. Leads(n.next, n.list["in"].head, X, n.list["in"].tail)
      BY <1>3, <1>4, <3>1
    <3>3. Gets(n, "in", X, {}, b)
      BY <1>3, <1>4, <3>1, <3>2, GetAll
    <3>. QED
      BY <1>4, <2>2, <3>1, <3>3 DEF Gets
  <2>. QED
    BY <2>1, <2>2
<1>7. PICK c : c = all
  OBVIOUS
<1>8. c = IF "out" \in todo THEN ListGet(b, "out") ELSE b
  BY <1>5, <1>7
<1>. HIDE DEF all, first, todo
<1>9. /\ PtrTypes(c) /\ ("in" \in todo => c.list["in"].head = Nil /\ c.list["in"].tail = Nil)
      /\ ("out" \in todo => c.list["out"].head = Nil /\ c.list["out"].tail = Nil)
      /\ \A m \in Lists : m \notin Acks \cap todo => c.list[m] = list[m]
      /\ \A q \in Packets : q \notin X \cup Y => c.next[q] = next[q]
      /\ \E v : Leads(c.next, c.chain, X \cup Y, v)
  <2>1. CASE "out" \notin todo
    BY <1>2, <1>6, <1>8, <2>1 DEF Acks
  <2>2. CASE "out" \in todo
    <3>1. c = ListGet(b, "out") /\ Y = R["out"] /\ Y \cap X = {} /\ Y \cup X = X \cup Y
      BY <1>2, <1>3, <1>8, <2>2
    <3>2. Leads(b.next, b.list["out"].head, Y, b.list["out"].tail)
      <4>1. b.list["out"] = list["out"]
        BY <1>3, <1>6
      <4>2. \A q \in Y : b.next[q] = next[q]
        BY <1>3, <1>6, <3>1
      <4>. QED
        BY <1>3, <3>1, <4>1, <4>2, LeadsStill
    <3>3. PICK v : Leads(b.next, b.chain, X, v)
      BY <1>6
    <3>4. Gets(b, "out", Y, X, c)
      BY <1>3, <1>6, <3>1, <3>2, <3>3, GetAll
    <3>5. \A m \in Lists : m \notin Acks \cap todo => m # "out" /\ (m # "in" \/ "in" \notin todo)
      BY <2>2 DEF Acks
    <3>. QED
      BY <1>3, <1>6, <2>2, <3>1, <3>4, <3>5 DEF Gets
  <2>. QED
    BY <2>1, <2>2
<1>10. PICK L, S : L = Acks \cap todo /\ S = X \cup Y
  OBVIOUS
<1>11. S = UNION { R[m] : m \in L } /\ L \in SUBSET Lists /\ "stream" \notin L /\ S \in SUBSET Packets
  <2>1. \A m \in L : m = "in" \/ m = "out"
    BY <1>10 DEF Acks
  <2>2. "in" \in todo => "in" \in L
    BY <1>10 DEF Acks
  <2>3. "out" \in todo => "out" \in L
    BY <1>10 DEF Acks
  <2>4. "in" \in L => "in" \in todo
    BY <1>10
  <2>5. "out" \in L => "out" \in todo
    BY <1>10
  <2>. QED
    BY <1>2, <1>3, <1>10, <2>1, <2>2, <2>3, <2>4, <2>5
<1>12. \A m \in L : c.list[m].head = Nil /\ c.list[m].tail = Nil
  BY <1>9, <1>10 DEF Acks
<1>13. \E T : Arranged(T)' /\ (\A q \in T["stream"] : q \in R["stream"] /\ pktFlow'[q] = pktFlow[q])
              /\ ("stream" \in L => T["stream"] = {})
  <2>1. Takes(R, a, L, S, c)
    BY <1>1, <1>7, <1>9, <1>10, <1>11, <1>12 DEF Takes
  <2>. QED
    BY <2>1, TakenArranges
<1>. QED
  BY <1>13

(* and the segments of a flow, or all of them. *)
LEMMA TakeStreamArranges ==
  ASSUME TypeInv, OneFlow, NEW R, Arranged(R), NEW a \in Actors, chain[a] = Nil, TakeStream(a),
         a \in Flows => a \in FragmentFlows
  PROVE  \E T : Arranged(T)' /\ T["stream"] = {}
<1>1. PICK s : s = IF a \in Flows THEN FlowGet(a) ELSE ListGet(Now, "stream")
  OBVIOUS
<1>2. /\ list' = s.list /\ next' = s.next /\ chain' = [chain EXCEPT ![a] = s.chain]
      /\ UNCHANGED <<pktFlow, free, pool, sent>>
  BY <1>1 DEF TakeStream, Leave, sentVars
<1>3. PICK h, t, X : h = list["stream"].head /\ t = list["stream"].tail /\ X = R["stream"]
  OBVIOUS
<1>4. /\ "stream" \in Lists /\ X \in SUBSET Packets /\ Leads(next, h, X, t)
      /\ \A p \in X : pktFlow[p] \in FragmentFlows
  <2>1. "stream" \in Lists /\ "stream" \in AllPlaces /\ "stream" \in Heads
    BY PlacesAre DEF Lists
  <2>. QED
    BY <1>3, <2>1, HeadsAre, OnePlace DEF Arranged
<1>5. s = ListGet(Now, "stream")
  <2>1. CASE a \notin Flows
    BY <1>1, <2>1
  <2>2. CASE a \in Flows
    <3>1. \A p \in X : pktFlow[p] = a
      BY <1>4, <2>2, OneOnly
    <3>2. s = [list  |-> [list EXCEPT !["stream"] = [head |-> Nil, tail |-> Nil]], next |-> next, chain |-> h]
      <4>1. next \in [Packets -> Packets \cup {Nil}]
        BY DEF TypeInv
      <4>2. FlowGet(a) = [list  |-> [list EXCEPT !["stream"] = [head |-> Nil, tail |-> Nil]], next |-> next, chain |-> h]
        BY <1>3, <1>4, <3>1, <4>1, FlowGetAll
      <4>. QED
        BY <1>1, <2>2, <4>2
    <3>3. CASE h = Nil
      <4>1. list["stream"] = [head |-> Nil, tail |-> Nil]
        <5>1. t = Nil
          BY <1>4, <3>3, LeadsTypes
        <5>2. list["stream"] \in [head : Packets \cup {Nil}, tail : Packets \cup {Nil}]
          BY <1>4 DEF TypeInv
        <5>. QED
          BY <1>3, <3>3, <5>1, <5>2
      <4>2. [list EXCEPT !["stream"] = [head |-> Nil, tail |-> Nil]] = list
        BY <4>1 DEF TypeInv
      <4>. QED
        BY <1>3, <3>2, <3>3, <4>2 DEF ListGet, Now
    <3>4. CASE h # Nil
      <4>1. t \in Packets /\ next[t] = Nil
        BY <1>4, <3>4, LeadsTypes
      <4>2. [next EXCEPT ![t] = Nil] = next
        BY <4>1 DEF TypeInv
      <4>. QED
        BY <1>3, <3>2, <3>4, <4>2 DEF ListGet, Now
    <3>. QED
      BY <3>3, <3>4
  <2>. QED
    BY <2>1, <2>2
<1>6. PICK n : n = Now
  OBVIOUS
<1>7. PtrTypes(n) /\ n.list = list /\ n.next = next /\ n.chain = Nil /\ Leads(n.next, n.chain, {}, Nil)
  BY <1>6, LeadsNone DEF Now, PtrTypes, TypeInv
<1>8. Gets(n, "stream", X, {}, s)
  <2>1. Leads(n.next, n.list["stream"].head, X, n.list["stream"].tail)
    BY <1>3, <1>4, <1>7
  <2>2. s = ListGet(n, "stream") /\ X \cap {} = {}
    BY <1>5, <1>6
  <2>. QED
    BY <1>4, <1>7, <2>1, <2>2, GetAll
<1>9. Takes(R, a, {"stream"}, X, s)
  <2>1. X \cup {} = X /\ X = UNION { R[m] : m \in {"stream"} } /\ {"stream"} \in SUBSET Lists
    BY <1>3, <1>4
  <2>2. /\ PtrTypes(s) /\ \A m \in {"stream"} : s.list[m].head = Nil /\ s.list[m].tail = Nil
        /\ \A m \in Lists : m \notin {"stream"} => s.list[m] = list[m]
        /\ \A q \in Packets : q \notin X => s.next[q] = next[q]
        /\ \E v : Leads(s.next, s.chain, X, v)
    BY <1>7, <1>8, <2>1 DEF Gets
  <2>. QED
    BY <1>2, <1>4, <2>1, <2>2 DEF Takes
<1>10. \E T : Arranged(T)' /\ (\A q \in T["stream"] : q \in R["stream"] /\ pktFlow'[q] = pktFlow[q])
              /\ ("stream" \in {"stream"} => T["stream"] = {})
  BY <1>9, TakenArranges
<1>. QED
  BY <1>10

-----------------------------------------------------------------------------
(* What every action keeps. *)
BaseInv == TypeInv /\ FlowInv /\ AsleepInv /\ SerialInv

(* What the assumption says of actors and lists. *)
LEMMA ActorsAre ==
  /\ {"timer", "power", "conf"} \subseteq Actors /\ Flows \subseteq Actors
  /\ \A f \in Flows : f # "timer" /\ f # "power" /\ f # "conf"
  /\ "in" \in Lists /\ "out" \in Lists /\ "stream" \in Lists /\ Nil \notin Packets
  /\ FragmentFlows \subseteq Flows
BY DeferAssumption DEF Actors, Lists, Acks

(* It holds initially. *)
LEMMA BaseInit == Init => BaseInv
BY ActorsAre, DeferAssumption DEF Init, BaseInv, TypeInv, FlowInv, AsleepInv, SerialInv, ConfFlags, FlagNames, Stages, Acks

(* Packets come and go, the rest is as before. *)
LEMMA BaseFreed ==
  ASSUME TypeInv, NEW p \in Packets, Freed(p)
  PROVE  /\ next' \in [Packets -> Packets \cup {Nil}]
         /\ pktFlow' \in [Packets -> Flows \cup {Nil}] /\ pktList' \in [Packets -> Lists \cup {Nil}]
         /\ free' \in Packets \cup {Nil}
BY DEF TypeInv, Freed, FreedNext

(* Deferring a packet keeps the types, and the other lists. *)
LEMMA BaseAdd ==
  ASSUME TypeInv, NEW l \in Lists, NEW f \in Flows, Add(l, f)
  PROVE  /\ list' \in [Lists -> [head : Packets \cup {Nil}, tail : Packets \cup {Nil}]]
         /\ next' \in [Packets -> Packets \cup {Nil}]
         /\ pktFlow' \in [Packets -> Flows \cup {Nil}] /\ pktList' \in [Packets -> Lists \cup {Nil}]
         /\ free' \in Packets \cup {Nil} /\ pool' \in SUBSET Packets
         /\ listBits' = listBits \cup ({l} \cap Acks)
         /\ \A m \in Lists : m # l => list'[m] = list[m]
<1>1. PICK p \in Packets :
        /\ free' = IF free = Nil THEN Nil ELSE next[free]
        /\ pool' = pool \cup {p}
        /\ ListAdd(l, p)
        /\ pktFlow' = [pktFlow EXCEPT ![p] = f]
        /\ pktList' = [pktList EXCEPT ![p] = l]
        /\ listBits' = listBits \cup ({l} \cap Acks)
  BY DEF Add
<1>2. /\ list' \in [Lists -> [head : Packets \cup {Nil}, tail : Packets \cup {Nil}]]
      /\ next' \in [Packets -> Packets \cup {Nil}]
      /\ \A m \in Lists : m # l => list'[m] = list[m]
  BY <1>1 DEF ListAdd, TypeInv
<1>3. free' \in Packets \cup {Nil}
  BY <1>1 DEF TypeInv
<1>. QED
  BY <1>1, <1>2, <1>3 DEF TypeInv

(* Taking a list keeps the types, and the other lists. *)
LEMMA BaseGet ==
  ASSUME NEW s, NEW l \in Lists, PtrTypes(s), s.chain \in Packets \cup {Nil}
  PROVE  /\ PtrTypes(ListGet(s, l)) /\ ListGet(s, l).chain \in Packets \cup {Nil}
         /\ ListGet(s, l).list[l].head = Nil
         /\ \A m \in Lists : m # l => ListGet(s, l).list[m] = s.list[m]
<1>1. CASE s.list[l].head = Nil
  BY <1>1 DEF ListGet
<1>2. CASE s.list[l].head # Nil
  BY <1>2 DEF ListGet, PtrTypes
<1>. QED
  BY <1>1, <1>2

(* Flushing the ACKs: the power callback leaves none. *)
LEMMA BaseTakeAcks ==
  ASSUME BaseInv, NEW a \in Actors, TakeAcks(a)
  PROVE  BaseInv'
<1>. DEFINE todo == bits[a] \cap listBits
            first == IF "in" \in todo THEN ListGet(Now, "in") ELSE Now
            all == IF "out" \in todo THEN ListGet(first, "out") ELSE first
<1>1. /\ list' = all.list /\ next' = all.next /\ chain' = [chain EXCEPT ![a] = all.chain]
      /\ stage[a] = "takeAcks" /\ stage' = [stage EXCEPT ![a] = "injectAcks"]
      /\ bits' = [bits EXCEPT ![a] = {}]
      /\ UNCHANGED <<pktFlow, pktList, free, pool, sent, flags, listBits, sending, refused, powerOff, overtaken>>
  BY DEF TakeAcks, Leave, Go, sentVars, envVars
<1>2. "in" \in Lists /\ "out" \in Lists /\ "in" # "out" /\ Nil \notin Packets
  BY ActorsAre
<1>3. PtrTypes(Now) /\ Now.chain \in Packets \cup {Nil} /\ Now.list = list
  BY DEF BaseInv, TypeInv, PtrTypes, Now
<1>4. PtrTypes(first) /\ first.chain \in Packets \cup {Nil} /\ first.list["out"] = list["out"]
  BY <1>2, <1>3, BaseGet
<1>5. /\ PtrTypes(all) /\ all.chain \in Packets \cup {Nil}
      /\ all.list["out"].head = IF "out" \in todo THEN Nil ELSE list["out"].head
  <2>. HIDE DEF first, todo
  <2>. QED
    BY <1>2, <1>4, BaseGet
<1>. HIDE DEF all
<1>6. TypeInv'
  BY <1>1, <1>5 DEF BaseInv, TypeInv, PtrTypes, Stages
<1>7. FlowInv'
  BY <1>1, ActorsAre DEF BaseInv, TypeInv, FlowInv
<1>8. a \notin Flows
  BY <1>1 DEF BaseInv, FlowInv
<1>9. AsleepInv'
  <2>1. list'["out"].head = IF "out" \in todo THEN Nil ELSE list["out"].head
    BY <1>1, <1>5
  <2>2. CASE a = "power"
    BY <1>1, <1>8, <2>1, <2>2, ActorsAre DEF BaseInv, TypeInv, AsleepInv, Acks
  <2>3. CASE a # "power"
    BY <1>1, <1>8, <2>1, <2>3, ActorsAre DEF BaseInv, TypeInv, AsleepInv, Acks
  <2>. QED
    BY <2>2, <2>3
<1>10. SerialInv'
  BY <1>1, <1>8, ActorsAre DEF BaseInv, TypeInv, SerialInv
<1>. QED
  BY <1>6, <1>7, <1>9, <1>10 DEF BaseInv

PtrOrNil == Packets \cup {Nil}

TurnTypes == [pkt : PtrOrNil, prev : PtrOrNil, chain : PtrOrNil, head : PtrOrNil, tail : PtrOrNil,
              next : [Packets -> PtrOrNil]]

(* The turns of the loop of fort_defer_list_flow_get, whatever the list is. *)
LEMMA TurnIsTyped ==
  ASSUME TypeInv, NEW w \in TurnTypes, NEW f
  PROVE  FlowGetTurn(w, f) \in TurnTypes
<1>. DEFINE pkt == w.pkt
            taken == pktFlow[pkt] = f
            last == taken /\ pkt = w.tail
            after == IF ~ taken THEN w.next
                     ELSE [q \in Packets |-> IF q = pkt THEN Nil ELSE IF q = w.prev THEN pkt ELSE w.next[q]]
<1>1. CASE pkt = Nil
  BY <1>1 DEF FlowGetTurn
<1>2. CASE pkt # Nil
  <2>1. pkt \in Packets /\ w.next \in [Packets -> PtrOrNil] /\ w.next[pkt] \in PtrOrNil /\ Nil \in PtrOrNil
        /\ pkt \in PtrOrNil /\ w.prev \in PtrOrNil /\ w.chain \in PtrOrNil /\ w.head \in PtrOrNil /\ w.tail \in PtrOrNil
    BY <1>2 DEF TurnTypes, PtrOrNil
  <2>2. after \in [Packets -> PtrOrNil]
    BY <2>1
  <2>. HIDE DEF PtrOrNil
  <2>3. FlowGetTurn(w, f) = [pkt   |-> IF last THEN Nil ELSE w.next[pkt],
           prev  |-> IF taken THEN pkt ELSE w.prev,
           chain |-> IF taken /\ w.prev = Nil THEN pkt ELSE w.chain,
           head  |-> IF taken /\ pkt = w.head THEN w.next[pkt] ELSE w.head,
           tail  |-> IF last THEN Nil ELSE w.tail,
           next  |-> after]
    BY <1>2 DEF FlowGetTurn
  <2>. HIDE DEF after, taken, last, pkt
  <2>. QED
    BY <2>1, <2>2, <2>3 DEF TurnTypes
<1>. QED
  BY <1>1, <1>2

(* The whole loop, whatever it has done to the links, leaves packets or    *)
(* NULL, and the lists of ACKs alone.                                      *)
LEMMA FlowGetIsTyped ==
  ASSUME TypeInv, NEW f
  PROVE  /\ PtrTypes(FlowGet(f)) /\ FlowGet(f).chain \in Packets \cup {Nil}
         /\ \A m \in Lists : m # "stream" => FlowGet(f).list[m] = list[m]
<1>. DEFINE C == Cardinality(Packets)
            start == [pkt |-> list["stream"].head, prev |-> Nil, chain |-> Nil,
                head |-> list["stream"].head, tail |-> list["stream"].tail, next |-> next]
            Turns(m, t) == t = [n \in 0 .. m |-> IF n = 0 THEN start ELSE FlowGetTurn(t[n - 1], f)]
            Good == { m \in Nat : \E t : Turns(m, t) }
<1>1. C \in Nat
  BY DeferAssumption, FS_CardinalityType
<1>2. start \in TurnTypes
  BY ActorsAre DEF TypeInv, TurnTypes, PtrOrNil
<1>. HIDE DEF start
<1>3. 0 \in Good
  <2>. DEFINE t == [n \in 0 .. 0 |-> start]
  <2>1. Turns(0, t)
    OBVIOUS
  <2>. QED
    BY <2>1, Zenon
<1>4. ASSUME NEW m \in Nat, m \in Good PROVE m + 1 \in Good
  <2>1. PICK t : Turns(m, t)
    BY <1>4
  <2>2. \A n \in 0 .. m : t[n] = IF n = 0 THEN start ELSE FlowGetTurn(t[n - 1], f)
    BY <2>1
  <2>. DEFINE u == [n \in 0 .. m + 1 |-> IF n = m + 1 THEN FlowGetTurn(t[m], f) ELSE t[n]]
  <2>3. ASSUME NEW n \in 0 .. m + 1 PROVE u[n] = IF n = 0 THEN start ELSE FlowGetTurn(u[n - 1], f)
    <3>1. CASE n = m + 1
      <4>1. n # 0 /\ n - 1 = m /\ m \in 0 .. m + 1 /\ m # m + 1
        BY <3>1
      <4>. QED
        BY <3>1, <4>1
    <3>2. CASE n # m + 1
      <4>1. n \in 0 .. m
        BY <3>2
      <4>2. n # 0 => n - 1 \in 0 .. m + 1 /\ n - 1 # m + 1
        BY <4>1
      <4>. QED
        BY <2>2, <3>2, <4>1, <4>2
    <3>. QED
      BY <3>1, <3>2
  <2>4. u = [n \in 0 .. m + 1 |-> u[n]]
    OBVIOUS
  <2>5. u = [n \in 0 .. m + 1 |-> IF n = 0 THEN start ELSE FlowGetTurn(u[n - 1], f)]
    <3>. HIDE DEF u
    <3>. QED
      BY <2>3, <2>4
  <2>6. Turns(m + 1, u)
    BY <2>5, Zenon
  <2>. HIDE DEF u, Turns
  <2>. QED
    BY <2>6
<1>5. C \in Good
  <2>. HIDE DEF Good
  <2>1. Nat \subseteq Good
    BY <1>3, <1>4, NatSetInduction
  <2>. QED
    BY <1>1, <2>1
<1>. DEFINE T == CHOOSE t : t = [n \in 0 .. C |-> IF n = 0 THEN start ELSE FlowGetTurn(t[n - 1], f)]
<1>6. T = [n \in 0 .. C |-> IF n = 0 THEN start ELSE FlowGetTurn(T[n - 1], f)]
  <2>1. \E t : t = [n \in 0 .. C |-> IF n = 0 THEN start ELSE FlowGetTurn(t[n - 1], f)]
    BY <1>5, Zenon
  <2>. HIDE DEF Good
  <2>. QED
    BY <2>1, Zenon
<1>7. \A n \in 0 .. C : T[n] = IF n = 0 THEN start ELSE FlowGetTurn(T[n - 1], f)
  <2>. HIDE DEF T
  <2>. QED
    BY <1>6
<1>8. FlowGet(f) = [list  |-> [list EXCEPT !["stream"] = [head |-> T[C].head, tail |-> T[C].tail]],
                     next  |-> T[C].next,
                     chain |-> T[C].chain]
  BY Zenon DEF FlowGet, start
<1>. HIDE DEF T, Good
<1>9. T[C] \in TurnTypes
  <2>. DEFINE Typed == { n \in Nat : n \in 0 .. C => T[n] \in TurnTypes }
  <2>1. 0 \in Typed
    BY <1>2, <1>7
  <2>2. ASSUME NEW n \in Nat, n \in Typed PROVE n + 1 \in Typed
    <3> SUFFICES ASSUME n + 1 \in 0 .. C PROVE T[n + 1] \in TurnTypes
      OBVIOUS
    <3>1. n \in 0 .. C /\ (n + 1) - 1 = n /\ n + 1 # 0
      BY <1>1
    <3>2. T[n + 1] = FlowGetTurn(T[n], f)
      BY <1>7, <3>1
    <3>. QED
      BY <2>2, <3>1, <3>2, TurnIsTyped
  <2>. HIDE DEF Typed
  <2>3. Nat \subseteq Typed
    BY <2>1, <2>2, NatSetInduction
  <2>4. C \in Typed /\ C \in 0 .. C
    BY <1>1, <2>3
  <2>. QED
    BY <2>4 DEF Typed
<1>10. T[C].head \in PtrOrNil /\ T[C].tail \in PtrOrNil /\ T[C].chain \in PtrOrNil /\ T[C].next \in [Packets -> PtrOrNil]
  BY <1>9 DEF TurnTypes
<1>11. PICK e, s : e = T[C] /\ s = FlowGet(f)
  OBVIOUS
<1>12. s = [list |-> [list EXCEPT !["stream"] = [head |-> e.head, tail |-> e.tail]], next |-> e.next, chain |-> e.chain]
  BY <1>8, <1>11
<1>13. s.list = [list EXCEPT !["stream"] = [head |-> e.head, tail |-> e.tail]] /\ s.next = e.next /\ s.chain = e.chain
  BY <1>12
<1>14. e.head \in PtrOrNil /\ e.tail \in PtrOrNil /\ e.chain \in PtrOrNil /\ e.next \in [Packets -> PtrOrNil]
  BY <1>10, <1>11
<1>15. list \in [Lists -> [head : PtrOrNil, tail : PtrOrNil]]
  BY DEF TypeInv, PtrOrNil
<1>16. s.list \in [Lists -> [head : PtrOrNil, tail : PtrOrNil]] /\ \A m \in Lists : m # "stream" => s.list[m] = list[m]
  <2>1. PICK r : r = [head |-> e.head, tail |-> e.tail]
    OBVIOUS
  <2>2. r \in [head : PtrOrNil, tail : PtrOrNil]
    BY <1>14, <2>1
  <2>3. s.list = [list EXCEPT !["stream"] = r]
    BY <1>13, <2>1
  <2>. QED
    BY <1>15, <2>2, <2>3
<1>. QED
  BY <1>11, <1>13, <1>14, <1>16 DEF PtrTypes, PtrOrNil

(* Taking segments does not touch the ACKs, nor a flow that is deferring   *)
(* one.                                                                    *)
LEMMA BaseTakeStream ==
  ASSUME BaseInv, NEW a \in Actors, TakeStream(a)
  PROVE  BaseInv'
<1>1. PICK s : s = IF a \in Flows THEN FlowGet(a) ELSE ListGet(Now, "stream")
  OBVIOUS
<1>2. /\ list' = s.list /\ next' = s.next /\ chain' = [chain EXCEPT ![a] = s.chain]
      /\ stage[a] = "takeStream" /\ stage' = [stage EXCEPT ![a] = "injectStream"]
      /\ UNCHANGED <<pktFlow, pktList, free, pool, sent, flags, listBits, bits, sending, refused, powerOff, overtaken>>
  BY <1>1 DEF TakeStream, Leave, Go, sentVars, envVars
<1>3. PtrTypes(s) /\ s.chain \in Packets \cup {Nil} /\ \A m \in Lists : m # "stream" => s.list[m] = list[m]
  <2>1. CASE a \in Flows
    BY <1>1, <2>1, FlowGetIsTyped DEF BaseInv
  <2>2. CASE a \notin Flows
    <3>1. PtrTypes(Now) /\ Now.chain \in Packets \cup {Nil} /\ Now.list = list
      BY DEF BaseInv, TypeInv, PtrTypes, Now
    <3>. QED
      BY <1>1, <2>2, <3>1, ActorsAre, BaseGet
  <2>. QED
    BY <2>1, <2>2
<1>4. list'["out"] = list["out"]
  BY <1>2, <1>3, ActorsAre
<1>5. TypeInv'
  BY <1>2, <1>3 DEF BaseInv, TypeInv, PtrTypes, Stages
<1>6. FlowInv'
  BY <1>2, ActorsAre DEF BaseInv, TypeInv, FlowInv
<1>7. AsleepInv'
  BY <1>2, <1>4, ActorsAre DEF BaseInv, TypeInv, AsleepInv
<1>8. SerialInv'
  BY <1>2, ActorsAre DEF BaseInv, TypeInv, SerialInv
<1>. QED
  BY <1>5, <1>6, <1>7, <1>8 DEF BaseInv

(* Injecting goes on with the chain that was taken. *)
LEMMA BaseInject ==
  ASSUME BaseInv, NEW a \in Actors, Inject(a)
  PROVE  BaseInv'
<1>1. /\ chain[a] \in Packets /\ chain[a] # Nil /\ chain' = [chain EXCEPT ![a] = next[chain[a]]]
      /\ UNCHANGED <<list, pool, listBits, flags, stage, bits, sending, refused, powerOff, overtaken>>
  BY DEF Inject, BaseInv, TypeInv, envVars
<1>2. /\ next' \in [Packets -> Packets \cup {Nil}]
      /\ pktFlow' \in [Packets -> Flows \cup {Nil}] /\ pktList' \in [Packets -> Lists \cup {Nil}]
      /\ free' \in Packets \cup {Nil} /\ sent' \in SUBSET Packets
  <2>1. CASE Freed(chain[a]) /\ UNCHANGED sent
    BY <1>1, <2>1, BaseFreed DEF BaseInv, TypeInv
  <2>2. CASE ~ (Freed(chain[a]) /\ UNCHANGED sent)
    <3>1. sent' = sent \cup {chain[a]} /\ next' = [next EXCEPT ![chain[a]] = Nil] /\ UNCHANGED <<free, pktFlow, pktList>>
      BY <2>2 DEF Inject
    <3>. QED
      BY <1>1, <3>1 DEF BaseInv, TypeInv
  <2>. QED
    BY <2>1, <2>2
<1>3. TypeInv'
  BY <1>1, <1>2 DEF BaseInv, TypeInv
<1>4. FlowInv'
  BY <1>1 DEF BaseInv, TypeInv, FlowInv
<1>5. AsleepInv' /\ SerialInv'
  BY <1>1 DEF BaseInv, AsleepInv, SerialInv
<1>. QED
  BY <1>3, <1>4, <1>5 DEF BaseInv

(* A completion changes the pool only. *)
LEMMA BaseComplete ==
  ASSUME BaseInv, NEW p \in Packets, Complete(p)
  PROVE  BaseInv'
<1>1. /\ sent' \in SUBSET Packets /\ Freed(p)
      /\ UNCHANGED <<list, pool, listBits, flags, stage, bits, chain, sending, refused, powerOff, overtaken>>
  BY DEF Complete, BaseInv, TypeInv, envVars, actVars
<1>2. TypeInv'
  BY <1>1, BaseFreed DEF BaseInv, TypeInv
<1>3. FlowInv' /\ AsleepInv' /\ SerialInv'
  BY <1>1 DEF BaseInv, FlowInv, AsleepInv, SerialInv
<1>. QED
  BY <1>2, <1>3 DEF BaseInv

(* An ACK is only deferred while its bit is set, and by a flow the power   *)
(* callback has seen.                                                      *)
LEMMA BaseAckDefer ==
  ASSUME BaseInv, NEW f \in Flows, AckDefer(f)
  PROVE  BaseInv'
<1>1. /\ stage[f] = "defer" /\ stage' = [stage EXCEPT ![f] = "idle"]
      /\ UNCHANGED <<sent, flags, bits, chain, sending, refused, powerOff, overtaken>>
  BY DEF AckDefer, Go, sentVars, envVars
<1>2. CASE Add("out", f)
  <2>1. TypeInv'
    BY <1>1, <1>2, ActorsAre, BaseAdd DEF BaseInv, TypeInv, Acks, Stages
  <2>2. FlowInv' /\ SerialInv'
    BY <1>1, ActorsAre DEF BaseInv, TypeInv, FlowInv, SerialInv
  <2>3. "out" \in listBits'
    BY <1>2, ActorsAre, BaseAdd DEF BaseInv, Acks
  <2>4. AsleepInv'
    BY <1>1, <2>3 DEF BaseInv, AsleepInv
  <2>. QED
    BY <2>1, <2>2, <2>4 DEF BaseInv
<1>3. CASE UNCHANGED listVars
  BY <1>1, <1>3, ActorsAre DEF BaseInv, TypeInv, FlowInv, SerialInv, AsleepInv, listVars, Stages
<1>. QED
  BY <1>2, <1>3 DEF AckDefer

(* A segment is deferred, or the flow given up. *)
LEMMA BaseSendDefer ==
  ASSUME BaseInv, NEW f \in Flows, SendDefer(f)
  PROVE  BaseInv'
<1>1. /\ f \in sending /\ sending' = sending \ {f}
      /\ UNCHANGED <<sent, stage, bits, chain, powerOff, overtaken>>
  BY DEF SendDefer, sentVars, actVars
<1>2. CASE Add("stream", f) /\ UNCHANGED <<flags, refused>>
  <2>1. TypeInv'
    BY <1>1, <1>2, ActorsAre, BaseAdd DEF BaseInv, TypeInv, Acks
  <2>2. FlowInv' /\ SerialInv'
    BY <1>1, <1>2, ActorsAre DEF BaseInv, TypeInv, FlowInv, SerialInv
  <2>3. list'["out"] = list["out"] /\ listBits \subseteq listBits'
    BY <1>2, ActorsAre, BaseAdd DEF BaseInv
  <2>4. AsleepInv'
    BY <1>1, <2>3 DEF BaseInv, AsleepInv
  <2>. QED
    BY <2>1, <2>2, <2>4 DEF BaseInv
<1>3. CASE ~ (Add("stream", f) /\ UNCHANGED <<flags, refused>>)
  <2>1. /\ flags' = [flags EXCEPT ![f] = @ \cup {"fragmented"}]
        /\ refused' \in {refused, refused \cup {f}} /\ UNCHANGED listVars
    BY <1>3 DEF SendDefer
  <2>2. TypeInv'
    BY <1>1, <2>1 DEF BaseInv, TypeInv, listVars, FlagNames
  <2>3. FlowInv' /\ AsleepInv' /\ SerialInv'
    BY <1>1, <2>1 DEF BaseInv, TypeInv, FlowInv, AsleepInv, SerialInv, listVars
  <2>. QED
    BY <2>2, <2>3 DEF BaseInv
<1>. QED
  BY <1>2, <1>3

(* Steps that only change flags of a flow. *)
LEMMA BaseFlags ==
  ASSUME BaseInv, UNCHANGED <<listVars, sent, sending, refused, powerOff, overtaken, stage, bits, chain>>,
         NEW f \in Flows, NEW new \in SUBSET FlagNames, flags' = [flags EXCEPT ![f] = new],
         "fragmented" \in new => "fragmented" \in flags[f] \/ f \notin sending,
         {"fragment", "fragmentDefer"} \cap new # {} => f \in FragmentFlows
  PROVE  BaseInv'
BY DEF BaseInv, TypeInv, FlowInv, AsleepInv, SerialInv, listVars

(* All other steps. *)
LEMMA BaseOther ==
  ASSUME BaseInv
  PROVE  /\ \A f \in Flows, n \in Lens : Data(f, n) => BaseInv'
         /\ \A f \in Flows : Retransmit(f) \/ SendFirst(f) \/ SegmentEnd(f) \/ Reauth(f) => BaseInv'
         /\ \A f \in Flows : AckCheck(f) \/ SendCheck(f) \/ SegmentCheck(f) => BaseInv'
         /\ \A p \in Packets : AckPasses(p) => BaseInv'
         /\ Tick \/ PowerOff \/ PowerOn => BaseInv'
         /\ \A l \in Limits : SetLimit(l) => BaseInv'
         /\ \A a \in Actors : FlushEnd(a) => BaseInv'
         /\ UNCHANGED vars => BaseInv'
<1>1. ASSUME NEW f \in Flows, NEW n, Receive(f, n) PROVE BaseInv'
  <2>1. PICK new : new = IF bytes + n >= limit.in THEN flags[f] \cup {"deferOut"} ELSE flags[f] \ {"deferOut"}
    OBVIOUS
  <2>2. new \in SUBSET FlagNames /\ ("fragmented" \in new => "fragmented" \in flags[f])
        /\ {"fragment", "fragmentDefer"} \cap new = {"fragment", "fragmentDefer"} \cap flags[f]
    BY <2>1 DEF BaseInv, TypeInv, FlagNames
  <2>3. flags' = [flags EXCEPT ![f] = new]
    BY <1>1, <2>1 DEF Receive
  <2>4. UNCHANGED <<listVars, sent, sending, refused, powerOff, overtaken, stage, bits, chain>>
    BY <1>1 DEF Receive, actVars, sentVars
  <2>. QED
    BY <2>2, <2>3, <2>4, BaseFlags DEF BaseInv, FlowInv
<1>2. ASSUME NEW f \in Flows, SendFirst(f) PROVE BaseInv'
  <2>1. /\ flags' = [flags EXCEPT ![f] = flags[f] \cup {"fragmentDefer"}]
        /\ UNCHANGED <<listVars, sent, sending, refused, powerOff, overtaken, stage, bits, chain>>
    BY <1>2 DEF SendFirst, actVars, sentVars, envVars
  <2>2. f \in FragmentFlows
    BY <1>2 DEF SendFirst, BaseInv, FlowInv
  <2>. QED
    BY <2>1, <2>2, BaseFlags DEF BaseInv, TypeInv, FlagNames
<1>3. ASSUME NEW f \in Flows, Reauth(f) PROVE BaseInv'
  <2>1. PICK new : new = ConfFlags(f, limit) \cup (flags[f] \cap {"fragmentDefer", "fragmented"})
    OBVIOUS
  <2>2. /\ flags' = [flags EXCEPT ![f] = new]
        /\ UNCHANGED <<listVars, sent, sending, refused, powerOff, overtaken, stage, bits, chain>>
    BY <1>3, <2>1 DEF Reauth, actVars, sentVars
  <2>3. new \in SUBSET FlagNames /\ ("fragmented" \in new => "fragmented" \in flags[f])
        /\ ({"fragment", "fragmentDefer"} \cap new # {} => f \in FragmentFlows \/ {"fragment", "fragmentDefer"} \cap flags[f] # {})
    BY <2>1 DEF BaseInv, TypeInv, FlagNames, ConfFlags
  <2>. QED
    BY <2>2, <2>3, BaseFlags DEF BaseInv, FlowInv
<1>4. ASSUME NEW f \in Flows, SegmentEnd(f) PROVE BaseInv'
  BY <1>4, ActorsAre DEF SegmentEnd, Go, BaseInv, TypeInv, FlowInv, AsleepInv, SerialInv, listVars, sentVars, envVars, Stages, FlagNames
<1>5. ASSUME NEW f \in Flows, AckCheck(f) PROVE BaseInv'
  BY <1>5, ActorsAre DEF AckCheck, Defers, Go, BaseInv, TypeInv, FlowInv, AsleepInv, SerialInv, listVars, sentVars, envVars, Stages
<1>6. ASSUME NEW f \in Flows, SendCheck(f) PROVE BaseInv'
  <2>1. /\ sending' = sending \cup {f} /\ (~ StreamRace => stage[f] = "idle") /\ "fragmentDefer" \in flags[f]
        /\ "fragmented" \notin flags[f]
        /\ UNCHANGED <<listVars, sent, flags, refused, powerOff, overtaken, stage, bits, chain>>
    BY <1>6 DEF SendCheck, Serial, Cut, actVars, sentVars, envVars
  <2>2. TypeInv' /\ AsleepInv'
    BY <2>1 DEF BaseInv, TypeInv, AsleepInv, listVars
  <2>3. FlowInv'
    <3>1. f \in FragmentFlows
      BY <2>1 DEF BaseInv, FlowInv
    <3>. QED
      BY <2>1, <3>1 DEF BaseInv, FlowInv
  <2>4. SerialInv'
    BY <2>1 DEF BaseInv, SerialInv
  <2>. QED
    BY <2>2, <2>3, <2>4 DEF BaseInv
<1>7. ASSUME NEW f \in Flows, SegmentCheck(f) PROVE BaseInv'
  BY <1>7, ActorsAre DEF SegmentCheck, Serial, Cut, Go, BaseInv, TypeInv, FlowInv, AsleepInv, SerialInv, listVars, sentVars, envVars, Stages
<1>8. ASSUME NEW p \in Packets, AckPasses(p) PROVE BaseInv'
  <2>1. UNCHANGED <<listVars, sent, sending, refused, powerOff, overtaken, stage, bits, chain>>
    BY <1>8 DEF AckPasses, actVars, envVars
  <2>2. CASE pktFlow[p] \in Flows
    <3>0. PICK f \in Flows : f = pktFlow[p]
      BY <2>2
    <3>1. PICK new : new = IF Defers(pktFlow[p]) THEN flags[f] \ {"deferOut"} ELSE flags[f]
      OBVIOUS
    <3>2. flags' = [flags EXCEPT ![f] = new]
      BY <1>8, <3>0, <3>1 DEF AckPasses, BaseInv, TypeInv
    <3>3. new \in SUBSET FlagNames /\ ("fragmented" \in new => "fragmented" \in flags[f])
          /\ {"fragment", "fragmentDefer"} \cap new = {"fragment", "fragmentDefer"} \cap flags[f]
      BY <3>1 DEF BaseInv, TypeInv, FlagNames
    <3>. QED
      BY <2>1, <3>2, <3>3, BaseFlags DEF BaseInv, FlowInv
  <2>3. CASE pktFlow[p] \notin Flows
    <3>1. flags' = flags
      BY <1>8, <2>3 DEF AckPasses, BaseInv, TypeInv
    <3>. QED
      BY <2>1, <3>1 DEF BaseInv, TypeInv, FlowInv, AsleepInv, SerialInv, listVars
  <2>. QED
    BY <2>2, <2>3
<1>9. ASSUME Tick PROVE BaseInv'
  BY <1>9, ActorsAre, SMTT(60) DEF Tick, Go, Counterpart, BaseInv, TypeInv, FlowInv, AsleepInv, SerialInv, listVars, sentVars, Stages, Acks
<1>10. ASSUME PowerOff PROVE BaseInv'
  BY <1>10, ActorsAre DEF PowerOff, Go, BaseInv, TypeInv, FlowInv, AsleepInv, SerialInv, listVars, sentVars, Stages, Acks
<1>11. ASSUME PowerOn PROVE BaseInv'
  BY <1>11, ActorsAre DEF PowerOn, BaseInv, TypeInv, FlowInv, AsleepInv, SerialInv, listVars, actVars, sentVars
<1>12. ASSUME NEW l \in Limits, SetLimit(l) PROVE BaseInv'
  <2>1. ChangedBits(l) \in SUBSET Acks
    BY DEF ChangedBits
  <2>. QED
    BY <1>12, <2>1, ActorsAre, SMTT(60) DEF SetLimit, Go, BaseInv, TypeInv, FlowInv, AsleepInv, SerialInv, listVars, sentVars, Stages
<1>13. ASSUME NEW a \in Actors, FlushEnd(a) PROVE BaseInv'
  <2>1. PICK place \in {"idle", "takeStream"} :
          stage' = [stage EXCEPT ![a] = place] /\ stage[a] \in {"injectAcks", "injectStream"}
    BY <1>13 DEF FlushEnd, Go
  <2>2. /\ a \notin Flows /\ chain[a] = Nil
        /\ UNCHANGED <<listVars, sent, flags, refused, sending, powerOff, overtaken, bits, chain>>
    BY <1>13 DEF FlushEnd, sentVars
  <2>3. TypeInv' /\ AsleepInv'
    BY <2>1, <2>2, ActorsAre DEF BaseInv, TypeInv, AsleepInv, listVars, Stages
  <2>4. FlowInv'
    BY <2>1, <2>2, ActorsAre DEF BaseInv, TypeInv, FlowInv
  <2>5. SerialInv'
    BY <2>1, <2>2, ActorsAre DEF BaseInv, TypeInv, SerialInv
  <2>. QED
    BY <2>3, <2>4, <2>5 DEF BaseInv
<1>14. ASSUME UNCHANGED vars PROVE BaseInv'
  BY <1>14 DEF vars, groupVars, listVars, actVars, sentVars, envVars, BaseInv, TypeInv, FlowInv, AsleepInv, SerialInv
<1>. QED
  BY <1>1, <1>2, <1>3, <1>4, <1>5, <1>6, <1>7, <1>8, <1>9, <1>10, <1>11, <1>12, <1>13, <1>14 DEF Data, Retransmit

(* No step but those of the stream callout makes a segment wait for one    *)
(* that has passed.                                                        *)
LEMMA PassedStill ==
  ASSUME NEW R, NEW T, Passed(R), \A q \in T["stream"] : q \in R["stream"] /\ pktFlow'[q] = pktFlow[q],
         refused \subseteq refused',
         \A f \in Flows : "fragmented" \in flags'[f] \/ stage'[f] = "injectStream"
                            => "fragmented" \in flags[f] \/ stage[f] = "injectStream"
  PROVE  Passed(T)'
BY DEF Passed

PoolStep == \E T : Arranged(T)' /\ (~ StreamRace => Passed(T)')

(* Steps of an actor between its calls, in which packets stay where they are. *)
LEMMA PacketsStay ==
  ASSUME NEW R, Arranged(R), UNCHANGED <<listVars, chain, sent>>
  PROVE  Arranged(R)'
<1>1. \A x \in Heads : HeadOf(x)' = HeadOf(x) /\ (x \in Lists => list'[x].tail = list[x].tail)
  BY HeadsAre, HeadsWillBe, PlacesAre DEF listVars
<1>. QED
  BY <1>1 DEF Arranged, listVars

(* They keep the packets arranged, and no segment waits in vain. *)
LEMMA StillArranged ==
  ASSUME BaseInv, NEW R, Arranged(R), ~ StreamRace => Passed(R),
         UNCHANGED <<listVars, chain, sent>>, refused \subseteq refused',
         \A f \in Flows : "fragmented" \in flags'[f] \/ stage'[f] = "injectStream"
                            => "fragmented" \in flags[f] \/ stage[f] = "injectStream"
  PROVE  PoolStep
<1>1. Arranged(R)'
  BY PacketsStay
<1>2. \A q \in R["stream"] : q \in R["stream"] /\ pktFlow'[q] = pktFlow[q]
  BY DEF listVars
<1>3. ~ StreamRace => Passed(R)'
  BY <1>2, PassedStill
<1>. QED
  BY <1>1, <1>3 DEF PoolStep

(* Which steps these are. *)
LEMMA PoolOther ==
  ASSUME BaseInv, NEW R, Arranged(R), ~ StreamRace => Passed(R)
  PROVE  /\ \A f \in Flows, n \in Lens : Data(f, n) => PoolStep
         /\ \A f \in Flows : Retransmit(f) \/ SendFirst(f) \/ SegmentEnd(f) \/ Reauth(f) => PoolStep
         /\ \A f \in Flows : AckCheck(f) \/ SendCheck(f) \/ SegmentCheck(f) => PoolStep
         /\ \A p \in Packets : AckPasses(p) => PoolStep
         /\ Tick \/ PowerOff \/ PowerOn => PoolStep
         /\ \A l \in Limits : SetLimit(l) => PoolStep
         /\ \A a \in Actors : FlushEnd(a) => PoolStep
         /\ UNCHANGED vars => PoolStep
<1>. DEFINE Same == UNCHANGED <<listVars, chain, sent>> /\ refused \subseteq refused'
            Pass == \A f \in Flows : "fragmented" \in flags'[f] \/ stage'[f] = "injectStream"
                            => "fragmented" \in flags[f] \/ stage[f] = "injectStream"
<1>0. Same /\ Pass => PoolStep
  BY StillArranged
<1>1. ASSUME NEW f \in Flows, NEW n, Receive(f, n), UNCHANGED <<listVars, chain, sent, stage, refused>> PROVE Same /\ Pass
  BY <1>1 DEF Receive, BaseInv, TypeInv
<1>2. ASSUME NEW f \in Flows, SendFirst(f) PROVE Same /\ Pass
  BY <1>2 DEF SendFirst, actVars, sentVars, envVars, BaseInv, TypeInv
<1>3. ASSUME NEW f \in Flows, Reauth(f) PROVE Same /\ Pass
  BY <1>3 DEF Reauth, ConfFlags, actVars, sentVars, BaseInv, TypeInv
<1>4. ASSUME NEW f \in Flows, SegmentEnd(f) PROVE Same /\ Pass
  BY <1>4, ActorsAre DEF SegmentEnd, Go, sentVars, envVars, BaseInv, TypeInv
<1>5. ASSUME NEW f \in Flows, AckCheck(f) \/ SendCheck(f) \/ SegmentCheck(f) PROVE Same /\ Pass
  BY <1>5, ActorsAre DEF AckCheck, SendCheck, SegmentCheck, Go, actVars, sentVars, envVars, BaseInv, TypeInv
<1>6. ASSUME NEW p \in Packets, AckPasses(p) PROVE Same /\ Pass
  BY <1>6 DEF AckPasses, actVars, envVars, BaseInv, TypeInv
<1>7. ASSUME Tick \/ PowerOff \/ PowerOn PROVE Same /\ Pass
  BY <1>7, ActorsAre DEF Tick, PowerOff, PowerOn, Go, actVars, sentVars, BaseInv, TypeInv
<1>8. ASSUME NEW l \in Limits, SetLimit(l) PROVE Same /\ Pass
  BY <1>8, ActorsAre DEF SetLimit, Go, sentVars, BaseInv, TypeInv
<1>9. ASSUME NEW a \in Actors, FlushEnd(a) PROVE Same /\ Pass
  BY <1>9, ActorsAre DEF FlushEnd, Go, sentVars, BaseInv, TypeInv
<1>10. ASSUME UNCHANGED vars PROVE Same /\ Pass
  BY <1>10 DEF vars, listVars, actVars, sentVars, envVars
<1>11. ASSUME NEW f \in Flows, NEW n, Receive(f, n) PROVE UNCHANGED <<listVars, chain, sent, stage, refused>>
  BY <1>11 DEF Receive, actVars, sentVars
<1>. HIDE DEF Same, Pass
<1>12. \A f \in Flows : \A n : Receive(f, n) => PoolStep
  BY <1>0, <1>1, <1>11
<1>. QED
  BY <1>0, <1>2, <1>3, <1>4, <1>5, <1>6, <1>7, <1>8, <1>9, <1>10, <1>12 DEF Data, Retransmit

(* The steps that move packets. *)
LEMMA PoolContinue ==
  ASSUME BaseInv, OneFlow, NEW R, Arranged(R), ~ StreamRace => Passed(R)
  PROVE  /\ \A a \in Actors : TakeAcks(a) \/ TakeStream(a) \/ Inject(a) => PoolStep
         /\ \A f \in Flows : AckDefer(f) \/ SendDefer(f) => PoolStep
         /\ \A p \in Packets : Complete(p) => PoolStep
<1>1. ASSUME NEW a \in Actors, TakeAcks(a) PROVE PoolStep
  <2>1. chain[a] = Nil /\ a \notin Flows
    BY <1>1 DEF TakeAcks, BaseInv, FlowInv
  <2>2. PICK T : Arranged(T)' /\ \A q \in T["stream"] : q \in R["stream"] /\ pktFlow'[q] = pktFlow[q]
    BY <1>1, <2>1, TakeAcksArranges DEF BaseInv
  <2>3. /\ refused' = refused /\ flags' = flags /\ \A f \in Flows : stage'[f] = stage[f]
    BY <1>1, <2>1, ActorsAre DEF TakeAcks, Leave, Go, envVars, BaseInv, TypeInv
  <2>4. ~ StreamRace => Passed(T)'
    BY <2>2, <2>3, PassedStill
  <2>. QED
    BY <2>2, <2>4 DEF PoolStep
<1>2. ASSUME NEW a \in Actors, TakeStream(a) PROVE PoolStep
  <2>1. chain[a] = Nil /\ (a \in Flows => a \in FragmentFlows)
    BY <1>2 DEF TakeStream, BaseInv, FlowInv
  <2>2. PICK T : Arranged(T)' /\ T["stream"] = {}
    BY <1>2, <2>1, TakeStreamArranges DEF BaseInv
  <2>3. Passed(T)'
    BY <2>2 DEF Passed
  <2>. QED
    BY <2>2, <2>3 DEF PoolStep
<1>3. ASSUME NEW a \in Actors, Inject(a) PROVE PoolStep
  <2>1. PICK T : Arranged(T)' /\ \A q \in T["stream"] : q \in R["stream"] /\ pktFlow'[q] = pktFlow[q]
    BY <1>3, InjectArranges DEF BaseInv
  <2>2. refused' = refused /\ flags' = flags /\ stage' = stage
    BY <1>3 DEF Inject, envVars
  <2>3. ~ StreamRace => Passed(T)'
    BY <2>1, <2>2, PassedStill
  <2>. QED
    BY <2>1, <2>3 DEF PoolStep
<1>4. ASSUME NEW p \in Packets, Complete(p) PROVE PoolStep
  <2>1. PICK T : Arranged(T)' /\ \A q \in T["stream"] : q \in R["stream"] /\ pktFlow'[q] = pktFlow[q]
    BY <1>4, CompleteArranges DEF BaseInv
  <2>2. refused' = refused /\ flags' = flags /\ stage' = stage
    BY <1>4 DEF Complete, envVars, actVars
  <2>3. ~ StreamRace => Passed(T)'
    BY <2>1, <2>2, PassedStill
  <2>. QED
    BY <2>1, <2>3 DEF PoolStep
<1>5. ASSUME NEW f \in Flows, AckDefer(f) PROVE PoolStep
  <2>1. /\ chain' = chain /\ sent' = sent /\ flags' = flags /\ refused' = refused
        /\ \A g \in Flows : stage'[g] = "injectStream" => stage[g] = "injectStream"
    BY <1>5, ActorsAre DEF AckDefer, Go, sentVars, envVars, BaseInv, TypeInv
  <2>2. CASE Add("out", f)
    <3>1. "out" \in Lists /\ "out" # "stream"
      BY ActorsAre
    <3>2. PICK T : /\ Arranged(T)'
                   /\ \A q \in T["stream"] : (q \in R["stream"] /\ pktFlow'[q] = pktFlow[q])
                                                \/ ("out" = "stream" /\ pktFlow'[q] = f)
      BY <2>1, <2>2, <3>1, AddArranges DEF BaseInv
    <3>3. ~ StreamRace => Passed(T)'
      BY <2>1, <3>2, PassedStill
    <3>. QED
      BY <3>2, <3>3 DEF PoolStep
  <2>3. CASE UNCHANGED listVars
    BY <2>1, <2>3, StillArranged
  <2>. QED
    BY <1>5, <2>2, <2>3 DEF AckDefer
<1>6. ASSUME NEW f \in Flows, SendDefer(f) PROVE PoolStep
  <2>1. chain' = chain /\ sent' = sent /\ stage' = stage /\ f \in sending /\ f \in FragmentFlows
    BY <1>6 DEF SendDefer, sentVars, actVars, BaseInv, FlowInv
  <2>2. CASE Add("stream", f) /\ UNCHANGED <<flags, refused>>
    <3>1. PICK T : /\ Arranged(T)'
                   /\ \A q \in T["stream"] : (q \in R["stream"] /\ pktFlow'[q] = pktFlow[q])
                                                \/ ("stream" = "stream" /\ pktFlow'[q] = f)
      BY <2>1, <2>2, ActorsAre, AddArranges DEF BaseInv
    <3>2. ~ StreamRace => "fragmented" \notin flags[f] /\ stage[f] # "injectStream"
      BY <2>1 DEF BaseInv, SerialInv
    <3>3. ~ StreamRace => Passed(T)'
      BY <2>1, <2>2, <3>1, <3>2 DEF Passed
    <3>. QED
      BY <3>1, <3>3 DEF PoolStep
  <2>3. CASE ~ (Add("stream", f) /\ UNCHANGED <<flags, refused>>)
    <3>1. /\ flags' = [flags EXCEPT ![f] = @ \cup {"fragmented"}]
          /\ refused' = (IF Waiting("stream", f) = {} THEN refused ELSE refused \cup {f})
          /\ UNCHANGED listVars
      BY <1>6, <2>3 DEF SendDefer
    <3>2. Arranged(R)'
      BY <2>1, <3>1, PacketsStay
    <3>3. From(list["stream"].head) = R["stream"]
      <4>1. "stream" \in Lists /\ "stream" \in Heads
        BY PlacesAre DEF Lists
      <4>2. Leads(next, list["stream"].head, R["stream"], list["stream"].tail)
        BY <4>1, HeadsAre DEF Arranged
      <4>. QED
        BY <4>2, LeadsFrom
    <3>4. f \notin refused' => \A p \in R["stream"] : pktFlow[p] # f
      BY <3>1, <3>3 DEF Waiting
    <3>5. refused \subseteq refused' /\ \A g \in Flows : g # f => flags'[g] = flags[g]
      BY <3>1 DEF BaseInv, TypeInv
    <3>6. pktFlow' = pktFlow
      BY <3>1 DEF listVars
    <3>7. ~ StreamRace => Passed(R)'
      BY <2>1, <3>4, <3>5, <3>6 DEF Passed
    <3>. QED
      BY <3>2, <3>7 DEF PoolStep
  <2>. QED
    BY <2>2, <2>3
<1>. QED
  BY <1>1, <1>2, <1>3, <1>4, <1>5, <1>6

-----------------------------------------------------------------------------
(* The inductive invariant holds initially, *)
LEMMA InvInit == Init => IInv
<1> SUFFICES ASSUME Init PROVE IInv
  OBVIOUS
<1>1. BaseInv
  BY BaseInit
<1>2. PICK R : R = [x \in AllPlaces |-> {}]
  OBVIOUS
<1>3. /\ free = Nil /\ sent = {} /\ pool = {} /\ \A l \in Lists : list[l].head = Nil /\ list[l].tail = Nil
      /\ \A a \in Actors : chain[a] = Nil
  BY DEF Init
<1>4. \A x \in Heads : HeadOf(x) = Nil /\ (x \in Lists => list[x].tail = Nil) /\ R[x] = {}
  BY <1>2, <1>3, HeadsAre, PlacesAre
<1>5. \A x \in Heads : \E t : Leads(next, HeadOf(x), R[x], t) /\ (x \in Lists => t = list[x].tail)
  <2>1. Leads(next, Nil, {}, Nil)
    BY LeadsNone
  <2>. QED
    BY <1>4, <2>1
<1>6. R["sent"] = {} /\ R["stream"] = {} /\ R \in [AllPlaces -> SUBSET Packets] /\ \A x \in AllPlaces : R[x] = {}
  BY <1>2, PlacesAre DEF Lists
<1>7. Arranged(R)
  BY <1>3, <1>5, <1>6 DEF Arranged
<1>8. Passed(R)
  BY <1>6 DEF Passed
<1>. QED
  BY <1>1, <1>7, <1>8 DEF IInv, BaseInv, PoolInv

(* every step keeps its first part, *)
LEMMA BaseNext == BaseInv /\ [Next]_vars => BaseInv'
<1> SUFFICES ASSUME BaseInv, [Next]_vars PROVE BaseInv'
  OBVIOUS
<1>1. ASSUME NEW a \in Actors, Continue(a) PROVE BaseInv'
  BY <1>1, BaseTakeAcks, BaseTakeStream, BaseInject, BaseOther DEF Continue
<1>2. ASSUME NEW f \in Flows, FlowContinue(f) PROVE BaseInv'
  BY <1>2, BaseAckDefer, BaseSendDefer, BaseOther DEF FlowContinue
<1>3. ASSUME NEW p \in Packets, PacketContinue(p) PROVE BaseInv'
  BY <1>3, BaseComplete, BaseOther DEF PacketContinue
<1>. QED
  BY <1>1, <1>2, <1>3, BaseOther DEF Next

(* and the packets arranged. *)
LEMMA PoolNext == IInv /\ [Next]_vars => PoolInv'
<1> SUFFICES ASSUME IInv, [Next]_vars, OneFlow PROVE PoolStep
  BY DEF PoolInv, PoolStep, OneFlow
<1>1. PICK R : Arranged(R) /\ (~ StreamRace => Passed(R))
  BY DEF IInv, PoolInv
<1>2. BaseInv
  BY DEF IInv, BaseInv
<1>3. ASSUME NEW a \in Actors, Continue(a) PROVE PoolStep
  BY <1>1, <1>2, <1>3, PoolContinue, PoolOther DEF Continue
<1>4. ASSUME NEW f \in Flows, FlowContinue(f) PROVE PoolStep
  BY <1>1, <1>2, <1>4, PoolContinue, PoolOther DEF FlowContinue
<1>5. ASSUME NEW p \in Packets, PacketContinue(p) PROVE PoolStep
  BY <1>1, <1>2, <1>5, PoolContinue, PoolOther DEF PacketContinue
<1>. QED
  BY <1>1, <1>2, <1>3, <1>4, <1>5, PoolOther DEF Next

(* The invariant of the deferred packets: types, what actors and flows     *)
(* have taken, what is deferred while the power is off, and, for one       *)
(* fragmented flow, which packets are linked from where (fortpkt.c).       *)
THEOREM DeferInvariant == Spec => []IInv
<1>1. IInv /\ [Next]_vars => IInv'
  BY BaseNext, PoolNext DEF IInv, BaseInv
<1>. QED
  BY <1>1, InvInit, PTL DEF Spec

(* PoolSound: with one fragmented flow at most, a packet of the pool is in *)
(* one place, and a list ends at its tail, however adding, flushing,       *)
(* injecting and completing interleave (fort_defer_packet_add, _flush,     *)
(* fort_packet_inject_complete).                                           *)
THEOREM PoolStaysSound == Spec => []PoolSound
<1>1. IInv => PoolSound
  <2> SUFFICES ASSUME IInv, OneFlow
               PROVE  /\ \A p \in Packets :
                           Cardinality({ x \in AllPlaces : p \in Place(x) }) = IF p \in pool THEN 1 ELSE 0
                      /\ \A l \in Lists :
                           IF list[l].head = Nil THEN list[l].tail = Nil
                           ELSE list[l].tail \in From(list[l].head) /\ next[list[l].tail] = Nil
    BY DEF PoolSound, OneFlow
  <2>1. PICK R : Arranged(R)
    BY DEF IInv, PoolInv
  <2>2. \A x \in Heads : \E t : Leads(next, HeadOf(x), R[x], t) /\ (x \in Lists => t = list[x].tail)
    BY <2>1 DEF Arranged
  <2>3. \A x \in Heads : From(HeadOf(x)) = R[x]
    BY <2>2, LeadsFrom
  <2>4. \A x \in AllPlaces : Place(x) = R[x]
    <3>1. Place("sent") = R["sent"]
      BY <2>1, PlacesAre DEF Place, Arranged
    <3>2. Place("free") = R["free"]
      BY <2>3, HeadsAre, PlacesAre DEF Place
    <3>3. \A l \in Lists : Place(l) = R[l]
      BY <2>3, HeadsAre, PlacesAre DEF Place
    <3>4. \A a \in Actors : Place(a) = R[a]
      BY <2>3, HeadsAre, PlacesAre DEF Place
    <3>. QED
      BY <3>1, <3>2, <3>3, <3>4, PlacesAre
  <2>5. ASSUME NEW p \in Packets
        PROVE  Cardinality({ x \in AllPlaces : p \in Place(x) }) = IF p \in pool THEN 1 ELSE 0
    <3>1. CASE p \in pool
      <4>1. PICK y \in AllPlaces : p \in R[y]
        BY <2>1, <3>1 DEF Arranged
      <4>2. { x \in AllPlaces : p \in Place(x) } = {y}
        BY <2>1, <2>4, <4>1, OnePlace
      <4>. QED
        BY <3>1, <4>2, FS_Singleton
    <3>2. CASE p \notin pool
      <4>1. { x \in AllPlaces : p \in Place(x) } = {}
        BY <2>1, <2>4, <3>2, OnePlace
      <4>. QED
        BY <3>2, <4>1, FS_EmptySet
    <3>. QED
      BY <3>1, <3>2
  <2>6. ASSUME NEW l \in Lists
        PROVE  IF list[l].head = Nil THEN list[l].tail = Nil
               ELSE list[l].tail \in From(list[l].head) /\ next[list[l].tail] = Nil
    <3>1. Leads(next, list[l].head, R[l], list[l].tail) /\ From(list[l].head) = R[l]
      BY <2>2, <2>3, HeadsAre, PlacesAre
    <3>. QED
      BY <3>1, LeadsTypes
  <2>. QED
    BY <2>5, <2>6
<1>. QED
  BY <1>1, DeferInvariant, PTL

(* AsleepEmpty: when the power callback has returned, no ACK is deferred   *)
(* until the power is on, unless one was on its way (fort_callback_power,  *)
(* fort_defer_packet_flush).                                               *)
THEOREM AsleepIsEmpty == Spec => []AsleepEmpty
<1>1. IInv => AsleepEmpty
  BY DEF IInv, AsleepInv, AsleepEmpty
<1>. QED
  BY <1>1, DeferInvariant, PTL

(* NotStranded: when the callouts of a flow do not overlap and one flow is *)
(* fragmented, no segment waits for one that has passed                    *)
(* (fort_defer_stream_add, fort_defer_stream_flush).                       *)
THEOREM NoneStranded == Spec => []NotStranded
<1>1. IInv => NotStranded
  <2> SUFFICES ASSUME IInv, ~ StreamRace, OneFlow, NEW f \in Flows \ refused,
                      "fragmented" \in flags[f], stage[f] # "injectStream"
               PROVE  Waiting("stream", f) = {}
    BY DEF NotStranded, OneFlow
  <2>1. PICK R : Arranged(R) /\ Passed(R)
    BY DEF IInv, PoolInv
  <2>2. "stream" \in Lists /\ "stream" \in Heads
    BY PlacesAre DEF Lists
  <2>3. Leads(next, list["stream"].head, R["stream"], list["stream"].tail)
    BY <2>1, <2>2, HeadsAre DEF Arranged
  <2>4. From(list["stream"].head) = R["stream"]
    BY <2>3, LeadsFrom
  <2>. QED
    BY <2>1, <2>4 DEF Waiting, Passed
<1>. QED
  BY <1>1, DeferInvariant, PTL
=============================================================================
