--------------------------- MODULE SequenceLemmas ---------------------------
(***************************************************************************)
(* Induction without the library's induction theorems, whose parameter is  *)
(* an operator: a set of numbers that has 0 and the successor of each of   *)
(* its elements has all numbers, as a least element outside it would have  *)
(* a predecessor inside.  With it, what FlattenSeq of the community        *)
(* modules computes, which the queues of log records are stated with.      *)
(***************************************************************************)
EXTENDS SequencesExt, SequenceTheorems, WellFoundedInduction, TLAPS

(* A set of numbers has a least element. *)
LEMMA NatMin ==
  ASSUME NEW T, T \subseteq Nat, T # {}
  PROVE  \E x \in T : \A y \in T : x <= y
<1>1. IsWellFoundedOn(OpToRel(<, Nat), Nat)
  BY NatLessThanWellFounded
<1>2. PICK x \in T : \A y \in T : <<y, x>> \notin OpToRel(<, Nat)
  BY <1>1, WFMin
<1>3. \A y \in T : y < x => <<y, x>> \in OpToRel(<, Nat)
  BY <1>2 DEF OpToRel
<1>4. \A y \in T : ~ (y < x)
  BY <1>2, <1>3, Zenon
<1>. QED
  BY <1>4

(* Induction: a set with 0 and the successors of its elements is all of Nat. *)
LEMMA NatSetInduction ==
  ASSUME NEW S, 0 \in S, \A n \in Nat : n \in S => n + 1 \in S
  PROVE  Nat \subseteq S
<1>1. SUFFICES ASSUME ~ (Nat \subseteq S) PROVE FALSE
  OBVIOUS
<1>2. PICK x \in Nat \ S : \A y \in Nat \ S : x <= y
  <2>1. Nat \ S # {}
    BY <1>1
  <2>. QED
    BY <2>1, NatMin
<1>3. x # 0 /\ x - 1 \in Nat
  BY <1>2
<1>4. x - 1 \in S
  BY <1>2, <1>3
<1>5. (x - 1) + 1 \in S
  BY <1>3, <1>4
<1>. QED
  BY <1>2, <1>5

(* Max of the community modules, for a set that has a greatest element. *)
LEMMA MaxIs ==
  ASSUME NEW S, S \subseteq Int, NEW x \in S, \A y \in S : y <= x
  PROVE  Max(S) = x
<1>1. PICK m : m = Max(S)
  OBVIOUS
<1>2. m \in S /\ \A y \in S : m >= y
  BY <1>1, Zenon DEF Max
<1>3. QED
  BY <1>1, <1>2

-----------------------------------------------------------------------------
(* Sets of numbers with a bound, as the ids of a table's rows. *)

Numbers(S) == S \subseteq Nat /\ \E b \in Nat : \A i \in S : i <= b

LEMMA NumbersLess ==
  ASSUME NEW S, Numbers(S), NEW T, T \subseteq S
  PROVE  Numbers(T)
BY DEF Numbers

LEMMA Greatest ==
  ASSUME NEW S, Numbers(S)
  PROVE  \E m \in S \cup {0} : \A i \in S \cup {0} : i <= m
<1>1. PICK b \in Nat : \A i \in S : i <= b
  BY DEF Numbers
<1>2. S \cup {0} \subseteq Nat
  BY DEF Numbers
<1>3. PICK T : T = { m \in Nat : \A i \in S \cup {0} : i <= m }
  OBVIOUS
<1>4. b \in T /\ T \subseteq Nat
  BY <1>1, <1>2, <1>3
<1>5. PICK m \in T : \A n \in T : m <= n
  BY <1>4, NatMin
<1>6. m \in S \cup {0}
  <2>1. SUFFICES ASSUME m \notin S \cup {0} PROVE FALSE
    OBVIOUS
  <2>2. m - 1 \in Nat /\ \A i \in S \cup {0} : i <= m - 1
    BY <1>2, <1>3, <2>1
  <2>3. QED
    BY <1>3, <1>4, <1>5, <2>2
<1>7. QED
  BY <1>3, <1>5, <1>6

-----------------------------------------------------------------------------
(* The function FlattenSeq is defined by. *)

IsFlatten(f, s) == f = [i \in 1 .. Len(s) |-> IF i = 1 THEN s[i] ELSE f[i - 1] \o s[i]]

(* Its values, one after the other. *)
LEMMA FlattenTurns ==
  ASSUME NEW S, NEW s \in Seq(S), NEW f, IsFlatten(f, s)
  PROVE  /\ s # <<>> => f[1] = s[1]
         /\ \A n \in Nat : n # 0 /\ n + 1 \in 1 .. Len(s) => f[n + 1] = f[n] \o s[n + 1]
<1>1. \A i \in 1 .. Len(s) : f[i] = IF i = 1 THEN s[i] ELSE f[i - 1] \o s[i]
  BY DEF IsFlatten
<1>2. s # <<>> => 1 \in 1 .. Len(s)
  OBVIOUS
<1>3. ASSUME NEW n \in Nat, n # 0, n + 1 \in 1 .. Len(s)
      PROVE  f[n + 1] = f[n] \o s[n + 1]
  <2>1. n + 1 # 1 /\ (n + 1) - 1 = n
    BY <1>3
  <2>. QED
    BY <1>1, <1>3, <2>1
<1>. QED
  BY <1>1, <1>2, <1>3

(* There is such a function, whatever the sequence. *)
LEMMA FlattenExists ==
  ASSUME NEW S, NEW s \in Seq(Seq(S))
  PROVE  \E f : IsFlatten(f, s)
<1>. DEFINE Part(n, f) == f = [i \in 1 .. n |-> IF i = 1 THEN s[i] ELSE f[i - 1] \o s[i]]
            Good == { n \in Nat : \E f : Part(n, f) }
<1>1. 0 \in Good
  <2>1. Part(0, [i \in 1 .. 0 |-> i])
    OBVIOUS
  <2>. QED
    BY <2>1
<1>2. ASSUME NEW n \in Nat, n \in Good
      PROVE  n + 1 \in Good
  <2>1. PICK f : Part(n, f)
    BY <1>2
  <2>. DEFINE g == [i \in 1 .. n + 1 |->
                      IF i = n + 1 THEN (IF i = 1 THEN s[i] ELSE f[n] \o s[i]) ELSE f[i]]
  <2>. HIDE DEF Part
  <2>2. ASSUME NEW i \in 1 .. n + 1
        PROVE  g[i] = IF i = 1 THEN s[i] ELSE g[i - 1] \o s[i]
    <3>1. CASE i = n + 1
      BY <3>1, <1>2
    <3>2. CASE i # n + 1
      <4>1. i \in 1 .. n /\ g[i] = f[i]
        BY <3>2
      <4>2. f[i] = IF i = 1 THEN s[i] ELSE f[i - 1] \o s[i]
        BY <2>1, <4>1 DEF Part
      <4>3. i # 1 => g[i - 1] = f[i - 1]
        BY <4>1
      <4>. QED
        BY <4>1, <4>2, <4>3
    <3>. QED
      BY <3>1, <3>2
  <2>3. Part(n + 1, g)
    BY <2>2 DEF Part
  <2>. QED
    BY <2>3
<1>. HIDE DEF Good
<1>3. Nat \subseteq Good
  BY <1>1, <1>2, NatSetInduction
<1>4. Len(s) \in Good
  BY <1>3
<1>. QED
  BY <1>4 DEF Good, IsFlatten

(* Where two sequences agree their functions do, and the values are sequences. *)
LEMMA FlattenAgrees ==
  ASSUME NEW S, NEW s \in Seq(Seq(S)), NEW t \in Seq(Seq(S)), NEW f, NEW g,
         IsFlatten(f, s), IsFlatten(g, t), Len(s) <= Len(t), \A i \in 1 .. Len(s) : s[i] = t[i]
  PROVE  \A i \in 1 .. Len(s) : f[i] = g[i] /\ f[i] \in Seq(S)
<1>. DEFINE Good == { n \in Nat : n \in 1 .. Len(s) => f[n] = g[n] /\ f[n] \in Seq(S) }
<1>1. 0 \in Good
  OBVIOUS
<1>2. ASSUME NEW n \in Nat, n \in Good
      PROVE  n + 1 \in Good
  <2>1. SUFFICES ASSUME n + 1 \in 1 .. Len(s)
                 PROVE  f[n + 1] = g[n + 1] /\ f[n + 1] \in Seq(S)
    OBVIOUS
  <2>2. n + 1 \in 1 .. Len(t) /\ s[n + 1] = t[n + 1] /\ s[n + 1] \in Seq(S) /\ s # <<>> /\ t # <<>>
    BY <2>1
  <2>3. CASE n = 0
    <3>1. f[1] = s[1] /\ g[1] = t[1]
      BY <2>2, FlattenTurns
    <3>. QED
      BY <2>2, <2>3, <3>1
  <2>4. CASE n # 0
    <3>1. f[n] = g[n] /\ f[n] \in Seq(S)
      BY <1>2, <2>1, <2>4
    <3>2. f[n + 1] = f[n] \o s[n + 1] /\ g[n + 1] = g[n] \o t[n + 1]
      BY <2>1, <2>2, <2>4, FlattenTurns
    <3>. QED
      BY <2>2, <3>1, <3>2
  <2>. QED
    BY <2>3, <2>4
<1>. HIDE DEF Good
<1>3. Nat \subseteq Good
  BY <1>1, <1>2, NatSetInduction
<1>4. \A i \in 1 .. Len(s) : i \in Good
  BY <1>3
<1>. QED
  BY <1>4 DEF Good

(* FlattenSeq is the last value of the function. *)
LEMMA FlattenValue ==
  ASSUME NEW S, NEW s \in Seq(Seq(S)), NEW f, IsFlatten(f, s)
  PROVE  /\ FlattenSeq(s) = IF s = <<>> THEN <<>> ELSE f[Len(s)]
         /\ \A i \in 1 .. Len(s) : f[i] \in Seq(S)
<1>. DEFINE g == CHOOSE h : IsFlatten(h, s)
<1>1. IsFlatten(g, s)
  BY FlattenExists
<1>2. FlattenSeq(s) = IF Len(s) = 0 THEN s ELSE g[Len(s)]
  BY DEF FlattenSeq, IsFlatten
<1>. HIDE DEF g
<1>3. Len(s) <= Len(s) /\ Len(s) \in Nat
  OBVIOUS
<1>4. \A i \in 1 .. Len(s) : f[i] = g[i] /\ f[i] \in Seq(S)
  BY <1>1, <1>3, FlattenAgrees
<1>. QED
  BY <1>2, <1>4

(* Flattening sequences over S gives a sequence over S. *)
LEMMA FlattenType ==
  ASSUME NEW S, NEW s \in Seq(Seq(S))
  PROVE  FlattenSeq(s) \in Seq(S)
<1>1. PICK f : IsFlatten(f, s)
  BY FlattenExists
<1>2. s # <<>> => Len(s) \in 1 .. Len(s)
  OBVIOUS
<1>. QED
  BY <1>1, <1>2, FlattenValue

(* \o as an operator that the provers take as it is: what the backends know *)
(* of \o itself hides that it is associative when its arguments are terms.  *)
Joined(a, b) == a \o b

(* Joining gives a sequence, is associative, and <<>> is neutral. *)
LEMMA JoinedType ==
  ASSUME NEW S, NEW a \in Seq(S), NEW b \in Seq(S)
  PROVE  Joined(a, b) \in Seq(S)
  BY DEF Joined

LEMMA JoinedAssoc ==
  ASSUME NEW S, NEW a \in Seq(S), NEW b \in Seq(S), NEW c \in Seq(S)
  PROVE  Joined(Joined(a, b), c) = Joined(a, Joined(b, c))
  BY DEF Joined

LEMMA JoinedEmpty ==
  ASSUME NEW S, NEW a \in Seq(S)
  PROVE  Joined(a, <<>>) = a /\ Joined(<<>>, a) = a
  BY DEF Joined

LEMMA FlattenEmpty == FlattenSeq(<<>>) = <<>>
  BY DEF FlattenSeq

(* A last element, a first one, none: what is flattened is joined. *)
LEMMA FlattenAppend ==
  ASSUME NEW S, NEW s \in Seq(Seq(S)), NEW x \in Seq(S)
  PROVE  FlattenSeq(Append(s, x)) = FlattenSeq(s) \o x
<1>. DEFINE t == Append(s, x)
<1>1. /\ t \in Seq(Seq(S)) /\ Len(t) = Len(s) + 1 /\ t # <<>> /\ t[Len(s) + 1] = x
      /\ Len(s) \in Nat /\ \A i \in 1 .. Len(s) : s[i] = t[i]
  BY AppendProperties
<1>. HIDE DEF t
<1>2. PICK f : IsFlatten(f, s)
  BY FlattenExists
<1>3. PICK g : IsFlatten(g, t)
  BY <1>1, FlattenExists
<1>4. Len(s) <= Len(t) /\ Len(s) + 1 \in 1 .. Len(t) /\ (s # <<>> => Len(s) \in 1 .. Len(s))
  BY <1>1
<1>5. \A i \in 1 .. Len(s) : f[i] = g[i] /\ f[i] \in Seq(S)
  BY <1>1, <1>2, <1>3, <1>4, FlattenAgrees
<1>6. FlattenSeq(t) = g[Len(s) + 1]
  BY <1>1, <1>3, FlattenValue
<1>7. FlattenSeq(s) = IF s = <<>> THEN <<>> ELSE f[Len(s)]
  BY <1>2, FlattenValue
<1>8. CASE s = <<>>
  <2>1. g[1] = t[1]
    BY <1>1, <1>3, FlattenTurns
  <2>2. <<>> \o x = x /\ Len(s) + 1 = 1
    BY <1>8
  <2>. QED
    BY <1>1, <1>6, <1>7, <1>8, <2>1, <2>2 DEF t
<1>9. CASE s # <<>>
  <2>1. Len(s) # 0
    BY <1>9
  <2>2. g[Len(s) + 1] = g[Len(s)] \o t[Len(s) + 1]
    BY <1>1, <1>3, <1>4, <2>1, FlattenTurns
  <2>3. f[Len(s)] = g[Len(s)]
    BY <1>4, <1>5, <1>9
  <2>. QED
    BY <1>1, <1>6, <1>7, <1>9, <2>2, <2>3 DEF t
<1>. QED
  BY <1>8, <1>9

LEMMA FlattenHeadTail ==
  ASSUME NEW S, NEW s \in Seq(Seq(S)), s # <<>>
  PROVE  FlattenSeq(s) = s[1] \o FlattenSeq(Tail(s))
<1>. DEFINE t == Tail(s)
<1>1. /\ t \in Seq(Seq(S)) /\ Len(t) \in Nat /\ Len(s) = Len(t) + 1 /\ s[1] \in Seq(S)
      /\ \A n \in Nat : n + 1 \in 1 .. Len(t) =>
           t[n + 1] = s[(n + 1) + 1] /\ t[n + 1] \in Seq(S) /\ (n + 1) + 1 \in 1 .. Len(s)
  BY HeadTailProperties
<1>. HIDE DEF t
<1>2. PICK f : IsFlatten(f, s)
  BY FlattenExists
<1>3. PICK g : IsFlatten(g, t)
  BY <1>1, FlattenExists
<1>4. f[1] = s[1] /\ \A n \in Nat : n # 0 /\ n + 1 \in 1 .. Len(s) => f[n + 1] = f[n] \o s[n + 1]
  BY <1>2, FlattenTurns
<1>5. /\ t # <<>> => g[1] = t[1]
      /\ \A n \in Nat : n # 0 /\ n + 1 \in 1 .. Len(t) => g[n + 1] = g[n] \o t[n + 1]
  BY <1>1, <1>3, FlattenTurns
<1>6. \A i \in 1 .. Len(t) : g[i] \in Seq(S)
  BY <1>1, <1>3, FlattenValue
<1>. DEFINE Good == { n \in Nat : n \in 1 .. Len(t) => f[n + 1] = s[1] \o g[n] }
<1>7. 0 \in Good
  OBVIOUS
<1>8. ASSUME NEW n \in Nat, n \in Good
      PROVE  n + 1 \in Good
  <2>1. SUFFICES ASSUME n + 1 \in 1 .. Len(t)
                 PROVE  f[(n + 1) + 1] = s[1] \o g[n + 1]
    <3>1. n + 1 \in Nat
      OBVIOUS
    <3>. QED
      BY <3>1, Zenon
  <2>2. t[n + 1] = s[(n + 1) + 1] /\ t[n + 1] \in Seq(S) /\ (n + 1) + 1 \in 1 .. Len(s)
    BY <1>1, <2>1
  <2>3. f[(n + 1) + 1] = f[n + 1] \o t[n + 1]
    <3>1. n + 1 \in Nat /\ n + 1 # 0
      OBVIOUS
    <3>. QED
      BY <1>4, <2>2, <3>1
  <2>4. CASE n = 0
    <3>1. t # <<>> /\ n + 1 = 1
      BY <1>1, <2>1, <2>4
    <3>. QED
      BY <1>4, <1>5, <2>3, <3>1
  <2>5. CASE n # 0
    <3>1. n \in 1 .. Len(t)
      BY <1>1, <2>1, <2>5
    <3>2. f[n + 1] = s[1] \o g[n] /\ g[n] \in Seq(S) /\ g[n + 1] = g[n] \o t[n + 1]
      BY <1>5, <1>6, <1>8, <2>1, <2>5, <3>1
    <3>3. s[1] \in Seq(S) /\ g[n] \in Seq(S) /\ t[n + 1] \in Seq(S)
      BY <1>1, <2>2, <3>2
    <3>4. Joined(Joined(s[1], g[n]), t[n + 1]) = Joined(s[1], Joined(g[n], t[n + 1]))
      BY <3>3, JoinedAssoc
    <3>. QED
      BY <2>3, <3>2, <3>4, Zenon DEF Joined
  <2>. QED
    BY <2>4, <2>5
<1>. HIDE DEF Good
<1>9. Nat \subseteq Good
  BY <1>7, <1>8, NatSetInduction
<1>10. FlattenSeq(s) = f[Len(s)] /\ FlattenSeq(t) = IF t = <<>> THEN <<>> ELSE g[Len(t)]
  BY <1>1, <1>2, <1>3, FlattenValue
<1>11. CASE t = <<>>
  <2>1. Len(s) = 1 /\ s[1] \o <<>> = s[1]
    BY <1>1, <1>11
  <2>. QED
    BY <1>4, <1>10, <1>11, <2>1 DEF t
<1>12. CASE t # <<>>
  <2>1. Len(t) \in 1 .. Len(t)
    BY <1>1, <1>12
  <2>2. f[Len(s)] = s[1] \o g[Len(t)]
    BY <1>1, <1>9, <2>1 DEF Good
  <2>. QED
    BY <1>10, <1>12, <2>2 DEF t
<1>. QED
  BY <1>11, <1>12

(* A last element that grows. *)
LEMMA FlattenGrow ==
  ASSUME NEW S, NEW s \in Seq(Seq(S)), s # <<>>, NEW x \in Seq(S)
  PROVE  FlattenSeq([s EXCEPT ![Len(s)] = @ \o x]) = FlattenSeq(s) \o x
<1>1. PICK r \in Seq(Seq(S)), e \in Seq(S) : s = Append(r, e)
  BY SequenceEmptyOrAppend
<1>2. /\ Len(s) = Len(r) + 1 /\ s[Len(s)] = e /\ e \o x \in Seq(S) /\ Len(r) \in Nat
      /\ Len(s) \in 1 .. Len(s)
  BY <1>1, AppendProperties, ConcatProperties
<1>3. [s EXCEPT ![Len(s)] = @ \o x] = Append(r, e \o x)
  <2>. DEFINE t == [s EXCEPT ![Len(s)] = e \o x]
              u == Append(r, e \o x)
  <2>1. t \in Seq(Seq(S)) /\ Len(t) = Len(s) /\ \A j \in 1 .. Len(s) : t[j] = IF j = Len(s) THEN e \o x ELSE s[j]
    BY <1>2, ExceptSeq
  <2>2. u \in Seq(Seq(S)) /\ Len(u) = Len(s) /\ u[Len(s)] = e \o x /\ \A j \in 1 .. Len(r) : u[j] = r[j]
    BY <1>2, AppendProperties
  <2>3. \A j \in 1 .. Len(r) : s[j] = r[j]
    BY <1>1, AppendProperties
  <2>. HIDE DEF t, u
  <2>4. ASSUME NEW j \in 1 .. Len(s)
        PROVE  t[j] = u[j]
    <3>1. j = Len(s) \/ j \in 1 .. Len(r)
      BY <1>2
    <3>2. Len(s) \notin 1 .. Len(r)
      BY <1>2
    <3>. QED
      BY <2>1, <2>2, <2>3, <3>1, <3>2
  <2>5. t = u
    BY <2>1, <2>2, <2>4, SeqEqual
  <2>. QED
    BY <1>2, <2>5 DEF t, u
<1>4. FlattenSeq(Append(r, e \o x)) = FlattenSeq(r) \o (e \o x)
  BY <1>2, FlattenAppend
<1>5. FlattenSeq(s) = FlattenSeq(r) \o e
  BY <1>1, FlattenAppend
<1>6. FlattenSeq(r) \in Seq(S)
  BY FlattenType
<1>7. Joined(Joined(FlattenSeq(r), e), x) = Joined(FlattenSeq(r), Joined(e, x))
  BY <1>6, JoinedAssoc
<1>. QED
  BY <1>3, <1>4, <1>5, <1>7, Zenon DEF Joined

-----------------------------------------------------------------------------
(* What is left when an element is removed, and what an insertion makes. *)
LEMMA RemovedAt ==
  ASSUME NEW S, NEW s \in Seq(S), NEW i \in 1 .. Len(s)
  PROVE  /\ RemoveAt(s, i) \in Seq(S) /\ Len(RemoveAt(s, i)) = Len(s) - 1
         /\ \A j \in 1 .. Len(s) - 1 : RemoveAt(s, i)[j] = s[IF j < i THEN j ELSE j + 1]
<1>1. PICK a : a = SubSeq(s, 1, i - 1)
  OBVIOUS
<1>2. PICK b : b = SubSeq(s, i + 1, Len(s))
  OBVIOUS
<1>3. a \in Seq(S) /\ Len(a) = i - 1 /\ \A j \in 1 .. i - 1 : a[j] = s[j]
  BY <1>1
<1>4. b \in Seq(S) /\ Len(b) = Len(s) - i /\ \A j \in 1 .. Len(s) - i : b[j] = s[i + j]
  BY <1>2
<1>5. RemoveAt(s, i) = a \o b
  BY <1>1, <1>2 DEF RemoveAt
<1>6. a \o b \in Seq(S) /\ Len(a \o b) = Len(s) - 1
  BY <1>3, <1>4
<1>7. ASSUME NEW j \in 1 .. Len(s) - 1
      PROVE  (a \o b)[j] = s[IF j < i THEN j ELSE j + 1]
  <2>1. (a \o b)[j] = IF j <= Len(a) THEN a[j] ELSE b[j - Len(a)]
    BY <1>3, <1>4, ConcatProperties
  <2>2. CASE j < i
    BY <1>3, <2>1, <2>2
  <2>3. CASE ~ (j < i)
    <3>1. j - Len(a) \in 1 .. Len(s) - i /\ i + (j - Len(a)) = j + 1
      BY <1>3, <2>3
    <3>2. QED
      BY <1>3, <1>4, <2>1, <2>3, <3>1
  <2>4. QED
    BY <2>2, <2>3
<1>8. QED
  BY <1>5, <1>6, <1>7

Inserted(s, i, e, t) ==
  /\ Len(t) = Len(s) + 1
  /\ \A j \in 1 .. Len(s) + 1 : t[j] = IF j = i THEN e ELSE s[IF j < i THEN j ELSE j - 1]

LEMMA InsertedAt ==
  ASSUME NEW S, NEW s \in Seq(S), NEW e \in S, NEW i \in 1 .. Len(s) + 1,
         NEW t, t = InsertAt(s, i, e)
  PROVE  t \in Seq(S) /\ Inserted(s, i, e, t)
<1>1. PICK a : a = SubSeq(s, 1, i - 1)
  OBVIOUS
<1>2. PICK b : b = SubSeq(s, i, Len(s))
  OBVIOUS
<1>3. a \in Seq(S) /\ Len(a) = i - 1 /\ \A j \in 1 .. i - 1 : a[j] = s[j]
  BY <1>1
<1>4. b \in Seq(S) /\ Len(b) = Len(s) - i + 1 /\ \A j \in 1 .. Len(s) - i + 1 : b[j] = s[i + j - 1]
  BY <1>2
<1>5. PICK c : c = a \o <<e>>
  OBVIOUS
<1>6. c \in Seq(S) /\ Len(c) = i /\ \A j \in 1 .. i : c[j] = IF j = i THEN e ELSE s[j]
  BY <1>3, <1>5
<1>7. t = c \o b
  BY <1>1, <1>2, <1>5 DEF InsertAt
<1>8. c \o b \in Seq(S) /\ Len(c \o b) = Len(s) + 1
  <2>1. c \o b \in Seq(S) /\ Len(c \o b) = Len(c) + Len(b)
    BY <1>4, <1>6, ConcatProperties
  <2>2. QED
    BY <1>4, <1>6, <2>1
<1>9. ASSUME NEW j \in 1 .. Len(s) + 1
      PROVE  (c \o b)[j] = IF j = i THEN e ELSE s[IF j < i THEN j ELSE j - 1]
  <2>1. (c \o b)[j] = IF j <= Len(c) THEN c[j] ELSE b[j - Len(c)]
    BY <1>4, <1>6, ConcatProperties
  <2>2. CASE j <= i
    BY <1>6, <2>1, <2>2
  <2>3. CASE ~ (j <= i)
    <3>1. j - Len(c) \in 1 .. Len(s) - i + 1 /\ i + (j - Len(c)) - 1 = j - 1
      BY <1>6, <2>3
    <3>2. QED
      BY <1>4, <1>6, <2>1, <2>3, <3>1
  <2>4. QED
    BY <2>2, <2>3
<1>10. QED
  BY <1>7, <1>8, <1>9 DEF Inserted

(* A sequence t of elements of s: each of those at places is in it once. *)
TakenAt(s, t, dropped, f) ==
  /\ f \in [1 .. Len(t) -> (1 .. Len(s)) \ dropped]
  /\ \A j \in 1 .. Len(t) : t[j] = s[f[j]]
  /\ \A i, j \in 1 .. Len(t) : f[i] = f[j] => i = j
  /\ \A k \in (1 .. Len(s)) \ dropped : \E j \in 1 .. Len(t) : f[j] = k

LEMMA RemovedPlaces ==
  ASSUME NEW S, NEW s \in Seq(S), NEW i \in 1 .. Len(s), NEW t, t = RemoveAt(s, i)
  PROVE  t \in Seq(S) /\ Len(t) = Len(s) - 1 /\ \E f : TakenAt(s, t, {i}, f)
<1>1. PICK f : f = [j \in 1 .. Len(s) - 1 |-> IF j < i THEN j ELSE j + 1]
  OBVIOUS
<1>2. t \in Seq(S) /\ Len(t) = Len(s) - 1 /\ \A j \in 1 .. Len(t) : t[j] = s[f[j]]
  BY <1>1, RemovedAt
<1>3. \A j \in 1 .. Len(t) : f[j] = IF j < i THEN j ELSE j + 1
  BY <1>1, <1>2
<1>4. f \in [1 .. Len(t) -> (1 .. Len(s)) \ {i}]
  BY <1>1, <1>2
<1>5. \A h, j \in 1 .. Len(t) : f[h] = f[j] => h = j
  BY <1>3
<1>6. ASSUME NEW k \in (1 .. Len(s)) \ {i}
      PROVE  \E j \in 1 .. Len(t) : f[j] = k
  <2>1. k < i => k \in 1 .. Len(t) /\ f[k] = k
    BY <1>2, <1>3
  <2>2. k > i => k - 1 \in 1 .. Len(t) /\ f[k - 1] = k
    BY <1>2, <1>3
  <2>3. QED
    BY <2>1, <2>2
<1>7. QED
  BY <1>2, <1>4, <1>5, <1>6 DEF TakenAt

LEMMA MovedPlaces ==
  ASSUME NEW S, NEW s \in Seq(S), NEW i \in 1 .. Len(s), NEW k \in 1 .. Len(s),
         NEW t, t = InsertAt(RemoveAt(s, i), k, s[i])
  PROVE  t \in Seq(S) /\ Len(t) = Len(s) /\ \E f : TakenAt(s, t, {}, f)
<1>1. PICK r : r = RemoveAt(s, i)
  OBVIOUS
<1>2. r \in Seq(S) /\ Len(r) = Len(s) - 1 /\ \A j \in 1 .. Len(s) - 1 : r[j] = s[IF j < i THEN j ELSE j + 1]
  BY <1>1, RemovedAt
<1>3. k \in 1 .. Len(r) + 1 /\ s[i] \in S
  BY <1>2
<1>4. /\ t \in Seq(S) /\ Len(t) = Len(s)
      /\ \A j \in 1 .. Len(s) : t[j] = IF j = k THEN s[i] ELSE r[IF j < k THEN j ELSE j - 1]
  <2>1. PICK e \in S : e = s[i]
    BY <1>3
  <2>2. t = InsertAt(r, k, e)
    BY <1>1, <2>1
  <2>3. t \in Seq(S) /\ Inserted(r, k, e, t)
    <3>1. r \in Seq(S) /\ e \in S /\ k \in 1 .. Len(r) + 1
      BY <1>2, <1>3
    <3>2. QED
      BY <2>2, <3>1, InsertedAt
  <2>4. Len(r) + 1 = Len(s)
    BY <1>2
  <2>5. QED
    BY <2>1, <2>3, <2>4 DEF Inserted
<1>5. PICK g : g = [j \in 1 .. Len(s) |-> IF j < k THEN j ELSE j - 1]
  OBVIOUS
<1>6. PICK f : f = [j \in 1 .. Len(s) |-> IF j = k THEN i ELSE IF g[j] < i THEN g[j] ELSE g[j] + 1]
  OBVIOUS
<1>7. \A j \in 1 .. Len(s) : g[j] = IF j < k THEN j ELSE j - 1
  BY <1>5
<1>8. \A j \in 1 .. Len(s) : f[j] = IF j = k THEN i ELSE IF g[j] < i THEN g[j] ELSE g[j] + 1
  BY <1>6
<1>9. ASSUME NEW j \in 1 .. Len(s) PROVE t[j] = s[f[j]]
  <2>1. CASE j = k
    BY <1>4, <1>8, <2>1
  <2>2. CASE j # k
    <3>1. g[j] \in 1 .. Len(s) - 1 /\ t[j] = r[g[j]]
      BY <1>4, <1>7, <2>2
    <3>2. r[g[j]] = s[IF g[j] < i THEN g[j] ELSE g[j] + 1]
      BY <1>2, <3>1
    <3>3. QED
      BY <1>8, <2>2, <3>1, <3>2
  <2>3. QED
    BY <2>1, <2>2
<1>10. DOMAIN f = 1 .. Len(s) /\ \A j \in 1 .. Len(s) : f[j] \in 1 .. Len(s)
  BY <1>6, <1>7, <1>8
<1>11. f \in [1 .. Len(t) -> (1 .. Len(s)) \ {}]
  BY <1>4, <1>6, <1>10
<1>12. ASSUME NEW h \in 1 .. Len(s), NEW j \in 1 .. Len(s), f[h] = f[j]
       PROVE  h = j
  <2>1. \A n \in {h, j} : n = k \/ (n # k /\ f[n] # i /\ g[n] = IF f[n] < i THEN f[n] ELSE f[n] - 1)
    BY <1>7, <1>8
  <2>2. f[k] = i
    BY <1>8
  <2>3. h = k <=> j = k
    BY <1>12, <2>1, <2>2
  <2>4. h # k => g[h] = g[j]
    BY <1>12, <2>1, <2>3
  <2>5. QED
    BY <1>7, <2>3, <2>4
<1>13. ASSUME NEW m \in 1 .. Len(s)
       PROVE  \E j \in 1 .. Len(s) : f[j] = m
  <2>1. m = i => f[k] = m
    BY <1>8
  <2>2. PICK n : n = IF m < i THEN m ELSE m - 1
    OBVIOUS
  <2>3. m # i => n \in 1 .. Len(s) - 1 /\ m = IF n < i THEN n ELSE n + 1
    BY <2>2
  <2>4. m # i /\ n < k => n \in 1 .. Len(s) /\ g[n] = n /\ f[n] = m
    BY <1>7, <1>8, <2>3
  <2>5. m # i /\ n >= k => n + 1 \in 1 .. Len(s) /\ g[n + 1] = n /\ f[n + 1] = m
    BY <1>7, <1>8, <2>3
  <2>6. QED
    BY <2>1, <2>3, <2>4, <2>5
<1>14. QED
  <2>1. \A h, j \in 1 .. Len(t) : f[h] = f[j] => h = j
    BY <1>4, <1>12
  <2>2. \A j \in 1 .. Len(t) : t[j] = s[f[j]]
    BY <1>4, <1>9
  <2>3. \A m \in (1 .. Len(s)) \ {} : \E j \in 1 .. Len(t) : f[j] = m
    BY <1>4, <1>13
  <2>4. TakenAt(s, t, {}, f)
    BY <1>11, <2>1, <2>2, <2>3, Zenon DEF TakenAt
  <2>5. QED
    BY <1>4, <2>4
=============================================================================
