---------------------------- MODULE ServiceProof ----------------------------
(***************************************************************************)
(* Proofs about the service, for any clients, values, lengths of days and  *)
(* months, quotas and bounds.                                              *)
(*                                                                         *)
(* Its clients: a call takes no other one's answer for its own, and what   *)
(* is on the pipe of a client brings it to the service's state of the      *)
(* driver and to its configuration (RpcInv: nothing is on the way to or    *)
(* from a client that is gone, and only answers to one the service does    *)
(* not know yet; the newest flags under way are the service's).            *)
(*                                                                         *)
(* The quotas it alerts them of: the user is told once of each day and     *)
(* month with more (QuotaInv: the counters are what the tables say, and    *)
(* the .ini file has what was told).                                       *)
(***************************************************************************)
EXTENDS Rpc, StatQuota, SequenceLemmas

-----------------------------------------------------------------------------
(* Messages of some types, of a sequence of them. *)

IsLast(s, n, types, own, x) ==
  \/ x = own /\ \A k \in 1 .. n : s[k].type \notin types
  \/ \E m \in 1 .. n : /\ x = s[m] /\ s[m].type \in types
                       /\ \A k \in 1 .. n : k > m => s[k].type \notin types

LEMMA LastOfIs ==
  ASSUME NEW S, NEW s \in Seq(S), NEW types, NEW own
  PROVE  IsLast(s, Len(s), types, own, LastOf(s, types, own))
<1>0. DOMAIN s = 1 .. Len(s) /\ Len(s) \in Nat
  BY LenProperties
<1>1. PICK at : at = { k \in DOMAIN s : s[k].type \in types }
  OBVIOUS
<1>2. LastOf(s, types, own) = IF at = {} THEN own ELSE s[Max(at)]
  BY <1>1, Zenon DEF LastOf
<1>3. CASE at = {}
  BY <1>0, <1>1, <1>2, <1>3 DEF IsLast
<1>4. CASE at # {}
  <2>1. PICK T : T = { n \in Nat : \A k \in at : k <= n }
    OBVIOUS
  <2>2. Len(s) \in T /\ T \subseteq Nat /\ at \subseteq 1 .. Len(s)
    BY <1>0, <1>1, <2>1
  <2>3. PICK m \in T : \A n \in T : m <= n
    BY <2>2, NatMin
  <2>4. m \in at
    <3>1. SUFFICES ASSUME m \notin at PROVE FALSE
      OBVIOUS
    <3>2. \A k \in at : k \in Nat \ {0} /\ k <= m /\ k # m
      BY <2>1, <2>2, <2>3, <3>1
    <3>3. PICK j : j \in at
      BY <1>4
    <3>4. m \in Nat /\ j \in Nat \ {0} /\ j <= m /\ j # m
      BY <2>2, <2>3, <3>2, <3>3
    <3>6. m - 1 \in Nat /\ \A k \in at : k <= m - 1
      BY <3>2, <3>4
    <3>5. QED
      BY <2>1, <2>2, <2>3, <3>6
  <2>5. \A k \in at : k <= m
    BY <2>1
  <2>6. at \subseteq Int
    BY <2>2
  <2>7. Max(at) = m
    BY <2>4, <2>5, <2>6, MaxIs
  <2>8. QED
    <3>1. m \in 1 .. Len(s) /\ s[m].type \in types
      BY <1>0, <1>1, <2>4
    <3>2. LastOf(s, types, own) = s[m]
      BY <1>2, <1>4, <2>7
    <3>3. \A k \in 1 .. Len(s) : k > m => s[k].type \notin types
      BY <1>0, <1>1, <2>2, <2>5, <2>4
    <3>4. QED
      BY <3>1, <3>2, <3>3 DEF IsLast
<1>5. QED
  BY <1>3, <1>4

LEMMA LastOfConcat ==
  ASSUME NEW S, NEW s \in Seq(S), NEW t \in Seq(S), NEW types, NEW own
  PROVE  LastOf(s \o t, types, own) = LastOf(t, types, LastOf(s, types, own))
<1>1. PICK l \in Nat, n \in Nat, u \in Seq(S) : l = Len(s) /\ n = Len(t) /\ u = s \o t
  BY LenProperties, ConcatProperties
<1>2. /\ Len(u) = l + n
      /\ \A k \in 1 .. l : u[k] = s[k]
      /\ \A k \in 1 .. n : u[l + k] = t[k]
  <2>1. Len(u) = l + n /\ \A k \in 1 .. l + n : u[k] = IF k <= l THEN s[k] ELSE t[k - l]
    BY <1>1, ConcatProperties
  <2>2. ASSUME NEW k \in 1 .. n PROVE u[l + k] = t[k]
    BY <2>1
  <2>3. QED
    BY <2>1, <2>2
<1>3. PICK a : a = LastOf(s, types, own)
  OBVIOUS
<1>4. IsLast(s, l, types, own, a)
  BY <1>1, <1>3, LastOfIs
<1>5. PICK b : b = LastOf(t, types, a)
  OBVIOUS
<1>6. IsLast(t, n, types, a, b)
  BY <1>1, <1>5, LastOfIs
<1>7. PICK c : c = LastOf(u, types, own)
  OBVIOUS
<1>8. IsLast(u, l + n, types, own, c)
  BY <1>1, <1>2, <1>7, LastOfIs
<1>9. \A k \in 1 .. l + n : k \in 1 .. l \/ (k - l \in 1 .. n /\ u[k] = t[k - l])
  <2>1. ASSUME NEW k \in 1 .. l + n, k \notin 1 .. l PROVE k - l \in 1 .. n /\ u[k] = t[k - l]
    <3>1. k - l \in 1 .. n /\ l + (k - l) = k
      BY <2>1
    <3>2. QED
      BY <1>2, <3>1
  <2>2. QED
    BY <2>1
<1>10. b = c
  <2>1. CASE \A k \in 1 .. n : t[k].type \notin types
    <3>1. b = a
      BY <1>6, <2>1 DEF IsLast
    <3>2. CASE \A k \in 1 .. l : s[k].type \notin types
      <4>1. a = own /\ \A k \in 1 .. l + n : u[k].type \notin types
        BY <1>2, <1>4, <1>9, <2>1, <3>2 DEF IsLast
      <4>2. QED
        BY <1>8, <3>1, <4>1 DEF IsLast
    <3>3. ASSUME NEW m \in 1 .. l, a = s[m], s[m].type \in types,
                 \A k \in 1 .. l : k > m => s[k].type \notin types
          PROVE  a = c
      <4>1. m \in 1 .. l + n /\ u[m] = s[m]
        BY <1>2, <3>3
      <4>2. \A k \in 1 .. l + n : k > m => u[k].type \notin types
        BY <1>2, <1>9, <2>1, <3>3
      <4>3. PICK j \in 1 .. l + n : /\ c = u[j] /\ u[j].type \in types
                                    /\ \A k \in 1 .. l + n : k > j => u[k].type \notin types
        BY <1>8, <3>3, <4>1 DEF IsLast
      <4>4. ~ (j > m) /\ ~ (m > j)
        BY <3>3, <4>1, <4>2, <4>3
      <4>5. j = m
        BY <4>4
      <4>6. QED
        BY <3>3, <4>1, <4>3, <4>5
    <3>4. QED
      BY <1>4, <3>1, <3>2, <3>3 DEF IsLast
  <2>2. ASSUME NEW m \in 1 .. n, b = t[m], t[m].type \in types,
               \A k \in 1 .. n : k > m => t[k].type \notin types
        PROVE  b = c
    <3>1. l + m \in 1 .. l + n /\ u[l + m] = t[m]
      BY <1>2, <2>2
    <3>2. ASSUME NEW k \in 1 .. l + n, k > l + m PROVE u[k].type \notin types
      <4>1. k - l \in 1 .. n /\ k - l > m
        BY <3>2
      <4>2. u[k] = t[k - l]
        BY <1>9, <3>2
      <4>3. QED
        BY <2>2, <4>1, <4>2
    <3>3. PICK j \in 1 .. l + n : /\ c = u[j] /\ u[j].type \in types
                                  /\ \A k \in 1 .. l + n : k > j => u[k].type \notin types
      BY <1>8, <2>2, <3>1 DEF IsLast
    <3>4. ~ (j > l + m) /\ ~ (l + m > j)
      BY <2>2, <3>1, <3>2, <3>3
    <3>5. j = l + m
      BY <3>4
    <3>6. QED
      BY <2>2, <3>1, <3>3, <3>5
  <2>3. QED
    BY <1>6, <2>1, <2>2 DEF IsLast
<1>11. QED
  BY <1>1, <1>3, <1>5, <1>7, <1>10

LEMMA LastOfFew ==
  ASSUME NEW types, NEW own, NEW m
  PROVE  /\ LastOf(<<>>, types, own) = own
         /\ LastOf(<<m>>, types, own) = IF m.type \in types THEN m ELSE own
<1>0. /\ <<>> \in Seq({m}) /\ Len(<<>>) = 0
      /\ <<m>> \in Seq({m}) /\ Len(<<m>>) = 1 /\ <<m>>[1] = m
  OBVIOUS
<1>1. PICK e \in Seq({m}), s \in Seq({m}) :
        e = <<>> /\ Len(e) = 0 /\ s = <<m>> /\ Len(s) = 1 /\ s[1] = m
  BY <1>0
<1>2. IsLast(e, 0, types, own, LastOf(e, types, own)) /\ IsLast(s, 1, types, own, LastOf(s, types, own))
  BY <1>1, LastOfIs
<1>3. QED
  BY <1>1, <1>2 DEF IsLast

LEMMA LastOfNone ==
  ASSUME NEW types, NEW own
  PROVE  LastOf(<<>>, types, own) = own
BY LastOfFew

LEMMA HasConcat ==
  ASSUME NEW S, NEW s \in Seq(S), NEW t \in Seq(S), NEW type
  PROVE  Has(s \o t, type) <=> Has(s, type) \/ Has(t, type)
<1>1. PICK l \in Nat, n \in Nat, u \in Seq(S) : l = Len(s) /\ n = Len(t) /\ u = s \o t
  BY LenProperties, ConcatProperties
<1>2. Len(u) = l + n /\ \A k \in 1 .. l + n : u[k] = IF k <= l THEN s[k] ELSE t[k - l]
  BY <1>1, ConcatProperties
<1>3. /\ Has(s, type) <=> \E k \in 1 .. l : s[k].type = type
      /\ Has(t, type) <=> \E k \in 1 .. n : t[k].type = type
      /\ Has(u, type) <=> \E k \in 1 .. l + n : u[k].type = type
  <2>1. DOMAIN s = 1 .. l /\ DOMAIN t = 1 .. n /\ DOMAIN u = 1 .. l + n
    BY <1>1, <1>2, LenProperties
  <2>2. QED
    BY <2>1, Zenon DEF Has
<1>4. ASSUME NEW k \in 1 .. l + n, u[k].type = type
      PROVE  Has(s, type) \/ Has(t, type)
  <2>1. CASE k <= l
    BY <1>2, <1>3, <1>4, <2>1
  <2>2. CASE k > l
    <3>1. k - l \in 1 .. n /\ u[k] = t[k - l]
      BY <1>2, <2>2
    <3>2. QED
      BY <1>3, <1>4, <3>1
  <2>3. QED
    BY <2>1, <2>2
<1>5. ASSUME NEW k \in 1 .. l, s[k].type = type PROVE Has(u, type)
  <2>1. k \in 1 .. l + n /\ u[k] = s[k]
    BY <1>2
  <2>2. QED
    BY <1>3, <1>5, <2>1
<1>6. ASSUME NEW k \in 1 .. n, t[k].type = type PROVE Has(u, type)
  <2>1. k + l \in 1 .. l + n /\ ~ (k + l <= l) /\ (k + l) - l = k
    OBVIOUS
  <2>2. u[k + l] = t[k]
    BY <1>2, <2>1
  <2>3. QED
    BY <1>3, <1>6, <2>1, <2>2
<1>7. QED
  BY <1>1, <1>3, <1>4, <1>5, <1>6

LEMMA HasFew ==
  ASSUME NEW type, NEW m
  PROVE  /\ ~ Has(<<>>, type)
         /\ Has(<<m>>, type) <=> m.type = type
<1>1. DOMAIN <<>> = {} /\ DOMAIN <<m>> = {1} /\ <<m>>[1] = m
  OBVIOUS
<1>2. QED
  BY <1>1 DEF Has

-----------------------------------------------------------------------------
(* What is under way to a client. *)

Confs == [flags : Values, options : Values]
Msgs ==
  [type : {"state"}, opened : BOOLEAN] \cup [type : {"flags"}, flags : Values]
    \cup [type : {"reload"}] \cup [type : {"result"}, n : Nat]

(* The configuration of a client with its own after messages, when the     *)
(* service has cf.                                                         *)
After(cf, own, msgs) ==
  LET m == LastOf(msgs, {"flags", "reload"}, [type |-> "flags", flags |-> own.flags])
  IN [flags |-> IF m.type = "reload" THEN cf.flags ELSE m.flags,
      options |-> IF Has(msgs, "reload") THEN cf.options ELSE own.options]

(* The newest flags under way, if there are, are the service's.            *)
NewestFlags(cf, msgs) ==
  LET m == LastOf(msgs, {"flags", "reload"}, [type |-> "reload"])
  IN m.type = "reload" \/ m.flags = cf.flags

LEMMA OneMsg ==
  ASSUME NEW m \in Msgs
  PROVE  <<m>> \in Seq(Msgs)
OBVIOUS

LEMMA ConfRecord ==
  ASSUME NEW cf \in Confs
  PROVE  cf = [flags |-> cf.flags, options |-> cf.options]
BY DEF Confs

(* The last of some messages is the first thing known, or a message.       *)
LEMMA LastOfMsgs ==
  ASSUME NEW s \in Seq(Msgs), NEW types, NEW own
  PROVE  \/ LastOf(s, types, own) = own /\ \A k \in DOMAIN s : s[k].type \notin types
         \/ LastOf(s, types, own) \in Msgs /\ LastOf(s, types, own).type \in types
            /\ \A other : LastOf(s, types, other) = LastOf(s, types, own)
<1>1. DOMAIN s = 1 .. Len(s) /\ Len(s) \in Nat
  BY LenProperties
<1>2. \A k \in 1 .. Len(s) : s[k] \in Msgs
  BY ElementOfSeq
<1>3. PICK n \in Nat : n = Len(s)
  BY <1>1
<1>4. PICK x : x = LastOf(s, types, own)
  OBVIOUS
<1>5. IsLast(s, n, types, own, x)
  BY <1>3, <1>4, LastOfIs
<1>6. CASE \A k \in 1 .. n : s[k].type \notin types
  <2>1. x = own
    BY <1>5, <1>6 DEF IsLast
  <2>2. QED
    BY <1>1, <1>3, <1>4, <1>6, <2>1
<1>7. ASSUME NEW m \in 1 .. n, x = s[m], s[m].type \in types,
             \A k \in 1 .. n : k > m => s[k].type \notin types
      PROVE  /\ x \in Msgs /\ x.type \in types
             /\ \A other : LastOf(s, types, other) = x
  <2>1. ASSUME NEW other PROVE LastOf(s, types, other) = x
    <3>1. PICK y : y = LastOf(s, types, other)
      OBVIOUS
    <3>2. IsLast(s, n, types, other, y)
      BY <1>3, <3>1, LastOfIs
    <3>3. PICK j \in 1 .. n : /\ y = s[j] /\ s[j].type \in types
                              /\ \A k \in 1 .. n : k > j => s[k].type \notin types
      BY <1>7, <3>2 DEF IsLast
    <3>4. ~ (j > m) /\ ~ (m > j)
      BY <1>7, <3>3
    <3>5. j = m
      BY <3>4
    <3>6. QED
      BY <1>7, <3>1, <3>3, <3>5
  <2>2. QED
    BY <1>2, <1>3, <1>7, <2>1
<1>8. QED
  BY <1>4, <1>5, <1>6, <1>7 DEF IsLast

(* The state of the driver.                                                *)
LEMMA OpenedSplit ==
  ASSUME NEW s \in Seq(Msgs), NEW t \in Seq(Msgs), NEW own
  PROVE  OpenedAfter(OpenedAfter(own, s), t) = OpenedAfter(own, s \o t)
<1>1. PICK first : first = [type |-> "state", opened |-> own]
  OBVIOUS
<1>2. PICK a : a = LastOf(s, {"state"}, first)
  OBVIOUS
<1>3. a = first \/ (a \in Msgs /\ a.type = "state")
  BY <1>2, LastOfMsgs
<1>4. a = [type |-> "state", opened |-> a.opened]
  BY <1>1, <1>3 DEF Msgs
<1>5. OpenedAfter(own, s) = a.opened
  BY <1>1, <1>2 DEF OpenedAfter
<1>6. LastOf(s \o t, {"state"}, first) = LastOf(t, {"state"}, a)
  BY <1>2, LastOfConcat
<1>7. QED
  BY <1>1, <1>4, <1>5, <1>6 DEF OpenedAfter

LEMMA StateNewsType ==
  ASSUME NEW opened \in BOOLEAN
  PROVE  StateNews(opened) \in Seq(Msgs)
<1>1. PICK m \in Msgs : m = [type |-> "state", opened |-> opened]
  BY DEF Msgs
<1>2. QED
  BY <1>1, OneMsg DEF StateNews

LEMMA OpenedNews ==
  ASSUME NEW s \in Seq(Msgs), NEW own, NEW opened \in BOOLEAN
  PROVE  /\ StateNews(opened) \in Seq(Msgs)
         /\ OpenedAfter(own, s \o StateNews(opened)) = opened
<1>1. PICK m \in Msgs : m = [type |-> "state", opened |-> opened]
  BY DEF Msgs
<1>2. PICK t \in Seq(Msgs) : t = <<m>> /\ StateNews(opened) = t
  <2>1. StateNews(opened) = <<m>>
    BY <1>1 DEF StateNews
  <2>2. QED
    BY <2>1, OneMsg
<1>3. \A x : LastOf(t, {"state"}, x) = m
  BY <1>1, <1>2, LastOfFew
<1>4. LastOf(s \o t, {"state"}, [type |-> "state", opened |-> own]) = m
  BY <1>3, LastOfConcat
<1>5. OpenedAfter(own, s \o t) = opened
  BY <1>1, <1>4 DEF OpenedAfter
<1>6. QED
  BY <1>2, <1>5

(* Messages without some type change nothing that it tells.                *)
LEMMA NoneOf ==
  ASSUME NEW s \in Seq(Msgs), NEW types, \A type \in types : ~ Has(s, type), NEW own
  PROVE  LastOf(s, types, own) = own
<1>1. \A k \in DOMAIN s : s[k].type \notin types
  BY DEF Has
<1>2. \A k \in 1 .. Len(s) : s[k].type \notin types
  BY <1>1, LenProperties
<1>3. PICK n, x : n = Len(s) /\ x = LastOf(s, types, own)
  OBVIOUS
<1>4. IsLast(s, n, types, own, x)
  BY <1>3, LastOfIs
<1>5. QED
  BY <1>2, <1>3, <1>4 DEF IsLast

LEMMA OpenedOther ==
  ASSUME NEW s \in Seq(Msgs), NEW t \in Seq(Msgs), NEW own, ~ Has(t, "state")
  PROVE  OpenedAfter(own, s \o t) = OpenedAfter(own, s)
<1>1. \A x : LastOf(t, {"state"}, x) = x
  BY NoneOf
<1>2. QED
  BY <1>1, LastOfConcat DEF OpenedAfter

(* The configuration.                                                      *)
LEMMA AfterSplit ==
  ASSUME NEW s \in Seq(Msgs), NEW t \in Seq(Msgs), NEW own \in Confs, NEW cf \in Confs,
         After(cf, own, s \o t) = cf
  PROVE  /\ After(cf, own, s) \in Confs
         /\ After(cf, After(cf, own, s), t) = cf
<1>1. PICK first : first = [type |-> "flags", flags |-> own.flags]
  OBVIOUS
<1>2. PICK a : a = LastOf(s, {"flags", "reload"}, first)
  OBVIOUS
<1>3. a = first \/ (a \in Msgs /\ a.type \in {"flags", "reload"})
  BY <1>2, LastOfMsgs
<1>4. PICK f : f = IF a.type = "reload" THEN cf.flags ELSE a.flags
  OBVIOUS
<1>5. PICK o : o = IF Has(s, "reload") THEN cf.options ELSE own.options
  OBVIOUS
<1>6. After(cf, own, s) = [flags |-> f, options |-> o]
  BY <1>1, <1>2, <1>4, <1>5 DEF After
<1>7. f \in Values /\ o \in Values
  BY <1>1, <1>3, <1>4, <1>5 DEF Msgs, Confs
<1>8. PICK b : b = LastOf(t, {"flags", "reload"}, a)
  OBVIOUS
<1>9. LastOf(s \o t, {"flags", "reload"}, first) = b
  BY <1>2, <1>8, LastOfConcat
<1>10. Has(s \o t, "reload") <=> Has(s, "reload") \/ Has(t, "reload")
  BY HasConcat
<1>11. PICK next : next = [type |-> "flags", flags |-> f]
  OBVIOUS
<1>12. PICK c : c = LastOf(t, {"flags", "reload"}, next)
  OBVIOUS
<1>13. \/ b = a /\ c = next
       \/ b = c
  <2>1. \/ b = a /\ \A k \in DOMAIN t : t[k].type \notin {"flags", "reload"}
        \/ \A other : LastOf(t, {"flags", "reload"}, other) = b
    BY <1>8, LastOfMsgs
  <2>2. \/ c = next
        \/ \A other : LastOf(t, {"flags", "reload"}, other) = c
    BY <1>12, LastOfMsgs
  <2>3. QED
    BY <1>8, <1>12, <2>1, <2>2
<1>14. /\ (IF b.type = "reload" THEN cf.flags ELSE b.flags) = cf.flags
       /\ (IF Has(s, "reload") \/ Has(t, "reload") THEN cf.options ELSE own.options) = cf.options
  BY <1>1, <1>9, <1>10 DEF After, Confs
<1>15. /\ (IF c.type = "reload" THEN cf.flags ELSE c.flags) = cf.flags
       /\ (IF Has(t, "reload") THEN cf.options ELSE o) = cf.options
  BY <1>4, <1>5, <1>11, <1>13, <1>14
<1>16. After(cf, [flags |-> f, options |-> o], t) = [flags |-> cf.flags, options |-> cf.options]
  BY <1>11, <1>12, <1>15 DEF After
<1>17. QED
  BY <1>6, <1>7, <1>16 DEF Confs

(* A reload, or the newest flags, bring everything up to date.             *)
LEMMA AfterReload ==
  ASSUME NEW s \in Seq(Msgs), NEW own, NEW cf \in Confs, NewestFlags(cf, s),
         Has(s, "reload") \/ own = cf
  PROVE  After(cf, own, s) = cf
<1>1. PICK first : first = [type |-> "flags", flags |-> own.flags]
  OBVIOUS
<1>2. PICK a, b : /\ a = LastOf(s, {"flags", "reload"}, first)
                  /\ b = LastOf(s, {"flags", "reload"}, [type |-> "reload"])
  OBVIOUS
<1>3. \/ a = first /\ \A k \in DOMAIN s : s[k].type \notin {"flags", "reload"}
      \/ a = b
  BY <1>2, LastOfMsgs
<1>4. b.type = "reload" \/ b.flags = cf.flags
  BY <1>2 DEF NewestFlags
<1>5. (IF a.type = "reload" THEN cf.flags ELSE a.flags) = cf.flags
  <2>1. CASE a = b
    BY <1>4, <2>1
  <2>2. CASE a = first /\ \A k \in DOMAIN s : s[k].type \notin {"flags", "reload"}
    BY <1>1, <2>2 DEF Has
  <2>3. QED
    BY <1>3, <2>1, <2>2
<1>6. After(cf, own, s) = [flags |-> cf.flags, options |-> cf.options]
  BY <1>1, <1>2, <1>5 DEF After
<1>7. QED
  BY <1>6 DEF Confs

WithFlags(own, f) == [flags |-> f, options |-> own.options]

LEMMA FlagsType ==
  ASSUME NEW own \in Confs, NEW f \in Values
  PROVE  /\ WithFlags(own, f) \in Confs /\ WithFlags(own, f).flags = f
         /\ own = WithFlags(own, own.flags) /\ own.flags \in Values
<1>1. own = [flags |-> own.flags, options |-> own.options] /\ own.flags \in Values /\ own.options \in Values
  BY DEF Confs
<1>2. QED
  BY <1>1 DEF Confs, WithFlags

(* Flags that are replaced do not matter; others are kept.                 *)
LEMMA FlagsReplaced ==
  ASSUME NEW s \in Seq(Msgs), NEW own, NEW cf, NEW f, NEW g, Has(s, "flags") \/ Has(s, "reload")
  PROVE  After(cf, WithFlags(own, f), s) = After(cf, WithFlags(own, g), s)
<1>1. PICK types, a, b : /\ types = {"flags", "reload"}
                         /\ a = LastOf(s, types, [type |-> "flags", flags |-> f])
                         /\ b = LastOf(s, types, [type |-> "flags", flags |-> g])
  OBVIOUS
<1>2. ~ (\A k \in DOMAIN s : s[k].type \notin types)
  BY <1>1 DEF Has
<1>3. \A other : LastOf(s, types, other) = a
  BY <1>1, <1>2, LastOfMsgs
<1>4. a = b
  BY <1>1, <1>3
<1>5. WithFlags(own, f).flags = f /\ WithFlags(own, g).flags = g
      /\ WithFlags(own, f).options = WithFlags(own, g).options
  BY DEF WithFlags
<1>6. QED
  BY <1>1, <1>4, <1>5 DEF After

LEMMA FlagsKept ==
  ASSUME NEW s \in Seq(Msgs), NEW own \in Confs, NEW cf, ~ Has(s, "flags"), ~ Has(s, "reload")
  PROVE  After(cf, own, s) = own
<1>1. PICK types : types = {"flags", "reload"}
  OBVIOUS
<1>2. \A x : LastOf(s, types, x) = x
  BY <1>1, NoneOf
<1>3. After(cf, own, s) = [flags |-> own.flags, options |-> own.options]
  BY <1>1, <1>2 DEF After
<1>4. QED
  BY <1>3, ConfRecord

(* The end of what is under way has newest flags, too.                     *)
LEMMA NewestSplit ==
  ASSUME NEW s \in Seq(Msgs), NEW t \in Seq(Msgs), NEW cf, NewestFlags(cf, s \o t)
  PROVE  NewestFlags(cf, t)
<1>1. PICK first : first = [type |-> "reload"]
  OBVIOUS
<1>2. PICK a, b, c : /\ a = LastOf(s, {"flags", "reload"}, first)
                     /\ b = LastOf(t, {"flags", "reload"}, a)
                     /\ c = LastOf(t, {"flags", "reload"}, first)
  OBVIOUS
<1>3. b = LastOf(s \o t, {"flags", "reload"}, first)
  BY <1>2, LastOfConcat
<1>4. b.type = "reload" \/ b.flags = cf.flags
  BY <1>1, <1>3 DEF NewestFlags
<1>5. c = first \/ b = c
  BY <1>2, LastOfMsgs
<1>6. QED
  BY <1>1, <1>2, <1>4, <1>5 DEF NewestFlags

(* Messages that say nothing of the configuration.                         *)
LEMMA ConfOther ==
  ASSUME NEW s \in Seq(Msgs), NEW t \in Seq(Msgs), NEW own, NEW cf,
         ~ Has(t, "flags"), ~ Has(t, "reload")
  PROVE  /\ After(cf, own, s \o t) = After(cf, own, s)
         /\ NewestFlags(cf, s) => NewestFlags(cf, s \o t)
<1>1. \A x : LastOf(s \o t, {"flags", "reload"}, x) = LastOf(s, {"flags", "reload"}, x)
  BY NoneOf, LastOfConcat
<1>2. Has(s \o t, "reload") <=> Has(s, "reload")
  BY HasConcat
<1>3. QED
  BY <1>1, <1>2 DEF After, NewestFlags

LEMMA ConfNewsType ==
  ASSUME NEW part \in {"flags", "options"}, NEW value \in Values
  PROVE  /\ ConfNews(part, value) \in Seq(Msgs)
         /\ ~ Has(ConfNews(part, value), "state") /\ ~ Has(ConfNews(part, value), "result")
<1>1. PICK m \in Msgs : m = IF part = "flags" THEN [type |-> "flags", flags |-> value] ELSE [type |-> "reload"]
  <2>1. [type |-> "flags", flags |-> value] \in Msgs /\ [type |-> "reload"] \in Msgs
    BY DEF Msgs
  <2>2. QED
    BY <2>1
<1>2. ConfNews(part, value) = <<m>> /\ <<m>> \in Seq(Msgs)
  BY <1>1, OneMsg DEF ConfNews
<1>3. m.type # "state" /\ m.type # "result"
  BY <1>1
<1>4. QED
  BY <1>2, <1>3, HasFew

LEMMA ConfNewsHas ==
  ASSUME NEW part, NEW value
  PROVE  Has(ConfNews(part, value), "flags") \/ Has(ConfNews(part, value), "reload")
<1>1. PICK m : m = IF part = "flags" THEN [type |-> "flags", flags |-> value] ELSE [type |-> "reload"]
  OBVIOUS
<1>2. ConfNews(part, value) = <<m>> /\ m.type \in {"flags", "reload"}
  BY <1>1 DEF ConfNews
<1>3. QED
  BY <1>2, HasFew

ConfChange(cf, part, value, new) == new = [cf EXCEPT ![part] = value]

(* The news of a change of the configuration, from cf to new.              *)
LEMMA ConfTold ==
  ASSUME NEW s \in Seq(Msgs), NEW own \in Confs, NEW cf \in Confs, NEW new \in Confs,
         NEW part \in {"flags", "options"}, NEW value \in Values, ConfChange(cf, part, value, new)
  PROVE  /\ NewestFlags(new, s \o ConfNews(part, value))
         /\ After(cf, own, s) = cf => After(new, own, s \o ConfNews(part, value)) = new
<1>1. PICK m \in Msgs : m = IF part = "flags" THEN [type |-> "flags", flags |-> value] ELSE [type |-> "reload"]
  <2>1. [type |-> "flags", flags |-> value] \in Msgs /\ [type |-> "reload"] \in Msgs
    BY DEF Msgs
  <2>2. QED
    BY <2>1
<1>2. PICK t \in Seq(Msgs) : t = <<m>> /\ ConfNews(part, value) = t
  <2>1. ConfNews(part, value) = <<m>>
    BY <1>1 DEF ConfNews
  <2>2. QED
    BY <2>1, OneMsg
<1>3. m.type \in {"flags", "reload"}
  BY <1>1
<1>4. /\ \A x : LastOf(t, {"flags", "reload"}, x) = m
      /\ \A type : Has(t, type) <=> m.type = type
  BY <1>2, <1>3, LastOfFew, HasFew
<1>5. /\ \A x : LastOf(s \o t, {"flags", "reload"}, x) = m
      /\ Has(s \o t, "reload") <=> Has(s, "reload") \/ m.type = "reload"
  BY <1>4, LastOfConcat, HasConcat
<1>6. (IF m.type = "reload" THEN new.flags ELSE m.flags) = new.flags
  BY <1>1 DEF Confs, ConfChange
<1>7. NewestFlags(new, s \o t)
  BY <1>5, <1>6 DEF NewestFlags
<1>8. ASSUME After(cf, own, s) = cf
      PROVE  After(new, own, s \o t) = new
  <2>1. (IF Has(s, "reload") THEN cf.options ELSE own.options) = cf.options
    BY <1>8 DEF After, Confs
  <2>2. part = "flags" => new.options = cf.options
    BY DEF Confs, ConfChange
  <2>3. (IF Has(s \o t, "reload") THEN new.options ELSE own.options) = new.options
    BY <1>1, <1>5, <2>1, <2>2
  <2>4. After(new, own, s \o t) = [flags |-> new.flags, options |-> new.options]
    BY <1>5, <1>6, <2>3 DEF After
  <2>5. QED
    BY <2>4, ConfRecord
<1>9. QED
  BY <1>2, <1>3, <1>4, <1>7, <1>8

-----------------------------------------------------------------------------
(* The service and a client of it. *)

Calls ==
  [cmd : {"save"}, part : {"flags"}, own : BOOLEAN, value : Values, n : Nat]
    \cup [cmd : {"save"}, part : {"options"}, own : {FALSE}, value : Values, n : Nat]
    \cup [cmd : {"checkPassword", "initClient"}]

RpcTypes ==
  /\ isDeviceOpened \in BOOLEAN /\ conf \in Confs
  /\ isServiceClient \in [Clients -> BOOLEAN]
  /\ isClientValidated \in [Clients -> BOOLEAN]
  /\ toServer \in [Clients -> Seq(Calls)] /\ toClient \in [Clients -> Seq(Msgs)]
  /\ client \in [Clients -> {"none", "starting", "idle", "waiting"}]
  /\ clientOpened \in [Clients -> BOOLEAN] /\ clientConf \in [Clients -> Confs]
  /\ m_resultCommand \in [Clients -> Nat]
  /\ call \in [Clients -> [n : Nat, stray : BOOLEAN]]
  /\ missed \in [Clients -> BOOLEAN] /\ refused \in [Clients -> BOOLEAN]

(* Nothing is under way to or from a client that is not there, and only    *)
(* answers to one the service does not know.                               *)
Apart(c) ==
  /\ client[c] = "none" => toServer[c] = <<>> /\ toClient[c] = <<>> /\ ~ isServiceClient[c]
  /\ ~ isServiceClient[c] => \A type \in {"state", "flags", "reload"} : ~ Has(toClient[c], type)

(* What a call that had nothing stray before it can be answered by.        *)
AllOfCall(n, calls, msgs) ==
  /\ \A k \in DOMAIN calls : calls[k].cmd = "save" => calls[k].n = n
  /\ \A k \in DOMAIN msgs : msgs[k].type = "result" => msgs[k].n = n
OwnAnswer(c) ==
  client[c] = "waiting" /\ ~ call[c].stray =>
    /\ m_resultCommand[c] \in {CommandNone, call[c].n}
    /\ AllOfCall(call[c].n, toServer[c], toClient[c])

OpenedComes(c) ==
  isServiceClient[c] => OpenedAfter(clientOpened[c], toClient[c]) = isDeviceOpened

(* The client may have flags of its own in its copy; up to them, what is   *)
(* under way brings it the configuration.                                  *)
Ahead(c) == Asked(c) \/ refused[c]
ComesWith(c, f) ==
  /\ f = clientConf[c].flags \/ Ahead(c)
  /\ After(conf, WithFlags(clientConf[c], f), toClient[c]) = conf
ConfComes(c) ==
  /\ NewestFlags(conf, toClient[c])
  /\ client[c] \in {"idle", "waiting"} => missed[c] \/ \E f \in Values : ComesWith(c, f)

ClientInv(c) == Apart(c) /\ OwnAnswer(c) /\ OpenedComes(c) /\ ConfComes(c)

RpcInv == RpcTypes /\ ~ mixed /\ \A c \in Clients : ClientInv(c)

(* A client of which nothing changes.                                      *)
Same(c) ==
  /\ client'[c] = client[c] /\ clientOpened'[c] = clientOpened[c] /\ clientConf'[c] = clientConf[c]
  /\ m_resultCommand'[c] = m_resultCommand[c] /\ call'[c] = call[c]

LEMMA ClientKept ==
  ASSUME NEW c, ClientInv(c), Same(c), UNCHANGED <<isDeviceOpened, conf>>,
         isServiceClient'[c] = isServiceClient[c], missed'[c] = missed[c], refused'[c] = refused[c],
         toServer'[c] = toServer[c], toClient'[c] = toClient[c]
  PROVE  ClientInv(c)'
<1>1. Apart(c)'
  BY DEF ClientInv, Apart, Same
<1>2. OwnAnswer(c)'
  BY DEF ClientInv, OwnAnswer, Same
<1>3. OpenedComes(c)'
  BY DEF ClientInv, OpenedComes, Same
<1>4. ConfComes(c)'
  BY DEF ClientInv, ConfComes, ComesWith, Ahead, Asked, Same
<1>5. QED
  BY <1>1, <1>2, <1>3, <1>4 DEF ClientInv

(* The answers to a call: of a message more, and of the rest of them.      *)
LEMMA AllConcat ==
  ASSUME NEW n, NEW calls, NEW s \in Seq(Msgs), NEW t \in Seq(Msgs)
  PROVE  AllOfCall(n, calls, s \o t) <=> AllOfCall(n, calls, s) /\ AllOfCall(n, calls, t)
<1>1. PICK l \in Nat, m \in Nat, u \in Seq(Msgs) : l = Len(s) /\ m = Len(t) /\ u = s \o t
  BY LenProperties, ConcatProperties
<1>2. Len(u) = l + m /\ \A k \in 1 .. l + m : u[k] = IF k <= l THEN s[k] ELSE t[k - l]
  BY <1>1, ConcatProperties
<1>3. DOMAIN s = 1 .. l /\ DOMAIN t = 1 .. m /\ DOMAIN u = 1 .. l + m
  BY <1>1, <1>2, LenProperties
<1>4. ASSUME AllOfCall(n, calls, u)
      PROVE  AllOfCall(n, calls, s) /\ AllOfCall(n, calls, t)
  <2>1. ASSUME NEW k \in 1 .. l, s[k].type = "result" PROVE s[k].n = n
    <3>1. k \in 1 .. l + m /\ u[k] = s[k]
      BY <1>2
    <3>2. QED
      BY <1>3, <1>4, <2>1, <3>1 DEF AllOfCall
  <2>2. ASSUME NEW k \in 1 .. m, t[k].type = "result" PROVE t[k].n = n
    <3>1. k + l \in 1 .. l + m /\ ~ (k + l <= l) /\ (k + l) - l = k
      OBVIOUS
    <3>2. u[k + l] = t[k]
      BY <1>2, <3>1
    <3>3. QED
      BY <1>3, <1>4, <2>2, <3>1, <3>2 DEF AllOfCall
  <2>3. QED
    BY <1>3, <1>4, <2>1, <2>2 DEF AllOfCall
<1>5. ASSUME AllOfCall(n, calls, s), AllOfCall(n, calls, t)
      PROVE  AllOfCall(n, calls, u)
  <2>1. ASSUME NEW k \in 1 .. l + m, u[k].type = "result" PROVE u[k].n = n
    <3>1. CASE k <= l
      BY <1>2, <1>3, <1>5, <2>1, <3>1 DEF AllOfCall
    <3>2. CASE k > l
      <4>1. k - l \in 1 .. m /\ u[k] = t[k - l]
        BY <1>2, <3>2
      <4>2. QED
        BY <1>3, <1>5, <2>1, <4>1 DEF AllOfCall
    <3>3. QED
      BY <3>1, <3>2
  <2>2. QED
    BY <1>3, <1>5, <2>1 DEF AllOfCall
<1>6. QED
  BY <1>1, <1>4, <1>5

LEMMA AllOther ==
  ASSUME NEW n, NEW calls, NEW s \in Seq(Msgs), NEW t \in Seq(Msgs), ~ Has(t, "result")
  PROVE  AllOfCall(n, calls, s) => AllOfCall(n, calls, s \o t)
<1>1. ASSUME AllOfCall(n, calls, s) PROVE AllOfCall(n, calls, t)
  BY <1>1 DEF AllOfCall, Has
<1>2. QED
  BY <1>1, AllConcat

(* Messages that say nothing of the configuration bring nothing else.      *)
LEMMA ConfKept ==
  ASSUME NEW c, ConfComes(c), Same(c), toClient[c] \in Seq(Msgs), NEW t \in Seq(Msgs),
         ~ Has(t, "flags"), ~ Has(t, "reload"), toClient'[c] = toClient[c] \o t,
         conf' = conf, missed'[c] = missed[c], Ahead(c) => Ahead(c)'
  PROVE  ConfComes(c)'
<1>1. NewestFlags(conf, toClient[c] \o t)
  BY ConfOther DEF ConfComes
<1>2. ASSUME NEW f \in Values, ComesWith(c, f) PROVE ComesWith(c, f)'
  <2>1. PICK own : own = WithFlags(clientConf[c], f)
    OBVIOUS
  <2>2. After(conf, own, toClient[c] \o t) = After(conf, own, toClient[c])
    BY ConfOther
  <2>3. QED
    BY <1>2, <2>1, <2>2 DEF ComesWith, Same
<1>3. QED
  BY <1>1, <1>2 DEF ConfComes, Same

(* Messages are sent: the state of the driver.                             *)
LEMMA StateSent ==
  ASSUME NEW c, NEW opened \in BOOLEAN, ClientInv(c), Same(c), toClient[c] \in Seq(Msgs),
         client[c] # "none", isServiceClient'[c] = TRUE,
         isDeviceOpened' = opened, conf' = conf, missed'[c] = missed[c], Ahead(c) => Ahead(c)',
         \A n, msgs : AllOfCall(n, toServer[c], msgs) => AllOfCall(n, toServer'[c], msgs),
         toClient'[c] = toClient[c] \o StateNews(opened)
  PROVE  ClientInv(c)'
<1>1. PICK t \in Seq(Msgs) : t = StateNews(opened)
  BY StateNewsType
<1>2. \A type \in {"flags", "reload", "result"} : ~ Has(t, type)
  BY <1>1, HasFew DEF StateNews
<1>3. Apart(c)'
  BY DEF Apart, Same
<1>4. OwnAnswer(c)'
  BY <1>1, <1>2, AllOther DEF ClientInv, OwnAnswer, Same
<1>5. OpenedComes(c)'
  BY OpenedNews DEF OpenedComes
<1>6. ConfComes(c)'
  BY <1>1, <1>2, ConfKept DEF ClientInv
<1>7. QED
  BY <1>3, <1>4, <1>5, <1>6 DEF ClientInv

(* An answer to the client's own call.                                     *)
LEMMA AnswerSent ==
  ASSUME NEW c, NEW n \in Nat, ClientInv(c), Same(c), toClient[c] \in Seq(Msgs),
         client[c] # "none", isServiceClient'[c] = isServiceClient[c],
         UNCHANGED <<isDeviceOpened, conf>>, missed'[c] = missed[c], Ahead(c) => Ahead(c)',
         \A m, msgs : AllOfCall(m, toServer[c], msgs) => AllOfCall(m, toServer'[c], msgs) /\ m = n,
         toClient'[c] = toClient[c] \o <<[type |-> "result", n |-> n]>>
  PROVE  ClientInv(c)'
<1>1. PICK m \in Msgs : m = [type |-> "result", n |-> n]
  BY DEF Msgs
<1>2. PICK t \in Seq(Msgs) : t = <<m>> /\ DOMAIN t = {1} /\ t[1] = m
  <2>1. <<m>> \in Seq(Msgs) /\ DOMAIN <<m>> = {1} /\ <<m>>[1] = m
    BY OneMsg
  <2>2. QED
    BY <2>1
<1>3. \A type \in {"flags", "reload", "state"} : ~ Has(t, type)
  BY <1>1, <1>2, HasFew
<1>4. toClient'[c] = toClient[c] \o t
  BY <1>1, <1>2
<1>5. Apart(c)'
  BY <1>3, <1>4, HasConcat DEF ClientInv, Apart, Same
<1>6. OwnAnswer(c)'
  <2>1. SUFFICES ASSUME client[c] = "waiting", ~ call[c].stray
                 PROVE  /\ m_resultCommand[c] \in {CommandNone, call[c].n}
                        /\ AllOfCall(call[c].n, toServer'[c], toClient[c] \o t)
    BY <1>4 DEF OwnAnswer, Same
  <2>2. m_resultCommand[c] \in {CommandNone, call[c].n} /\ AllOfCall(call[c].n, toServer[c], toClient[c])
    BY <2>1 DEF ClientInv, OwnAnswer
  <2>3. AllOfCall(call[c].n, toServer'[c], toClient[c]) /\ call[c].n = n
    BY <2>2
  <2>4. AllOfCall(call[c].n, toServer'[c], t)
    BY <1>1, <1>2, <2>3 DEF AllOfCall
  <2>5. QED
    BY <2>2, <2>3, <2>4, AllConcat
<1>7. OpenedComes(c)'
  BY <1>3, <1>4, OpenedOther DEF ClientInv, OpenedComes, Same
<1>8. ConfComes(c)'
  BY <1>3, <1>4, ConfKept DEF ClientInv
<1>9. QED
  BY <1>5, <1>6, <1>7, <1>8 DEF ClientInv

-----------------------------------------------------------------------------
(* The invariant, for each action of the service. *)

LEMMA AllTail ==
  ASSUME NEW s \in Seq(Calls), s # <<>>, NEW n, NEW msgs, AllOfCall(n, s, msgs)
  PROVE  /\ AllOfCall(n, Tail(s), msgs)
         /\ Head(s).cmd = "save" => Head(s).n = n
<1>1. PICK l \in Nat, t \in Seq(Calls) : l = Len(t) /\ t = Tail(s)
  BY HeadTailProperties, LenProperties
<1>2. DOMAIN s = 1 .. l + 1 /\ DOMAIN t = 1 .. l /\ \A i \in 1 .. l : t[i] = s[i + 1]
  BY <1>1, HeadTailProperties, LenProperties
<1>3. Head(s) = s[1]
  OBVIOUS
<1>4. \A k \in 1 .. l : k + 1 \in 1 .. l + 1
  OBVIOUS
<1>5. QED
  BY <1>1, <1>2, <1>3, <1>4 DEF AllOfCall

LEMMA AskedTail ==
  ASSUME NEW s \in Seq(Calls), s # <<>>, NEW j \in DOMAIN s, Own(s[j])
  PROVE  Own(Head(s)) \/ \E k \in DOMAIN Tail(s) : Own(Tail(s)[k])
<1>1. PICK l \in Nat, t \in Seq(Calls) : l = Len(t) /\ t = Tail(s)
  BY HeadTailProperties, LenProperties
<1>2. DOMAIN s = 1 .. l + 1 /\ DOMAIN t = 1 .. l /\ \A i \in 1 .. l : t[i] = s[i + 1]
  BY <1>1, HeadTailProperties, LenProperties
<1>3. Head(s) = s[1]
  OBVIOUS
<1>4. CASE j = 1
  BY <1>3, <1>4
<1>5. CASE j # 1
  <2>1. j - 1 \in 1 .. l /\ (j - 1) + 1 = j
    BY <1>2, <1>5
  <2>2. t[j - 1] = s[j]
    BY <1>2, <2>1
  <2>3. QED
    BY <1>1, <1>2, <2>1, <2>2
<1>6. QED
  BY <1>4, <1>5

LEMMA Sent ==
  ASSUME toClient \in [Clients -> Seq(Msgs)], NEW asker, NEW news \in Seq(Msgs), NEW answer \in Seq(Msgs),
         Send(asker, news, answer)
  PROVE  /\ toClient' \in [Clients -> Seq(Msgs)]
         /\ \A c \in Clients :
              toClient'[c] = (toClient[c] \o (IF isServiceClient[c] THEN news ELSE <<>>))
                                          \o (IF c = asker THEN answer ELSE <<>>)
<1>1. ASSUME NEW c \in Clients
      PROVE  /\ toClient'[c] = (toClient[c] \o (IF isServiceClient[c] THEN news ELSE <<>>))
                                            \o (IF c = asker THEN answer ELSE <<>>)
             /\ toClient'[c] \in Seq(Msgs)
  <2>1. PICK s \in Seq(Msgs), a \in Seq(Msgs), b \in Seq(Msgs) :
          /\ s = toClient[c]
          /\ a = IF isServiceClient[c] THEN news ELSE <<>>
          /\ b = IF c = asker THEN answer ELSE <<>>
    <3>1. <<>> \in Seq(Msgs) /\ toClient[c] \in Seq(Msgs)
      OBVIOUS
    <3>2. QED
      BY <3>1
  <2>2. toClient'[c] = s \o a \o b
    BY <2>1 DEF Send, Listeners
  <2>3. QED
    BY <2>1, <2>2, ConcatProperties
<1>2. toClient' = [c \in Clients |-> toClient'[c]]
  BY DEF Send
<1>3. QED
  BY <1>1, <1>2

LEMMA NotNone ==
  ASSUME NEW c, ClientInv(c), toServer[c] # <<>> \/ isServiceClient[c]
  PROVE  client[c] # "none"
BY DEF ClientInv, Apart

(* What the service does with a client's message leaves to the client.     *)
Served(c) ==
  /\ c \in Clients /\ toServer[c] # <<>>
  /\ toServer' = [toServer EXCEPT ![c] = Tail(@)]
  /\ UNCHANGED <<client, clientOpened, clientConf, m_resultCommand, call, mixed>>

LEMMA ServedEffect ==
  ASSUME RpcInv, NEW c, Served(c)
  PROVE  /\ toServer' \in [Clients -> Seq(Calls)]
         /\ Head(toServer[c]) \in Calls
         /\ \A k \in Clients : Same(k) /\ (k # c => toServer'[k] = toServer[k])
         /\ \A n, msgs : AllOfCall(n, toServer[c], msgs) =>
              /\ AllOfCall(n, toServer'[c], msgs)
              /\ Head(toServer[c]).cmd = "save" => Head(toServer[c]).n = n
         /\ client[c] # "none"
         /\ Asked(c) => Asked(c)' \/ Own(Head(toServer[c]))
<1>1. toServer \in [Clients -> Seq(Calls)] /\ c \in Clients /\ toServer[c] # <<>> /\ ClientInv(c)
  BY DEF RpcInv, RpcTypes, Served
<1>2. PICK s \in Seq(Calls) : s = toServer[c]
  BY <1>1
<1>3. Tail(s) \in Seq(Calls) /\ Head(s) \in Calls
  BY <1>1, <1>2, HeadTailProperties
<1>4. /\ toServer' \in [Clients -> Seq(Calls)] /\ toServer'[c] = Tail(s)
      /\ \A k \in Clients : k # c => toServer'[k] = toServer[k]
  BY <1>1, <1>2, <1>3 DEF Served
<1>5. \A k \in Clients : Same(k)
  BY DEF Served, Same
<1>6. ASSUME NEW n, NEW msgs, AllOfCall(n, s, msgs)
      PROVE  AllOfCall(n, toServer'[c], msgs) /\ (Head(s).cmd = "save" => Head(s).n = n)
  BY <1>1, <1>2, <1>4, <1>6, AllTail
<1>7. client[c] # "none"
  BY <1>1, NotNone
<1>8. Asked(c) => Asked(c)' \/ Own(Head(toServer[c]))
  <2>1. s # <<>>
    BY <1>1, <1>2
  <2>2. ASSUME NEW j \in DOMAIN s, Own(s[j]) PROVE Own(Head(s)) \/ \E k \in DOMAIN Tail(s) : Own(Tail(s)[k])
    BY <2>1, <2>2, AskedTail
  <2>3. QED
    BY <1>2, <1>4, <2>2 DEF Asked
<1>9. QED
  BY <1>2, <1>3, <1>4, <1>5, <1>6, <1>7, <1>8

LEMMA InitClientInv ==
  ASSUME RpcInv, NEW c, Served(c), Head(toServer[c]).cmd = "initClient", InitClient(c)
  PROVE  RpcInv'
<1>1. /\ RpcTypes /\ ~ mixed /\ c \in Clients /\ \A k \in Clients : ClientInv(k)
  BY DEF RpcInv, Served
<1>2. /\ toServer' \in [Clients -> Seq(Calls)] /\ client[c] # "none"
      /\ \A k \in Clients : Same(k) /\ (k # c => toServer'[k] = toServer[k])
      /\ \A n, msgs : AllOfCall(n, toServer[c], msgs) => AllOfCall(n, toServer'[c], msgs)
  BY ServedEffect
<1>3. PICK w \in Seq(Msgs) : w = Welcome /\ w = StateNews(isDeviceOpened)
  BY <1>1, StateNewsType DEF Welcome, RpcTypes
<1>4. /\ isServiceClient' = [isServiceClient EXCEPT ![c] = TRUE]
      /\ UNCHANGED <<isDeviceOpened, conf, isClientValidated, missed, refused>>
      /\ Send(c, <<>>, w)
  BY <1>3 DEF InitClient
<1>5. /\ toClient' \in [Clients -> Seq(Msgs)]
      /\ \A k \in Clients : toClient'[k] = IF k = c THEN toClient[k] \o StateNews(isDeviceOpened) ELSE toClient[k]
  <2>1. <<>> \in Seq(Msgs) /\ toClient \in [Clients -> Seq(Msgs)]
    BY <1>1 DEF RpcTypes
  <2>2. /\ toClient' \in [Clients -> Seq(Msgs)]
        /\ \A k \in Clients : toClient'[k] = (toClient[k] \o (IF isServiceClient[k] THEN <<>> ELSE <<>>))
                                               \o (IF k = c THEN w ELSE <<>>)
    BY <1>4, <2>1, Sent
  <2>3. ASSUME NEW k \in Clients
        PROVE  toClient'[k] = IF k = c THEN toClient[k] \o w ELSE toClient[k]
    <3>1. PICK s \in Seq(Msgs) : s = toClient[k]
      BY <2>1
    <3>2. s \o <<>> = s
      OBVIOUS
    <3>3. QED
      BY <2>2, <3>1, <3>2
  <2>4. QED
    BY <1>3, <2>2, <2>3
<1>6. RpcTypes'
  BY <1>1, <1>2, <1>4, <1>5 DEF RpcTypes, Served
<1>7. ASSUME NEW k \in Clients, k # c PROVE ClientInv(k)'
  BY <1>1, <1>2, <1>4, <1>5, <1>7, ClientKept DEF RpcTypes
<1>8. ClientInv(c)'
  <2>1. isServiceClient'[c] = TRUE /\ toClient[c] \in Seq(Msgs) /\ missed'[c] = missed[c] /\ isDeviceOpened \in BOOLEAN
    BY <1>1, <1>4 DEF RpcTypes
  <2>2. toClient'[c] = toClient[c] \o StateNews(isDeviceOpened)
    BY <1>1, <1>5
  <2>3. Ahead(c) => Ahead(c)'
    BY <1>4, ServedEffect DEF Ahead, Own
  <2>4. QED
    BY <1>1, <1>2, <1>4, <2>1, <2>2, <2>3, StateSent
<1>9. ~ mixed'
  BY <1>1 DEF Served
<1>10. QED
  BY <1>6, <1>7, <1>8, <1>9 DEF RpcInv

(* A message of a client that is answered by nothing.                      *)
LEMMA NoAnswerInv ==
  ASSUME RpcInv, NEW c, Served(c),
         UNCHANGED <<isDeviceOpened, conf, isServiceClient, toClient, missed>>,
         isClientValidated' \in [Clients -> BOOLEAN], refused' \in [Clients -> BOOLEAN],
         \A k \in Clients : k # c => refused'[k] = refused[k],
         Ahead(c) => Ahead(c)'
  PROVE  RpcInv'
<1>1. /\ RpcTypes /\ ~ mixed /\ c \in Clients /\ \A k \in Clients : ClientInv(k)
  BY DEF RpcInv, Served
<1>2. /\ toServer' \in [Clients -> Seq(Calls)] /\ client[c] # "none"
      /\ \A k \in Clients : Same(k) /\ (k # c => toServer'[k] = toServer[k])
      /\ \A n, msgs : AllOfCall(n, toServer[c], msgs) => AllOfCall(n, toServer'[c], msgs)
  BY ServedEffect
<1>3. RpcTypes'
  BY <1>1, <1>2 DEF RpcTypes, Served
<1>4. ASSUME NEW k \in Clients, k # c PROVE ClientInv(k)'
  BY <1>1, <1>2, <1>4, ClientKept
<1>5. ClientInv(c)'
  <2>1. ClientInv(c) /\ Same(c) /\ client[c] # "none"
    BY <1>1, <1>2
  <2>2. Apart(c)'
    BY <2>1 DEF ClientInv, Apart, Same
  <2>3. OwnAnswer(c)'
    BY <1>2, <2>1 DEF ClientInv, OwnAnswer, Same
  <2>4. OpenedComes(c)'
    BY <2>1 DEF ClientInv, OpenedComes, Same
  <2>5. ConfComes(c)'
    BY <2>1 DEF ClientInv, ConfComes, ComesWith, Same
  <2>6. QED
    BY <2>2, <2>3, <2>4, <2>5 DEF ClientInv
<1>6. ~ mixed'
  BY <1>1 DEF Served
<1>7. QED
  BY <1>3, <1>4, <1>5, <1>6 DEF RpcInv

(* The configuration changes, and a client hears of it, if it is known,    *)
(* and perhaps gets an answer.                                             *)
LEMMA ConfSent ==
  ASSUME NEW k, ClientInv(k), Same(k), toClient[k] \in Seq(Msgs), clientConf[k] \in Confs,
         conf \in Confs, conf' \in Confs, isDeviceOpened' = isDeviceOpened,
         NEW part \in {"flags", "options"}, NEW value \in Values, ConfChange(conf, part, value, conf'),
         isServiceClient[k] \in BOOLEAN, isServiceClient'[k] = isServiceClient[k],
         missed'[k] = (missed[k] \/ (client[k] \in {"idle", "waiting"} /\ ~ isServiceClient[k])),
         NEW b \in Seq(Msgs), \A type \in {"state", "flags", "reload"} : ~ Has(b, type),
         toClient'[k] = (toClient[k] \o (IF isServiceClient[k] THEN ConfNews(part, value) ELSE <<>>)) \o b,
         client[k] = "none" => b = <<>> /\ toServer'[k] = toServer[k],
         \A n, msgs : AllOfCall(n, toServer[k], msgs) =>
            AllOfCall(n, toServer'[k], msgs) /\ AllOfCall(n, toServer'[k], b)
  PROVE  ClientInv(k)'
<1>1. PICK s \in Seq(Msgs), a \in Seq(Msgs), u \in Seq(Msgs) :
        /\ s = toClient[k] /\ u = s \o a
        /\ a = IF isServiceClient[k] THEN ConfNews(part, value) ELSE <<>>
  <2>1. ConfNews(part, value) \in Seq(Msgs) /\ <<>> \in Seq(Msgs)
    BY ConfNewsType
  <2>2. PICK s \in Seq(Msgs), a \in Seq(Msgs) :
          s = toClient[k] /\ a = IF isServiceClient[k] THEN ConfNews(part, value) ELSE <<>>
    BY <2>1
  <2>3. s \o a \in Seq(Msgs)
    BY ConcatProperties
  <2>4. QED
    BY <2>2, <2>3
<1>2. toClient'[k] = u \o b
  BY <1>1
<1>3. /\ ~ Has(a, "state") /\ ~ Has(a, "result")
      /\ ~ isServiceClient[k] => u = s /\ a = <<>>
  <2>1. s \o <<>> = s
    OBVIOUS
  <2>2. ~ Has(<<>>, "state") /\ ~ Has(<<>>, "result")
    BY HasFew
  <2>3. QED
    BY <1>1, <2>1, <2>2, ConfNewsType
<1>4. Apart(k)'
  <2>1. ASSUME client[k] = "none" PROVE toServer'[k] = <<>> /\ toClient'[k] = <<>> /\ ~ isServiceClient[k]
    <3>1. toServer[k] = <<>> /\ s = <<>> /\ ~ isServiceClient[k] /\ b = <<>>
      BY <1>1, <2>1 DEF ClientInv, Apart
    <3>2. s \o b = <<>>
      BY <3>1
    <3>3. QED
      BY <1>2, <1>3, <2>1, <3>1, <3>2
  <2>2. ASSUME ~ isServiceClient[k], NEW type \in {"state", "flags", "reload"} PROVE ~ Has(u \o b, type)
    BY <1>1, <1>3, <2>2, HasConcat DEF ClientInv, Apart
  <2>3. QED
    BY <1>2, <2>1, <2>2 DEF Apart, Same
<1>5. OwnAnswer(k)'
  <2>1. SUFFICES ASSUME client[k] = "waiting", ~ call[k].stray
                 PROVE  /\ m_resultCommand[k] \in {CommandNone, call[k].n}
                        /\ AllOfCall(call[k].n, toServer'[k], u \o b)
    BY <1>2 DEF OwnAnswer, Same
  <2>2. m_resultCommand[k] \in {CommandNone, call[k].n} /\ AllOfCall(call[k].n, toServer[k], s)
    BY <1>1, <2>1 DEF ClientInv, OwnAnswer
  <2>3. AllOfCall(call[k].n, toServer'[k], s) /\ AllOfCall(call[k].n, toServer'[k], b)
    BY <2>2
  <2>4. AllOfCall(call[k].n, toServer'[k], u)
    BY <1>1, <1>3, <2>3, AllOther
  <2>5. QED
    BY <2>2, <2>3, <2>4, AllConcat
<1>6. OpenedComes(k)'
  <2>1. OpenedAfter(clientOpened[k], u \o b) = OpenedAfter(clientOpened[k], s)
    <3>1. PICK own : own = clientOpened[k]
      OBVIOUS
    <3>2. OpenedAfter(own, u) = OpenedAfter(own, s)
      <4>1. OpenedAfter(own, s \o a) = OpenedAfter(own, s)
        BY <1>3, OpenedOther
      <4>2. QED
        BY <1>1, <4>1
    <3>3. OpenedAfter(own, u \o b) = OpenedAfter(own, u)
      BY OpenedOther
    <3>4. QED
      BY <3>1, <3>2, <3>3
  <2>2. QED
    BY <1>1, <1>2, <2>1 DEF ClientInv, OpenedComes, Same
<1>7. ConfComes(k)'
  <2>1. NewestFlags(conf, s)
    BY <1>1 DEF ClientInv, ConfComes
  <2>2. NewestFlags(conf', u)
    <3>1. CASE isServiceClient[k]
      BY <1>1, <3>1, ConfTold
    <3>2. CASE ~ isServiceClient[k]
      <4>1. LastOf(s, {"flags", "reload"}, [type |-> "reload"]) = [type |-> "reload"]
        <5>1. \A type \in {"flags", "reload"} : ~ Has(s, type)
          BY <1>1, <3>2 DEF ClientInv, Apart
        <5>2. PICK types : types = {"flags", "reload"}
          OBVIOUS
        <5>3. QED
          BY <5>1, <5>2, NoneOf
      <4>2. QED
        BY <1>3, <3>2, <4>1 DEF NewestFlags
    <3>3. QED
      BY <3>1, <3>2
  <2>3. ASSUME client[k] \in {"idle", "waiting"}, ~ missed'[k]
        PROVE  ComesWith(k, clientConf[k].flags)'
    <3>1. isServiceClient[k]
      BY <2>3
    <3>2. PICK f \in Values : ComesWith(k, f)
      BY <2>3 DEF ClientInv, ConfComes
    <3>3. PICK new \in Confs, cf \in Confs, own \in Confs, g \in Values :
             new = conf' /\ cf = conf /\ own = clientConf[k] /\ g = own.flags
      BY FlagsType
    <3>4. WithFlags(own, f) \in Confs /\ own = WithFlags(own, g)
      BY <3>3, FlagsType
    <3>5. ConfChange(cf, part, value, new) /\ After(cf, WithFlags(own, f), s) = cf
      BY <1>1, <3>2, <3>3 DEF ComesWith
    <3>6. After(new, WithFlags(own, f), s \o ConfNews(part, value)) = new
      BY <3>4, <3>5, ConfTold
    <3>7. Has(u, "flags") \/ Has(u, "reload")
      <4>1. Has(a, "flags") \/ Has(a, "reload")
        BY <1>1, <3>1, ConfNewsHas
      <4>2. \A type : Has(s \o a, type) <=> Has(s, type) \/ Has(a, type)
        BY HasConcat
      <4>3. QED
        BY <1>1, <4>1, <4>2
    <3>8. After(new, WithFlags(own, g), u) = new
      <4>1. After(new, WithFlags(own, f), u) = new
        BY <1>1, <3>1, <3>6
      <4>2. After(new, WithFlags(own, f), u) = After(new, WithFlags(own, g), u)
        BY <3>7, FlagsReplaced
      <4>3. QED
        BY <4>1, <4>2
    <3>9. After(new, WithFlags(own, g), u \o b) = new
      BY <3>8, ConfOther
    <3>10. QED
      BY <1>2, <3>3, <3>9 DEF ComesWith, Same
  <2>4. NewestFlags(conf', u \o b)
    BY <2>2, ConfOther
  <2>5. clientConf[k].flags \in Values
    BY DEF Confs
  <2>6. QED
    BY <1>2, <2>3, <2>4, <2>5 DEF ConfComes, Same
<1>8. QED
  BY <1>4, <1>5, <1>6, <1>7 DEF ClientInv

LEMMA SaveConfInv ==
  ASSUME RpcInv, NEW c, Served(c), NEW r, r = Head(toServer[c]), r.cmd = "save", SaveConf(c, r)
  PROVE  RpcInv'
<1>1. /\ RpcTypes /\ ~ mixed /\ c \in Clients /\ \A k \in Clients : ClientInv(k)
  BY DEF RpcInv, Served
<1>2. /\ toServer' \in [Clients -> Seq(Calls)] /\ client[c] # "none"
      /\ \A k \in Clients : Same(k) /\ (k # c => toServer'[k] = toServer[k])
      /\ \A n, msgs : AllOfCall(n, toServer[c], msgs) => AllOfCall(n, toServer'[c], msgs) /\ n = r.n
      /\ r \in Calls
  BY ServedEffect
<1>3. r.part \in {"flags", "options"} /\ r.value \in Values /\ r.n \in Nat
  BY <1>2 DEF Calls
<1>4. PICK m \in Msgs, answer \in Seq(Msgs) :
        m = [type |-> "result", n |-> r.n] /\ answer = <<m>> /\ DOMAIN answer = {1} /\ answer[1] = m
  <2>1. PICK m \in Msgs : m = [type |-> "result", n |-> r.n]
    BY <1>3 DEF Msgs
  <2>2. <<m>> \in Seq(Msgs) /\ DOMAIN <<m>> = {1} /\ <<m>>[1] = m
    BY OneMsg
  <2>3. QED
    BY <2>1, <2>2
<1>5. \A type \in {"state", "flags", "reload"} : ~ Has(answer, type) /\ ~ Has(<<>>, type)
  BY <1>4, HasFew
<1>6. /\ UNCHANGED <<isDeviceOpened, isServiceClient, isClientValidated, refused>>
      /\ refused \in [Clients -> BOOLEAN] /\ toClient \in [Clients -> Seq(Msgs)] /\ <<>> \in Seq(Msgs)
  BY <1>1 DEF SaveConf, RpcTypes
<1>7. ~ mixed'
  BY <1>1 DEF Served
<1>8. CASE /\ r.part = "options" /\ Send(c, <<>>, answer) /\ UNCHANGED <<conf, missed>>
  <2>1. /\ toClient' \in [Clients -> Seq(Msgs)]
        /\ \A k \in Clients : toClient'[k] = IF k = c THEN toClient[k] \o answer ELSE toClient[k]
    <3>1. /\ toClient' \in [Clients -> Seq(Msgs)]
          /\ \A k \in Clients : toClient'[k] = (toClient[k] \o (IF isServiceClient[k] THEN <<>> ELSE <<>>))
                                                 \o (IF k = c THEN answer ELSE <<>>)
      BY <1>6, <1>8, Sent
    <3>2. ASSUME NEW k \in Clients
          PROVE  toClient'[k] = IF k = c THEN toClient[k] \o answer ELSE toClient[k]
      <4>1. PICK s \in Seq(Msgs) : s = toClient[k]
        BY <1>6
      <4>2. s \o <<>> = s
        OBVIOUS
      <4>3. QED
        BY <3>1, <4>1, <4>2
    <3>3. QED
      BY <3>1, <3>2
  <2>2. RpcTypes'
    BY <1>1, <1>2, <1>6, <1>8, <2>1 DEF RpcTypes, Served
  <2>3. ASSUME NEW k \in Clients, k # c PROVE ClientInv(k)'
    BY <1>1, <1>2, <1>6, <1>8, <2>1, <2>3, ClientKept
  <2>4. ClientInv(c)'
    <3>1. toClient'[c] = toClient[c] \o <<[type |-> "result", n |-> r.n]>> /\ toClient[c] \in Seq(Msgs)
      BY <1>1, <1>4, <1>6, <2>1
    <3>2. isServiceClient'[c] = isServiceClient[c] /\ missed'[c] = missed[c]
      BY <1>6, <1>8
    <3>3. Ahead(c) => Ahead(c)'
      <4>1. ~ Own(r)
        <5>1. PICK x \in Calls : x = r
          BY <1>2
        <5>2. x.cmd = "save" /\ x.part = "options"
          BY <1>8, <5>1
        <5>3. x.own = FALSE
          BY <5>2 DEF Calls
        <5>4. QED
          BY <5>1, <5>3 DEF Own
      <4>2. QED
        BY <1>6, <4>1, ServedEffect DEF Ahead
    <3>4. QED
      BY <1>1, <1>2, <1>3, <1>6, <1>8, <3>1, <3>2, <3>3, AnswerSent
  <2>5. QED
    BY <1>7, <2>2, <2>3, <2>4 DEF RpcInv
<1>9. CASE /\ conf' = [conf EXCEPT ![r.part] = r.value]
           /\ Send(c, ConfNews(r.part, r.value), answer)
           /\ missed' = [k \in Clients |->
                missed[k] \/ (client[k] \in {"idle", "waiting"} /\ ~ isServiceClient[k])]
  <2>0. ConfChange(conf, r.part, r.value, conf')
    BY <1>9 DEF ConfChange
  <2>1. conf \in Confs /\ conf' \in Confs
    BY <1>1, <1>3, <1>9 DEF RpcTypes, Confs
  <2>2. ConfNews(r.part, r.value) \in Seq(Msgs)
    BY <1>3, ConfNewsType
  <2>3. /\ toClient' \in [Clients -> Seq(Msgs)]
        /\ \A k \in Clients : toClient'[k] =
             (toClient[k] \o (IF isServiceClient[k] THEN ConfNews(r.part, r.value) ELSE <<>>))
               \o (IF k = c THEN answer ELSE <<>>)
    BY <1>6, <1>9, <2>2, Sent
  <2>4. RpcTypes'
    BY <1>1, <1>2, <1>6, <1>9, <2>1, <2>3 DEF RpcTypes, Served
  <2>5. ASSUME NEW k \in Clients PROVE ClientInv(k)'
    <3>1. PICK b \in Seq(Msgs) : b = IF k = c THEN answer ELSE <<>>
      BY <1>6
    <3>2. /\ toClient'[k] = (toClient[k] \o (IF isServiceClient[k] THEN ConfNews(r.part, r.value) ELSE <<>>)) \o b
          /\ \A type \in {"state", "flags", "reload"} : ~ Has(b, type)
      BY <1>5, <2>3, <3>1
    <3>3. client[k] = "none" => b = <<>> /\ toServer'[k] = toServer[k]
      BY <1>2, <3>1
    <3>4. ASSUME NEW n, NEW msgs, AllOfCall(n, toServer[k], msgs)
          PROVE  AllOfCall(n, toServer'[k], msgs) /\ AllOfCall(n, toServer'[k], b)
      <4>1. CASE k = c
        <5>1. AllOfCall(n, toServer'[k], msgs) /\ n = r.n
          BY <1>2, <3>4, <4>1
        <5>2. QED
          BY <1>4, <3>1, <4>1, <5>1 DEF AllOfCall
      <4>2. CASE k # c
        <5>1. toServer'[k] = toServer[k] /\ b = <<>> /\ DOMAIN <<>> = {}
          BY <1>2, <3>1, <4>2
        <5>2. QED
          BY <3>4, <5>1 DEF AllOfCall
      <4>3. QED
        BY <4>1, <4>2
    <3>5. /\ ClientInv(k) /\ Same(k) /\ toClient[k] \in Seq(Msgs) /\ clientConf[k] \in Confs
          /\ isServiceClient[k] \in BOOLEAN /\ isServiceClient'[k] = isServiceClient[k]
          /\ missed'[k] = (missed[k] \/ (client[k] \in {"idle", "waiting"} /\ ~ isServiceClient[k]))
      BY <1>1, <1>2, <1>6, <1>9 DEF RpcTypes
    <3>6. QED
      BY <1>3, <1>6, <2>0, <2>1, <3>2, <3>3, <3>4, <3>5, ConfSent
  <2>6. QED
    BY <1>7, <2>4, <2>5 DEF RpcInv
<1>10. QED
  BY <1>4, <1>8, <1>9 DEF SaveConf

LEMMA ServeInv ==
  ASSUME RpcInv, NEW c \in Clients, Serve(c)
  PROVE  RpcInv'
<1>1. PICK r : r = Head(toServer[c])
  OBVIOUS
<1>2. /\ Served(c)
      /\ \/ r.cmd = "initClient" /\ InitClient(c)
         \/ r.cmd = "checkPassword" /\ CheckPassword(c)
         \/ r.cmd = "save" /\ (Refuse(c, r) \/ SaveConf(c, r))
  BY <1>1 DEF Serve, Served, clientVars
<1>3. isClientValidated \in [Clients -> BOOLEAN] /\ refused \in [Clients -> BOOLEAN]
      /\ (Asked(c) => Asked(c)' \/ Own(r))
  BY <1>1, <1>2, ServedEffect DEF RpcInv, RpcTypes
<1>4. CASE r.cmd = "initClient" /\ InitClient(c)
  BY <1>1, <1>2, <1>4, InitClientInv
<1>5. CASE r.cmd = "checkPassword" /\ CheckPassword(c)
  <2>1. PICK ok \in BOOLEAN : isClientValidated' = [isClientValidated EXCEPT ![c] = @ \/ ok]
    BY <1>5 DEF CheckPassword
  <2>2. isClientValidated' \in [Clients -> BOOLEAN]
    BY <1>3, <2>1
  <2>3. UNCHANGED <<isDeviceOpened, conf, isServiceClient, toClient, missed, refused>>
    BY <1>5 DEF CheckPassword
  <2>4. Ahead(c) => Ahead(c)'
    BY <1>3, <1>5, <2>3 DEF Ahead, Own
  <2>5. QED
    BY <1>2, <1>3, <2>2, <2>3, <2>4, NoAnswerInv
<1>6. CASE Refuse(c, r)
  <2>1. /\ UNCHANGED <<isDeviceOpened, conf, isServiceClient, isClientValidated, toClient, missed>>
        /\ refused' = [refused EXCEPT ![c] = @ \/ Own(r)]
    BY <1>6 DEF Refuse, serverVars
  <2>2. PICK own \in BOOLEAN : own <=> refused[c] \/ Own(r)
    <3>1. (refused[c] \/ Own(r)) \in BOOLEAN
      OBVIOUS
    <3>2. QED
      BY <3>1
  <2>3. refused' = [refused EXCEPT ![c] = own]
    <3>1. (refused[c] \/ Own(r)) = own
      BY <2>2, Zenon
    <3>2. QED
      BY <2>1, <3>1
  <2>4. refused' \in [Clients -> BOOLEAN] /\ refused'[c] = own
        /\ \A k \in Clients : k # c => refused'[k] = refused[k]
    BY <1>3, <2>3
  <2>5. Ahead(c) => Ahead(c)'
    BY <1>3, <2>2, <2>4 DEF Ahead
  <2>6. QED
    BY <1>2, <1>3, <2>1, <2>4, <2>5, NoAnswerInv
<1>7. CASE r.cmd = "save" /\ SaveConf(c, r)
  BY <1>1, <1>2, <1>7, SaveConfInv
<1>8. QED
  BY <1>2, <1>4, <1>5, <1>6, <1>7

LEMMA DriverChangeInv ==
  ASSUME RpcInv, DriverChange
  PROVE  RpcInv'
<1>1. /\ RpcTypes /\ ~ mixed /\ \A k \in Clients : ClientInv(k)
  BY DEF RpcInv
<1>2. PICK opened \in BOOLEAN : opened = ~ isDeviceOpened
  OBVIOUS
<1>3. /\ isDeviceOpened' = opened
      /\ UNCHANGED <<conf, isServiceClient, isClientValidated, toServer, missed, refused, client, clientOpened,
                     clientConf, m_resultCommand, call, mixed>>
      /\ toClient' = [c \in Clients |-> toClient[c] \o (IF isServiceClient[c] THEN StateNews(opened) ELSE <<>>)]
  BY <1>2 DEF DriverChange, clientVars
<1>4. StateNews(opened) \in Seq(Msgs) /\ <<>> \in Seq(Msgs)
  BY StateNewsType
<1>5. ASSUME NEW k \in Clients
      PROVE  /\ toClient'[k] \in Seq(Msgs)
             /\ toClient'[k] = IF isServiceClient[k] THEN toClient[k] \o StateNews(opened) ELSE toClient[k]
  <2>1. PICK s \in Seq(Msgs) : s = toClient[k]
    BY <1>1 DEF RpcTypes
  <2>2. s \o <<>> = s /\ s \o StateNews(opened) \in Seq(Msgs)
    BY <1>4, ConcatProperties
  <2>3. QED
    BY <1>3, <2>1, <2>2
<1>6. toClient' \in [Clients -> Seq(Msgs)]
  BY <1>3, <1>5
<1>7. RpcTypes'
  BY <1>1, <1>3, <1>6 DEF RpcTypes
<1>8. ASSUME NEW k \in Clients PROVE ClientInv(k)'
  <2>1. Same(k) /\ ClientInv(k) /\ toClient[k] \in Seq(Msgs) /\ isServiceClient[k] \in BOOLEAN
    BY <1>1, <1>3 DEF Same, RpcTypes
  <2>2. CASE isServiceClient[k] = TRUE
    <3>1. client[k] # "none"
      BY <2>1, <2>2, NotNone
    <3>2. /\ isServiceClient'[k] = TRUE /\ missed'[k] = missed[k] /\ toServer'[k] = toServer[k]
          /\ toClient'[k] = toClient[k] \o StateNews(opened)
      BY <1>3, <1>5, <2>2
    <3>3. Ahead(k) => Ahead(k)'
      BY <1>3 DEF Ahead, Asked
    <3>4. QED
      BY <1>3, <2>1, <3>1, <3>2, <3>3, StateSent
  <2>3. CASE isServiceClient[k] = FALSE
    <3>1. toClient'[k] = toClient[k] /\ toServer'[k] = toServer[k] /\ missed'[k] = missed[k]
          /\ isServiceClient'[k] = FALSE
      BY <1>3, <1>5, <2>3
    <3>2. Apart(k)' /\ OwnAnswer(k)' /\ OpenedComes(k)' /\ ConfComes(k)'
      BY <1>3, <2>1, <2>3, <3>1 DEF ClientInv, Apart, OwnAnswer, OpenedComes, ConfComes, ComesWith, Ahead, Asked, Same
    <3>3. QED
      BY <3>2 DEF ClientInv
  <2>4. QED
    BY <2>1, <2>2, <2>3
<1>9. QED
  BY <1>1, <1>3, <1>7, <1>8 DEF RpcInv

-----------------------------------------------------------------------------
(* The invariant, for each action of a client. *)

(* Of the others nothing changes, and not of the service.                  *)
LEMMA OthersKept ==
  ASSUME RpcInv, NEW c, UNCHANGED <<isDeviceOpened, conf>>, NEW k \in Clients, k # c,
         client'[k] = client[k], clientOpened'[k] = clientOpened[k], clientConf'[k] = clientConf[k],
         m_resultCommand'[k] = m_resultCommand[k], call'[k] = call[k],
         isServiceClient'[k] = isServiceClient[k], missed'[k] = missed[k], refused'[k] = refused[k],
         toServer'[k] = toServer[k], toClient'[k] = toClient[k]
  PROVE  ClientInv(k)'
BY ClientKept DEF RpcInv, Same

LEMMA ConnectInv ==
  ASSUME RpcInv, NEW c \in Clients, Connect(c)
  PROVE  RpcInv'
<1>1. /\ RpcTypes /\ ~ mixed /\ ClientInv(c)
      /\ client[c] = "none" /\ client' = [client EXCEPT ![c] = "starting"]
      /\ clientOpened' = [clientOpened EXCEPT ![c] = FALSE]
      /\ toServer' = [toServer EXCEPT ![c] = <<[cmd |-> "initClient"]>>]
      /\ m_resultCommand' = [m_resultCommand EXCEPT ![c] = CommandNone]
      /\ UNCHANGED <<isDeviceOpened, conf, isServiceClient, isClientValidated,
                     clientConf, call, mixed, toClient, missed, refused>>
  BY DEF RpcInv, Connect, serverVars
<1>2. <<[cmd |-> "initClient"]>> \in Seq(Calls) /\ CommandNone \in Nat
  <2>1. PICK r \in Calls : r = [cmd |-> "initClient"]
    BY DEF Calls
  <2>2. <<r>> \in Seq(Calls)
    OBVIOUS
  <2>3. QED
    BY <2>1, <2>2 DEF CommandNone
<1>3. RpcTypes'
  BY <1>1, <1>2 DEF RpcTypes
<1>4. ASSUME NEW k \in Clients, k # c PROVE ClientInv(k)'
  BY <1>1, <1>4, OthersKept DEF RpcTypes
<1>5. ClientInv(c)'
  <2>1. client'[c] = "starting" /\ isServiceClient[c] = FALSE
    BY <1>1 DEF RpcTypes, ClientInv, Apart
  <2>2. Apart(c)' /\ OwnAnswer(c)' /\ OpenedComes(c)' /\ ConfComes(c)'
    BY <1>1, <2>1 DEF ClientInv, Apart, OwnAnswer, OpenedComes, ConfComes
  <2>3. QED
    BY <2>2 DEF ClientInv
<1>6. QED
  BY <1>1, <1>3, <1>4, <1>5 DEF RpcInv

LEMMA LoadConfInv ==
  ASSUME RpcInv, NEW c \in Clients, LoadConf(c)
  PROVE  RpcInv'
<1>1. /\ RpcTypes /\ ~ mixed /\ ClientInv(c)
      /\ client[c] = "starting" /\ client' = [client EXCEPT ![c] = "idle"]
      /\ clientConf' = [clientConf EXCEPT ![c] = conf]
      /\ UNCHANGED <<isDeviceOpened, conf, isServiceClient, isClientValidated,
                     clientOpened, m_resultCommand, call, mixed, toServer, toClient, missed, refused>>
  BY DEF RpcInv, LoadConf, serverVars
<1>2. RpcTypes'
  BY <1>1 DEF RpcTypes
<1>3. ASSUME NEW k \in Clients, k # c PROVE ClientInv(k)'
  BY <1>1, <1>3, OthersKept DEF RpcTypes
<1>4. ClientInv(c)'
  <2>1. client'[c] = "idle" /\ clientConf'[c] = conf /\ toClient[c] \in Seq(Msgs) /\ conf \in Confs
    BY <1>1 DEF RpcTypes
  <2>2. NewestFlags(conf, toClient[c])
    BY <1>1 DEF ClientInv, ConfComes
  <2>3. After(conf, conf, toClient[c]) = conf /\ conf = WithFlags(conf, conf.flags) /\ conf.flags \in Values
    BY <2>1, <2>2, AfterReload, FlagsType DEF Confs
  <2>4. ConfComes(c)'
    <3>1. ComesWith(c, conf.flags)'
      BY <1>1, <2>1, <2>3 DEF ComesWith
    <3>2. QED
      BY <1>1, <2>1, <2>2, <2>3, <3>1 DEF ConfComes
  <2>5. Apart(c)' /\ OwnAnswer(c)' /\ OpenedComes(c)'
    BY <1>1, <2>1 DEF ClientInv, Apart, OwnAnswer, OpenedComes
  <2>6. QED
    BY <2>4, <2>5 DEF ClientInv
<1>5. QED
  BY <1>1, <1>2, <1>3, <1>4 DEF RpcInv

LEMMA DoOnServerInv ==
  ASSUME RpcInv, NEW c \in Clients, DoOnServer(c)
  PROVE  RpcInv'
<1>1. PICK r \in Requests(call[c].n + 1) :
        /\ toServer' = [toServer EXCEPT ![c] = Append(@, r)]
        /\ clientConf' = IF Own(r) THEN [clientConf EXCEPT ![c].flags = r.value] ELSE clientConf
  BY DEF DoOnServer
<1>2. /\ RpcTypes /\ ~ mixed /\ ClientInv(c)
      /\ client[c] = "idle" /\ client' = [client EXCEPT ![c] = "waiting"]
      /\ call' = [call EXCEPT ![c] = [n |-> @.n + 1, stray |-> Owed(c)]]
      /\ m_resultCommand' = [m_resultCommand EXCEPT ![c] = CommandNone]
      /\ UNCHANGED <<isDeviceOpened, conf, isServiceClient, isClientValidated,
                     clientOpened, mixed, toClient, missed, refused>>
  BY DEF RpcInv, DoOnServer, Forget, serverVars
<1>3. PICK n \in Nat : n = call[c].n + 1
  BY <1>2 DEF RpcTypes
<1>4. PICK x \in Calls : x = r /\ (x.cmd = "save" => x.n = n) /\ (Own(x) => x.value \in Values)
  <2>1. PICK y \in Requests(n) : y = r
    BY <1>1, <1>3
  <2>2. CASE y \in [cmd : {"checkPassword"}]
    <3>1. y \in Calls /\ y.cmd = "checkPassword"
      BY <2>2 DEF Calls
    <3>2. QED
      BY <2>1, <3>1 DEF Own
  <2>3. CASE y \in [cmd : {"save"}, part : {"flags"}, own : BOOLEAN, value : Values, n : {n}]
    <3>1. y \in Calls /\ y.n = n /\ y.value \in Values
      BY <2>3 DEF Calls
    <3>2. QED
      BY <2>1, <3>1
  <2>4. CASE y \in [cmd : {"save"}, part : {"options"}, own : {FALSE}, value : Values, n : {n}]
    <3>1. y \in Calls /\ y.n = n /\ y.value \in Values
      BY <2>4 DEF Calls
    <3>2. QED
      BY <2>1, <3>1
  <2>5. QED
    BY <2>2, <2>3, <2>4 DEF Requests
<1>5. PICK s \in Seq(Calls), t \in Seq(Calls) : s = toServer[c] /\ t = Append(s, x)
  <2>1. toServer[c] \in Seq(Calls)
    BY <1>2 DEF RpcTypes
  <2>2. Append(toServer[c], x) \in Seq(Calls)
    BY <2>1, AppendProperties
  <2>3. QED
    BY <2>1, <2>2
<1>6. /\ toServer' = [toServer EXCEPT ![c] = t]
      /\ clientConf' \in [Clients -> Confs]
      /\ \A k \in Clients : k # c => clientConf'[k] = clientConf[k]
      /\ clientConf'[c] = IF Own(x) THEN WithFlags(clientConf[c], x.value) ELSE clientConf[c]
  <2>1. clientConf \in [Clients -> Confs]
    BY <1>2 DEF RpcTypes
  <2>2. CASE ~ Own(x)
    BY <1>1, <1>4, <1>5, <2>1, <2>2
  <2>3. CASE Own(x)
    <3>1. clientConf' = [clientConf EXCEPT ![c].flags = x.value]
      BY <1>1, <1>4, <2>3
    <3>2. [clientConf[c] EXCEPT !.flags = x.value] = WithFlags(clientConf[c], x.value)
      BY <2>1 DEF WithFlags, Confs
    <3>3. WithFlags(clientConf[c], x.value) \in Confs
      BY <1>4, <2>1, <2>3, FlagsType
    <3>4. clientConf' = [clientConf EXCEPT ![c] = WithFlags(clientConf[c], x.value)]
      BY <2>1, <3>1, <3>2
    <3>5. QED
      BY <1>1, <1>4, <1>5, <2>1, <2>3, <3>3, <3>4
  <2>4. QED
    BY <2>2, <2>3
<1>7. /\ toServer'[c] = t /\ client'[c] = "waiting" /\ m_resultCommand'[c] = CommandNone
      /\ call'[c] = [n |-> n, stray |-> Owed(c)]
  BY <1>2, <1>3, <1>6 DEF RpcTypes
<1>8. Owed(c) \in BOOLEAN
  BY DEF Owed, Has
<1>9. RpcTypes'
  <2>1. call' \in [Clients -> [n : Nat, stray : BOOLEAN]]
    BY <1>2, <1>3, <1>8 DEF RpcTypes
  <2>2. CommandNone \in Nat
    BY DEF CommandNone
  <2>3. QED
    BY <1>2, <1>5, <1>6, <2>1, <2>2 DEF RpcTypes
<1>10. ASSUME NEW k \in Clients, k # c PROVE ClientInv(k)'
  BY <1>2, <1>6, <1>10, OthersKept DEF RpcTypes
<1>11. ClientInv(c)'
  <2>1. ASSUME ~ Owed(c) PROVE AllOfCall(n, t, toClient[c])
    <3>1. /\ DOMAIN s = 1 .. Len(s) /\ DOMAIN t = 1 .. Len(s) + 1 /\ Len(s) \in Nat
          /\ t[Len(s) + 1] = x /\ \A i \in 1 .. Len(s) : t[i] = s[i]
      BY <1>5, AppendProperties, LenProperties
    <3>2. \A i \in DOMAIN s : s[i].cmd # "save"
      BY <1>5, <2>1 DEF Owed
    <3>3. \A i \in DOMAIN t : t[i].cmd = "save" => t[i].n = n
      <4>1. PICK l \in Nat : l = Len(s)
        BY <3>1
      <4>2. QED
        BY <1>4, <3>1, <3>2, <4>1
    <3>4. QED
      BY <2>1, <3>3 DEF AllOfCall, Owed, Has
  <2>2. OwnAnswer(c)'
    BY <1>2, <1>7, <2>1 DEF OwnAnswer
  <2>3. Apart(c)' /\ OpenedComes(c)'
    BY <1>2, <1>7 DEF ClientInv, Apart, OpenedComes
  <2>4. ConfComes(c)'
    <3>1. NewestFlags(conf, toClient[c]) /\ (missed[c] \/ \E f \in Values : ComesWith(c, f))
      BY <1>2 DEF ClientInv, ConfComes
    <3>2. /\ DOMAIN s = 1 .. Len(s) /\ DOMAIN t = 1 .. Len(s) + 1 /\ Len(s) \in Nat
          /\ t[Len(s) + 1] = x /\ \A i \in 1 .. Len(s) : t[i] = s[i]
      BY <1>5, AppendProperties, LenProperties
    <3>3. (Asked(c) => Asked(c)') /\ (Own(x) => Asked(c)')
      <4>1. PICK l \in Nat : l = Len(s)
        BY <3>2
      <4>2. l + 1 \in 1 .. l + 1 /\ 1 .. l \subseteq 1 .. l + 1
        OBVIOUS
      <4>3. QED
        BY <1>5, <1>7, <3>2, <4>1, <4>2 DEF Asked
    <3>4. ASSUME NEW f \in Values, ComesWith(c, f) PROVE ComesWith(c, f)'
      <4>1. PICK cf \in Confs : cf = clientConf[c]
        BY <1>2 DEF RpcTypes
      <4>2. WithFlags(clientConf'[c], f) = WithFlags(cf, f)
        BY <1>6, <4>1 DEF WithFlags
      <4>3. f = clientConf'[c].flags \/ Ahead(c)'
        BY <1>2, <1>6, <3>3, <3>4 DEF ComesWith, Ahead
      <4>4. QED
        BY <1>2, <3>4, <4>1, <4>2, <4>3 DEF ComesWith
    <3>5. QED
      BY <1>2, <1>7, <3>1, <3>4 DEF ConfComes
  <2>5. QED
    BY <2>2, <2>3, <2>4 DEF ClientInv
<1>12. QED
  BY <1>2, <1>9, <1>10, <1>11 DEF RpcInv

LEMMA TimeoutInv ==
  ASSUME RpcInv, NEW c \in Clients, Timeout(c)
  PROVE  RpcInv'
<1>1. /\ RpcTypes /\ ~ mixed /\ ClientInv(c)
      /\ client[c] = "waiting" /\ client' = [client EXCEPT ![c] = "idle"]
      /\ UNCHANGED <<isDeviceOpened, conf, isServiceClient, isClientValidated, clientConf,
                     clientOpened, m_resultCommand, call, mixed, toServer, toClient, missed, refused>>
  BY DEF RpcInv, Timeout, serverVars
<1>2. RpcTypes'
  BY <1>1 DEF RpcTypes
<1>3. ASSUME NEW k \in Clients, k # c PROVE ClientInv(k)'
  BY <1>1, <1>3, OthersKept DEF RpcTypes
<1>4. ClientInv(c)'
  <2>1. client'[c] = "idle"
    BY <1>1 DEF RpcTypes
  <2>2. Apart(c)' /\ OwnAnswer(c)' /\ OpenedComes(c)' /\ ConfComes(c)'
    BY <1>1, <2>1 DEF ClientInv, Apart, OwnAnswer, OpenedComes, ConfComes, ComesWith, Ahead, Asked
  <2>3. QED
    BY <2>2 DEF ClientInv
<1>5. QED
  BY <1>1, <1>2, <1>3, <1>4 DEF RpcInv

LEMMA DisconnectInv ==
  ASSUME RpcInv, NEW c \in Clients, Disconnect(c)
  PROVE  RpcInv'
<1>1. /\ RpcTypes /\ ~ mixed /\ ClientInv(c)
      /\ client' = [client EXCEPT ![c] = "none"]
      /\ toServer' = [toServer EXCEPT ![c] = <<>>] /\ toClient' = [toClient EXCEPT ![c] = <<>>]
      /\ isServiceClient' = [isServiceClient EXCEPT ![c] = FALSE]
      /\ isClientValidated' = [isClientValidated EXCEPT ![c] = FALSE]
      /\ missed' = [missed EXCEPT ![c] = FALSE] /\ refused' = [refused EXCEPT ![c] = FALSE]
      /\ UNCHANGED <<isDeviceOpened, conf, clientConf, clientOpened, m_resultCommand, call, mixed>>
      /\ <<>> \in Seq(Calls) /\ <<>> \in Seq(Msgs)
  BY DEF RpcInv, Disconnect
<1>2. RpcTypes'
  BY <1>1 DEF RpcTypes
<1>3. ASSUME NEW k \in Clients, k # c PROVE ClientInv(k)'
  BY <1>1, <1>3, OthersKept DEF RpcTypes
<1>4. ClientInv(c)'
  <2>1. client'[c] = "none" /\ toServer'[c] = <<>> /\ toClient'[c] = <<>> /\ isServiceClient'[c] = FALSE
    BY <1>1 DEF RpcTypes
  <2>2. NewestFlags(conf, <<>>)
    BY LastOfNone DEF NewestFlags
  <2>3. \A type : ~ Has(<<>>, type)
    BY HasFew
  <2>4. Apart(c)' /\ OwnAnswer(c)' /\ OpenedComes(c)' /\ ConfComes(c)'
    BY <1>1, <2>1, <2>2, <2>3 DEF Apart, OwnAnswer, OpenedComes, ConfComes
  <2>5. QED
    BY <2>4 DEF ClientInv
<1>5. QED
  BY <1>1, <1>2, <1>3, <1>4 DEF RpcInv

(* What a client has once it has read.                                     *)
LEMMA ResultIs ==
  ASSUME NEW s \in Seq(Msgs), NEW own \in Nat
  PROVE  /\ ResultAfter(own, s) \in Nat
         /\ \A n, calls : AllOfCall(n, calls, s) => ResultAfter(own, s) \in {own, n}
<1>1. PICK first : first = [type |-> "result", n |-> own]
  OBVIOUS
<1>2. PICK l, x : l \in Nat /\ l = Len(s) /\ x = LastOf(s, {"result"}, first)
  BY LenProperties
<1>3. ResultAfter(own, s) = x.n
  BY <1>1, <1>2 DEF ResultAfter
<1>4. IsLast(s, l, {"result"}, first, x)
  BY <1>2, LastOfIs
<1>5. x = first \/ \E k \in 1 .. l : x = s[k] /\ s[k].type = "result"
  BY <1>4 DEF IsLast
<1>6. CASE x = first
  BY <1>1, <1>3, <1>6
<1>7. ASSUME NEW k \in 1 .. l, x = s[k], s[k].type = "result"
      PROVE  x.n \in Nat /\ \A n, calls : AllOfCall(n, calls, s) => x.n = n
  <2>1. s[k] \in Msgs /\ k \in DOMAIN s
    BY <1>2, ElementOfSeq, LenProperties
  <2>2. x.n \in Nat
    <3>1. PICK m : m = s[k]
      OBVIOUS
    <3>2. m \in Msgs /\ m.type = "result"
      BY <1>7, <2>1, <3>1
    <3>3. m.n \in Nat
      BY <3>2 DEF Msgs
    <3>4. QED
      BY <1>7, <3>1, <3>3
  <2>3. QED
    BY <1>7, <2>1, <2>2 DEF AllOfCall
<1>8. QED
  BY <1>3, <1>5, <1>6, <1>7

LEMMA OpenedType ==
  ASSUME NEW s \in Seq(Msgs), NEW own \in BOOLEAN
  PROVE  OpenedAfter(own, s) \in BOOLEAN
<1>1. PICK first, x : first = [type |-> "state", opened |-> own] /\ x = LastOf(s, {"state"}, first)
  OBVIOUS
<1>2. x = first \/ (x \in Msgs /\ x.type = "state")
  BY <1>1, LastOfMsgs
<1>3. OpenedAfter(own, s) = x.opened
  BY <1>1 DEF OpenedAfter
<1>4. x = first => x.opened \in BOOLEAN
  BY <1>1
<1>5. x \in Msgs /\ x.type = "state" => x.opened \in BOOLEAN
  BY DEF Msgs
<1>6. QED
  BY <1>2, <1>3, <1>4, <1>5

LEMMA AfterType ==
  ASSUME NEW s \in Seq(Msgs), NEW own \in Confs, NEW cf \in Confs
  PROVE  After(cf, own, s) \in Confs
<1>1. PICK first, x : /\ first = [type |-> "flags", flags |-> own.flags]
                      /\ x = LastOf(s, {"flags", "reload"}, first)
  OBVIOUS
<1>2. x = first \/ (x \in Msgs /\ x.type \in {"flags", "reload"})
  BY <1>1, LastOfMsgs
<1>3. PICK f : f = IF x.type = "reload" THEN cf.flags ELSE x.flags
  OBVIOUS
<1>4. f \in Values
  BY <1>1, <1>2, <1>3 DEF Msgs, Confs
<1>5. PICK o : o = IF Has(s, "reload") THEN cf.options ELSE own.options
  OBVIOUS
<1>6. o \in Values
  BY <1>5 DEF Confs
<1>7. After(cf, own, s) = [flags |-> f, options |-> o]
  BY <1>1, <1>3, <1>5 DEF After
<1>8. QED
  BY <1>4, <1>6, <1>7 DEF Confs

LEMMA ReadInv ==
  ASSUME RpcInv, NEW c \in Clients, Read(c)
  PROVE  RpcInv'
<1>1. PICK n \in 1 .. Len(toClient[c]) :
       LET msgs == SubSeq(toClient[c], 1, n)
           result == ResultAfter(m_resultCommand[c], msgs)
           returns == client[c] = "waiting" /\ result # CommandNone
       IN /\ toClient' = [toClient EXCEPT ![c] = SubSeq(@, n + 1, Len(@))]
          /\ clientConf' = [clientConf EXCEPT ![c] = ConfAfter(@, msgs)]
          /\ clientOpened' = [clientOpened EXCEPT ![c] = OpenedAfter(@, msgs)]
          /\ missed' = [missed EXCEPT ![c] = @ /\ ~ Has(msgs, "reload")]
          /\ refused' = [refused EXCEPT ![c] = @ /\ ~ Has(msgs, "reload") /\ ~ Has(msgs, "flags")]
          /\ m_resultCommand' = [m_resultCommand EXCEPT ![c] = result]
          /\ client' = [client EXCEPT ![c] = IF returns THEN "idle" ELSE @]
          /\ mixed' = (mixed \/ (returns /\ result # call[c].n /\ ~call[c].stray))
  BY DEF Read
<1>2. /\ RpcTypes /\ ~ mixed /\ ClientInv(c)
      /\ client[c] \in {"idle", "waiting"} /\ toClient[c] # <<>>
      /\ UNCHANGED <<isDeviceOpened, conf, isServiceClient, isClientValidated, call, toServer>>
  BY DEF RpcInv, Read, serverVars
<1>3. PICK s \in Seq(Msgs), t \in Seq(Msgs) :
        /\ s = SubSeq(toClient[c], 1, n) /\ t = SubSeq(toClient[c], n + 1, Len(toClient[c]))
        /\ s \o t = toClient[c]
  <2>1. PICK q \in Seq(Msgs) : q = toClient[c]
    BY <1>2 DEF RpcTypes
  <2>2. Len(q) \in Nat /\ n \in 1 .. Len(q) /\ \A i \in 1 .. Len(q) : q[i] \in Msgs
    BY <2>1, LenProperties, ElementOfSeq
  <2>3. SubSeq(q, 1, n) \in Seq(Msgs) /\ SubSeq(q, n + 1, Len(q)) \in Seq(Msgs)
    <3>1. \A i \in 1 .. n : i \in 1 .. Len(q)
      BY <2>2
    <3>2. \A i \in n + 1 .. Len(q) : i \in 1 .. Len(q)
      BY <2>2
    <3>3. \A i \in 1 .. n : q[i] \in Msgs
      BY <2>2, <3>1
    <3>4. \A i \in n + 1 .. Len(q) : q[i] \in Msgs
      BY <2>2, <3>2
    <3>5. 1 \in Int /\ n \in Int /\ n + 1 \in Int /\ Len(q) \in Int
      BY <2>2
    <3>6. QED
      BY <3>3, <3>4, <3>5, SubSeqProperties
  <2>4. SubSeq(q, 1, n) \o SubSeq(q, n + 1, Len(q)) = SubSeq(q, 1, Len(q))
    <3>1. 1 \in 1 .. Len(q) + 1 /\ n \in 1 - 1 .. Len(q) /\ Len(q) \in n .. Len(q)
      BY <2>2
    <3>2. QED
      BY <3>1, ConcatAdjacentSubSeq
  <2>5. SubSeq(q, 1, Len(q)) = q
    BY SubSeqFull
  <2>6. QED
    BY <2>1, <2>3, <2>4, <2>5
<1>4. PICK result : result = ResultAfter(m_resultCommand[c], s)
  OBVIOUS
<1>5. PICK returns \in BOOLEAN : returns <=> client[c] = "waiting" /\ result # CommandNone
  <2>1. (client[c] = "waiting" /\ result # CommandNone) \in BOOLEAN
    OBVIOUS
  <2>2. QED
    BY <2>1
<1>6. /\ toClient' = [toClient EXCEPT ![c] = t]
      /\ clientConf' = [clientConf EXCEPT ![c] = After(conf, clientConf[c], s)]
      /\ clientOpened' = [clientOpened EXCEPT ![c] = OpenedAfter(clientOpened[c], s)]
      /\ missed' = [missed EXCEPT ![c] = missed[c] /\ ~ Has(s, "reload")]
      /\ refused' = [refused EXCEPT ![c] = refused[c] /\ ~ Has(s, "reload") /\ ~ Has(s, "flags")]
      /\ m_resultCommand' = [m_resultCommand EXCEPT ![c] = result]
      /\ client' = [client EXCEPT ![c] = IF returns THEN "idle" ELSE client[c]]
      /\ mixed' = (mixed \/ (returns /\ result # call[c].n /\ ~ call[c].stray))
  BY <1>1, <1>3, <1>4, <1>5 DEF ConfAfter, After
<1>7. /\ result \in Nat
      /\ \A m, calls : AllOfCall(m, calls, s) => result \in {m_resultCommand[c], m}
  BY <1>2, <1>4, ResultIs DEF RpcTypes
<1>8. client[c] = "waiting" /\ ~ call[c].stray =>
        /\ result \in {CommandNone, call[c].n}
        /\ AllOfCall(call[c].n, toServer[c], t)
  <2>1. SUFFICES ASSUME client[c] = "waiting", ~ call[c].stray
                 PROVE  result \in {CommandNone, call[c].n} /\ AllOfCall(call[c].n, toServer[c], t)
    OBVIOUS
  <2>2. m_resultCommand[c] \in {CommandNone, call[c].n} /\ AllOfCall(call[c].n, toServer[c], s \o t)
    BY <1>2, <1>3, <2>1 DEF ClientInv, OwnAnswer
  <2>3. AllOfCall(call[c].n, toServer[c], s) /\ AllOfCall(call[c].n, toServer[c], t)
    BY <2>2, AllConcat
  <2>4. QED
    BY <1>7, <2>2, <2>3
<1>9. ~ mixed'
  BY <1>2, <1>5, <1>6, <1>8
<1>10. RpcTypes'
  <2>1. OpenedAfter(clientOpened[c], s) \in BOOLEAN
    BY <1>2, OpenedType DEF RpcTypes
  <2>2. After(conf, clientConf[c], s) \in Confs
    BY <1>2, AfterType DEF RpcTypes
  <2>3. /\ (missed[c] /\ ~ Has(s, "reload")) \in BOOLEAN
        /\ (refused[c] /\ ~ Has(s, "reload") /\ ~ Has(s, "flags")) \in BOOLEAN
    OBVIOUS
  <2>4. QED
    BY <1>2, <1>6, <1>7, <2>1, <2>2, <2>3 DEF RpcTypes
<1>11. ASSUME NEW k \in Clients, k # c PROVE ClientInv(k)'
  BY <1>2, <1>6, <1>11, OthersKept DEF RpcTypes
<1>12. ClientInv(c)'
  <2>1. /\ toClient'[c] = t /\ clientConf'[c] = After(conf, clientConf[c], s)
        /\ clientOpened'[c] = OpenedAfter(clientOpened[c], s)
        /\ missed'[c] = (missed[c] /\ ~ Has(s, "reload")) /\ m_resultCommand'[c] = result
        /\ refused'[c] = (refused[c] /\ ~ Has(s, "reload") /\ ~ Has(s, "flags"))
        /\ client'[c] = IF returns THEN "idle" ELSE client[c]
    BY <1>2, <1>6 DEF RpcTypes
  <2>2. Apart(c)'
    <3>1. ASSUME NEW type, Has(t, type) PROVE Has(toClient[c], type)
      <4>1. Has(s \o t, type)
        BY <3>1, HasConcat
      <4>2. QED
        BY <1>3, <4>1
    <3>2. QED
      BY <1>2, <2>1, <3>1 DEF ClientInv, Apart
  <2>3. OwnAnswer(c)'
    BY <1>2, <1>8, <2>1 DEF OwnAnswer
  <2>4. OpenedComes(c)'
    <3>1. OpenedAfter(OpenedAfter(clientOpened[c], s), t) = OpenedAfter(clientOpened[c], toClient[c])
      <4>1. PICK own : own = clientOpened[c]
        OBVIOUS
      <4>2. OpenedAfter(OpenedAfter(own, s), t) = OpenedAfter(own, s \o t)
        BY OpenedSplit
      <4>3. QED
        BY <1>3, <4>1, <4>2
    <3>2. QED
      BY <1>2, <2>1, <3>1 DEF ClientInv, OpenedComes
  <2>5. ConfComes(c)'
    <3>1. NewestFlags(conf, s \o t)
      BY <1>2, <1>3 DEF ClientInv, ConfComes
    <3>2. NewestFlags(conf, t)
      BY <3>1, NewestSplit
    <3>3. ASSUME ~ (missed[c] /\ ~ Has(s, "reload"))
          PROVE  \E f \in Values : ComesWith(c, f)'
      <4>1. PICK own \in Confs, cf \in Confs, g \in Values, new \in Confs, h \in Values :
              own = clientConf[c] /\ cf = conf /\ g = own.flags /\ new = After(cf, own, s) /\ h = new.flags
        <5>1. PICK own \in Confs, cf \in Confs : own = clientConf[c] /\ cf = conf
          BY <1>2 DEF RpcTypes
        <5>2. own.flags \in Values /\ After(cf, own, s) \in Confs
          BY AfterType DEF Confs
        <5>3. After(cf, own, s).flags \in Values
          BY <5>2 DEF Confs
        <5>4. QED
          BY <5>1, <5>2, <5>3
      <4>2. own = WithFlags(own, g) /\ new = WithFlags(new, h)
        BY <4>1, FlagsType
      <4>3. CASE Has(s, "flags") \/ Has(s, "reload")
        <5>1. After(cf, own, s \o t) = cf
          <6>1. Has(s \o t, "flags") \/ Has(s \o t, "reload")
            BY <4>3, HasConcat
          <6>2. s \o t \in Seq(Msgs) /\ NewestFlags(cf, s \o t)
            BY <3>1, <4>1, ConcatProperties
          <6>3. CASE Has(s, "reload")
            <7>1. Has(s \o t, "reload")
              BY <6>3, HasConcat
            <7>2. QED
              BY <6>2, <7>1, AfterReload
          <6>4. CASE ~ missed[c]
            <7>1. PICK f \in Values : ComesWith(c, f)
              BY <1>2, <6>4 DEF ClientInv, ConfComes
            <7>2. After(cf, WithFlags(own, f), s \o t) = cf
              BY <1>3, <4>1, <7>1 DEF ComesWith
            <7>3. After(cf, WithFlags(own, f), s \o t) = After(cf, WithFlags(own, g), s \o t)
              BY <6>1, <6>2, FlagsReplaced
            <7>4. QED
              BY <4>2, <7>2, <7>3
          <6>5. QED
            BY <3>3, <6>3, <6>4
        <5>2. After(cf, new, t) = cf
          BY <4>1, <5>1, AfterSplit
        <5>3. ComesWith(c, h)'
          BY <1>2, <2>1, <4>1, <4>2, <5>2 DEF ComesWith
        <5>4. QED
          BY <5>3
      <4>4. CASE ~ Has(s, "flags") /\ ~ Has(s, "reload")
        <5>1. PICK f \in Values : ComesWith(c, f)
          BY <1>2, <3>3, <4>4 DEF ClientInv, ConfComes
        <5>2. WithFlags(own, f) \in Confs
          BY FlagsType
        <5>3. new = own /\ After(cf, WithFlags(own, f), s) = WithFlags(own, f)
          BY <4>1, <4>4, <5>2, FlagsKept
        <5>4. After(cf, WithFlags(own, f), s \o t) = cf
          BY <1>3, <4>1, <5>1 DEF ComesWith
        <5>5. After(cf, WithFlags(own, f), t) = cf
          <6>1. After(cf, After(cf, WithFlags(own, f), s), t) = cf
            BY <5>2, <5>4, AfterSplit
          <6>2. QED
            BY <5>3, <6>1
        <5>6. f = own.flags \/ Ahead(c)'
          BY <1>2, <2>1, <4>1, <4>4, <5>1 DEF ComesWith, Ahead, Asked
        <5>7. ComesWith(c, f)'
          BY <1>2, <2>1, <4>1, <5>3, <5>5, <5>6 DEF ComesWith
        <5>8. QED
          BY <5>7
      <4>5. QED
        BY <4>3, <4>4
    <3>4. QED
      BY <1>2, <2>1, <3>2, <3>3 DEF ConfComes
  <2>6. QED
    BY <2>2, <2>3, <2>4, <2>5 DEF ClientInv
<1>13. QED
  BY <1>9, <1>10, <1>11, <1>12 DEF RpcInv

LEMMA RpcInitInv ==
  ASSUME Init
  PROVE  RpcInv
<1>1. PICK v \in Values : conf = [flags |-> v, options |-> v]
  BY DEF Init
<1>2. conf \in Confs
  BY <1>1 DEF Confs
<1>3. <<>> \in Seq(Calls) /\ <<>> \in Seq(Msgs) /\ CommandNone \in Nat /\ 0 \in Nat
  BY DEF CommandNone
<1>4. RpcTypes /\ ~ mixed
  BY <1>2, <1>3 DEF Init, RpcTypes
<1>5. NewestFlags(conf, <<>>)
  BY LastOfNone DEF NewestFlags
<1>6. \A type : ~ Has(<<>>, type)
  BY HasFew
<1>7. ASSUME NEW c \in Clients PROVE ClientInv(c)
  <2>1. /\ toServer[c] = <<>> /\ toClient[c] = <<>> /\ ~ isServiceClient[c] /\ client[c] = "none"
    BY DEF Init
  <2>2. Apart(c) /\ OwnAnswer(c) /\ OpenedComes(c) /\ ConfComes(c)
    BY <1>5, <1>6, <2>1 DEF Apart, OwnAnswer, OpenedComes, ConfComes
  <2>3. QED
    BY <2>2 DEF ClientInv
<1>8. QED
  BY <1>4, <1>7 DEF RpcInv

LEMMA RpcStepInv ==
  ASSUME RpcInv, [Next]_vars
  PROVE  RpcInv'
<1>1. CASE DriverChange
  BY <1>1, DriverChangeInv
<1>2. ASSUME NEW c \in Clients, Serve(c) PROVE RpcInv'
  BY <1>2, ServeInv
<1>3. ASSUME NEW c \in Clients, Connect(c) PROVE RpcInv'
  BY <1>3, ConnectInv
<1>4. ASSUME NEW c \in Clients, LoadConf(c) PROVE RpcInv'
  BY <1>4, LoadConfInv
<1>5. ASSUME NEW c \in Clients, DoOnServer(c) PROVE RpcInv'
  BY <1>5, DoOnServerInv
<1>6. ASSUME NEW c \in Clients, Read(c) PROVE RpcInv'
  BY <1>6, ReadInv
<1>7. ASSUME NEW c \in Clients, Timeout(c) PROVE RpcInv'
  BY <1>7, TimeoutInv
<1>8. ASSUME NEW c \in Clients, Disconnect(c) PROVE RpcInv'
  BY <1>8, DisconnectInv
<1>9. CASE UNCHANGED vars
  <2>1. /\ UNCHANGED <<isDeviceOpened, conf, isServiceClient, isClientValidated, client, clientOpened,
                       clientConf, m_resultCommand, call, mixed, toServer, toClient, missed, refused>>
        /\ RpcTypes /\ ~ mixed /\ \A c \in Clients : ClientInv(c)
    BY <1>9 DEF vars, serverVars, clientVars, RpcInv
  <2>2. RpcTypes'
    BY <2>1 DEF RpcTypes
  <2>3. ASSUME NEW c \in Clients PROVE ClientInv(c)'
    <3>1. Same(c) /\ ClientInv(c)
      BY <2>1 DEF Same
    <3>2. QED
      BY <2>1, <3>1, ClientKept
  <2>4. QED
    BY <2>1, <2>2, <2>3 DEF RpcInv
<1>10. QED
  BY <1>1, <1>2, <1>3, <1>4, <1>5, <1>6, <1>7, <1>8, <1>9 DEF Next

(* What is under way between the service and its clients is what they need *)
(* to agree, and the answers under way are those of the calls that wait.   *)
THEOREM RpcInvariant == Spec => []RpcInv
<1>1. Init => RpcInv
  BY RpcInitInv
<1>2. RpcInv /\ [Next]_vars => RpcInv'
  BY RpcStepInv
<1>3. QED
  BY <1>1, <1>2, PTL DEF Spec

(* A call is never answered by the result of another one, for any clients, *)
(* values and calls, unless it began while such answers were under way.    *)
THEOREM AnswersAreOwn == Spec => []AnswersMatch
<1>1. RpcInv => AnswersMatch
  BY DEF RpcInv, AnswersMatch
<1>2. QED
  BY <1>1, RpcInvariant, PTL

(* What is under way brings every client to the service's state of the     *)
(* driver.                                                                 *)
THEOREM StateComes == Spec => []StateFollows
<1>1. RpcInv => StateFollows
  BY DEF RpcInv, ClientInv, OpenedComes, StateFollows, Up
<1>2. QED
  BY <1>1, RpcInvariant, PTL

(* ... and to its configuration.                                           *)
THEOREM ConfigurationComes == Spec => []ConfFollows
<1>1. RpcInv => ConfFollows
  <2>1. \A own, msgs : ConfAfter(own, msgs) = After(conf, own, msgs)
    BY DEF ConfAfter, After
  <2>2. SUFFICES ASSUME RpcInv, NEW c \in Clients, Up(c), ~ missed[c]
                 PROVE  LET own == After(conf, clientConf[c], toClient[c])
                        IN /\ own.options = conf.options
                           /\ own.flags = conf.flags \/ Asked(c) \/ refused[c]
    BY <2>1 DEF ConfFollows
  <2>3. PICK f \in Values : ComesWith(c, f)
    BY <2>2 DEF RpcInv, ClientInv, ConfComes, Up
  <2>4. clientConf[c] \in Confs
    BY <2>2 DEF RpcInv, RpcTypes
  <2>5. After(conf, clientConf[c], toClient[c]).options = After(conf, WithFlags(clientConf[c], f), toClient[c]).options
    BY DEF After, WithFlags
  <2>6. f = clientConf[c].flags => clientConf[c] = WithFlags(clientConf[c], f)
    BY <2>4, FlagsType
  <2>7. QED
    BY <2>3, <2>5, <2>6 DEF ComesWith, Ahead
<1>2. QED
  BY <1>1, RpcInvariant, PTL

-----------------------------------------------------------------------------
(* Quotas: a day and a month begin at one of Starts. *)

LEMMA DayStart ==
  ASSUME NEW h \in Nat, NEW monthStart
  PROVE  StartOf("day", h, monthStart) = (h \div HoursPerDay) * HoursPerDay
<1>1. HoursPerDay \in Nat \ {0}
  BY QuotaAssumption
<1>2. h - (h % HoursPerDay) = (h \div HoursPerDay) * HoursPerDay
  BY <1>1
<1>3. QED
  BY <1>2 DEF StartOf

(* The number of a month, and of a day in it. *)
MonthOf(h) == h \div HoursPerMonth
DayOfMonth(h) == (h % HoursPerMonth) \div HoursPerDay + 1

LEMMA MonthStart ==
  ASSUME NEW h \in Nat, NEW monthStart \in Nat
  PROVE  StartOf("month", h, monthStart)
           = (MonthOf(h) - (IF DayOfMonth(h) < monthStart THEN 1 ELSE 0)) * HoursPerMonth
<1>1. HoursPerMonth \in Nat \ {0}
  BY QuotaAssumption DEF HoursPerMonth
<1>2. h - (h % HoursPerMonth) = (h \div HoursPerMonth) * HoursPerMonth /\ h \div HoursPerMonth \in Nat
  BY <1>1
<1>3. (MonthOf(h) - 1) * HoursPerMonth = MonthOf(h) * HoursPerMonth - HoursPerMonth
  BY <1>1, <1>2 DEF MonthOf
<1>4. QED
  BY <1>1, <1>2, <1>3 DEF StartOf, MonthOf, DayOfMonth

LEMMA FirstHours ==
  /\ HoursPerDay \in Nat \ {0} /\ DaysPerMonth \in Nat \ {0} /\ HoursPerMonth \in Nat \ {0}
  /\ HoursPerMonth = DaysPerMonth * HoursPerDay /\ HoursPerDay <= HoursPerMonth
  /\ FirstHour \in Nat /\ MaxHours \in Nat
  /\ MonthOf(FirstHour) = IF DaysPerMonth = 1 THEN 3 ELSE 2
  /\ DayOfMonth(FirstHour) = IF DaysPerMonth = 1 THEN 1 ELSE 2
<1>1. HoursPerDay \in Nat \ {0} /\ DaysPerMonth \in Nat \ {0} /\ MaxHours \in Nat
  BY QuotaAssumption
<1>2. HoursPerMonth = DaysPerMonth * HoursPerDay /\ HoursPerMonth \in Nat \ {0} /\ HoursPerDay <= HoursPerMonth
  BY <1>1 DEF HoursPerMonth
<1>3. FirstHour = 2 * HoursPerMonth + HoursPerDay /\ FirstHour \in Nat
  BY <1>1, <1>2 DEF FirstHour
<1>4. CASE DaysPerMonth = 1
  <2>0. HoursPerMonth = HoursPerDay
    BY <1>1, <1>2, <1>4
  <2>1. FirstHour = 3 * HoursPerMonth
    BY <1>2, <1>3, <2>0
  <2>2. FirstHour \div HoursPerMonth = 3 /\ FirstHour % HoursPerMonth = 0
    BY <1>2, <2>1
  <2>3. 0 \div HoursPerDay = 0
    BY <1>1
  <2>4. QED
    BY <1>1, <1>2, <1>3, <1>4, <2>2, <2>3 DEF MonthOf, DayOfMonth
<1>5. CASE DaysPerMonth # 1
  <2>1. HoursPerDay < HoursPerMonth
    BY <1>1, <1>2, <1>5
  <2>2. FirstHour \div HoursPerMonth = 2 /\ FirstHour % HoursPerMonth = HoursPerDay
    BY <1>1, <1>2, <1>3, <2>1
  <2>3. HoursPerDay \div HoursPerDay = 1
    BY <1>1
  <2>4. QED
    BY <1>1, <1>2, <1>3, <1>5, <2>2, <2>3 DEF MonthOf, DayOfMonth
<1>6. QED
  BY <1>4, <1>5

(* What begins on a day of the model's time. *)
LEMMA IsStart ==
  ASSUME NEW d \in Nat, FirstDay <= d, d * HoursPerDay <= FirstHour + MaxHours
  PROVE  d * HoursPerDay \in Starts
<1>1. (d * HoursPerDay) \div HoursPerDay = d
  BY FirstHours
<1>2. d <= LastDay /\ LastDay \in Nat
  <2>1. d * HoursPerDay \in Nat /\ FirstHour + MaxHours \in Nat
    BY FirstHours
  <2>2. (d * HoursPerDay) \div HoursPerDay <= (FirstHour + MaxHours) \div HoursPerDay
        /\ (FirstHour + MaxHours) \div HoursPerDay \in Nat
    BY <2>1, FirstHours
  <2>3. QED
    BY <1>1, <2>2 DEF LastDay
<1>3. FirstDay \in Int
  <2>1. StartOf("month", FirstHour, DaysPerMonth) = (MonthOf(FirstHour) - (IF DayOfMonth(FirstHour) < DaysPerMonth THEN 1 ELSE 0)) * HoursPerMonth
    BY FirstHours, MonthStart
  <2>2. StartOf("month", FirstHour, DaysPerMonth) \in Int
    BY <2>1, FirstHours
  <2>3. QED
    BY <2>2, FirstHours DEF FirstDay
<1>4. QED
  BY <1>2, <1>3 DEF Starts

LEMMA FirstDayIs ==
  /\ FirstDay = (IF DaysPerMonth \in {1, 2} THEN MonthOf(FirstHour) ELSE 1) * DaysPerMonth
  /\ FirstDay \in Nat \ {0}
  /\ FirstDay * HoursPerDay <= FirstHour
<1>1. PICK k \in Nat \ {0} : k = IF DaysPerMonth \in {1, 2} THEN MonthOf(FirstHour) ELSE 1
  BY FirstHours
<1>2. StartOf("month", FirstHour, DaysPerMonth) = k * HoursPerMonth
  BY <1>1, FirstHours, MonthStart
<1>3. k * HoursPerMonth = (k * DaysPerMonth) * HoursPerDay /\ k * DaysPerMonth \in Nat \ {0}
  BY FirstHours
<1>4. ((k * DaysPerMonth) * HoursPerDay) \div HoursPerDay = k * DaysPerMonth
  BY <1>3, FirstHours
<1>5. FirstDay = k * DaysPerMonth
  BY <1>2, <1>3, <1>4 DEF FirstDay
<1>6. k * HoursPerMonth <= FirstHour
  <2>1. k \in {1, 2} \/ (k = 3 /\ DaysPerMonth = 1)
    BY <1>1, FirstHours
  <2>2. FirstHour = 2 * HoursPerMonth + HoursPerDay /\ (DaysPerMonth = 1 => HoursPerMonth = HoursPerDay)
    BY FirstHours DEF FirstHour
  <2>3. QED
    BY <2>1, <2>2, FirstHours
<1>7. QED
  BY <1>1, <1>3, <1>5, <1>6

LEMMA StartsArePositive == \A s \in Starts : s \in Nat \ {0}
<1>1. ASSUME NEW d \in FirstDay .. LastDay PROVE d * HoursPerDay \in Nat \ {0}
  <2>1. d \in Nat \ {0}
    BY FirstDayIs, FirstHours
  <2>2. QED
    BY <2>1, FirstHours
<1>2. QED
  BY <1>1 DEF Starts

LEMMA StartsOfPeriods ==
  ASSUME NEW p \in Periods, NEW h \in FirstHour .. FirstHour + MaxHours,
         NEW monthStart \in 1 .. DaysPerMonth
  PROVE  StartOf(p, h, monthStart) \in Starts
<1>1. h \in Nat /\ FirstHour <= h /\ h <= FirstHour + MaxHours
      /\ monthStart \in Nat /\ monthStart <= DaysPerMonth /\ 1 <= monthStart
  BY FirstHours
<1>2. CASE p = "day"
  <2>1. h \div HoursPerDay \in Nat /\ (h \div HoursPerDay) * HoursPerDay <= h
    BY <1>1, FirstHours
  <2>2. FirstDay <= h \div HoursPerDay
    <3>1. (FirstDay * HoursPerDay) \div HoursPerDay <= h \div HoursPerDay
      BY <1>1, FirstHours, FirstDayIs
    <3>2. (FirstDay * HoursPerDay) \div HoursPerDay = FirstDay
      BY FirstHours, FirstDayIs
    <3>3. QED
      BY <3>1, <3>2
  <2>3. (h \div HoursPerDay) * HoursPerDay <= FirstHour + MaxHours
    BY <1>1, <2>1, FirstHours
  <2>4. QED
    BY <1>1, <1>2, <2>1, <2>2, <2>3, DayStart, IsStart
<1>3. CASE p = "month"
  <2>1. PICK m \in Nat : m = MonthOf(h) /\ MonthOf(FirstHour) <= m /\ m * HoursPerMonth <= h
    <3>1. h \div HoursPerMonth \in Nat /\ (h \div HoursPerMonth) * HoursPerMonth <= h
      BY <1>1, FirstHours
    <3>2. FirstHour \div HoursPerMonth <= h \div HoursPerMonth
      BY <1>1, FirstHours
    <3>3. QED
      BY <3>1, <3>2 DEF MonthOf
  <2>2. m = MonthOf(FirstHour) => DayOfMonth(FirstHour) <= DayOfMonth(h) /\ DayOfMonth(h) \in Nat
    <3>1. HAVE m = MonthOf(FirstHour)
    <3>2. h % HoursPerMonth = h - m * HoursPerMonth /\ FirstHour % HoursPerMonth = FirstHour - m * HoursPerMonth
      BY <1>1, <2>1, <3>1, FirstHours DEF MonthOf
    <3>3. h % HoursPerMonth \in Nat /\ FirstHour % HoursPerMonth \in Nat
          /\ FirstHour % HoursPerMonth <= h % HoursPerMonth
      BY <1>1, <3>2, FirstHours
    <3>4. (FirstHour % HoursPerMonth) \div HoursPerDay <= (h % HoursPerMonth) \div HoursPerDay
          /\ (h % HoursPerMonth) \div HoursPerDay \in Nat /\ (FirstHour % HoursPerMonth) \div HoursPerDay \in Nat
      BY <3>3, FirstHours
    <3>5. QED
      BY <3>4 DEF DayOfMonth
  <2>3. PICK k \in Int : k = m - (IF DayOfMonth(h) < monthStart THEN 1 ELSE 0)
    BY <2>1
  <2>4. StartOf(p, h, monthStart) = k * HoursPerMonth
    BY <1>1, <1>3, <2>1, <2>3, MonthStart
  <2>5. k \in Nat /\ k <= m /\ (IF DaysPerMonth \in {1, 2} THEN MonthOf(FirstHour) ELSE 1) <= k
    <3>1. CASE m = MonthOf(FirstHour)
      BY <1>1, <2>1, <2>2, <2>3, <3>1, FirstHours
    <3>2. CASE m # MonthOf(FirstHour)
      BY <1>1, <2>1, <2>3, <3>2, FirstHours
    <3>3. QED
      BY <3>1, <3>2
  <2>6. k * HoursPerMonth = (k * DaysPerMonth) * HoursPerDay /\ k * DaysPerMonth \in Nat
    BY <2>5, FirstHours
  <2>7. FirstDay <= k * DaysPerMonth
    <3>1. PICK j \in Nat : j = (IF DaysPerMonth \in {1, 2} THEN MonthOf(FirstHour) ELSE 1)
      BY FirstHours
    <3>2. j * DaysPerMonth <= k * DaysPerMonth
      BY <2>5, <3>1, FirstHours
    <3>3. QED
      BY <3>1, <3>2, FirstDayIs
  <2>8. k * HoursPerMonth <= FirstHour + MaxHours
    <3>1. k * HoursPerMonth <= m * HoursPerMonth
      BY <2>1, <2>5, FirstHours
    <3>2. QED
      BY <1>1, <2>1, <2>5, <3>1, FirstHours
  <2>9. QED
    BY <2>4, <2>6, <2>7, <2>8, IsStart
<1>4. QED
  BY <1>2, <1>3 DEF Periods

-----------------------------------------------------------------------------
(* Quotas: the inductive invariant.                                        *)

QuotaTypes ==
  /\ hour \in FirstHour .. FirstHour + MaxHours
  /\ recordHour \in FirstHour .. hour
  /\ ini.monthStart \in 1 .. DaysPerMonth /\ QuotaOf(ini) \in [Periods -> Nat]
  /\ table \in [Periods -> [Starts -> Nat]]
  /\ traf \in [Periods -> Starts] \/ (m_trafHour = 0 /\ traf = Zero)
  /\ of \in [Periods -> Starts]
  /\ bytes \in [Periods -> Nat] /\ quota \in [Periods -> Nat]
  /\ iniAlerted \in [Periods -> Starts \cup {0}]
  /\ told \in [Periods -> [of : Starts \cup {0}, times : Nat]]
  /\ flawed \in [Periods -> BOOLEAN] /\ checked \in BOOLEAN

(* Of a period that is counted as it should be: its bytes are those of the *)
(* table, the .ini file has the alert the user was told, and of what the   *)
(* user was told there is more than the quota.                             *)
PeriodInv(p) ==
  ~ flawed[p] =>
    /\ bytes[p] = table[p][of[p]]
    /\ iniAlerted[p] = told[p].of
    /\ told[p].of # 0 => /\ told[p].times = 1 /\ quota[p] # 0
                         /\ table[p][told[p].of] > quota[p]
    /\ checked => /\ of[p] = traf[p]
                  /\ quota[p] # 0 /\ bytes[p] > quota[p] => told[p].of = traf[p]

QuotaInv == QuotaTypes /\ \A p \in Periods : PeriodInv(p)

LEMMA QuotasOfOptions ==
  ASSUME NEW i \in Options
  PROVE  i.monthStart \in 1 .. DaysPerMonth /\ QuotaOf(i) \in [Periods -> Nat]
<1>1. i.monthStart \in 1 .. DaysPerMonth /\ i.quotaDayMb \in Quotas /\ i.quotaMonthMb \in IniMonth
  BY DEF Options
<1>2. i.quotaDayMb \in Nat /\ i.quotaMonthMb \in Nat
  BY <1>1, QuotaAssumption
<1>3. QED
  BY <1>1, <1>2 DEF QuotaOf

LEMMA QuotaInitInv == QuotaInit => QuotaInv
<1>1. SUFFICES ASSUME QuotaInit PROVE QuotaInv
  OBVIOUS
<1>2. 1 \in 1 .. DaysPerMonth /\ hour \in FirstHour .. FirstHour + MaxHours /\ recordHour = hour
      /\ recordHour \in FirstHour .. hour
  BY <1>1, FirstHours DEF QuotaInit
<1>3. ini.monthStart = 1 /\ ini.quotaDayMb \in Nat /\ ini.quotaMonthMb \in Nat
  BY <1>1, QuotaAssumption DEF QuotaInit
<1>4. QuotaOf(ini) \in [Periods -> Nat]
  BY <1>3 DEF QuotaOf
<1>5. of \in [Periods -> Starts]
  BY <1>1, <1>2, <1>3, StartsOfPeriods DEF QuotaInit
<1>6. Zero \in [Periods -> {0}]
  BY DEF Zero
<1>7. QuotaTypes
  BY <1>1, <1>2, <1>3, <1>4, <1>5, <1>6 DEF QuotaInit, QuotaTypes, NotTold
<1>8. ASSUME NEW p \in Periods PROVE PeriodInv(p)
  BY <1>1, <1>5 DEF QuotaInit, PeriodInv, Zero, NotTold
<1>9. QED
  BY <1>7, <1>8 DEF QuotaInv

(* The quotas are set up by options, and the bytes by the tables.          *)
LEMMA SetupTypes ==
  ASSUME QuotaTypes, NEW i, i.monthStart \in 1 .. DaysPerMonth, QuotaOf(i) \in [Periods -> Nat],
         SetupQuota(i)
  PROVE  /\ quota' \in [Periods -> Nat] /\ bytes' \in [Periods -> Nat] /\ of' \in [Periods -> Starts]
         /\ quota' = QuotaOf(i)
         /\ \A p \in Periods : bytes'[p] = table[p][of'[p]]
<1>1. \A p \in Periods : StartOf(p, hour, i.monthStart) \in Starts
  BY StartsOfPeriods DEF QuotaTypes
<1>2. QED
  BY <1>1 DEF QuotaTypes, SetupQuota

(* What was told is forgotten.                                             *)
LEMMA ForgetTypes ==
  ASSUME QuotaTypes, NEW ps, ForgetAlerts(ps)
  PROVE  /\ iniAlerted' \in [Periods -> Starts \cup {0}]
         /\ told' \in [Periods -> [of : Starts \cup {0}, times : Nat]]
         /\ \A p \in Periods :
              IF p \in ps THEN iniAlerted'[p] = 0 /\ told'[p].of = 0
              ELSE iniAlerted'[p] = iniAlerted[p] /\ told'[p] = told[p]
BY DEF QuotaTypes, ForgetAlerts, NotTold

LEMMA SaveOptionsInv ==
  ASSUME QuotaInv, NEW i \in Options, NEW isTaken \in BOOLEAN, SaveOptions(i, isTaken)
  PROVE  QuotaInv'
<1>1. QuotaTypes /\ \A p \in Periods : PeriodInv(p)
  BY DEF QuotaInv
<1>2. i.monthStart \in 1 .. DaysPerMonth /\ QuotaOf(i) \in [Periods -> Nat]
  BY QuotasOfOptions
<1>3. ini' = i /\ checked' = FALSE
      /\ UNCHANGED <<hour, recordHour, table, m_trafHour, traf, flawed>>
  BY DEF SaveOptions
<1>4. CASE isTaken /\ SetupQuota(i) /\ ForgetAlerts(Changed(QuotaOf(i)))
  <2>1. /\ quota' \in [Periods -> Nat] /\ bytes' \in [Periods -> Nat] /\ of' \in [Periods -> Starts]
        /\ quota' = QuotaOf(i) /\ \A p \in Periods : bytes'[p] = table[p][of'[p]]
    BY <1>1, <1>2, <1>4, SetupTypes
  <2>2. /\ iniAlerted' \in [Periods -> Starts \cup {0}]
        /\ told' \in [Periods -> [of : Starts \cup {0}, times : Nat]]
        /\ \A p \in Periods :
             IF p \in Changed(QuotaOf(i)) THEN iniAlerted'[p] = 0 /\ told'[p].of = 0
             ELSE iniAlerted'[p] = iniAlerted[p] /\ told'[p] = told[p]
    BY <1>1, <1>4, ForgetTypes
  <2>3. QuotaTypes'
    BY <1>1, <1>2, <1>3, <2>1, <2>2 DEF QuotaTypes
  <2>4. ASSUME NEW p \in Periods PROVE PeriodInv(p)'
    <3>1. p \notin Changed(QuotaOf(i)) => quota'[p] = quota[p] \/ quota[p] = 0
      BY <2>1 DEF Changed
    <3>2. PeriodInv(p)
      BY <1>1
    <3>3. QED
      BY <1>3, <2>1, <2>2, <3>1, <3>2 DEF PeriodInv
  <2>5. QED
    BY <2>3, <2>4 DEF QuotaInv
<1>5. CASE ~ isTaken /\ UNCHANGED <<quota, bytes, of, iniAlerted, told>>
  <2>1. QuotaTypes'
    BY <1>1, <1>2, <1>3, <1>5 DEF QuotaTypes
  <2>2. ASSUME NEW p \in Periods PROVE PeriodInv(p)'
    BY <1>1, <1>3, <1>5 DEF PeriodInv
  <2>3. QED
    BY <2>1, <2>2 DEF QuotaInv
<1>6. QED
  BY <1>4, <1>5 DEF SaveOptions

LEMMA StartAgainInv ==
  ASSUME QuotaInv, StartAgain
  PROVE  QuotaInv'
<1>1. QuotaTypes /\ \A p \in Periods : PeriodInv(p)
  BY DEF QuotaInv
<1>2. /\ recordHour' = hour /\ m_trafHour' = 0 /\ traf' = Zero /\ SetupQuota(ini) /\ checked' = FALSE
      /\ flawed' = [p \in Periods |-> flawed[p] \/ p \in Changed(QuotaOf(ini))]
      /\ UNCHANGED <<hour, ini, iniAlerted, table, told>>
  BY DEF StartAgain
<1>3. /\ quota' \in [Periods -> Nat] /\ bytes' \in [Periods -> Nat] /\ of' \in [Periods -> Starts]
      /\ quota' = QuotaOf(ini) /\ \A p \in Periods : bytes'[p] = table[p][of'[p]]
  <2>1. ini.monthStart \in 1 .. DaysPerMonth /\ QuotaOf(ini) \in [Periods -> Nat]
    BY <1>1 DEF QuotaTypes
  <2>2. QED
    BY <1>1, <1>2, <2>1, SetupTypes
<1>4. flawed' \in [Periods -> BOOLEAN]
  BY <1>2, Zenon
<1>5. hour' \in FirstHour .. FirstHour + MaxHours /\ recordHour' \in FirstHour .. hour'
  BY <1>1, <1>2, FirstHours DEF QuotaTypes
<1>6. QuotaTypes'
  BY <1>1, <1>2, <1>3, <1>4, <1>5 DEF QuotaTypes
<1>7. ASSUME NEW p \in Periods PROVE PeriodInv(p)'
  <2>1. flawed'[p] <=> flawed[p] \/ p \in Changed(QuotaOf(ini))
    BY <1>2, Zenon
  <2>2. SUFFICES ASSUME ~ flawed'[p]
                 PROVE  /\ bytes'[p] = table'[p][of'[p]]
                        /\ iniAlerted'[p] = told'[p].of
                        /\ told'[p].of # 0 => /\ told'[p].times = 1 /\ quota'[p] # 0
                                              /\ table'[p][told'[p].of] > quota'[p]
    BY <1>2 DEF PeriodInv
  <2>3. ~ flawed[p] /\ (quota'[p] = quota[p] \/ quota[p] = 0)
    BY <1>3, <2>1, <2>2 DEF Changed
  <2>4. QED
    BY <1>1, <1>2, <1>3, <2>3 DEF PeriodInv
<1>8. QED
  BY <1>6, <1>7 DEF QuotaInv

LEMMA ClearInv ==
  ASSUME QuotaInv, ClearAllTraffic
  PROVE  QuotaInv'
<1>1. QuotaTypes
  BY DEF QuotaInv
<1>2. /\ table' = [p \in Periods |-> [h \in Starts |-> 0]] /\ m_trafHour' = 0
      /\ traf' = Zero /\ bytes' = Zero
      /\ ForgetAlerts(Periods) /\ of' = [p \in Periods |-> StartOf(p, hour, ini.monthStart)]
      /\ flawed' = [p \in Periods |-> FALSE] /\ checked' = FALSE
      /\ UNCHANGED <<hour, recordHour, ini, quota>>
  BY DEF ClearAllTraffic
<1>3. \A p \in Periods : StartOf(p, hour, ini.monthStart) \in Starts
  BY <1>1, StartsOfPeriods DEF QuotaTypes
<1>4. of' \in [Periods -> Starts]
  BY <1>2, <1>3
<1>5. /\ iniAlerted' \in [Periods -> Starts \cup {0}]
      /\ told' \in [Periods -> [of : Starts \cup {0}, times : Nat]]
      /\ \A p \in Periods : iniAlerted'[p] = 0 /\ told'[p].of = 0
  BY <1>1, <1>2, ForgetTypes
<1>6. QuotaTypes'
  BY <1>1, <1>2, <1>4, <1>5 DEF QuotaTypes, Zero
<1>7. ASSUME NEW p \in Periods PROVE PeriodInv(p)'
  BY <1>2, <1>4, <1>5 DEF PeriodInv, Zero
<1>8. QED
  BY <1>6, <1>7 DEF QuotaInv

(* A record: what is kept of the tables, and the period it is counted in.  *)
LEMMA KeptRows ==
  ASSUME QuotaTypes, NEW h
  PROVE  Kept(h) \in [Periods -> [Starts -> Nat]]
<1>1. PICK old : old = [p \in Periods |-> OldTraffic(h, p)]
  OBVIOUS
<1>2. Kept(h) = IF ~ IsNew(h, "day") THEN table
                ELSE [p \in Periods |-> [s \in Starts |-> IF s < old[p] THEN 0 ELSE table[p][s]]]
  BY <1>1 DEF Kept
<1>3. QED
  BY <1>2 DEF QuotaTypes

LEMMA NewTrafStarts ==
  ASSUME QuotaTypes, NEW h \in recordHour .. hour
  PROVE  /\ h \in FirstHour .. FirstHour + MaxHours
         /\ NewTraf(h) \in [Periods -> Starts]
<1>1. h \in FirstHour .. FirstHour + MaxHours /\ h \in Nat
  BY FirstHours DEF QuotaTypes
<1>2. \A p \in Periods : StartOf(p, h, ini.monthStart) \in Starts
  BY <1>1, StartsOfPeriods DEF QuotaTypes
<1>3. CASE traf \in [Periods -> Starts]
  BY <1>1, <1>2, <1>3 DEF NewTraf
<1>4. CASE m_trafHour = 0 /\ traf = Zero
  <2>1. h # 0
    <3>1. FirstHour \in Nat \ {0}
      BY FirstHours DEF FirstHour
    <3>2. QED
      BY <1>1, <3>1
  <2>2. StartOf("day", h, 0) \in Starts
    <3>1. StartOf("day", h, 0) = StartOf("day", h, ini.monthStart)
      BY DEF StartOf
    <3>2. QED
      BY <1>2, <3>1 DEF Periods
  <2>3. StartOf("day", h, 0) # 0
    BY <2>2, StartsArePositive
  <2>4. traf["day"] = 0
    BY <1>4 DEF Zero, Periods
  <2>5. QED
    BY <1>1, <1>2, <1>4, <2>1, <2>3, <2>4 DEF NewTraf
<1>5. QED
  BY <1>1, <1>3, <1>4 DEF QuotaTypes

(* The effects of a record of n bytes on the period that begins at t and   *)
(* is a new one when c.                                                    *)
Told(p, c) == IF c THEN NotTold ELSE told[p]

LEMMA LogEffects ==
  ASSUME QuotaTypes, NEW h \in recordHour .. hour, NEW isActive \in BOOLEAN, LogTraffic(h, isActive),
         NEW p \in Periods, NEW t, t = NewTraf(h)[p], NEW kept, kept = Kept(h)[p],
         NEW c \in BOOLEAN, c <=> p \in Cleared(h), NEW n, n = IF isActive THEN 1 ELSE 0
  PROVE  /\ traf'[p] = t /\ table'[p] = [kept EXCEPT ![t] = @ + n]
         /\ bytes'[p] = (IF c THEN 0 ELSE bytes[p]) + n
         /\ of'[p] = IF c THEN t ELSE of[p]
         /\ LET a == IF c THEN 0 ELSE iniAlerted[p]
                isAlert == isActive /\ quota[p] # 0 /\ a # t /\ bytes'[p] > quota[p]
            IN /\ iniAlerted'[p] = IF isAlert THEN t ELSE a
               /\ told'[p] = IF isAlert THEN [of |-> t, times |-> IF Told(p, c).of = t THEN Told(p, c).times + 1 ELSE 1]
                             ELSE Told(p, c)
         /\ ~ flawed'[p] =>
              /\ c \/ ~ flawed[p]
              /\ of'[p] = t
              /\ c => table[p][t] = 0
              /\ \A s \in {t, Told(p, c).of} \cap Starts : kept[s] = table[p][s]
         /\ flawed' \in [Periods -> BOOLEAN]
<1>1. PICK ts : ts = NewTraf(h)
  OBVIOUS
<1>2. PICK ks : ks = Kept(h)
  OBVIOUS
<1>3. PICK cs : cs = Cleared(h)
  OBVIOUS
<1>4. PICK b : b = [q \in Periods |-> (IF q \in cs THEN 0 ELSE bytes[q]) + n]
  OBVIOUS
<1>5. PICK al : al = [q \in Periods |-> IF q \in cs THEN 0 ELSE iniAlerted[q]]
  OBVIOUS
<1>6. PICK since : since = [q \in Periods |-> IF q \in cs THEN NotTold ELSE told[q]]
  OBVIOUS
<1>7. PICK alerts : alerts = IF isActive THEN Alerts(quota, b, al, ts) ELSE {}
  OBVIOUS
<1>8. PICK o : o = [q \in Periods |-> IF q \in cs THEN ts[q] ELSE of[q]]
  OBVIOUS
<1>9. /\ traf' = ts
      /\ table' = [q \in Periods |-> [ks[q] EXCEPT ![ts[q]] = @ + n]]
      /\ bytes' = b
      /\ iniAlerted' = [q \in Periods |-> IF q \in alerts THEN ts[q] ELSE al[q]]
      /\ told' = [q \in Periods |-> IF q \notin alerts THEN since[q]
                    ELSE [of |-> ts[q], times |-> IF since[q].of = ts[q] THEN since[q].times + 1 ELSE 1]]
      /\ of' = o
      /\ flawed' = [q \in Periods |->
                      \/ flawed[q] /\ q \notin cs
                      \/ o[q] # ts[q]
                      \/ q \in cs /\ table[q][ts[q]] # 0
                      \/ \E s \in {ts[q], since[q].of} \cap Starts : ks[q][s] # table[q][s]]
  BY <1>1, <1>2, <1>3, <1>4, <1>5, <1>6, <1>7, <1>8, Zenon DEF LogTraffic
<1>10. p \in alerts <=> isActive /\ quota[p] # 0 /\ al[p] # t /\ b[p] > quota[p]
  BY <1>1, <1>7 DEF Alerts
<1>11. ts[p] = t /\ ks[p] = kept /\ (p \in cs <=> c)
  BY <1>1, <1>2, <1>3
<1>12. since[p] = Told(p, c) /\ al[p] = (IF c THEN 0 ELSE iniAlerted[p])
       /\ b[p] = (IF c THEN 0 ELSE bytes[p]) + n /\ o[p] = IF c THEN t ELSE of[p]
  BY <1>4, <1>5, <1>6, <1>8, <1>11 DEF Told
<1>13. flawed'[p] <=> \/ flawed[p] /\ ~ c
                      \/ o[p] # t
                      \/ c /\ table[p][t] # 0
                      \/ \E s \in {t, since[p].of} \cap Starts : kept[s] # table[p][s]
  BY <1>9, <1>11, Zenon
<1>14. flawed' \in [Periods -> BOOLEAN]
  BY <1>9, Zenon
<1>15. ~ flawed'[p] =>
         /\ c \/ ~ flawed[p]
         /\ of'[p] = t
         /\ c => table[p][t] = 0
         /\ \A s \in {t, Told(p, c).of} \cap Starts : kept[s] = table[p][s]
  BY <1>9, <1>12, <1>13, Zenon
<1>16. /\ traf'[p] = t /\ table'[p] = [kept EXCEPT ![t] = @ + n]
       /\ bytes'[p] = (IF c THEN 0 ELSE bytes[p]) + n
       /\ of'[p] = IF c THEN t ELSE of[p]
  BY <1>9, <1>11, <1>12
<1>17. iniAlerted'[p] = (IF p \in alerts THEN t ELSE al[p])
       /\ told'[p] = IF p \in alerts THEN [of |-> t, times |-> IF since[p].of = t THEN since[p].times + 1 ELSE 1]
                     ELSE since[p]
  BY <1>9, <1>11
<1>18. QED
  BY <1>9, <1>10, <1>12, <1>14, <1>15, <1>16, <1>17

LEMMA LogTrafficInv ==
  ASSUME QuotaInv, NEW h \in recordHour .. hour, NEW isActive \in BOOLEAN, LogTraffic(h, isActive)
  PROVE  QuotaInv'
<1>1. QuotaTypes /\ \A p \in Periods : PeriodInv(p)
  BY DEF QuotaInv
<1>2. PICK n \in {0, 1} : n = IF isActive THEN 1 ELSE 0
  OBVIOUS
<1>3. /\ recordHour' = h /\ m_trafHour' = h /\ checked' = isActive /\ traf' = NewTraf(h)
      /\ UNCHANGED <<hour, ini, quota>>
  BY DEF LogTraffic
<1>4. h \in FirstHour .. FirstHour + MaxHours /\ NewTraf(h) \in [Periods -> Starts]
  BY <1>1, NewTrafStarts
<1>5. Kept(h) \in [Periods -> [Starts -> Nat]]
  BY <1>1, KeptRows
<1>6. /\ DOMAIN table' = Periods /\ DOMAIN bytes' = Periods /\ DOMAIN of' = Periods
      /\ DOMAIN iniAlerted' = Periods /\ DOMAIN told' = Periods
      /\ table' = [p \in Periods |-> table'[p]] /\ bytes' = [p \in Periods |-> bytes'[p]]
      /\ of' = [p \in Periods |-> of'[p]] /\ iniAlerted' = [p \in Periods |-> iniAlerted'[p]]
      /\ told' = [p \in Periods |-> told'[p]]
  BY DEF LogTraffic
<1>7. ASSUME NEW p \in Periods
      PROVE  /\ table'[p] \in [Starts -> Nat] /\ bytes'[p] \in Nat /\ of'[p] \in Starts
             /\ iniAlerted'[p] \in Starts \cup {0} /\ told'[p] \in [of : Starts \cup {0}, times : Nat]
             /\ flawed' \in [Periods -> BOOLEAN] /\ PeriodInv(p)'
  <2>1. PICK t \in Starts : t = NewTraf(h)[p]
    BY <1>4
  <2>2. PICK kept \in [Starts -> Nat] : kept = Kept(h)[p]
    BY <1>5
  <2>3. PICK c \in BOOLEAN : c <=> p \in Cleared(h)
    OBVIOUS
  <2>4. PICK td \in [of : Starts \cup {0}, times : Nat] :
          td = Told(p, c) /\ IF c THEN td.of = 0 ELSE td = told[p]
    <3>1. told[p] \in [of : Starts \cup {0}, times : Nat] /\ NotTold \in [of : Starts \cup {0}, times : Nat]
          /\ NotTold.of = 0
      BY <1>1 DEF NotTold, QuotaTypes
    <3>2. QED
      BY <3>1 DEF Told
  <2>5. PICK al \in Starts \cup {0} : al = IF c THEN 0 ELSE iniAlerted[p]
    BY <1>1 DEF QuotaTypes
  <2>6. PICK b \in Nat : b = (IF c THEN 0 ELSE bytes[p]) + n
    <3>1. bytes[p] \in Nat
      BY <1>1 DEF QuotaTypes
    <3>2. QED
      BY <1>2, <3>1
  <2>7. PICK isAlert \in BOOLEAN : isAlert <=> isActive /\ quota[p] # 0 /\ al # t /\ b > quota[p]
    OBVIOUS
  <2>8. /\ traf'[p] = t /\ table'[p] = [kept EXCEPT ![t] = @ + n] /\ bytes'[p] = b
        /\ of'[p] = IF c THEN t ELSE of[p]
        /\ iniAlerted'[p] = IF isAlert THEN t ELSE al
        /\ told'[p] = IF isAlert THEN [of |-> t, times |-> IF td.of = t THEN td.times + 1 ELSE 1] ELSE td
        /\ ~ flawed'[p] =>
              /\ c \/ ~ flawed[p]
              /\ of'[p] = t
              /\ c => table[p][t] = 0
              /\ \A s \in {t, td.of} \cap Starts : kept[s] = table[p][s]
        /\ flawed' \in [Periods -> BOOLEAN]
    <3>1. bytes'[p] = b
      <4>1. bytes' = [q \in Periods |-> (IF q \in Cleared(h) THEN 0 ELSE bytes[q]) + (IF isActive THEN 1 ELSE 0)]
        BY DEF LogTraffic
      <4>2. QED
        BY <1>2, <2>3, <2>6, <4>1
    <3>2. QED
      BY <1>1, <1>2, <2>1, <2>2, <2>3, <2>4, <2>5, <2>6, <2>7, <3>1, LogEffects
  <2>9. table'[p] \in [Starts -> Nat] /\ table'[p][t] = kept[t] + n
        /\ \A s \in Starts : kept[s] <= table'[p][s]
    BY <1>2, <2>1, <2>2, <2>8
  <2>10. of'[p] \in Starts
    BY <1>1, <2>1, <2>8 DEF QuotaTypes
  <2>11. told'[p] \in [of : Starts \cup {0}, times : Nat]
    BY <2>1, <2>4, <2>8
  <2>12. t # 0 /\ t \in Nat
    BY <2>1, StartsArePositive
  <2>13. quota[p] \in Nat /\ bytes[p] \in Nat /\ table[p] \in [Starts -> Nat]
    BY <1>1 DEF QuotaTypes
  <2>14. PeriodInv(p)'
    <3>1. SUFFICES ASSUME ~ flawed'[p]
          PROVE  /\ b = table'[p][t]
                 /\ iniAlerted'[p] = told'[p].of
                 /\ told'[p].of # 0 => /\ told'[p].times = 1 /\ quota[p] # 0
                                       /\ table'[p][told'[p].of] > quota[p]
                 /\ isActive /\ quota[p] # 0 /\ b > quota[p] => told'[p].of = t
      BY <1>3, <2>8 DEF PeriodInv
    <3>2. /\ c \/ ~ flawed[p]
          /\ of'[p] = t
          /\ c => table[p][t] = 0
          /\ kept[t] = table[p][t]
          /\ td.of # 0 => kept[td.of] = table[p][td.of]
      BY <2>1, <2>4, <2>8, <3>1
    <3>3. /\ b = kept[t] + n
          /\ al = td.of
          /\ td.of # 0 => td.times = 1 /\ quota[p] # 0 /\ kept[td.of] > quota[p]
      <4>1. CASE c
        BY <1>2, <2>2, <2>4, <2>5, <2>6, <3>2, <4>1
      <4>2. CASE ~ c
        BY <1>1, <1>2, <2>4, <2>5, <2>6, <2>8, <3>2, <4>2 DEF PeriodInv
      <4>3. QED
        BY <4>1, <4>2
    <3>4. b = table'[p][t]
      BY <2>9, <3>3
    <3>5. CASE isAlert
      <4>1. al # t /\ b > quota[p] /\ quota[p] # 0
        BY <2>7, <3>5
      <4>2. told'[p] = [of |-> t, times |-> 1] /\ iniAlerted'[p] = t
        BY <2>8, <3>3, <3>5, <4>1
      <4>3. QED
        BY <3>4, <4>1, <4>2
    <3>6. CASE ~ isAlert
      <4>1. told'[p] = td /\ iniAlerted'[p] = al
        BY <2>8, <3>6
      <4>2. td.of # 0 => table'[p][td.of] > quota[p]
        <5>1. td.of # 0 => td.of \in Starts
          BY <2>4
        <5>2. QED
          BY <2>2, <2>9, <2>13, <3>3, <5>1
      <4>3. isActive /\ quota[p] # 0 /\ b > quota[p] => td.of = t
        BY <2>7, <3>3, <3>6
      <4>4. QED
        BY <3>3, <3>4, <4>1, <4>2, <4>3
    <3>7. QED
      BY <3>5, <3>6
  <2>15. QED
    BY <2>1, <2>5, <2>6, <2>8, <2>9, <2>10, <2>11, <2>14
<1>8. QuotaTypes'
  <2>1. hour' \in FirstHour .. FirstHour + MaxHours /\ recordHour' \in FirstHour .. hour'
    BY <1>1, <1>3, <1>4, FirstHours DEF QuotaTypes
  <2>2. table' \in [Periods -> [Starts -> Nat]] /\ bytes' \in [Periods -> Nat] /\ of' \in [Periods -> Starts]
        /\ iniAlerted' \in [Periods -> Starts \cup {0}]
        /\ told' \in [Periods -> [of : Starts \cup {0}, times : Nat]]
    BY <1>6, <1>7
  <2>3. flawed' \in [Periods -> BOOLEAN]
    BY <1>7 DEF Periods
  <2>4. QED
    BY <1>1, <1>3, <1>4, <2>1, <2>2, <2>3 DEF QuotaTypes
<1>9. QED
  BY <1>7, <1>8 DEF QuotaInv

LEMMA QuotaStepInv == QuotaInv /\ [QuotaNext]_quotaVars => QuotaInv'
<1>1. SUFFICES ASSUME QuotaInv, [QuotaNext]_quotaVars PROVE QuotaInv'
  OBVIOUS
<1>2. CASE HourPasses
  <2>1. hour' = hour + 1 /\ hour < FirstHour + MaxHours
        /\ UNCHANGED <<recordHour, ini, iniAlerted, table, m_trafHour, traf, bytes, quota, told, of, flawed, checked>>
    BY <1>2 DEF HourPasses
  <2>2. hour' \in FirstHour .. FirstHour + MaxHours /\ recordHour' \in FirstHour .. hour'
    BY <1>1, <2>1, FirstHours DEF QuotaInv, QuotaTypes
  <2>3. QuotaTypes'
    BY <1>1, <2>1, <2>2 DEF QuotaInv, QuotaTypes
  <2>4. ASSUME NEW p \in Periods PROVE PeriodInv(p)'
    BY <1>1, <2>1 DEF QuotaInv, PeriodInv
  <2>5. QED
    BY <2>3, <2>4 DEF QuotaInv
<1>3. CASE UNCHANGED quotaVars
  BY <1>1, <1>3 DEF quotaVars, QuotaInv, QuotaTypes, PeriodInv
<1>4. CASE QuotaNext
  BY <1>1, <1>2, <1>4, SaveOptionsInv, LogTrafficInv, ClearInv, StartAgainInv DEF QuotaNext
<1>5. QED
  BY <1>1, <1>3, <1>4

(* The two ways of counting agree, and what the .ini file and the user     *)
(* know of alerts, in every reachable state.                               *)
THEOREM QuotaInvariant == QuotaSpec => []QuotaInv
<1>1. QuotaInit => QuotaInv
  BY QuotaInitInv
<1>2. QuotaInv /\ [QuotaNext]_quotaVars => QuotaInv'
  BY QuotaStepInv
<1>3. QED
  BY <1>1, <1>2, PTL DEF QuotaSpec

(* The user is told once of a day, and of a month, with more traffic than  *)
(* its quota, and of no other, for any lengths of days and months, quotas, *)
(* options, records and restarts.                                          *)
THEOREM ToldOnce == QuotaSpec => []QuotaAlerts
<1>1. QuotaInv => QuotaAlerts
  <2>1. SUFFICES ASSUME QuotaInv, checked, NEW p \in Periods, quota[p] # 0, ~ flawed[p]
                 PROVE  IF table[p][traf[p]] > quota[p] THEN told[p] = [of |-> traf[p], times |-> 1]
                        ELSE told[p].of # traf[p]
    BY DEF QuotaAlerts
  <2>2. of[p] = traf[p] /\ bytes[p] = table[p][traf[p]]
        /\ (bytes[p] > quota[p] => told[p].of = traf[p])
        /\ (told[p].of # 0 => told[p].times = 1 /\ table[p][told[p].of] > quota[p])
    BY <2>1 DEF QuotaInv, PeriodInv
  <2>3. of[p] # 0 /\ told[p] \in [of : Starts \cup {0}, times : Nat]
    BY <2>1, StartsArePositive DEF QuotaInv, QuotaTypes
  <2>4. QED
    BY <2>2, <2>3
<1>2. QED
  BY <1>1, QuotaInvariant, PTL
=============================================================================
