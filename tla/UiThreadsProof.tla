--------------------------- MODULE UiThreadsProof ---------------------------
(***************************************************************************)
(* Proofs about the threads of the UI: the managers see the driver's       *)
(* records in order and without a gap whatever happens to the requests     *)
(* (ReaderInv: what was read, what the results and the request hold and    *)
(* what the driver has left are one run of numbers); and a job of a worker *)
(* pool is never left without a worker that will look at the queue, nor    *)
(* the closing owner without one that will wake it (PoolInv).              *)
(*                                                                         *)
(* And about the groups its main thread edits, of any number: those in     *)
(* use, the rows of their table and the programs of groups are in step     *)
(* (GroupsInv: the copy in the options window and the ids of the groups    *)
(* that were removed from it are the rows, those that are marked as edited *)
(* but for their content; a save, group by group, keeps what it has saved  *)
(* and leaves alone what it has not).                                      *)
(*                                                                         *)
(* And about the lines of programs in the groups, of any number: what      *)
(* wildmatch finds is what a pattern means (the loops go from its end to   *)
(* its begin: Judged says what every way to end early tells of the later   *)
(* places), and a program gets the line that is wanted for it (ProgramInv: *)
(* what the maps have of the lines, the arrays of the maps, and the search *)
(* has left of the arrays).                                                *)
(***************************************************************************)
EXTENDS HostInfo, LogReader, ConfGroups, ProgramList, SequenceLemmas, FiniteSetTheorems

-----------------------------------------------------------------------------
(* The log reader. *)

Span(m, n) == [k \in 1 .. n - m |-> m + k]

LEMMA SpanAppend ==
  ASSUME NEW m \in Nat, NEW n \in Nat, m <= n
  PROVE  Span(m, n) \in Seq(Nat) /\ Span(m, n) \o <<n + 1>> = Span(m, n + 1)
  BY DEF Span

(* A block of consecutive numbers at the head ends where the rest begins. *)
LEMMA SpanRest ==
  ASSUME NEW m \in Nat, NEW n \in Nat, m <= n, NEW a \in Seq(Nat), NEW b \in Seq(Nat),
         Joined(a, b) = Span(m, n)
  PROVE  /\ m + Len(a) <= n /\ b = Span(m + Len(a), n)
         /\ a # <<>> => Last(a) = m + Len(a)
<1>1. Len(a) \in Nat /\ Len(b) \in Nat
  OBVIOUS
<1>2. /\ Len(Joined(a, b)) = Len(a) + Len(b)
      /\ \A i \in 1 .. Len(a) + Len(b) :
           Joined(a, b)[i] = IF i <= Len(a) THEN a[i] ELSE b[i - Len(a)]
  BY ConcatProperties DEF Joined
<1>3. Len(Span(m, n)) = n - m /\ \A i \in 1 .. n - m : Span(m, n)[i] = m + i
  BY DEF Span
<1>4. Len(a) + Len(b) = n - m
  BY <1>2, <1>3
<1>5. \A i \in 1 .. Len(a) : a[i] = m + i
  BY <1>1, <1>2, <1>3, <1>4
<1>6. \A j \in 1 .. Len(b) : b[j] = (m + Len(a)) + j
  <2> TAKE j \in 1 .. Len(b)
  <2>1. j + Len(a) \in 1 .. Len(a) + Len(b) /\ ~ (j + Len(a) <= Len(a)) /\ (j + Len(a)) - Len(a) = j
    BY <1>1
  <2>2. Joined(a, b)[j + Len(a)] = b[j]
    BY <1>2, <2>1
  <2>3. Span(m, n)[j + Len(a)] = m + (j + Len(a))
    BY <1>3, <1>4, <2>1
  <2>. QED
    BY <1>1, <2>2, <2>3
<1>7. b = Span(m + Len(a), n)
  <2>1. Len(b) = n - (m + Len(a))
    BY <1>1, <1>4
  <2>2. b = [j \in 1 .. Len(b) |-> b[j]]
    OBVIOUS
  <2>. QED
    BY <1>6, <2>1, <2>2 DEF Span
<1>8. a # <<>> => Last(a) = m + Len(a)
  BY <1>1, <1>5 DEF Last
<1>. QED
  BY <1>1, <1>4, <1>7, <1>8

LEMMA Halves ==
  ASSUME NEW S, NEW s \in Seq(S), NEW n \in 0 .. Len(s)
  PROVE  /\ SubSeq(s, 1, n) \in Seq(S) /\ SubSeq(s, n + 1, Len(s)) \in Seq(S)
         /\ Joined(SubSeq(s, 1, n), SubSeq(s, n + 1, Len(s))) = s
<1>1. SubSeq(s, 1, n) \o SubSeq(s, n + 1, Len(s)) = SubSeq(s, 1, Len(s))
  <2>1. 1 \in 1 .. Len(s) + 1 /\ n \in 1 - 1 .. Len(s) /\ Len(s) \in n .. Len(s)
    OBVIOUS
  <2>. QED
    BY <2>1, ConcatAdjacentSubSeq
<1>2. SubSeq(s, 1, Len(s)) = s
  BY SubSeqFull
<1>3. SubSeq(s, 1, n) \in Seq(S) /\ SubSeq(s, n + 1, Len(s)) \in Seq(S)
  BY SubSeqProperties
<1>. QED
  BY <1>1, <1>2, <1>3 DEF Joined

(* What the results bring, then the last request, then the driver. *)
Result == [buf : Nat, ok : BOOLEAN, recs : Seq(Nat)]
RecsOf(rs) == [k \in DOMAIN rs |-> rs[k].recs]
Flow(rs, g, l) == Joined(Joined(FlattenSeq(RecsOf(rs)), g), l)

(* Between two requests there is nothing that was got. *)
ReaderInv ==
  /\ written \in Nat /\ seen \in Nat /\ seen <= written
  /\ log \in Seq(Nat) /\ results \in Seq(Result) /\ got \in [ok : BOOLEAN, recs : Seq(Nat)]
  /\ m_logBuffer \in Nat /\ allocated \in Nat /\ m_freeBuffers \subseteq Nat
  /\ reader # "done" => got = Nothing
  /\ Flow(results, got.recs, log) = Span(seen, written)

LEMMA RecsOfType ==
  ASSUME NEW rs \in Seq(Result)
  PROVE  RecsOf(rs) \in Seq(Seq(Nat)) /\ FlattenSeq(RecsOf(rs)) \in Seq(Nat)
<1>1. RecsOf(rs) \in Seq(Seq(Nat))
  <2>1. \A k \in 1 .. Len(rs) : rs[k].recs \in Seq(Nat)
    <3>1. \A k \in 1 .. Len(rs) : rs[k] \in Result
      BY ElementOfSeq
    <3>2. \A r \in Result : r.recs \in Seq(Nat)
      BY DEF Result
    <3>. QED
      BY <3>1, <3>2
  <2>2. RecsOf(rs) = [k \in 1 .. Len(rs) |-> rs[k].recs] /\ Len(rs) \in Nat
    BY DEF RecsOf
  <2>. QED
    BY <2>1, <2>2
<1>. QED
  BY <1>1, FlattenType

LEMMA RecsOfAppend ==
  ASSUME NEW rs \in Seq(Result), NEW r \in Result
  PROVE  RecsOf(Append(rs, r)) = Append(RecsOf(rs), r.recs)
  BY DEF RecsOf, Result

LEMMA RecsOfTail ==
  ASSUME NEW rs \in Seq(Result), rs # <<>>
  PROVE  /\ RecsOf(Tail(rs)) = Tail(RecsOf(rs)) /\ RecsOf(rs) # <<>>
         /\ RecsOf(rs)[1] = Head(rs).recs /\ Head(rs) \in Result
<1>1. /\ Tail(rs) \in Seq(Result) /\ Len(Tail(rs)) = Len(rs) - 1 /\ Len(rs) \in Nat \ {0}
      /\ \A k \in 1 .. Len(rs) - 1 : Tail(rs)[k] = rs[k + 1]
      /\ Head(rs) = rs[1] /\ 1 \in DOMAIN rs
  BY HeadTailProperties
<1>2. /\ RecsOf(rs) \in Seq(Seq(Nat)) /\ Len(RecsOf(rs)) = Len(rs)
      /\ \A k \in 1 .. Len(rs) : RecsOf(rs)[k] = rs[k].recs
  BY RecsOfType DEF RecsOf
<1>3. /\ RecsOf(Tail(rs)) \in Seq(Seq(Nat)) /\ Len(RecsOf(Tail(rs))) = Len(rs) - 1
      /\ \A k \in 1 .. Len(rs) - 1 : RecsOf(Tail(rs))[k] = Tail(rs)[k].recs
  <2>. DEFINE t == Tail(rs)
  <2>1. t \in Seq(Result) /\ Len(t) = Len(rs) - 1
    BY <1>1
  <2>. HIDE DEF t
  <2>2. RecsOf(t) \in Seq(Seq(Nat))
    BY <2>1, RecsOfType
  <2>3. RecsOf(t) = [k \in 1 .. Len(rs) - 1 |-> t[k].recs]
    BY <2>1 DEF RecsOf
  <2>4. Len(RecsOf(t)) = Len(rs) - 1 /\ \A k \in 1 .. Len(rs) - 1 : RecsOf(t)[k] = t[k].recs
    BY <1>1, <2>3
  <2>. QED
    BY <2>2, <2>4, Zenon DEF t
<1>4. RecsOf(rs) # <<>>
  BY <1>1, <1>2
<1>5. /\ Tail(RecsOf(rs)) \in Seq(Seq(Nat)) /\ Len(Tail(RecsOf(rs))) = Len(rs) - 1
      /\ \A k \in 1 .. Len(rs) - 1 : Tail(RecsOf(rs))[k] = RecsOf(rs)[k + 1]
  BY <1>2, <1>4, HeadTailProperties
<1>6. \A k \in 1 .. Len(rs) - 1 : k + 1 \in 1 .. Len(rs)
  BY <1>1
<1>7. \A k \in 1 .. Len(rs) - 1 : RecsOf(Tail(rs))[k] = Tail(RecsOf(rs))[k]
  BY <1>1, <1>2, <1>3, <1>5, <1>6
<1>8. RecsOf(Tail(rs)) = Tail(RecsOf(rs))
  BY <1>3, <1>5, <1>7, SeqEqual
<1>. QED
  BY <1>1, <1>2, <1>4, <1>8

(* A step that leaves the records where they are. *)
LEMMA ReaderKept ==
  ASSUME ReaderInv, UNCHANGED <<written, log, results, seen, got>>,
         reader' # "done" => got = Nothing,
         m_logBuffer' \in Nat, allocated' \in Nat, m_freeBuffers' \subseteq Nat
  PROVE  ReaderInv'
  BY DEF ReaderInv

LEMMA ReadLogAsyncType ==
  ASSUME ReaderInv, NEW back \in SUBSET Nat, ReadLogAsync(back)
  PROVE  /\ m_logBuffer' \in Nat /\ allocated' \in Nat /\ m_freeBuffers' \subseteq Nat
         /\ reader' # "done" => reader # "done"
<1>. DEFINE isNew == m_freeBuffers = {}
            b == IF isNew THEN allocated + 1 ELSE CHOOSE x \in m_freeBuffers : TRUE
<1>1. b \in Nat
  <2>. DEFINE c == CHOOSE x \in m_freeBuffers : TRUE
  <2>1. m_freeBuffers # {} => c \in m_freeBuffers
    BY Zenon
  <2>. HIDE DEF c
  <2>2. m_freeBuffers # {} => c \in Nat
    BY <2>1 DEF ReaderInv
  <2>3. allocated + 1 \in Nat
    BY DEF ReaderInv
  <2>4. b = IF isNew THEN allocated + 1 ELSE c
    BY DEF c
  <2>. QED
    BY <2>2, <2>3, <2>4
<1>2. /\ allocated' = IF isNew THEN allocated + 1 ELSE allocated
      /\ m_logBuffer' = IF Uses THEN b ELSE m_logBuffer
      /\ m_freeBuffers' = (IF Uses THEN m_freeBuffers \ {b} ELSE m_freeBuffers \cup {b}) \cup back
  BY DEF ReadLogAsync
<1>3. reader' # "done" => reader # "done"
  BY DEF ReadLogAsync, Wake
<1>. HIDE DEF b
<1>. QED
  BY <1>1, <1>2, <1>3 DEF ReaderInv

(* A request is answered with the first records of the driver. *)
LEMMA AnsweredInv ==
  ASSUME ReaderInv, reader = "reading", NEW n \in 0 .. Len(log), Answered(n),
         UNCHANGED <<written, results, seen, m_logBuffer, allocated, m_freeBuffers>>
  PROVE  ReaderInv'
<1>. DEFINE a == SubSeq(log, 1, n)
            b == SubSeq(log, n + 1, Len(log))
            f == FlattenSeq(RecsOf(results))
<1>1. /\ a \in Seq(Nat) /\ b \in Seq(Nat) /\ Joined(a, b) = log /\ f \in Seq(Nat)
      /\ got = Nothing /\ Flow(results, got.recs, log) = Span(seen, written)
  BY Halves, RecsOfType DEF ReaderInv
<1>2. got' = [ok |-> n > 0, recs |-> a] /\ log' = b /\ reader' = "done"
  BY DEF Answered
<1>. HIDE DEF a, b, f
<1>3. Flow(results, got.recs, log) = Joined(f, Joined(a, b))
  BY <1>1, JoinedEmpty DEF Flow, Nothing, f
<1>4. Flow(results, a, b) = Joined(f, Joined(a, b))
  BY <1>1, JoinedAssoc DEF Flow, f
<1>5. got' \in [ok : BOOLEAN, recs : Seq(Nat)] /\ got'.recs = a
  BY <1>1, <1>2
<1>. QED
  BY <1>1, <1>2, <1>3, <1>4, <1>5 DEF ReaderInv

LEMMA WriteRecordInv ==
  ASSUME ReaderInv, WriteRecord
  PROVE  ReaderInv'
<1>. DEFINE a == Joined(FlattenSeq(RecsOf(results)), got.recs)
<1>1. /\ written' = written + 1 /\ log' = Append(log, written + 1)
      /\ UNCHANGED <<results, seen, got, reader, m_logBuffer, allocated, m_freeBuffers>>
  BY DEF WriteRecord, mainVars, workerVars
<1>. DEFINE x == <<written + 1>>
<1>2. a \in Seq(Nat) /\ log \in Seq(Nat) /\ x \in Seq(Nat) /\ written + 1 \in Nat
  BY RecsOfType, JoinedType DEF ReaderInv
<1>3. log' = Joined(log, x)
  BY <1>1, <1>2, AppendIsConcat DEF Joined
<1>5. Joined(Span(seen, written), x) = Span(seen, written + 1)
  BY SpanAppend DEF ReaderInv, Joined
<1>. HIDE DEF a, x
<1>4. Joined(Joined(a, log), x) = Joined(a, Joined(log, x))
  BY <1>2, JoinedAssoc
<1>6. Flow(results, got.recs, log)' = Span(seen, written)'
  BY <1>1, <1>3, <1>4, <1>5 DEF ReaderInv, Flow, a
<1>7. written' \in Nat /\ seen' <= written' /\ log' \in Seq(Nat)
  BY <1>1, <1>2 DEF ReaderInv
<1>. QED
  BY <1>1, <1>6, <1>7 DEF ReaderInv

LEMMA EmitInv ==
  ASSUME ReaderInv, EmitReadLogResult
  PROVE  ReaderInv'
<1>. DEFINE r == [buf |-> m_logBuffer, ok |-> got.ok, recs |-> got.recs]
<1>1. /\ results' = Append(results, r) /\ got' = Nothing /\ m_logBuffer' = NoBuffer
      /\ UNCHANGED <<written, log, seen, allocated, m_freeBuffers>>
  BY DEF EmitReadLogResult, Outcome, driverVars, mainVars
<1>2. r \in Result /\ r.recs = got.recs /\ got.recs \in Seq(Nat) /\ log \in Seq(Nat)
  BY DEF ReaderInv, Result
<1>. HIDE DEF r
<1>3. FlattenSeq(RecsOf(results')) = Joined(FlattenSeq(RecsOf(results)), got.recs)
  BY <1>1, <1>2, RecsOfType, RecsOfAppend, FlattenAppend DEF ReaderInv, Joined
<1>4. Joined(Joined(FlattenSeq(RecsOf(results)), got.recs), <<>>)
        = Joined(FlattenSeq(RecsOf(results)), got.recs)
  BY <1>2, RecsOfType, JoinedType, JoinedEmpty DEF ReaderInv
<1>5. got'.recs = <<>> /\ got' \in [ok : BOOLEAN, recs : Seq(Nat)]
  BY <1>1 DEF Nothing
<1>6. Flow(results, got.recs, log)' = Flow(results, got.recs, log)
  BY <1>1, <1>3, <1>4, <1>5 DEF Flow
<1>7. results' \in Seq(Result) /\ m_logBuffer' \in Nat
  BY <1>1, <1>2 DEF ReaderInv, NoBuffer
<1>. QED
  BY <1>1, <1>5, <1>6, <1>7 DEF ReaderInv, Span

LEMMA ProcessInv ==
  ASSUME ReaderInv, ProcessLogBuffer
  PROVE  ReaderInv'
<1>. DEFINE r == Head(results)
            f == FlattenSeq(RecsOf(Tail(results)))
<1>1. /\ results # <<>> /\ results' = Tail(results)
      /\ seen' = IF r.recs = <<>> THEN seen ELSE Last(r.recs)
      /\ UNCHANGED <<written, log, got>>
  BY DEF ProcessLogBuffer, driverVars
<1>2. /\ r \in Result /\ r.recs \in Seq(Nat) /\ r.buf \in Nat /\ results' \in Seq(Result)
      /\ RecsOf(Tail(results)) = Tail(RecsOf(results)) /\ RecsOf(results) # <<>>
      /\ RecsOf(results)[1] = r.recs /\ RecsOf(results) \in Seq(Seq(Nat))
  <2>1. results \in Seq(Result)
    BY DEF ReaderInv
  <2>2. r \in Result /\ Tail(results) \in Seq(Result)
    BY <1>1, <2>1, HeadTailProperties
  <2>3. r.recs \in Seq(Nat) /\ r.buf \in Nat
    BY <2>2 DEF Result
  <2>4. /\ RecsOf(Tail(results)) = Tail(RecsOf(results)) /\ RecsOf(results) # <<>>
        /\ RecsOf(results)[1] = r.recs /\ RecsOf(results) \in Seq(Seq(Nat))
    BY <1>1, <2>1, RecsOfTail, RecsOfType
  <2>. QED
    BY <1>1, <2>2, <2>3, <2>4
<1>3. /\ m_logBuffer' \in Nat /\ allocated' \in Nat /\ m_freeBuffers' \subseteq Nat
      /\ reader' # "done" => reader # "done"
  <2>1. CASE ReadLogAsync({r.buf})
    BY <1>2, <2>1, ReadLogAsyncType
  <2>2. CASE m_freeBuffers' = m_freeBuffers \cup {r.buf} /\ UNCHANGED <<allocated, m_logBuffer, reader>>
    BY <1>2, <2>2 DEF ReaderInv
  <2>. QED
    BY <2>1, <2>2 DEF ProcessLogBuffer
<1>. HIDE DEF r
<1>4. FlattenSeq(RecsOf(results)) = Joined(r.recs, f)
  BY <1>2, FlattenHeadTail DEF Joined
<1>5. f \in Seq(Nat) /\ got.recs \in Seq(Nat) /\ log \in Seq(Nat)
  BY <1>1, <1>2, RecsOfType DEF ReaderInv
<1>. HIDE DEF f
<1>6. Flow(results, got.recs, log) = Joined(r.recs, Joined(Joined(f, got.recs), log))
  <2>1. Joined(Joined(r.recs, f), got.recs) = Joined(r.recs, Joined(f, got.recs))
    BY <1>2, <1>5, JoinedAssoc
  <2>2. Joined(f, got.recs) \in Seq(Nat)
    BY <1>5, JoinedType
  <2>3. Joined(Joined(r.recs, Joined(f, got.recs)), log) = Joined(r.recs, Joined(Joined(f, got.recs), log))
    BY <1>2, <1>5, <2>2, JoinedAssoc
  <2>. QED
    BY <1>4, <2>1, <2>3 DEF Flow
<1>. DEFINE rest == Joined(Joined(f, got.recs), log)
<1>7. rest \in Seq(Nat)
  BY <1>5, JoinedType
<1>8. Joined(r.recs, rest) = Span(seen, written) /\ seen \in Nat /\ written \in Nat /\ seen <= written
  BY <1>6 DEF ReaderInv
<1>. HIDE DEF rest
<1>9. /\ seen + Len(r.recs) <= written /\ rest = Span(seen + Len(r.recs), written)
      /\ r.recs # <<>> => Last(r.recs) = seen + Len(r.recs)
  BY <1>2, <1>7, <1>8, SpanRest
<1>10. seen' = seen + Len(r.recs) /\ seen' \in Nat
  <2>1. r.recs = <<>> => Len(r.recs) = 0
    OBVIOUS
  <2>2. Len(r.recs) \in Nat
    BY <1>2
  <2>. QED
    BY <1>1, <1>8, <1>9, <2>1, <2>2
<1>11. Flow(results, got.recs, log)' = Span(seen, written)'
  BY <1>1, <1>9, <1>10 DEF Flow, f, rest
<1>12. reader' # "done" => got' = Nothing
  BY <1>1, <1>3 DEF ReaderInv
<1>13. written' \in Nat /\ seen' <= written' /\ log' \in Seq(Nat) /\ got' \in [ok : BOOLEAN, recs : Seq(Nat)]
  BY <1>1, <1>9, <1>10 DEF ReaderInv
<1>. QED
  BY <1>2, <1>3, <1>10, <1>11, <1>12, <1>13 DEF ReaderInv

LEMMA CancelAsyncIoInv ==
  ASSUME ReaderInv, NEW then, CancelAsyncIo(then)
  PROVE  ReaderInv'
<1>1. UNCHANGED <<written, results, seen, m_logBuffer, allocated, m_freeBuffers>>
  BY DEF CancelAsyncIo
<1>2. CASE reader = "reading" /\ Answered(Len(log))
  <2>1. Len(log) \in 0 .. Len(log)
    BY DEF ReaderInv
  <2>. QED
    BY <1>1, <1>2, <2>1, AnsweredInv
<1>3. CASE UNCHANGED <<reader, got, log>>
  BY <1>1, <1>3, ReaderKept DEF ReaderInv
<1>. QED
  BY <1>2, <1>3 DEF CancelAsyncIo, CancelIo

LEMMA ReaderStep == ReaderInv /\ [Next]_vars => ReaderInv'
<1> SUFFICES ASSUME ReaderInv, [Next]_vars PROVE ReaderInv'
  OBVIOUS
<1>. USE DEF driverVars, mainVars, workerVars
<1>0. /\ m_logBuffer \in Nat /\ allocated \in Nat /\ m_freeBuffers \subseteq Nat
      /\ reader # "done" => got = Nothing
  BY DEF ReaderInv
<1>1. CASE UNCHANGED vars
  BY <1>0, <1>1, ReaderKept DEF vars
<1>2. CASE WriteRecord
  BY <1>2, WriteRecordInv
<1>3. CASE Complete
  <2>1. PICK n \in 1 .. Len(log) : Answered(n)
    BY <1>3 DEF Complete
  <2>2. n \in 0 .. Len(log)
    BY DEF ReaderInv
  <2>. QED
    BY <1>3, <2>1, <2>2, AnsweredInv DEF Complete
<1>4. CASE WaitLogBuffer
  BY <1>0, <1>4, ReaderKept DEF WaitLogBuffer
<1>5. CASE ReadLog
  <2>1. got = Nothing /\ UNCHANGED got
    BY <1>0, <1>5 DEF ReadLog
  <2>. QED
    BY <1>0, <1>5, <2>1, ReaderKept DEF ReadLog
<1>6. CASE EmitReadLogResult
  BY <1>6, EmitInv
<1>7. CASE Activate
  <2>1. ReadLogAsync({}) /\ UNCHANGED <<driverVars, results, seen, got>>
    BY <1>7 DEF Activate
  <2>2. {} \in SUBSET Nat
    OBVIOUS
  <2>3. /\ m_logBuffer' \in Nat /\ allocated' \in Nat /\ m_freeBuffers' \subseteq Nat
        /\ reader' # "done" => reader # "done"
    BY <2>1, <2>2, ReadLogAsyncType
  <2>. QED
    BY <1>0, <2>1, <2>3, ReaderKept
<1>8. ASSUME NEW then, Deactivate(then) PROVE ReaderInv'
  BY <1>8, CancelAsyncIoInv DEF Deactivate
<1>9. CASE BeginWrite
  BY <1>9, CancelAsyncIoInv DEF BeginWrite
<1>10. CASE BeginClose \/ Cancelled \/ CloseDevice \/ OpenDevice \/ Abort
  BY <1>0, <1>10, ReaderKept DEF BeginClose, Cancelled, CloseDevice, OpenDevice, Abort
<1>11. CASE EndWrite \/ EndClose
  BY <1>0, <1>11, ReaderKept DEF EndWrite, EndClose, Wake
<1>12. CASE ProcessLogBuffer
  BY <1>12, ProcessInv
<1>. QED
  BY <1>1, <1>2, <1>3, <1>4, <1>5, <1>6, <1>7, <1>8, <1>9, <1>10, <1>11, <1>12 DEF Next, Reader

LEMMA ReaderInit == Init => ReaderInv
<1> SUFFICES ASSUME Init PROVE ReaderInv
  OBVIOUS
<1>1. RecsOf(results) = <<>>
  BY DEF Init, RecsOf
<1>2. Flow(results, got.recs, log) = Span(seen, written)
  BY <1>1, FlattenEmpty DEF Init, Flow, Joined, Span, Nothing
<1>. QED
  BY <1>2 DEF Init, ReaderInv, Nothing, NoBuffer

(* Cancelled, failed or switched off and on: the managers see the records  *)
(* in the order the driver wrote them, without a gap.                      *)
THEOREM RecordsAreInOrder == Spec => []RecordsInOrder
<1>1. ReaderInv => RecordsInOrder
  BY DEF ReaderInv, RecordsInOrder, Flow, Joined, Span, RecsOf
<1>. QED
  BY <1>1, ReaderInit, ReaderStep, PTL DEF Spec

-----------------------------------------------------------------------------
(* The worker threads. *)

WorkerPlaces == {"none", "ready", "waiting", "expired", "working", "leaving"}
Awake == In("ready") \cup In("expired")

(* The owner waits for a worker, and has none left when it is closed.  In  *)
(* the code this is what makes wakeOne reach it: one condition variable    *)
(* serves it and the workers.                                              *)
OwnerHasWorker ==
  /\ owner = "waiting" => m_workers # {}
  /\ owner = "closed" => m_workers = {}

WorkersBounded == Cardinality(m_workers) <= MaxWorkers

PoolInv ==
  /\ m_jobQueue \in Seq(Jobs) /\ worker \in [Workers -> WorkerPlaces]
  /\ WorkersBounded
  /\ aborted => owner \in {"waiting", "closed"}
  /\ OwnerHasWorker
  /\ JobHasWorker

LEMMA InFinite ==
  ASSUME NEW T \in SUBSET Workers
  PROVE  IsFiniteSet(T) /\ Cardinality(T) \in Nat
  BY PoolAssumption, FS_Subset, FS_CardinalityType DEF PoolAssumption

(* More threads awake for one more job. *)
LEMMA AwakeGrows ==
  ASSUME NEW T \in SUBSET Workers, NEW U \in SUBSET Workers, NEW w, T \cup {w} \subseteq U, w \notin T
  PROVE  Cardinality(T) + 1 <= Cardinality(U)
<1>1. IsFiniteSet(T) /\ IsFiniteSet(U)
  BY InFinite
<1>2. Cardinality(T \cup {w}) = Cardinality(T) + 1 /\ IsFiniteSet(T \cup {w})
  BY <1>1, FS_AddElement
<1>3. Cardinality(T \cup {w}) <= Cardinality(U)
  BY <1>1, FS_Subset
<1>. QED
  BY <1>2, <1>3

(* Another job: at is where the workers are once one has been started for  *)
(* it, or not.                                                             *)
LEMMA WakeOneFacts ==
  ASSUME NEW at \in [Workers -> WorkerPlaces], NEW new \in WakeOne(at)
  PROVE  /\ new \in [Workers -> WorkerPlaces]
         /\ \A w \in Workers : new[w] = at[w] \/ (at[w] = "waiting" /\ new[w] = "ready")
         /\ (\A w \in Workers : at[w] # "waiting")
            \/ \E w \in Workers : at[w] = "waiting" /\ new[w] = "ready"
<1>. DEFINE waiting == { v \in Workers : at[v] = "waiting" }
<1>1. CASE waiting = {}
  BY <1>1 DEF WakeOne
<1>2. CASE waiting # {}
  <2>1. PICK w \in waiting : new = [at EXCEPT ![w] = "ready"]
    BY <1>2 DEF WakeOne
  <2>. QED
    BY <2>1 DEF WorkerPlaces
<1>. QED
  BY <1>1, <1>2

LEMMA EnqueueJobInv ==
  ASSUME PoolInv, NEW j \in Jobs, owner = "open", EnqueueJob(j)
  PROVE  PoolInv'
<1>1. /\ worker \in [Workers -> WorkerPlaces] /\ m_jobQueue \in Seq(Jobs)
      /\ m_jobQueue' = Append(m_jobQueue, j) /\ UNCHANGED <<aborted, owner>> /\ ~ aborted
      /\ missed' = (m_workers # {} /\ \A w \in Workers : worker'[w] \in {"none", "leaving"})
  BY DEF PoolInv, EnqueueJob
<1>2. m_jobQueue' \in Seq(Jobs) /\ Len(m_jobQueue') = Len(m_jobQueue) + 1 /\ Len(m_jobQueue) \in Nat
  BY <1>1, AppendProperties
<1>3. /\ worker' \in [Workers -> WorkerPlaces] /\ WorkersBounded'
      /\ missed' \/ (m_workers # In("leaving"))'
      /\ In("waiting")' # {} => Cardinality(Awake) + 1 <= Cardinality(Awake') /\ In("waiting") # {}
  <2>1. CASE Starts
    <3>1. PICK w \in In("none") : worker' \in WakeOne([worker EXCEPT ![w] = "ready"])
      BY <2>1 DEF EnqueueJob
    <3>. DEFINE at == [worker EXCEPT ![w] = "ready"]
    <3>2. at \in [Workers -> WorkerPlaces] /\ w \in Workers /\ worker[w] = "none" /\ at[w] = "ready"
          /\ \A v \in Workers \ {w} : at[v] = worker[v]
      BY <1>1, <3>1 DEF WorkerPlaces, In
    <3>. HIDE DEF at
    <3>3. /\ worker' \in [Workers -> WorkerPlaces]
          /\ \A v \in Workers : worker'[v] = at[v] \/ (at[v] = "waiting" /\ worker'[v] = "ready")
      BY <3>1, <3>2, WakeOneFacts, ZenonT(60) DEF at
    <3>4. worker'[w] = "ready"
      BY <3>2, <3>3
    <3>5. m_workers' = m_workers \cup {w} /\ w \notin m_workers
      BY <3>2, <3>3, <3>4 DEF m_workers
    <3>6. WorkersBounded'
      <4>1. IsFiniteSet(m_workers) /\ Cardinality(m_workers) \in Nat
        BY InFinite DEF m_workers
      <4>2. Cardinality(m_workers') = Cardinality(m_workers) + 1
        BY <3>5, <4>1, FS_AddElement
      <4>3. m_workers = {} => Cardinality(m_workers) = 0
        BY FS_EmptySet
      <4>. QED
        BY <2>1, <4>1, <4>2, <4>3, PoolAssumption DEF PoolAssumption, Starts, WorkersBounded
    <3>7. (m_workers # In("leaving"))'
      BY <3>2, <3>4 DEF m_workers, In
    <3>8. Cardinality(Awake) + 1 <= Cardinality(Awake')
      <4>1. Awake \cup {w} \subseteq Awake' /\ w \notin Awake /\ Awake' \subseteq Workers /\ Awake \subseteq Workers
        BY <3>2, <3>3, <3>4 DEF Awake, In
      <4>. QED
        BY <4>1, AwakeGrows
    <3>9. In("waiting")' # {} => In("waiting") # {}
      BY <3>2, <3>3 DEF In
    <3>. QED
      BY <3>3, <3>6, <3>7, <3>8, <3>9
  <2>2. CASE ~ Starts
    <3>1. worker' \in WakeOne(worker)
      BY <2>2 DEF EnqueueJob
    <3>2. /\ worker' \in [Workers -> WorkerPlaces]
          /\ \A w \in Workers : worker'[w] = worker[w] \/ (worker[w] = "waiting" /\ worker'[w] = "ready")
          /\ (\A w \in Workers : worker[w] # "waiting")
             \/ \E w \in Workers : worker[w] = "waiting" /\ worker'[w] = "ready"
      BY <1>1, <3>1, WakeOneFacts
    <3>3. m_workers' = m_workers /\ m_workers # {}
      BY <2>2, <3>2 DEF m_workers, Starts
    <3>4. WorkersBounded'
      BY <3>3 DEF WorkersBounded, PoolInv
    <3>5. missed' \/ (m_workers # In("leaving"))'
      BY <1>1, <3>2, <3>3 DEF m_workers, In, WorkerPlaces
    <3>6. ASSUME In("waiting")' # {}
          PROVE  Cardinality(Awake) + 1 <= Cardinality(Awake') /\ In("waiting") # {}
      <4>1. PICK w \in Workers : worker[w] = "waiting" /\ worker'[w] = "ready"
        BY <3>2, <3>6 DEF In
      <4>2. Awake \cup {w} \subseteq Awake' /\ w \notin Awake /\ Awake' \subseteq Workers /\ Awake \subseteq Workers
        BY <3>2, <4>1 DEF Awake, In
      <4>3. In("waiting") # {}
        BY <4>1 DEF In
      <4>. QED
        BY <4>2, <4>3, AwakeGrows
    <3>. QED
      BY <3>2, <3>4, <3>5, <3>6
  <2>. QED
    BY <2>1, <2>2
<1>4. ASSUME In("waiting")' # {}
      PROVE  Len(m_jobQueue') <= Cardinality(Awake')
  <2>1. Cardinality(Awake) \in Nat /\ Cardinality(Awake') \in Nat
    BY InFinite DEF Awake, In
  <2>2. Len(m_jobQueue) <= Cardinality(Awake)
    <3>1. CASE m_jobQueue = <<>>
      BY <2>1, <3>1
    <3>2. CASE m_jobQueue # <<>>
      BY <1>1, <1>3, <1>4, <3>2 DEF PoolInv, JobHasWorker, Awake
    <3>. QED
      BY <3>1, <3>2
  <2>. QED
    BY <1>2, <1>3, <1>4, <2>1, <2>2
<1>5. JobHasWorker'
  BY <1>3, <1>4 DEF JobHasWorker, Awake
<1>6. OwnerHasWorker'
  BY <1>1 DEF OwnerHasWorker
<1>. QED
  BY <1>1, <1>2, <1>3, <1>5, <1>6 DEF PoolInv

LEMMA AbortWorkersInv ==
  ASSUME PoolInv, AbortWorkers
  PROVE  PoolInv'
<1>1. /\ worker \in [Workers -> WorkerPlaces] /\ aborted' = TRUE /\ m_jobQueue' = m_jobQueue
      /\ worker' = [w \in Workers |-> IF worker[w] = "waiting" THEN "ready" ELSE worker[w]]
      /\ owner' = IF m_workers = {} THEN "closed" ELSE "waiting"
  BY DEF PoolInv, AbortWorkers
<1>2. worker' \in [Workers -> WorkerPlaces] /\ m_workers' = m_workers
  BY <1>1 DEF WorkerPlaces, m_workers
<1>. QED
  BY <1>1, <1>2 DEF PoolInv, WorkersBounded, OwnerHasWorker, JobHasWorker

LEMMA DequeueJobInv ==
  ASSUME PoolInv, NEW w \in Workers, DequeueJob(w)
  PROVE  PoolInv'
<1>1. /\ worker \in [Workers -> WorkerPlaces] /\ m_jobQueue \in Seq(Jobs)
      /\ worker[w] \in {"ready", "expired"} /\ UNCHANGED <<aborted, owner, missed>>
  BY DEF PoolInv, DequeueJob
<1>2. PICK p \in {"working", "leaving", "waiting"} : worker' = [worker EXCEPT ![w] = p]
  BY DEF DequeueJob
<1>3. worker' \in [Workers -> WorkerPlaces] /\ m_workers' = m_workers
  BY <1>1, <1>2 DEF WorkerPlaces, m_workers
<1>4. CASE Takes(w)
  <2>1. m_jobQueue # <<>> /\ m_jobQueue' = Tail(m_jobQueue) /\ worker'[w] = "working" /\ ~ aborted
    BY <1>1, <1>4 DEF DequeueJob, Takes
  <2>2. m_jobQueue' \in Seq(Jobs) /\ Len(m_jobQueue') = Len(m_jobQueue) - 1 /\ Len(m_jobQueue) \in Nat
    BY <1>1, <2>1, HeadTailProperties
  <2>3. (m_workers # In("leaving"))'
    BY <1>3, <2>1 DEF m_workers, In
  <2>4. Cardinality(Awake') = Cardinality(Awake) - 1 /\ Cardinality(Awake) \in Nat
    <3>1. Awake' = Awake \ {w} /\ w \in Awake /\ Awake \subseteq Workers
      BY <1>1, <1>2, <2>1 DEF Awake, In
    <3>. QED
      BY <3>1, InFinite, FS_RemoveElement
  <2>5. In("waiting")' # {} => In("waiting") # {}
    BY <1>1, <1>2, <2>1 DEF In
  <2>6. In("waiting") # {} => Len(m_jobQueue) <= Cardinality(Awake)
    BY <2>1 DEF PoolInv, JobHasWorker, Awake
  <2>7. In("waiting")' # {} => Len(m_jobQueue') <= Cardinality(Awake')
    BY <2>2, <2>4, <2>5, <2>6
  <2>8. JobHasWorker'
    BY <2>3, <2>7 DEF JobHasWorker, Awake
  <2>. QED
    BY <1>1, <1>3, <2>2, <2>8 DEF PoolInv, WorkersBounded, OwnerHasWorker
<1>5. CASE ~ Takes(w)
  <2>1. m_jobQueue' = m_jobQueue /\ (aborted \/ m_jobQueue = <<>>)
    BY <1>5 DEF DequeueJob, Takes
  <2>. QED
    BY <1>1, <1>3, <2>1 DEF PoolInv, WorkersBounded, OwnerHasWorker, JobHasWorker
<1>. QED
  BY <1>4, <1>5

(* A worker that begins to look at the queue. *)
LEMMA LooksAgainInv ==
  ASSUME PoolInv, NEW w \in Workers, worker[w] \in {"waiting", "working"},
         NEW p \in {"ready", "expired"}, worker' = [worker EXCEPT ![w] = p],
         UNCHANGED <<m_jobQueue, aborted, owner, missed>>
  PROVE  PoolInv'
<1>1. worker \in [Workers -> WorkerPlaces]
  BY DEF PoolInv
<1>2. worker' \in [Workers -> WorkerPlaces] /\ m_workers' = m_workers /\ worker'[w] = p
  BY <1>1 DEF WorkerPlaces, m_workers
<1>3. (m_workers # In("leaving"))'
  BY <1>2 DEF m_workers, In
<1>4. Cardinality(Awake) <= Cardinality(Awake') /\ Cardinality(Awake) \in Nat /\ Cardinality(Awake') \in Nat
  <2>1. Awake \subseteq Awake' /\ Awake' \subseteq Workers /\ Awake \subseteq Workers
    BY <1>1 DEF Awake, In
  <2>. QED
    BY <2>1, InFinite, FS_Subset
<1>5. In("waiting")' # {} => In("waiting") # {}
  BY <1>1 DEF In
<1>6. m_jobQueue \in Seq(Jobs) /\ Len(m_jobQueue) \in Nat
  BY DEF PoolInv
<1>7. JobHasWorker'
  BY <1>3, <1>4, <1>5, <1>6 DEF PoolInv, JobHasWorker, Awake
<1>. QED
  BY <1>2, <1>7 DEF PoolInv, WorkersBounded, OwnerHasWorker

LEMMA WorkerFinishedInv ==
  ASSUME PoolInv, NEW w \in Workers, WorkerFinished(w)
  PROVE  PoolInv'
<1>1. /\ worker \in [Workers -> WorkerPlaces] /\ worker[w] = "leaving"
      /\ worker' = [worker EXCEPT ![w] = "none"]
      /\ owner' = IF owner = "waiting" /\ m_workers \ {w} = {} THEN "closed" ELSE owner
      /\ UNCHANGED <<m_jobQueue, aborted, missed>>
  BY DEF PoolInv, WorkerFinished, WakesOwner
<1>2. worker' \in [Workers -> WorkerPlaces] /\ m_workers' = m_workers \ {w} /\ w \in m_workers
      /\ In("leaving")' = In("leaving") \ {w} /\ w \in In("leaving")
      /\ In("waiting")' = In("waiting") /\ Awake' = Awake
  BY <1>1 DEF WorkerPlaces, m_workers, In, Awake
<1>3. WorkersBounded'
  <2>1. IsFiniteSet(m_workers) /\ Cardinality(m_workers) \in Nat /\ m_workers' \subseteq m_workers
    BY <1>2, InFinite DEF m_workers
  <2>2. Cardinality(m_workers') <= Cardinality(m_workers) /\ Cardinality(m_workers') \in Nat
    BY <2>1, FS_Subset, FS_CardinalityType
  <2>. QED
    BY <2>1, <2>2, PoolAssumption DEF PoolAssumption, PoolInv, WorkersBounded
<1>4. m_workers # In("leaving") => m_workers' # In("leaving")'
  BY <1>2
<1>5. JobHasWorker'
  BY <1>1, <1>2, <1>4 DEF PoolInv, JobHasWorker, Awake
<1>6. OwnerHasWorker'
  BY <1>1, <1>2 DEF PoolInv, OwnerHasWorker
<1>. QED
  BY <1>1, <1>2, <1>3, <1>5, <1>6 DEF PoolInv

LEMMA PoolStep == PoolInv /\ [HostNext]_hostVars => PoolInv'
<1> SUFFICES ASSUME PoolInv, [HostNext]_hostVars PROVE PoolInv'
  OBVIOUS
<1>0. ASSUME UNCHANGED <<worker, aborted, missed, m_jobQueue, owner>>
      PROVE  PoolInv'
  BY <1>0 DEF PoolInv, WorkersBounded, OwnerHasWorker, JobHasWorker, m_workers, In
<1>1. CASE UNCHANGED hostVars
  BY <1>0, <1>1 DEF hostVars, poolVars
<1>2. ASSUME NEW a \in Jobs, HostName(a) PROVE PoolInv'
  BY <1>2, EnqueueJobInv DEF HostName
<1>3. CASE Clear \/ Destroy
  <2>1. PoolInv /\ owner = "open" /\ m_jobQueue' = <<>> /\ missed' = FALSE /\ owner' \in {"open", "closing"}
        /\ UNCHANGED <<worker, aborted>>
    BY <1>3 DEF Clear, Destroy, ClearJobs
  <2>2. m_jobQueue' \in Seq(Jobs)
    BY <2>1
  <2>. QED
    BY <2>1, <2>2 DEF PoolInv, WorkersBounded, OwnerHasWorker, JobHasWorker, m_workers
<1>4. CASE HandleFinishedLookup
  BY <1>0, <1>4 DEF HandleFinishedLookup
<1>5. CASE AbortWorkers
  BY <1>5, AbortWorkersInv
<1>6. ASSUME NEW w \in Workers, Run(w) PROVE PoolInv'
  <2>1. CASE DequeueJob(w)
    BY <2>1, DequeueJobInv
  <2>2. CASE Expire(w)
    BY <2>2, LooksAgainInv DEF Expire
  <2>3. CASE DoJob(w)
    BY <2>3, LooksAgainInv DEF DoJob
  <2>4. CASE WorkerFinished(w)
    BY <2>4, WorkerFinishedInv
  <2>. QED
    BY <1>6, <2>1, <2>2, <2>3, <2>4 DEF Run
<1>. QED
  BY <1>1, <1>2, <1>3, <1>4, <1>5, <1>6 DEF HostNext

(* The inductive invariant of the pool. *)
THEOREM PoolInvariant == HostSpec => []PoolInv
<1>1. HostInit => PoolInv
  <2> SUFFICES ASSUME HostInit PROVE PoolInv
    OBVIOUS
  <2>1. m_workers = {} /\ worker \in [Workers -> WorkerPlaces] /\ m_jobQueue = <<>> /\ owner = "open" /\ aborted = FALSE
    BY DEF HostInit, PoolInit, m_workers, WorkerPlaces
  <2>2. WorkersBounded
    BY <2>1, FS_EmptySet, PoolAssumption DEF WorkersBounded, PoolAssumption
  <2>. QED
    BY <2>1, <2>2 DEF PoolInv, OwnerHasWorker, JobHasWorker
<1>. QED
  BY <1>1, PoolStep, PTL DEF HostSpec

(* A job is waiting for a worker that will look at the queue, and a worker *)
(* sleeps only when each job has another that is awake for it; but for     *)
(* jobs that found none but leaving workers.                               *)
THEOREM EveryJobHasWorker == HostSpec => []JobHasWorker
  BY PoolInvariant, PTL DEF PoolInv

(* close() waits only while there is a worker that will wake it, and       *)
(* returns only when there is none: the end of the program is not missed.  *)
THEOREM OwnerIsWoken == HostSpec => []OwnerHasWorker
  BY PoolInvariant, PTL DEF PoolInv

(* setupWorker never starts more threads than maxWorkersCount().           *)
THEOREM NoMoreWorkers == HostSpec => []WorkersBounded
  BY PoolInvariant, PTL DEF PoolInv

-----------------------------------------------------------------------------
(* The groups. *)

GroupType == [id : Nat, text : GroupTexts, enabled : BOOLEAN, edited : BOOLEAN]
RowType == [order : Nat, text : GroupTexts, enabled : BOOLEAN]
CopyType(bits) == [groups : Seq(GroupType), bits : {bits}, opt : BOOLEAN, flags : BOOLEAN,
                   removed : Seq(Nat), torn : BOOLEAN]

IsTable(table) ==
  table \in [DOMAIN table -> RowType] /\ Numbers(DOMAIN table) /\ 0 \notin DOMAIN table

(* A group and its row; of one that is marked as edited the rest is still  *)
(* to be written.                                                          *)
SameState(g, table) == g.id \in DOMAIN table /\ (~ g.edited => table[g.id].enabled = g.enabled)
SameRow(g, table) == SameState(g, table) /\ table[g.id].text = g.text

(* The groups in use: each has its row, and each row a group. *)
UsedFit(groups, table) ==
  /\ groups # <<>>
  /\ \A i \in 1 .. Len(groups) : SameRow(groups[i], table)
  /\ \A i, j \in 1 .. Len(groups) : groups[i].id = groups[j].id => i = j
  /\ \A id \in DOMAIN table : \E i \in 1 .. Len(groups) : groups[i].id = id

(* Those of the copy, and the ids of the ones that were removed from it: a *)
(* row's id is with one of them.                                           *)
CopyFit(groups, removed, table) ==
  /\ groups # <<>>
  /\ \A i \in 1 .. Len(groups) :
       groups[i].id # 0 =>
         /\ SameState(groups[i], table) /\ (~ groups[i].edited => SameRow(groups[i], table))
         /\ \A j \in 1 .. Len(groups) : groups[i].id = groups[j].id => i = j
         /\ \A k \in 1 .. Len(removed) : removed[k] # groups[i].id
  /\ \A k \in 1 .. Len(removed) :
       /\ removed[k] \in DOMAIN table
       /\ \A h \in 1 .. Len(removed) : removed[h] = removed[k] => h = k
  /\ \A id \in DOMAIN table :
       \/ \E i \in 1 .. Len(groups) : groups[i].id = id
       \/ \E k \in 1 .. Len(removed) : removed[k] = id

AppFits(table) == \A p \in GroupPrograms : app[p] # NoGroup => app[p] \in DOMAIN table

IsUsed(c, table) == c.groups \in Seq(GroupType) /\ UsedFit(c.groups, table)
IsCopy(e, table) == e \in CopyType(e.bits) /\ CopyFit(e.groups, e.removed, table)

(* A copy of which a save had failed keeps that, whatever is edited. *)
IsEdit(e, table) ==
  e = NoEdit \/ ("torn" \in DOMAIN e /\ e.torn \in BOOLEAN /\ (e.torn \/ IsCopy(e, table)))

GroupsInv ==
  /\ torn \in BOOLEAN
  /\ ~ torn =>
       /\ IsTable(rows) /\ IsUsed(conf, rows) /\ IsEdit(edit, rows)
       /\ app \in [GroupPrograms -> Nat \cup {NoGroup}] /\ AppFits(rows)

(* Bits are applied: what changed is marked. *)
AppliedTo(s, t) ==
  /\ Len(t) = Len(s)
  /\ \A i \in 1 .. Len(s) :
       /\ t[i].id = s[i].id /\ t[i].text = s[i].text
       /\ ~ t[i].edited => ~ s[i].edited /\ t[i].enabled = s[i].enabled

LEMMA BitsApplied ==
  ASSUME NEW s \in Seq(GroupType), NEW bits, NEW t, t = ApplyBits(s, bits)
  PROVE  t \in Seq(GroupType) /\ AppliedTo(s, t)
<1>1. DOMAIN s = 1 .. Len(s) /\ \A i \in 1 .. Len(s) : s[i] \in GroupType
  OBVIOUS
<1>2. DOMAIN t = 1 .. Len(s)
  BY <1>1 DEF ApplyBits
<1>3. ASSUME NEW i \in 1 .. Len(s)
      PROVE  /\ t[i] \in GroupType
             /\ t[i].id = s[i].id /\ t[i].text = s[i].text
             /\ ~ t[i].edited => ~ s[i].edited /\ t[i].enabled = s[i].enabled
  <2>1. PICK g : g = s[i]
    OBVIOUS
  <2>2. PICK b \in BOOLEAN : b = (i \in bits)
    <3>1. (i \in bits) \in BOOLEAN
      OBVIOUS
    <3>2. QED
      BY <3>1, Zenon
  <2>3. t[i] = [[g EXCEPT !.enabled = i \in bits] EXCEPT !.edited = @ \/ g.enabled # (i \in bits)]
    BY <1>1, <2>1 DEF ApplyBits
  <2>4. t[i] = [[g EXCEPT !.enabled = b] EXCEPT !.edited = @ \/ g.enabled # b]
    BY <2>2, <2>3, Zenon
  <2>5. PICK x \in BOOLEAN : x = (g.edited \/ g.enabled # b)
    BY Zenon
  <2>6. g \in GroupType
    BY <1>1, <2>1
  <2>7. [g EXCEPT !.enabled = b].edited = g.edited
    BY <2>6 DEF GroupType
  <2>8. t[i] = [[g EXCEPT !.enabled = b] EXCEPT !.edited = x]
    BY <2>4, <2>5, <2>7, Zenon
  <2>9. t[i] = [id |-> g.id, text |-> g.text, enabled |-> b, edited |-> x]
    BY <2>6, <2>8 DEF GroupType
  <2>10. t[i].id = g.id /\ t[i].text = g.text /\ t[i].enabled = b /\ t[i].edited = x /\ t[i] \in GroupType
    BY <2>6, <2>9 DEF GroupType
  <2>11. ~ x => ~ g.edited /\ b = g.enabled
    BY <2>5, Zenon
  <2>12. QED
    BY <2>1, <2>10, <2>11, Zenon
<1>4. t \in [1 .. Len(s) -> GroupType]
  <2>1. t = [i \in 1 .. Len(s) |-> t[i]]
    BY <1>1 DEF ApplyBits
  <2>2. QED
    BY <1>3, <2>1
<1>5. Len(s) \in Nat
  OBVIOUS
<1>6. t \in Seq(GroupType) /\ Len(t) = Len(s)
  BY <1>4, <1>5
<1>7. QED
  BY <1>3, <1>6, Zenon DEF AppliedTo

LEMMA AppliedUsed ==
  ASSUME NEW s, NEW t, NEW table, UsedFit(s, table), AppliedTo(s, t), s \in Seq(GroupType),
         t \in Seq(GroupType)
  PROVE  UsedFit(t, table)
<1>1. Len(t) = Len(s) /\ Len(s) \in Nat /\ (s # <<>> => Len(s) # 0) /\ (t = <<>> => Len(t) = 0)
  BY DEF AppliedTo
<1>2. t # <<>>
  BY <1>1 DEF UsedFit
<1>3. ASSUME NEW i \in 1 .. Len(s)
      PROVE  SameRow(t[i], table)
  <2>1. /\ t[i].id = s[i].id /\ t[i].text = s[i].text
        /\ ~ t[i].edited => ~ s[i].edited /\ t[i].enabled = s[i].enabled
    BY DEF AppliedTo
  <2>2. SameRow(s[i], table)
    BY DEF UsedFit
  <2>3. QED
    BY <2>1, <2>2, Zenon DEF SameRow, SameState
<1>4. \A i \in 1 .. Len(s) : t[i].id = s[i].id
  BY DEF AppliedTo
<1>5. QED
  BY <1>1, <1>2, <1>3, <1>4 DEF UsedFit

LEMMA UsedCopy ==
  ASSUME NEW s \in Seq(GroupType), NEW table, UsedFit(s, table), 0 \notin DOMAIN table
  PROVE  CopyFit(s, <<>>, table)
<1>1. \A k \in 1 .. Len(<<>>) : FALSE
  OBVIOUS
<1>2. \A i \in 1 .. Len(s) : SameRow(s[i], table) /\ SameState(s[i], table)
  BY DEF UsedFit, SameRow
<1>3. QED
  BY <1>1, <1>2, Zenon DEF UsedFit, CopyFit

LEMMA CopyIs ==
  ASSUME NEW c, NEW table, IsUsed(c, table), IsTable(table)
  PROVE  IsCopy(CopyOf(c), table) /\ IsEdit(CopyOf(c), table)
<1>1. c.groups \in Seq(GroupType) /\ UsedFit(c.groups, table)
  BY DEF IsUsed
<1>2. PICK t : t = ApplyBits(c.groups, c.bits)
  OBVIOUS
<1>3. t \in Seq(GroupType) /\ AppliedTo(c.groups, t)
  BY <1>1, <1>2, BitsApplied
<1>4. CopyFit(t, <<>>, table)
  BY <1>1, <1>3, AppliedUsed, UsedCopy DEF IsTable
<1>5. PICK e : e = CopyOf(c)
  OBVIOUS
<1>6. e = [groups |-> t, bits |-> c.bits, opt |-> FALSE, flags |-> FALSE, removed |-> <<>>, torn |-> FALSE]
  BY <1>2, <1>5 DEF CopyOf
<1>7. <<>> \in Seq(Nat)
  OBVIOUS
<1>8. e \in CopyType(e.bits) /\ e.groups = t /\ e.removed = <<>> /\ "torn" \in DOMAIN e /\ e.torn = FALSE
  BY <1>1, <1>3, <1>6, <1>7 DEF CopyType
<1>9. QED
  BY <1>4, <1>5, <1>8 DEF IsCopy, IsEdit

(* Groups of the copy are edited: what is edited is marked. *)
EditedTo(s, t) ==
  /\ Len(t) = Len(s)
  /\ \A i \in 1 .. Len(s) : t[i].id = s[i].id /\ (~ t[i].edited => t[i] = s[i])

LEMMA EditedFits ==
  ASSUME NEW s \in Seq(GroupType), NEW t \in Seq(GroupType), NEW removed, NEW table,
         CopyFit(s, removed, table), EditedTo(s, t)
  PROVE  CopyFit(t, removed, table)
<1>1. Len(t) = Len(s) /\ Len(s) \in Nat /\ (s # <<>> => Len(s) # 0) /\ (t = <<>> => Len(t) = 0)
  BY DEF EditedTo
<1>2. t # <<>>
  BY <1>1 DEF CopyFit
<1>3. \A i \in 1 .. Len(s) : t[i].id = s[i].id
  BY DEF EditedTo
<1>4. ASSUME NEW i \in 1 .. Len(s), s[i].id # 0
      PROVE  SameState(t[i], table) /\ (~ t[i].edited => SameRow(t[i], table))
  <2>1. t[i].id = s[i].id /\ (~ t[i].edited => t[i] = s[i])
    BY DEF EditedTo
  <2>2. SameState(s[i], table) /\ (~ s[i].edited => SameRow(s[i], table))
    BY <1>4 DEF CopyFit
  <2>3. QED
    BY <2>1, <2>2, Zenon DEF SameState
<1>5. ASSUME NEW i \in 1 .. Len(t), t[i].id # 0
      PROVE  /\ SameState(t[i], table) /\ (~ t[i].edited => SameRow(t[i], table))
             /\ \A j \in 1 .. Len(t) : t[i].id = t[j].id => i = j
             /\ \A k \in 1 .. Len(removed) : removed[k] # t[i].id
  <2>1. i \in 1 .. Len(s) /\ s[i].id # 0
    BY <1>1, <1>3, <1>5
  <2>2. /\ \A j \in 1 .. Len(s) : s[i].id = s[j].id => i = j
        /\ \A k \in 1 .. Len(removed) : removed[k] # s[i].id
    BY <2>1 DEF CopyFit
  <2>3. QED
    BY <1>1, <1>3, <1>4, <2>1, <2>2
<1>6. ASSUME NEW id \in DOMAIN table
      PROVE  (\E i \in 1 .. Len(t) : t[i].id = id) \/ (\E k \in 1 .. Len(removed) : removed[k] = id)
  BY <1>1, <1>3 DEF CopyFit
<1>7. \A k \in 1 .. Len(removed) :
        /\ removed[k] \in DOMAIN table
        /\ \A h \in 1 .. Len(removed) : removed[h] = removed[k] => h = k
  BY DEF CopyFit
<1>8. QED
  BY <1>2, <1>5, <1>6, <1>7, Zenon DEF CopyFit

(* Groups are moved, or one is removed, and the others stay as they are.   *)
LEMMA MovedFits ==
  ASSUME NEW s \in Seq(GroupType), NEW t \in Seq(GroupType), Len(t) = Len(s),
         NEW f, TakenAt(s, t, {}, f), NEW removed, NEW table, CopyFit(s, removed, table)
  PROVE  CopyFit(t, removed, table)
<1>1. Len(s) \in Nat /\ (s # <<>> => Len(s) # 0) /\ (t = <<>> => Len(t) = 0)
  OBVIOUS
<1>2. t # <<>>
  BY <1>1 DEF CopyFit
<1>3. ASSUME NEW i \in 1 .. Len(t)
      PROVE  f[i] \in 1 .. Len(s) /\ t[i] = s[f[i]]
  BY DEF TakenAt
<1>4. \A i, j \in 1 .. Len(t) : f[i] = f[j] => i = j
  BY DEF TakenAt
<1>5. ASSUME NEW i \in 1 .. Len(t), t[i].id # 0
      PROVE  /\ SameState(t[i], table) /\ (~ t[i].edited => SameRow(t[i], table))
             /\ \A j \in 1 .. Len(t) : t[i].id = t[j].id => i = j
             /\ \A k \in 1 .. Len(removed) : removed[k] # t[i].id
  <2>1. f[i] \in 1 .. Len(s) /\ t[i] = s[f[i]] /\ s[f[i]].id # 0
    BY <1>3, <1>5
  <2>2. /\ SameState(s[f[i]], table) /\ (~ s[f[i]].edited => SameRow(s[f[i]], table))
        /\ \A j \in 1 .. Len(s) : s[f[i]].id = s[j].id => f[i] = j
        /\ \A k \in 1 .. Len(removed) : removed[k] # s[f[i]].id
    BY <2>1, Zenon DEF CopyFit
  <2>3. QED
    BY <1>3, <1>4, <2>1, <2>2, ZenonT(60)
<1>6. ASSUME NEW id \in DOMAIN table, NEW k \in 1 .. Len(s), s[k].id = id
      PROVE  \E i \in 1 .. Len(t) : t[i].id = id
  <2>1. k \in (1 .. Len(s)) \ {}
    OBVIOUS
  <2>2. PICK i \in 1 .. Len(t) : f[i] = k
    BY <2>1, Zenon DEF TakenAt
  <2>3. QED
    BY <1>3, <1>6, <2>2, Zenon
<1>7. QED
  BY <1>2, <1>5, <1>6, Zenon DEF CopyFit

LEMMA RemovedFits ==
  ASSUME NEW s \in Seq(GroupType), NEW t \in Seq(GroupType), Len(t) = Len(s) - 1, Len(s) > 1,
         NEW m \in 1 .. Len(s), NEW f, TakenAt(s, t, {m}, f),
         NEW removed \in Seq(Nat), NEW table, 0 \notin DOMAIN table, CopyFit(s, removed, table)
  PROVE  /\ s[m].id = 0 => CopyFit(t, removed, table)
         /\ s[m].id # 0 => CopyFit(t, Append(removed, s[m].id), table)
<1>1. t # <<>> /\ s[m].id \in Nat
  <2>1. s[m] \in GroupType
    OBVIOUS
  <2>2. QED
    BY <2>1 DEF GroupType
<1>2. ASSUME NEW i \in 1 .. Len(t)
      PROVE  f[i] \in 1 .. Len(s) /\ t[i] = s[f[i]] /\ f[i] # m
  <2>1. f[i] \in (1 .. Len(s)) \ {m} /\ t[i] = s[f[i]]
    BY Zenon DEF TakenAt
  <2>2. QED
    BY <2>1, Zenon
<1>3. \A i, j \in 1 .. Len(t) : f[i] = f[j] => i = j
  BY DEF TakenAt
<1>4. ASSUME NEW i \in 1 .. Len(t), t[i].id # 0
      PROVE  /\ SameState(t[i], table) /\ (~ t[i].edited => SameRow(t[i], table))
             /\ \A j \in 1 .. Len(t) : t[i].id = t[j].id => i = j
             /\ \A k \in 1 .. Len(removed) : removed[k] # t[i].id
             /\ s[m].id # t[i].id
  <2>1. f[i] \in 1 .. Len(s) /\ t[i] = s[f[i]] /\ s[f[i]].id # 0 /\ f[i] # m
    BY <1>2, <1>4
  <2>2. /\ SameState(s[f[i]], table) /\ (~ s[f[i]].edited => SameRow(s[f[i]], table))
        /\ \A j \in 1 .. Len(s) : s[f[i]].id = s[j].id => f[i] = j
        /\ \A k \in 1 .. Len(removed) : removed[k] # s[f[i]].id
    BY <2>1, Zenon DEF CopyFit
  <2>3. s[m].id # t[i].id
    BY <2>1, <2>2, Zenon
  <2>4. \A j \in 1 .. Len(t) : t[i].id = t[j].id => i = j
    <3>1. SUFFICES ASSUME NEW j \in 1 .. Len(t), t[i].id = t[j].id PROVE i = j
      OBVIOUS
    <3>2. f[j] \in 1 .. Len(s) /\ t[j] = s[f[j]]
      BY <1>2
    <3>3. f[i] = f[j]
      BY <2>1, <2>2, <3>1, <3>2, Zenon
    <3>. QED
      BY <1>3, <3>3
  <2>5. QED
    BY <2>1, <2>2, <2>3, <2>4, Zenon
<1>5. ASSUME NEW id \in DOMAIN table, NEW k \in 1 .. Len(s), s[k].id = id
      PROVE  id = s[m].id \/ \E i \in 1 .. Len(t) : t[i].id = id
  <2>1. CASE k = m
    BY <1>5, <2>1
  <2>2. CASE k # m
    <3>1. k \in (1 .. Len(s)) \ {m}
      BY <2>2
    <3>2. PICK i \in 1 .. Len(t) : f[i] = k
      BY <3>1, Zenon DEF TakenAt
    <3>3. QED
      BY <1>2, <1>5, <3>2, Zenon
  <2>3. QED
    BY <2>1, <2>2
<1>6. ASSUME NEW id \in DOMAIN table
      PROVE  \/ id = s[m].id
             \/ \E i \in 1 .. Len(t) : t[i].id = id
             \/ \E k \in 1 .. Len(removed) : removed[k] = id
  BY <1>5, Zenon DEF CopyFit
<1>7. \A k \in 1 .. Len(removed) :
        /\ removed[k] \in DOMAIN table
        /\ \A h \in 1 .. Len(removed) : removed[h] = removed[k] => h = k
  BY DEF CopyFit
<1>8. ASSUME s[m].id = 0
      PROVE  CopyFit(t, removed, table)
  <2>1. ASSUME NEW id \in DOMAIN table
        PROVE  (\E i \in 1 .. Len(t) : t[i].id = id) \/ (\E k \in 1 .. Len(removed) : removed[k] = id)
    BY <1>6, <1>8, Zenon
  <2>2. QED
    BY <1>1, <1>4, <1>7, <2>1, Zenon DEF CopyFit
<1>9. ASSUME s[m].id # 0
      PROVE  CopyFit(t, Append(removed, s[m].id), table)
  <2>1. PICK u : u = Append(removed, s[m].id)
    OBVIOUS
  <2>2. /\ Len(u) = Len(removed) + 1 /\ Len(removed) \in Nat /\ u[Len(u)] = s[m].id
        /\ \A k \in 1 .. Len(removed) : u[k] = removed[k]
    BY <1>1, <2>1
  <2>3. \A k \in 1 .. Len(u) : k = Len(u) \/ k \in 1 .. Len(removed)
    BY <2>2
  <2>4. /\ SameState(s[m], table) /\ \A k \in 1 .. Len(removed) : removed[k] # s[m].id
    BY <1>9, Zenon DEF CopyFit
  <2>5. s[m].id \in DOMAIN table
    BY <2>4 DEF SameState
  <2>6. ASSUME NEW k \in 1 .. Len(u)
        PROVE  /\ u[k] \in DOMAIN table
               /\ \A h \in 1 .. Len(u) : u[h] = u[k] => h = k
    BY <1>7, <2>2, <2>3, <2>4, <2>5
  <2>7. ASSUME NEW i \in 1 .. Len(t), t[i].id # 0
        PROVE  \A k \in 1 .. Len(u) : u[k] # t[i].id
    BY <1>4, <2>2, <2>3, <2>7, Zenon
  <2>8. ASSUME NEW id \in DOMAIN table
        PROVE  (\E i \in 1 .. Len(t) : t[i].id = id) \/ (\E k \in 1 .. Len(u) : u[k] = id)
    <3>1. Len(u) \in 1 .. Len(u) /\ \A k \in 1 .. Len(removed) : k \in 1 .. Len(u)
      BY <2>2
    <3>2. QED
      BY <1>6, <2>2, <3>1, Zenon
  <2>9. CopyFit(t, u, table)
    BY <1>1, <1>4, <2>6, <2>7, <2>8, Zenon DEF CopyFit
  <2>10. QED
    BY <2>1, <2>9
<1>10. QED
  BY <1>8, <1>9

(* A group is added: without a row, or with the one of a group removed.    *)
LEMMA AddedFits ==
  ASSUME NEW s \in Seq(GroupType), NEW g \in GroupType, g.edited, NEW t, t = Append(s, g),
         NEW removed \in Seq(Nat), NEW left \in Seq(Nat),
         NEW table, 0 \notin DOMAIN table, CopyFit(s, removed, table),
         removed = <<>> => g.id = 0 /\ left = removed,
         removed # <<>> => g.id = Last(removed) /\ left = Front(removed)
  PROVE  t \in Seq(GroupType) /\ CopyFit(t, left, table)
<1>1. /\ t \in Seq(GroupType) /\ Len(t) = Len(s) + 1 /\ Len(s) \in Nat /\ t[Len(t)] = g
      /\ t # <<>> /\ \A i \in 1 .. Len(s) : t[i] = s[i] /\ i \in 1 .. Len(t)
  OBVIOUS
<1>2. \A i \in 1 .. Len(t) : i = Len(t) \/ i \in 1 .. Len(s)
  BY <1>1
<1>3. Len(t) \in 1 .. Len(t) /\ Len(t) \notin 1 .. Len(s)
  BY <1>1
<1>4. /\ \A k \in 1 .. Len(left) : k \in 1 .. Len(removed) /\ left[k] = removed[k]
      /\ \A k \in 1 .. Len(removed) : k \in 1 .. Len(left) \/ removed[k] = g.id
      /\ g.id # 0 => Len(removed) \in 1 .. Len(removed) /\ g.id = removed[Len(removed)]
                     /\ Len(removed) \notin 1 .. Len(left)
  <2>1. CASE removed = <<>>
    BY <2>1
  <2>2. CASE removed # <<>>
    <3>1. Len(removed) \in 1 .. Len(removed) /\ Len(removed) \in Nat
      BY <2>2
    <3>2. g.id = removed[Len(removed)] /\ left = SubSeq(removed, 1, Len(removed) - 1)
      BY <2>2, Zenon DEF Last, Front
    <3>3. Len(left) = Len(removed) - 1 /\ \A k \in 1 .. Len(left) : left[k] = removed[k]
      <4>1. PICK n \in Nat : n = Len(removed) - 1
        <5>1. Len(removed) - 1 \in Nat
          BY <3>1
        <5>2. QED
          BY <5>1
      <4>2. left = SubSeq(removed, 1, n) /\ n <= Len(removed)
        BY <3>1, <3>2, <4>1
      <4>3. Len(left) = n /\ \A k \in 1 .. n : left[k] = removed[k]
        BY <4>2
      <4>4. QED
        BY <4>1, <4>3
    <3>4. \A k \in 1 .. Len(removed) : k = Len(removed) \/ k \in 1 .. Len(left)
      BY <3>1, <3>3
    <3>5. QED
      BY <3>1, <3>2, <3>3, <3>4
  <2>3. QED
    BY <2>1, <2>2
<1>5. \A k \in 1 .. Len(removed) :
        /\ removed[k] \in DOMAIN table
        /\ \A h \in 1 .. Len(removed) : removed[h] = removed[k] => h = k
  BY DEF CopyFit
<1>6. ASSUME NEW i \in 1 .. Len(s), s[i].id # 0
      PROVE  /\ SameState(s[i], table) /\ (~ s[i].edited => SameRow(s[i], table))
             /\ \A j \in 1 .. Len(s) : s[i].id = s[j].id => i = j
             /\ \A k \in 1 .. Len(left) : left[k] # s[i].id
             /\ s[i].id # g.id
  <2>1. /\ SameState(s[i], table) /\ (~ s[i].edited => SameRow(s[i], table))
        /\ \A j \in 1 .. Len(s) : s[i].id = s[j].id => i = j
        /\ \A k \in 1 .. Len(removed) : removed[k] # s[i].id
    BY <1>6, Zenon DEF CopyFit
  <2>2. s[i].id # g.id
    <3>1. CASE g.id = 0
      BY <1>6, <3>1
    <3>2. CASE g.id # 0
      BY <1>4, <2>1, <3>2, Zenon
    <3>3. QED
      BY <3>1, <3>2
  <2>3. QED
    BY <1>4, <2>1, <2>2, Zenon
<1>7. ASSUME g.id # 0
      PROVE  /\ SameState(g, table)
             /\ \A k \in 1 .. Len(left) : left[k] # g.id
  <2>1. g.id \in DOMAIN table
    BY <1>4, <1>5, <1>7
  <2>2. \A k \in 1 .. Len(left) : left[k] # g.id
    BY <1>4, <1>5, <1>7
  <2>3. QED
    BY <2>1, <2>2 DEF SameState
<1>8. ASSUME NEW i \in 1 .. Len(t), t[i].id # 0
      PROVE  /\ SameState(t[i], table) /\ (~ t[i].edited => SameRow(t[i], table))
             /\ \A j \in 1 .. Len(t) : t[i].id = t[j].id => i = j
             /\ \A k \in 1 .. Len(left) : left[k] # t[i].id
  <2>1. CASE i = Len(t)
    <3>1. t[i] = g /\ g.id # 0
      BY <1>1, <1>8, <2>1
    <3>2. \A j \in 1 .. Len(s) : s[j].id # g.id
      BY <1>6, <3>1
    <3>3. \A j \in 1 .. Len(t) : t[i].id = t[j].id => i = j
      BY <1>1, <1>2, <2>1, <3>1, <3>2
    <3>4. QED
      BY <1>7, <3>1, <3>3, Zenon
  <2>2. CASE i \in 1 .. Len(s)
    <3>1. t[i] = s[i] /\ s[i].id # 0
      BY <1>1, <1>8, <2>2
    <3>2. \A j \in 1 .. Len(t) : t[i].id = t[j].id => i = j
      BY <1>1, <1>2, <1>6, <2>2, <3>1
    <3>3. QED
      BY <1>6, <2>2, <3>1, <3>2, Zenon
  <2>3. QED
    BY <1>2, <2>1, <2>2
<1>9. ASSUME NEW id \in DOMAIN table
      PROVE  (\E i \in 1 .. Len(t) : t[i].id = id) \/ (\E k \in 1 .. Len(left) : left[k] = id)
  <2>1. \A k \in 1 .. Len(removed) : (k \in 1 .. Len(left) /\ left[k] = removed[k]) \/ removed[k] = t[Len(t)].id
    BY <1>1, <1>4, Zenon
  <2>2. (\E i \in 1 .. Len(s) : s[i].id = id) \/ (\E k \in 1 .. Len(removed) : removed[k] = id)
    BY Zenon DEF CopyFit
  <2>3. QED
    BY <1>1, <1>3, <2>1, <2>2, ZenonT(60)
<1>10. \A k \in 1 .. Len(left) :
         /\ left[k] \in DOMAIN table
         /\ \A h \in 1 .. Len(left) : left[h] = left[k] => h = k
  BY <1>4, <1>5
<1>11. QED
  BY <1>1, <1>8, <1>9, <1>10, Zenon DEF CopyFit

(* One group is saved: it has a row then, and the others have what they    *)
(* had; a new row has a new id.                                            *)
RowIs(g, table) == g.id \in DOMAIN table /\ table[g.id].text = g.text /\ table[g.id].enabled = g.enabled

SavedOne(s, i, r) ==
  /\ IsTable(r.rows) /\ r.groups \in Seq(GroupType) /\ Len(r.groups) = Len(s.groups)
  /\ \A j \in 1 .. Len(s.groups) : j # i => r.groups[j] = s.groups[j]
  /\ RowIs(r.groups[i], r.rows) /\ ~ r.groups[i].edited
  /\ IF s.groups[i].id = 0 THEN r.groups[i].id \notin DOMAIN s.rows
                           ELSE r.groups[i].id = s.groups[i].id
  /\ DOMAIN r.rows = DOMAIN s.rows \cup {r.groups[i].id}
  /\ \A id \in DOMAIN s.rows : id # r.groups[i].id => r.rows[id] = s.rows[id]

LEMMA NewIdIs ==
  ASSUME NEW table, IsTable(table)
  PROVE  NewId(table) \in Nat /\ NewId(table) # 0 /\ NewId(table) \notin DOMAIN table
<1>1. PICK m \in DOMAIN table \cup {0} : \A i \in DOMAIN table \cup {0} : i <= m
  BY Greatest DEF IsTable
<1>2. PICK T : T = {0} \cup DOMAIN table
  OBVIOUS
<1>3. T \subseteq Nat /\ m \in T /\ \A i \in T : i <= m
  BY <1>1, <1>2 DEF IsTable, Numbers
<1>4. Max(T) = m
  <2>1. T \subseteq Int /\ m \in T
    BY <1>3
  <2>2. QED
    BY <1>3, <2>1, MaxIs
<1>5. NewId(table) = 1 + m
  BY <1>2, <1>4 DEF NewId
<1>6. QED
  BY <1>2, <1>3, <1>5

LEMMA SavesOne ==
  ASSUME NEW s, IsTable(s.rows), s.groups \in Seq(GroupType), NEW i \in 1 .. Len(s.groups),
         s.groups[i].id # 0 =>
           /\ s.groups[i].id \in DOMAIN s.rows
           /\ ~ s.groups[i].edited => RowIs(s.groups[i], s.rows)
  PROVE  SavedOne(s, i, SaveAppGroup(s, i))
<1>1. PICK g : g = s.groups[i]
  OBVIOUS
<1>2. g \in GroupType /\ Len(s.groups) \in Nat /\ i \in Nat
  BY <1>1
<1>3. PICK id : id = IF g.id = 0 THEN NewId(s.rows) ELSE g.id
  OBVIOUS
<1>4. PICK row : row = [order |-> i, text |-> g.text, enabled |-> g.enabled]
  OBVIOUS
<1>5. PICK rw : rw = IF g.id = 0 THEN WithRow(s.rows, id, row) ELSE [s.rows EXCEPT ![id] = row]
  OBVIOUS
<1>6. PICK gs : gs = [s.groups EXCEPT ![i].id = id, ![i].edited = FALSE]
  OBVIOUS
<1>7. PICK r : r = SaveAppGroup(s, i)
  OBVIOUS
<1>8. CASE g.id # 0 /\ ~ g.edited
  <2>1. r = s
    BY <1>1, <1>7, <1>8, Zenon DEF SaveAppGroup
  <2>2. g.id \in DOMAIN s.rows /\ RowIs(g, s.rows)
    BY <1>1, <1>8
  <2>3. DOMAIN s.rows = DOMAIN s.rows \cup {g.id}
    BY <2>2
  <2>4. SavedOne(s, i, s)
    BY <1>1, <1>8, <2>2, <2>3, Zenon DEF SavedOne
  <2>5. QED
    BY <1>7, <2>1, <2>4
<1>9. CASE ~ (g.id # 0 /\ ~ g.edited)
  <2>1. r = [rows |-> rw, groups |-> gs]
    BY <1>1, <1>3, <1>4, <1>5, <1>6, <1>7, <1>9, Zenon DEF SaveAppGroup
  <2>2. r.rows = rw /\ r.groups = gs
    BY <2>1
  <2>3. id \in Nat /\ id # 0 /\ (g.id = 0 => id \notin DOMAIN s.rows) /\ (g.id # 0 => id = g.id /\ id \in DOMAIN s.rows)
    BY <1>1, <1>2, <1>3, NewIdIs DEF GroupType
  <2>4. PICK h : h = [id |-> id, text |-> g.text, enabled |-> g.enabled, edited |-> FALSE]
    OBVIOUS
  <2>5. h \in GroupType /\ h.id = id /\ h.text = g.text /\ h.enabled = g.enabled /\ h.edited = FALSE
    BY <1>2, <2>3, <2>4 DEF GroupType
  <2>6. gs = [s.groups EXCEPT ![i] = h]
    <3>1. h = [[g EXCEPT !.id = id] EXCEPT !.edited = FALSE]
      <4>1. PICK h2 : h2 = [g EXCEPT !.id = id]
        OBVIOUS
      <4>2. h2 = [id |-> id, text |-> g.text, enabled |-> g.enabled, edited |-> g.edited]
        BY <1>2, <4>1 DEF GroupType
      <4>3. h = [h2 EXCEPT !.edited = FALSE]
        <5>1. PICK x \in BOOLEAN : x = FALSE
          OBVIOUS
        <5>2. PICK y \in BOOLEAN : y = g.edited
          BY <1>2 DEF GroupType
        <5>3. h2 = [id |-> id, text |-> g.text, enabled |-> g.enabled, edited |-> y]
          BY <4>2, <5>2, Zenon
        <5>4. h = [id |-> id, text |-> g.text, enabled |-> g.enabled, edited |-> x]
          BY <2>4, <5>1, Zenon
        <5>5. h = [h2 EXCEPT !.edited = x]
          BY <5>3, <5>4
        <5>6. QED
          BY <5>1, <5>5, Zenon
      <4>4. QED
        BY <4>1, <4>3
    <3>2. gs = [s.groups EXCEPT ![i] = [[@ EXCEPT !.id = id] EXCEPT !.edited = FALSE]]
      BY <1>6
    <3>3. QED
      BY <1>1, <3>1, <3>2
  <2>7. gs \in Seq(GroupType) /\ Len(gs) = Len(s.groups) /\ gs[i] = h /\ \A j \in 1 .. Len(s.groups) : j # i => gs[j] = s.groups[j]
    BY <2>5, <2>6
  <2>8. row \in RowType /\ row.text = g.text /\ row.enabled = g.enabled
    BY <1>2, <1>4 DEF GroupType, RowType
  <2>9. /\ DOMAIN rw = DOMAIN s.rows \cup {id} /\ rw[id] = row
        /\ \A d \in DOMAIN s.rows : d # id => rw[d] = s.rows[d]
        /\ rw \in [DOMAIN rw -> RowType]
    <3>1. s.rows \in [DOMAIN s.rows -> RowType]
      BY DEF IsTable
    <3>2. CASE g.id = 0
      <4>1. rw = [d \in DOMAIN s.rows \cup {id} |-> IF d = id THEN row ELSE s.rows[d]]
        BY <1>5, <3>2 DEF WithRow
      <4>2. QED
        BY <2>8, <3>1, <4>1
    <3>3. CASE g.id # 0
      <4>1. rw = [s.rows EXCEPT ![id] = row] /\ id \in DOMAIN s.rows
        BY <1>5, <2>3, <3>3
      <4>2. QED
        BY <2>8, <3>1, <4>1
    <3>4. QED
      BY <3>2, <3>3
  <2>10. IsTable(rw)
    <3>1. PICK b \in Nat : \A d \in DOMAIN s.rows : d <= b
      BY DEF IsTable, Numbers
    <3>2. DOMAIN s.rows \subseteq Nat
      BY DEF IsTable, Numbers
    <3>3. b + id \in Nat /\ \A d \in DOMAIN rw : d <= b + id
      BY <2>3, <2>9, <3>1, <3>2
    <3>4. DOMAIN rw \subseteq Nat /\ 0 \notin DOMAIN rw
      BY <2>3, <2>9, <3>2 DEF IsTable
    <3>5. QED
      BY <2>9, <3>3, <3>4 DEF IsTable, Numbers
  <2>11. RowIs(gs[i], rw)
    BY <2>5, <2>7, <2>8, <2>9 DEF RowIs
  <2>12. IF s.groups[i].id = 0 THEN gs[i].id \notin DOMAIN s.rows ELSE gs[i].id = s.groups[i].id
    BY <1>1, <2>3, <2>5, <2>7
  <2>13. gs[i].id = id /\ ~ gs[i].edited
    BY <2>5, <2>7
  <2>14. SavedOne(s, i, r)
    BY <2>2, <2>7, <2>9, <2>10, <2>11, <2>12, <2>13, Zenon DEF SavedOne
  <2>15. QED
    BY <1>7, <2>14
<1>10. QED
  BY <1>8, <1>9

(* The groups are saved one after the other: those up to k have rows of    *)
(* their own, the others and their rows are as they were.                  *)
SavedUpTo(gs, table, s, k) ==
  /\ IsTable(s.rows) /\ s.groups \in Seq(GroupType) /\ Len(s.groups) = Len(gs)
  /\ \A i \in 1 .. Len(gs) :
       i > k =>
         /\ s.groups[i] = gs[i]
         /\ gs[i].id # 0 => gs[i].id \in DOMAIN s.rows /\ s.rows[gs[i].id] = table[gs[i].id]
  /\ \A i \in 1 .. Len(gs) :
       i <= k =>
         /\ RowIs(s.groups[i], s.rows) /\ ~ s.groups[i].edited
         /\ IF gs[i].id = 0 THEN s.groups[i].id \notin DOMAIN table
                            ELSE s.groups[i].id = gs[i].id
  /\ \A i, j \in 1 .. Len(gs) :
       i <= k /\ j <= k /\ s.groups[i].id = s.groups[j].id => i = j
  /\ DOMAIN table \subseteq DOMAIN s.rows
  /\ \A id \in DOMAIN s.rows \ DOMAIN table :
       \E i \in 1 .. Len(gs) : i <= k /\ s.groups[i].id = id

LEMMA SavedNone ==
  ASSUME NEW gs \in Seq(GroupType), NEW table, NEW removed, IsTable(table), CopyFit(gs, removed, table),
         NEW s, s.rows = table, s.groups = gs
  PROVE  SavedUpTo(gs, table, s, 0)
<1>1. \A i \in 1 .. Len(gs) : ~ (i <= 0)
  OBVIOUS
<1>2. \A i \in 1 .. Len(gs) : gs[i].id # 0 => gs[i].id \in DOMAIN table
  BY DEF CopyFit, SameState
<1>3. QED
  BY <1>1, <1>2, Zenon DEF SavedUpTo

LEMMA SavedOneMore ==
  ASSUME NEW gs \in Seq(GroupType), NEW table, NEW removed, CopyFit(gs, removed, table),
         NEW s, NEW k \in Nat, k + 1 <= Len(gs), SavedUpTo(gs, table, s, k)
  PROVE  SavedUpTo(gs, table, SaveAppGroup(s, k + 1), k + 1)
<1>1. PICK m : m = k + 1
  OBVIOUS
<1>2. m \in 1 .. Len(gs) /\ m > k /\ \A i \in 1 .. Len(gs) : (i > k <=> i = m \/ i > m) /\ (i <= m <=> i = m \/ i <= k)
                         /\ ~ (i = m /\ i <= k) /\ ~ (i = m /\ i > m)
  BY <1>1
<1>3. PICK r : r = SaveAppGroup(s, m)
  OBVIOUS
<1>4. /\ IsTable(s.rows) /\ s.groups \in Seq(GroupType) /\ Len(s.groups) = Len(gs)
      /\ s.groups[m] = gs[m] /\ DOMAIN table \subseteq DOMAIN s.rows
      /\ gs[m].id # 0 => gs[m].id \in DOMAIN s.rows /\ s.rows[gs[m].id] = table[gs[m].id]
  BY <1>2, Zenon DEF SavedUpTo
<1>5. ASSUME gs[m].id # 0
      PROVE  gs[m].id \in DOMAIN s.rows /\ (~ gs[m].edited => RowIs(gs[m], s.rows))
  <2>1. gs[m].id \in DOMAIN table /\ (~ gs[m].edited => SameRow(gs[m], table))
    BY <1>2, <1>5, Zenon DEF CopyFit, SameState
  <2>2. QED
    BY <1>4, <1>5, <2>1, Zenon DEF RowIs, SameRow, SameState
<1>6. SavedOne(s, m, r)
  <2>1. m \in 1 .. Len(s.groups)
    BY <1>2, <1>4
  <2>2. QED
    BY <1>3, <1>4, <1>5, <2>1, SavesOne
<1>7. /\ IsTable(r.rows) /\ r.groups \in Seq(GroupType) /\ Len(r.groups) = Len(gs)
      /\ \A j \in 1 .. Len(gs) : j # m => r.groups[j] = s.groups[j]
      /\ RowIs(r.groups[m], r.rows) /\ ~ r.groups[m].edited
      /\ IF gs[m].id = 0 THEN r.groups[m].id \notin DOMAIN s.rows ELSE r.groups[m].id = gs[m].id
      /\ DOMAIN r.rows = DOMAIN s.rows \cup {r.groups[m].id}
      /\ \A id \in DOMAIN s.rows : id # r.groups[m].id => r.rows[id] = s.rows[id]
  BY <1>4, <1>6, Zenon DEF SavedOne
<1>8. PICK x : x = r.groups[m].id
  OBVIOUS
<1>9. \A i, j \in 1 .. Len(gs) : gs[i].id # 0 /\ gs[i].id = gs[j].id => i = j
  BY DEF CopyFit
<1>10. \A i \in 1 .. Len(gs) : gs[i].id # 0 => gs[i].id \in DOMAIN table
  BY DEF CopyFit, SameState
<1>11. ASSUME NEW i \in 1 .. Len(gs), i > m
       PROVE  /\ r.groups[i] = gs[i]
              /\ gs[i].id # 0 => gs[i].id \in DOMAIN r.rows /\ r.rows[gs[i].id] = table[gs[i].id]
  <2>1. /\ s.groups[i] = gs[i] /\ i # m
        /\ gs[i].id # 0 => gs[i].id \in DOMAIN s.rows /\ s.rows[gs[i].id] = table[gs[i].id]
    BY <1>2, <1>11, Zenon DEF SavedUpTo
  <2>2. r.groups[i] = gs[i]
    BY <1>7, <2>1
  <2>3. ASSUME gs[i].id # 0
        PROVE  gs[i].id # x
    <3>1. CASE gs[m].id = 0
      BY <1>7, <1>8, <2>1, <2>3, <3>1, Zenon
    <3>2. CASE gs[m].id # 0
      <4>1. x = gs[m].id
        BY <1>7, <1>8, <3>2
      <4>2. gs[i].id # gs[m].id
        BY <1>2, <1>9, <2>1, <2>3, Zenon
      <4>3. QED
        BY <4>1, <4>2
    <3>3. QED
      BY <3>1, <3>2
  <2>4. QED
    BY <1>7, <1>8, <2>1, <2>2, <2>3, Zenon
<1>12. ASSUME NEW i \in 1 .. Len(gs), i <= k
       PROVE  /\ r.groups[i] = s.groups[i] /\ s.groups[i].id # x
              /\ RowIs(r.groups[i], r.rows) /\ ~ r.groups[i].edited
              /\ IF gs[i].id = 0 THEN r.groups[i].id \notin DOMAIN table ELSE r.groups[i].id = gs[i].id
  <2>1. /\ RowIs(s.groups[i], s.rows) /\ ~ s.groups[i].edited /\ i # m
        /\ IF gs[i].id = 0 THEN s.groups[i].id \notin DOMAIN table ELSE s.groups[i].id = gs[i].id
    BY <1>2, <1>12, Zenon DEF SavedUpTo
  <2>2. r.groups[i] = s.groups[i]
    BY <1>7, <2>1
  <2>3. s.groups[i].id \in DOMAIN s.rows
    BY <2>1 DEF RowIs
  <2>4. s.groups[i].id # x
    <3>1. CASE gs[m].id = 0
      BY <1>7, <1>8, <2>3, <3>1
    <3>2. CASE gs[m].id # 0
      <4>1. x = gs[m].id /\ x \in DOMAIN table
        BY <1>2, <1>7, <1>8, <1>10, <3>2
      <4>2. gs[i].id # 0 => gs[i].id # gs[m].id
        BY <1>2, <1>9, <2>1, Zenon
      <4>3. QED
        BY <2>1, <4>1, <4>2
    <3>3. QED
      BY <3>1, <3>2
  <2>5. s.groups[i].id \in DOMAIN r.rows /\ r.rows[s.groups[i].id] = s.rows[s.groups[i].id]
    BY <1>7, <1>8, <2>3, <2>4, Zenon
  <2>6. QED
    BY <2>1, <2>2, <2>4, <2>5, Zenon DEF RowIs
<1>13. IF gs[m].id = 0 THEN r.groups[m].id \notin DOMAIN table ELSE r.groups[m].id = gs[m].id
  BY <1>4, <1>7
<1>14. ASSUME NEW i \in 1 .. Len(gs), NEW j \in 1 .. Len(gs), i <= m, j <= m,
              r.groups[i].id = r.groups[j].id
       PROVE  i = j
  <2>1. CASE i <= k /\ j <= k
    <3>1. s.groups[i].id = s.groups[j].id
      BY <1>12, <1>14, <2>1
    <3>2. QED
      BY <2>1, <3>1, Zenon DEF SavedUpTo
  <2>2. CASE i = m \/ j = m
    <3>1. i <= k => r.groups[i].id # x
      BY <1>12
    <3>2. j <= k => r.groups[j].id # x
      BY <1>12
    <3>3. QED
      BY <1>2, <1>8, <1>14, <2>2, <3>1, <3>2
  <2>3. QED
    BY <1>2, <1>14, <2>1, <2>2
<1>15. ASSUME NEW id \in DOMAIN r.rows \ DOMAIN table
       PROVE  \E i \in 1 .. Len(gs) : i <= m /\ r.groups[i].id = id
  <2>1. CASE id = x
    BY <1>2, <1>8, <2>1
  <2>2. CASE id # x
    <3>1. id \in DOMAIN s.rows \ DOMAIN table
      BY <1>7, <1>8, <2>2
    <3>2. PICK i \in 1 .. Len(gs) : i <= k /\ s.groups[i].id = id
      BY <3>1, Zenon DEF SavedUpTo
    <3>3. QED
      BY <1>2, <1>12, <3>2
  <2>3. QED
    BY <2>1, <2>2
<1>16. \A i \in 1 .. Len(gs) :
         i <= m =>
           /\ RowIs(r.groups[i], r.rows) /\ ~ r.groups[i].edited
           /\ IF gs[i].id = 0 THEN r.groups[i].id \notin DOMAIN table ELSE r.groups[i].id = gs[i].id
  <2>1. SUFFICES ASSUME NEW i \in 1 .. Len(gs), i <= m
                 PROVE  /\ RowIs(r.groups[i], r.rows) /\ ~ r.groups[i].edited
                        /\ IF gs[i].id = 0 THEN r.groups[i].id \notin DOMAIN table ELSE r.groups[i].id = gs[i].id
    BY Zenon
  <2>2. CASE i = m
    BY <1>7, <1>13, <2>2, Zenon
  <2>3. CASE i <= k
    BY <1>12, <2>3, Zenon
  <2>4. QED
    BY <1>2, <2>1, <2>2, <2>3, Zenon
<1>17. DOMAIN table \subseteq DOMAIN r.rows
  BY <1>4, <1>7
<1>18. SavedUpTo(gs, table, r, m)
  BY <1>7, <1>11, <1>14, <1>15, <1>16, <1>17, Zenon DEF SavedUpTo
<1>19. QED
  BY <1>1, <1>3, <1>18

(* The function the table and the groups are taken from. *)
Saving(f, n) ==
  f = [i \in 0 .. n |->
         IF i = 0 THEN [rows |-> rows, groups |-> edit.groups] ELSE SaveAppGroup(f[i - 1], i)]

LEMMA SavingExists ==
  ASSUME NEW n \in Nat
  PROVE  \E f : Saving(f, n)
<1>. DEFINE Good == { m \in Nat : \E f : Saving(f, m) }
<1>1. 0 \in Good
  <2>1. PICK f : f = [i \in 0 .. 0 |-> [rows |-> rows, groups |-> edit.groups]]
    OBVIOUS
  <2>2. Saving(f, 0)
    BY <2>1 DEF Saving
  <2>3. QED
    BY <2>2
<1>2. ASSUME NEW m \in Nat, m \in Good
      PROVE  m + 1 \in Good
  <2>1. PICK f : Saving(f, m)
    BY <1>2
  <2>2. PICK g : g = [i \in 0 .. m + 1 |-> IF i = m + 1 THEN SaveAppGroup(f[m], i) ELSE f[i]]
    OBVIOUS
  <2>3. ASSUME NEW i \in 0 .. m + 1
        PROVE  g[i] = IF i = 0 THEN [rows |-> rows, groups |-> edit.groups] ELSE SaveAppGroup(g[i - 1], i)
    <3>1. CASE i = m + 1
      <4>1. i # 0 /\ i - 1 = m /\ m \in 0 .. m + 1 /\ m # m + 1
        BY <3>1
      <4>2. g[m] = f[m] /\ g[i] = SaveAppGroup(f[m], i)
        BY <2>2, <3>1, <4>1
      <4>3. QED
        BY <4>1, <4>2
    <3>2. CASE i # m + 1
      <4>1. i \in 0 .. m /\ g[i] = f[i]
        BY <2>2, <3>2
      <4>2. f[i] = IF i = 0 THEN [rows |-> rows, groups |-> edit.groups] ELSE SaveAppGroup(f[i - 1], i)
        BY <2>1, <4>1 DEF Saving
      <4>3. i # 0 => g[i - 1] = f[i - 1]
        BY <2>2, <4>1
      <4>4. QED
        BY <4>1, <4>2, <4>3
    <3>3. QED
      BY <3>1, <3>2
  <2>4. DOMAIN g = 0 .. m + 1 /\ g = [i \in 0 .. m + 1 |-> g[i]]
    BY <2>2
  <2>5. Saving(g, m + 1)
    BY <2>3, <2>4 DEF Saving
  <2>6. QED
    BY <2>5
<1>. HIDE DEF Good
<1>3. Nat \subseteq Good
  BY <1>1, <1>2, NatSetInduction
<1>4. QED
  BY <1>3 DEF Good

LEMMA SavesAll ==
  ASSUME edit \in CopyType(edit.bits), IsTable(rows), CopyFit(edit.groups, edit.removed, rows)
  PROVE  SavedUpTo(edit.groups, rows, SaveAppGroups(Len(edit.groups)), Len(edit.groups))
<1>1. PICK gs : gs = edit.groups
  OBVIOUS
<1>2. PICK n : n = Len(gs)
  OBVIOUS
<1>3. gs \in Seq(GroupType) /\ n \in Nat /\ CopyFit(gs, edit.removed, rows)
  BY <1>1, <1>2 DEF CopyType
<1>4. PICK f : f = CHOOSE h : Saving(h, n)
  OBVIOUS
<1>5. Saving(f, n)
  BY <1>3, <1>4, SavingExists
<1>6. SaveAppGroups(n) = f[n]
  BY <1>4, Zenon DEF SaveAppGroups, Saving
<1>7. /\ f[0] = [rows |-> rows, groups |-> gs]
      /\ \A k \in Nat : k + 1 <= n => f[k + 1] = SaveAppGroup(f[k], k + 1)
  <2>1. \A i \in 0 .. n : f[i] = IF i = 0 THEN [rows |-> rows, groups |-> edit.groups] ELSE SaveAppGroup(f[i - 1], i)
    BY <1>5 DEF Saving
  <2>2. f[0] = [rows |-> rows, groups |-> gs]
    BY <1>1, <1>3, <2>1
  <2>3. ASSUME NEW k \in Nat, k + 1 <= n
        PROVE  f[k + 1] = SaveAppGroup(f[k], k + 1)
    <3>1. k + 1 \in 0 .. n /\ k + 1 # 0 /\ (k + 1) - 1 = k
      BY <1>3, <2>3
    <3>2. QED
      BY <2>1, <3>1
  <2>4. QED
    BY <2>2, <2>3
<1>. DEFINE Good == { k \in Nat : k <= n => SavedUpTo(gs, rows, f[k], k) }
<1>8. 0 \in Good
  <2>1. f[0].rows = rows /\ f[0].groups = gs
    BY <1>7
  <2>2. SavedUpTo(gs, rows, f[0], 0)
    BY <1>3, <2>1, SavedNone
  <2>3. QED
    BY <2>2
<1>9. ASSUME NEW k \in Nat, k \in Good
      PROVE  k + 1 \in Good
  <2>1. SUFFICES ASSUME k + 1 <= n PROVE SavedUpTo(gs, rows, f[k + 1], k + 1)
    OBVIOUS
  <2>2. SavedUpTo(gs, rows, f[k], k) /\ k + 1 <= Len(gs)
    BY <1>2, <1>3, <1>9, <2>1
  <2>3. SavedUpTo(gs, rows, SaveAppGroup(f[k], k + 1), k + 1)
    BY <1>3, <2>2, SavedOneMore
  <2>4. QED
    BY <1>7, <2>1, <2>3
<1>. HIDE DEF Good
<1>10. n \in Good
  BY <1>3, <1>8, <1>9, NatSetInduction
<1>11. SavedUpTo(gs, rows, f[n], n)
  BY <1>3, <1>10 DEF Good
<1>12. QED
  BY <1>1, <1>2, <1>6, <1>11

(* All are saved, and the rows of the removed ones deleted.                *)
TableSaved(table, s, gone, t) ==
  /\ IsTable(t) /\ s.groups \in Seq(GroupType) /\ UsedFit(s.groups, t)
  /\ s.groups[1].id \in DOMAIN t /\ DOMAIN table \ gone \subseteq DOMAIN t

LEMMA AllSaved ==
  ASSUME NEW gs \in Seq(GroupType), NEW removed \in Seq(Nat), NEW table, CopyFit(gs, removed, table),
         NEW s, SavedUpTo(gs, table, s, Len(gs)),
         NEW gone, gone = Range(removed),
         NEW t, t = [id \in DOMAIN s.rows \ gone |-> s.rows[id]]
  PROVE  TableSaved(table, s, gone, t)
<1>1. /\ IsTable(s.rows) /\ s.groups \in Seq(GroupType) /\ Len(s.groups) = Len(gs)
      /\ DOMAIN table \subseteq DOMAIN s.rows /\ Len(gs) \in Nat
  BY DEF SavedUpTo
<1>2. DOMAIN t = DOMAIN s.rows \ gone /\ \A id \in DOMAIN t : t[id] = s.rows[id]
  OBVIOUS
<1>3. IsTable(t)
  <2>1. Numbers(DOMAIN t)
    BY <1>1, <1>2, NumbersLess DEF IsTable
  <2>2. t \in [DOMAIN t -> RowType]
    BY <1>1, <1>2 DEF IsTable
  <2>3. QED
    BY <1>1, <1>2, <2>1, <2>2 DEF IsTable
<1>4. /\ \A d \in gone : \E k \in 1 .. Len(removed) : removed[k] = d
      /\ \A k \in 1 .. Len(removed) : removed[k] \in gone
  BY DEF Range
<1>5. \A d \in gone : d \in DOMAIN table /\ \A i \in 1 .. Len(gs) : gs[i].id # 0 => gs[i].id # d
  BY <1>4, ZenonT(60) DEF CopyFit
<1>6. ASSUME NEW i \in 1 .. Len(gs)
      PROVE  /\ s.groups[i].id \in DOMAIN t /\ SameRow(s.groups[i], t)
             /\ gs[i].id # 0 => s.groups[i].id = gs[i].id
  <2>1. i <= Len(gs)
    BY <1>1
  <2>2. /\ RowIs(s.groups[i], s.rows)
        /\ IF gs[i].id = 0 THEN s.groups[i].id \notin DOMAIN table ELSE s.groups[i].id = gs[i].id
    BY <2>1, Zenon DEF SavedUpTo
  <2>3. s.groups[i].id \notin gone
    BY <1>5, <2>2
  <2>4. s.groups[i].id \in DOMAIN t
    BY <1>2, <2>2, <2>3 DEF RowIs
  <2>5. QED
    BY <1>2, <2>2, <2>4, Zenon DEF RowIs, SameRow, SameState
<1>7. \A i, j \in 1 .. Len(gs) : s.groups[i].id = s.groups[j].id => i = j
  BY DEF SavedUpTo
<1>8. ASSUME NEW id \in DOMAIN t
      PROVE  \E i \in 1 .. Len(gs) : s.groups[i].id = id
  <2>1. CASE id \in DOMAIN table
    <3>1. id \notin gone /\ id # 0
      BY <1>2, <1>3 DEF IsTable
    <3>2. PICK i \in 1 .. Len(gs) : gs[i].id = id
      BY <1>4, <2>1, <3>1, ZenonT(60) DEF CopyFit
    <3>3. QED
      BY <1>6, <3>1, <3>2
  <2>2. CASE id \notin DOMAIN table
    <3>1. id \in DOMAIN s.rows \ DOMAIN table
      BY <1>2, <2>2
    <3>2. QED
      BY <3>1, Zenon DEF SavedUpTo
  <2>3. QED
    BY <2>1, <2>2
<1>9. s.groups # <<>> /\ 1 \in 1 .. Len(gs)
  <2>1. gs # <<>>
    BY DEF CopyFit
  <2>2. Len(gs) # 0
    BY <2>1
  <2>3. QED
    BY <1>1, <2>2
<1>10. UsedFit(s.groups, t)
  BY <1>1, <1>6, <1>7, <1>8, <1>9, Zenon DEF UsedFit
<1>11. DOMAIN table \ gone \subseteq DOMAIN t
  BY <1>1, <1>2
<1>12. QED
  BY <1>1, <1>3, <1>6, <1>9, <1>10, <1>11, Zenon DEF TableSaved

-----------------------------------------------------------------------------
(* One lemma for each action.  Most of them are about a good state, of     *)
(* which no failed save was repeated.                                      *)

GroupsGood ==
  /\ torn \in BOOLEAN /\ ~ torn
  /\ IsTable(rows) /\ IsUsed(conf, rows) /\ IsEdit(edit, rows)
  /\ app \in [GroupPrograms -> Nat \cup {NoGroup}] /\ AppFits(rows)

(* What is in use is changed to groups that fit as well. *)
LEMMA UsedChanges ==
  ASSUME GroupsGood, NEW groups \in Seq(GroupType), UsedFit(groups, rows), NEW bits,
         conf' = [groups |-> groups, bits |-> bits],
         IsEdit(edit', rows), rows' = rows, app' = app, torn' = torn
  PROVE  GroupsInv'
<1>1. IsUsed(conf', rows)
  BY DEF IsUsed
<1>2. /\ torn' \in BOOLEAN
      /\ IsTable(rows) /\ IsUsed(conf', rows) /\ IsEdit(edit', rows)
      /\ app' \in [GroupPrograms -> Nat \cup {NoGroup}] /\ AppFits(rows)
  BY <1>1 DEF GroupsGood
<1>3. AppFits(rows)'
  BY <1>2 DEF AppFits
<1>4. QED
  BY <1>2, <1>3 DEF GroupsInv

(* The copy is changed to one that fits as well. *)
LEMMA EditChanges ==
  ASSUME GroupsGood, IsEdit(edit', rows), rows' = rows, app' = app, torn' = torn, conf' = conf
  PROVE  GroupsInv'
<1>1. /\ torn' \in BOOLEAN
      /\ IsTable(rows) /\ IsUsed(conf, rows) /\ IsEdit(edit', rows)
      /\ app' \in [GroupPrograms -> Nat \cup {NoGroup}] /\ AppFits(rows)
  BY DEF GroupsGood
<1>2. AppFits(rows)'
  BY <1>1 DEF AppFits
<1>3. QED
  BY <1>1, <1>2 DEF GroupsInv

LEMMA FlagsSaved ==
  ASSUME GroupsGood, NEW groups \in Seq(GroupType), UsedFit(groups, rows), SaveFlags(groups)
  PROVE  GroupsInv'
<1>2. /\ conf' = [groups |-> groups, bits |-> EnabledPlaces(groups)]
      /\ edit' = edit /\ rows' = rows /\ app' = app /\ torn' = torn
  BY DEF SaveFlags
<1>3. IsEdit(edit', rows)
  BY <1>2 DEF GroupsGood
<1>4. QED
  BY <1>2, <1>3, UsedChanges

LEMMA InUse ==
  ASSUME GroupsGood
  PROVE  /\ conf.groups \in Seq(GroupType) /\ UsedFit(conf.groups, rows)
         /\ IsTable(rows) /\ IsEdit(edit, rows)
  BY DEF GroupsGood, IsUsed

LEMMA GroupsTray ==
  ASSUME GroupsGood, NEW i, SaveTrayFlags(i)
  PROVE  GroupsInv'
<1>1. PICK t : /\ t = ApplyBits(conf.groups, IF i \in conf.bits THEN conf.bits \ {i} ELSE conf.bits \cup {i})
               /\ SaveFlags(t)
  BY Zenon DEF SaveTrayFlags
<1>2. t \in Seq(GroupType) /\ AppliedTo(conf.groups, t)
  BY <1>1, InUse, BitsApplied
<1>3. UsedFit(t, rows)
  BY <1>2, InUse, AppliedUsed
<1>4. QED
  BY <1>1, <1>2, <1>3, FlagsSaved

LEMMA GroupsOtherFlag ==
  ASSUME GroupsGood, SaveOtherFlag
  PROVE  GroupsInv'
  BY InUse, FlagsSaved DEF SaveOtherFlag

LEMMA GroupsSetApp ==
  ASSUME GroupsGood, NEW p \in GroupPrograms, NEW i \in DOMAIN conf.groups, SetAppGroup(p, i)
  PROVE  GroupsInv'
<1>1. /\ app' = [app EXCEPT ![p] = conf.groups[i].id]
      /\ conf' = conf /\ edit' = edit /\ rows' = rows /\ torn' = torn
  BY DEF SetAppGroup
<1>2. i \in 1 .. Len(conf.groups) /\ conf.groups[i] \in GroupType
  BY InUse
<1>3. conf.groups[i].id \in DOMAIN rows /\ conf.groups[i].id \in Nat
  <2>1. SameRow(conf.groups[i], rows)
    BY <1>2, InUse DEF UsedFit
  <2>2. QED
    BY <1>2, <2>1 DEF SameRow, SameState, GroupType
<1>4. /\ app' \in [GroupPrograms -> Nat \cup {NoGroup}]
      /\ \A q \in GroupPrograms : app'[q] # NoGroup => app'[q] \in DOMAIN rows
  BY <1>1, <1>3 DEF GroupsGood, AppFits
<1>5. AppFits(rows)'
  BY <1>1, <1>4 DEF AppFits
<1>6. QED
  BY <1>1, <1>4, <1>5 DEF GroupsGood, GroupsInv

LEMMA GroupsOpen ==
  ASSUME GroupsGood, OpenOptions
  PROVE  GroupsInv'
<1>1. /\ edit' = CopyOf(conf)
      /\ conf' = conf /\ rows' = rows /\ app' = app /\ torn' = torn
  BY DEF OpenOptions
<1>2. IsEdit(CopyOf(conf), rows)
  BY CopyIs DEF GroupsGood
<1>3. QED
  BY <1>1, <1>2, EditChanges

LEMMA GroupsClose ==
  ASSUME GroupsGood, CloseOptions
  PROVE  GroupsInv'
<1>1. /\ edit' = NoEdit
      /\ conf' = conf /\ rows' = rows /\ app' = app /\ torn' = torn
  BY DEF CloseOptions
<1>2. IsEdit(edit', rows)
  BY <1>1 DEF IsEdit
<1>3. QED
  BY <1>1, <1>2, EditChanges

(* Rows in some order are groups, each with its row. *)
LEMMA RowsInOrder ==
  ASSUME NEW table, IsTable(table), DOMAIN table # {}, NEW s \in SetToSeqs(DOMAIN table)
  PROVE  /\ s \in Seq(DOMAIN table) /\ s # <<>>
         /\ \A i, j \in 1 .. Len(s) : s[i] = s[j] => i = j
         /\ \A id \in DOMAIN table : \E i \in 1 .. Len(s) : s[i] = id
<1>1. PICK S : S = DOMAIN table
  OBVIOUS
<1>2. IsFiniteSet(S)
  <2>1. PICK b \in Nat : \A d \in S : d <= b
    BY <1>1 DEF IsTable, Numbers
  <2>2. S \in SUBSET Nat
    BY <1>1 DEF IsTable, Numbers
  <2>3. QED
    BY <2>1, <2>2, FS_BoundedSetOfNaturals
<1>3. PICK n \in Nat : n = Cardinality(S)
  BY <1>2, FS_CardinalityType
<1>4. /\ s \in [1 .. n -> S]
      /\ \A i, j \in 1 .. n : i # j => s[i] # s[j]
  BY <1>1, <1>3 DEF SetToSeqs
<1>5. s \in Seq(S) /\ Len(s) = n
  BY <1>4
<1>6. IsFiniteSet(1 .. n) /\ Cardinality(1 .. n) = n
  BY FS_Interval
<1>7. s \in Injection(1 .. n, S)
  BY <1>4 DEF Injection, IsInjective
<1>8. s \in Surjection(1 .. n, S)
  BY <1>2, <1>3, <1>6, <1>7, FS_Injection
<1>9. \A d \in S : \E i \in 1 .. n : s[i] = d
  BY <1>8 DEF Surjection
<1>10. s # <<>>
  BY <1>1, <1>5, <1>9
<1>11. QED
  BY <1>1, <1>4, <1>5, <1>9, <1>10

LEMMA LoadedFits ==
  ASSUME NEW table, IsTable(table), DOMAIN table # {}, NEW s \in SetToSeqs(DOMAIN table), NEW t,
         t = [i \in DOMAIN s |-> [id |-> s[i], text |-> table[s[i]].text,
                                  enabled |-> table[s[i]].enabled, edited |-> FALSE]]
  PROVE  t \in Seq(GroupType) /\ UsedFit(t, table)
<1>1. /\ s \in Seq(DOMAIN table) /\ s # <<>>
      /\ \A i, j \in 1 .. Len(s) : s[i] = s[j] => i = j
      /\ \A id \in DOMAIN table : \E i \in 1 .. Len(s) : s[i] = id
  BY RowsInOrder
<1>2. DOMAIN s = 1 .. Len(s) /\ Len(s) \in Nat /\ Len(s) # 0
  BY <1>1
<1>3. ASSUME NEW i \in 1 .. Len(s)
      PROVE  t[i] \in GroupType /\ t[i].id = s[i] /\ SameRow(t[i], table)
  <2>1. s[i] \in DOMAIN table
    BY <1>1
  <2>2. table[s[i]] \in RowType /\ s[i] \in Nat
    BY <2>1 DEF IsTable, Numbers
  <2>3. t[i] = [id |-> s[i], text |-> table[s[i]].text, enabled |-> table[s[i]].enabled, edited |-> FALSE]
    BY <1>2
  <2>4. /\ t[i].id = s[i] /\ t[i].text = table[s[i]].text /\ t[i].enabled = table[s[i]].enabled
        /\ t[i] \in GroupType
    BY <2>2, <2>3 DEF RowType, GroupType
  <2>5. QED
    BY <2>1, <2>4 DEF SameRow, SameState
<1>4. t \in [1 .. Len(s) -> GroupType]
  BY <1>2, <1>3
<1>5. t \in Seq(GroupType) /\ Len(t) = Len(s)
  BY <1>2, <1>4
<1>6. t # <<>>
  BY <1>2, <1>5
<1>7. /\ \A i \in 1 .. Len(t) : SameRow(t[i], table)
      /\ \A i, j \in 1 .. Len(t) : t[i].id = t[j].id => i = j
      /\ \A id \in DOMAIN table : \E i \in 1 .. Len(t) : t[i].id = id
  <2>1. \A i \in 1 .. Len(t) : i \in 1 .. Len(s) /\ SameRow(t[i], table) /\ t[i].id = s[i]
    BY <1>3, <1>5
  <2>2. ASSUME NEW i \in 1 .. Len(t), NEW j \in 1 .. Len(t), t[i].id = t[j].id
        PROVE  i = j
    <3>1. i \in 1 .. Len(s) /\ j \in 1 .. Len(s) /\ s[i] = s[j]
      BY <2>1, <2>2
    <3>2. QED
      BY <1>1, <3>1, Zenon
  <2>3. ASSUME NEW id \in DOMAIN table
        PROVE  \E i \in 1 .. Len(t) : t[i].id = id
    <3>1. PICK i \in 1 .. Len(s) : s[i] = id
      BY <1>1, Zenon
    <3>2. QED
      BY <1>3, <1>5, <3>1
  <2>4. QED
    BY <2>1, <2>2, <2>3, Zenon
<1>8. QED
  BY <1>5, <1>6, <1>7, Zenon DEF UsedFit

LEMMA GroupsRestart ==
  ASSUME GroupsGood, RestartGroups
  PROVE  GroupsInv'
<1>1. /\ edit' = NoEdit /\ rows' = rows /\ app' = app /\ torn' = torn
  BY DEF RestartGroups
<1>2. PICK s \in SetToSeqs(DOMAIN rows) :
        conf' = [groups |-> [i \in DOMAIN s |-> [id |-> s[i], text |-> rows[s[i]].text,
                               enabled |-> rows[s[i]].enabled, edited |-> FALSE]],
                 bits |-> ini_bits]
  BY Zenon DEF RestartGroups
<1>3. PICK t : t = [i \in DOMAIN s |-> [id |-> s[i], text |-> rows[s[i]].text,
                                        enabled |-> rows[s[i]].enabled, edited |-> FALSE]]
  OBVIOUS
<1>4. DOMAIN rows # {}
  <2>1. 1 \in 1 .. Len(conf.groups)
    <3>1. conf.groups # <<>> /\ conf.groups \in Seq(GroupType)
      BY InUse DEF UsedFit
    <3>2. QED
      BY <3>1
  <2>2. conf.groups[1].id \in DOMAIN rows
    BY <2>1, InUse, Zenon DEF UsedFit, SameRow, SameState
  <2>3. QED
    BY <2>2
<1>5. t \in Seq(GroupType) /\ UsedFit(t, rows)
  BY <1>3, <1>4, LoadedFits, InUse
<1>6. IsEdit(edit', rows)
  BY <1>1 DEF IsEdit, GroupsGood
<1>7. conf' = [groups |-> t, bits |-> ini_bits]
  BY <1>2, <1>3
<1>8. QED
  BY <1>1, <1>5, <1>6, <1>7, UsedChanges

-----------------------------------------------------------------------------
(* What is edited in the window. *)

LEMMA CopyEdited ==
  ASSUME NEW e, NEW t \in Seq(GroupType), NEW u \in Seq(Nat), NEW table, CopyFit(t, u, table),
         e \in CopyType(e.bits), e.groups = t, e.removed = u
  PROVE  IsCopy(e, table)
  BY DEF IsCopy

(* The window is open: its copy fits, or a save of it had failed.          *)
LEMMA GroupsEdit ==
  ASSUME GroupsGood, NEW e, EditCopy(e), edit # NoEdit,
         "torn" \in DOMAIN e /\ e.torn = edit.torn,
         IsCopy(edit, rows) => IsCopy(e, rows)
  PROVE  GroupsInv'
<1>1. /\ edit' = e
      /\ conf' = conf /\ rows' = rows /\ app' = app /\ torn' = torn
  BY DEF EditCopy
<1>2. IsEdit(edit, rows)
  BY InUse
<1>3. IsEdit(e, rows)
  BY <1>2 DEF IsEdit
<1>4. QED
  BY <1>1, <1>3, EditChanges

LEMMA GroupsAdd ==
  ASSUME GroupsGood, edit # NoEdit, NEW x \in GroupTexts, AddAppGroup(x)
  PROVE  GroupsInv'
<1>1. PICK id : id = IF edit.removed = <<>> THEN 0 ELSE Last(edit.removed)
  OBVIOUS
<1>2. PICK g : g = [id |-> id, text |-> x, enabled |-> TRUE, edited |-> TRUE]
  OBVIOUS
<1>3. PICK u : u = IF edit.removed = <<>> THEN edit.removed ELSE Front(edit.removed)
  OBVIOUS
<1>4. PICK t : t = Append(edit.groups, g)
  OBVIOUS
<1>5. PICK e : /\ e = [edit EXCEPT !.opt = TRUE, !.groups = t, !.removed = u]
               /\ EditCopy(e)
  BY <1>1, <1>2, <1>3, <1>4 DEF AddAppGroup
<1>6. "torn" \in DOMAIN edit
  BY InUse DEF IsEdit
<1>7. "torn" \in DOMAIN e /\ e.torn = edit.torn
  BY <1>5, <1>6
<1>8. ASSUME IsCopy(edit, rows)
      PROVE  IsCopy(e, rows)
  <2>1. /\ edit \in CopyType(edit.bits) /\ edit.groups \in Seq(GroupType) /\ edit.removed \in Seq(Nat)
        /\ CopyFit(edit.groups, edit.removed, rows) /\ 0 \notin DOMAIN rows
    BY <1>8, InUse DEF IsCopy, CopyType, IsTable
  <2>2. id \in Nat /\ u \in Seq(Nat)
    <3>1. CASE edit.removed = <<>>
      BY <1>1, <1>3, <2>1, <3>1
    <3>2. CASE edit.removed # <<>>
      <4>1. PICK r \in Seq(Nat) : r = edit.removed
        BY <2>1
      <4>2. r # <<>> /\ id = r[Len(r)] /\ u = SubSeq(r, 1, Len(r) - 1)
        BY <1>1, <1>3, <3>2, <4>1, Zenon DEF Last, Front
      <4>3. Len(r) \in 1 .. Len(r) /\ Len(r) - 1 \in Nat
        BY <4>2
      <4>4. QED
        BY <4>2, <4>3
    <3>3. QED
      BY <3>1, <3>2
  <2>3. g \in GroupType /\ g.edited /\ g.id = id
    BY <1>2, <2>2 DEF GroupType
  <2>4. t \in Seq(GroupType) /\ CopyFit(t, u, rows)
    <3>1. /\ edit.removed = <<>> => g.id = 0 /\ u = edit.removed
          /\ edit.removed # <<>> => g.id = Last(edit.removed) /\ u = Front(edit.removed)
      BY <1>1, <1>3, <2>3
    <3>2. PICK s \in Seq(GroupType), r \in Seq(Nat) : s = edit.groups /\ r = edit.removed
      BY <2>1
    <3>3. /\ t = Append(s, g) /\ CopyFit(s, r, rows)
          /\ r = <<>> => g.id = 0 /\ u = r
          /\ r # <<>> => g.id = Last(r) /\ u = Front(r)
      BY <1>4, <2>1, <3>1, <3>2, Zenon
    <3>4. QED
      BY <2>1, <2>2, <2>3, <3>3, AddedFits, Zenon
  <2>5. e \in CopyType(e.bits) /\ e.groups = t /\ e.removed = u
    BY <1>5, <2>1, <2>2, <2>4 DEF CopyType
  <2>6. QED
    BY <2>2, <2>4, <2>5, CopyEdited
<1>9. QED
  BY <1>5, <1>7, <1>8, GroupsEdit

LEMMA GroupsMove ==
  ASSUME GroupsGood, edit # NoEdit, NEW from, NEW to, MoveAppGroup(from, to)
  PROVE  GroupsInv'
<1>1. PICK t : t = InsertAt(RemoveAt(edit.groups, from), to, edit.groups[from])
  OBVIOUS
<1>2. PICK e : e = [edit EXCEPT !.opt = TRUE, !.groups = t] /\ EditCopy(e)
  BY <1>1 DEF MoveAppGroup
<1>3. "torn" \in DOMAIN edit
  BY InUse DEF IsEdit
<1>4. "torn" \in DOMAIN e /\ e.torn = edit.torn
  BY <1>2, <1>3
<1>5. ASSUME IsCopy(edit, rows)
      PROVE  IsCopy(e, rows)
  <2>1. /\ edit \in CopyType(edit.bits) /\ edit.groups \in Seq(GroupType) /\ edit.removed \in Seq(Nat)
        /\ CopyFit(edit.groups, edit.removed, rows)
    BY <1>5 DEF IsCopy, CopyType
  <2>2. from \in 1 .. Len(edit.groups) /\ to \in 1 .. Len(edit.groups)
    BY <2>1 DEF MoveAppGroup
  <2>3. t \in Seq(GroupType) /\ Len(t) = Len(edit.groups) /\ \E f : TakenAt(edit.groups, t, {}, f)
    <3>1. PICK s \in Seq(GroupType) : s = edit.groups
      BY <2>1
    <3>2. from \in 1 .. Len(s) /\ to \in 1 .. Len(s) /\ t = InsertAt(RemoveAt(s, from), to, s[from])
      BY <1>1, <2>2, <3>1
    <3>3. t \in Seq(GroupType) /\ Len(t) = Len(s) /\ \E f : TakenAt(s, t, {}, f)
      <4>1. PICK i \in 1 .. Len(s), k \in 1 .. Len(s) : i = from /\ k = to
        BY <3>2
      <4>2. t = InsertAt(RemoveAt(s, i), k, s[i])
        BY <3>2, <4>1
      <4>3. QED
        BY <4>2, MovedPlaces
    <3>4. QED
      BY <3>1, <3>3
  <2>4. CopyFit(t, edit.removed, rows)
    BY <2>1, <2>3, MovedFits
  <2>5. e \in CopyType(e.bits) /\ e.groups = t /\ e.removed = edit.removed
    BY <1>2, <2>1, <2>3 DEF CopyType
  <2>6. QED
    BY <2>1, <2>3, <2>4, <2>5, CopyEdited
<1>6. QED
  BY <1>2, <1>4, <1>5, GroupsEdit

LEMMA GroupsRemove ==
  ASSUME GroupsGood, edit # NoEdit, NEW i, RemoveAppGroup(i)
  PROVE  GroupsInv'
<1>1. PICK t : t = RemoveAt(edit.groups, i)
  OBVIOUS
<1>2. PICK u : u = IF edit.groups[i].id = 0 THEN edit.removed ELSE Append(edit.removed, edit.groups[i].id)
  OBVIOUS
<1>3. PICK e : e = [edit EXCEPT !.opt = TRUE, !.groups = t, !.removed = u] /\ EditCopy(e)
  BY <1>1, <1>2 DEF RemoveAppGroup
<1>4. "torn" \in DOMAIN edit
  BY InUse DEF IsEdit
<1>5. "torn" \in DOMAIN e /\ e.torn = edit.torn
  BY <1>3, <1>4
<1>6. ASSUME IsCopy(edit, rows)
      PROVE  IsCopy(e, rows)
  <2>1. /\ edit \in CopyType(edit.bits) /\ edit.groups \in Seq(GroupType) /\ edit.removed \in Seq(Nat)
        /\ CopyFit(edit.groups, edit.removed, rows) /\ 0 \notin DOMAIN rows
    BY <1>6, InUse DEF IsCopy, CopyType, IsTable
  <2>2. i \in 1 .. Len(edit.groups) /\ Len(edit.groups) > 1
    BY <2>1 DEF RemoveAppGroup
  <2>3. t \in Seq(GroupType) /\ Len(t) = Len(edit.groups) - 1 /\ \E f : TakenAt(edit.groups, t, {i}, f)
    BY <1>1, <2>1, <2>2, RemovedPlaces
  <2>4. /\ edit.groups[i].id = 0 => CopyFit(t, edit.removed, rows)
        /\ edit.groups[i].id # 0 => CopyFit(t, Append(edit.removed, edit.groups[i].id), rows)
    BY <2>1, <2>2, <2>3, RemovedFits
  <2>5. edit.groups[i].id \in Nat
    <3>1. edit.groups[i] \in GroupType
      BY <2>1, <2>2
    <3>2. QED
      BY <3>1 DEF GroupType
  <2>6. u \in Seq(Nat) /\ CopyFit(t, u, rows)
    BY <1>2, <2>1, <2>4, <2>5
  <2>7. e \in CopyType(e.bits) /\ e.groups = t /\ e.removed = u
    BY <1>3, <2>1, <2>3, <2>6 DEF CopyType
  <2>8. QED
    BY <2>3, <2>6, <2>7, CopyEdited
<1>7. QED
  BY <1>3, <1>5, <1>6, GroupsEdit

(* One group is edited. *)
LEMMA OneEdited ==
  ASSUME NEW s \in Seq(GroupType), NEW i \in 1 .. Len(s), NEW g \in GroupType, g.id = s[i].id, g.edited,
         NEW t, t = [s EXCEPT ![i] = g], NEW removed, NEW table, CopyFit(s, removed, table)
  PROVE  t \in Seq(GroupType) /\ CopyFit(t, removed, table)
<1>1. t \in Seq(GroupType) /\ Len(t) = Len(s) /\ \A j \in 1 .. Len(s) : t[j] = IF j = i THEN g ELSE s[j]
  OBVIOUS
<1>2. EditedTo(s, t)
  BY <1>1 DEF EditedTo
<1>3. QED
  BY <1>1, <1>2, EditedFits

LEMMA GroupsRename ==
  ASSUME GroupsGood, edit # NoEdit, NEW i, NEW x \in GroupTexts, EditAppGroup(i, x)
  PROVE  GroupsInv'
<1>1. PICK e : e = [edit EXCEPT !.opt = TRUE, !.groups[i].text = x, !.groups[i].edited = TRUE] /\ EditCopy(e)
  BY DEF EditAppGroup
<1>2. "torn" \in DOMAIN edit
  BY InUse DEF IsEdit
<1>3. "torn" \in DOMAIN e /\ e.torn = edit.torn
  BY <1>1, <1>2
<1>4. ASSUME IsCopy(edit, rows)
      PROVE  IsCopy(e, rows)
  <2>1. /\ edit \in CopyType(edit.bits) /\ edit.groups \in Seq(GroupType) /\ edit.removed \in Seq(Nat)
        /\ CopyFit(edit.groups, edit.removed, rows)
    BY <1>4 DEF IsCopy, CopyType
  <2>2. PICK s \in Seq(GroupType) : s = edit.groups
    BY <2>1
  <2>3. i \in 1 .. Len(s) /\ i \in DOMAIN s
    BY <2>2 DEF EditAppGroup
  <2>4. PICK g : g = s[i]
    OBVIOUS
  <2>5. PICK h : h = [id |-> g.id, text |-> x, enabled |-> g.enabled, edited |-> TRUE]
    OBVIOUS
  <2>6. g \in GroupType /\ h \in GroupType /\ h.id = g.id /\ h.edited
    <3>1. g \in GroupType
      BY <2>3, <2>4
    <3>2. h \in GroupType /\ h.id = g.id /\ h.edited = TRUE
      BY <2>5, <3>1 DEF GroupType
    <3>3. QED
      BY <3>1, <3>2, Zenon
  <2>7. [[g EXCEPT !.text = x] EXCEPT !.edited = TRUE] = h
    <3>1. PICK y \in BOOLEAN : y = TRUE
      OBVIOUS
    <3>2. PICK z \in BOOLEAN : z = g.edited
      BY <2>6 DEF GroupType
    <3>3. PICK g2 : g2 = [g EXCEPT !.text = x]
      OBVIOUS
    <3>4. g2 = [id |-> g.id, text |-> x, enabled |-> g.enabled, edited |-> g.edited]
      BY <2>6, <3>3 DEF GroupType
    <3>5. g2 = [id |-> g.id, text |-> x, enabled |-> g.enabled, edited |-> z]
      BY <3>2, <3>4, Zenon
    <3>6. h = [id |-> g.id, text |-> x, enabled |-> g.enabled, edited |-> y]
      BY <2>5, <3>1, Zenon
    <3>7. h = [g2 EXCEPT !.edited = y]
      BY <3>5, <3>6
    <3>8. QED
      BY <3>1, <3>3, <3>7, Zenon
  <2>8. PICK t : t = [s EXCEPT ![i] = h]
    OBVIOUS
  <2>9. t \in Seq(GroupType) /\ CopyFit(t, edit.removed, rows)
    BY <2>1, <2>2, <2>3, <2>4, <2>6, <2>8, OneEdited
  <2>10. e = [edit EXCEPT !.opt = TRUE, !.groups = t]
    <3>1. t = [[s EXCEPT ![i].text = x] EXCEPT ![i].edited = TRUE]
      BY <2>3, <2>4, <2>7, <2>8
    <3>2. QED
      BY <1>1, <2>1, <2>2, <3>1 DEF CopyType
  <2>11. e \in CopyType(e.bits) /\ e.groups = t /\ e.removed = edit.removed
    BY <2>1, <2>9, <2>10 DEF CopyType
  <2>12. QED
    BY <2>1, <2>9, <2>11, CopyEdited
<1>5. QED
  BY <1>1, <1>3, <1>4, GroupsEdit

LEMMA GroupsEnable ==
  ASSUME GroupsGood, edit # NoEdit, NEW i, EnableAppGroup(i)
  PROVE  GroupsInv'
<1>1. PICK e : /\ e = [edit EXCEPT !.flags = TRUE, !.groups[i].enabled = ~ @, !.groups[i].edited = TRUE]
               /\ EditCopy(e)
  BY DEF EnableAppGroup
<1>2. "torn" \in DOMAIN edit
  BY InUse DEF IsEdit
<1>3. "torn" \in DOMAIN e /\ e.torn = edit.torn
  BY <1>1, <1>2
<1>4. ASSUME IsCopy(edit, rows)
      PROVE  IsCopy(e, rows)
  <2>1. /\ edit \in CopyType(edit.bits) /\ edit.groups \in Seq(GroupType) /\ edit.removed \in Seq(Nat)
        /\ CopyFit(edit.groups, edit.removed, rows)
    BY <1>4 DEF IsCopy, CopyType
  <2>2. PICK s \in Seq(GroupType) : s = edit.groups
    BY <2>1
  <2>3. i \in 1 .. Len(s) /\ i \in DOMAIN s
    BY <2>2 DEF EnableAppGroup
  <2>4. PICK g : g = s[i]
    OBVIOUS
  <2>5. g \in GroupType
    BY <2>3, <2>4
  <2>6. PICK z \in BOOLEAN : z = g.edited
    BY <2>5 DEF GroupType
  <2>7. PICK b \in BOOLEAN : b = (~ g.enabled)
    <3>1. (~ g.enabled) \in BOOLEAN
      BY <2>5 DEF GroupType
    <3>2. QED
      BY <3>1, Zenon
  <2>8. PICK h : h = [id |-> g.id, text |-> g.text, enabled |-> b, edited |-> TRUE]
    OBVIOUS
  <2>9. h \in GroupType /\ h.id = g.id /\ h.edited
    <3>1. h \in GroupType /\ h.id = g.id /\ h.edited = TRUE
      BY <2>5, <2>8 DEF GroupType
    <3>2. QED
      BY <3>1, Zenon
  <2>10. [[g EXCEPT !.enabled = ~ @] EXCEPT !.edited = TRUE] = h
    <3>1. PICK y \in BOOLEAN : y = TRUE
      OBVIOUS
    <3>2. PICK g2 : g2 = [g EXCEPT !.enabled = b]
      OBVIOUS
    <3>3. g2 = [id |-> g.id, text |-> g.text, enabled |-> b, edited |-> g.edited]
      BY <2>5, <3>2 DEF GroupType
    <3>4. g2 = [id |-> g.id, text |-> g.text, enabled |-> b, edited |-> z]
      BY <2>6, <3>3, Zenon
    <3>5. h = [id |-> g.id, text |-> g.text, enabled |-> b, edited |-> y]
      BY <2>8, <3>1, Zenon
    <3>6. h = [g2 EXCEPT !.edited = y]
      BY <3>4, <3>5
    <3>7. [g EXCEPT !.enabled = ~ @] = g2
      BY <2>7, <3>2, Zenon
    <3>8. QED
      BY <3>1, <3>6, <3>7, Zenon
  <2>11. PICK t : t = [s EXCEPT ![i] = h]
    OBVIOUS
  <2>12. t \in Seq(GroupType) /\ CopyFit(t, edit.removed, rows)
    BY <2>1, <2>2, <2>3, <2>4, <2>9, <2>11, OneEdited
  <2>13. e = [edit EXCEPT !.flags = TRUE, !.groups = t]
    <3>1. t = [[s EXCEPT ![i].enabled = ~ @] EXCEPT ![i].edited = TRUE]
      BY <2>3, <2>4, <2>10, <2>11
    <3>2. QED
      BY <1>1, <2>1, <2>2, <3>1, ZenonT(60) DEF CopyType
  <2>14. e \in CopyType(e.bits) /\ e.groups = t /\ e.removed = edit.removed
    BY <2>1, <2>12, <2>13 DEF CopyType
  <2>15. QED
    BY <2>1, <2>12, <2>14, CopyEdited
<1>5. QED
  BY <1>1, <1>3, <1>4, GroupsEdit

-----------------------------------------------------------------------------
(* The copy is saved, or is to be. *)

(* A save fails: a copy of which groups were saved before is marked.       *)
LEMMA GroupsSaveFails ==
  ASSUME GroupsGood, edit # NoEdit, NEW n, SaveFails(n)
  PROVE  GroupsInv'
<1>1. PICK gs : gs = SaveAppGroups(n).groups
  OBVIOUS
<1>2. /\ edit' = [edit EXCEPT !.groups = gs, !.bits = BitsToSave, !.torn = @ \/ gs # edit.groups]
      /\ conf' = conf /\ rows' = rows /\ app' = app /\ torn' = torn
  BY <1>1, Zenon DEF SaveFails
<1>3. PICK x : x = (edit.torn \/ gs # edit.groups)
  OBVIOUS
<1>4. x \in BOOLEAN
  BY <1>3
<1>5. "torn" \in DOMAIN edit /\ edit.torn \in BOOLEAN /\ (edit.torn \/ IsCopy(edit, rows))
  BY InUse DEF IsEdit
<1>6. edit' = [edit EXCEPT !.groups = gs, !.bits = BitsToSave, !.torn = x]
  BY <1>2, <1>3, Zenon
<1>7. "torn" \in DOMAIN edit' /\ edit'.torn = x
  BY <1>5, <1>6
<1>8. ASSUME ~ x
      PROVE  IsCopy(edit', rows)
  <2>1. gs = edit.groups /\ IsCopy(edit, rows)
    BY <1>3, <1>5, <1>8, Zenon
  <2>2. edit \in CopyType(edit.bits) /\ edit.groups \in Seq(GroupType) /\ CopyFit(edit.groups, edit.removed, rows)
    BY <2>1 DEF IsCopy, CopyType
  <2>4. edit' \in CopyType(edit'.bits) /\ edit'.groups = edit.groups /\ edit'.removed = edit.removed
    BY <1>4, <1>6, <2>1, <2>2 DEF CopyType
  <2>5. QED
    BY <2>2, <2>4 DEF IsCopy
<1>9. IsEdit(edit', rows)
  BY <1>4, <1>7, <1>8, Zenon DEF IsEdit
<1>10. QED
  BY <1>2, <1>9, EditChanges

LEMMA GroupsSaveOnlyFlags ==
  ASSUME GroupsGood, SaveOnlyFlags
  PROVE  GroupsInv'
<1>1. edit # NoEdit
  BY DEF SaveOnlyFlags
<1>2. PICK bits : bits = BitsToSave
  OBVIOUS
<1>3. PICK t : t = ApplyBits(conf.groups, bits)
  OBVIOUS
<1>4. /\ conf' = [groups |-> t, bits |-> bits]
      /\ edit' = NoEdit \/ edit' = [edit EXCEPT !.flags = FALSE, !.bits = bits]
      /\ rows' = rows /\ app' = app /\ torn' = torn
  BY <1>2, <1>3 DEF SaveOnlyFlags
<1>5. t \in Seq(GroupType) /\ UsedFit(t, rows)
  BY <1>3, InUse, BitsApplied, AppliedUsed
<1>6. ASSUME edit' = [edit EXCEPT !.flags = FALSE, !.bits = bits]
      PROVE  IsEdit(edit', rows)
  <2>1. "torn" \in DOMAIN edit /\ edit.torn \in BOOLEAN /\ (edit.torn \/ IsCopy(edit, rows))
    BY <1>1, InUse DEF IsEdit
  <2>2. "torn" \in DOMAIN edit' /\ edit'.torn = edit.torn
    BY <1>6, <2>1
  <2>3. ASSUME IsCopy(edit, rows)
        PROVE  IsCopy(edit', rows)
    <3>1. edit \in CopyType(edit.bits) /\ CopyFit(edit.groups, edit.removed, rows)
      BY <2>3 DEF IsCopy
    <3>2. edit' \in CopyType(edit'.bits) /\ edit'.groups = edit.groups /\ edit'.removed = edit.removed
      BY <1>6, <3>1 DEF CopyType
    <3>3. QED
      BY <3>1, <3>2 DEF IsCopy
  <2>4. QED
    BY <2>1, <2>2, <2>3, Zenon DEF IsEdit
<1>7. IsEdit(edit', rows)
  BY <1>4, <1>6 DEF IsEdit
<1>8. QED
  BY <1>4, <1>5, <1>7, UsedChanges

LEMMA GroupsSaveAll ==
  ASSUME GroupsGood, SaveAll
  PROVE  GroupsInv'
<1>1. PICK saved : saved = SaveAppGroups(Len(edit.groups))
  OBVIOUS
<1>2. PICK removed : removed = Range(edit.removed)
  OBVIOUS
<1>3. /\ edit # NoEdit
      /\ rows' = [id \in DOMAIN saved.rows \ removed |-> saved.rows[id]]
      /\ app' = ResetGroups(removed, saved.groups[1].id)
      /\ conf' = [groups |-> saved.groups, bits |-> BitsToSave]
      /\ edit' = NoEdit \/ edit' = CopyOf(conf')
      /\ torn' = (torn \/ edit.torn)
  BY <1>1, <1>2, Zenon DEF SaveAll
<1>4. edit.torn \in BOOLEAN /\ (edit.torn \/ IsCopy(edit, rows)) /\ torn \in BOOLEAN
  BY <1>3, InUse DEF IsEdit, GroupsGood
<1>5. torn' \in BOOLEAN
  BY <1>3, <1>4
<1>6. CASE edit.torn
  <2>1. torn'
    BY <1>3, <1>6, Zenon
  <2>2. QED
    BY <1>5, <2>1, Zenon DEF GroupsInv
<1>7. CASE ~ edit.torn
  <2>1. /\ edit \in CopyType(edit.bits) /\ CopyFit(edit.groups, edit.removed, rows)
        /\ edit.groups \in Seq(GroupType) /\ edit.removed \in Seq(Nat)
    BY <1>4, <1>7 DEF IsCopy, CopyType
  <2>2. SavedUpTo(edit.groups, rows, saved, Len(edit.groups))
    BY <1>1, <2>1, InUse, SavesAll
  <2>3. PICK t : t = [id \in DOMAIN saved.rows \ removed |-> saved.rows[id]]
    OBVIOUS
  <2>4. /\ IsTable(t) /\ saved.groups \in Seq(GroupType) /\ UsedFit(saved.groups, t)
        /\ saved.groups[1].id \in DOMAIN t /\ DOMAIN rows \ removed \subseteq DOMAIN t
    <3>1. PICK gs \in Seq(GroupType), ids \in Seq(Nat) : gs = edit.groups /\ ids = edit.removed
      BY <2>1
    <3>2. /\ CopyFit(gs, ids, rows) /\ SavedUpTo(gs, rows, saved, Len(gs)) /\ removed = Range(ids)
      BY <1>2, <2>1, <2>2, <3>1, Zenon
    <3>3. TableSaved(rows, saved, removed, t)
      BY <2>3, <3>2, AllSaved
    <3>4. QED
      BY <3>3 DEF TableSaved
  <2>5. rows' = t
    BY <1>3, <2>3
  <2>6. IsUsed(conf', t)
    BY <1>3, <2>4 DEF IsUsed
  <2>7. IsEdit(edit', t)
    <3>1. PICK c : c = conf'
      OBVIOUS
    <3>2. IsEdit(CopyOf(c), t)
      BY <2>4, <2>6, <3>1, CopyIs
    <3>3. QED
      BY <1>3, <3>1, <3>2 DEF IsEdit
  <2>8. PICK d : d = saved.groups[1].id
    OBVIOUS
  <2>9. d \in DOMAIN t /\ d \in Nat
    BY <2>4, <2>8 DEF IsTable, Numbers
  <2>10. app' = [p \in GroupPrograms |-> IF app[p] \in removed THEN d ELSE app[p]]
    BY <1>3, <2>8 DEF ResetGroups
  <2>11. /\ app' \in [GroupPrograms -> Nat \cup {NoGroup}]
         /\ \A p \in GroupPrograms : app'[p] # NoGroup => app'[p] \in DOMAIN t
    BY <2>4, <2>9, <2>10 DEF GroupsGood, AppFits
  <2>12. AppFits(rows)'
    BY <2>5, <2>11 DEF AppFits
  <2>13. QED
    BY <1>5, <2>4, <2>5, <2>6, <2>7, <2>11, <2>12 DEF GroupsInv
<1>8. QED
  BY <1>6, <1>7

LEMMA GroupsStart ==
  ASSUME GroupsInit
  PROVE  GroupsInv
<1>1. PICK given \in GroupTexts : given = CHOOSE x \in GroupTexts : TRUE
  BY GroupsAssumption
<1>2. PICK g : g = [id |-> 1, text |-> given, enabled |-> TRUE, edited |-> FALSE]
  OBVIOUS
<1>3. PICK row : row = [order |-> 1, text |-> given, enabled |-> TRUE]
  OBVIOUS
<1>4. /\ conf.groups = <<g>> /\ rows = [id \in {1} |-> row] /\ edit = NoEdit
      /\ app = [p \in GroupPrograms |-> NoGroup] /\ torn = FALSE
  BY <1>1, <1>2, <1>3 DEF GroupsInit
<1>5. g \in GroupType /\ g.id = 1 /\ g.text = given /\ g.enabled = TRUE
  BY <1>2 DEF GroupType
<1>6. row \in RowType /\ row.text = given /\ row.enabled = TRUE
  BY <1>3 DEF RowType
<1>7. IsTable(rows)
  <2>1. DOMAIN rows = {1} /\ rows \in [DOMAIN rows -> RowType]
    BY <1>4, <1>6
  <2>2. Numbers({1})
    BY DEF Numbers
  <2>3. QED
    BY <2>1, <2>2 DEF IsTable
<1>8. UsedFit(<<g>>, rows) /\ <<g>> \in Seq(GroupType)
  <2>1. SameRow(g, rows)
    BY <1>4, <1>5, <1>6 DEF SameRow, SameState
  <2>2. <<g>> \in Seq(GroupType) /\ Len(<<g>>) = 1 /\ <<g>>[1] = g /\ <<g>> # <<>>
    BY <1>5
  <2>3. \A i \in 1 .. Len(<<g>>) : i = 1
    BY <2>2
  <2>4. DOMAIN rows = {1} /\ 1 \in 1 .. Len(<<g>>)
    BY <1>4, <2>2
  <2>5. QED
    BY <1>5, <2>1, <2>2, <2>3, <2>4 DEF UsedFit
<1>9. IsUsed(conf, rows) /\ IsEdit(edit, rows) /\ AppFits(rows)
  BY <1>4, <1>8 DEF IsUsed, IsEdit, AppFits
<1>10. QED
  BY <1>4, <1>7, <1>9 DEF GroupsInv

LEMMA GroupsSteps ==
  ASSUME GroupsGood, GroupsNext
  PROVE  GroupsInv'
<1>1. CASE EditOptions
  <2>1. edit # NoEdit
    BY <1>1 DEF EditOptions
  <2>2. CASE \E x \in GroupTexts : AddAppGroup(x) \/ \E i \in DOMAIN edit.groups : EditAppGroup(i, x)
    BY <2>1, <2>2, GroupsAdd, GroupsRename, Zenon
  <2>3. CASE \E i \in DOMAIN edit.groups :
               \/ RemoveAppGroup(i) \/ EnableAppGroup(i)
               \/ \E j \in DOMAIN edit.groups : MoveAppGroup(i, j)
    BY <2>1, <2>3, GroupsRemove, GroupsEnable, GroupsMove, Zenon
  <2>4. CASE \E n \in 0 .. Len(edit.groups) : SaveFails(n)
    BY <2>1, <2>4, GroupsSaveFails, Zenon
  <2>5. QED
    BY <1>1, <2>2, <2>3, <2>4, Zenon DEF EditOptions
<1>2. CASE \E i \in DOMAIN conf.groups : SaveTrayFlags(i) \/ \E p \in GroupPrograms : SetAppGroup(p, i)
  BY <1>2, GroupsTray, GroupsSetApp, Zenon
<1>3. CASE SaveOtherFlag \/ RestartGroups \/ OpenOptions \/ CloseOptions
  BY <1>3, GroupsOtherFlag, GroupsRestart, GroupsOpen, GroupsClose, Zenon
<1>4. CASE SaveOnlyFlags \/ SaveAll
  BY <1>4, GroupsSaveOnlyFlags, GroupsSaveAll, Zenon
<1>5. QED
  BY <1>1, <1>2, <1>3, <1>4, Zenon DEF GroupsNext

(* A history stays. *)
LEMMA TornStays ==
  ASSUME torn \in BOOLEAN, torn, [GroupsNext]_groupVars
  PROVE  GroupsInv'
<1>1. torn' = torn \/ torn' = (torn \/ edit.torn)
  BY DEF GroupsNext, groupVars, SaveTrayFlags, SaveOtherFlag, SaveFlags, SetAppGroup, RestartGroups,
         OpenOptions, CloseOptions, EditOptions, EditCopy, AddAppGroup, MoveAppGroup, RemoveAppGroup,
         EditAppGroup, EnableAppGroup, SaveFails, SaveOnlyFlags, SaveAll
<1>2. torn' = TRUE
  BY <1>1
<1>3. QED
  BY <1>2 DEF GroupsInv

(* GroupsInv, of groups, rows, and the copy of the options window, is      *)
(* inductive.                                                              *)
THEOREM GroupsInvariant == GroupsSpec => []GroupsInv
<1>1. GroupsInit => GroupsInv
  BY GroupsStart
<1>2. GroupsInv /\ [GroupsNext]_groupVars => GroupsInv'
  <2>1. SUFFICES ASSUME GroupsInv, [GroupsNext]_groupVars PROVE GroupsInv'
    OBVIOUS
  <2>2. CASE torn
    BY <2>1, <2>2, TornStays DEF GroupsInv
  <2>3. CASE ~ torn
    <3>1. GroupsGood
      BY <2>1, <2>3, Zenon DEF GroupsInv, GroupsGood
    <3>2. CASE GroupsNext
      BY <3>1, <3>2, GroupsSteps
    <3>3. CASE UNCHANGED groupVars
      BY <2>1, <3>3 DEF GroupsInv, groupVars, AppFits
    <3>4. QED
      BY <2>1, <3>2, <3>3
  <2>4. QED
    BY <2>2, <2>3
<1>3. QED
  BY <1>1, <1>2, PTL DEF GroupsSpec

(* Groups in use, rows of the table and the programs of groups are in step *)
(* whatever is added, removed, moved, edited, switched and saved, for any  *)
(* numbers of groups and edits, unless a save that failed was repeated.    *)
THEOREM GroupsStayInTable == GroupsSpec => []GroupsInTable
<1>1. GroupsInv => GroupsInTable
  <2>1. SUFFICES ASSUME GroupsInv, ~ torn PROVE GroupsInTable
    BY DEF GroupsInTable
  <2>2. /\ IsTable(rows) /\ conf.groups \in Seq(GroupType) /\ UsedFit(conf.groups, rows) /\ AppFits(rows)
    BY <2>1 DEF GroupsInv, IsUsed
  <2>3. DOMAIN conf.groups = 1 .. Len(conf.groups)
    BY <2>2
  <2>4. 0 \notin DOMAIN rows
    BY <2>2 DEF IsTable
  <2>5. ASSUME NEW i \in DOMAIN conf.groups
        PROVE  LET g == conf.groups[i] IN
               /\ g.id # 0 /\ g.id \in DOMAIN rows /\ rows[g.id].text = g.text
               /\ ~ g.edited => rows[g.id].enabled = g.enabled
               /\ \A j \in DOMAIN conf.groups \ {i} : conf.groups[j].id # g.id
    <3>1. SameRow(conf.groups[i], rows)
      BY <2>2, <2>3 DEF UsedFit
    <3>2. \A j \in DOMAIN conf.groups : conf.groups[j].id = conf.groups[i].id => i = j
      BY <2>2, <2>3 DEF UsedFit
    <3>3. conf.groups[i].id # 0
      BY <2>4, <3>1 DEF SameRow, SameState
    <3>4. \A j \in DOMAIN conf.groups \ {i} : conf.groups[j].id # conf.groups[i].id
      BY <3>2
    <3>5. QED
      BY <3>1, <3>3, <3>4, Zenon DEF SameRow, SameState
  <2>6. \A id \in DOMAIN rows : \E i \in DOMAIN conf.groups : conf.groups[i].id = id
    BY <2>2, <2>3 DEF UsedFit
  <2>7. QED
    BY <2>2, <2>5, <2>6, Zenon DEF GroupsInTable, AppFits
<1>2. QED
  BY <1>1, GroupsInvariant, PTL

-----------------------------------------------------------------------------
(* Patterns of programs: the match and what they mean.  Both go from the   *)
(* end of the pattern to its begin.                                        *)

LEMMA FirstIs ==
  ASSUME NEW S \in SUBSET Nat, S # {}
  PROVE  FirstOf(S) \in S /\ \A m \in S : FirstOf(S) <= m
BY NatMin DEF FirstOf

(* The asterisks at i end before k, where there is no more. *)
LEMMA StarsEnd ==
  ASSUME NEW p, Len(p) \in Nat, NEW i \in 1 .. Len(p), p[i] = Star
  PROVE  /\ AfterStars(p, i) \in i + 1 .. Len(p) + 1
         /\ AfterStars(p, i) <= Len(p) => p[AfterStars(p, i)] # Star
         /\ p[AfterStars(p, i) - 1] = Star
<1>. DEFINE S == { n \in i + 1 .. Len(p) + 1 : n > Len(p) \/ p[n] # Star }
<1>1. S \in SUBSET Nat /\ Len(p) + 1 \in S
  OBVIOUS
<1>. HIDE DEF S
<1>2. PICK k : k = FirstOf(S)
  OBVIOUS
<1>3. k \in S /\ \A m \in S : k <= m
  BY <1>1, <1>2, FirstIs
<1>4. AfterStars(p, i) = k
  BY <1>2, Zenon DEF AfterStars, S
<1>5. k \in i + 1 .. Len(p) + 1 /\ (k > Len(p) \/ p[k] # Star)
  BY <1>3 DEF S
<1>6. p[k - 1] = Star
  <2>1. CASE k - 1 = i
    BY <2>1
  <2>2. CASE k - 1 # i
    <3>1. k - 1 \in i + 1 .. Len(p) + 1 /\ ~ (k <= k - 1) /\ k \in Nat
      BY <1>5, <2>2
    <3>2. k - 1 \notin S
      BY <1>3, <3>1
    <3>. QED
      BY <3>1, <3>2 DEF S
  <2>. QED
    BY <2>1, <2>2
<1>. QED
  BY <1>4, <1>5, <1>6

(* Where a character is from j on: nowhere, or first at the least place. *)
LEMMA FirstWhere ==
  ASSUME NEW t, Len(t) \in Nat, NEW j \in Nat \ {0}, NEW c, Where(t, j, c) # {}
  PROVE  /\ FirstOf(Where(t, j, c)) \in j .. Len(t)
         /\ t[FirstOf(Where(t, j, c))] = c
         /\ \A m \in j .. Len(t) : t[m] = c => FirstOf(Where(t, j, c)) <= m
<1>1. Where(t, j, c) \in SUBSET Nat
  BY DEF Where
<1>2. FirstOf(Where(t, j, c)) \in Where(t, j, c) /\ \A m \in Where(t, j, c) : FirstOf(Where(t, j, c)) <= m
  BY <1>1, FirstIs
<1>. QED
  BY <1>2 DEF Where

-----------------------------------------------------------------------------
(* Classes of characters. *)

ClassTurn(p, k, rest) ==
  [single \in BOOLEAN |->
     IF k > Len(p) THEN [end |-> 0, chars |-> {}]
     ELSE LET range == p[k] = Dash /\ single /\ k < Len(p) /\ p[k + 1] # Close
              after == IF range THEN k + 2 ELSE k + 1
              chars == IF range THEN p[k - 1] .. p[k + 1] ELSE {p[k]}
          IN IF after <= Len(p) /\ p[after] = Close
             THEN [end |-> after, chars |-> chars]
             ELSE [rest[after][~ range] EXCEPT !.chars = @ \cup chars]]

IsClass(p, f) == f = [k \in 1 .. Len(p) + 1 |-> ClassTurn(p, k, f)]

ClassFound(p, k, c) ==
  /\ c = [end |-> c.end, chars |-> c.chars]
  /\ c.end # 0 => c.end \in k + 1 .. Len(p) /\ p[c.end] = Close

LEMMA ClassTurnLocal ==
  ASSUME NEW p, Len(p) \in Nat, NEW k \in 1 .. Len(p) + 1, NEW f, NEW g,
         \A n \in k + 1 .. Len(p) + 1 : f[n] = g[n]
  PROVE  ClassTurn(p, k, f) = ClassTurn(p, k, g)
<1>1. CASE k > Len(p)
  BY <1>1 DEF ClassTurn
<1>2. CASE k <= Len(p)
  <2>1. f[k + 1] = g[k + 1]
    BY <1>2
  <2>2. k < Len(p) => f[k + 2] = g[k + 2]
    OBVIOUS
  <2>. QED
    BY <2>1, <2>2 DEF ClassTurn
<1>. QED
  BY <1>1, <1>2

(* The recursive function of a class exists. *)
LEMMA ClassExists ==
  ASSUME NEW p, Len(p) \in Nat
  PROVE  \E f : IsClass(p, f)
<1>. DEFINE N == Len(p) + 1
            Later(n, f) == f = [i \in N - n .. N |-> ClassTurn(p, i, f)]
            Good == { n \in Nat : n < N => \E f : Later(n, f) }
<1>1. N \in Nat /\ N > 0
  OBVIOUS
<1>2. 0 \in Good
  <2>1. PICK f : f = [i \in N .. N |-> ClassTurn(p, i, <<>>)]
    OBVIOUS
  <2>2. N \in 1 .. Len(p) + 1 /\ \A k \in N + 1 .. Len(p) + 1 : f[k] = <<>>[k]
    BY <1>1
  <2>3. ClassTurn(p, N, f) = ClassTurn(p, N, <<>>)
    BY <2>2, ClassTurnLocal
  <2>4. \A i \in N .. N : f[i] = ClassTurn(p, i, f)
    BY <1>1, <2>1, <2>3
  <2>5. f = [i \in N .. N |-> ClassTurn(p, i, f)]
    BY <2>1, <2>4
  <2>6. N - 0 = N
    BY <1>1
  <2>7. Later(0, f)
    BY <2>5, <2>6
  <2>. QED
    BY <2>7
<1>3. ASSUME NEW n \in Nat, n \in Good
      PROVE  n + 1 \in Good
  <2>1. SUFFICES ASSUME n + 1 < N PROVE \E g : Later(n + 1, g)
    OBVIOUS
  <2>2. PICK f : Later(n, f)
    BY <1>1, <1>3, <2>1
  <2>3. PICK a : a = N - (n + 1)
    OBVIOUS
  <2>4. a \in 1 .. Len(p) /\ N - n = a + 1
    BY <1>1, <2>1, <2>3
  <2>5. PICK g : g = [i \in a .. N |-> IF i = a THEN ClassTurn(p, a, f) ELSE f[i]]
    OBVIOUS
  <2>6. \A i \in a + 1 .. N : g[i] = f[i]
    BY <1>1, <2>4, <2>5
  <2>7. ASSUME NEW i \in a .. N
        PROVE  g[i] = ClassTurn(p, i, g)
    <3>1. i \in 1 .. Len(p) + 1 /\ \A k \in i + 1 .. Len(p) + 1 : f[k] = g[k]
      BY <1>1, <2>4, <2>6
    <3>2. ClassTurn(p, i, f) = ClassTurn(p, i, g)
      BY <3>1, ClassTurnLocal
    <3>3. CASE i = a
      BY <2>5, <3>2, <3>3
    <3>4. CASE i # a
      <4>1. i \in a + 1 .. N
        BY <1>1, <2>4, <3>4
      <4>2. f[i] = ClassTurn(p, i, f)
        BY <2>2, <2>4, <4>1
      <4>. QED
        BY <2>6, <3>2, <4>1, <4>2
    <3>. QED
      BY <3>3, <3>4
  <2>8. g = [i \in a .. N |-> g[i]]
    BY <2>5
  <2>9. g = [i \in a .. N |-> ClassTurn(p, i, g)]
    BY <2>7, <2>8
  <2>10. Later(n + 1, g)
    BY <2>3, <2>9
  <2>. QED
    BY <2>10
<1>. HIDE DEF Good
<1>4. Len(p) \in Good
  BY <1>2, <1>3, NatSetInduction
<1>5. PICK f : Later(Len(p), f)
  BY <1>1, <1>4 DEF Good
<1>6. N - Len(p) = 1
  BY <1>1
<1>. QED
  BY <1>5, <1>6 DEF IsClass

LEMMA ClassValue ==
  ASSUME NEW p, Len(p) \in Nat, NEW i
  PROVE  \E f : /\ IsClass(p, f)
                /\ Class(p, i) = f[IF Negated(p, i) THEN i + 2 ELSE i + 1][FALSE]
<1>1. PICK f : f = CHOOSE g : IsClass(p, g)
  OBVIOUS
<1>2. IsClass(p, f)
  BY <1>1, ClassExists
<1>3. Class(p, i) = f[IF Negated(p, i) THEN i + 2 ELSE i + 1][FALSE]
  BY <1>1, Zenon DEF Class, IsClass, ClassTurn
<1>. QED
  BY <1>2, <1>3

LEMMA ClassTurnFound ==
  ASSUME NEW p, Len(p) \in Nat, NEW k \in 1 .. Len(p) + 1, NEW f, NEW single \in BOOLEAN,
         \A n \in k + 1 .. Len(p) + 1 : \A s \in BOOLEAN : ClassFound(p, n, f[n][s])
  PROVE  ClassFound(p, k, ClassTurn(p, k, f)[single])
<1>1. CASE k > Len(p)
  BY <1>1 DEF ClassTurn, ClassFound
<1>2. CASE k <= Len(p)
  <2>1. PICK range \in BOOLEAN : range = (p[k] = Dash /\ single /\ k < Len(p) /\ p[k + 1] # Close)
    BY Zenon
  <2>2. PICK after : after = IF range THEN k + 2 ELSE k + 1
    OBVIOUS
  <2>3. PICK chars : chars = IF range THEN p[k - 1] .. p[k + 1] ELSE {p[k]}
    OBVIOUS
  <2>4. after \in k + 1 .. Len(p) + 1
    <3>1. range => k < Len(p)
      BY <2>1, Zenon
    <3>2. CASE range
      BY <1>2, <2>2, <3>1, <3>2
    <3>3. CASE ~ range
      BY <1>2, <2>2, <3>3
    <3>. QED
      BY <3>2, <3>3
  <2>5. PICK c : c = f[after][~ range]
    OBVIOUS
  <2>6. ClassFound(p, after, c)
    BY <2>4, <2>5
  <2>7. ClassTurn(p, k, f)[single] =
          IF after <= Len(p) /\ p[after] = Close
          THEN [end |-> after, chars |-> chars] ELSE [c EXCEPT !.chars = @ \cup chars]
    <3>1. ~ (k > Len(p))
      BY <1>2
    <3>. QED
      BY <2>1, <2>2, <2>3, <2>5, <3>1, Zenon DEF ClassTurn
  <2>8. CASE after <= Len(p) /\ p[after] = Close
    BY <2>4, <2>7, <2>8 DEF ClassFound
  <2>9. CASE ~ (after <= Len(p) /\ p[after] = Close)
    <3>1. ClassTurn(p, k, f)[single] = [end |-> c.end, chars |-> c.chars \cup chars]
      BY <2>6, <2>7, <2>9 DEF ClassFound
    <3>. QED
      BY <2>4, <2>6, <3>1 DEF ClassFound
  <2>. QED
    BY <2>8, <2>9
<1>. QED
  BY <1>1, <1>2

(* A class that ends, ends behind its begin, with its bracket. *)
LEMMA ClassEnds ==
  ASSUME NEW p, Len(p) \in Nat, NEW i \in 1 .. Len(p), Class(p, i).end # 0
  PROVE  Class(p, i).end \in i + 1 .. Len(p) /\ p[Class(p, i).end] = Close
<1>1. PICK f : /\ IsClass(p, f)
               /\ Class(p, i) = f[IF Negated(p, i) THEN i + 2 ELSE i + 1][FALSE]
  BY ClassValue
<1>2. PICK N : N = Len(p) + 1
  OBVIOUS
<1>. DEFINE Found(k) == \A s \in BOOLEAN : ClassFound(p, k, f[k][s])
            Good == { n \in Nat : n < N => \A k \in N - n .. N : Found(k) }
<1>3. ASSUME NEW k \in 1 .. N, \A m \in k + 1 .. N : Found(m)
      PROVE  Found(k)
  <2>1. f[k] = ClassTurn(p, k, f)
    BY <1>1, <1>2 DEF IsClass
  <2>. QED
    BY <1>2, <1>3, <2>1, ClassTurnFound
<1>. HIDE DEF Found
<1>4. 0 \in Good
  BY <1>2, <1>3
<1>5. ASSUME NEW n \in Nat, n \in Good
      PROVE  n + 1 \in Good
  <2>1. SUFFICES ASSUME n + 1 < N, NEW k \in N - (n + 1) .. N PROVE Found(k)
    OBVIOUS
  <2>2. \A m \in N - n .. N : Found(m)
    BY <1>2, <1>5, <2>1
  <2>3. CASE k = N - (n + 1)
    <3>1. k \in 1 .. N /\ \A m \in k + 1 .. N : m \in N - n .. N
      BY <1>2, <2>1, <2>3
    <3>. QED
      BY <1>3, <2>2, <3>1
  <2>4. CASE k # N - (n + 1)
    <3>1. k \in N - n .. N
      BY <1>2, <2>1, <2>4
    <3>. QED
      BY <2>2, <3>1
  <2>. QED
    BY <2>3, <2>4
<1>. HIDE DEF Good
<1>6. Len(p) \in Good
  BY <1>4, <1>5, NatSetInduction
<1>7. \A k \in N - Len(p) .. N : Found(k)
  BY <1>2, <1>6 DEF Good
<1>8. \A k \in 1 .. N : Found(k)
  BY <1>2, <1>7
<1>9. PICK k : k = IF Negated(p, i) THEN i + 2 ELSE i + 1
  OBVIOUS
<1>10. k \in i + 1 .. N
  BY <1>2, <1>9 DEF Negated
<1>11. ClassFound(p, k, Class(p, i))
  <2>1. Class(p, i) = f[k][FALSE]
    BY <1>1, <1>9
  <2>2. Found(k)
    BY <1>2, <1>8, <1>10
  <2>. QED
    BY <2>1, <2>2 DEF Found
<1>. QED
  BY <1>2, <1>10, <1>11 DEF ClassFound

-----------------------------------------------------------------------------
(* The functions of the match and of the meaning. *)

LoopRow(p, t, i, rest) == [j \in 1 .. Len(t) + 1 |-> Turn(p, t, i, j, rest)]
IsLoop(p, t, f) == f = [i \in 1 .. Len(p) + 1 |-> LoopRow(p, t, i, f)]

MeansRow(p, t, i, rest) == [j \in 1 .. Len(t) + 1 |-> MeansFrom(p, t, i, j, rest)]
IsMeanings(p, t, f) == f = [i \in 1 .. Len(p) + 1 |-> MeansRow(p, t, i, f)]

LEMMA LoopRowLocal ==
  ASSUME NEW p, NEW t, Len(p) \in Nat, NEW i \in 1 .. Len(p) + 1, NEW f, NEW g,
         \A n \in i + 1 .. Len(p) + 1 : f[n] = g[n]
  PROVE  LoopRow(p, t, i, f) = LoopRow(p, t, i, g)
<1>1. SUFFICES ASSUME NEW j \in 1 .. Len(t) + 1 PROVE Turn(p, t, i, j, f) = Turn(p, t, i, j, g)
  BY DEF LoopRow
<1>2. CASE i > Len(p)
  BY <1>2, Zenon DEF Turn
<1>3. CASE ~ (i > Len(p)) /\ p[i] = Star
  <2>1. PICK k : k = AfterStars(p, i)
    OBVIOUS
  <2>2. i \in 1 .. Len(p) /\ k \in i + 1 .. Len(p) + 1
    BY <1>3, <2>1, StarsEnd
  <2>3. f[k] = g[k] /\ (k <= Len(p) => f[k + 1] = g[k + 1])
    BY <2>2
  <2>4. k <= Len(p) \/ k > Len(p)
    BY <2>2
  <2>5. Asterisks(p, t, i, j, f) = Asterisks(p, t, i, j, g)
    BY <2>1, <2>3, <2>2, <2>4, Zenon DEF Asterisks
  <2>. QED
    BY <1>3, <2>5, Zenon DEF Turn
<1>4. CASE ~ (i > Len(p)) /\ p[i] = Open
  <2>1. i \in 1 .. Len(p) /\ p[i] # Star
    BY <1>4 DEF Star, Open
  <2>2. PICK e : e = Class(p, i).end
    OBVIOUS
  <2>3. e # 0 => e \in i + 1 .. Len(p)
    BY <2>1, <2>2, ClassEnds
  <2>4. e # 0 => f[e + 1] = g[e + 1]
    BY <2>1, <2>3
  <2>. QED
    BY <1>4, <2>1, <2>2, <2>4, Zenon DEF Turn
<1>5. CASE ~ (i > Len(p)) /\ p[i] # Star /\ p[i] # Open
  <2>1. f[i + 1] = g[i + 1]
    BY <1>5
  <2>. QED
    BY <1>5, <2>1, Zenon DEF Turn
<1>. QED
  BY <1>2, <1>3, <1>4, <1>5

LEMMA MeansRowLocal ==
  ASSUME NEW p, NEW t, Len(p) \in Nat, NEW i \in 1 .. Len(p) + 1, NEW f, NEW g,
         \A n \in i + 1 .. Len(p) + 1 : f[n] = g[n]
  PROVE  MeansRow(p, t, i, f) = MeansRow(p, t, i, g)
<1>1. SUFFICES ASSUME NEW j \in 1 .. Len(t) + 1
               PROVE  MeansFrom(p, t, i, j, f) = MeansFrom(p, t, i, j, g)
  BY DEF MeansRow
<1>2. CASE i > Len(p)
  <2>1. ~ (i <= Len(p))
    BY <1>2
  <2>. QED
    BY <2>1, Zenon DEF MeansFrom
<1>3. CASE i <= Len(p) /\ p[i] = Star
  <2>1. PICK k : k = AfterStars(p, i)
    OBVIOUS
  <2>2. i \in 1 .. Len(p) /\ k \in i + 1 .. Len(p) + 1
    BY <1>3, <2>1, StarsEnd
  <2>3. f[k] = g[k] /\ (k <= Len(p) => f[k + 1] = g[k + 1])
    BY <2>2
  <2>4. p[i] # Open
    BY <1>3 DEF Star, Open
  <2>. QED
    BY <1>3, <2>1, <2>3, <2>4, Zenon DEF MeansFrom
<1>4. CASE i <= Len(p) /\ p[i] = Open
  <2>1. i \in 1 .. Len(p) /\ p[i] # Star
    BY <1>4 DEF Star, Open
  <2>2. PICK e : e = Class(p, i).end
    OBVIOUS
  <2>3. e # 0 => e \in i + 1 .. Len(p)
    BY <2>1, <2>2, ClassEnds
  <2>4. e # 0 => f[e + 1] = g[e + 1]
    BY <2>1, <2>3
  <2>. QED
    BY <1>4, <2>1, <2>2, <2>4, Zenon DEF MeansFrom
<1>5. CASE i <= Len(p) /\ p[i] # Star /\ p[i] # Open
  <2>1. f[i + 1] = g[i + 1]
    BY <1>5
  <2>. QED
    BY <1>5, <2>1, Zenon DEF MeansFrom
<1>. QED
  BY <1>2, <1>3, <1>4, <1>5

(* The recursive function of the match exists. *)
LEMMA LoopExists ==
  ASSUME NEW p, NEW t, Len(p) \in Nat
  PROVE  \E f : IsLoop(p, t, f)
<1>. DEFINE N == Len(p) + 1
            Later(n, f) == f = [i \in N - n .. N |-> LoopRow(p, t, i, f)]
            Good == { n \in Nat : n < N => \E f : Later(n, f) }
<1>1. N \in Nat /\ N > 0
  OBVIOUS
<1>2. 0 \in Good
  <2>1. PICK f : f = [i \in N .. N |-> LoopRow(p, t, i, <<>>)]
    OBVIOUS
  <2>2. N \in 1 .. Len(p) + 1 /\ \A k \in N + 1 .. Len(p) + 1 : f[k] = <<>>[k]
    BY <1>1
  <2>3. LoopRow(p, t, N, f) = LoopRow(p, t, N, <<>>)
    BY <2>2, LoopRowLocal
  <2>4. \A i \in N .. N : f[i] = LoopRow(p, t, i, f)
    BY <1>1, <2>1, <2>3
  <2>5. f = [i \in N .. N |-> LoopRow(p, t, i, f)]
    BY <2>1, <2>4
  <2>6. N - 0 = N
    BY <1>1
  <2>7. Later(0, f)
    BY <2>5, <2>6
  <2>. QED
    BY <2>7
<1>3. ASSUME NEW n \in Nat, n \in Good
      PROVE  n + 1 \in Good
  <2>1. SUFFICES ASSUME n + 1 < N PROVE \E g : Later(n + 1, g)
    OBVIOUS
  <2>2. PICK f : Later(n, f)
    BY <1>1, <1>3, <2>1
  <2>3. PICK a : a = N - (n + 1)
    OBVIOUS
  <2>4. a \in 1 .. Len(p) /\ N - n = a + 1
    BY <1>1, <2>1, <2>3
  <2>5. PICK g : g = [i \in a .. N |-> IF i = a THEN LoopRow(p, t, a, f) ELSE f[i]]
    OBVIOUS
  <2>6. \A i \in a + 1 .. N : g[i] = f[i]
    BY <1>1, <2>4, <2>5
  <2>7. ASSUME NEW i \in a .. N
        PROVE  g[i] = LoopRow(p, t, i, g)
    <3>1. i \in 1 .. Len(p) + 1 /\ \A k \in i + 1 .. Len(p) + 1 : f[k] = g[k]
      BY <1>1, <2>4, <2>6
    <3>2. LoopRow(p, t, i, f) = LoopRow(p, t, i, g)
      BY <3>1, LoopRowLocal
    <3>3. CASE i = a
      BY <2>5, <3>2, <3>3
    <3>4. CASE i # a
      <4>1. i \in a + 1 .. N
        BY <1>1, <2>4, <3>4
      <4>2. f[i] = LoopRow(p, t, i, f)
        BY <2>2, <2>4, <4>1
      <4>. QED
        BY <2>6, <3>2, <4>1, <4>2
    <3>. QED
      BY <3>3, <3>4
  <2>8. g = [i \in a .. N |-> g[i]]
    BY <2>5
  <2>9. g = [i \in a .. N |-> LoopRow(p, t, i, g)]
    BY <2>7, <2>8
  <2>10. Later(n + 1, g)
    BY <2>3, <2>9
  <2>. QED
    BY <2>10
<1>. HIDE DEF Good
<1>4. Len(p) \in Good
  BY <1>2, <1>3, NatSetInduction
<1>5. PICK f : Later(Len(p), f)
  BY <1>1, <1>4 DEF Good
<1>6. N - Len(p) = 1
  BY <1>1
<1>. QED
  BY <1>5, <1>6 DEF IsLoop

(* The recursive function of the meaning exists. *)
LEMMA MeansExists ==
  ASSUME NEW p, NEW t, Len(p) \in Nat
  PROVE  \E f : IsMeanings(p, t, f)
<1>. DEFINE N == Len(p) + 1
            Later(n, f) == f = [i \in N - n .. N |-> MeansRow(p, t, i, f)]
            Good == { n \in Nat : n < N => \E f : Later(n, f) }
<1>1. N \in Nat /\ N > 0
  OBVIOUS
<1>2. 0 \in Good
  <2>1. PICK f : f = [i \in N .. N |-> MeansRow(p, t, i, <<>>)]
    OBVIOUS
  <2>2. N \in 1 .. Len(p) + 1 /\ \A k \in N + 1 .. Len(p) + 1 : f[k] = <<>>[k]
    BY <1>1
  <2>3. MeansRow(p, t, N, f) = MeansRow(p, t, N, <<>>)
    BY <2>2, MeansRowLocal
  <2>4. \A i \in N .. N : f[i] = MeansRow(p, t, i, f)
    BY <1>1, <2>1, <2>3
  <2>5. f = [i \in N .. N |-> MeansRow(p, t, i, f)]
    BY <2>1, <2>4
  <2>6. N - 0 = N
    BY <1>1
  <2>7. Later(0, f)
    BY <2>5, <2>6
  <2>. QED
    BY <2>7
<1>3. ASSUME NEW n \in Nat, n \in Good
      PROVE  n + 1 \in Good
  <2>1. SUFFICES ASSUME n + 1 < N PROVE \E g : Later(n + 1, g)
    OBVIOUS
  <2>2. PICK f : Later(n, f)
    BY <1>1, <1>3, <2>1
  <2>3. PICK a : a = N - (n + 1)
    OBVIOUS
  <2>4. a \in 1 .. Len(p) /\ N - n = a + 1
    BY <1>1, <2>1, <2>3
  <2>5. PICK g : g = [i \in a .. N |-> IF i = a THEN MeansRow(p, t, a, f) ELSE f[i]]
    OBVIOUS
  <2>6. \A i \in a + 1 .. N : g[i] = f[i]
    BY <1>1, <2>4, <2>5
  <2>7. ASSUME NEW i \in a .. N
        PROVE  g[i] = MeansRow(p, t, i, g)
    <3>1. i \in 1 .. Len(p) + 1 /\ \A k \in i + 1 .. Len(p) + 1 : f[k] = g[k]
      BY <1>1, <2>4, <2>6
    <3>2. MeansRow(p, t, i, f) = MeansRow(p, t, i, g)
      BY <3>1, MeansRowLocal
    <3>3. CASE i = a
      BY <2>5, <3>2, <3>3
    <3>4. CASE i # a
      <4>1. i \in a + 1 .. N
        BY <1>1, <2>4, <3>4
      <4>2. f[i] = MeansRow(p, t, i, f)
        BY <2>2, <2>4, <4>1
      <4>. QED
        BY <2>6, <3>2, <4>1, <4>2
    <3>. QED
      BY <3>3, <3>4
  <2>8. g = [i \in a .. N |-> g[i]]
    BY <2>5
  <2>9. g = [i \in a .. N |-> MeansRow(p, t, i, g)]
    BY <2>7, <2>8
  <2>10. Later(n + 1, g)
    BY <2>3, <2>9
  <2>. QED
    BY <2>10
<1>. HIDE DEF Good
<1>4. Len(p) \in Good
  BY <1>2, <1>3, NatSetInduction
<1>5. PICK f : Later(Len(p), f)
  BY <1>1, <1>4 DEF Good
<1>6. N - Len(p) = 1
  BY <1>1
<1>. QED
  BY <1>5, <1>6 DEF IsMeanings

LEMMA LoopValue ==
  ASSUME NEW p, NEW t, Len(p) \in Nat
  PROVE  IsLoop(p, t, Loop(p, t))
<1>1. Loop(p, t) = CHOOSE g : IsLoop(p, t, g)
  BY Zenon DEF Loop, IsLoop, LoopRow
<1>. QED
  BY <1>1, LoopExists

LEMMA MeaningsValue ==
  ASSUME NEW p, NEW t, Len(p) \in Nat
  PROVE  IsMeanings(p, t, Meanings(p, t))
<1>1. Meanings(p, t) = CHOOSE g : IsMeanings(p, t, g)
  BY Zenon DEF Meanings, IsMeanings, MeansRow
<1>. QED
  BY <1>1, MeansExists

-----------------------------------------------------------------------------
(* What the ways to end say of the meaning. *)

NoSep(t, a, b) == \A m \in a .. b - 1 : t[m] # Sep

(* Where the rest of the pattern may be tried: after a separator when it   *)
(* follows one in the pattern.                                             *)
MayBegin(p, t, i, j) == j = 1 \/ (i # 1 /\ (p[i - 1] = Sep => t[j - 1] = Sep))

(* No match at any later place; or at none in the same directory.          *)
Verdict(p, t, i, j, res, M) ==
  /\ res \in {"match", "nomatch", "abort_all", "abort_to_starstar"}
  /\ res = "match" <=> M[i][j]
  /\ res = "abort_all" => \A n \in j .. Len(t) + 1 : MayBegin(p, t, i, n) => ~ M[i][n]
  /\ res = "abort_to_starstar" =>
       \A n \in j .. Len(t) + 1 : MayBegin(p, t, i, n) /\ NoSep(t, j, n) => ~ M[i][n]

Matched(p, t, L, M) ==
  /\ Len(p) \in Nat /\ Len(t) \in Nat
  /\ IsLoop(p, t, L) /\ IsMeanings(p, t, M)

Judged(p, t, L, M, i) ==
  \A j \in 1 .. Len(t) + 1 : MayBegin(p, t, i, j) => Verdict(p, t, i, j, L[i][j], M)

(* One character, or a class. *)
TakesChar(p, i, c) ==
  IF p[i] = Open THEN Class(p, i).end # 0 /\ InClass(p, i, c)
  ELSE c = p[i] \/ (p[i] = Question /\ c # Sep)
After(p, i) == IF p[i] = Open THEN Class(p, i).end + 1 ELSE i + 1

LEMMA TakesOne ==
  ASSUME NEW p, Len(p) \in Nat, NEW i \in 1 .. Len(p), NEW c, TakesChar(p, i, c)
  PROVE  /\ After(p, i) \in i + 1 .. Len(p) + 1
         /\ p[After(p, i) - 1] = Sep => p[i] = Sep
         /\ c = Sep <=> p[i] = Sep
<1>1. CASE p[i] = Open
  <2>1. PICK e : e = Class(p, i).end
    OBVIOUS
  <2>2. e \in i + 1 .. Len(p) /\ p[e] = Close /\ c # Sep
    BY <1>1, <2>1, ClassEnds DEF TakesChar, InClass
  <2>3. After(p, i) = e + 1 /\ p[(e + 1) - 1] = Close
    BY <1>1, <2>1, <2>2 DEF After
  <2>. QED
    BY <1>1, <2>2, <2>3 DEF Open, Sep, Close
<1>2. CASE p[i] # Open
  <2>1. After(p, i) = i + 1 /\ p[(i + 1) - 1] = p[i]
    BY <1>2 DEF After
  <2>2. c = p[i] \/ (p[i] = Question /\ c # Sep)
    BY <1>2 DEF TakesChar
  <2>. QED
    BY <2>1, <2>2 DEF Question, Sep
<1>. QED
  BY <1>1, <1>2

LEMMA MatchedTypes ==
  ASSUME NEW p, NEW t, NEW L, NEW M, Matched(p, t, L, M),
         NEW i \in 1 .. Len(p) + 1, NEW j \in 1 .. Len(t) + 1
  PROVE  /\ L[i][j] = Turn(p, t, i, j, L)
         /\ M[i][j] = MeansFrom(p, t, i, j, M)
         /\ M[i][j] \in BOOLEAN
<1>1. L[i] = LoopRow(p, t, i, L) /\ M[i] = MeansRow(p, t, i, M)
  BY DEF Matched, IsLoop, IsMeanings
<1>2. L[i][j] = Turn(p, t, i, j, L)
  BY <1>1 DEF LoopRow
<1>3. M[i][j] = MeansFrom(p, t, i, j, M)
  BY <1>1 DEF MeansRow
<1>4. MeansFrom(p, t, i, j, M) \in BOOLEAN
  BY Zenon DEF MeansFrom
<1>. QED
  BY <1>2, <1>3, <1>4

LEMMA AtOne ==
  ASSUME NEW p, NEW t, NEW L, NEW M, Matched(p, t, L, M),
         NEW i \in 1 .. Len(p), NEW j \in 1 .. Len(t) + 1, p[i] # Star
  PROVE  /\ M[i][j] <=> j <= Len(t) /\ TakesChar(p, i, t[j]) /\ M[After(p, i)][j + 1]
         /\ L[i][j] = IF j > Len(t) \/ (p[i] = Open /\ Class(p, i).end = 0) THEN "abort_all"
                      ELSE IF TakesChar(p, i, t[j]) THEN L[After(p, i)][j + 1] ELSE "nomatch"
<1>1. i \in 1 .. Len(p) + 1 /\ ~ (i > Len(p)) /\ i <= Len(p)
  BY DEF Matched
<1>2. L[i][j] = Turn(p, t, i, j, L) /\ M[i][j] = MeansFrom(p, t, i, j, M)
  BY <1>1, MatchedTypes
<1>3. M[i][j] <=> j <= Len(t) /\ TakesChar(p, i, t[j]) /\ M[After(p, i)][j + 1]
  <2>1. CASE p[i] = Open
    BY <1>1, <1>2, <2>1, Zenon DEF MeansFrom, TakesChar, After
  <2>2. CASE p[i] # Open
    <3>1. p[i] \notin {Star, Open}
      BY <2>2
    <3>. QED
      BY <1>1, <1>2, <2>2, <3>1, Zenon DEF MeansFrom, TakesChar, After
  <2>. QED
    BY <2>1, <2>2
<1>4. L[i][j] = IF j > Len(t) \/ (p[i] = Open /\ Class(p, i).end = 0) THEN "abort_all"
                ELSE IF TakesChar(p, i, t[j]) THEN L[After(p, i)][j + 1] ELSE "nomatch"
  BY <1>1, <1>2, Zenon DEF Turn, TakesChar, After
<1>. QED
  BY <1>3, <1>4

LEMMA AtEnd ==
  ASSUME NEW p, NEW t, NEW L, NEW M, Matched(p, t, L, M)
  PROVE  Judged(p, t, L, M, Len(p) + 1)
<1>1. PICK i : i = Len(p) + 1
  OBVIOUS
<1>2. i \in 1 .. Len(p) + 1 /\ i > Len(p) /\ ~ (i <= Len(p))
  BY <1>1 DEF Matched
<1>3. SUFFICES ASSUME NEW j \in 1 .. Len(t) + 1
               PROVE  Verdict(p, t, i, j, L[i][j], M)
  BY <1>1 DEF Judged
<1>4. L[i][j] = IF j > Len(t) THEN "match" ELSE "nomatch"
  BY <1>2, <1>3, MatchedTypes DEF Turn
<1>5. M[i][j] <=> j > Len(t)
  <2>1. M[i][j] = MeansFrom(p, t, i, j, M)
    BY <1>2, <1>3, MatchedTypes
  <2>. QED
    BY <1>2, <2>1, Zenon DEF MeansFrom
<1>. QED
  BY <1>4, <1>5 DEF Verdict

LEMMA OneJudged ==
  ASSUME NEW p, NEW t, NEW L, NEW M, Matched(p, t, L, M),
         NEW i \in 1 .. Len(p), p[i] # Star,
         \A k \in i + 1 .. Len(p) + 1 : Judged(p, t, L, M, k)
  PROVE  Judged(p, t, L, M, i)
<1>1. SUFFICES ASSUME NEW j \in 1 .. Len(t) + 1, MayBegin(p, t, i, j)
               PROVE  Verdict(p, t, i, j, L[i][j], M)
  BY DEF Judged
<1>. DEFINE T == Len(t) + 1
<1>2. Len(p) \in Nat /\ Len(t) \in Nat
  BY DEF Matched
<1>3. PICK k : k = After(p, i)
  OBVIOUS
<1>4. \A n \in 1 .. T : M[i][n] <=> n <= Len(t) /\ TakesChar(p, i, t[n]) /\ M[k][n + 1]
  BY <1>3, AtOne
<1>5. L[i][j] = IF j > Len(t) \/ (p[i] = Open /\ Class(p, i).end = 0) THEN "abort_all"
                ELSE IF TakesChar(p, i, t[j]) THEN L[k][j + 1] ELSE "nomatch"
  BY <1>3, AtOne
<1>6. \A c : TakesChar(p, i, c) =>
        /\ k \in i + 1 .. Len(p) + 1
        /\ p[k - 1] = Sep => p[i] = Sep
        /\ c = Sep <=> p[i] = Sep
  BY <1>2, <1>3, TakesOne
<1>7. CASE j > Len(t)
  <2>1. L[i][j] = "abort_all" /\ \A n \in j .. T : ~ M[i][n]
    BY <1>1, <1>2, <1>4, <1>5, <1>7
  <2>. QED
    BY <1>1, <1>2, <2>1 DEF Verdict
<1>8. CASE p[i] = Open /\ Class(p, i).end = 0
  <2>1. L[i][j] = "abort_all" /\ \A n \in 1 .. T : ~ M[i][n]
    BY <1>4, <1>5, <1>8 DEF TakesChar
  <2>. QED
    BY <1>1, <1>2, <2>1 DEF Verdict
<1>9. CASE ~ (j > Len(t)) /\ ~ (p[i] = Open /\ Class(p, i).end = 0) /\ ~ TakesChar(p, i, t[j])
  BY <1>1, <1>4, <1>5, <1>9 DEF Verdict
<1>10. CASE ~ (j > Len(t)) /\ ~ (p[i] = Open /\ Class(p, i).end = 0) /\ TakesChar(p, i, t[j])
  <2>1. PICK r : r = L[k][j + 1]
    OBVIOUS
  <2>2. L[i][j] = r
    BY <1>5, <1>10, <2>1
  <2>3. k \in i + 1 .. Len(p) + 1 /\ k # 1 /\ j + 1 \in 1 .. T /\ (t[j] = Sep <=> p[i] = Sep)
        /\ (p[k - 1] = Sep => p[i] = Sep)
    BY <1>1, <1>2, <1>6, <1>10
  <2>4. \A n \in 1 .. T : M[i][n] => MayBegin(p, t, k, n + 1) /\ n + 1 \in 1 .. T /\ M[k][n + 1]
                                     /\ (t[n] = Sep <=> p[i] = Sep)
    <3>1. SUFFICES ASSUME NEW n \in 1 .. T, M[i][n]
                   PROVE  MayBegin(p, t, k, n + 1) /\ n + 1 \in 1 .. T /\ M[k][n + 1]
                          /\ (t[n] = Sep <=> p[i] = Sep)
      BY Zenon
    <3>2. n <= Len(t) /\ TakesChar(p, i, t[n]) /\ M[k][n + 1]
      BY <1>4, <3>1
    <3>3. (t[n] = Sep <=> p[i] = Sep) /\ t[(n + 1) - 1] = t[n]
      BY <1>2, <1>6, <3>2
    <3>4. MayBegin(p, t, k, n + 1)
      BY <2>3, <3>3 DEF MayBegin
    <3>. QED
      BY <1>2, <3>2, <3>3, <3>4
  <2>5. MayBegin(p, t, k, j + 1)
    <3>1. t[(j + 1) - 1] = t[j]
      BY <1>2
    <3>. QED
      BY <2>3, <3>1 DEF MayBegin
  <2>6. Verdict(p, t, k, j + 1, r, M)
    BY <2>1, <2>3, <2>5 DEF Judged
  <2>7. r = "match" <=> M[i][j]
    BY <1>1, <1>2, <1>4, <1>10, <2>6 DEF Verdict
  <2>8. ASSUME r = "abort_all", NEW n \in j .. T
        PROVE  ~ M[i][n]
    <3>1. n \in 1 .. T /\ (n + 1 \in 1 .. T => n + 1 \in j + 1 .. T)
      BY <1>1, <1>2
    <3>. QED
      BY <2>4, <2>6, <2>8, <3>1 DEF Verdict
  <2>9. ASSUME r = "abort_to_starstar", NEW n \in j .. T, NoSep(t, j, n), M[i][n]
        PROVE  FALSE
    <3>1. n \in 1 .. T /\ (n + 1 \in 1 .. T => n + 1 \in j + 1 .. T)
      BY <1>1, <1>2
    <3>2. t[n] = Sep <=> t[j] = Sep
      BY <2>3, <2>4, <2>9, <3>1
    <3>3. CASE t[j] = Sep
      <4>1. n = j
        BY <1>1, <1>2, <2>9, <3>3 DEF NoSep
      <4>2. NoSep(t, j + 1, n + 1)
        BY <1>1, <4>1 DEF NoSep
      <4>. QED
        BY <2>4, <2>6, <2>9, <3>1, <4>2 DEF Verdict
    <3>4. CASE t[j] # Sep
      <4>1. NoSep(t, j + 1, n + 1)
        BY <1>1, <1>2, <2>9, <3>2, <3>4 DEF NoSep
      <4>. QED
        BY <2>4, <2>6, <2>9, <3>1, <4>1 DEF Verdict
    <3>. QED
      BY <3>3, <3>4
  <2>10. r \in {"match", "nomatch", "abort_all", "abort_to_starstar"}
    BY <2>6 DEF Verdict
  <2>. QED
    BY <2>2, <2>7, <2>8, <2>9, <2>10 DEF Verdict
<1>. QED
  BY <1>7, <1>8, <1>9, <1>10

(* What the loop over the places of asterisks says of them.                *)
AnyPlace(t, j, c, n) == c \/ NoSep(t, j, n)

PlacesVerdict(t, k, j, c, r, M) ==
  /\ r \in {"match", "nomatch", "abort_all", "abort_to_starstar"}
  /\ r = "match" => \E n \in j .. Len(t) + 1 : AnyPlace(t, j, c, n) /\ M[k][n]
  /\ r # "match" => \A n \in j .. Len(t) + 1 : AnyPlace(t, j, c, n) => ~ M[k][n]
  /\ r = "abort_all" => \A n \in j .. Len(t) + 1 : ~ M[k][n]
  /\ r = "abort_to_starstar" => ~ c

(* What is tried, for a character and for the others: what is not, has no  *)
(* match.                                                                  *)
Tried(p, t, k, j, c) ==
  LET literal == p[k] \notin GlobSpecial
      limit == IF c \/ Where(t, j, Sep) = {} THEN Len(t) ELSE FirstOf(Where(t, j, Sep)) - 1
  IN IF literal THEN { n \in Where(t, j, p[k]) : n <= limit } ELSE j .. Len(t)

LEMMA WhatIsTried ==
  ASSUME NEW p, NEW t, NEW L, NEW M, Matched(p, t, L, M),
         NEW k \in 1 .. Len(p), NEW j \in 1 .. Len(t) + 1, NEW c \in BOOLEAN,
         p[k] # Star, c \/ p[k] # Sep
  PROVE  /\ Tried(p, t, k, j, c) \subseteq j .. Len(t)
         /\ p[k] \in GlobSpecial => Tried(p, t, k, j, c) = j .. Len(t)
         /\ p[k] \notin GlobSpecial =>
              \A n \in Tried(p, t, k, j, c) : t[n] = p[k] /\ AnyPlace(t, j, c, n)
         /\ \A n \in (j .. Len(t) + 1) \ Tried(p, t, k, j, c) : AnyPlace(t, j, c, n) => ~ M[k][n]
         /\ p[k] \notin GlobSpecial /\ Len(t) \in Tried(p, t, k, j, c) =>
              \A n \in j .. Len(t) + 1 : M[k][n] => AnyPlace(t, j, c, n)
<1>. DEFINE T == Len(t) + 1
<1>1. Len(p) \in Nat /\ Len(t) \in Nat
  BY DEF Matched
<1>2. \A n \in 1 .. T : M[k][n] => n <= Len(t) /\ TakesChar(p, k, t[n])
  BY AtOne
<1>3. CASE p[k] \in GlobSpecial
  <2>1. Tried(p, t, k, j, c) = j .. Len(t)
    BY <1>3, Zenon DEF Tried
  <2>2. \A n \in (j .. T) \ (j .. Len(t)) : ~ M[k][n]
    BY <1>1, <1>2
  <2>. QED
    BY <1>3, <2>1, <2>2
<1>4. CASE p[k] \notin GlobSpecial
  <2>1. PICK limit : limit = IF c \/ Where(t, j, Sep) = {} THEN Len(t) ELSE FirstOf(Where(t, j, Sep)) - 1
    OBVIOUS
  <2>2. Tried(p, t, k, j, c) = { n \in Where(t, j, p[k]) : n <= limit }
    BY <1>4, <2>1, Zenon DEF Tried
  <2>3. Tried(p, t, k, j, c) = { n \in j .. Len(t) : t[n] = p[k] /\ n <= limit }
    BY <2>2 DEF Where
  <2>4. \A n \in 1 .. T : M[k][n] => n <= Len(t) /\ t[n] = p[k]
    BY <1>2, <1>4 DEF TakesChar, GlobSpecial
  <2>5. CASE c \/ Where(t, j, Sep) = {}
    <3>1. limit = Len(t)
      BY <2>1, <2>5, Zenon
    <3>2. \A n \in j .. T : AnyPlace(t, j, c, n)
      <4>1. ~ c => \A n \in j .. Len(t) : t[n] # Sep
        BY <2>5 DEF Where
      <4>. QED
        BY <1>1, <4>1 DEF AnyPlace, NoSep
    <3>. QED
      BY <1>1, <1>4, <2>3, <2>4, <3>1, <3>2
  <2>6. CASE ~ c /\ Where(t, j, Sep) # {}
    <3>1. PICK s : s = FirstOf(Where(t, j, Sep))
      OBVIOUS
    <3>2. s \in j .. Len(t) /\ t[s] = Sep /\ \A m \in j .. Len(t) : t[m] = Sep => s <= m
      <4>1. j \in Nat \ {0}
        BY <1>1
      <4>. QED
        BY <1>1, <2>6, <3>1, <4>1, FirstWhere
    <3>3. limit = s - 1
      BY <2>1, <2>6, <3>1, Zenon
    <3>4. \A n \in j .. T : AnyPlace(t, j, c, n) <=> n <= s
      BY <1>1, <2>6, <3>2 DEF AnyPlace, NoSep
    <3>5. Len(t) \notin Tried(p, t, k, j, c)
      BY <1>1, <2>3, <3>2, <3>3
    <3>6. \A n \in j .. T : n <= s /\ M[k][n] => n <= s - 1
      BY <1>1, <2>4, <2>6, <3>2
    <3>7. \A n \in Tried(p, t, k, j, c) : n \in j .. T /\ t[n] = p[k] /\ n <= s
      BY <1>1, <2>3, <3>2, <3>3
    <3>8. \A n \in (j .. T) \ Tried(p, t, k, j, c) : n <= s => ~ M[k][n]
      BY <1>1, <2>3, <2>4, <3>3, <3>6
    <3>. QED
      BY <1>4, <2>3, <3>4, <3>5, <3>7, <3>8
  <2>. QED
    BY <2>5, <2>6
<1>. QED
  BY <1>3, <1>4

LEMMA PlacesJudged ==
  ASSUME NEW p, NEW t, NEW L, NEW M, Matched(p, t, L, M),
         NEW k \in 2 .. Len(p), NEW j \in 1 .. Len(t) + 1, NEW c \in BOOLEAN,
         p[k] # Star, p[k - 1] = Star, c \/ p[k] # Sep,
         Judged(p, t, L, M, k)
  PROVE  PlacesVerdict(t, k, j, c, Places(p, t, k, j, c, L[k]), M)
<1>. DEFINE T == Len(t) + 1
<1>1. Len(p) \in Nat /\ Len(t) \in Nat
  BY DEF Matched
<1>2. PICK res : res = L[k]
  OBVIOUS
<1>3. \A n : MayBegin(p, t, k, n)
  BY DEF MayBegin, Star, Sep
<1>4. \A n \in j .. T : Verdict(p, t, k, n, res[n], M)
  BY <1>1, <1>2, <1>3 DEF Judged
<1>5. PICK X : X = Tried(p, t, k, j, c)
  OBVIOUS
<1>6. /\ X \subseteq j .. Len(t)
      /\ p[k] \in GlobSpecial => X = j .. Len(t)
      /\ p[k] \notin GlobSpecial => \A n \in X : t[n] = p[k] /\ AnyPlace(t, j, c, n)
      /\ \A n \in (j .. T) \ X : AnyPlace(t, j, c, n) => ~ M[k][n]
      /\ p[k] \notin GlobSpecial /\ Len(t) \in X => \A n \in j .. T : M[k][n] => AnyPlace(t, j, c, n)
  BY <1>1, <1>5, WhatIsTried
<1>7. PICK E : E = { n \in X : Ends(res[n], t[n], c) }
  OBVIOUS
<1>8. PICK r : r = Places(p, t, k, j, c, L[k])
  OBVIOUS
<1>9. r = IF E # {}
          THEN IF res[FirstOf(E)] = "nomatch" THEN "abort_to_starstar" ELSE res[FirstOf(E)]
          ELSE IF p[k] \notin GlobSpecial /\ j <= Len(t) /\ Len(t) \notin X THEN "nomatch"
          ELSE "abort_all"
  BY <1>2, <1>5, <1>7, <1>8, Zenon DEF Places, Tried
<1>10. ASSUME NEW n \in X, n \notin E
       PROVE  ~ M[k][n] /\ (c \/ (res[n] = "nomatch" /\ t[n] # Sep))
  <2>1. n \in j .. T /\ Verdict(p, t, k, n, res[n], M)
    BY <1>1, <1>4, <1>6, <1>10
  <2>2. ~ Ends(res[n], t[n], c)
    BY <1>7, <1>10
  <2>. QED
    BY <2>1, <2>2 DEF Verdict, Ends, GivesUp
<1>11. \A n \in j .. T : n \notin X => (AnyPlace(t, j, c, n) => ~ M[k][n])
  BY <1>6
<1>12. ~ M[k][T]
  <2>1. ~ (T <= Len(t)) /\ k \in 1 .. Len(p) /\ T \in 1 .. T
    BY <1>1
  <2>. QED
    BY <1>1, <2>1, AtOne
<1>13. CASE E = {}
  <2>1. \A n \in j .. T : AnyPlace(t, j, c, n) => ~ M[k][n]
    BY <1>10, <1>11, <1>13
  <2>2. CASE p[k] \notin GlobSpecial /\ j <= Len(t) /\ Len(t) \notin X
    BY <1>8, <1>9, <1>13, <2>1, <2>2 DEF PlacesVerdict
  <2>3. CASE ~ (p[k] \notin GlobSpecial /\ j <= Len(t) /\ Len(t) \notin X)
    <3>1. \A n \in j .. T : ~ M[k][n]
      <4>1. CASE p[k] \in GlobSpecial
        BY <1>1, <1>6, <1>10, <1>12, <1>13, <4>1
      <4>2. CASE j > Len(t)
        BY <1>1, <1>12, <4>2
      <4>3. CASE p[k] \notin GlobSpecial /\ Len(t) \in X
        BY <1>6, <2>1, <4>3
      <4>. QED
        BY <1>1, <2>3, <4>1, <4>2, <4>3
    <3>2. r = "abort_all"
      BY <1>9, <1>13, <2>3
    <3>. QED
      BY <1>8, <3>1, <3>2 DEF PlacesVerdict
  <2>. QED
    BY <2>2, <2>3
<1>14. CASE E # {}
  <2>1. PICK e : e = FirstOf(E)
    OBVIOUS
  <2>2. e \in E /\ \A m \in E : e <= m
    <3>1. E \in SUBSET Nat
      <4>1. X \subseteq Nat
        BY <1>1, <1>6
      <4>. QED
        BY <1>7, <4>1
    <3>. QED
      BY <1>14, <2>1, <3>1, FirstIs
  <2>3. e \in X /\ e \in j .. Len(t) /\ e \in j .. T /\ Ends(res[e], t[e], c)
    BY <1>1, <1>6, <1>7, <2>2
  <2>4. Verdict(p, t, k, e, res[e], M)
    BY <1>4, <2>3
  <2>5. r = IF res[e] = "nomatch" THEN "abort_to_starstar" ELSE res[e]
    BY <1>9, <1>14, <2>1
  <2>6. ASSUME NEW n \in j .. e - 1, n \in X
        PROVE  ~ M[k][n] /\ (c \/ (res[n] = "nomatch" /\ t[n] # Sep))
    <3>1. n \notin E
      BY <1>1, <2>2, <2>3, <2>6
    <3>. QED
      BY <1>10, <2>6, <3>1
  <2>7. \A n \in j .. T : n < e /\ AnyPlace(t, j, c, n) => ~ M[k][n]
    BY <1>1, <1>11, <2>3, <2>6
  <2>8. AnyPlace(t, j, c, e)
    <3>1. CASE p[k] \notin GlobSpecial
      BY <1>6, <2>3, <3>1
    <3>2. CASE p[k] \in GlobSpecial /\ ~ c
      <4>1. \A n \in j .. e - 1 : n \in X
        BY <1>1, <1>6, <2>3, <3>2
      <4>. QED
        BY <2>6, <3>2, <4>1 DEF AnyPlace, NoSep
    <3>. QED
      BY <3>1, <3>2 DEF AnyPlace
  <2>9. \A n \in j .. e : AnyPlace(t, j, c, n)
    BY <1>1, <2>3, <2>8 DEF AnyPlace, NoSep
  <2>10. \A n \in j .. T : n < e => ~ M[k][n]
    BY <1>1, <2>3, <2>7, <2>9
  <2>11. CASE res[e] = "nomatch"
    <3>1. ~ c /\ t[e] = Sep /\ ~ M[k][e]
      BY <2>3, <2>4, <2>11 DEF Ends, Verdict
    <3>2. \A n \in j .. T : AnyPlace(t, j, c, n) => n <= e
      BY <1>1, <2>3, <3>1 DEF AnyPlace, NoSep
    <3>3. \A n \in j .. T : AnyPlace(t, j, c, n) => ~ M[k][n]
      BY <1>1, <2>3, <2>10, <3>1, <3>2
    <3>. QED
      BY <1>8, <2>5, <2>11, <3>1, <3>3 DEF PlacesVerdict
  <2>12. CASE res[e] = "match"
    <3>1. M[k][e]
      BY <2>4, <2>12 DEF Verdict
    <3>. QED
      BY <1>8, <2>3, <2>5, <2>8, <2>12, <3>1 DEF PlacesVerdict
  <2>13. CASE res[e] = "abort_all"
    <3>1. \A n \in e .. T : ~ M[k][n]
      BY <1>3, <2>4, <2>13 DEF Verdict
    <3>2. \A n \in j .. T : ~ M[k][n]
      BY <1>1, <2>3, <2>10, <3>1
    <3>. QED
      BY <1>8, <2>5, <2>13, <3>2 DEF PlacesVerdict
  <2>14. CASE res[e] = "abort_to_starstar"
    <3>1. ~ c
      BY <2>3, <2>14 DEF Ends, GivesUp
    <3>2. \A n \in e .. T : NoSep(t, e, n) => ~ M[k][n]
      BY <1>3, <2>4, <2>14 DEF Verdict
    <3>3. \A n \in j .. T : n >= e /\ NoSep(t, j, n) => n \in e .. T /\ NoSep(t, e, n)
      BY <1>1, <2>3 DEF NoSep
    <3>4. \A n \in j .. T : AnyPlace(t, j, c, n) => ~ M[k][n]
      BY <1>1, <2>3, <2>10, <3>1, <3>2, <3>3 DEF AnyPlace
    <3>. QED
      BY <1>8, <2>5, <2>14, <3>1, <3>4 DEF PlacesVerdict
  <2>. QED
    BY <2>4, <2>11, <2>12, <2>13, <2>14 DEF Verdict
<1>. QED
  BY <1>13, <1>14

LEMMA AtStar ==
  ASSUME NEW p, NEW t, NEW L, NEW M, Matched(p, t, L, M),
         NEW i \in 1 .. Len(p), NEW j \in 1 .. Len(t) + 1, p[i] = Star,
         NEW k, k = AfterStars(p, i), NEW c, c = Crosses(p, i)
  PROVE  /\ M[i][j] <=> \/ \E n \in j .. Len(t) + 1 : AnyPlace(t, j, c, n) /\ M[k][n]
                        \/ c /\ k <= Len(p) /\ M[k + 1][j]
         /\ L[i][j] = IF c /\ k <= Len(p) /\ L[k + 1][j] = "match" THEN "match"
                      ELSE IF k > Len(p)
                      THEN IF c \/ Where(t, j, Sep) = {} THEN "match" ELSE "nomatch"
                      ELSE IF ~ c /\ p[k] = Sep
                      THEN IF Where(t, j, Sep) = {} THEN "nomatch"
                           ELSE L[k + 1][FirstOf(Where(t, j, Sep)) + 1]
                      ELSE Places(p, t, k, j, c, L[k])
<1>1. i \in 1 .. Len(p) + 1 /\ ~ (i > Len(p)) /\ i <= Len(p) /\ p[i] # Open
  BY DEF Matched, Star, Open
<1>2. L[i][j] = Turn(p, t, i, j, L) /\ M[i][j] = MeansFrom(p, t, i, j, M)
  BY <1>1, MatchedTypes
<1>3. M[i][j] <=> \/ \E n \in j .. Len(t) + 1 : AnyPlace(t, j, c, n) /\ M[k][n]
                  \/ c /\ k <= Len(p) /\ M[k + 1][j]
  BY <1>1, <1>2, Zenon DEF MeansFrom, AnyPlace, NoSep
<1>4. L[i][j] = Asterisks(p, t, i, j, L)
  BY <1>1, <1>2, Zenon DEF Turn
<1>. QED
  BY <1>3, <1>4, Zenon DEF Asterisks

LEMMA StarJudged ==
  ASSUME NEW p, NEW t, NEW L, NEW M, Matched(p, t, L, M),
         NEW i \in 1 .. Len(p), p[i] = Star,
         \A k \in i + 1 .. Len(p) + 1 : Judged(p, t, L, M, k)
  PROVE  Judged(p, t, L, M, i)
<1>1. SUFFICES ASSUME NEW j \in 1 .. Len(t) + 1, MayBegin(p, t, i, j)
               PROVE  Verdict(p, t, i, j, L[i][j], M)
  BY DEF Judged
<1>. DEFINE T == Len(t) + 1
<1>2. Len(p) \in Nat /\ Len(t) \in Nat
  BY DEF Matched
<1>3. PICK k : k = AfterStars(p, i)
  OBVIOUS
<1>4. PICK c \in BOOLEAN : c = Crosses(p, i)
  BY Zenon DEF Crosses
<1>5. k \in i + 1 .. Len(p) + 1 /\ p[k - 1] = Star /\ (k <= Len(p) => p[k] # Star)
  BY <1>2, <1>3, StarsEnd
<1>6. c => (i = 1 \/ p[i - 1] = Sep) /\ (k > Len(p) \/ p[k] = Sep)
  BY <1>3, <1>4, Zenon DEF Crosses
<1>7. PICK S : S = Where(t, j, Sep)
  OBVIOUS
<1>8. \A n \in 1 .. T : M[i][n] <=> \/ \E m \in n .. T : AnyPlace(t, n, c, m) /\ M[k][m]
                                    \/ c /\ k <= Len(p) /\ M[k + 1][n]
  BY <1>3, <1>4, AtStar
<1>9. PICK r : r = L[i][j]
  OBVIOUS
<1>10. r = IF c /\ k <= Len(p) /\ L[k + 1][j] = "match" THEN "match"
           ELSE IF k > Len(p) THEN IF c \/ S = {} THEN "match" ELSE "nomatch"
           ELSE IF ~ c /\ p[k] = Sep THEN IF S = {} THEN "nomatch" ELSE L[k + 1][FirstOf(S) + 1]
           ELSE Places(p, t, k, j, c, L[k])
  BY <1>3, <1>4, <1>7, <1>9, AtStar
<1>11. k <= Len(p) => Judged(p, t, L, M, k + 1) /\ Judged(p, t, L, M, k)
  BY <1>2, <1>5
<1>12. CASE k > Len(p)
  <2>1. k = Len(p) + 1 /\ ~ (k <= Len(p))
    BY <1>2, <1>5, <1>12
  <2>2. \A m \in j .. T : M[k][m] <=> m = T
    <3>1. \A m \in j .. T : Verdict(p, t, k, m, L[k][m], M)
      <4>1. \A m \in 1 .. T : MayBegin(p, t, k, m)
        BY <1>1, <1>2, <1>5 DEF MayBegin, Star, Sep
      <4>. QED
        BY <1>1, <1>2, <1>5, <4>1 DEF Judged
    <3>2. \A m \in j .. T : L[k][m] = IF m > Len(t) THEN "match" ELSE "nomatch"
      <4>1. \A m \in 1 .. T : L[k][m] = IF m > Len(t) THEN "match" ELSE "nomatch"
        BY <1>2, <2>1, MatchedTypes DEF Turn
      <4>. QED
        BY <1>1, <1>2, <4>1
    <3>. QED
      BY <1>1, <1>2, <3>1, <3>2 DEF Verdict
  <2>3. M[i][j] <=> AnyPlace(t, j, c, T)
    BY <1>1, <1>2, <1>8, <2>1, <2>2
  <2>4. AnyPlace(t, j, c, T) <=> c \/ S = {}
    BY <1>2, <1>7 DEF AnyPlace, NoSep, Where
  <2>5. r = IF c \/ S = {} THEN "match" ELSE "nomatch"
    BY <1>10, <1>12, <2>1, Zenon
  <2>. QED
    BY <1>9, <2>3, <2>4, <2>5 DEF Verdict
<1>13. CASE k <= Len(p) /\ c /\ L[k + 1][j] = "match"
  <2>1. k + 1 # 1 /\ (k + 1) - 1 = k /\ p[k] = Sep
    BY <1>2, <1>5, <1>6, <1>13
  <2>2. MayBegin(p, t, k + 1, j)
    BY <1>1, <1>6, <1>13, <2>1 DEF MayBegin
  <2>3. M[k + 1][j]
    BY <1>11, <1>13, <2>2 DEF Judged, Verdict
  <2>4. M[i][j]
    BY <1>1, <1>8, <1>13, <2>3
  <2>5. r = "match"
    BY <1>10, <1>13
  <2>. QED
    BY <1>9, <2>4, <2>5 DEF Verdict
<1>14. CASE k <= Len(p) /\ ~ c /\ p[k] = Sep
  <2>1. k \in 1 .. Len(p) /\ p[k] # Star /\ ~ (k > Len(p)) /\ p[k] # Open /\ p[k] # Question
    BY <1>2, <1>5, <1>14 DEF Sep, Open, Question
  <2>2. \A m \in 1 .. T : M[k][m] <=> m <= Len(t) /\ t[m] = Sep /\ M[k + 1][m + 1]
    <3>1. \A m \in 1 .. T : M[k][m] <=> m <= Len(t) /\ TakesChar(p, k, t[m]) /\ M[After(p, k)][m + 1]
      BY <2>1, AtOne
    <3>2. After(p, k) = k + 1 /\ \A d : TakesChar(p, k, d) <=> d = Sep
      BY <1>14, <2>1 DEF TakesChar, After
    <3>. QED
      BY <3>1, <3>2
  <2>3. CASE S = {}
    <3>1. \A m \in j .. Len(t) : t[m] # Sep
      BY <1>7, <2>3 DEF Where
    <3>2. ~ M[i][j]
      <4>1. \A m \in j .. T : m \in 1 .. T
        BY <1>1, <1>2
      <4>2. \A m \in j .. T : ~ M[k][m]
        BY <1>2, <2>2, <3>1, <4>1
      <4>. QED
        BY <1>1, <1>8, <1>14, <4>2
    <3>3. r = "nomatch"
      BY <1>10, <1>14, <2>1, <2>3
    <3>. QED
      BY <1>9, <3>2, <3>3 DEF Verdict
  <2>4. CASE S # {}
    <3>1. PICK s : s = FirstOf(S)
      OBVIOUS
    <3>2. s \in j .. Len(t) /\ t[s] = Sep /\ \A m \in j .. Len(t) : t[m] = Sep => s <= m
      <4>1. j \in Nat \ {0}
        BY <1>2
      <4>. QED
        BY <1>2, <1>7, <2>4, <3>1, <4>1, FirstWhere
    <3>3. r = L[k + 1][s + 1]
      BY <1>10, <1>14, <2>1, <2>4, <3>1
    <3>4. k + 1 # 1 /\ (k + 1) - 1 = k /\ \A m \in 1 .. T : (m + 1) - 1 = m
      BY <1>2, <2>1
    <3>5. \A m \in 1 .. T : t[m] = Sep => MayBegin(p, t, k + 1, m + 1)
      BY <3>4 DEF MayBegin
    <3>6. s \in 1 .. T /\ s + 1 \in 1 .. T
      BY <1>1, <1>2, <3>2
    <3>7. Verdict(p, t, k + 1, s + 1, r, M)
      BY <1>11, <1>14, <3>2, <3>3, <3>5, <3>6 DEF Judged
    <3>8. \A n \in j .. T : n <= s => (M[i][n] <=> M[k + 1][s + 1])
      <4>1. SUFFICES ASSUME NEW n \in j .. T, n <= s PROVE M[i][n] <=> M[k + 1][s + 1]
        BY Zenon
      <4>2. n \in 1 .. T
        BY <1>1, <1>2
      <4>3. \A m \in n .. T : AnyPlace(t, n, c, m) /\ M[k][m] => m = s
        <5>1. SUFFICES ASSUME NEW m \in n .. T, NoSep(t, n, m), M[k][m] PROVE m = s
          BY <1>14 DEF AnyPlace
        <5>2. m \in 1 .. T /\ m \in j .. Len(t) /\ t[m] = Sep
          BY <1>1, <1>2, <2>2, <4>2, <5>1
        <5>3. s <= m
          BY <3>2, <5>2
        <5>4. ~ (s <= m - 1)
          BY <1>1, <1>2, <3>2, <4>1, <4>2, <5>1, <5>2 DEF NoSep
        <5>. QED
          BY <1>2, <3>6, <5>2, <5>3, <5>4
      <4>4. s \in n .. T /\ AnyPlace(t, n, c, s)
        BY <1>1, <1>2, <3>2, <4>1, <4>2 DEF AnyPlace, NoSep
      <4>5. M[k][s] <=> M[k + 1][s + 1]
        BY <2>2, <3>2, <3>6, <1>2
      <4>. QED
        BY <1>8, <1>14, <4>2, <4>3, <4>4, <4>5
    <3>9. r = "match" <=> M[i][j]
      BY <1>1, <1>2, <3>2, <3>7, <3>8 DEF Verdict
    <3>10. ASSUME r = "abort_all", NEW n \in j .. T, M[i][n]
           PROVE  FALSE
      <4>1. ~ M[k + 1][s + 1]
        BY <3>7, <3>10 DEF Verdict
      <4>2. n \in 1 .. T /\ ~ (n <= s)
        BY <1>1, <1>2, <3>8, <3>10, <4>1
      <4>3. PICK m \in n .. T : M[k][m]
        BY <1>8, <1>14, <3>10, <4>2
      <4>4. m \in 1 .. T
        BY <1>2, <4>2, <4>3
      <4>5. m <= Len(t) /\ t[m] = Sep /\ M[k + 1][m + 1]
        BY <2>2, <4>3, <4>4
      <4>6. m + 1 \in s + 1 .. T /\ MayBegin(p, t, k + 1, m + 1)
        BY <1>2, <3>5, <3>6, <4>2, <4>3, <4>4, <4>5
      <4>. QED
        BY <3>7, <3>10, <4>5, <4>6 DEF Verdict
    <3>11. ASSUME r = "abort_to_starstar", NEW n \in j .. T, NoSep(t, j, n), M[i][n]
           PROVE  FALSE
      <4>1. n <= s
        BY <1>1, <1>2, <3>2, <3>11 DEF NoSep
      <4>2. M[k + 1][s + 1]
        BY <3>8, <3>11, <4>1
      <4>3. s + 1 \in s + 1 .. T /\ NoSep(t, s + 1, s + 1) /\ MayBegin(p, t, k + 1, s + 1)
        BY <1>2, <3>2, <3>5, <3>6 DEF NoSep
      <4>. QED
        BY <3>7, <3>11, <4>2, <4>3 DEF Verdict
    <3>12. r \in {"match", "nomatch", "abort_all", "abort_to_starstar"}
      BY <3>7 DEF Verdict
    <3>. QED
      BY <1>9, <3>9, <3>10, <3>11, <3>12 DEF Verdict
  <2>. QED
    BY <2>3, <2>4
<1>15. CASE k <= Len(p) /\ ~ (c /\ L[k + 1][j] = "match") /\ ~ (~ c /\ p[k] = Sep)
  <2>1. k \in 2 .. Len(p) /\ k \in 1 .. Len(p) /\ p[k] # Star /\ p[k - 1] = Star /\ (c \/ p[k] # Sep) /\ ~ (k > Len(p))
    BY <1>2, <1>5, <1>15
  <2>2. r = Places(p, t, k, j, c, L[k])
    BY <1>10, <1>15, <2>1
  <2>3. PlacesVerdict(t, k, j, c, r, M)
    BY <1>11, <1>15, <2>1, <2>2, PlacesJudged
  <2>4. r = "match" => M[i][j]
    BY <1>1, <1>8, <2>3 DEF PlacesVerdict
  <2>5. c => k + 1 # 1 /\ (k + 1) - 1 = k /\ p[k] = Sep
    BY <1>2, <1>6, <2>1
  <2>6. c => ~ M[k + 1][j]
    <3>1. c => MayBegin(p, t, k + 1, j)
      BY <1>1, <1>6, <2>5 DEF MayBegin
    <3>. QED
      BY <1>11, <1>15, <3>1 DEF Judged, Verdict
  <2>7. r # "match" => ~ M[i][j]
    BY <1>1, <1>8, <2>3, <2>6 DEF PlacesVerdict
  <2>8. ASSUME r = "abort_all", NEW n \in j .. T, MayBegin(p, t, i, n), M[i][n]
        PROVE  FALSE
    <3>1. \A m \in j .. T : ~ M[k][m]
      BY <2>3, <2>8 DEF PlacesVerdict
    <3>2. n \in 1 .. T /\ \A m \in n .. T : m \in j .. T
      BY <1>1, <1>2
    <3>3. c /\ M[k + 1][n]
      BY <1>8, <2>8, <3>1, <3>2
    <3>4. n # j
      BY <2>6, <3>3
    <3>5. n - 1 \in j .. T /\ n - 1 \in 1 .. T /\ (n - 1) + 1 = n /\ n # 1 /\ n - 1 <= Len(t)
      BY <1>1, <1>2, <2>8, <3>4
    <3>6. t[n - 1] = Sep
      BY <1>6, <2>8, <3>3, <3>5 DEF MayBegin
    <3>7. p[k] = Sep /\ p[k] # Open
      BY <2>5, <3>3 DEF Sep, Open
    <3>8. M[k][n - 1] <=> n - 1 <= Len(t) /\ TakesChar(p, k, t[n - 1]) /\ M[After(p, k)][(n - 1) + 1]
      BY <2>1, <3>5, AtOne
    <3>9. M[k][n - 1]
      BY <3>3, <3>5, <3>6, <3>7, <3>8 DEF TakesChar, After
    <3>. QED
      BY <3>1, <3>5, <3>9
  <2>9. ASSUME r = "abort_to_starstar", NEW n \in j .. T, NoSep(t, j, n), M[i][n]
        PROVE  FALSE
    <3>1. ~ c /\ n \in 1 .. T
      BY <1>1, <1>2, <2>3, <2>9 DEF PlacesVerdict
    <3>2. PICK m \in n .. T : NoSep(t, n, m) /\ M[k][m]
      BY <1>8, <2>9, <3>1 DEF AnyPlace
    <3>3. m \in j .. T /\ NoSep(t, j, m)
      BY <1>1, <1>2, <2>9, <3>2 DEF NoSep
    <3>. QED
      BY <2>3, <2>9, <3>2, <3>3 DEF PlacesVerdict, AnyPlace
  <2>10. r \in {"match", "nomatch", "abort_all", "abort_to_starstar"}
    BY <2>3 DEF PlacesVerdict
  <2>. QED
    BY <1>9, <2>4, <2>7, <2>8, <2>9, <2>10 DEF Verdict
<1>. QED
  BY <1>2, <1>5, <1>12, <1>13, <1>14, <1>15

(* wildmatch finds a match where the pattern means the path, and nowhere   *)
(* else, for all patterns and paths: that it gives up early is right.      *)
THEOREM MatchIsMeant ==
  ASSUME NEW p, NEW t, Len(p) \in Nat, Len(t) \in Nat
  PROVE  Wildmatch(p, t) = "match" <=> Means(p, t)
<1>1. PICK L : L = Loop(p, t)
  OBVIOUS
<1>2. PICK M : M = Meanings(p, t)
  OBVIOUS
<1>3. Matched(p, t, L, M)
  BY <1>1, <1>2, LoopValue, MeaningsValue DEF Matched
<1>4. PICK N : N = Len(p) + 1
  OBVIOUS
<1>. DEFINE Right(i) == Judged(p, t, L, M, i)
            Good == { n \in Nat : n < N => \A i \in N - n .. N : Right(i) }
<1>5. 0 \in Good
  <2>1. Right(N)
    BY <1>3, <1>4, AtEnd
  <2>. QED
    BY <1>4, <2>1
<1>6. ASSUME NEW i \in 1 .. Len(p), \A k \in i + 1 .. Len(p) + 1 : Right(k)
      PROVE  Right(i)
  BY <1>3, <1>6, OneJudged, StarJudged
<1>. HIDE DEF Right
<1>7. ASSUME NEW n \in Nat, n \in Good
      PROVE  n + 1 \in Good
  <2>1. SUFFICES ASSUME n + 1 < N, NEW i \in N - (n + 1) .. N PROVE Right(i)
    OBVIOUS
  <2>2. \A k \in N - n .. N : Right(k)
    BY <1>4, <1>7, <2>1
  <2>3. CASE i = N - (n + 1)
    <3>1. i \in 1 .. Len(p) /\ \A k \in i + 1 .. Len(p) + 1 : k \in N - n .. N
      BY <1>4, <2>1, <2>3
    <3>. QED
      BY <1>6, <2>2, <3>1
  <2>4. CASE i # N - (n + 1)
    <3>1. i \in N - n .. N
      BY <1>4, <2>1, <2>4
    <3>. QED
      BY <2>2, <3>1
  <2>. QED
    BY <2>3, <2>4
<1>. HIDE DEF Good
<1>8. Len(p) \in Good
  BY <1>5, <1>7, NatSetInduction
<1>9. Right(1)
  BY <1>4, <1>8 DEF Good
<1>10. Verdict(p, t, 1, 1, L[1][1], M)
  BY <1>9 DEF Right, Judged, MayBegin
<1>. QED
  BY <1>1, <1>2, <1>10 DEF Verdict, Wildmatch, Means

-----------------------------------------------------------------------------
(* The order of paths. *)

Words == Seq(Nat)

LEMMA SplitIs ==
  ASSUME NEW p \in Words, NEW q \in Words
  PROVE  /\ Split(p, q) \in 1 .. Len(p) + 1
         /\ Split(p, q) > Len(p) \/ Split(p, q) > Len(q) \/ p[Split(p, q)] # q[Split(p, q)]
         /\ \A k \in 1 .. Split(p, q) - 1 : k <= Len(q) /\ p[k] = q[k]
<1>. DEFINE S == { n \in 1 .. Len(p) + 1 : n > Len(p) \/ n > Len(q) \/ p[n] # q[n] }
<1>1. Len(p) \in Nat /\ Len(q) \in Nat
  BY DEF Words
<1>2. S \subseteq Nat /\ Len(p) + 1 \in S
  BY <1>1
<1>3. PICK n \in S : \A m \in S : n <= m
  BY <1>2, NatMin
<1>4. n \in 1 .. Len(p) + 1 /\ (n > Len(p) \/ n > Len(q) \/ p[n] # q[n])
  BY <1>3
<1>5. \A k \in 1 .. n - 1 : k <= Len(q) /\ p[k] = q[k]
  <2>1. SUFFICES ASSUME NEW k \in 1 .. n - 1 PROVE k <= Len(q) /\ p[k] = q[k]
    OBVIOUS
  <2>2. k \in 1 .. Len(p) + 1 /\ ~ (n <= k)
    BY <1>1, <1>4, <2>1
  <2>3. k \notin S
    BY <1>3, <2>2
  <2>. QED
    BY <1>1, <2>2, <2>3
<1>. DEFINE IsSplit(a) == /\ a > Len(p) \/ a > Len(q) \/ p[a] # q[a]
                          /\ \A k \in 1 .. a - 1 : k <= Len(q) /\ p[k] = q[k]
<1>6. \E a \in 1 .. Len(p) + 1 : IsSplit(a)
  BY <1>4, <1>5
<1>7. Split(p, q) = CHOOSE a \in 1 .. Len(p) + 1 : IsSplit(a)
  BY Zenon DEF Split
<1>. HIDE DEF IsSplit
<1>8. Split(p, q) \in 1 .. Len(p) + 1 /\ IsSplit(Split(p, q))
  BY <1>6, <1>7
<1>. QED
  BY <1>8 DEF IsSplit

(* p comes before q: there is a place where it ends or has the lesser unit. *)
Before(p, q, n) ==
  /\ n \in 1 .. Len(q)
  /\ \A k \in 1 .. n - 1 : k <= Len(p) /\ p[k] = q[k]
  /\ n > Len(p) \/ p[n] < q[n]

LEMMA LessIs ==
  ASSUME NEW p \in Words, NEW q \in Words
  PROVE  Less(p, q) <=> \E n \in Nat : Before(p, q, n)
<1>1. PICK a : a = Split(p, q)
  OBVIOUS
<1>2. Len(p) \in Nat /\ Len(q) \in Nat /\ \A k \in 1 .. Len(p) : p[k] \in Nat
  BY DEF Words
<1>3. /\ a \in 1 .. Len(p) + 1
      /\ a > Len(p) \/ a > Len(q) \/ p[a] # q[a]
      /\ \A k \in 1 .. a - 1 : k <= Len(q) /\ p[k] = q[k]
  BY <1>1, SplitIs
<1>4. Less(p, q) <=> a <= Len(q) /\ (a > Len(p) \/ p[a] < q[a])
  BY <1>1, Zenon DEF Less
<1>5. ASSUME Less(p, q)
      PROVE  Before(p, q, a)
  BY <1>2, <1>3, <1>4, <1>5 DEF Before
<1>6. ASSUME NEW n \in Nat, Before(p, q, n)
      PROVE  Less(p, q)
  <2>1. /\ n \in 1 .. Len(q) /\ (n > Len(p) \/ p[n] < q[n])
        /\ \A k \in 1 .. n - 1 : k <= Len(p) /\ p[k] = q[k]
    BY <1>6 DEF Before
  <2>2. ~ (a < n)
    <3>1. SUFFICES ASSUME a < n PROVE FALSE
      OBVIOUS
    <3>2. a \in 1 .. n - 1
      BY <1>2, <1>3, <2>1, <3>1
    <3>3. a <= Len(p) /\ p[a] = q[a] /\ a <= Len(q)
      BY <1>2, <2>1, <3>2
    <3>. QED
      BY <1>2, <1>3, <3>3
  <2>3. ~ (n < a)
    <3>1. SUFFICES ASSUME n < a PROVE FALSE
      OBVIOUS
    <3>2. n \in 1 .. a - 1
      BY <1>2, <1>3, <2>1, <3>1
    <3>3. n <= Len(p) /\ p[n] = q[n] /\ p[n] \in Nat
      BY <1>2, <1>3, <2>1, <3>2
    <3>. QED
      BY <1>2, <2>1, <3>3
  <2>4. a = n
    BY <1>2, <1>3, <2>1, <2>2, <2>3
  <2>. QED
    BY <1>2, <1>4, <2>1, <2>4
<1>. QED
  BY <1>3, <1>5, <1>6

LEMMA LessTransitive ==
  ASSUME NEW p \in Words, NEW q \in Words, NEW r \in Words, Less(p, q), Less(q, r)
  PROVE  Less(p, r)
<1>1. PICK a \in Nat : Before(p, q, a)
  BY LessIs
<1>2. PICK b \in Nat : Before(q, r, b)
  BY LessIs
<1>3. /\ Len(p) \in Nat /\ Len(q) \in Nat /\ Len(r) \in Nat
      /\ \A k \in 1 .. Len(p) : p[k] \in Nat
      /\ \A k \in 1 .. Len(q) : q[k] \in Nat
      /\ \A k \in 1 .. Len(r) : r[k] \in Nat
  BY DEF Words
<1>4. /\ a \in 1 .. Len(q) /\ (a > Len(p) \/ p[a] < q[a])
      /\ \A k \in 1 .. a - 1 : k <= Len(p) /\ p[k] = q[k]
  BY <1>1 DEF Before
<1>5. /\ b \in 1 .. Len(r) /\ (b > Len(q) \/ q[b] < r[b])
      /\ \A k \in 1 .. b - 1 : k <= Len(q) /\ q[k] = r[k]
  BY <1>2 DEF Before
<1>6. CASE a < b
  <2>1. a \in 1 .. b - 1 /\ a <= Len(q) /\ q[a] = r[a]
    BY <1>3, <1>4, <1>5, <1>6
  <2>2. a \in 1 .. Len(r) /\ (a > Len(p) \/ p[a] < r[a])
    BY <1>3, <1>4, <1>5, <1>6, <2>1
  <2>3. \A k \in 1 .. a - 1 : k <= Len(p) /\ p[k] = r[k]
    BY <1>3, <1>4, <1>5, <1>6
  <2>. QED
    BY <2>2, <2>3, LessIs DEF Before
<1>7. CASE a = b
  <2>1. b <= Len(q) /\ q[b] < r[b]
    BY <1>3, <1>4, <1>5, <1>7
  <2>2. b > Len(p) \/ p[b] < r[b]
    BY <1>3, <1>4, <1>5, <1>7, <2>1
  <2>3. \A k \in 1 .. b - 1 : k <= Len(p) /\ p[k] = r[k]
    BY <1>3, <1>4, <1>5, <1>7
  <2>. QED
    BY <1>5, <2>2, <2>3, LessIs DEF Before
<1>8. CASE b < a
  <2>1. b \in 1 .. a - 1 /\ b <= Len(p) /\ p[b] = q[b] /\ b <= Len(q)
    BY <1>3, <1>4, <1>5, <1>8
  <2>2. p[b] < r[b]
    BY <1>3, <1>4, <1>5, <1>8, <2>1
  <2>3. \A k \in 1 .. b - 1 : k <= Len(p) /\ p[k] = r[k]
    BY <1>3, <1>4, <1>5, <1>8
  <2>. QED
    BY <1>5, <2>2, <2>3, LessIs DEF Before
<1>. QED
  BY <1>4, <1>5, <1>6, <1>7, <1>8

LEMMA LessTotal ==
  ASSUME NEW p \in Words, NEW q \in Words, p # q
  PROVE  Less(p, q) \/ Less(q, p)
<1>1. PICK a : a = Split(p, q)
  OBVIOUS
<1>2. Len(p) \in Nat /\ Len(q) \in Nat
      /\ (\A k \in 1 .. Len(p) : p[k] \in Nat) /\ (\A k \in 1 .. Len(q) : q[k] \in Nat)
  BY DEF Words
<1>3. /\ a \in 1 .. Len(p) + 1
      /\ a > Len(p) \/ a > Len(q) \/ p[a] # q[a]
      /\ \A k \in 1 .. a - 1 : k <= Len(q) /\ p[k] = q[k]
  BY <1>1, SplitIs
<1>4. ~ (a > Len(p) /\ a > Len(q))
  <2>1. SUFFICES ASSUME a > Len(p), a > Len(q) PROVE FALSE
    OBVIOUS
  <2>2. Len(p) = a - 1
    BY <1>2, <1>3, <2>1
  <2>3. Len(q) = a - 1
    <3>1. CASE a = 1
      BY <1>2, <2>1, <3>1
    <3>2. CASE a # 1
      <4>1. a - 1 \in 1 .. a - 1
        BY <1>2, <1>3, <3>2
      <4>. QED
        BY <1>2, <1>3, <2>1, <4>1
    <3>. QED
      BY <3>1, <3>2
  <2>4. Len(p) = Len(q) /\ \A k \in 1 .. Len(p) : p[k] = q[k]
    BY <1>3, <2>2, <2>3
  <2>5. p = q
    <3>1. p \in Seq(Nat) /\ q \in Seq(Nat)
      BY DEF Words
    <3>. QED
      BY <2>4, <3>1, SeqEqual, SMTT(60)
  <2>. QED
    BY <2>5
<1>5. CASE a <= Len(q) /\ (a > Len(p) \/ p[a] < q[a])
  BY <1>1, <1>5, Zenon DEF Less
<1>6. CASE a <= Len(p) /\ (a > Len(q) \/ q[a] < p[a])
  <2>1. Before(q, p, a)
    BY <1>2, <1>3, <1>6 DEF Before
  <2>2. a \in Nat
    BY <1>2, <1>3
  <2>. QED
    BY <2>1, <2>2, LessIs
<1>. QED
  BY <1>2, <1>3, <1>4, <1>5, <1>6

-----------------------------------------------------------------------------
(* The keys of a map in their order. *)

Sorting(s, S, n) ==
  /\ s \in [1 .. n -> S] /\ Range(s) = S
  /\ \A m, k \in 1 .. n : m < k => Less(s[m], s[k])

LEMMA SortOneMore ==
  ASSUME NEW S \in SUBSET Words, NEW x \in Words \ S, NEW n \in Nat, NEW s, Sorting(s, S, n)
  PROVE  \E u : Sorting(u, S \cup {x}, n + 1)
<1>1. /\ \A m \in 1 .. n : s[m] \in S /\ s[m] \in Words
      /\ \A m, k \in 1 .. n : m < k => Less(s[m], s[k])
      /\ \A y \in S : \E m \in 1 .. n : s[m] = y
  BY DEF Sorting, Range
<1>2. PICK C : C = { m \in 1 .. n : Less(s[m], x) }
  OBVIOUS
<1>3. PICK c \in C \cup {0} : \A m \in C \cup {0} : m <= c
  <2>1. Numbers(C)
    <3>1. C \subseteq Nat /\ \A m \in C : m <= n
      BY <1>2
    <3>. QED
      BY <3>1 DEF Numbers
  <2>. QED
    BY <2>1, Greatest
<1>4. c \in 0 .. n
  BY <1>2, <1>3
<1>5. \A m \in 1 .. n : m <= c => Less(s[m], x)
  <2>1. SUFFICES ASSUME NEW m \in 1 .. n, m <= c PROVE Less(s[m], x)
    OBVIOUS
  <2>2. c \in 1 .. n /\ Less(s[c], x)
    BY <1>2, <1>3, <1>4, <2>1
  <2>3. CASE m = c
    BY <2>2, <2>3
  <2>4. CASE m < c
    <3>1. Less(s[m], s[c])
      BY <1>1, <2>2, <2>4
    <3>. QED
      BY <1>1, <2>2, <3>1, LessTransitive
  <2>. QED
    BY <1>4, <2>1, <2>3, <2>4
<1>6. \A m \in 1 .. n : c < m => Less(x, s[m])
  <2>1. SUFFICES ASSUME NEW m \in 1 .. n, c < m PROVE Less(x, s[m])
    OBVIOUS
  <2>2. m \notin C
    BY <1>3, <1>4, <2>1
  <2>3. ~ Less(s[m], x) /\ s[m] # x
    BY <1>1, <1>2, <2>2
  <2>. QED
    BY <1>1, <2>3, LessTotal
<1>7. PICK u : u = [m \in 1 .. n + 1 |-> IF m <= c THEN s[m] ELSE IF m = c + 1 THEN x ELSE s[m - 1]]
  OBVIOUS
<1>8. /\ \A m \in 1 .. n + 1 : m <= c => m \in 1 .. n /\ u[m] = s[m]
      /\ c + 1 \in 1 .. n + 1 /\ u[c + 1] = x
      /\ \A m \in 1 .. n + 1 : c + 1 < m => m - 1 \in 1 .. n /\ c < m - 1 /\ u[m] = s[m - 1]
  BY <1>4, <1>7
<1>9. u \in [1 .. n + 1 -> S \cup {x}]
  <2>1. \A m \in 1 .. n + 1 : u[m] \in S \cup {x}
    BY <1>1, <1>4, <1>8
  <2>. QED
    BY <1>7, <2>1
<1>10. Range(u) = S \cup {x}
  <2>1. DOMAIN u = 1 .. n + 1 /\ Range(u) = { u[m] : m \in 1 .. n + 1 }
    BY <1>7 DEF Range
  <2>2. \A m \in 1 .. n : m <= c => m \in 1 .. n + 1 /\ u[m] = s[m]
    BY <1>8
  <2>3. \A m \in 1 .. n : ~ (m <= c) => m + 1 \in 1 .. n + 1 /\ u[m + 1] = s[m]
    BY <1>4, <1>7
  <2>4. \A y \in S : y \in Range(u)
    BY <1>1, <2>1, <2>2, <2>3
  <2>. QED
    BY <1>8, <1>9, <2>1, <2>4
<1>11. ASSUME NEW m \in 1 .. n + 1, NEW k \in 1 .. n + 1, m < k
       PROVE  Less(u[m], u[k])
  <2>1. CASE k <= c
    <3>1. m <= c
      BY <1>4, <1>11, <2>1
    <3>. QED
      BY <1>1, <1>8, <1>11, <2>1, <3>1
  <2>2. CASE k = c + 1
    <3>1. m <= c
      BY <1>4, <1>11, <2>2
    <3>. QED
      BY <1>5, <1>8, <2>2, <3>1
  <2>3. CASE c + 1 < k
    <3>1. k - 1 \in 1 .. n /\ c < k - 1 /\ u[k] = s[k - 1]
      BY <1>8, <2>3
    <3>2. CASE m <= c
      <4>1. m < k - 1 /\ m \in 1 .. n /\ u[m] = s[m]
        BY <1>4, <1>8, <3>1, <3>2
      <4>. QED
        BY <1>1, <3>1, <4>1
    <3>3. CASE m = c + 1
      BY <1>6, <1>8, <3>1, <3>3
    <3>4. CASE c + 1 < m
      <4>1. m - 1 \in 1 .. n /\ u[m] = s[m - 1] /\ m - 1 < k - 1
        BY <1>8, <1>11, <3>4
      <4>. QED
        BY <1>1, <3>1, <4>1
    <3>. QED
      BY <1>4, <3>2, <3>3, <3>4
  <2>. QED
    BY <1>4, <2>1, <2>2, <2>3
<1>. QED
  BY <1>9, <1>10, <1>11 DEF Sorting

LEMMA SortExists ==
  ASSUME NEW S \in SUBSET Words, IsFiniteSet(S)
  PROVE  \E s : Sorting(s, S, Cardinality(S))
<1>. DEFINE Sorts(n) == \A R \in SUBSET Words :
                          IsFiniteSet(R) /\ Cardinality(R) = n => \E s : Sorting(s, R, n)
            Good == { n \in Nat : Sorts(n) }
<1>1. 0 \in Good
  <2>1. SUFFICES ASSUME NEW R \in SUBSET Words, IsFiniteSet(R), Cardinality(R) = 0
                 PROVE  \E s : Sorting(s, R, 0)
    OBVIOUS
  <2>2. R = {}
    BY <2>1, FS_EmptySet
  <2>3. PICK s : s = [m \in 1 .. 0 |-> m]
    OBVIOUS
  <2>4. Sorting(s, R, 0)
    BY <2>2, <2>3 DEF Sorting, Range
  <2>. QED
    BY <2>4
<1>2. ASSUME NEW n \in Nat, n \in Good
      PROVE  n + 1 \in Good
  <2>1. SUFFICES ASSUME NEW R \in SUBSET Words, IsFiniteSet(R), Cardinality(R) = n + 1
                 PROVE  \E s : Sorting(s, R, n + 1)
    OBVIOUS
  <2>2. PICK x \in R : TRUE
    BY <2>1, FS_EmptySet
  <2>3. IsFiniteSet(R \ {x}) /\ Cardinality(R \ {x}) = n
    <3>1. /\ IsFiniteSet(R \ {x})
          /\ Cardinality(R \ {x}) = IF x \in R THEN Cardinality(R) - 1 ELSE Cardinality(R)
      BY <2>1, FS_RemoveElement
    <3>. QED
      BY <1>2, <2>1, <2>2, <3>1
  <2>4. PICK s : Sorting(s, R \ {x}, n)
    BY <1>2, <2>3
  <2>5. \E u : Sorting(u, (R \ {x}) \cup {x}, n + 1)
    BY <2>4, SortOneMore
  <2>6. (R \ {x}) \cup {x} = R
    BY <2>2
  <2>. QED
    BY <2>5, <2>6
<1>. HIDE DEF Good
<1>3. Cardinality(S) \in Good
  BY <1>1, <1>2, NatSetInduction, FS_CardinalityType
<1>. QED
  BY <1>3 DEF Good

LEMMA SortedIs ==
  ASSUME NEW S \in SUBSET Words, IsFiniteSet(S)
  PROVE  Sorting(Sorted(S), S, Cardinality(S))
<1>1. PICK s : Sorting(s, S, Cardinality(S))
  BY SortExists
<1>. DEFINE Fits(u) == Range(u) = S /\ \A m, n \in DOMAIN u : m < n => Less(u[m], u[n])
<1>2. s \in [1 .. Cardinality(S) -> S] /\ Fits(s)
  BY <1>1 DEF Sorting
<1>3. Sorted(S) = CHOOSE u \in [1 .. Cardinality(S) -> S] : Fits(u)
  BY Zenon DEF Sorted
<1>. HIDE DEF Fits
<1>4. Sorted(S) \in [1 .. Cardinality(S) -> S] /\ Fits(Sorted(S))
  BY <1>2, <1>3
<1>. QED
  BY <1>4 DEF Fits, Sorting

-----------------------------------------------------------------------------
(* Folders that a path is in. *)

LEMMA PrefixIs ==
  ASSUME NEW p \in Words, NEW q \in Words
  PROVE  IsPrefix(p, q) <=> Len(p) <= Len(q) /\ \A k \in 1 .. Len(p) : p[k] = q[k]
<1>1. Len(p) \in Nat /\ Len(q) \in Nat
  BY DEF Words
<1>2. CASE Len(p) <= Len(q)
  <2>1. PICK a : a = SubSeq(p, 1, Len(p))
    OBVIOUS
  <2>2. PICK b : b = SubSeq(q, 1, Len(p))
    OBVIOUS
  <2>3. a \in Seq(Nat) /\ Len(a) = Len(p) /\ \A k \in 1 .. Len(p) : a[k] = p[k]
    BY <1>1, <2>1 DEF Words
  <2>4. b \in Seq(Nat) /\ Len(b) = Len(p) /\ \A k \in 1 .. Len(p) : b[k] = q[k]
    BY <1>1, <1>2, <2>2 DEF Words
  <2>5. a = b <=> \A k \in 1 .. Len(p) : p[k] = q[k]
    BY <2>3, <2>4
  <2>. QED
    BY <1>2, <2>1, <2>2, <2>5 DEF IsPrefix
<1>3. CASE ~ (Len(p) <= Len(q))
  BY <1>3 DEF IsPrefix
<1>. QED
  BY <1>2, <1>3

LEMMA ByteLessOneWay ==
  ASSUME NEW c \in Nat, NEW d \in Nat, ByteLess(c, d)
  PROVE  ~ ByteLess(d, c)
<1>1. Byte \in Nat /\ Byte > 0
  BY ProgramAssumption
<1>2. /\ Low(c) \in Int /\ Low(d) \in Int /\ High(c) \in Int /\ High(d) \in Int
  BY <1>1 DEF Low, High
<1>3. \A b \in Int : Signed(b) \in Int
  BY <1>1 DEF Signed
<1>4. PICK a \in Int, b \in Int, x \in Int, y \in Int :
        a = Signed(Low(c)) /\ b = Signed(Low(d)) /\ x = Signed(High(c)) /\ y = Signed(High(d))
  BY <1>2, <1>3
<1>5. a < b \/ (a = b /\ Low(c) = Low(d) /\ x < y)
  BY <1>4 DEF ByteLess
<1>. QED
  BY <1>4, <1>5 DEF ByteLess

(* The two differ first at n. *)
DifferAt(p, q, n) ==
  /\ n \in 1 .. Len(p) /\ n <= Len(q) /\ p[n] # q[n]
  /\ \A k \in 1 .. n - 1 : p[k] = q[k]

LEMMA CmpAt ==
  ASSUME NEW p \in Words, NEW q \in Words, NEW n, DifferAt(p, q, n)
  PROVE  PrefixCmp(p, q) = IF ByteLess(p[n], q[n]) THEN -1 ELSE 1
<1>1. PICK a : a = Split(p, q)
  OBVIOUS
<1>2. Len(p) \in Nat /\ Len(q) \in Nat
  BY DEF Words
<1>3. /\ a \in 1 .. Len(p) + 1
      /\ a > Len(p) \/ a > Len(q) \/ p[a] # q[a]
      /\ \A k \in 1 .. a - 1 : k <= Len(q) /\ p[k] = q[k]
  BY <1>1, SplitIs
<1>4. n \in 1 .. Len(p) /\ n <= Len(q) /\ p[n] # q[n] /\ \A k \in 1 .. n - 1 : p[k] = q[k]
  BY DEF DifferAt
<1>5. ~ (a < n)
  BY <1>2, <1>3, <1>4
<1>6. ~ (n < a)
  BY <1>2, <1>3, <1>4
<1>7. a = n /\ ~ (n > Len(p) \/ n > Len(q))
  BY <1>2, <1>3, <1>4, <1>5, <1>6
<1>. QED
  BY <1>1, <1>7, Zenon DEF PrefixCmp

LEMMA CmpIs ==
  ASSUME NEW p \in Words, NEW q \in Words
  PROVE  \/ PrefixCmp(p, q) = 0 /\ (IsPrefix(p, q) \/ IsPrefix(q, p))
         \/ \E n \in Nat : DifferAt(p, q, n)
<1>1. PICK a : a = Split(p, q)
  OBVIOUS
<1>2. Len(p) \in Nat /\ Len(q) \in Nat
  BY DEF Words
<1>3. /\ a \in 1 .. Len(p) + 1
      /\ a > Len(p) \/ a > Len(q) \/ p[a] # q[a]
      /\ \A k \in 1 .. a - 1 : k <= Len(q) /\ p[k] = q[k]
  BY <1>1, SplitIs
<1>4. CASE a > Len(p)
  <2>1. PrefixCmp(p, q) = 0
    BY <1>1, <1>4, Zenon DEF PrefixCmp
  <2>2. Len(p) = a - 1 /\ \A k \in 1 .. Len(p) : p[k] = q[k]
    BY <1>2, <1>3, <1>4
  <2>3. Len(p) <= Len(q)
    <3>1. Len(p) # 0 => Len(p) \in 1 .. a - 1
      BY <1>2, <1>3, <2>2
    <3>. QED
      BY <1>2, <1>3, <3>1
  <2>. QED
    BY <2>1, <2>2, <2>3, PrefixIs
<1>5. CASE a <= Len(p) /\ a > Len(q)
  <2>1. PrefixCmp(p, q) = 0
    BY <1>1, <1>5, Zenon DEF PrefixCmp
  <2>2. Len(q) <= Len(p) /\ \A k \in 1 .. Len(q) : q[k] = p[k]
    BY <1>2, <1>3, <1>5
  <2>. QED
    BY <2>1, <2>2, PrefixIs
<1>6. CASE a <= Len(p) /\ a <= Len(q)
  BY <1>2, <1>3, <1>6 DEF DifferAt
<1>. QED
  BY <1>2, <1>3, <1>4, <1>5, <1>6

(* A folder g that a path is in, and another, f, which the path is not in: *)
(* if they are not in one another, the path's way at f is g's.             *)
LEMMA SameWay ==
  ASSUME NEW pt \in Words, NEW f \in Words, NEW g \in Words,
         IsPrefix(g, pt), ~ IsPrefix(g, f), PrefixCmp(pt, f) # 0
  PROVE  /\ PrefixCmp(pt, f) < 0 => PrefixCmp(f, g) > 0
         /\ PrefixCmp(pt, f) > 0 => PrefixCmp(g, f) > 0
<1>1. PICK n \in Nat : DifferAt(pt, f, n)
  BY CmpIs
<1>2. /\ Len(pt) \in Nat /\ Len(f) \in Nat /\ Len(g) \in Nat
      /\ \A k \in 1 .. Len(pt) : pt[k] \in Nat
      /\ \A k \in 1 .. Len(f) : f[k] \in Nat
  BY DEF Words
<1>3. n \in 1 .. Len(pt) /\ n <= Len(f) /\ pt[n] # f[n] /\ \A k \in 1 .. n - 1 : pt[k] = f[k]
  BY <1>1 DEF DifferAt
<1>4. Len(g) <= Len(pt) /\ \A k \in 1 .. Len(g) : g[k] = pt[k]
  BY PrefixIs
<1>5. n <= Len(g)
  <2>1. SUFFICES ASSUME Len(g) < n PROVE FALSE
    BY <1>2, <1>3
  <2>2. Len(g) <= Len(f) /\ \A k \in 1 .. Len(g) : g[k] = f[k]
    BY <1>2, <1>3, <1>4, <2>1
  <2>. QED
    BY <2>2, PrefixIs
<1>6. g[n] = pt[n] /\ pt[n] \in Nat /\ f[n] \in Nat
  BY <1>2, <1>3, <1>4, <1>5
<1>7. DifferAt(f, g, n) /\ DifferAt(g, f, n)
  <2>1. \A k \in 1 .. n - 1 : g[k] = f[k]
    BY <1>2, <1>3, <1>4, <1>5
  <2>. QED
    BY <1>2, <1>3, <1>5, <1>6, <2>1 DEF DifferAt
<1>8. /\ PrefixCmp(pt, f) = IF ByteLess(pt[n], f[n]) THEN -1 ELSE 1
      /\ PrefixCmp(f, g) = IF ByteLess(f[n], pt[n]) THEN -1 ELSE 1
      /\ PrefixCmp(g, f) = IF ByteLess(pt[n], f[n]) THEN -1 ELSE 1
  BY <1>1, <1>6, <1>7, CmpAt
<1>9. ByteLess(pt[n], f[n]) => ~ ByteLess(f[n], pt[n])
  BY <1>6, ByteLessOneWay
<1>. QED
  BY <1>8, <1>9

LEMMA PrefixOfSame ==
  ASSUME NEW p \in Words, NEW q \in Words, NEW pt \in Words, IsPrefix(p, pt), IsPrefix(q, pt)
  PROVE  IsPrefix(p, q) \/ IsPrefix(q, p)
<1>1. /\ Len(p) \in Nat /\ Len(q) \in Nat
      /\ \A k \in 1 .. Len(p) : p[k] = pt[k]
      /\ \A k \in 1 .. Len(q) : q[k] = pt[k]
  BY PrefixIs DEF Words
<1>2. CASE Len(p) <= Len(q)
  BY <1>1, <1>2, PrefixIs
<1>3. CASE Len(q) <= Len(p)
  BY <1>1, <1>3, PrefixIs
<1>. QED
  BY <1>1, <1>2, <1>3

LEMMA PrefixBoth ==
  ASSUME NEW p \in Words
  PROVE  IsPrefix(p, p)
BY PrefixIs DEF Words

-----------------------------------------------------------------------------
(* The lists of programs: what the invariant says of the texts (rs), the   *)
(* maps, the arrays and the search.                                        *)

LineType == [kind : {"exe", "prefix", "wild"}, path : Words]

(* The paths of the lines of a kind before n, and the first line of each. *)
KeysBefore(rs, kind, n) == { rs[k].path : k \in { m \in 1 .. n - 1 : rs[m].kind = kind } }
FirstLine(rs, kind, q, k) ==
  /\ k \in 1 .. Len(rs) /\ rs[k] = [kind |-> kind, path |-> q]
  /\ \A m \in 1 .. k - 1 : rs[m] # rs[k]
MapIs(rs, map, kind, n) ==
  /\ DOMAIN map = KeysBefore(rs, kind, n)
  /\ \A q \in DOMAIN map : FirstLine(rs, kind, q, map[q])

FoldersOf(rs) == { rs[n].path : n \in { k \in DOMAIN rs : rs[k].kind = "prefix" } }
ExesOf(rs) == { rs[n].path : n \in { k \in DOMAIN rs : rs[k].kind = "exe" } }
LineFor(rs, kind, p) ==
  CHOOSE n \in DOMAIN rs :
    rs[n] = [kind |-> kind, path |-> p] /\ \A k \in 1 .. n - 1 : rs[k] # rs[n]

(* No folders that the search may miss. *)
Plain(rs, pt) ==
  /\ ~ \E p, q \in FoldersOf(rs) : p # q /\ IsPrefix(p, q)
  /\ ~ \E p, q \in FoldersOf(rs) : Less(p, q) /\ PrefixCmp(p, q) > 0
  /\ ~ \E p \in FoldersOf(rs) : p # pt /\ IsPrefix(pt, p)

Meant(rs, pt) == { n \in DOMAIN rs : rs[n].kind = "wild" /\ Means(rs[n].path, pt) }
WantedOf(rs, pt) ==
  IF pt \in ExesOf(rs) THEN {LineFor(rs, "exe", pt)}
  ELSE IF \E p \in FoldersOf(rs) : IsPrefix(p, pt)
       THEN {LineFor(rs, "prefix", CHOOSE p \in FoldersOf(rs) : IsPrefix(p, pt))}
       ELSE IF Meant(rs, pt) = {} THEN {0} ELSE Meant(rs, pt)
Decided(rs, pt, f) == f \in WantedOf(rs, pt) \/ (pt \notin ExesOf(rs) /\ ~ Plain(rs, pt))

(* The search has left out no folder that the path is in. *)
Searched(rs, apps, pt, a, b) ==
  /\ pt \in Words /\ pt \notin ExesOf(rs)
  /\ a \in Nat /\ b \in Int /\ b < Len(apps)
  /\ Plain(rs, pt) => \A m \in 1 .. Len(apps) : m <= a \/ m > b + 1 => ~ IsPrefix(apps[m], pt)

AppsWritten ==
  /\ nextRule = Len(rules) + 1
  /\ Sorting(prefixApps, DOMAIN prefixAppsMap, Len(prefixApps)) /\ Len(prefixApps) \in Nat
  /\ Range(wildApps) = DOMAIN wildAppsMap /\ DOMAIN wildApps \subseteq Nat

ProgramInv ==
  /\ rules \in Seq(LineType) /\ nextRule \in 1 .. Len(rules) + 1
  /\ MapIs(rules, exeAppsMap, "exe", nextRule)
  /\ MapIs(rules, prefixAppsMap, "prefix", nextRule)
  /\ MapIs(rules, wildAppsMap, "wild", nextRule)
  /\ programPlace \in {"parse", "written", "prefix", "done"}
  /\ programPlace # "parse" => AppsWritten
  /\ programPlace = "prefix" => Searched(rules, prefixApps, path, first, last)
  /\ programPlace = "done" => Decided(rules, path, found)

LEMMA DecidedIs == ProgramDecided <=> (programPlace = "done" => Decided(rules, path, found))
<1>1. Wanted = WantedOf(rules, path)
  BY Zenon DEF Wanted, WantedOf, ExePaths, ExesOf, Folders, FoldersOf, LineOf, LineFor, Matching, Meant
<1>2. Nested \/ Disordered \/ Short <=> ~ Plain(rules, path)
  BY Zenon DEF Nested, Disordered, Short, Plain, Folders, FoldersOf
<1>3. ExePaths = ExesOf(rules)
  BY Zenon DEF ExePaths, ExesOf
<1>. QED
  BY <1>1, <1>2, <1>3, Zenon DEF ProgramDecided, Decided

(* What is given. *)
LEMMA WordsGiven ==
  /\ Paths \subseteq Words /\ TriedPaths \subseteq Words
  /\ \A n \in Int : Patterns(n) \subseteq Words
<1>1. Letters \subseteq Nat /\ Name \in Nat /\ Name + 1 \in Nat
  BY ProgramAssumption
<1>2. Paths \subseteq Words
  <2>1. SUFFICES ASSUME NEW n \in 1 .. MaxPath, NEW p \in [1 .. n -> Letters] PROVE p \in Words
    BY Zenon DEF Paths
  <2>2. n \in Nat /\ p \in [1 .. n -> Nat]
    <3>1. n \in Nat
      BY <2>1, ProgramAssumption
    <3>2. p \in [1 .. n -> Nat]
      BY <1>1, <2>1
    <3>. QED
      BY <3>1, <3>2
  <2>. QED
    BY <2>2 DEF Words
<1>3. TriedPaths \subseteq Words
  <2>1. SUFFICES ASSUME NEW n \in 1 .. MaxTried, NEW p \in [1 .. n -> {Name, Name + 1, Sep}] PROVE p \in Words
    BY Zenon DEF TriedPaths
  <2>2. n \in Nat /\ p \in [1 .. n -> Nat]
    <3>1. {Name, Name + 1, Sep} \subseteq Nat
      BY <1>1 DEF Sep
    <3>. QED
      BY <2>1, <3>1, ProgramAssumption
  <2>. QED
    BY <2>2 DEF Words
<1>4. Tokens \subseteq Words
  <2>1. PICK c \in Nat : c = CHOOSE d \in Negate : TRUE
    <3>1. (CHOOSE d \in Negate : TRUE) \in Negate
      BY Zenon DEF Negate
    <3>. QED
      BY <3>1 DEF Negate
  <2>2. Tokens = { <<Name>>, <<Sep>>, <<Question>>, <<Star>>, <<Star, Star>>, <<Open>>,
                   <<Open, c, Name, Close>>, <<Open, Name, Dash, Name + 1, Close>> }
    BY <2>1, Zenon DEF Tokens
  <2>3. Sep \in Nat /\ Question \in Nat /\ Star \in Nat /\ Open \in Nat /\ Close \in Nat /\ Dash \in Nat
    BY DEF Sep, Question, Star, Open, Close, Dash
  <2>. QED
    BY <1>1, <2>2, <2>3 DEF Words
<1>5. ASSUME NEW n \in Int, NEW p \in Patterns(n)
      PROVE  p \in Words
  <2>1. PICK k \in 1 .. n : \E s \in [1 .. k -> Tokens] : p = FlattenSeq(s)
    BY <1>5, Zenon DEF Patterns
  <2>4. PICK s \in [1 .. k -> Tokens] : p = FlattenSeq(s)
    BY <2>1
  <2>2. k \in Nat /\ s \in [1 .. k -> Seq(Nat)]
    BY <1>4, <1>5, <2>1, <2>4 DEF Words
  <2>3. s \in Seq(Seq(Nat))
    BY <2>2
  <2>. QED
    BY <2>3, <2>4, FlattenType DEF Words
<1>. QED
  BY <1>2, <1>3, <1>5

LEMMA TextsTyped == Texts \subseteq Seq(LineType)
<1>1. SUFFICES ASSUME NEW rs \in Texts PROVE rs \in Seq(LineType)
  OBVIOUS
<1>2. CASE rs \in AppTexts
  <2>1. PICK n \in 0 .. MaxRules : rs \in [1 .. n -> [kind : {"exe", "prefix"}, path : Paths]]
    BY <1>2, Zenon DEF AppTexts
  <2>2. [kind : {"exe", "prefix"}, path : Paths] \subseteq LineType
    BY WordsGiven DEF LineType
  <2>3. n \in Nat /\ rs \in [1 .. n -> LineType]
    BY <2>1, <2>2, ProgramAssumption
  <2>. QED
    BY <2>3
<1>3. ASSUME NEW k \in Int
      PROVE  WildLines(k) \subseteq LineType
  <2>1. Patterns(k) \subseteq Words
    BY <1>3, WordsGiven
  <2>. QED
    BY <2>1 DEF WildLines, LineType
<1>4. CASE rs \in [1 .. 1 -> WildLines(MaxTokens)]
  <2>1. rs \in [1 .. 1 -> LineType]
    BY <1>3, <1>4, ProgramAssumption
  <2>2. \E n \in Nat : rs \in [1 .. n -> LineType]
    BY <2>1
  <2>. QED
    BY <2>2
<1>5. CASE rs \in [1 .. 2 -> WildLines(MaxTokens - 2)]
  <2>1. rs \in [1 .. 2 -> LineType]
    BY <1>3, <1>5, ProgramAssumption
  <2>2. \E n \in Nat : rs \in [1 .. n -> LineType]
    BY <2>1
  <2>. QED
    BY <2>2
<1>. QED
  BY <1>1, <1>2, <1>4, <1>5, Zenon DEF Texts

-----------------------------------------------------------------------------
(* The steps. *)

LEMMA LineTyped ==
  ASSUME NEW rs \in Seq(LineType), NEW k \in 1 .. Len(rs)
  PROVE  /\ rs[k] = [kind |-> rs[k].kind, path |-> rs[k].path]
         /\ rs[k].kind \in {"exe", "prefix", "wild"} /\ rs[k].path \in Words
<1>1. rs[k] \in LineType
  OBVIOUS
<1>. QED
  BY <1>1 DEF LineType

LEMMA MapStep ==
  ASSUME NEW rs \in Seq(LineType), NEW n \in 1 .. Len(rs), NEW map, NEW kind,
         MapIs(rs, map, kind, n)
  PROVE  /\ rs[n].kind = kind => MapIs(rs, WithApp(map, rs[n].path, n), kind, n + 1)
         /\ rs[n].kind # kind => MapIs(rs, map, kind, n + 1)
<1>1. DOMAIN map = KeysBefore(rs, kind, n) /\ \A q \in DOMAIN map : FirstLine(rs, kind, q, map[q])
  BY DEF MapIs
<1>2. CASE rs[n].kind # kind
  <2>1. KeysBefore(rs, kind, n + 1) = KeysBefore(rs, kind, n)
    BY <1>2 DEF KeysBefore
  <2>. QED
    BY <1>1, <1>2, <2>1 DEF MapIs
<1>3. CASE rs[n].kind = kind
  <2>1. PICK p : p = rs[n].path
    OBVIOUS
  <2>2. KeysBefore(rs, kind, n + 1) = KeysBefore(rs, kind, n) \cup {p}
    BY <1>3, <2>1 DEF KeysBefore
  <2>3. CASE p \in DOMAIN map
    <3>1. WithApp(map, p, n) = map
      BY <2>3, Zenon DEF WithApp
    <3>. QED
      BY <1>1, <1>3, <2>1, <2>2, <2>3, <3>1 DEF MapIs
  <2>4. CASE p \notin DOMAIN map
    <3>1. PICK u : u = [q \in DOMAIN map \cup {p} |-> IF q = p THEN n ELSE map[q]]
      OBVIOUS
    <3>2. WithApp(map, p, n) = u
      BY <2>4, <3>1, Zenon DEF WithApp
    <3>3. FirstLine(rs, kind, p, n)
      <4>1. rs[n] = [kind |-> kind, path |-> p]
        BY <1>3, <2>1, LineTyped
      <4>2. ASSUME NEW m \in 1 .. n - 1, rs[m] = rs[n]
            PROVE  FALSE
        <5>1. rs[m].kind = kind /\ rs[m].path = p
          BY <4>1, <4>2
        <5>2. p \in KeysBefore(rs, kind, n)
          BY <5>1 DEF KeysBefore
        <5>. QED
          BY <1>1, <2>4, <5>2
      <4>. QED
        BY <4>1, <4>2 DEF FirstLine
    <3>4. DOMAIN u = KeysBefore(rs, kind, n + 1)
      BY <1>1, <2>2, <3>1
    <3>5. \A q \in DOMAIN u : FirstLine(rs, kind, q, u[q])
      <4>1. SUFFICES ASSUME NEW q \in DOMAIN u PROVE FirstLine(rs, kind, q, u[q])
        OBVIOUS
      <4>2. CASE q = p
        BY <3>1, <3>3, <4>2
      <4>3. CASE q # p
        <5>1. q \in DOMAIN map /\ u[q] = map[q]
          BY <3>1, <4>1, <4>3
        <5>. QED
          BY <1>1, <5>1
      <4>. QED
        BY <4>2, <4>3
    <3>. QED
      BY <1>3, <2>1, <3>2, <3>4, <3>5 DEF MapIs
  <2>. QED
    BY <2>3, <2>4
<1>. QED
  BY <1>2, <1>3

LEMMA KeysWhole ==
  ASSUME NEW rs \in Seq(LineType), NEW kind, NEW map, MapIs(rs, map, kind, Len(rs) + 1)
  PROVE  /\ DOMAIN map = { rs[n].path : n \in { k \in DOMAIN rs : rs[k].kind = kind } }
         /\ DOMAIN map \in SUBSET Words /\ IsFiniteSet(DOMAIN map)
<1>1. DOMAIN map = KeysBefore(rs, kind, Len(rs) + 1)
  BY DEF MapIs
<1>2. DOMAIN rs = 1 .. Len(rs) /\ 1 .. (Len(rs) + 1) - 1 = 1 .. Len(rs) /\ Len(rs) \in Nat
  OBVIOUS
<1>3. DOMAIN map = { rs[n].path : n \in { k \in DOMAIN rs : rs[k].kind = kind } }
  BY <1>1, <1>2, Zenon DEF KeysBefore
<1>4. DOMAIN map \in SUBSET Words
  BY <1>2, <1>3, LineTyped
<1>5. PICK K : K = { k \in DOMAIN rs : rs[k].kind = kind }
  OBVIOUS
<1>6. IsFiniteSet(K)
  <2>1. IsFiniteSet(1 .. Len(rs)) /\ K \subseteq 1 .. Len(rs)
    BY <1>2, <1>5, FS_Interval
  <2>. QED
    BY <2>1, FS_Subset
<1>7. IsFiniteSet({ rs[n].path : n \in K })
  <2>1. PICK f : f = [n \in K |-> rs[n].path]
    OBVIOUS
  <2>2. f \in Surjection(K, { rs[n].path : n \in K })
    BY <2>1 DEF Surjection
  <2>. QED
    BY <1>6, <2>2, FS_Surjection
<1>. QED
  BY <1>3, <1>4, <1>5, <1>7

(* The first line of a path is the one that is wanted. *)
LEMMA LineIsFirst ==
  ASSUME NEW rs \in Seq(LineType), NEW kind, NEW p, NEW k, FirstLine(rs, kind, p, k)
  PROVE  LineFor(rs, kind, p) = k
<1>. DEFINE Is(n) == rs[n] = [kind |-> kind, path |-> p] /\ \A m \in 1 .. n - 1 : rs[m] # rs[n]
<1>1. k \in DOMAIN rs /\ Is(k) /\ DOMAIN rs = 1 .. Len(rs)
  BY DEF FirstLine
<1>2. PICK n : n = LineFor(rs, kind, p)
  OBVIOUS
<1>3. n = CHOOSE m \in DOMAIN rs : Is(m)
  BY <1>2, Zenon DEF LineFor
<1>4. n \in DOMAIN rs /\ Is(n)
  <2>. HIDE DEF Is
  <2>. QED
    BY <1>1, <1>3
<1>5. ~ (n < k) /\ ~ (k < n)
  BY <1>1, <1>4
<1>. QED
  BY <1>1, <1>2, <1>4, <1>5

LEMMA ProgramStarts == ProgramInit => ProgramInv
<1>1. SUFFICES ASSUME ProgramInit PROVE ProgramInv
  OBVIOUS
<1>2. rules \in Seq(LineType) /\ nextRule = 1 /\ programPlace = "parse"
  BY <1>1, TextsTyped DEF ProgramInit, ProgramStart
<1>3. exeAppsMap = EmptyMap /\ prefixAppsMap = EmptyMap /\ wildAppsMap = EmptyMap
  BY <1>1 DEF ProgramInit, ProgramStart
<1>4. ASSUME NEW kind
      PROVE  MapIs(rules, EmptyMap, kind, 1)
  BY DEF MapIs, EmptyMap, KeysBefore
<1>. QED
  BY <1>2, <1>3, <1>4 DEF ProgramInv

LEMMA AddStep ==
  ASSUME ProgramInv, AddParsedApp
  PROVE  ProgramInv'
<1>1. /\ rules' = rules /\ nextRule' = nextRule + 1
      /\ programPlace = "parse" /\ programPlace' = "parse" /\ nextRule \in DOMAIN rules
  BY DEF AddParsedApp
<1>2. rules \in Seq(LineType) /\ nextRule \in 1 .. Len(rules)
  BY <1>1 DEF ProgramInv
<1>3. PICK r : r = rules[nextRule]
  OBVIOUS
<1>4. \/ /\ r.kind = "exe" /\ exeAppsMap' = WithApp(exeAppsMap, r.path, nextRule)
         /\ prefixAppsMap' = prefixAppsMap /\ wildAppsMap' = wildAppsMap
      \/ /\ r.kind = "prefix" /\ prefixAppsMap' = WithApp(prefixAppsMap, r.path, nextRule)
         /\ exeAppsMap' = exeAppsMap /\ wildAppsMap' = wildAppsMap
      \/ /\ r.kind = "wild" /\ wildAppsMap' = WithApp(wildAppsMap, r.path, nextRule)
         /\ exeAppsMap' = exeAppsMap /\ prefixAppsMap' = prefixAppsMap
  BY <1>3, Zenon DEF AddParsedApp
<1>5. /\ r.kind = "exe" => MapIs(rules, WithApp(exeAppsMap, r.path, nextRule), "exe", nextRule + 1)
      /\ r.kind # "exe" => MapIs(rules, exeAppsMap, "exe", nextRule + 1)
      /\ r.kind = "prefix" => MapIs(rules, WithApp(prefixAppsMap, r.path, nextRule), "prefix", nextRule + 1)
      /\ r.kind # "prefix" => MapIs(rules, prefixAppsMap, "prefix", nextRule + 1)
      /\ r.kind = "wild" => MapIs(rules, WithApp(wildAppsMap, r.path, nextRule), "wild", nextRule + 1)
      /\ r.kind # "wild" => MapIs(rules, wildAppsMap, "wild", nextRule + 1)
  BY <1>2, <1>3, MapStep DEF ProgramInv
<1>6. /\ MapIs(rules, exeAppsMap', "exe", nextRule + 1)
      /\ MapIs(rules, prefixAppsMap', "prefix", nextRule + 1)
      /\ MapIs(rules, wildAppsMap', "wild", nextRule + 1)
  BY <1>4, <1>5
<1>7. nextRule + 1 \in 1 .. Len(rules) + 1
  BY <1>2
<1>. QED
  BY <1>1, <1>2, <1>6, <1>7 DEF ProgramInv

LEMMA WriteStep ==
  ASSUME ProgramInv, WriteApps
  PROVE  ProgramInv'
<1>1. /\ UNCHANGED rulesVars /\ programPlace = "parse" /\ programPlace' = "written"
      /\ nextRule \notin DOMAIN rules
      /\ prefixApps' = Sorted(DOMAIN prefixAppsMap) /\ wildApps' = Sorted(DOMAIN wildAppsMap)
  BY DEF WriteApps
<1>2. rules \in Seq(LineType) /\ nextRule = Len(rules) + 1
  BY <1>1 DEF ProgramInv
<1>3. ASSUME NEW map, NEW kind, MapIs(rules, map, kind, Len(rules) + 1)
      PROVE  /\ Sorting(Sorted(DOMAIN map), DOMAIN map, Len(Sorted(DOMAIN map)))
             /\ Len(Sorted(DOMAIN map)) \in Nat
             /\ Range(Sorted(DOMAIN map)) = DOMAIN map
             /\ DOMAIN Sorted(DOMAIN map) \subseteq Nat
  <2>1. PICK S : S = DOMAIN map
    OBVIOUS
  <2>2. PICK s : s = Sorted(S)
    OBVIOUS
  <2>3. PICK c : c = Cardinality(S)
    OBVIOUS
  <2>4. S \in SUBSET Words /\ IsFiniteSet(S)
    BY <1>2, <1>3, <2>1, KeysWhole
  <2>5. c \in Nat /\ Sorting(s, S, c)
    BY <2>2, <2>3, <2>4, SortedIs, FS_CardinalityType
  <2>6. s \in [1 .. c -> S] /\ Range(s) = S
    BY <2>5 DEF Sorting
  <2>7. Len(s) = c /\ DOMAIN s \subseteq Nat
    BY <2>5, <2>6
  <2>. QED
    BY <2>1, <2>2, <2>5, <2>6, <2>7
<1>4. /\ MapIs(rules, exeAppsMap, "exe", nextRule)
      /\ MapIs(rules, prefixAppsMap, "prefix", nextRule)
      /\ MapIs(rules, wildAppsMap, "wild", nextRule)
  BY DEF ProgramInv
<1>5. AppsWritten'
  BY <1>1, <1>2, <1>3, <1>4 DEF AppsWritten, rulesVars
<1>. QED
  BY <1>1, <1>2, <1>4, <1>5 DEF ProgramInv, rulesVars

LEMMA FindStep ==
  ASSUME ProgramInv, Find
  PROVE  ProgramInv'
<1>1. /\ UNCHANGED rulesVars /\ prefixApps' = prefixApps /\ wildApps' = wildApps
      /\ programPlace = "written" /\ first' = 0 /\ last' = Len(prefixApps) - 1
  BY DEF Find, LastOf
<1>2. PICK pt : pt = path'
  OBVIOUS
<1>3. pt \in Words
  BY <1>2, WordsGiven, Zenon DEF Find
<1>4. AppsWritten'
  <2>1. AppsWritten
    BY <1>1 DEF ProgramInv
  <2>. QED
    BY <1>1, <2>1 DEF AppsWritten, rulesVars
<1>5. /\ rules \in Seq(LineType) /\ nextRule = Len(rules) + 1
      /\ MapIs(rules, exeAppsMap, "exe", nextRule)
      /\ MapIs(rules, prefixAppsMap, "prefix", nextRule)
      /\ MapIs(rules, wildAppsMap, "wild", nextRule)
      /\ Len(prefixApps) \in Nat
  BY <1>1 DEF ProgramInv, AppsWritten
<1>6. DOMAIN exeAppsMap = ExesOf(rules)
  BY <1>5, KeysWhole, Zenon DEF ExesOf
<1>7. CASE pt \in DOMAIN exeAppsMap
  <2>1. PICK f : f = found'
    OBVIOUS
  <2>2. f = exeAppsMap[pt] /\ programPlace' = "done"
    BY <1>2, <1>7, <2>1, Zenon DEF Find
  <2>3. FirstLine(rules, "exe", pt, f)
    BY <1>5, <1>7, <2>2 DEF MapIs
  <2>4. f \in WantedOf(rules, pt)
    BY <1>5, <1>6, <1>7, <2>3, LineIsFirst DEF WantedOf
  <2>5. Decided(rules, pt, f)
    BY <2>4, Zenon DEF Decided
  <2>. QED
    BY <1>1, <1>2, <1>4, <1>5, <2>1, <2>2, <2>5 DEF ProgramInv, rulesVars
<1>8. CASE pt \notin DOMAIN exeAppsMap
  <2>1. programPlace' = "prefix"
    BY <1>2, <1>8, Zenon DEF Find
  <2>2. Searched(rules, prefixApps, pt, 0, Len(prefixApps) - 1)
    BY <1>3, <1>5, <1>6, <1>8 DEF Searched
  <2>. QED
    BY <1>1, <1>2, <1>4, <1>5, <2>1, <2>2 DEF ProgramInv, rulesVars
<1>. QED
  BY <1>7, <1>8

LEMMA CmpOfPrefix ==
  ASSUME NEW pt \in Words, NEW f \in Words, IsPrefix(f, pt)
  PROVE  PrefixCmp(pt, f) = 0
<1>1. ASSUME NEW n \in Nat, DifferAt(pt, f, n)
      PROVE  FALSE
  BY <1>1, PrefixIs DEF DifferAt, Words
<1>. QED
  BY <1>1, CmpIs

(* A probe leaves out the folders on one side of the middle: none of them  *)
(* is one that the path is in.                                             *)
LEMMA ProbeLeavesOut ==
  ASSUME NEW rs \in Seq(LineType), NEW apps, NEW pt \in Words, NEW middle \in 1 .. Len(apps), NEW m \in 1 .. Len(apps),
         Sorting(apps, FoldersOf(rs), Len(apps)), FoldersOf(rs) \in SUBSET Words, Plain(rs, pt),
         IsPrefix(apps[m], pt)
  PROVE  /\ PrefixCmp(pt, apps[middle]) < 0 => m < middle
         /\ PrefixCmp(pt, apps[middle]) > 0 => middle < m
<1>1. PICK f : f = apps[middle]
  OBVIOUS
<1>2. PICK g : g = apps[m]
  OBVIOUS
<1>3. f \in FoldersOf(rs) /\ g \in FoldersOf(rs) /\ f \in Words /\ g \in Words
  BY <1>1, <1>2 DEF Sorting
<1>4. SUFFICES ASSUME PrefixCmp(pt, f) # 0
               PROVE  /\ PrefixCmp(pt, f) < 0 => m < middle
                      /\ PrefixCmp(pt, f) > 0 => middle < m
  BY <1>1
<1>5. f # g
  BY <1>2, <1>3, <1>4, CmpOfPrefix
<1>6. ~ IsPrefix(g, f)
  BY <1>3, <1>5, Zenon DEF Plain
<1>7. /\ PrefixCmp(pt, f) < 0 => PrefixCmp(f, g) > 0
      /\ PrefixCmp(pt, f) > 0 => PrefixCmp(g, f) > 0
  BY <1>2, <1>3, <1>4, <1>6, SameWay
<1>8. (PrefixCmp(f, g) > 0 => ~ Less(f, g)) /\ (PrefixCmp(g, f) > 0 => ~ Less(g, f))
  BY <1>3, Zenon DEF Plain
<1>9. (middle < m => Less(f, g)) /\ (m < middle => Less(g, f)) /\ m # middle
  BY <1>1, <1>2, <1>5 DEF Sorting
<1>10. Len(apps) \in Nat \/ middle \in Int
  OBVIOUS
<1>11. middle \in Int /\ m \in Int
  OBVIOUS
<1>. QED
  BY <1>7, <1>8, <1>9, <1>11

(* A folder that a path compares equal with decides. *)
LEMMA FolderDecides ==
  ASSUME NEW rs \in Seq(LineType), NEW pt \in Words, NEW f \in FoldersOf(rs), FoldersOf(rs) \in SUBSET Words,
         pt \notin ExesOf(rs), PrefixCmp(pt, f) = 0, NEW k, FirstLine(rs, "prefix", f, k)
  PROVE  Decided(rs, pt, k)
<1>1. SUFFICES ASSUME Plain(rs, pt)
               PROVE  k \in WantedOf(rs, pt)
  BY Zenon DEF Decided
<1>2. f \in Words
  OBVIOUS
<1>3. IsPrefix(pt, f) \/ IsPrefix(f, pt)
  <2>1. ASSUME NEW n \in Nat, DifferAt(pt, f, n)
        PROVE  FALSE
    <3>1. PrefixCmp(pt, f) = -1 \/ PrefixCmp(pt, f) = 1
      BY <1>2, <2>1, CmpAt
    <3>. QED
      BY <3>1
  <2>. QED
    BY <1>2, <2>1, CmpIs
<1>4. IsPrefix(f, pt)
  <2>1. IsPrefix(pt, f) => f = pt
    BY <1>1, Zenon DEF Plain
  <2>. QED
    BY <1>3, <2>1
<1>5. PICK g : g = CHOOSE p \in FoldersOf(rs) : IsPrefix(p, pt)
  OBVIOUS
<1>6. g \in FoldersOf(rs) /\ IsPrefix(g, pt)
  BY <1>4, <1>5
<1>7. g = f
  <2>1. IsPrefix(g, f) \/ IsPrefix(f, g)
    BY <1>2, <1>4, <1>6, PrefixOfSame
  <2>. QED
    BY <1>1, <1>6, <2>1, Zenon DEF Plain
<1>8. WantedOf(rs, pt) = {LineFor(rs, "prefix", f)}
  BY <1>4, <1>5, <1>7, Zenon DEF WantedOf
<1>9. LineFor(rs, "prefix", f) = k
  BY LineIsFirst
<1>. QED
  BY <1>8, <1>9

LEMMA ProbeStep ==
  ASSUME ProgramInv, PrefixProbe
  PROVE  ProgramInv'
<1>1. PICK middle : middle = (first + last) \div 2
  OBVIOUS
<1>2. PICK f : f = prefixApps[middle + 1]
  OBVIOUS
<1>3. PICK res : res = PrefixCmp(path, f)
  OBVIOUS
<1>3a. res \in {-1, 0, 1}
  <2>1. res = 0 \/ res = -1 \/ res = 1
    BY <1>3, Zenon DEF PrefixCmp
  <2>. QED
    BY <2>1
<1>4. /\ programPlace = "prefix" /\ first <= last
      /\ UNCHANGED <<rulesVars, prefixApps, wildApps, path>>
      /\ \/ /\ res < 0 /\ last' = middle - 1
            /\ first' = first /\ found' = found /\ programPlace' = programPlace
         \/ /\ res > 0 /\ first' = middle + 1
            /\ last' = last /\ found' = found /\ programPlace' = programPlace
         \/ /\ res = 0 /\ found' = prefixAppsMap[f] /\ programPlace' = "done"
  BY <1>1, <1>2, <1>3, Zenon DEF PrefixProbe
<1>5. PICK pt : pt = path
  OBVIOUS
<1>6. PICK a : a = first
  OBVIOUS
<1>7. PICK b : b = last
  OBVIOUS
<1>8. /\ AppsWritten /\ rules \in Seq(LineType) /\ nextRule = Len(rules) + 1
      /\ MapIs(rules, exeAppsMap, "exe", nextRule)
      /\ MapIs(rules, prefixAppsMap, "prefix", nextRule)
      /\ MapIs(rules, wildAppsMap, "wild", nextRule)
      /\ Sorting(prefixApps, DOMAIN prefixAppsMap, Len(prefixApps)) /\ Len(prefixApps) \in Nat
  BY <1>4 DEF ProgramInv, AppsWritten
<1>9. AppsWritten'
  BY <1>4, <1>8 DEF AppsWritten, rulesVars
<1>10. DOMAIN prefixAppsMap = FoldersOf(rules) /\ FoldersOf(rules) \in SUBSET Words
  BY <1>8, KeysWhole, Zenon DEF FoldersOf
<1>11. Searched(rules, prefixApps, pt, a, b) /\ a <= b
  BY <1>4, <1>5, <1>6, <1>7 DEF ProgramInv
<1>12. /\ pt \in Words /\ pt \notin ExesOf(rules)
       /\ a \in Nat /\ b \in Int /\ b < Len(prefixApps)
       /\ Plain(rules, pt) =>
            \A m \in 1 .. Len(prefixApps) : m <= a \/ m > b + 1 => ~ IsPrefix(prefixApps[m], pt)
  BY <1>11 DEF Searched
<1>13. middle \in Nat /\ a <= middle /\ middle <= b
  BY <1>1, <1>6, <1>7, <1>11, <1>12
<1>14. middle + 1 \in 1 .. Len(prefixApps)
  BY <1>8, <1>12, <1>13
<1>15. ASSUME Plain(rules, pt), NEW m \in 1 .. Len(prefixApps), IsPrefix(prefixApps[m], pt)
       PROVE  (res < 0 => m < middle + 1) /\ (res > 0 => middle + 1 < m)
  BY <1>2, <1>3, <1>5, <1>8, <1>10, <1>12, <1>14, <1>15, ProbeLeavesOut
<1>16. CASE res < 0
  <2>1. /\ first' = a /\ last' = middle - 1 /\ programPlace' = "prefix" /\ path' = pt
    BY <1>3, <1>4, <1>5, <1>6, <1>3a, <1>16
  <2>2. Searched(rules, prefixApps, pt, a, middle - 1)
    <3>1. middle - 1 \in Int /\ middle - 1 < Len(prefixApps)
      BY <1>12, <1>13
    <3>2. ASSUME Plain(rules, pt), NEW m \in 1 .. Len(prefixApps), m <= a \/ m > (middle - 1) + 1
          PROVE  ~ IsPrefix(prefixApps[m], pt)
      BY <1>12, <1>13, <1>15, <1>16, <3>2
    <3>. QED
      BY <1>12, <3>1, <3>2 DEF Searched
  <2>. QED
    BY <1>4, <1>8, <1>9, <2>1, <2>2 DEF ProgramInv, rulesVars
<1>17. CASE res > 0
  <2>1. /\ first' = middle + 1 /\ last' = b /\ programPlace' = "prefix" /\ path' = pt
    BY <1>3, <1>4, <1>5, <1>7, <1>3a, <1>17
  <2>2. Searched(rules, prefixApps, pt, middle + 1, b)
    <3>1. middle + 1 \in Nat
      BY <1>13
    <3>2. ASSUME Plain(rules, pt), NEW m \in 1 .. Len(prefixApps), m <= middle + 1 \/ m > b + 1
          PROVE  ~ IsPrefix(prefixApps[m], pt)
      BY <1>12, <1>13, <1>15, <1>17, <3>2
    <3>. QED
      BY <1>12, <3>1, <3>2 DEF Searched
  <2>. QED
    BY <1>4, <1>8, <1>9, <2>1, <2>2 DEF ProgramInv, rulesVars
<1>18. CASE res = 0
  <2>1. PICK k : k = prefixAppsMap[f]
    OBVIOUS
  <2>2. found' = k /\ programPlace' = "done" /\ path' = pt
    BY <1>3, <1>4, <1>5, <1>18, <2>1
  <2>3. f \in DOMAIN prefixAppsMap
    BY <1>2, <1>8, <1>14 DEF Sorting
  <2>4. FirstLine(rules, "prefix", f, k)
    BY <1>8, <2>1, <2>3 DEF MapIs
  <2>5. Decided(rules, pt, k)
    BY <1>3, <1>5, <1>8, <1>10, <1>12, <1>18, <2>3, <2>4, FolderDecides
  <2>. QED
    BY <1>4, <1>8, <1>9, <2>2, <2>5 DEF ProgramInv, rulesVars
<1>. QED
  BY <1>3a, <1>16, <1>17, <1>18

LEMMA WildStep ==
  ASSUME ProgramInv, WildFind
  PROVE  ProgramInv'
<1>1. PICK matching : matching = { n \in DOMAIN wildApps : Wildmatch(wildApps[n], path) = "match" }
  OBVIOUS
<1>2. PICK k : k = IF matching = {} THEN 0 ELSE wildAppsMap[wildApps[FirstOf(matching)]]
  OBVIOUS
<1>3. /\ programPlace = "prefix" /\ first > last /\ found' = k /\ programPlace' = "done"
      /\ UNCHANGED <<rulesVars, prefixApps, wildApps, path, first, last>>
  BY <1>1, <1>2, Zenon DEF WildFind
<1>4. PICK pt : pt = path
  OBVIOUS
<1>5. /\ AppsWritten /\ rules \in Seq(LineType) /\ nextRule = Len(rules) + 1
      /\ MapIs(rules, exeAppsMap, "exe", nextRule)
      /\ MapIs(rules, prefixAppsMap, "prefix", nextRule)
      /\ MapIs(rules, wildAppsMap, "wild", nextRule)
      /\ Sorting(prefixApps, DOMAIN prefixAppsMap, Len(prefixApps)) /\ Len(prefixApps) \in Nat
      /\ Range(wildApps) = DOMAIN wildAppsMap /\ DOMAIN wildApps \subseteq Nat
  BY <1>3 DEF ProgramInv, AppsWritten
<1>6. AppsWritten'
  BY <1>3, <1>5 DEF AppsWritten, rulesVars
<1>7. DOMAIN prefixAppsMap = FoldersOf(rules)
  BY <1>5, KeysWhole, Zenon DEF FoldersOf
<1>8. /\ DOMAIN wildAppsMap = { rules[n].path : n \in { m \in DOMAIN rules : rules[m].kind = "wild" } }
      /\ DOMAIN wildAppsMap \in SUBSET Words
  BY <1>5, KeysWhole
<1>9. /\ pt \in Words /\ pt \notin ExesOf(rules)
      /\ Plain(rules, pt) =>
           \A m \in 1 .. Len(prefixApps) : ~ IsPrefix(prefixApps[m], pt)
  <2>1. Searched(rules, prefixApps, path, first, last) /\ first > last
    BY <1>3 DEF ProgramInv
  <2>. QED
    BY <1>4, <1>5, <2>1 DEF Searched
<1>10. Plain(rules, pt) => ~ \E p \in FoldersOf(rules) : IsPrefix(p, pt)
  <2>1. ASSUME NEW p \in FoldersOf(rules)
        PROVE  \E m \in 1 .. Len(prefixApps) : prefixApps[m] = p
    BY <1>5, <1>7, <2>1 DEF Sorting, Range
  <2>. QED
    BY <1>9, <2>1
<1>11. matching = { n \in DOMAIN wildApps : Means(wildApps[n], pt) }
  <2>1. ASSUME NEW n \in DOMAIN wildApps
        PROVE  Wildmatch(wildApps[n], pt) = "match" <=> Means(wildApps[n], pt)
    <3>1. wildApps[n] \in Words
      BY <1>5, <1>8, <2>1 DEF Range
    <3>2. Len(wildApps[n]) \in Nat /\ Len(pt) \in Nat
      BY <1>9, <3>1 DEF Words
    <3>. QED
      BY <3>2, MatchIsMeant
  <2>. QED
    BY <1>1, <1>4, <2>1
<1>12. k \in IF Meant(rules, pt) = {} THEN {0} ELSE Meant(rules, pt)
  <2>1. CASE matching = {}
    <3>1. ASSUME NEW n \in Meant(rules, pt)
          PROVE  FALSE
      <4>1. n \in DOMAIN rules /\ rules[n].kind = "wild" /\ Means(rules[n].path, pt)
        BY <3>1, Zenon DEF Meant
      <4>2. rules[n].path \in Range(wildApps)
        BY <1>5, <1>8, <4>1
      <4>3. PICK m \in DOMAIN wildApps : wildApps[m] = rules[n].path
        BY <4>2 DEF Range
      <4>. QED
        BY <1>11, <2>1, <4>1, <4>3
    <3>. QED
      BY <1>2, <2>1, <3>1
  <2>2. CASE matching # {}
    <3>1. PICK m : m = FirstOf(matching)
      OBVIOUS
    <3>2. m \in matching
      BY <1>1, <1>5, <2>2, <3>1, FirstIs
    <3>3. PICK w : w = wildApps[m]
      OBVIOUS
    <3>4. w \in DOMAIN wildAppsMap /\ Means(w, pt) /\ k = wildAppsMap[w]
      BY <1>2, <1>5, <1>11, <2>2, <3>1, <3>2, <3>3 DEF Range
    <3>5. FirstLine(rules, "wild", w, k)
      BY <1>5, <3>4 DEF MapIs
    <3>6. k \in DOMAIN rules /\ rules[k].kind = "wild" /\ rules[k].path = w
      BY <1>5, <3>5 DEF FirstLine
    <3>7. k \in Meant(rules, pt)
      BY <3>4, <3>6, Zenon DEF Meant
    <3>. QED
      BY <3>7
  <2>. QED
    BY <2>1, <2>2
<1>13. Decided(rules, pt, k)
  BY <1>9, <1>10, <1>12, Zenon DEF Decided, WantedOf
<1>. QED
  BY <1>3, <1>4, <1>5, <1>6, <1>13 DEF ProgramInv, rulesVars

LEMMA ProgramStep == ProgramInv /\ [ProgramNext]_programVars => ProgramInv'
<1>1. SUFFICES ASSUME ProgramInv, [ProgramNext]_programVars PROVE ProgramInv'
  OBVIOUS
<1>2. CASE UNCHANGED programVars
  <2>1. AppsWritten' <=> AppsWritten
    BY <1>2 DEF AppsWritten, programVars, rulesVars
  <2>. QED
    BY <1>1, <1>2, <2>1 DEF ProgramInv, programVars, rulesVars
<1>. QED
  BY <1>1, <1>2, AddStep, WriteStep, FindStep, ProbeStep, WildStep, Zenon DEF ProgramNext

(* The inductive invariant: the maps have the first line of each path, the *)
(* driver's arrays their keys in order, and the search has left out no     *)
(* folder that the path is in.                                             *)
THEOREM ProgramInvariant == ProgramSpec => []ProgramInv
BY ProgramStarts, ProgramStep, PTL DEF ProgramSpec

(* fort_conf_app_find gives a program the line that is wanted for it, for  *)
(* any lines and paths, but for folders in one another or of two scripts.  *)
THEOREM ProgramIsDecided == ProgramSpec => []ProgramDecided
<1>1. ProgramInv => ProgramDecided
  BY DecidedIs DEF ProgramInv
<1>. QED
  BY <1>1, ProgramInvariant, PTL
=============================================================================
