---------------------------- MODULE DriverProof ----------------------------
(***************************************************************************)
(* Proofs about the log buffer and about the driver's life.                *)
(*                                                                         *)
(* The log buffer, for every size of buffer and record, any number of      *)
(* threads and requests: its state is well typed, what is written to the   *)
(* client's buffer is bounded, a request has one owner, the reader's       *)
(* request is never forgotten, only a cancelled request is ever completed  *)
(* twice, no record is lost, and the buffer implements the FIFO of         *)
(* LogStream.                                                              *)
(*                                                                         *)
(* The driver's life and its objects in the filtering platform.  First the *)
(* operators of FortProv: lists of keys in an order in which all of them   *)
(* can be deleted, or added, compose; so the removal of everything leaves  *)
(* nothing whatever was there, and a reauthorization is never refused when *)
(* the objects that are always there are there.  Then the inductive        *)
(* invariant of FortDriver: what exists step by step of the load and the   *)
(* unload, whose calls may run, and what the objects are next to what they *)
(* were said to be.                                                        *)
(***************************************************************************)
EXTENDS FortBufferStream, FortDriver, SequenceLemmas, FiniteSetTheorems

-----------------------------------------------------------------------------
(* The log buffer. *)

(* ULONG subtraction does not wrap when the result is not negative. *)
LEMMA Minus32Exact ==
  ASSUME NEW x \in Nat, NEW y \in Nat, y <= x, x < Word
  PROVE  Minus32(x, y) = x - y
<1>1. x - y \in 0 .. Word - 1
  BY BufferAssumption DEF BufferAssumption
<1>. QED
  BY <1>1, BufferAssumption DEF BufferAssumption, Minus32

(* A record goes to a chain of blocks, and the chain remains one: no block *)
(* is filled past FORT_BUFFER_SIZE.                                        *)
LEMMA DataAllocType ==
  ASSUME blocks \in Seq(Block), next \in Nat, NEW len \in Sizes
  PROVE  DataAlloc(len) \in Seq(Block)
<1>. USE DEF Block
<1>1. len \in 1 .. BufferSize
  BY BufferAssumption DEF BufferAssumption
<1>2. CASE blocks = <<>> \/ len > BufferSize - blocks[Len(blocks)].top
  <2>1. [recs |-> <<next>>, top |-> len] \in Block
    BY <1>1
  <2>. QED
    BY <1>2, <2>1, AppendProperties DEF DataAlloc
<1>3. CASE ~(blocks = <<>> \/ len > BufferSize - blocks[Len(blocks)].top)
  <2>. DEFINE n == Len(blocks)
              b == [recs |-> Append(blocks[n].recs, next), top |-> blocks[n].top + len]
  <2>1. n \in 1 .. Len(blocks)
    BY <1>3, EmptySeq
  <2>2. blocks[n] \in Block
    BY <2>1, ElementOfSeq
  <2>3. blocks[n].top + len \in 1 .. BufferSize
    BY <1>1, <1>3, <2>2, BufferAssumption DEF BufferAssumption
  <2>4. Append(blocks[n].recs, next) \in Seq(Nat)
    BY <2>2, AppendProperties
  <2>5. b \in Block
    BY <2>3, <2>4
  <2>6. [blocks EXCEPT ![n] = b] \in Seq(Block)
    BY <2>1, <2>5, ExceptSeq
  <2>7. DataAlloc(len) = [blocks EXCEPT ![n] = b]
    BY <1>3, <2>1, <2>2 DEF DataAlloc
  <2>. QED
    BY <2>6, <2>7
<1>. QED
  BY <1>2, <1>3

LEMMA RecsOfType ==
  ASSUME NEW s \in Seq(Nat)
  PROVE  RecsOf(s) \subseteq Nat
  BY LenProperties, ElementOfSeq DEF RecsOf

(* What TypeOK says of the buffer, of the request packets taken from it    *)
(* and of the number of the next record: all that a write changes.         *)
BufferType ==
  /\ blocks \in Seq(Block)
  /\ irp \in Irps \cup {NoIrp}
  /\ outRecs \in Seq(Nat) /\ out_len \in Nat /\ out_top \in Nat
  /\ next \in 1 .. MaxRecords + 1
  /\ held \in [Actors -> [irp : Irps \cup {NoIrp}, recs : Seq(Nat)]]

LEMMA TakePendingType ==
  ASSUME BufferType, NEW a \in Actors, NEW recs \in Seq(Nat), TakePending(a, recs)
  PROVE  /\ irp' \in Irps \cup {NoIrp}
         /\ outRecs' \in Seq(Nat) /\ out_len' \in Nat /\ out_top' \in Nat
         /\ held' \in [Actors -> [irp : Irps \cup {NoIrp}, recs : Seq(Nat)]]
  BY EmptySeq DEF TakePending, BufferType

LEMMA PrepareType ==
  ASSUME BufferType, NEW a \in Actors, NEW len \in Sizes, Prepare(a, len)
  PROVE  BufferType'
<1>1. next \in Nat /\ len \in Nat /\ next' \in 1 .. MaxRecords + 1
  BY BufferAssumption, BoundAssumption
     DEF BufferAssumption, BoundAssumption, BufferType, Prepare
<1>2. CASE PreparePending(a, len)
  <2>1. Append(outRecs, next) \in Seq(Nat)
    BY <1>1, AppendProperties DEF BufferType
  <2>2. CASE TimeToFlush(out_len, out_top + len)
    <3>1. TakePending(a, Append(outRecs, next)) /\ UNCHANGED blocks
      BY <1>2, <2>2 DEF PreparePending
    <3>2. /\ irp' \in Irps \cup {NoIrp}
          /\ outRecs' \in Seq(Nat) /\ out_len' \in Nat /\ out_top' \in Nat
          /\ held' \in [Actors -> [irp : Irps \cup {NoIrp}, recs : Seq(Nat)]]
      BY <2>1, <3>1, TakePendingType
    <3>. QED
      BY <1>1, <3>1, <3>2 DEF BufferType
  <2>3. CASE ~TimeToFlush(out_len, out_top + len)
    <3>1. /\ out_top' = out_top + len /\ outRecs' = Append(outRecs, next)
          /\ UNCHANGED <<held, irp, out_len, blocks>>
      BY <1>2, <2>3 DEF PreparePending
    <3>. QED
      BY <1>1, <2>1, <3>1 DEF BufferType
  <2>. QED
    BY <2>2, <2>3
<1>3. CASE PrepareBlock(len)
  BY <1>1, <1>3, DataAllocType DEF PrepareBlock, BufferType
<1>. QED
  BY <1>2, <1>3 DEF Prepare

LEMMA FlushPendingType ==
  ASSUME BufferType, FlushPending, UNCHANGED next
  PROVE  BufferType'
<1>1. "timer" \in Actors
  BY DEF Actors
<1>2. CASE out_top = 0 /\ out_len # 0 /\ blocks # <<>>
  <2>1. blocks[1] \in Block /\ Tail(blocks) \in Seq(Block)
    BY <1>2, EmptySeq, ElementOfSeq, HeadTailProperties DEF BufferType
  <2>2. blocks[1].recs \in Seq(Nat)
    BY <2>1 DEF Block
  <2>3. TakePending("timer", blocks[1].recs) /\ blocks' = Tail(blocks)
    BY <1>2 DEF FlushPending
  <2>. QED
    BY <1>1, <2>1, <2>2, <2>3, TakePendingType DEF BufferType
<1>3. CASE ~(out_top = 0 /\ out_len # 0 /\ blocks # <<>>)
  <2>1. CASE out_top # 0
    <3>1. TakePending("timer", outRecs) /\ UNCHANGED blocks
      BY <1>3, <2>1 DEF FlushPending
    <3>. QED
      BY <1>1, <3>1, TakePendingType DEF BufferType
  <2>2. CASE out_top = 0
    BY <1>3, <2>2 DEF FlushPending, BufferType
  <2>. QED
    BY <2>1, <2>2
<1>. QED
  BY <1>2, <1>3

(* The state of the buffer, of its requests and of their holders keeps its *)
(* type; no block is filled past FORT_BUFFER_SIZE.                         *)
THEOREM TypeCorrect == Spec => []TypeOK
<1>1. Init => TypeOK
  <2> SUFFICES ASSUME Init PROVE TypeOK
    OBVIOUS
  <2>1. 1 \in 1 .. MaxRecords + 1 /\ 0 \in 0 .. MaxCancels /\ 0 \in 0 .. MaxCleanups
    BY BoundAssumption DEF BoundAssumption
  <2>2. None \in [irp : Irps \cup {NoIrp}, recs : Seq(Nat)]
    BY EmptySeq DEF None
  <2>3. held \in [Actors -> [irp : Irps \cup {NoIrp}, recs : Seq(Nat)]]
    BY <2>2 DEF Init
  <2>. QED
    BY <2>1, <2>3, EmptySeq DEF Init, TypeOK
<1>2. TypeOK /\ [Next]_vars => TypeOK'
  <2> SUFFICES ASSUME TypeOK, [Next]_vars PROVE TypeOK'
    OBVIOUS
  <2>0. BufferType
    BY DEF TypeOK, BufferType
  <2>1. ASSUME NEW c \in Callers, NEW len \in ClassifySizes, ClassifyWrite(c, len)
        PROVE  TypeOK'
    <3>1. BufferType'
      BY <2>0, <2>1, PrepareType DEF ClassifyWrite, Actors, Sizes
    <3>. QED
      BY <2>1, <3>1 DEF ClassifyWrite, irpVars, histVars, cntVars, TypeOK, BufferType
  <2>2. ASSUME NEW a \in Actors, Complete(a)
        PROVE  TypeOK'
    <3>1. held[a].recs \in Seq(Nat) /\ held[a].irp \in Irps
      BY <2>2 DEF TypeOK, Complete
    <3>2. read \o held[a].recs \in Seq(Nat)
      BY <3>1, ConcatProperties DEF TypeOK
    <3>3. RecsOf(held[a].recs) \subseteq Nat
      BY <3>1, RecsOfType
    <3>4. None \in [irp : Irps \cup {NoIrp}, recs : Seq(Nat)]
      BY EmptySeq DEF None
    <3>. QED
      BY <2>2, <3>1, <3>2, <3>3, <3>4 DEF Complete, bufVars, cntVars, TypeOK
  <2>3. CASE TimerBegin
    BY <2>3 DEF TimerBegin, bufVars, irpVars, histVars, cntVars, TypeOK
  <2>4. ASSUME NEW len \in TimerSizes, TimerWrite(len)
        PROVE  TypeOK'
    <3>1. BufferType'
      BY <2>0, <2>4, PrepareType DEF TimerWrite, Actors, Sizes
    <3>. QED
      BY <2>4, <3>1 DEF TimerWrite, irpVars, histVars, cntVars, TypeOK, BufferType
  <2>5. CASE TimerEnd
    <3>1. BufferType'
      <4>1. CASE held["timer"] = None
        BY <2>0, <2>5, <4>1, FlushPendingType DEF TimerEnd
      <4>2. CASE held["timer"] # None
        BY <2>0, <2>5, <4>2 DEF TimerEnd, bufVars, BufferType
      <4>. QED
        BY <4>1, <4>2
    <3>. QED
      BY <2>5, <3>1 DEF TimerEnd, irpVars, histVars, cntVars, TypeOK, BufferType
  <2>6. ASSUME NEW i \in Irps, NEW len \in OutLens, GetLog(i, len)
        PROVE  TypeOK'
    <3>0. len \in Nat
      BY BufferAssumption DEF BufferAssumption
    <3>1. CASE blocks = <<>>
      BY <2>6, <3>0, <3>1, EmptySeq DEF GetLog, cntVars, TypeOK
    <3>2. CASE blocks # <<>>
      <4>1. blocks[1] \in Block /\ Tail(blocks) \in Seq(Block)
        BY <3>2, EmptySeq, ElementOfSeq, HeadTailProperties DEF TypeOK
      <4>2. read \o blocks[1].recs \in Seq(Nat)
        BY <4>1, ConcatProperties DEF TypeOK, Block
      <4>. QED
        BY <2>6, <3>2, <4>1, <4>2 DEF GetLog, cntVars, TypeOK
    <3>. QED
      BY <3>1, <3>2
  <2>7. ASSUME NEW i \in Irps, SetCancelRoutine(i)
        PROVE  TypeOK'
    BY <2>7 DEF SetCancelRoutine, bufVars, histVars, cntVars, TypeOK
  <2>8. ASSUME NEW i \in Irps, CancelIo(i)
        PROVE  TypeOK'
    BY <2>8, BoundAssumption DEF CancelIo, bufVars, histVars, TypeOK, BoundAssumption
  <2>9. ASSUME NEW i \in Irps, CancelPending(i)
        PROVE  TypeOK'
    <3>1. "canceller" \in Actors
      BY DEF Actors
    <3>2. CASE i = irp
      <4>1. TakePending("canceller", outRecs)
        BY <2>9, <3>2 DEF CancelPending
      <4>2. /\ irp' \in Irps \cup {NoIrp}
            /\ outRecs' \in Seq(Nat) /\ out_len' \in Nat /\ out_top' \in Nat
            /\ held' \in [Actors -> [irp : Irps \cup {NoIrp}, recs : Seq(Nat)]]
        BY <2>0, <3>1, <4>1, TakePendingType DEF TypeOK
      <4>. QED
        BY <2>9, <4>2 DEF CancelPending, cntVars, TypeOK
    <3>3. CASE i # irp
      <4>1. [irp |-> i, recs |-> <<>>] \in [irp : Irps \cup {NoIrp}, recs : Seq(Nat)]
        BY EmptySeq
      <4>. QED
        BY <2>9, <3>1, <3>3, <4>1 DEF CancelPending, cntVars, TypeOK
    <3>. QED
      BY <3>2, <3>3
  <2>10. ASSUME BufferClear PROVE dropped' \subseteq Nat /\ blocks' \in Seq(Block)
    <3>1. ASSUME NEW b \in DOMAIN blocks PROVE RecsOf(blocks[b].recs) \subseteq Nat
      <4>0. blocks \in Seq(Block) /\ b \in 1 .. Len(blocks)
        BY <3>1, LenProperties DEF TypeOK
      <4>1. blocks[b] \in Block
        BY <4>0, ElementOfSeq
      <4>2. blocks[b].recs \in Seq(Nat)
        BY <4>1 DEF Block
      <4>. QED
        BY <4>2, RecsOfType
    <3>2. BlockRecs \subseteq Nat
      BY <3>1 DEF BlockRecs
    <3>. QED
      BY <2>10, <3>2, EmptySeq DEF BufferClear, TypeOK
  <2>11. CASE Open
    BY <2>10, <2>11 DEF Open, irpVars, cntVars, TypeOK
  <2>12. CASE Cleanup
    <3>1. cleanups' \in 0 .. MaxCleanups
      BY <2>12, BoundAssumption DEF Cleanup, TypeOK, BoundAssumption
    <3>2. dropped' \subseteq Nat /\ blocks' \in Seq(Block)
      BY <2>10, <2>12 DEF Cleanup
    <3>. QED
      BY <2>12, <3>1, <3>2 DEF Cleanup, TypeOK
  <2>13. CASE UNCHANGED vars
    BY <2>13 DEF vars, bufVars, irpVars, histVars, cntVars, TypeOK
  <2>. QED
    BY <2>1, <2>2, <2>3, <2>4, <2>5, <2>6, <2>7, <2>8, <2>9, <2>11, <2>12, <2>13
       DEF Next, TimerComplete, Actors
<1>. QED
  BY <1>1, <1>2, PTL DEF Spec

-----------------------------------------------------------------------------
(* The room left in the client's buffer. *)

LEMMA PrepareRoom ==
  ASSUME TypeOK, RoomInv, NEW a \in Actors, NEW len \in Sizes, Prepare(a, len)
  PROVE  RoomInv'
<1>. DEFINE new_top == out_top + len
            fits(m) == \A s \in Sizes : s <= LogSizeMax + m
<1>1. /\ len \in 1 .. BufferSize /\ LogSizeMax \in 1 .. BufferSize
      /\ out_len \in Nat /\ out_top \in Nat /\ new_top \in Nat \ {0}
      /\ BufferSize \in Nat /\ OutLens \subseteq Nat
  BY BufferAssumption DEF BufferAssumption, TypeOK
<1>2. CASE UsePending /\ TimeToFlush(out_len, new_top)
  <2>1. irp' = NoIrp /\ outRecs' = <<>> /\ out_len' = 0 /\ out_top' = 0
    BY <1>2 DEF Prepare, PreparePending, PrepareBlock, TakePending
  <2>. QED
    BY <2>1 DEF RoomInv, PendingConsistent, Room
<1>3. CASE UsePending /\ ~TimeToFlush(out_len, new_top)
  <2>1. /\ out_top' = new_top /\ outRecs' = Append(outRecs, next)
        /\ UNCHANGED <<irp, out_len>>
    BY <1>3 DEF Prepare, PreparePending, PrepareBlock
  <2>2. outRecs' # <<>>
    <3>1. next \in Nat /\ outRecs \in Seq(Nat)
      BY BoundAssumption DEF BoundAssumption, TypeOK
    <3>2. Append(outRecs, next) # <<>>
      BY <3>1, AppendProperties
    <3>. QED
      BY <2>1, <3>2
  <2>3. out_len # 0 /\ out_top < out_len
    BY <1>3 DEF UsePending
  <2>4. PendingConsistent'
    BY <1>1, <2>1, <2>2, <2>3 DEF PendingConsistent, RoomInv
  <2>5. out_len \in OutLens /\ out_len >= BufferSize /\ out_len < Word
    BY <1>1, <2>3, BufferAssumption DEF RoomInv, Room, BufferAssumption
  <2>6. CASE new_top <= out_len
    <3>1. out_len - new_top >= LogSizeMax
      BY <1>1, <1>3, <2>5, <2>6, Minus32Exact DEF TimeToFlush
    <3>. QED
      BY <1>1, <2>1, <2>4, <2>5, <3>1 DEF RoomInv, Room
  <2>7. CASE new_top > out_len
    <3>1. out_top + LogSizeMax <= out_len
      BY <1>1, <2>3, <2>5, <2>7 DEF RoomInv, Room
    <3>2. ASSUME NEW m \in 0 .. BufferSize, fits(m)
          PROVE  new_top <= out_len + m
      BY <1>1, <3>1, <3>2
    <3>. QED
      BY <2>1, <2>4, <2>5, <2>7, <3>2 DEF RoomInv, Room
  <2>. QED
    BY <1>1, <2>6, <2>7
<1>4. CASE ~UsePending
  BY <1>4 DEF Prepare, PreparePending, PrepareBlock, RoomInv, PendingConsistent, Room
<1>. QED
  BY <1>2, <1>3, <1>4

LEMMA TakePendingRoom ==
  ASSUME NEW a, NEW recs, TakePending(a, recs)
  PROVE  RoomInv'
  BY DEF TakePending, RoomInv, PendingConsistent, Room

LEMMA RoomStep == TypeOK /\ RoomInv /\ [Next]_vars => RoomInv'
<1> SUFFICES ASSUME TypeOK, RoomInv, [Next]_vars PROVE RoomInv'
  OBVIOUS
<1>0. ASSUME UNCHANGED <<irp, outRecs, out_len, out_top>> PROVE RoomInv'
  BY <1>0 DEF RoomInv, PendingConsistent, Room
<1>1. ASSUME NEW c \in Callers, NEW len \in ClassifySizes, ClassifyWrite(c, len)
      PROVE  RoomInv'
  BY <1>1, PrepareRoom DEF ClassifyWrite, Actors, Sizes
<1>2. ASSUME NEW a \in Actors, Complete(a) PROVE RoomInv'
  BY <1>0, <1>2 DEF Complete, bufVars
<1>3. CASE TimerBegin
  BY <1>0, <1>3 DEF TimerBegin, bufVars
<1>4. ASSUME NEW len \in TimerSizes, TimerWrite(len) PROVE RoomInv'
  BY <1>4, PrepareRoom DEF TimerWrite, Actors, Sizes
<1>5. CASE TimerEnd
  BY <1>0, <1>5, TakePendingRoom DEF TimerEnd, FlushPending, bufVars
<1>6. ASSUME NEW i \in Irps, NEW len \in OutLens, GetLog(i, len) PROVE RoomInv'
  <2>0. len \in Nat /\ len >= BufferSize /\ BufferSize \in Nat \ {0}
    BY <1>6, BufferAssumption DEF GetLog, BufferAssumption
  <2>1. CASE blocks = <<>>
    <3>1. irp' = i /\ out_len' = len /\ out_top' = 0 /\ outRecs' = <<>> /\ i # NoIrp
      BY <1>6, <2>1, IrpAssumption DEF GetLog, IrpAssumption
    <3>. QED
      BY <2>0, <3>1 DEF RoomInv, PendingConsistent, Room
  <2>2. CASE blocks # <<>>
    BY <1>0, <1>6, <2>2 DEF GetLog
  <2>. QED
    BY <2>1, <2>2
<1>7. ASSUME NEW i \in Irps, SetCancelRoutine(i) \/ CancelIo(i) PROVE RoomInv'
  BY <1>0, <1>7 DEF SetCancelRoutine, CancelIo, bufVars
<1>8. ASSUME NEW i \in Irps, CancelPending(i) PROVE RoomInv'
  BY <1>0, <1>8, TakePendingRoom DEF CancelPending
<1>9. CASE Open \/ Cleanup
  BY <1>0, <1>9 DEF Open, Cleanup
<1>10. CASE UNCHANGED vars
  BY <1>0, <1>10 DEF vars, bufVars
<1>. QED
  BY <1>1, <1>2, <1>3, <1>4, <1>5, <1>6, <1>7, <1>8, <1>9, <1>10
     DEF Next, TimerComplete, Actors

THEOREM RoomInvariant == Spec => []RoomInv
<1>1. Init => RoomInv
  BY DEF Init, RoomInv, PendingConsistent, Room
<1>. QED
  BY <1>1, RoomStep, TypeCorrect, PTL DEF Spec

(* A pending request is in the buffer exactly while out_len says so, and   *)
(* no output is left behind when it goes.                                  *)
THEOREM PendingIsConsistent == Spec => []PendingConsistent
  BY RoomInvariant, PTL DEF RoomInv

LEMMA RoomBound == TypeOK /\ RoomInv => OverrunBounded
<1> SUFFICES ASSUME TypeOK, RoomInv, NEW m \in 0 .. BufferSize,
                    \A s \in Sizes : s <= LogSizeMax + m
             PROVE  out_top <= out_len + m
  BY DEF OverrunBounded
<1>1. /\ BufferSize \in Nat /\ LogSizeMax \in 1 .. BufferSize
      /\ out_len \in Nat /\ out_top \in Nat
  BY BufferAssumption DEF BufferAssumption, TypeOK
<1>2. CASE out_len = 0
  BY <1>1, <1>2 DEF RoomInv, PendingConsistent
<1>3. CASE out_len # 0
  BY <1>1, <1>3 DEF RoomInv, Room
<1>. QED
  BY <1>2, <1>3

(* Records longer than FORT_LOG_SIZE_MAX by at most m bytes are written at *)
(* most m bytes past the end of the client's buffer.                       *)
THEOREM OverrunIsBounded == Spec => []OverrunBounded
  BY RoomInvariant, TypeCorrect, RoomBound, PTL

-----------------------------------------------------------------------------
(* Who owns a request. *)

(* What a step must leave alone to be irrelevant to the owners. *)
ownerVars == <<irp, held, current, cancelling, cancelFlag, pending>>

LEMMA TakePendingOwner ==
  ASSUME TypeOK, OwnerInv, NEW a \in Actors, NEW recs, irp # NoIrp, TakePending(a, recs),
         UNCHANGED <<current, cancelFlag, pending>>, cancelling' \subseteq cancelling,
         a = "canceller" => irp \in cancelFlag
  PROVE  OwnerInv'
<1>. DEFINE new == [irp |-> irp, recs |-> recs]
<1>1. /\ irp' = NoIrp /\ irp \in Irps /\ irp \in pending
      /\ \A b \in Actors : held'[b] = IF b = a THEN new ELSE held[b]
  BY DEF TakePending, TypeOK, OwnerInv
<1>2. \A b \in Actors : held[b].irp # irp
  BY DEF OwnerInv, OneHolder
<1>3. (\A b \in Actors : held[b].irp = NoIrp => held[b] = None)'
  BY <1>1 DEF OwnerInv
<1>4. OneHolder'
  BY <1>1, <1>2, <1>3 DEF OwnerInv, OneHolder, Late, None
<1>5. NoRequestForgotten'
  BY <1>1, <1>2 DEF OwnerInv, NoRequestForgotten
<1>6. (held["canceller"].irp # NoIrp => held["canceller"].irp \in cancelFlag)'
  BY <1>1 DEF OwnerInv, Actors
<1>7. (\A b \in Actors : held[b].irp # NoIrp => held[b].irp \in pending \cup cancelFlag)'
  BY <1>1 DEF OwnerInv
<1>. QED
  BY <1>1, <1>3, <1>4, <1>5, <1>6, <1>7 DEF OwnerInv

LEMMA UnchangedOwner ==
  ASSUME OwnerInv, UNCHANGED ownerVars
  PROVE  OwnerInv'
  BY DEF OwnerInv, OneHolder, NoRequestForgotten, Late, ownerVars

LEMMA PrepareOwner ==
  ASSUME TypeOK, RoomInv, OwnerInv, NEW a \in Actors \ {"canceller"}, NEW len,
         Prepare(a, len), UNCHANGED irpVars
  PROVE  OwnerInv'
<1>1. CASE UNCHANGED <<irp, held>>
  BY <1>1, UnchangedOwner DEF ownerVars, irpVars
<1>2. CASE UsePending /\ TakePending(a, Append(outRecs, next))
  <2>1. irp # NoIrp
    BY <1>2 DEF UsePending, RoomInv, PendingConsistent
  <2>. QED
    BY <1>2, <2>1, TakePendingOwner DEF irpVars
<1>. QED
  BY <1>1, <1>2 DEF Prepare, PreparePending, PrepareBlock

LEMMA CompleteOwner ==
  ASSUME TypeOK, OwnerInv, NEW a \in Actors, Complete(a)
  PROVE  OwnerInv'
<1>. DEFINE i == held[a].irp
<1>1. /\ i # NoIrp /\ i \in Irps /\ i # irp
      /\ irp' = irp /\ pending' = pending \ {i}
      /\ UNCHANGED <<cancelling, cancelFlag>>
      /\ \A b \in Actors : held'[b] = IF b = a THEN None ELSE held[b]
      /\ current' = IF i = current THEN NoIrp ELSE current
  BY DEF Complete, TypeOK, OwnerInv, OneHolder, bufVars
<1>2. (\A b \in Actors : held[b].irp = NoIrp => held[b] = None)'
  BY <1>1 DEF OwnerInv
<1>3. OneHolder'
  BY <1>1 DEF OwnerInv, OneHolder, Late, None
<1>4. NoRequestForgotten'
  BY <1>1 DEF OwnerInv, NoRequestForgotten
<1>5. (held["canceller"].irp # NoIrp => held["canceller"].irp \in cancelFlag)'
  BY <1>1 DEF OwnerInv, Actors, None
<1>6. ASSUME NEW b \in Actors, held'[b].irp # NoIrp
      PROVE  held'[b].irp \in pending' \cup cancelFlag'
  <2>1. b # a /\ held'[b] = held[b]
    BY <1>1, <1>6 DEF None
  <2>2. CASE held[b].irp = i
    <3>1. Late(a) \/ Late(b)
      BY <1>1, <2>1, <2>2 DEF OwnerInv, OneHolder, None
    <3>2. i \in cancelFlag
      BY <1>1, <2>2, <3>1 DEF OwnerInv, Late
    <3>. QED
      BY <1>1, <2>1, <2>2, <3>2
  <2>3. CASE held[b].irp # i
    BY <1>1, <1>6, <2>1, <2>3 DEF OwnerInv
  <2>. QED
    BY <2>2, <2>3
<1>. QED
  BY <1>1, <1>2, <1>3, <1>4, <1>5, <1>6 DEF OwnerInv

LEMMA GetLogOwner ==
  ASSUME TypeOK, RoomInv, OwnerInv, NEW i \in Irps, NEW len, GetLog(i, len)
  PROVE  OwnerInv'
<1>1. /\ i \notin pending /\ i \notin cancelling /\ i # NoIrp
      /\ \A a \in Actors : held[a].irp # i
      /\ UNCHANGED <<held, cancelling>> /\ cancelFlag' = cancelFlag \ {i}
  BY IrpAssumption DEF GetLog, Referenced, IrpAssumption
<1>2. CASE blocks = <<>>
  <2>1. irp = NoIrp /\ irp' = i /\ current' = i /\ pending' = pending \cup {i}
    BY <1>2 DEF GetLog, RoomInv, PendingConsistent
  <2>. QED
    BY <1>1, <2>1, Zenon DEF OwnerInv, OneHolder, NoRequestForgotten, Late, Actors
<1>3. CASE blocks # <<>>
  <2>1. UNCHANGED <<irp, current, pending>>
    BY <1>3 DEF GetLog
  <2>. QED
    BY <1>1, <2>1 DEF OwnerInv, OneHolder, NoRequestForgotten, Late, Actors
<1>. QED
  BY <1>2, <1>3

LEMMA CancelPendingOwner ==
  ASSUME TypeOK, OwnerInv, NEW i \in Irps, CancelPending(i)
  PROVE  OwnerInv'
<1>1. /\ i \in cancelling /\ held["canceller"] = None /\ "canceller" \in Actors
      /\ cancelling' = cancelling \ {i} /\ i \in cancelFlag /\ i # NoIrp
      /\ UNCHANGED <<pending, cancelFlag, current>>
  BY IrpAssumption DEF CancelPending, OwnerInv, Actors, IrpAssumption
<1>2. CASE i = irp
  <2>1. TakePending("canceller", outRecs)
    BY <1>2 DEF CancelPending
  <2>. QED
    BY <1>1, <1>2, <2>1, TakePendingOwner
<1>3. CASE i # irp
  <2>1. /\ irp' = irp
        /\ \A b \in Actors :
             held'[b] = IF b = "canceller" THEN [irp |-> i, recs |-> <<>>] ELSE held[b]
    BY <1>3 DEF CancelPending, TypeOK
  <2>2. OneHolder'
    BY <1>1, <1>3, <2>1 DEF OwnerInv, OneHolder, Late
  <2>3. NoRequestForgotten'
    BY <1>1, <2>1 DEF OwnerInv, NoRequestForgotten, None
  <2>. QED
    BY <1>1, <2>1, <2>2, <2>3 DEF OwnerInv
<1>. QED
  BY <1>2, <1>3

LEMMA OwnerStep == TypeOK /\ RoomInv /\ OwnerInv /\ [Next]_vars => OwnerInv'
<1> SUFFICES ASSUME TypeOK, RoomInv, OwnerInv, [Next]_vars PROVE OwnerInv'
  OBVIOUS
<1>0. "timer" \in Actors \ {"canceller"} /\ Callers \subseteq Actors \ {"canceller"}
  BY IrpAssumption DEF IrpAssumption, Actors
<1>1. ASSUME NEW c \in Callers, NEW len \in ClassifySizes, ClassifyWrite(c, len)
      PROVE  OwnerInv'
  BY <1>0, <1>1, PrepareOwner DEF ClassifyWrite
<1>2. ASSUME NEW a \in Actors, Complete(a) PROVE OwnerInv'
  BY <1>2, CompleteOwner
<1>3. CASE TimerBegin
  BY <1>3, UnchangedOwner DEF TimerBegin, ownerVars, bufVars, irpVars
<1>4. ASSUME NEW len \in TimerSizes, TimerWrite(len) PROVE OwnerInv'
  BY <1>0, <1>4, PrepareOwner DEF TimerWrite
<1>5. CASE TimerEnd
  <2>1. CASE UNCHANGED <<irp, held>>
    BY <1>5, <2>1, UnchangedOwner DEF TimerEnd, ownerVars, irpVars
  <2>2. ASSUME NEW recs, TakePending("timer", recs), out_len # 0 \/ out_top # 0
        PROVE  OwnerInv'
    <3>1. irp # NoIrp
      BY <2>2 DEF RoomInv, PendingConsistent
    <3>. QED
      BY <1>0, <1>5, <2>2, <3>1, TakePendingOwner DEF TimerEnd, irpVars
  <2>. QED
    BY <1>5, <2>1, <2>2 DEF TimerEnd, FlushPending, bufVars
<1>6. ASSUME NEW i \in Irps, NEW len \in OutLens, GetLog(i, len) PROVE OwnerInv'
  BY <1>6, GetLogOwner
<1>7. ASSUME NEW i \in Irps, SetCancelRoutine(i) PROVE OwnerInv'
  BY <1>7, UnchangedOwner DEF SetCancelRoutine, ownerVars, bufVars
<1>8. ASSUME NEW i \in Irps, CancelIo(i) PROVE OwnerInv'
  <2>1. /\ UNCHANGED <<irp, held, current, pending>>
        /\ cancelFlag' = cancelFlag \cup {i} /\ cancelling' \subseteq cancelling \cup {i}
    BY <1>8 DEF CancelIo, bufVars
  <2>. QED
    BY <2>1 DEF OwnerInv, OneHolder, NoRequestForgotten, Late
<1>9. ASSUME NEW i \in Irps, CancelPending(i) PROVE OwnerInv'
  BY <1>9, CancelPendingOwner
<1>10. CASE Open
  BY <1>10, UnchangedOwner DEF Open, ownerVars, irpVars
<1>11. CASE Cleanup
  <2>1. UNCHANGED <<irp, held, pending, cancelling, cancelFlag>> /\ current' = NoIrp
    BY <1>11 DEF Cleanup
  <2>. QED
    BY <2>1 DEF OwnerInv, OneHolder, NoRequestForgotten, Late
<1>12. CASE UNCHANGED vars
  BY <1>12, UnchangedOwner DEF vars, bufVars, irpVars, ownerVars
<1>. QED
  BY <1>1, <1>2, <1>3, <1>4, <1>5, <1>6, <1>7, <1>8, <1>9, <1>10, <1>11, <1>12
     DEF Next, TimerComplete, Actors

THEOREM OwnerInvariant == Spec => []OwnerInv
<1>1. Init => OwnerInv
  BY DEF Init, OwnerInv, OneHolder, NoRequestForgotten, None, Actors
<1>. QED
  BY <1>1, OwnerStep, TypeCorrect, RoomInvariant, PTL DEF Spec

(* No two threads hold the same request to complete, except for a cancel   *)
(* routine that came too late; none holds the one still in the buffer.     *)
THEOREM RequestHasOneHolder == Spec => []OneHolder
  BY OwnerInvariant, PTL DEF OwnerInv

(* The reader's request can always be completed by somebody. *)
THEOREM RequestNeverForgotten == Spec => []NoRequestForgotten
  BY OwnerInvariant, PTL DEF OwnerInv

(* A request completed a second time has been cancelled before. *)
THEOREM OnlyCancelledTwice == Spec => CompletedOnce
<1>1. TypeOK /\ OwnerInv /\ [Next]_vars => [\A i \in twice' \ twice : i \in cancelFlag]_vars
  <2> SUFFICES ASSUME TypeOK, OwnerInv, [Next]_vars, NEW i \in twice' \ twice
               PROVE  i \in cancelFlag
    OBVIOUS
  <2>1. PICK a \in Actors : Complete(a)
    BY DEF Next, vars, Actors, histVars, irpVars, ClassifyWrite, TimerBegin, TimerWrite,
           TimerEnd, TimerComplete, GetLog, SetCancelRoutine, CancelIo, CancelPending, Open,
           Cleanup
  <2>2. i = held[a].irp /\ i # NoIrp /\ i \notin pending
    BY <2>1 DEF Complete
  <2>. QED
    BY <2>2 DEF OwnerInv
<1>. QED
  BY <1>1, TypeCorrect, OwnerInvariant, PTL DEF Spec, CompletedOnce
-----------------------------------------------------------------------------
(* No record is lost. *)

LEMMA RecsOfAppend ==
  ASSUME NEW s \in Seq(Nat), NEW x
  PROVE  RecsOf(Append(s, x)) = RecsOf(s) \cup {x}
<1>1. /\ DOMAIN Append(s, x) = 1 .. Len(s) + 1 /\ DOMAIN s = 1 .. Len(s) /\ Len(s) \in Nat
      /\ \A k \in 1 .. Len(s) : Append(s, x)[k] = s[k]
      /\ Append(s, x)[Len(s) + 1] = x
  OBVIOUS
<1>2. 1 .. Len(s) + 1 = (1 .. Len(s)) \cup {Len(s) + 1}
  BY <1>1
<1>. QED
  BY <1>1, <1>2 DEF RecsOf

LEMMA RecsOfJoined ==
  ASSUME NEW s \in Seq(Nat), NEW t \in Seq(Nat)
  PROVE  RecsOf(s \o t) = RecsOf(s) \cup RecsOf(t)
<1>1. /\ s \o t \in Seq(Nat) /\ Len(s \o t) = Len(s) + Len(t) /\ Len(s) \in Nat /\ Len(t) \in Nat
      /\ \A i \in 1 .. Len(s) + Len(t) :
           (s \o t)[i] = IF i <= Len(s) THEN s[i] ELSE t[i - Len(s)]
  BY ConcatProperties
<1>2. DOMAIN s = 1 .. Len(s) /\ DOMAIN t = 1 .. Len(t) /\ DOMAIN (s \o t) = 1 .. Len(s) + Len(t)
  BY <1>1, LenProperties
<1>3. ASSUME NEW i \in 1 .. Len(s) + Len(t)
      PROVE  (s \o t)[i] \in RecsOf(s) \cup RecsOf(t)
  <2>1. CASE i <= Len(s)
    BY <1>1, <1>2, <2>1, SMTT(60) DEF RecsOf
  <2>2. CASE ~ (i <= Len(s))
    <3>1. i - Len(s) \in 1 .. Len(t)
      BY <1>1, <2>2
    <3>. QED
      BY <1>1, <1>2, <2>2, <3>1 DEF RecsOf
  <2>. QED
    BY <2>1, <2>2
<1>4. ASSUME NEW i \in 1 .. Len(s)
      PROVE  s[i] \in RecsOf(s \o t)
  <2>1. i \in 1 .. Len(s) + Len(t) /\ (s \o t)[i] = s[i]
    BY <1>1
  <2>. QED
    BY <1>2, <2>1 DEF RecsOf
<1>5. ASSUME NEW i \in 1 .. Len(t)
      PROVE  t[i] \in RecsOf(s \o t)
  <2>. DEFINE j == i + Len(s)
  <2>1. j \in 1 .. Len(s) + Len(t) /\ ~ (j <= Len(s)) /\ j - Len(s) = i
    BY <1>1
  <2>2. (s \o t)[j] = t[i]
    BY <1>1, <2>1
  <2>. QED
    BY <1>2, <2>1, <2>2 DEF RecsOf
<1>. QED
  BY <1>2, <1>3, <1>4, <1>5 DEF RecsOf

LEMMA BlockParts ==
  ASSUME blocks \in Seq(Block), NEW b \in 1 .. Len(blocks)
  PROVE  blocks[b] \in Block /\ blocks[b].recs \in Seq(Nat)
<1>1. blocks[b] \in Block
  BY ElementOfSeq
<1>. QED
  BY <1>1 DEF Block

(* What a write does to the blocks: it adds one, or a record to the last. *)
LEMMA DataAllocParts ==
  ASSUME blocks \in Seq(Block), next \in Nat, NEW len \in Sizes
  PROVE  LET new == [recs |-> <<next>>, top |-> len]
             n == Len(blocks)
         IN \/ /\ DataAlloc(len) = Append(blocks, new)
               /\ new \in Block
            \/ \E b \in Block :
                 /\ n \in 1 .. n /\ b.recs = Append(blocks[n].recs, next)
                 /\ DataAlloc(len) = [blocks EXCEPT ![n] = b]
<1>. DEFINE n == Len(blocks)
            b == [recs |-> Append(blocks[n].recs, next), top |-> blocks[n].top + len]
<1>1. len \in 1 .. BufferSize
  BY BufferAssumption DEF BufferAssumption
<1>2. CASE blocks = <<>> \/ len > BufferSize - blocks[Len(blocks)].top
  BY <1>1, <1>2 DEF DataAlloc, Block
<1>3. CASE ~(blocks = <<>> \/ len > BufferSize - blocks[Len(blocks)].top)
  <2>1. n \in 1 .. Len(blocks)
    BY <1>3, EmptySeq
  <2>2. blocks[n] \in Block
    BY <2>1, ElementOfSeq
  <2>3. blocks[n].top + len \in 1 .. BufferSize
    BY <1>1, <1>3, <2>2, BufferAssumption DEF BufferAssumption, Block
  <2>4. Append(blocks[n].recs, next) \in Seq(Nat)
    BY <2>2, AppendProperties DEF Block
  <2>5. b \in Block /\ b.recs = Append(blocks[n].recs, next)
    BY <2>3, <2>4 DEF Block
  <2>6. DataAlloc(len) = [blocks EXCEPT ![n] = b]
    BY <1>3, <2>1, <2>2 DEF DataAlloc
  <2>. QED
    BY <2>1, <2>5, <2>6
<1>. QED
  BY <1>2, <1>3

(* The record that is written is in the blocks, and the others remain. *)
LEMMA DataAllocRecs ==
  ASSUME TypeOK, NEW len \in Sizes, blocks' = DataAlloc(len)
  PROVE  BlockRecs' = BlockRecs \cup {next}
<1>1. /\ blocks \in Seq(Block) /\ DOMAIN blocks = 1 .. Len(blocks) /\ Len(blocks) \in Nat
      /\ next \in Nat
  BY BoundAssumption DEF TypeOK, BoundAssumption
<1>. DEFINE new == [recs |-> <<next>>, top |-> len]
            n == Len(blocks)
<1>2. CASE blocks' = Append(blocks, new) /\ new \in Block
  <2>0. RecsOf(new.recs) = {next}
    BY DEF RecsOf
  <2>. HIDE DEF new
  <2>1. /\ blocks' \in Seq(Block) /\ Len(blocks') = n + 1
        /\ \A b \in 1 .. n : blocks'[b] = blocks[b]
        /\ blocks'[n + 1] = new
    BY <1>1, <1>2, AppendProperties
  <2>2. DOMAIN blocks' = (1 .. n) \cup {n + 1}
    BY <1>1, <2>1
  <2>. HIDE DEF n
  <2>3. \A b \in 1 .. n : RecsOf(blocks'[b].recs) = RecsOf(blocks[b].recs)
    BY <2>1
  <2>4. RecsOf(blocks'[n + 1].recs) = {next}
    BY <2>0, <2>1
  <2>5. DOMAIN blocks = 1 .. n
    BY <1>1 DEF n
  <2>6. BlockRecs' = (UNION { RecsOf(blocks'[b].recs) : b \in 1 .. n }) \cup {next}
    BY <2>2, <2>4 DEF BlockRecs
  <2>. QED
    BY <2>3, <2>5, <2>6, ZenonT(60) DEF BlockRecs
<1>3. ASSUME NEW x \in Block, n \in 1 .. n, x.recs = Append(blocks[n].recs, next),
             blocks' = [blocks EXCEPT ![n] = x]
      PROVE  BlockRecs' = BlockRecs \cup {next}
  <2>1. /\ blocks' \in Seq(Block) /\ Len(blocks') = n
        /\ \A b \in 1 .. n : blocks'[b] = IF b = n THEN x ELSE blocks[b]
    BY <1>1, <1>3, ExceptSeq
  <2>2. DOMAIN blocks' = DOMAIN blocks /\ n \in DOMAIN blocks /\ blocks[n].recs \in Seq(Nat)
    BY <1>1, <1>3, <2>1, BlockParts
  <2>3. RecsOf(blocks'[n].recs) = RecsOf(blocks[n].recs) \cup {next}
    <3>1. RecsOf(Append(blocks[n].recs, next)) = RecsOf(blocks[n].recs) \cup {next}
      BY <1>1, <2>2, RecsOfAppend
    <3>2. blocks'[n].recs = Append(blocks[n].recs, next)
      BY <1>3, <2>1
    <3>. QED
      BY <3>1, <3>2
  <2>4. \A b \in DOMAIN blocks : b # n => RecsOf(blocks'[b].recs) = RecsOf(blocks[b].recs)
    BY <1>1, <2>1
  <2>. HIDE DEF n
  <2>. QED
    BY <2>2, <2>3, <2>4, Zenon DEF BlockRecs
<1>. QED
  BY <1>1, <1>2, <1>3, DataAllocParts

LEMMA TailRecs ==
  ASSUME TypeOK, blocks # <<>>, blocks' = Tail(blocks)
  PROVE  BlockRecs = RecsOf(blocks[1].recs) \cup BlockRecs'
<1>1. /\ DOMAIN blocks = 1 .. Len(blocks) /\ Len(blocks) \in Nat \ {0}
      /\ DOMAIN blocks' = 1 .. Len(blocks) - 1
      /\ \A b \in 1 .. Len(blocks) - 1 : blocks'[b] = blocks[b + 1]
  BY DEF TypeOK
<1>2. ASSUME NEW b \in DOMAIN blocks, b # 1
      PROVE  RecsOf(blocks[b].recs) \subseteq BlockRecs'
  <2>1. b - 1 \in DOMAIN blocks' /\ (b - 1) + 1 = b
    BY <1>1, <1>2
  <2>2. blocks'[b - 1] = blocks[b]
    BY <1>1, <2>1
  <2>. QED
    BY <2>1, <2>2 DEF BlockRecs
<1>3. ASSUME NEW b \in DOMAIN blocks'
      PROVE  RecsOf(blocks'[b].recs) \subseteq BlockRecs
  <2>1. b + 1 \in DOMAIN blocks /\ blocks'[b] = blocks[b + 1]
    BY <1>1
  <2>. QED
    BY <2>1 DEF BlockRecs
<1>4. 1 \in DOMAIN blocks
  BY <1>1
<1>5. RecsOf(blocks[1].recs) \subseteq BlockRecs
  BY <1>4 DEF BlockRecs
<1>6. BlockRecs \subseteq RecsOf(blocks[1].recs) \cup BlockRecs'
  BY <1>2 DEF BlockRecs
<1>7. BlockRecs' \subseteq BlockRecs
  BY <1>3 DEF BlockRecs
<1>. QED
  BY <1>5, <1>6, <1>7

HeldRecs == UNION { RecsOf(held[a].recs) : a \in Actors }
Lossy == missed \/ cleanups # 0

(* NothingLost is inductive with what keeps two holders from one request   *)
(* and a holder from a request that nobody reads.                          *)
LossInv ==
  /\ \A a, b \in Actors : a # b /\ held[a].irp = held[b].irp /\ held[a].irp # NoIrp => missed
  /\ irp # NoIrp /\ irp # current => Lossy
  /\ \A a \in Actors : held[a].irp # NoIrp /\ held[a].irp # current => Lossy
  /\ NothingLost

lossVars == <<irp, held, current, missed, cleanups, next, read, blocks, outRecs, dropped>>

LEMMA LossKept ==
  ASSUME LossInv, UNCHANGED lossVars
  PROVE  LossInv'
  BY DEF LossInv, NothingLost, Stored, BlockRecs, Lossy, lossVars

(* While nothing is lost the actor has nothing in its hands yet. *)
LEMMA TakePendingLoss ==
  ASSUME TypeOK, OwnerInv, LossInv, NEW a \in Actors, NEW recs \in Seq(Nat), irp # NoIrp,
         TakePending(a, recs), UNCHANGED current, ~ Lossy'  => ~ Lossy, missed => missed'
  PROVE  /\ (\A b, c \in Actors : b # c /\ held[b].irp = held[c].irp /\ held[b].irp # NoIrp => missed)'
         /\ (irp # NoIrp /\ irp # current => Lossy)'
         /\ (\A b \in Actors : held[b].irp # NoIrp /\ held[b].irp # current => Lossy)'
         /\ ~ Lossy' => RecsOf(outRecs)' = {} /\ HeldRecs' = RecsOf(recs) \cup HeldRecs
<1>1. /\ irp' = NoIrp /\ outRecs' = <<>>
      /\ \A b \in Actors : held'[b] = IF b = a THEN [irp |-> irp, recs |-> recs] ELSE held[b]
  BY DEF TakePending, TypeOK
<1>2. \A b \in Actors : held[b].irp # irp
  BY DEF OwnerInv, OneHolder
<1>3. (\A b, c \in Actors : b # c /\ held[b].irp = held[c].irp /\ held[b].irp # NoIrp => missed)'
  BY <1>1, <1>2 DEF LossInv
<1>4. (\A b \in Actors : held[b].irp # NoIrp /\ held[b].irp # current => Lossy)'
  BY <1>1 DEF LossInv
<1>5. ASSUME ~ Lossy'
      PROVE  RecsOf(outRecs)' = {} /\ HeldRecs' = RecsOf(recs) \cup HeldRecs
  <2>1. held[a] = None
    BY <1>2, <1>5 DEF LossInv, OwnerInv
  <2>2. RecsOf(held[a].recs) = {} /\ RecsOf(outRecs)' = {}
    BY <1>1, <2>1 DEF RecsOf, None
  <2>3. \A b \in Actors : RecsOf(held'[b].recs) = IF b = a THEN RecsOf(recs) ELSE RecsOf(held[b].recs)
    BY <1>1
  <2>. QED
    BY <2>2, <2>3 DEF HeldRecs
<1>. QED
  BY <1>1, <1>3, <1>4, <1>5

LEMMA NextNumber ==
  ASSUME NEW n \in Nat \ {0}
  PROVE  1 .. (n + 1) - 1 = (1 .. n - 1) \cup {n}
  OBVIOUS

LEMMA PrepareLoss ==
  ASSUME TypeOK, RoomInv, OwnerInv, LossInv, NEW a \in Actors, NEW len \in Sizes, Prepare(a, len),
         UNCHANGED <<current, missed, cleanups, read, dropped>>
  PROVE  LossInv'
<1>0. next \in Nat \ {0} /\ next' = next + 1 /\ outRecs \in Seq(Nat) /\ Lossy' = Lossy
  BY BoundAssumption DEF TypeOK, Prepare, BoundAssumption, Lossy
<1>1. 1 .. next' - 1 = (1 .. next - 1) \cup {next}
  BY <1>0, NextNumber
<1>2. RecsOf(Append(outRecs, next)) = RecsOf(outRecs) \cup {next} /\ Append(outRecs, next) \in Seq(Nat)
  BY <1>0, RecsOfAppend
<1>3. CASE PrepareBlock(len)
  <2>1. UNCHANGED <<irp, outRecs, held>> /\ BlockRecs' = BlockRecs \cup {next}
    BY <1>3, DataAllocRecs DEF PrepareBlock
  <2>2. Stored' = Stored \cup {next}
    BY <2>1 DEF Stored
  <2>. QED
    BY <1>0, <1>1, <2>1, <2>2 DEF LossInv, NothingLost, Lossy
<1>4. CASE UNCHANGED <<blocks, held, irp>> /\ outRecs' = Append(outRecs, next)
  <2>1. Stored' = Stored \cup {next}
    BY <1>2, <1>4 DEF Stored, BlockRecs
  <2>. QED
    BY <1>0, <1>1, <1>4, <2>1 DEF LossInv, NothingLost, Lossy
<1>5. CASE UsePending /\ UNCHANGED blocks /\ TakePending(a, Append(outRecs, next))
  <2>1. irp # NoIrp
    BY <1>5 DEF UsePending, RoomInv, PendingConsistent
  <2>2. /\ (\A b, c \in Actors : b # c /\ held[b].irp = held[c].irp /\ held[b].irp # NoIrp => missed)'
        /\ (irp # NoIrp /\ irp # current => Lossy)'
        /\ (\A b \in Actors : held[b].irp # NoIrp /\ held[b].irp # current => Lossy)'
        /\ ~ Lossy' => RecsOf(outRecs)' = {} /\ HeldRecs' = RecsOf(Append(outRecs, next)) \cup HeldRecs
    BY <1>0, <1>2, <1>5, <2>1, TakePendingLoss
  <2>3. ~ Lossy' => Stored' = Stored \cup {next}
    BY <1>2, <1>5, <2>2 DEF Stored, BlockRecs, HeldRecs
  <2>. QED
    BY <1>0, <1>1, <2>2, <2>3 DEF LossInv, NothingLost, Lossy
<1>. QED
  BY <1>3, <1>4, <1>5 DEF Prepare, PreparePending

LEMMA CompleteLoss ==
  ASSUME TypeOK, OwnerInv, LossInv, NEW a \in Actors, Complete(a)
  PROVE  LossInv'
<1>. DEFINE i == held[a].irp
<1>1. /\ i # NoIrp /\ i # irp
      /\ UNCHANGED <<irp, blocks, outRecs, missed, cleanups, next>>
      /\ \A b \in Actors : held'[b] = IF b = a THEN None ELSE held[b]
      /\ current' = IF i = current THEN NoIrp ELSE current
      /\ Lossy' = Lossy
  BY DEF Complete, TypeOK, OwnerInv, OneHolder, bufVars, cntVars, Lossy
<1>2. (\A b, c \in Actors : b # c /\ held[b].irp = held[c].irp /\ held[b].irp # NoIrp => missed)'
  BY <1>1 DEF LossInv, None
<1>3. (irp # NoIrp /\ irp # current => Lossy)'
  BY <1>1 DEF LossInv, OwnerInv
<1>4. (\A b \in Actors : held[b].irp # NoIrp /\ held[b].irp # current => Lossy)'
  BY <1>1 DEF LossInv, None, Lossy
<1>5. NothingLost'
  <2> SUFFICES ASSUME ~ Lossy
               PROVE  (1 .. next - 1 = RecsOf(read) \cup Stored \cup dropped)'
    BY <1>1 DEF NothingLost, Lossy
  <2>1. i = current /\ read' = read \o held[a].recs /\ UNCHANGED dropped
    BY <1>1 DEF LossInv, Complete
  <2>2. RecsOf(read') = RecsOf(read) \cup RecsOf(held[a].recs)
    BY <2>1, RecsOfJoined DEF TypeOK
  <2>3. HeldRecs = RecsOf(held[a].recs) \cup HeldRecs'
    <3>1. RecsOf(None.recs) = {}
      BY DEF None, RecsOf
    <3>2. \A b \in Actors : RecsOf(held'[b].recs) = IF b = a THEN {} ELSE RecsOf(held[b].recs)
      BY <1>1, <3>1
    <3>. QED
      BY <3>2 DEF HeldRecs
  <2>4. BlockRecs' = BlockRecs
    BY <1>1 DEF BlockRecs
  <2>5. 1 .. next - 1 = RecsOf(read) \cup Stored \cup dropped
    BY DEF LossInv, NothingLost, Lossy
  <2>. QED
    BY <1>1, <2>1, <2>2, <2>3, <2>4, <2>5 DEF Stored, HeldRecs
<1>. QED
  BY <1>2, <1>3, <1>4, <1>5 DEF LossInv

LEMMA TimerEndLoss ==
  ASSUME TypeOK, RoomInv, OwnerInv, LossInv, TimerEnd
  PROVE  LossInv'
<1>. DEFINE move == out_top = 0 /\ out_len # 0 /\ blocks # <<>>
<1>1. UNCHANGED <<next, current, missed, cleanups, read, dropped>> /\ Lossy' = Lossy
  BY DEF TimerEnd, irpVars, histVars, cntVars, Lossy
<1>2. CASE UNCHANGED <<irp, outRecs, held, blocks>>
  BY <1>1, <1>2, LossKept DEF lossVars
<1>3. CASE move /\ TakePending("timer", blocks[1].recs) /\ blocks' = Tail(blocks)
  <2>0. blocks \in Seq(Block) /\ 1 \in 1 .. Len(blocks)
    BY <1>3, EmptySeq DEF TypeOK
  <2>1. irp # NoIrp /\ outRecs = <<>> /\ "timer" \in Actors /\ blocks[1].recs \in Seq(Nat)
    BY <1>3, <2>0, BlockParts DEF RoomInv, PendingConsistent, Actors
  <2>2. /\ (\A b, c \in Actors : b # c /\ held[b].irp = held[c].irp /\ held[b].irp # NoIrp => missed)'
        /\ (irp # NoIrp /\ irp # current => Lossy)'
        /\ (\A b \in Actors : held[b].irp # NoIrp /\ held[b].irp # current => Lossy)'
        /\ ~ Lossy' => RecsOf(outRecs)' = {} /\ HeldRecs' = RecsOf(blocks[1].recs) \cup HeldRecs
    BY <1>1, <1>3, <2>1, TakePendingLoss
  <2>3. BlockRecs = RecsOf(blocks[1].recs) \cup BlockRecs'
    BY <1>3, TailRecs
  <2>4. RecsOf(outRecs) = {}
    BY <2>1 DEF RecsOf
  <2>5. ~ Lossy' => Stored' = Stored
    BY <2>2, <2>3, <2>4, Zenon DEF Stored, HeldRecs
  <2>. QED
    BY <1>1, <2>2, <2>5 DEF LossInv, NothingLost, Lossy
<1>4. CASE out_top # 0 /\ TakePending("timer", outRecs) /\ blocks' = blocks
  <2>1. irp # NoIrp /\ "timer" \in Actors /\ outRecs \in Seq(Nat)
    BY <1>4 DEF RoomInv, PendingConsistent, Actors, TypeOK
  <2>2. /\ (\A b, c \in Actors : b # c /\ held[b].irp = held[c].irp /\ held[b].irp # NoIrp => missed)'
        /\ (irp # NoIrp /\ irp # current => Lossy)'
        /\ (\A b \in Actors : held[b].irp # NoIrp /\ held[b].irp # current => Lossy)'
        /\ ~ Lossy' => RecsOf(outRecs)' = {} /\ HeldRecs' = RecsOf(outRecs) \cup HeldRecs
    BY <1>1, <1>4, <2>1, TakePendingLoss
  <2>3. ~ Lossy' => Stored' = Stored
    BY <1>4, <2>2 DEF Stored, HeldRecs, BlockRecs
  <2>. QED
    BY <1>1, <2>2, <2>3 DEF LossInv, NothingLost, Lossy
<1>. QED
  BY <1>2, <1>3, <1>4 DEF TimerEnd, FlushPending, bufVars

LEMMA GetLogLoss ==
  ASSUME TypeOK, RoomInv, OwnerInv, LossInv, NEW i \in Irps, NEW len, GetLog(i, len)
  PROVE  LossInv'
<1>1. /\ current = NoIrp /\ i # NoIrp /\ \A a \in Actors : held[a].irp # i
      /\ UNCHANGED <<next, held, missed, cleanups, dropped>> /\ Lossy' = Lossy
  BY IrpAssumption DEF GetLog, Referenced, IrpAssumption, cntVars, Lossy
<1>2. CASE blocks = <<>>
  <2>1. /\ irp = NoIrp /\ irp' = i /\ current' = i /\ outRecs = <<>> /\ UNCHANGED <<blocks, outRecs, read>>
    BY <1>2 DEF GetLog, RoomInv, PendingConsistent
  <2>2. NothingLost'
    BY <1>1, <2>1 DEF LossInv, NothingLost, Stored, BlockRecs
  <2>. QED
    BY <1>1, <2>1, <2>2 DEF LossInv
<1>3. CASE blocks # <<>>
  <2>0. blocks \in Seq(Block) /\ 1 \in 1 .. Len(blocks)
    BY <1>3, EmptySeq DEF TypeOK
  <2>1. /\ UNCHANGED <<irp, current, outRecs>>
        /\ read' = read \o blocks[1].recs /\ blocks' = Tail(blocks) /\ blocks[1].recs \in Seq(Nat)
    BY <1>3, <2>0, BlockParts DEF GetLog
  <2>2. BlockRecs = RecsOf(blocks[1].recs) \cup BlockRecs'
    BY <1>3, <2>1, TailRecs
  <2>3. RecsOf(read') = RecsOf(read) \cup RecsOf(blocks[1].recs)
    BY <2>1, RecsOfJoined DEF TypeOK
  <2>4. NothingLost'
    BY <1>1, <2>1, <2>2, <2>3 DEF LossInv, NothingLost, Stored
  <2>. QED
    BY <1>1, <2>1, <2>4 DEF LossInv
<1>. QED
  BY <1>2, <1>3

LEMMA CancelPendingLoss ==
  ASSUME TypeOK, OwnerInv, LossInv, NEW i \in Irps, CancelPending(i)
  PROVE  LossInv'
<1>1. /\ "canceller" \in Actors /\ i # NoIrp /\ missed' = (missed \/ i # irp)
      /\ UNCHANGED <<blocks, next, current, read, dropped, cleanups>>
  BY IrpAssumption DEF CancelPending, Actors, IrpAssumption, cntVars
<1>2. CASE i = irp
  <2>1. TakePending("canceller", outRecs) /\ missed' = missed /\ outRecs \in Seq(Nat) /\ Lossy' = Lossy
    BY <1>1, <1>2 DEF CancelPending, TypeOK, Lossy
  <2>2. /\ (\A b, c \in Actors : b # c /\ held[b].irp = held[c].irp /\ held[b].irp # NoIrp => missed)'
        /\ (irp # NoIrp /\ irp # current => Lossy)'
        /\ (\A b \in Actors : held[b].irp # NoIrp /\ held[b].irp # current => Lossy)'
        /\ ~ Lossy' => RecsOf(outRecs)' = {} /\ HeldRecs' = RecsOf(outRecs) \cup HeldRecs
    BY <1>1, <1>2, <2>1, TakePendingLoss
  <2>3. ~ Lossy' => Stored' = Stored
    BY <1>1, <2>2 DEF Stored, HeldRecs, BlockRecs
  <2>. QED
    BY <1>1, <2>1, <2>2, <2>3 DEF LossInv, NothingLost, Lossy
<1>3. CASE i # irp
  BY <1>1, <1>3 DEF LossInv, NothingLost, Lossy
<1>. QED
  BY <1>2, <1>3

LEMMA LossStep == TypeOK /\ RoomInv /\ OwnerInv /\ LossInv /\ [Next]_vars => LossInv'
<1> SUFFICES ASSUME TypeOK, RoomInv, OwnerInv, LossInv, [Next]_vars PROVE LossInv'
  OBVIOUS
<1>0. "timer" \in Actors /\ Callers \subseteq Actors /\ ClassifySizes \subseteq Sizes /\ TimerSizes \subseteq Sizes
  BY DEF Actors, Sizes
<1>1. ASSUME NEW c \in Callers, NEW len \in ClassifySizes, ClassifyWrite(c, len)
      PROVE  LossInv'
  BY <1>0, <1>1, PrepareLoss DEF ClassifyWrite, irpVars, histVars, cntVars
<1>2. ASSUME NEW a \in Actors, Complete(a) PROVE LossInv'
  BY <1>2, CompleteLoss
<1>3. CASE TimerBegin
  BY <1>3, LossKept DEF TimerBegin, lossVars, bufVars, irpVars, histVars, cntVars
<1>4. ASSUME NEW len \in TimerSizes, TimerWrite(len) PROVE LossInv'
  BY <1>0, <1>4, PrepareLoss DEF TimerWrite, irpVars, histVars, cntVars
<1>5. CASE TimerEnd
  BY <1>5, TimerEndLoss
<1>6. ASSUME NEW i \in Irps, NEW len \in OutLens, GetLog(i, len) PROVE LossInv'
  BY <1>6, GetLogLoss
<1>7. ASSUME NEW i \in Irps, SetCancelRoutine(i) \/ CancelIo(i) PROVE LossInv'
  BY <1>7, LossKept DEF SetCancelRoutine, CancelIo, lossVars, bufVars, histVars, cntVars
<1>8. ASSUME NEW i \in Irps, CancelPending(i) PROVE LossInv'
  BY <1>8, CancelPendingLoss
<1>9. CASE Open
  <2>1. /\ UNCHANGED <<irp, held, current, missed, cleanups, next, read, outRecs>>
        /\ blocks' = <<>> /\ dropped' = dropped \cup BlockRecs /\ Lossy' = Lossy
    BY <1>9 DEF Open, BufferClear, irpVars, cntVars, Lossy
  <2>2. BlockRecs' = {}
    BY <2>1 DEF BlockRecs
  <2>3. NothingLost'
    BY <2>1, <2>2 DEF LossInv, NothingLost, Stored
  <2>. QED
    BY <2>1, <2>3 DEF LossInv
<1>10. CASE Cleanup
  <2>1. cleanups' = cleanups + 1 /\ cleanups \in Nat /\ UNCHANGED <<held, missed>>
    BY <1>10, BoundAssumption DEF Cleanup, TypeOK, BoundAssumption
  <2>2. cleanups' # 0
    BY <2>1
  <2>. QED
    BY <2>1, <2>2 DEF LossInv, NothingLost, Lossy
<1>11. CASE UNCHANGED vars
  BY <1>11, LossKept DEF vars, bufVars, irpVars, histVars, cntVars, lossVars
<1>. QED
  BY <1>1, <1>2, <1>3, <1>4, <1>5, <1>6, <1>7, <1>8, <1>9, <1>10, <1>11
     DEF Next, TimerComplete, Actors

THEOREM LossInvariant == Spec => []LossInv
<1>1. Init => LossInv
  BY DEF Init, LossInv, NothingLost, Lossy, Stored, BlockRecs, RecsOf, None
<1>. QED
  BY <1>1, LossStep, TypeCorrect, RoomInvariant, OwnerInvariant, PTL DEF Spec

(* While the client keeps the device open, a record that was accepted is   *)
(* with the client, in the driver, or was freed when the device was        *)
(* opened; unless a cancel routine came too late.                          *)
THEOREM NoRecordLost == Spec => []NothingLost
  BY LossInvariant, PTL DEF LossInv
-----------------------------------------------------------------------------
(* The buffer implements the FIFO of LogStream. *)

(* InFlight and the records of the blocks, as operators of the state they read. *)
Holders(h, c) == { a \in Actors : h[a].irp = c /\ h[a].recs # <<>> }
Flight(h, c) ==
  IF c = NoIrp \/ Holders(h, c) = {} THEN <<>> ELSE h[CHOOSE a \in Holders(h, c) : TRUE].recs
RecsOfBlocks(bs) == [b \in DOMAIN bs |-> bs[b].recs]
Flat(bs) == FlattenSeq(RecsOfBlocks(bs))
Queue == InFlight \o Written \o Flat(blocks)

LEMMA FlightNone ==
  ASSUME NEW h, NEW c, c = NoIrp \/ \A a \in Actors : h[a].irp = c => h[a].recs = <<>>
  PROVE  Flight(h, c) = <<>>
  BY DEF Flight, Holders

LEMMA FlightChosen ==
  ASSUME NEW h, NEW c, c # NoIrp, Holders(h, c) # {}
  PROVE  /\ Flight(h, c) = h[CHOOSE a \in Holders(h, c) : TRUE].recs
         /\ (CHOOSE a \in Holders(h, c) : TRUE) \in Holders(h, c)
<1>1. (CHOOSE a \in Holders(h, c) : TRUE) \in Holders(h, c)
  BY Zenon
<1>. DEFINE r == h[CHOOSE a \in Holders(h, c) : TRUE].recs
            none == c = NoIrp \/ Holders(h, c) = {}
<1>2. Flight(h, c) = IF none THEN <<>> ELSE r
  BY DEF Flight
<1>3. ~ none
  OBVIOUS
<1>. HIDE DEF r, none
<1>4. Flight(h, c) = r
  BY <1>2, <1>3
<1>. QED
  BY <1>1, <1>4 DEF r

LEMMA FlightOne ==
  ASSUME NEW h, NEW c, NEW a \in Actors, c # NoIrp, h[a].irp = c,
         \A b \in Actors : b # a /\ h[b].irp = c => h[b].recs = <<>>
  PROVE  Flight(h, c) = h[a].recs
<1>1. CASE h[a].recs = <<>>
  BY <1>1, FlightNone
<1>2. CASE h[a].recs # <<>>
  <2>1. Holders(h, c) = {a}
    BY <1>2 DEF Holders
  <2>2. (CHOOSE b \in {a} : TRUE) = a
    OBVIOUS
  <2>3. Flight(h, c) = h[CHOOSE b \in Holders(h, c) : TRUE].recs
    BY <2>1, FlightChosen
  <2>. QED
    BY <2>1, <2>2, <2>3, Zenon
<1>. QED
  BY <1>1, <1>2

LEMMA FlightSame ==
  ASSUME NEW h, NEW g, NEW c,
         \A a \in Actors : h[a] # g[a] =>
           (h[a].irp = c => h[a].recs = <<>>) /\ (g[a].irp = c => g[a].recs = <<>>)
  PROVE  Flight(h, c) = Flight(g, c)
<1>1. Holders(h, c) = Holders(g, c)
  BY DEF Holders
<1>2. CASE c = NoIrp \/ Holders(h, c) = {}
  BY <1>1, <1>2 DEF Flight
<1>3. CASE c # NoIrp /\ Holders(h, c) # {}
  <2>. DEFINE x == CHOOSE a \in Holders(h, c) : TRUE
  <2>1. x \in Holders(h, c)
    BY <1>3, Zenon
  <2>2. x = CHOOSE a \in Holders(g, c) : TRUE
    BY <1>1, Zenon
  <2>. HIDE DEF x
  <2>3. h[x] = g[x]
    BY <2>1 DEF Holders
  <2>4. Flight(h, c) = h[x].recs
    BY <1>3, FlightChosen DEF x
  <2>5. Flight(g, c) = h[CHOOSE a \in Holders(g, c) : TRUE].recs
    <3>1. Flight(g, c) = g[CHOOSE a \in Holders(g, c) : TRUE].recs
      BY <1>1, <1>3, FlightChosen
    <3>. QED
      BY <2>2, <2>3, <3>1, Zenon
  <2>. QED
    BY <2>2, <2>4, <2>5, Zenon
<1>. QED
  BY <1>2, <1>3

LEMMA FlightType ==
  ASSUME TypeOK
  PROVE  InFlight \in Seq(Nat) /\ Written \in Seq(Nat) /\ InFlight = Flight(held, current)
<1>0. InFlight = Flight(held, current)
  BY DEF InFlight, Flight, Holders
<1>1. CASE current # NoIrp /\ Holders(held, current) # {}
  <2>. DEFINE x == CHOOSE a \in Holders(held, current) : TRUE
  <2>1. x \in Holders(held, current)
    BY <1>1, Zenon
  <2>. HIDE DEF x
  <2>2. x \in Actors
    BY <2>1 DEF Holders
  <2>3. held[x].recs \in Seq(Nat)
    BY <2>2 DEF TypeOK
  <2>4. Flight(held, current) = held[x].recs
    BY <1>1, FlightChosen DEF x
  <2>. QED
    BY <1>0, <2>3, <2>4, EmptySeq DEF Written, TypeOK
<1>. QED
  BY <1>0, <1>1, EmptySeq DEF Flight, Written, TypeOK

-----------------------------------------------------------------------------
(* The records of the blocks. *)

LEMMA RecsOfBlocksType ==
  ASSUME NEW bs \in Seq(Block)
  PROVE  /\ RecsOfBlocks(bs) \in Seq(Seq(Nat)) /\ Len(RecsOfBlocks(bs)) = Len(bs)
         /\ \A b \in 1 .. Len(bs) : RecsOfBlocks(bs)[b] = bs[b].recs /\ bs[b].recs \in Seq(Nat)
         /\ Flat(bs) \in Seq(Nat)
<1>1. DOMAIN bs = 1 .. Len(bs) /\ Len(bs) \in Nat
  OBVIOUS
<1>2. ASSUME NEW b \in 1 .. Len(bs) PROVE bs[b].recs \in Seq(Nat)
  <2>1. bs[b] \in Block
    BY ElementOfSeq
  <2>. QED
    BY <2>1 DEF Block
<1>3. RecsOfBlocks(bs) = [b \in 1 .. Len(bs) |-> bs[b].recs]
  BY <1>1 DEF RecsOfBlocks
<1>4. RecsOfBlocks(bs) \in Seq(Seq(Nat)) /\ Len(RecsOfBlocks(bs)) = Len(bs)
  BY <1>1, <1>2, <1>3, IsASeq, LenProperties
<1>. QED
  BY <1>2, <1>3, <1>4, FlattenType DEF Flat

LEMMA FlatEmpty == Flat(<<>>) = <<>>
<1>1. RecsOfBlocks(<<>>) = <<>>
  BY DEF RecsOfBlocks
<1>. QED
  BY <1>1, FlattenEmpty DEF Flat

LEMMA FlatAppend ==
  ASSUME NEW bs \in Seq(Block), NEW x \in Block
  PROVE  Flat(Append(bs, x)) = Flat(bs) \o x.recs
<1>. DEFINE cs == Append(bs, x)
            r == RecsOfBlocks(bs)
            t == RecsOfBlocks(cs)
<1>1. /\ cs \in Seq(Block) /\ Len(cs) = Len(bs) + 1 /\ Len(bs) \in Nat
      /\ cs[Len(bs) + 1] = x /\ \A b \in 1 .. Len(bs) : cs[b] = bs[b]
  BY AppendProperties
<1>2. x.recs \in Seq(Nat)
  BY DEF Block
<1>. HIDE DEF cs
<1>3. /\ r \in Seq(Seq(Nat)) /\ Len(r) = Len(bs)
      /\ \A b \in 1 .. Len(bs) : r[b] = bs[b].recs
  BY RecsOfBlocksType
<1>4. /\ t \in Seq(Seq(Nat)) /\ Len(t) = Len(cs)
      /\ \A b \in 1 .. Len(cs) : t[b] = cs[b].recs
  BY <1>1, RecsOfBlocksType
<1>. HIDE DEF r, t
<1>5. /\ Append(r, x.recs) \in Seq(Seq(Nat)) /\ Len(Append(r, x.recs)) = Len(r) + 1
      /\ Append(r, x.recs)[Len(r) + 1] = x.recs
      /\ \A b \in 1 .. Len(r) : Append(r, x.recs)[b] = r[b]
  BY <1>2, <1>3, AppendProperties
<1>6. t = Append(r, x.recs)
  <2>1. ASSUME NEW b \in 1 .. Len(t)
        PROVE  t[b] = Append(r, x.recs)[b]
    <3>1. b = Len(bs) + 1 \/ b \in 1 .. Len(bs)
      BY <1>1, <1>4
    <3>. QED
      BY <1>1, <1>3, <1>4, <1>5, <3>1
  <2>. QED
    BY <1>1, <1>3, <1>4, <1>5, <2>1, SeqEqual
<1>7. FlattenSeq(Append(r, x.recs)) = FlattenSeq(r) \o x.recs
  BY <1>2, <1>3, FlattenAppend
<1>. QED
  BY <1>6, <1>7 DEF Flat, cs, r, t

LEMMA FlatGrow ==
  ASSUME NEW bs \in Seq(Block), NEW x \in Block, NEW y \in Seq(Nat),
         Len(bs) \in 1 .. Len(bs), x.recs = bs[Len(bs)].recs \o y
  PROVE  Flat([bs EXCEPT ![Len(bs)] = x]) = Flat(bs) \o y
<1>. DEFINE n == Len(bs)
            cs == [bs EXCEPT ![n] = x]
            r == RecsOfBlocks(bs)
            t == RecsOfBlocks(cs)
            u == [r EXCEPT ![Len(r)] = @ \o y]
<1>1. /\ cs \in Seq(Block) /\ Len(cs) = n /\ n \in Nat
      /\ \A b \in 1 .. n : cs[b] = IF b = n THEN x ELSE bs[b]
  BY ExceptSeq
<1>. HIDE DEF cs
<1>2. /\ r \in Seq(Seq(Nat)) /\ Len(r) = n
      /\ \A b \in 1 .. n : r[b] = bs[b].recs
  BY RecsOfBlocksType
<1>3. /\ t \in Seq(Seq(Nat)) /\ Len(t) = n
      /\ \A b \in 1 .. n : t[b] = cs[b].recs
  BY <1>1, RecsOfBlocksType
<1>4. r[n] \o y = x.recs /\ r[n] \o y \in Seq(Nat)
  BY <1>2 DEF Block
<1>. HIDE DEF r, t
<1>5. u = [r EXCEPT ![n] = r[n] \o y]
  BY <1>2
<1>6. /\ u \in Seq(Seq(Nat)) /\ Len(u) = n
      /\ \A b \in 1 .. n : u[b] = IF b = n THEN x.recs ELSE r[b]
  BY <1>2, <1>4, <1>5, ExceptSeq
<1>. HIDE DEF u
<1>7. t = u
  <2>1. ASSUME NEW b \in 1 .. n
        PROVE  t[b] = u[b]
    BY <1>1, <1>2, <1>3, <1>6
  <2>. QED
    BY <1>3, <1>6, <2>1, SeqEqual
<1>8. FlattenSeq(u) = FlattenSeq(r) \o y
  <2>1. r # <<>>
    BY <1>2
  <2>. QED
    BY <1>2, <2>1, FlattenGrow DEF u
<1>. QED
  BY <1>7, <1>8 DEF Flat, cs, r, t

LEMMA FlatTail ==
  ASSUME NEW bs \in Seq(Block), bs # <<>>
  PROVE  /\ bs[1].recs \in Seq(Nat) /\ Tail(bs) \in Seq(Block)
         /\ Flat(bs) = bs[1].recs \o Flat(Tail(bs))
<1>. DEFINE n == Len(bs)
            cs == Tail(bs)
            r == RecsOfBlocks(bs)
            t == RecsOfBlocks(cs)
<1>1. /\ n \in Nat /\ 1 \in 1 .. n /\ cs \in Seq(Block) /\ Len(cs) = n - 1
      /\ \A b \in 1 .. n - 1 : cs[b] = bs[b + 1]
  BY HeadTailProperties
<1>. HIDE DEF cs
<1>2. /\ r \in Seq(Seq(Nat)) /\ Len(r) = n
      /\ \A b \in 1 .. n : r[b] = bs[b].recs /\ bs[b].recs \in Seq(Nat)
  BY RecsOfBlocksType
<1>3. /\ t \in Seq(Seq(Nat)) /\ Len(t) = n - 1
      /\ \A b \in 1 .. n - 1 : t[b] = cs[b].recs
  BY <1>1, RecsOfBlocksType
<1>. HIDE DEF r, t
<1>4. r # <<>>
  BY <1>1, <1>2
<1>5. /\ Tail(r) \in Seq(Seq(Nat)) /\ Len(Tail(r)) = n - 1
      /\ \A b \in 1 .. n - 1 : Tail(r)[b] = r[b + 1]
  BY <1>1, <1>2, <1>4, HeadTailProperties
<1>6. t = Tail(r)
  <2>1. ASSUME NEW b \in 1 .. n - 1
        PROVE  t[b] = Tail(r)[b]
    <3>1. b + 1 \in 1 .. n
      BY <1>1
    <3>. QED
      BY <1>1, <1>2, <1>3, <1>5, <3>1
  <2>2. \A b \in 1 .. Len(t) : t[b] = Tail(r)[b]
    BY <1>3, <2>1
  <2>. QED
    BY <1>3, <1>5, <2>2, SeqEqual
<1>7. FlattenSeq(r) = r[1] \o FlattenSeq(Tail(r))
  BY <1>2, <1>4, FlattenHeadTail
<1>8. r[1] = bs[1].recs
  BY <1>1, <1>2
<1>9. Flat(bs) = bs[1].recs \o Flat(Tail(bs))
  BY <1>6, <1>7, <1>8, Zenon DEF Flat, cs, r, t
<1>. QED
  BY <1>1, <1>2, <1>9 DEF cs
-----------------------------------------------------------------------------
(* The steps of the FIFO. *)

LEMMA FrontBack ==
  ASSUME NEW S, NEW a \in Seq(S), NEW b \in Seq(S), NEW q, q = a \o b
  PROVE  /\ q \in Seq(S) /\ Len(q) = Len(a) + Len(b) /\ Len(a) \in Nat /\ Len(b) \in Nat
         /\ SubSeq(q, 1, Len(a)) = a
         /\ SubSeq(q, Len(a) + 1, Len(q)) = b
  OBVIOUS

LEMMA EmptySubSeq ==
  ASSUME NEW S, NEW q \in Seq(S)
  PROVE  /\ SubSeq(q, 1, 0) = <<>> /\ SubSeq(q, Len(q) + 1, Len(q)) = <<>>
         /\ SubSeq(q, 1, Len(q)) = q
         /\ q \o <<>> = q /\ <<>> \o q = q
  OBVIOUS

LEMMA QueueParts ==
  ASSUME TypeOK
  PROVE  /\ InFlight \in Seq(Nat) /\ Written \in Seq(Nat) /\ Flat(blocks) \in Seq(Nat)
         /\ Queue = (InFlight \o Written) \o Flat(blocks)
         /\ Queue \in Seq(Nat)
<1>1. InFlight \in Seq(Nat) /\ Written \in Seq(Nat)
  BY FlightType
<1>2. Flat(blocks) \in Seq(Nat)
  BY RecsOfBlocksType DEF TypeOK
<1>. QED
  BY <1>1, <1>2, ConcatProperties DEF Queue

LEMMA AcceptStep ==
  ASSUME TypeOK, next <= MaxRecords, next' = next + 1,
         Queue' = Append(Queue, next), UNCHANGED <<read, missed, cleanups>>
  PROVE  [Stream!Next]_(Stream!vars)
<1>1. Stream!Accept
  BY DEF Stream!Accept, Queue, Flat, RecsOfBlocks
<1>. QED
  BY <1>1 DEF Stream!Next

LEMMA IdleStep ==
  ASSUME UNCHANGED <<Queue, read, next>>, Lossy' = Lossy
  PROVE  [Stream!Next]_(Stream!vars)
  BY DEF Stream!vars, Queue, Flat, RecsOfBlocks, Lossy

LEMMA ReceiveStep ==
  ASSUME NEW r \in Seq(Nat), NEW t \in Seq(Nat), Queue = r \o t, Queue' = t,
         read \in Seq(Nat), read' = read \o r, UNCHANGED next, Lossy' = Lossy
  PROVE  [Stream!Next]_(Stream!vars)
<1>1. CASE r = <<>>
  <2>1. read' = read /\ Queue' = Queue
    BY <1>1
  <2>. QED
    BY <2>1, IdleStep
<1>2. CASE r # <<>>
  <2>1. /\ Len(r) \in 1 .. Len(Queue)
        /\ SubSeq(Queue, 1, Len(r)) = r /\ SubSeq(Queue, Len(r) + 1, Len(Queue)) = t
    BY <1>2, FrontBack
  <2>2. Stream!Receive
    BY <2>1 DEF Stream!Receive, Queue, Flat, RecsOfBlocks, Lossy
  <2>. QED
    BY <2>2 DEF Stream!Next
<1>. QED
  BY <1>1, <1>2

LEMMA DiscardStep ==
  ASSUME NEW r \in Seq(Nat), NEW t \in Seq(Nat), Queue = r \o t, Queue' = r,
         UNCHANGED <<read, next>>, Lossy' = Lossy
  PROVE  [Stream!Next]_(Stream!vars)
<1>1. CASE t = <<>>
  <2>1. Queue' = Queue
    BY <1>1
  <2>. QED
    BY <2>1, IdleStep
<1>2. CASE t # <<>>
  <2>1. Len(r) \in 0 .. Len(Queue) - 1 /\ SubSeq(Queue, 1, Len(r)) = r
    BY <1>2, FrontBack
  <2>2. Stream!Discard
    BY <2>1 DEF Stream!Discard, Queue, Flat, RecsOfBlocks, Lossy
  <2>. QED
    BY <2>2 DEF Stream!Next
<1>. QED
  BY <1>1, <1>2

(* The records r in front of the queue are lost. *)
LEMMA LoseStep ==
  ASSUME NEW r \in Seq(Nat), NEW t \in Seq(Nat), Queue = r \o t, Queue' = t,
         next' \in {next, next + 1}, UNCHANGED read, Lossy'
  PROVE  [Stream!Next]_(Stream!vars)
<1>1. /\ Queue \in Seq(Nat) /\ Len(r) \in 0 .. Len(Queue) /\ 0 \in 0 .. Len(Queue)
      /\ SubSeq(Queue, Len(r) + 1, Len(Queue)) = t
  BY FrontBack
<1>2. SubSeq(Queue, 1, 0) = <<>> /\ <<>> \o t = t
  BY <1>1, EmptySubSeq
<1>3. Queue' = SubSeq(Queue, 1, 0) \o SubSeq(Queue, Len(r) + 1, Len(Queue))
  BY <1>1, <1>2
<1>4. Stream!Lose
  BY <1>1, <1>3 DEF Stream!Lose, Queue, Flat, RecsOfBlocks, Lossy
<1>. QED
  BY <1>4 DEF Stream!Next
-----------------------------------------------------------------------------
(* Each action of the buffer. *)

LEMMA FlightPrimed == InFlight' = Flight(held', current')
  BY DEF InFlight, Flight, Holders

(* Nobody holds what is written to the request that is taken. *)
LEMMA TakePendingFlight ==
  ASSUME TypeOK, OwnerInv, NEW a \in Actors, NEW recs \in Seq(Nat), irp # NoIrp,
         TakePending(a, recs), UNCHANGED current
  PROVE  /\ InFlight = <<>> /\ Written' = <<>>
         /\ irp = current => Written = outRecs /\ InFlight' = recs
         /\ irp # current => Written = <<>> /\ InFlight' = <<>>
<1>1. /\ irp' = NoIrp /\ outRecs' = <<>>
      /\ \A b \in Actors : held'[b] = IF b = a THEN [irp |-> irp, recs |-> recs] ELSE held[b]
  BY DEF TakePending, TypeOK
<1>2. \A b \in Actors : held[b].irp # irp
  BY DEF OwnerInv, OneHolder
<1>3. irp # current => current = NoIrp
  BY DEF OwnerInv
<1>4. InFlight = <<>>
  BY <1>2, <1>3, FlightNone, FlightType, SMTT(60)
<1>5. CASE irp = current
  <2>1. Flight(held', current') = held'[a].recs
    BY <1>1, <1>2, <1>5, FlightOne
  <2>. QED
    BY <1>1, <1>4, <1>5, <2>1, FlightPrimed DEF Written
<1>6. CASE irp # current
  <2>1. Flight(held', current') = <<>>
    BY <1>3, <1>6, FlightNone
  <2>. QED
    BY <1>1, <1>4, <1>6, <2>1, FlightPrimed DEF Written
<1>. QED
  BY <1>5, <1>6

LEMMA SameFlight ==
  ASSUME TypeOK, UNCHANGED <<held, current, irp, outRecs>>
  PROVE  InFlight' = InFlight /\ Written' = Written
  BY DEF InFlight, Written

LEMMA AppendIsJoin ==
  ASSUME NEW s \in Seq(Nat), NEW n \in Nat
  PROVE  Append(s, n) = s \o <<n>>
  OBVIOUS

(* A record goes to the blocks, behind all others. *)
LEMMA PrepareBlockStream ==
  ASSUME TypeOK, NEW len \in Sizes, PrepareBlock(len), UNCHANGED current
  PROVE  Queue' = Append(Queue, next)
<1>1. blocks \in Seq(Block) /\ next \in Nat /\ <<next>> \in Seq(Nat)
  BY BoundAssumption DEF TypeOK, BoundAssumption
<1>2. blocks' = DataAlloc(len) /\ InFlight' = InFlight /\ Written' = Written
  BY SameFlight DEF PrepareBlock
<1>. DEFINE new == [recs |-> <<next>>, top |-> len]
            n == Len(blocks)
<1>3. ASSUME blocks' = Append(blocks, new), new \in Block
      PROVE  Flat(blocks') = Flat(blocks) \o <<next>>
  <2>1. Flat(Append(blocks, new)) = Flat(blocks) \o new.recs
    BY <1>1, <1>3, FlatAppend
  <2>2. new.recs = <<next>>
    OBVIOUS
  <2>. QED
    BY <1>3, <2>1, <2>2
<1>4. ASSUME NEW x \in Block, n \in 1 .. n, x.recs = Append(blocks[n].recs, next),
             blocks' = [blocks EXCEPT ![n] = x]
      PROVE  Flat(blocks') = Flat(blocks) \o <<next>>
  <2>1. blocks[n].recs \in Seq(Nat)
    BY <1>1, <1>4, BlockParts
  <2>2. x.recs = blocks[n].recs \o <<next>>
    BY <1>1, <1>4, <2>1, AppendIsJoin
  <2>3. Flat([blocks EXCEPT ![n] = x]) = Flat(blocks) \o <<next>>
    BY <1>1, <1>4, <2>2, FlatGrow
  <2>. QED
    BY <1>4, <2>3
<1>5. Flat(blocks') = Flat(blocks) \o <<next>>
  BY <1>1, <1>2, <1>3, <1>4, DataAllocParts
<1>. DEFINE f == InFlight \o Written
            b == Flat(blocks)
<1>6. f \in Seq(Nat) /\ b \in Seq(Nat) /\ Queue = f \o b /\ Queue \in Seq(Nat)
  BY QueueParts
<1>7. Queue' = f \o (b \o <<next>>)
  BY <1>2, <1>5 DEF Queue, Flat, RecsOfBlocks
<1>. HIDE DEF f, b
<1>8. f \o (b \o <<next>>) = Append(f \o b, next)
  BY <1>1, <1>6, SMTT(60)
<1>. QED
  BY <1>6, <1>7, <1>8

LEMMA PrepareStream ==
  ASSUME TypeOK, RoomInv, OwnerInv, LossInv, NEW a \in Actors, NEW len \in Sizes,
         Prepare(a, len), UNCHANGED <<current, missed, cleanups, read>>
  PROVE  [Stream!Next]_(Stream!vars)
<1>1. /\ next <= MaxRecords /\ next' = next + 1 /\ next \in Nat /\ outRecs \in Seq(Nat)
      /\ Lossy' = Lossy
  BY BoundAssumption DEF Prepare, TypeOK, BoundAssumption, Lossy
<1>2. CASE PrepareBlock(len)
  BY <1>1, <1>2, PrepareBlockStream, AcceptStep
<1>3. CASE PreparePending(a, len)
  <2>1. blocks = <<>> /\ irp # NoIrp /\ UNCHANGED blocks
    BY <1>3 DEF PreparePending, UsePending, RoomInv, PendingConsistent
  <2>2. Flat(blocks) = <<>> /\ Flat(blocks') = <<>>
    BY <2>1, FlatEmpty
  <2>. DEFINE recs == Append(outRecs, next)
              f == InFlight \o Written
  <2>3. recs \in Seq(Nat)
    BY <1>1
  <2>4. /\ InFlight = <<>>
        /\ irp = current => Written = outRecs /\ InFlight' \o Written' = recs
        /\ irp # current => Written = <<>> /\ InFlight' \o Written' = <<>>
    <3>1. CASE TakePending(a, recs)
      <4>1. /\ InFlight = <<>> /\ Written' = <<>>
            /\ irp = current => Written = outRecs /\ InFlight' = recs
            /\ irp # current => Written = <<>> /\ InFlight' = <<>>
        BY <2>1, <2>3, <3>1, TakePendingFlight
      <4>. HIDE DEF recs
      <4>. QED
        BY <2>3, <4>1
    <3>2. CASE outRecs' = recs /\ UNCHANGED <<held, irp>>
      <4>1. \A b \in Actors : held[b].irp # irp
        BY <2>1 DEF OwnerInv, OneHolder
      <4>2. irp # current => current = NoIrp
        BY <2>1 DEF OwnerInv
      <4>3. InFlight = <<>>
        BY <4>1, <4>2, FlightNone, FlightType
      <4>4. InFlight' = InFlight
        BY <3>2 DEF InFlight
      <4>5. /\ irp = current => Written = outRecs /\ Written' = recs
            /\ irp # current => Written = <<>> /\ Written' = <<>>
        BY <3>2 DEF Written
      <4>. HIDE DEF recs
      <4>. QED
        BY <2>3, <4>3, <4>4, <4>5
    <3>. QED
      BY <1>3, <3>1, <3>2 DEF PreparePending
  <2>5. Queue = InFlight \o Written /\ Queue' = InFlight' \o Written' /\ Queue \in Seq(Nat)
    <3>1. (InFlight' \o Written') \in Seq(Nat)
      BY <2>3, <2>4, EmptySeq
    <3>2. Queue' = (InFlight' \o Written') \o Flat(blocks')
      BY DEF Queue, Flat, RecsOfBlocks
    <3>3. (InFlight \o Written) \in Seq(Nat) /\ Queue = (InFlight \o Written) \o Flat(blocks) /\ Queue \in Seq(Nat)
      BY QueueParts
    <3>. QED
      BY <2>2, <3>1, <3>2, <3>3, EmptySubSeq
  <2>6. CASE irp = current
    <3>1. Queue = outRecs /\ Queue' = recs
      BY <1>1, <2>4, <2>5, <2>6, EmptySubSeq
    <3>. QED
      BY <1>1, <3>1, AcceptStep
  <2>7. CASE irp # current
    <3>1. Queue = <<>> /\ Queue' = <<>>
      BY <2>4, <2>5, <2>7, EmptySubSeq
    <3>2. Lossy'
      BY <1>1, <2>1, <2>7 DEF LossInv
    <3>. QED
      <4>1. <<>> \in Seq(Nat) /\ <<>> \o <<>> = <<>>
        OBVIOUS
      <4>. QED
        BY <1>1, <3>1, <3>2, <4>1, LoseStep
  <2>. QED
    BY <2>6, <2>7
<1>. QED
  BY <1>2, <1>3 DEF Prepare

LEMMA TimerEndStream ==
  ASSUME TypeOK, RoomInv, OwnerInv, LossInv, TimerEnd
  PROVE  [Stream!Next]_(Stream!vars)
<1>. DEFINE move == out_top = 0 /\ out_len # 0 /\ blocks # <<>>
<1>1. UNCHANGED <<next, current, missed, cleanups, read>> /\ Lossy' = Lossy
  BY DEF TimerEnd, irpVars, histVars, cntVars, Lossy
<1>2. CASE UNCHANGED <<irp, outRecs, held, blocks>>
  <2>1. UNCHANGED Queue
    BY <1>1, <1>2, SameFlight DEF Queue, Flat, RecsOfBlocks
  <2>. QED
    BY <1>1, <2>1, IdleStep
<1>3. CASE move /\ TakePending("timer", blocks[1].recs) /\ blocks' = Tail(blocks)
  <2>. DEFINE r == blocks[1].recs
              t == Flat(Tail(blocks))
  <2>1. /\ r \in Seq(Nat) /\ Flat(blocks) = r \o t /\ Tail(blocks) \in Seq(Block)
    BY <1>3, FlatTail DEF TypeOK
  <2>2. t \in Seq(Nat)
    BY <2>1, RecsOfBlocksType
  <2>3. irp # NoIrp /\ outRecs = <<>> /\ "timer" \in Actors
    BY <1>3 DEF RoomInv, PendingConsistent, Actors
  <2>4. /\ InFlight = <<>> /\ Written' = <<>>
        /\ irp = current => Written = outRecs /\ InFlight' = r
        /\ irp # current => Written = <<>> /\ InFlight' = <<>>
    BY <1>1, <1>3, <2>1, <2>3, TakePendingFlight
  <2>5. Flat(blocks') = t
    BY <1>3
  <2>6. Queue' = (InFlight' \o Written') \o Flat(blocks')
    BY DEF Queue, Flat, RecsOfBlocks
  <2>7. Queue = (InFlight \o Written) \o Flat(blocks)
    BY QueueParts
  <2>. HIDE DEF r, t
  <2>8. Queue = r \o t
    <3>1. InFlight = <<>> /\ Written = <<>>
      BY <2>3, <2>4
    <3>. QED
      BY <2>1, <2>2, <2>7, <3>1
  <2>9. CASE irp = current
    <3>1. Queue' = r \o t
      BY <2>1, <2>2, <2>4, <2>5, <2>6, <2>9
    <3>. QED
      BY <1>1, <2>8, <3>1, IdleStep
  <2>10. CASE irp # current
    <3>1. Queue' = t
      BY <2>1, <2>2, <2>4, <2>5, <2>6, <2>10
    <3>2. Lossy'
      BY <1>1, <2>3, <2>10 DEF LossInv
    <3>. QED
      BY <1>1, <2>1, <2>2, <2>8, <3>1, <3>2, LoseStep
  <2>. QED
    BY <2>9, <2>10
<1>4. CASE out_top # 0 /\ TakePending("timer", outRecs) /\ blocks' = blocks
  <2>1. irp # NoIrp /\ "timer" \in Actors /\ outRecs \in Seq(Nat)
    BY <1>4 DEF RoomInv, PendingConsistent, Actors, TypeOK
  <2>2. /\ InFlight = <<>> /\ Written' = <<>>
        /\ irp = current => Written = outRecs /\ InFlight' = outRecs
        /\ irp # current => Written = <<>> /\ InFlight' = <<>>
    BY <1>1, <1>4, <2>1, TakePendingFlight
  <2>3. InFlight' \o Written' = InFlight \o Written
    BY <2>1, <2>2
  <2>4. UNCHANGED Queue
    BY <1>4, <2>3 DEF Queue, Flat, RecsOfBlocks
  <2>. QED
    BY <1>1, <2>4, IdleStep
<1>. QED
  BY <1>2, <1>3, <1>4 DEF TimerEnd, FlushPending, bufVars

LEMMA GetLogStream ==
  ASSUME TypeOK, RoomInv, OwnerInv, LossInv, NEW i \in Irps, NEW len, GetLog(i, len)
  PROVE  [Stream!Next]_(Stream!vars)
<1>1. /\ current = NoIrp /\ i # NoIrp /\ \A a \in Actors : held[a].irp # i
      /\ UNCHANGED <<next, held, missed, cleanups>> /\ Lossy' = Lossy /\ read \in Seq(Nat)
  BY IrpAssumption DEF GetLog, Referenced, IrpAssumption, cntVars, Lossy, TypeOK
<1>2. InFlight = <<>>
  BY <1>1, FlightNone, FlightType
<1>3. Written = <<>>
  BY <1>1 DEF Written, RoomInv, PendingConsistent
<1>4. CASE blocks = <<>>
  <2>1. current' = i /\ outRecs' = <<>> /\ UNCHANGED <<blocks, read>>
    BY <1>4 DEF GetLog
  <2>2. Flight(held', current') = <<>>
    BY <1>1, <2>1, FlightNone
  <2>3. InFlight' = InFlight /\ Written' = Written
    BY <1>2, <1>3, <2>1, <2>2, FlightPrimed DEF Written
  <2>4. UNCHANGED Queue
    BY <2>1, <2>3 DEF Queue
  <2>. QED
    BY <1>1, <2>1, <2>4, IdleStep
<1>5. CASE blocks # <<>>
  <2>. DEFINE r == blocks[1].recs
              t == Flat(Tail(blocks))
  <2>1. /\ r \in Seq(Nat) /\ Flat(blocks) = r \o t /\ Tail(blocks) \in Seq(Block)
    BY <1>5, FlatTail DEF TypeOK
  <2>2. t \in Seq(Nat)
    BY <2>1, RecsOfBlocksType
  <2>3. /\ UNCHANGED <<irp, current, outRecs>>
        /\ read' = read \o r /\ blocks' = Tail(blocks)
    BY <1>5 DEF GetLog
  <2>4. InFlight' = <<>> /\ Written' = <<>>
    BY <1>1, <1>2, <1>3, <2>3, SameFlight
  <2>5. Flat(blocks') = t
    BY <2>3
  <2>6. Queue' = (InFlight' \o Written') \o Flat(blocks')
    BY DEF Queue, Flat, RecsOfBlocks
  <2>7. Queue = (InFlight \o Written) \o Flat(blocks)
    BY QueueParts
  <2>. HIDE DEF r, t
  <2>8. Queue = r \o t /\ Queue' = t
    BY <1>2, <1>3, <2>1, <2>2, <2>4, <2>5, <2>6, <2>7
  <2>. QED
    BY <1>1, <2>1, <2>2, <2>3, <2>8, ReceiveStep
<1>. QED
  BY <1>4, <1>5
(* A holder of the reader's request gives it the records in flight; or it  *)
(* is a cancel routine that came too late and another one holds them.      *)
LEMMA CompleteStream ==
  ASSUME TypeOK, RoomInv, OwnerInv, LossInv, NEW a \in Actors, Complete(a)
  PROVE  [Stream!Next]_(Stream!vars)
<1>. DEFINE i == held[a].irp
            b == Flat(blocks)
<1>1. /\ i # NoIrp /\ i # irp /\ UNCHANGED <<irp, blocks, outRecs, missed, cleanups, next>>
      /\ \A c \in Actors : held'[c] = IF c = a THEN None ELSE held[c]
      /\ Lossy' = Lossy /\ held[a].recs \in Seq(Nat) /\ read \in Seq(Nat)
  BY DEF Complete, TypeOK, OwnerInv, OneHolder, bufVars, cntVars, Lossy
<1>2. /\ InFlight \in Seq(Nat) /\ b \in Seq(Nat) /\ InFlight = Flight(held, current)
      /\ Queue = (InFlight \o Written) \o b /\ Queue' = (InFlight' \o Written') \o b
  <2>1. Queue' = (InFlight' \o Written') \o Flat(blocks') /\ Flat(blocks') = b
    BY <1>1 DEF Queue, Flat, RecsOfBlocks
  <2>. QED
    BY <2>1, QueueParts, FlightType
<1>. HIDE DEF b
<1>3. CASE i = current
  <2>1. current' = NoIrp /\ read' = read \o held[a].recs
    BY <1>3 DEF Complete
  <2>2. Written = <<>> /\ Written' = <<>>
    BY <1>1, <1>3, <2>1 DEF Written, RoomInv, PendingConsistent
  <2>3. InFlight' = <<>>
    BY <2>1, FlightNone, FlightPrimed
  <2>4. Queue = InFlight \o b /\ Queue' = b
    BY <1>2, <2>2, <2>3
  <2>5. CASE \A c \in Actors : c # a /\ held[c].irp = current => held[c].recs = <<>>
    <3>1. InFlight = held[a].recs
      BY <1>1, <1>2, <1>3, <2>5, FlightOne
    <3>. QED
      BY <1>1, <1>2, <2>1, <2>4, <3>1, ReceiveStep
  <2>6. CASE \E c \in Actors : c # a /\ held[c].irp = current /\ held[c].recs # <<>>
    <3>1. PICK c \in Actors : c # a /\ held[c].irp = current /\ held[c].recs # <<>>
      BY <2>6
    <3>2. missed /\ held[a].recs = <<>>
      BY <1>1, <1>3, <3>1 DEF LossInv, OwnerInv, OneHolder, Late, None
    <3>3. UNCHANGED read
      BY <1>1, <2>1, <3>2
    <3>. QED
      BY <1>1, <1>2, <2>4, <3>2, <3>3, LoseStep DEF Lossy
  <2>. QED
    BY <2>5, <2>6
<1>4. CASE i # current
  <2>1. UNCHANGED <<current, read>>
    BY <1>4 DEF Complete
  <2>2. \A c \in Actors : held[c] # held'[c] =>
           (held[c].irp = current => held[c].recs = <<>>) /\ (held'[c].irp = current => held'[c].recs = <<>>)
    BY <1>1, <1>4 DEF None
  <2>3. Flight(held, current) = Flight(held', current)
    BY <2>2, FlightSame
  <2>4. InFlight' = InFlight /\ Written' = Written
    BY <1>1, <1>2, <2>1, <2>3, FlightPrimed DEF Written
  <2>5. UNCHANGED Queue
    BY <1>2, <2>4
  <2>. QED
    BY <1>1, <2>1, <2>5, IdleStep
<1>. QED
  BY <1>3, <1>4

LEMMA CancelPendingStream ==
  ASSUME TypeOK, OwnerInv, LossInv, NEW i \in Irps, CancelPending(i)
  PROVE  [Stream!Next]_(Stream!vars)
<1>1. /\ "canceller" \in Actors /\ i # NoIrp /\ missed' = (missed \/ i # irp)
      /\ held["canceller"] = None /\ UNCHANGED <<blocks, next, current, read, cleanups>>
  BY IrpAssumption DEF CancelPending, Actors, IrpAssumption, cntVars
<1>2. CASE i = irp
  <2>1. TakePending("canceller", outRecs) /\ outRecs \in Seq(Nat) /\ Lossy' = Lossy
    BY <1>1, <1>2 DEF CancelPending, TypeOK, Lossy
  <2>2. /\ InFlight = <<>> /\ Written' = <<>>
        /\ irp = current => Written = outRecs /\ InFlight' = outRecs
        /\ irp # current => Written = <<>> /\ InFlight' = <<>>
    BY <1>1, <1>2, <2>1, TakePendingFlight
  <2>3. InFlight' \o Written' = InFlight \o Written
    BY <2>1, <2>2
  <2>4. UNCHANGED Queue
    BY <1>1, <2>3 DEF Queue, Flat, RecsOfBlocks
  <2>. QED
    BY <1>1, <2>1, <2>4, IdleStep
<1>3. CASE i # irp
  <2>1. /\ UNCHANGED <<irp, outRecs>> /\ missed'
        /\ \A c \in Actors : held'[c] = IF c = "canceller" THEN [irp |-> i, recs |-> <<>>] ELSE held[c]
    BY <1>1, <1>3 DEF CancelPending, TypeOK
  <2>2. \A c \in Actors : held[c] # held'[c] =>
           (held[c].irp = current => held[c].recs = <<>>) /\ (held'[c].irp = current => held'[c].recs = <<>>)
    BY <1>1, <2>1 DEF None
  <2>3. Flight(held, current) = Flight(held', current)
    BY <2>2, FlightSame
  <2>4. InFlight' = InFlight /\ Written' = Written
    BY <1>1, <2>1, <2>3, FlightPrimed, FlightType DEF Written
  <2>5. UNCHANGED Queue
    BY <1>1, <2>4 DEF Queue, Flat, RecsOfBlocks
  <2>6. Queue = <<>> \o Queue /\ <<>> \in Seq(Nat) /\ Queue \in Seq(Nat)
    BY QueueParts, EmptySubSeq
  <2>7. Lossy'
    BY <2>1 DEF Lossy
  <2>. QED
    BY <1>1, <2>5, <2>6, <2>7, LoseStep
<1>. QED
  BY <1>2, <1>3

LEMMA OpenStream ==
  ASSUME TypeOK, Open
  PROVE  [Stream!Next]_(Stream!vars)
<1>. DEFINE f == InFlight \o Written
            b == Flat(blocks)
<1>1. /\ UNCHANGED <<irp, held, current, missed, cleanups, next, read, outRecs>>
      /\ blocks' = <<>> /\ Lossy' = Lossy
  BY DEF Open, BufferClear, irpVars, cntVars, Lossy
<1>2. InFlight' = InFlight /\ Written' = Written /\ Flat(blocks') = <<>>
  BY <1>1, SameFlight, FlatEmpty
<1>3. f \in Seq(Nat) /\ b \in Seq(Nat) /\ Queue = f \o b
  BY QueueParts
<1>4. Queue' = f \o Flat(blocks')
  BY <1>2 DEF Queue, Flat, RecsOfBlocks
<1>. HIDE DEF f, b
<1>5. Queue' = f
  BY <1>2, <1>3, <1>4
<1>. QED
  BY <1>1, <1>3, <1>5, DiscardStep

LEMMA CleanupStream ==
  ASSUME TypeOK, RoomInv, OwnerInv, Cleanup
  PROVE  [Stream!Next]_(Stream!vars)
<1>1. /\ UNCHANGED <<irp, held, outRecs, missed, next, read>>
      /\ blocks' = <<>> /\ current' = NoIrp /\ cleanups' = cleanups + 1 /\ cleanups \in Nat
  BY BoundAssumption DEF Cleanup, BufferClear, TypeOK, BoundAssumption
<1>2. InFlight' = <<>>
  BY <1>1, FlightNone, FlightPrimed
<1>3. Written' = <<>> /\ Flat(blocks') = <<>>
  BY <1>1, FlatEmpty DEF Written, RoomInv, PendingConsistent
<1>4. Queue' = (InFlight' \o Written') \o Flat(blocks')
  BY DEF Queue, Flat, RecsOfBlocks
<1>5. Queue' = <<>> /\ Queue = Queue \o <<>> /\ Queue \in Seq(Nat) /\ <<>> \in Seq(Nat)
  BY <1>2, <1>3, <1>4, QueueParts, EmptySubSeq
<1>6. Lossy'
  BY <1>1 DEF Lossy
<1>. QED
  BY <1>1, <1>5, <1>6, LoseStep

LEMMA OtherStream ==
  ASSUME TypeOK, UNCHANGED lossVars
  PROVE  [Stream!Next]_(Stream!vars)
<1>1. UNCHANGED <<Queue, read, next>> /\ Lossy' = Lossy
  BY SameFlight DEF lossVars, Queue, Flat, RecsOfBlocks, Lossy
<1>. QED
  BY <1>1, IdleStep

(* Every behaviour of the buffer is one of the FIFO that the client is     *)
(* promised, with the queue of FortBufferStream.                           *)
THEOREM BufferIsStream == Spec => StreamSpec
<1>1. Init => Stream!Init
  <2> SUFFICES ASSUME Init PROVE Stream!Init
    OBVIOUS
  <2>1. InFlight = <<>> /\ Written = <<>> /\ Flat(blocks) = <<>>
    BY FlatEmpty DEF Init, InFlight, Written
  <2>2. InFlight \o Written \o Flat(blocks) = <<>>
    BY <2>1
  <2>. QED
    BY <2>2 DEF Init, Stream!Init, Flat, RecsOfBlocks
<1>2. TypeOK /\ RoomInv /\ OwnerInv /\ LossInv /\ [Next]_vars => [Stream!Next]_(Stream!vars)
  <2> SUFFICES ASSUME TypeOK, RoomInv, OwnerInv, LossInv, [Next]_vars
               PROVE  [Stream!Next]_(Stream!vars)
    OBVIOUS
  <2>. DEFINE P == [Stream!Next]_(Stream!vars)
  <2>. HIDE DEF P
  <2>0. "timer" \in Actors /\ Callers \subseteq Actors /\ ClassifySizes \subseteq Sizes /\ TimerSizes \subseteq Sizes
    BY DEF Actors, Sizes
  <2>1. ASSUME NEW c \in Callers, NEW len \in ClassifySizes, ClassifyWrite(c, len)
        PROVE  P
    BY <2>0, <2>1, PrepareStream DEF ClassifyWrite, irpVars, histVars, cntVars, P
  <2>2. ASSUME NEW a \in Actors, Complete(a) PROVE P
    BY <2>2, CompleteStream DEF P
  <2>3. ASSUME TimerBegin PROVE P
    BY <2>3, OtherStream DEF TimerBegin, lossVars, bufVars, irpVars, histVars, cntVars, P
  <2>4. ASSUME NEW len \in TimerSizes, TimerWrite(len) PROVE P
    BY <2>0, <2>4, PrepareStream DEF TimerWrite, irpVars, histVars, cntVars, P
  <2>5. ASSUME TimerEnd PROVE P
    BY <2>5, TimerEndStream DEF P
  <2>6. ASSUME NEW i \in Irps, NEW len \in OutLens, GetLog(i, len) PROVE P
    BY <2>6, GetLogStream DEF P
  <2>7. ASSUME NEW i \in Irps, SetCancelRoutine(i) \/ CancelIo(i) PROVE P
    BY <2>7, OtherStream DEF SetCancelRoutine, CancelIo, lossVars, bufVars, histVars, cntVars, P
  <2>8. ASSUME NEW i \in Irps, CancelPending(i) PROVE P
    BY <2>8, CancelPendingStream DEF P
  <2>9. ASSUME Open PROVE P
    BY <2>9, OpenStream DEF P
  <2>10. ASSUME Cleanup PROVE P
    BY <2>10, CleanupStream DEF P
  <2>11. ASSUME UNCHANGED vars PROVE P
    BY <2>11, OtherStream DEF vars, bufVars, irpVars, histVars, cntVars, lossVars, P
  <2>12. ASSUME Next PROVE P
    <3>1. ASSUME TimerComplete PROVE P
      BY <2>0, <2>2, <3>1, Zenon DEF TimerComplete
    <3>2. Callers \cup {"canceller"} \subseteq Actors
      BY DEF Actors
    <3>. QED
      BY <2>1, <2>2, <2>3, <2>4, <2>5, <2>6, <2>7, <2>8, <2>9, <2>10, <2>12, <3>1, <3>2, Zenon DEF Next
  <2>13. P
    BY <2>11, <2>12, Zenon
  <2>. QED
    BY <2>13 DEF P
<1>. QED
  BY <1>1, <1>2, TypeCorrect, RoomInvariant, OwnerInvariant, LossInvariant, PTL
     DEF Spec, StreamSpec, Stream!Spec

-----------------------------------------------------------------------------
-----------------------------------------------------------------------------
(* The objects of the platform. *)

Flows == {"stream", "datagram", "in_transport", "out_transport"}
Names == Callouts \cup ToSet(Reauths)

(* The names of callouts and of the filters of the reauthorization. *)
LEMMA NameSets ==
  /\ Callouts = {"connect", "accept", "stream", "datagram", "in_transport", "out_transport"}
  /\ ToSet(Reauths) = {"reauth_in", "reauth_out"}
<1>1. /\ DOMAIN CalloutOrder = 1 .. 6 /\ DOMAIN Reauths = 1 .. 2
  BY DEF CalloutOrder, Reauths
<1>2. 1 .. 6 = {1, 2, 3, 4, 5, 6} /\ 1 .. 2 = {1, 2}
  OBVIOUS
<1>. QED
  BY <1>1, <1>2 DEF Callouts, CalloutOrder, Reauths, ToSet

(* An object is of one kind. *)
LEMMA Kinds ==
  /\ Provider # Sublayer /\ Provider \in Objects /\ Sublayer \in Objects
  /\ \A x \in Callouts : <<"callout", x>> \in Objects /\ <<"callout", x>> \notin {Provider, Sublayer}
  /\ \A x \in Names : <<"filter", x>> \in Objects /\ <<"filter", x>> \notin {Provider, Sublayer}
  /\ \A x, y : <<"callout", x>> # <<"filter", y>>
  BY DEF Provider, Sublayer, Objects, Names

(* What refers to an object. *)
LEMMA ReferringValues ==
  /\ Referring[Provider] = {Sublayer} \cup ({"callout"} \X Callouts)
  /\ Referring[Sublayer] = {"filter"} \X Names
  /\ \A x \in Callouts : Referring[<<"callout", x>>] = {<<"filter", x>>}
  /\ \A x \in Names : Referring[<<"filter", x>>] = {}
<1>. DEFINE kind(o) == CASE o = Provider -> {Sublayer} \cup ({"callout"} \X Callouts)
                         [] o = Sublayer -> {"filter"} \X (Callouts \cup ToSet(Reauths))
                         [] o[1] = "callout" -> {<<"filter", o[2]>>}
                         [] o[1] = "filter" -> {}
<1>1. \A o \in Objects : Referring[o] = kind(o)
  BY DEF Referring
<1>2. kind(Provider) = {Sublayer} \cup ({"callout"} \X Callouts)
  BY Kinds DEF Provider, Sublayer
<1>3. kind(Sublayer) = {"filter"} \X Names
  BY Kinds DEF Provider, Sublayer, Names
<1>4. ASSUME NEW x \in Callouts PROVE kind(<<"callout", x>>) = {<<"filter", x>>}
  <2>. DEFINE o == <<"callout", x>>
  <2>1. o # Provider /\ o # Sublayer /\ o[1] = "callout" /\ o[1] # "filter" /\ o[2] = x
    BY DEF Provider, Sublayer
  <2>. HIDE DEF o
  <2>2. kind(o) = {<<"filter", o[2]>>}
    BY <2>1
  <2>. QED
    BY <2>1, <2>2 DEF o
<1>5. ASSUME NEW x \in Names PROVE kind(<<"filter", x>>) = {}
  <2>. DEFINE o == <<"filter", x>>
  <2>1. o # Provider /\ o # Sublayer /\ o[1] # "callout" /\ o[1] = "filter"
    BY DEF Provider, Sublayer
  <2>. HIDE DEF o
  <2>2. kind(o) = {}
    BY <2>1
  <2>. QED
    BY <2>2 DEF o
<1>. HIDE DEF kind
<1>. QED
  BY <1>1, <1>2, <1>3, <1>4, <1>5, Kinds

(* The objects deleted one after the other: nothing that is left refers to *)
(* any of them when its turn comes.                                        *)
LEMMA DeletedInOrder ==
  ASSUME NEW objs, NEW keys \in Seq(Objects),
         \A i \in 1 .. Len(keys) : Referring[keys[i]] \cap objs \subseteq {keys[j] : j \in 1 .. i - 1}
  PROVE  DeleteAll(objs, keys) = objs \ {keys[j] : j \in 1 .. Len(keys)}
<1>. DEFINE turn(f, i) ==
              IF i = 0 THEN objs
              ELSE LET before == f[i - 1] IN
                   IF Referring[keys[i]] \cap before = {} THEN before \ {keys[i]} ELSE before
            Is(f) == f = [i \in 0 .. Len(keys) |-> turn(f, i)]
            left(i) == objs \ {keys[j] : j \in 1 .. i}
            g == CHOOSE f : Is(f)
<1>1. left(0) = objs
  OBVIOUS
<1>2. ASSUME NEW i \in 1 .. Len(keys), NEW f, f[i - 1] = left(i - 1)
      PROVE  turn(f, i) = left(i)
  <2>1. 1 .. i = (1 .. i - 1) \cup {i} /\ i # 0
    OBVIOUS
  <2>2. Referring[keys[i]] \cap left(i - 1) = {}
    OBVIOUS
  <2>3. left(i) = left(i - 1) \ {keys[i]}
    BY <2>1
  <2>. HIDE DEF left
  <2>. QED
    BY <1>2, <2>1, <2>2, <2>3
<1>. HIDE DEF left
<1>3. Is([i \in 0 .. Len(keys) |-> left(i)])
  <2>. DEFINE h == [i \in 0 .. Len(keys) |-> left(i)]
  <2>. HIDE DEF turn
  <2>1. turn(h, 0) = left(0)
    BY <1>1 DEF turn
  <2>2. ASSUME NEW i \in 1 .. Len(keys) PROVE turn(h, i) = left(i)
    <3>1. i - 1 \in 0 .. Len(keys)
      OBVIOUS
    <3>2. h[i - 1] = left(i - 1)
      BY <3>1
    <3>. HIDE DEF h
    <3>. QED
      BY <1>2, <3>2
  <2>3. 0 .. Len(keys) = {0} \cup (1 .. Len(keys))
    OBVIOUS
  <2>4. \A i \in 0 .. Len(keys) : turn(h, i) = left(i)
    BY <2>1, <2>2, <2>3
  <2>. HIDE DEF h
  <2>5. h = [i \in 0 .. Len(keys) |-> turn(h, i)]
    BY <2>4 DEF h
  <2>. QED
    BY <2>5 DEF h
<1>. HIDE DEF turn
<1>4. Is(g)
  BY <1>3
<1>5. DeleteAll(objs, keys) = g[Len(keys)]
  BY DEF DeleteAll, turn
<1>. HIDE DEF g
<1>. DEFINE Good == { n \in Nat : n \in 0 .. Len(keys) => g[n] = left(n) }
<1>6. 0 \in Good
  BY <1>1, <1>4 DEF turn
<1>7. ASSUME NEW n \in Nat, n \in Good PROVE n + 1 \in Good
  <2>1. SUFFICES ASSUME n + 1 \in 0 .. Len(keys) PROVE g[n + 1] = left(n + 1)
    OBVIOUS
  <2>2. n + 1 \in 1 .. Len(keys) /\ (n + 1) - 1 = n /\ n \in 0 .. Len(keys)
    BY <2>1
  <2>3. g[n] = left(n)
    BY <1>7, <2>2
  <2>4. turn(g, n + 1) = left(n + 1)
    BY <1>2, <2>2, <2>3
  <2>. QED
    BY <1>4, <2>1, <2>4
<1>. HIDE DEF Good
<1>8. Len(keys) \in Good /\ Len(keys) \in 0 .. Len(keys)
  BY <1>6, <1>7, NatSetInduction
<1>. QED
  BY <1>5, <1>8 DEF Good, left

-----------------------------------------------------------------------------
(* Lists of keys that are joined. *)

Before(keys, i) == {keys[j] : j \in 1 .. i - 1}

(* Elements of two sequences joined. *)
LEMMA JoinedFacts ==
  ASSUME NEW S, NEW a \in Seq(S), NEW b \in Seq(S)
  PROVE  /\ a \o b \in Seq(S) /\ Len(a \o b) = Len(a) + Len(b)
         /\ \A i \in 1 .. Len(a) : (a \o b)[i] = a[i]
         /\ \A i \in 1 .. Len(b) : (a \o b)[Len(a) + i] = b[i]
<1>1. a \o b \in Seq(S)
  OBVIOUS
<1>2. Len(a \o b) = Len(a) + Len(b)
  OBVIOUS
<1>3. \A i \in 1 .. Len(a) : (a \o b)[i] = a[i]
  OBVIOUS
<1>4. \A i \in 1 .. Len(b) : (a \o b)[Len(a) + i] = b[i]
  OBVIOUS
<1>. QED
  BY <1>1, <1>2, <1>3, <1>4

(* c is a and then b, as functions. *)
IsSum(c, a, m, b, n) ==
  /\ m \in Nat /\ n \in Nat
  /\ \A i \in 1 .. m : c[i] = a[i]
  /\ \A i \in 1 .. n : c[m + i] = b[i]

SumFacts(c, a, m, b, n) ==
  /\ \A i \in 1 .. m : Before(c, i) = Before(a, i)
  /\ \A i \in 1 .. n : Before(c, m + i) = {a[j] : j \in 1 .. m} \cup Before(b, i)
  /\ {c[j] : j \in 1 .. m + n} = {a[j] : j \in 1 .. m} \cup {b[j] : j \in 1 .. n}
  /\ \A k \in 1 .. m + n : k \in 1 .. m \/ \E i \in 1 .. n : k = m + i

(* What comes before a key in c. *)
LEMMA BeforeSum ==
  ASSUME NEW a, NEW b, NEW c, NEW m, NEW n, IsSum(c, a, m, b, n)
  PROVE  SumFacts(c, a, m, b, n)
<1>0. /\ m \in Nat /\ n \in Nat
      /\ \A i \in 1 .. m : c[i] = a[i]
      /\ \A i \in 1 .. n : c[m + i] = b[i]
  BY DEF IsSum
<1>1. ASSUME NEW i \in 1 .. m PROVE Before(c, i) = Before(a, i)
  BY <1>0 DEF Before
<1>2. ASSUME NEW k \in 1 .. m + n PROVE k \in 1 .. m \/ \E i \in 1 .. n : k = m + i
  <2>1. k \in 1 .. m \/ (k - m \in 1 .. n /\ k = m + (k - m))
    BY <1>0
  <2>. QED
    BY <2>1
<1>3. ASSUME NEW i \in 0 .. n PROVE {c[j] : j \in 1 .. m + i} = {a[j] : j \in 1 .. m} \cup {b[j] : j \in 1 .. i}
  <2>1. ASSUME NEW k \in 1 .. m + i PROVE c[k] \in {a[j] : j \in 1 .. m} \cup {b[j] : j \in 1 .. i}
    <3>1. k \in 1 .. m \/ (k - m \in 1 .. i /\ k = m + (k - m))
      BY <1>0
    <3>2. CASE k \in 1 .. m
      BY <1>0, <3>2
    <3>3. CASE k - m \in 1 .. i /\ k = m + (k - m)
      <4>1. c[m + (k - m)] = b[k - m]
        BY <1>0, <3>3
      <4>. QED
        BY <3>3, <4>1
    <3>. QED
      BY <3>1, <3>2, <3>3
  <2>2. ASSUME NEW k \in 1 .. m PROVE a[k] \in {c[j] : j \in 1 .. m + i}
    <3>1. k \in 1 .. m + i
      BY <1>0
    <3>. QED
      BY <1>0, <3>1
  <2>3. ASSUME NEW k \in 1 .. i PROVE b[k] \in {c[j] : j \in 1 .. m + i}
    <3>1. m + k \in 1 .. m + i /\ k \in 1 .. n
      BY <1>0
    <3>. QED
      BY <1>0, <3>1
  <2>. QED
    BY <2>1, <2>2, <2>3
<1>4. ASSUME NEW i \in 1 .. n PROVE Before(c, m + i) = {a[j] : j \in 1 .. m} \cup Before(b, i)
  <2>1. i - 1 \in 0 .. n /\ (m + i) - 1 = m + (i - 1)
    BY <1>0
  <2>. QED
    BY <1>0, <1>3, <2>1 DEF Before
<1>5. n \in 0 .. n
  BY <1>0
<1>. QED
  BY <1>0, <1>1, <1>2, <1>3, <1>4, <1>5 DEF SumFacts

(* The elements of a sequence by their places. *)
LEMMA RangeOf ==
  ASSUME NEW S, NEW a \in Seq(S)
  PROVE ToSet(a) = {a[j] : j \in 1 .. Len(a)}
  BY DEF ToSet

InOrder(objs, keys) == \A i \in 1 .. Len(keys) : Referring[keys[i]] \cap objs \subseteq Before(keys, i)

(* Two lists that can be deleted one after the other. *)
LEMMA OrderJoin ==
  ASSUME NEW objs, NEW a \in Seq(Objects), NEW b \in Seq(Objects),
         InOrder(objs, a), InOrder(objs \ ToSet(a), b)
  PROVE  InOrder(objs, a \o b) /\ ToSet(a \o b) = ToSet(a) \cup ToSet(b)
<1>. DEFINE c == Joined(a, b) m == Len(a) n == Len(b)
<1>1. m \in Nat /\ n \in Nat
  OBVIOUS
<1>2. Len(c) = m + n
  BY JoinedFacts DEF Joined
<1>3. \A i \in 1 .. m : c[i] = a[i]
  BY JoinedFacts DEF Joined
<1>4. \A i \in 1 .. n : c[m + i] = b[i]
  BY JoinedFacts DEF Joined
<1>5. c \in Seq(Objects)
  BY JoinedFacts DEF Joined
<1>6. ToSet(a) = {a[j] : j \in 1 .. m} /\ ToSet(b) = {b[j] : j \in 1 .. n}
  BY RangeOf
<1>7. ToSet(c) = {c[j] : j \in 1 .. m + n}
  BY <1>2, <1>5, RangeOf
<1>. HIDE DEF c, m, n
<1>8. /\ \A i \in 1 .. m : Before(c, i) = Before(a, i)
      /\ \A i \in 1 .. n : Before(c, m + i) = {a[j] : j \in 1 .. m} \cup Before(b, i)
      /\ {c[j] : j \in 1 .. m + n} = {a[j] : j \in 1 .. m} \cup {b[j] : j \in 1 .. n}
      /\ \A k \in 1 .. m + n : k \in 1 .. m \/ \E i \in 1 .. n : k = m + i
  <2>1. IsSum(c, a, m, b, n)
    BY <1>1, <1>3, <1>4 DEF IsSum
  <2>2. SumFacts(c, a, m, b, n)
    BY <2>1, BeforeSum, Zenon
  <2>. QED
    BY <2>2, Zenon DEF SumFacts
<1>9. ASSUME NEW k \in 1 .. m + n PROVE Referring[c[k]] \cap objs \subseteq Before(c, k)
  <2>1. CASE k \in 1 .. m
    BY <1>3, <1>8, <2>1 DEF InOrder, m
  <2>2. ASSUME NEW i \in 1 .. n, k = m + i PROVE Referring[c[k]] \cap objs \subseteq Before(c, k)
    <3>1. Referring[b[i]] \cap (objs \ ToSet(a)) \subseteq Before(b, i)
      BY DEF InOrder, n
    <3>. QED
      BY <1>4, <1>6, <1>8, <2>2, <3>1
  <2>. QED
    BY <1>8, <2>1, <2>2
<1>10. InOrder(objs, c)
  BY <1>2, <1>9 DEF InOrder
<1>. QED
  BY <1>6, <1>7, <1>8, <1>10 DEF c, Joined

(* The elements of two sequences joined. *)
LEMMA JoinRange ==
  ASSUME NEW S, NEW a \in Seq(S), NEW b \in Seq(S)
  PROVE  ToSet(a \o b) = ToSet(a) \cup ToSet(b)
<1>. DEFINE c == Joined(a, b) m == Len(a) n == Len(b)
<1>1. m \in Nat /\ n \in Nat
  OBVIOUS
<1>2. Len(c) = m + n
  BY JoinedFacts DEF Joined
<1>3. \A i \in 1 .. m : c[i] = a[i]
  BY JoinedFacts DEF Joined
<1>4. \A i \in 1 .. n : c[m + i] = b[i]
  BY JoinedFacts DEF Joined
<1>5. c \in Seq(S)
  BY JoinedFacts DEF Joined
<1>6. ToSet(a) = {a[j] : j \in 1 .. m} /\ ToSet(b) = {b[j] : j \in 1 .. n}
  BY RangeOf
<1>7. ToSet(c) = {c[j] : j \in 1 .. m + n}
  BY <1>2, <1>5, RangeOf
<1>. HIDE DEF c, m, n
<1>8. SumFacts(c, a, m, b, n)
  <2>1. IsSum(c, a, m, b, n)
    BY <1>1, <1>3, <1>4 DEF IsSum
  <2>. QED
    BY <2>1, BeforeSum, Zenon
<1>9. {c[j] : j \in 1 .. m + n} = {a[j] : j \in 1 .. m} \cup {b[j] : j \in 1 .. n}
  BY <1>8, Zenon DEF SumFacts
<1>. QED
  BY <1>6, <1>7, <1>9 DEF c, Joined

(* The keys are these objects, in an order in which they can be deleted. *)
Deletes(objs, keys, set) == keys \in Seq(Objects) /\ ToSet(keys) = set /\ InOrder(objs, keys)

(* The same, with the sets that the lists stand for. *)
LEMMA DeletesJoined ==
  ASSUME NEW objs, NEW a, NEW b, NEW X, NEW Y, Deletes(objs, a, X), Deletes(objs \ X, b, Y)
  PROVE  Deletes(objs, Joined(a, b), X \cup Y)
<1>1. a \in Seq(Objects) /\ ToSet(a) = X /\ InOrder(objs, a)
  BY DEF Deletes
<1>2. b \in Seq(Objects) /\ ToSet(b) = Y /\ InOrder(objs \ ToSet(a), b)
  BY <1>1 DEF Deletes
<1>3. InOrder(objs, Joined(a, b))
  BY <1>1, <1>2, OrderJoin, Zenon DEF Joined
<1>4. ToSet(Joined(a, b)) = ToSet(a) \cup ToSet(b)
  BY <1>1, <1>2, JoinRange, ZenonT(60) DEF Joined
<1>5. Joined(a, b) \in Seq(Objects)
  BY <1>1, <1>2, JoinedType
<1>. QED
  BY <1>1, <1>2, <1>3, <1>4, <1>5, Zenon DEF Deletes

(* Keys in such an order are all deleted. *)
LEMMA InOrderDeleted ==
  ASSUME NEW objs, NEW keys \in Seq(Objects), InOrder(objs, keys)
  PROVE  DeleteAll(objs, keys) = objs \ ToSet(keys)
<1>1. ToSet(keys) = {keys[j] : j \in 1 .. Len(keys)}
  BY RangeOf
<1>. QED
  BY <1>1, DeletedInOrder DEF InOrder, Before

(* The kind with each of the names. *)
Paired(f, g, n, kind) == \A i \in 1 .. n : f[i] = <<kind, g[i]>>
Values(f, n) == {f[i] : i \in 1 .. n}

LEMMA PairsWith ==
  ASSUME NEW f, NEW g, NEW n, NEW kind, Paired(f, g, n, kind)
  PROVE  Values(f, n) = {kind} \X Values(g, n)
  BY DEF Paired, Values

(* The keys of one kind. *)
LEMMA KeysSet ==
  ASSUME NEW kind, NEW names \in Seq(Names), \A x \in ToSet(names) : <<kind, x>> \in Objects
  PROVE  /\ Keys(kind, names) \in Seq(Objects) /\ Len(Keys(kind, names)) = Len(names)
         /\ \A i \in 1 .. Len(names) : Keys(kind, names)[i] = <<kind, names[i]>>
         /\ ToSet(Keys(kind, names)) = {kind} \X ToSet(names)
<1>. DEFINE keys == Keys(kind, names)
<1>1. DOMAIN names = 1 .. Len(names) /\ Len(names) \in Nat
  OBVIOUS
<1>2. \A i \in 1 .. Len(names) : names[i] \in ToSet(names)
  BY <1>1 DEF ToSet
<1>3. keys = [i \in 1 .. Len(names) |-> <<kind, names[i]>>]
  BY <1>1 DEF Keys
<1>4. keys \in Seq(Objects)
  <2>1. \A i \in 1 .. Len(names) : <<kind, names[i]>> \in Objects
    BY <1>2
  <2>. HIDE DEF keys
  <2>. QED
    BY <1>1, <1>3, <2>1, IsASeq
<1>. HIDE DEF keys
<1>5. Len(keys) = Len(names) /\ \A i \in 1 .. Len(names) : keys[i] = <<kind, names[i]>>
  BY <1>1, <1>3
<1>6. ToSet(keys) = {keys[i] : i \in 1 .. Len(names)} /\ ToSet(names) = {names[i] : i \in 1 .. Len(names)}
  BY <1>4, <1>5, RangeOf
<1>7. ToSet(keys) = {kind} \X ToSet(names)
  <2>1. Paired(keys, names, Len(names), kind)
    BY <1>5, Zenon DEF Paired
  <2>2. Values(keys, Len(names)) = {kind} \X Values(names, Len(names))
    BY <2>1, PairsWith
  <2>. QED
    BY <1>6, <2>2, Zenon DEF Values
<1>. QED
  BY <1>4, <1>5, <1>7 DEF keys

(* A list of one key. *)
LEMMA OneKey ==
  ASSUME NEW S, NEW x \in S
  PROVE  <<x>> \in Seq(S) /\ ToSet(<<x>>) = {x} /\ Len(<<x>>) = 1 /\ <<x>>[1] = x
  BY DEF ToSet

(* Filters are referred to by nothing. *)
LEMMA FiltersInOrder ==
  ASSUME NEW objs, NEW names \in Seq(Names)
  PROVE  InOrder(objs, Keys("filter", names))
<1>1. \A i \in 1 .. Len(names) : names[i] \in Names
  OBVIOUS
<1>2. ToSet(names) \subseteq Names
  BY DEF ToSet
<1>3. Len(Keys("filter", names)) = Len(names)
  BY <1>2, KeysSet, Kinds
<1>4. \A i \in 1 .. Len(names) : Keys("filter", names)[i] = <<"filter", names[i]>>
  BY <1>2, KeysSet, Kinds
<1>. QED
  BY <1>1, <1>3, <1>4, ReferringValues DEF InOrder

(* An object that nothing refers to. *)
LEMMA OneInOrder ==
  ASSUME NEW objs, NEW x \in Objects, Referring[x] \cap objs = {}
  PROVE  InOrder(objs, <<x>>)
  BY OneKey DEF InOrder

(* Callouts can be deleted when there are no filters. *)
LEMMA CalloutsInOrder ==
  ASSUME NEW objs, NEW names \in Seq(Callouts), objs \cap ({"filter"} \X Names) = {}
  PROVE  InOrder(objs, Keys("callout", names))
<1>1. \A i \in 1 .. Len(names) : names[i] \in Callouts
  OBVIOUS
<1>2. ToSet(names) \subseteq Callouts /\ Callouts \subseteq Names
  BY DEF ToSet, Names
<1>0. names \in Seq(Names)
  BY <1>2
<1>3. Len(Keys("callout", names)) = Len(names)
  BY <1>0, <1>2, KeysSet, Kinds
<1>4. \A i \in 1 .. Len(names) : Keys("callout", names)[i] = <<"callout", names[i]>>
  BY <1>0, <1>2, KeysSet, Kinds
<1>5. \A x \in Callouts : Referring[<<"callout", x>>] \cap objs = {}
  BY <1>2, ReferringValues
<1>. QED
  BY <1>1, <1>3, <1>4, <1>5 DEF InOrder

(* The names as sequences. *)
LEMMA NameSeqs ==
  /\ CalloutOrder \in Seq(Callouts) /\ CalloutOrder \in Seq(Names) /\ Reauths \in Seq(Names)
  /\ ToSet(CalloutOrder) = Callouts
  /\ CalloutOrder \o Reauths \in Seq(Names) /\ ToSet(CalloutOrder \o Reauths) = Names
<1>1. DOMAIN CalloutOrder = 1 .. 6 /\ DOMAIN Reauths = 1 .. 2
  BY DEF CalloutOrder, Reauths
<1>2. \A i \in 1 .. 6 : CalloutOrder[i] \in Callouts
  BY <1>1 DEF Callouts, ToSet
<1>3. \A i \in 1 .. 2 : Reauths[i] \in ToSet(Reauths)
  BY <1>1 DEF ToSet
<1>4. CalloutOrder = [i \in 1 .. 6 |-> CalloutOrder[i]] /\ Reauths = [i \in 1 .. 2 |-> Reauths[i]]
  BY DEF CalloutOrder, Reauths
<1>5. [i \in 1 .. 6 |-> CalloutOrder[i]] \in Seq(Callouts)
  BY <1>2, IsASeq
<1>6. [i \in 1 .. 2 |-> Reauths[i]] \in Seq(ToSet(Reauths))
  BY <1>3, IsASeq
<1>7. CalloutOrder \in Seq(Callouts) /\ Reauths \in Seq(ToSet(Reauths))
  BY <1>4, <1>5, <1>6
<1>8. CalloutOrder \in Seq(Names) /\ Reauths \in Seq(Names)
  BY <1>7 DEF Names
<1>9. ToSet(CalloutOrder) = Callouts
  BY DEF Callouts
<1>10. ToSet(CalloutOrder \o Reauths) = ToSet(CalloutOrder) \cup ToSet(Reauths)
  BY <1>8, JoinRange
<1>11. CalloutOrder \o Reauths \in Seq(Names)
  BY <1>8, JoinedFacts
<1>. QED
  BY <1>7, <1>8, <1>9, <1>10, <1>11 DEF Names

(* Everything is deleted, whatever there is. *)
LEMMA UnregisterClears ==
  ASSUME NEW objs, objs \subseteq Objects
  PROVE  Unregister(objs) = {}
<1>. DEFINE F == {"filter"} \X Names
            C == {"callout"} \X Callouts
            f == Keys("filter", CalloutOrder \o Reauths)
            c == Keys("callout", CalloutOrder)
            u == Joined(f, <<Sublayer>>)
            v == Joined(u, c)
            w == Joined(v, <<Provider>>)
<1>1. Deletes(objs, f, F)
  BY NameSeqs, KeysSet, Kinds, FiltersInOrder DEF Deletes
<1>2. Deletes(objs \ F, <<Sublayer>>, {Sublayer})
  BY Kinds, OneKey, ReferringValues, OneInOrder DEF Deletes
<1>3. Deletes(objs \ (F \cup {Sublayer}), c, C)
  <2>1. c \in Seq(Objects) /\ ToSet(c) = C
    BY NameSeqs, KeysSet, Kinds
  <2>2. InOrder(objs \ (F \cup {Sublayer}), c)
    BY NameSeqs, CalloutsInOrder
  <2>. QED
    BY <2>1, <2>2 DEF Deletes
<1>4. Deletes(objs \ ((F \cup {Sublayer}) \cup C), <<Provider>>, {Provider})
  BY Kinds, OneKey, ReferringValues, OneInOrder DEF Deletes
<1>5. UnregisterOrder = w
  BY Zenon DEF UnregisterOrder, Joined
<1>6. Objects = ((F \cup {Sublayer}) \cup C) \cup {Provider}
  BY DEF Objects, Names
<1>. HIDE DEF f, c, F, C
<1>7. Deletes(objs, u, F \cup {Sublayer})
  BY <1>1, <1>2, DeletesJoined
<1>. HIDE DEF u
<1>8. Deletes(objs, v, (F \cup {Sublayer}) \cup C)
  BY <1>3, <1>7, DeletesJoined
<1>. HIDE DEF v
<1>9. Deletes(objs, w, ((F \cup {Sublayer}) \cup C) \cup {Provider})
  BY <1>4, <1>8, DeletesJoined
<1>. HIDE DEF w
<1>. QED
  BY <1>5, <1>6, <1>9, InOrderDeleted DEF Deletes, Unregister

-----------------------------------------------------------------------------
(* What is added. *)

(* What an object refers to. *)
LEMMA RefersValues ==
  /\ Refers[Provider] = {} /\ Refers[Sublayer] = {Provider}
  /\ \A x \in Callouts : Refers[<<"callout", x>>] = {Provider}
  /\ \A x \in Names : Refers[<<"filter", x>>] \subseteq {Sublayer, <<"callout", x>>}
  /\ \A x \in Names \ Callouts : Refers[<<"filter", x>>] \subseteq {Sublayer}
<1>1. \A o \in Objects : Refers[o] = {p \in Objects : o \in Referring[p]}
  BY DEF Refers
<1>2. Objects = ({Provider, Sublayer} \cup ({"callout"} \X Callouts)) \cup ({"filter"} \X Names)
  BY DEF Objects, Names
<1>3. /\ Referring[Provider] = {Sublayer} \cup ({"callout"} \X Callouts)
      /\ Referring[Sublayer] = {"filter"} \X Names
      /\ \A x \in Callouts : Referring[<<"callout", x>>] = {<<"filter", x>>}
      /\ \A x \in Names : Referring[<<"filter", x>>] = {}
  BY ReferringValues
<1>4. \A p \in Objects : p \in {Provider, Sublayer} \/ (\E x \in Callouts : p = <<"callout", x>>) \/ (\E x \in Names : p = <<"filter", x>>)
  BY <1>2
<1>5. Refers[Provider] = {}
  <2>1. ASSUME NEW p \in Objects PROVE Provider \notin Referring[p]
    <3>1. CASE p = Provider
      BY <1>3, <3>1, Kinds
    <3>2. CASE p = Sublayer
      BY <1>3, <3>2, Kinds
    <3>3. CASE \E x \in Callouts : p = <<"callout", x>>
      BY <1>3, <3>3, Kinds DEF Names
    <3>4. CASE \E x \in Names : p = <<"filter", x>>
      BY <1>3, <3>4
    <3>. QED
      BY <1>4, <3>1, <3>2, <3>3, <3>4
  <2>. QED
    BY <1>1, <2>1, Kinds
<1>6. Refers[Sublayer] = {Provider}
  <2>1. Sublayer \in Referring[Provider]
    BY <1>3
  <2>2. ASSUME NEW p \in Objects, p # Provider PROVE Sublayer \notin Referring[p]
    <3>2. CASE p = Sublayer
      BY <1>3, <3>2, Kinds
    <3>3. CASE \E x \in Callouts : p = <<"callout", x>>
      BY <1>3, <3>3, Kinds DEF Names
    <3>4. CASE \E x \in Names : p = <<"filter", x>>
      BY <1>3, <3>4
    <3>. QED
      BY <1>4, <2>2, <3>2, <3>3, <3>4
  <2>. QED
    BY <1>1, <2>1, <2>2, Kinds
<1>7. ASSUME NEW x \in Callouts PROVE Refers[<<"callout", x>>] = {Provider}
  BY <1>1, <1>3, <1>4, Kinds
<1>8. ASSUME NEW x \in Names PROVE Refers[<<"filter", x>>] \subseteq {Sublayer, <<"callout", x>>}
  BY <1>1, <1>3, <1>4, Kinds
<1>9. ASSUME NEW x \in Names \ Callouts PROVE Refers[<<"filter", x>>] \subseteq {Sublayer}
  BY <1>1, <1>3, <1>4, Kinds
<1>. QED
  BY <1>5, <1>6, <1>7, <1>8, <1>9

AddOk(objs, keys) ==
  \A i \in 1 .. Len(keys) :
    keys[i] \notin objs \cup Before(keys, i) /\ Refers[keys[i]] \subseteq objs \cup Before(keys, i)

(* The keys are these objects, in an order in which they can be added. *)
Adds(objs, keys, set) == keys \in Seq(Objects) /\ ToSet(keys) = set /\ AddOk(objs, keys)

(* Keys in such an order are all added. *)
LEMMA AddsAll ==
  ASSUME NEW objs, NEW keys, NEW set, Adds(objs, keys, set)
  PROVE  AddAll(objs, keys).objs = objs \cup set /\ AddAll(objs, keys).ok
<1>1. keys \in Seq(Objects) /\ ToSet(keys) = set /\ AddOk(objs, keys)
  BY DEF Adds
<1>2. DOMAIN keys = 1 .. Len(keys)
  BY <1>1
<1>. QED
  BY <1>1, <1>2 DEF AddAll, AddOk, Before

(* Two lists that can be added one after the other. *)
LEMMA AddsJoined ==
  ASSUME NEW objs, NEW a, NEW b, NEW X, NEW Y, Adds(objs, a, X), Adds(objs \cup X, b, Y)
  PROVE  Adds(objs, Joined(a, b), X \cup Y)
<1>. DEFINE c == Joined(a, b) m == Len(a) n == Len(b)
<1>0. a \in Seq(Objects) /\ ToSet(a) = X /\ AddOk(objs, a) /\ b \in Seq(Objects) /\ ToSet(b) = Y /\ AddOk(objs \cup X, b)
  BY DEF Adds
<1>1. m \in Nat /\ n \in Nat
  BY <1>0
<1>2. Len(c) = m + n
  BY <1>0, JoinedFacts DEF Joined
<1>3. \A i \in 1 .. m : c[i] = a[i]
  BY <1>0, JoinedFacts DEF Joined
<1>4. \A i \in 1 .. n : c[m + i] = b[i]
  BY <1>0, JoinedFacts DEF Joined
<1>5. c \in Seq(Objects)
  BY <1>0, JoinedFacts DEF Joined
<1>6. X = {a[j] : j \in 1 .. m}
  BY <1>0, RangeOf
<1>7. ToSet(c) = X \cup Y
  BY <1>0, JoinRange, ZenonT(60) DEF Joined
<1>. HIDE DEF c, m, n
<1>8. SumFacts(c, a, m, b, n)
  <2>1. IsSum(c, a, m, b, n)
    BY <1>1, <1>3, <1>4 DEF IsSum
  <2>. QED
    BY <2>1, BeforeSum, Zenon
<1>9. /\ \A i \in 1 .. m : Before(c, i) = Before(a, i)
      /\ \A i \in 1 .. n : Before(c, m + i) = {a[j] : j \in 1 .. m} \cup Before(b, i)
      /\ \A k \in 1 .. m + n : k \in 1 .. m \/ \E i \in 1 .. n : k = m + i
  BY <1>8, Zenon DEF SumFacts
<1>10. ASSUME NEW k \in 1 .. m + n
       PROVE  c[k] \notin objs \cup Before(c, k) /\ Refers[c[k]] \subseteq objs \cup Before(c, k)
  <2>1. CASE k \in 1 .. m
    BY <1>0, <1>3, <1>9, <2>1 DEF AddOk, m
  <2>2. ASSUME NEW i \in 1 .. n, k = m + i
        PROVE  c[k] \notin objs \cup Before(c, k) /\ Refers[c[k]] \subseteq objs \cup Before(c, k)
    <3>1. b[i] \notin (objs \cup X) \cup Before(b, i) /\ Refers[b[i]] \subseteq (objs \cup X) \cup Before(b, i)
      BY <1>0 DEF AddOk, n
    <3>. QED
      BY <1>4, <1>6, <1>9, <2>2, <3>1
  <2>. QED
    BY <1>9, <2>1, <2>2
<1>11. AddOk(objs, c)
  BY <1>2, <1>10 DEF AddOk
<1>. QED
  BY <1>5, <1>7, <1>11 DEF c, Adds

(* An object whose references are there. *)
LEMMA OneAdded ==
  ASSUME NEW objs, NEW x \in Objects, x \notin objs, Refers[x] \subseteq objs
  PROVE  Adds(objs, <<x>>, {x})
<1>1. <<x>> \in Seq(Objects) /\ ToSet(<<x>>) = {x} /\ Len(<<x>>) = 1 /\ <<x>>[1] = x
  BY OneKey
<1>2. 1 .. Len(<<x>>) = {1} /\ Before(<<x>>, 1) = {}
  BY <1>1 DEF Before
<1>. QED
  BY <1>1, <1>2 DEF Adds, AddOk

(* Objects of one kind do not refer to each other. *)
LEMMA KeysAdded ==
  ASSUME NEW objs, NEW kind, NEW names \in Seq(Names),
         \A x \in ToSet(names) : <<kind, x>> \in Objects \ objs /\ Refers[<<kind, x>>] \subseteq objs,
         \A i, j \in 1 .. Len(names) : names[i] = names[j] => i = j
  PROVE  Adds(objs, Keys(kind, names), {kind} \X ToSet(names))
<1>. DEFINE keys == Keys(kind, names) n == Len(names)
<1>1. keys \in Seq(Objects) /\ Len(keys) = n
  BY KeysSet
<1>2. \A i \in 1 .. n : keys[i] = <<kind, names[i]>>
  BY KeysSet
<1>3. ToSet(keys) = {kind} \X ToSet(names)
  BY KeysSet
<1>4. n \in Nat /\ \A i \in 1 .. n : names[i] \in ToSet(names)
  BY DEF ToSet
<1>. HIDE DEF keys, n
<1>5. ASSUME NEW i \in 1 .. n
      PROVE  keys[i] \notin objs \cup Before(keys, i) /\ Refers[keys[i]] \subseteq objs \cup Before(keys, i)
  <2>1. keys[i] \in Objects \ objs /\ Refers[keys[i]] \subseteq objs
    <3>1. PICK x \in ToSet(names) : x = names[i]
      BY <1>4
    <3>2. <<kind, x>> \in Objects \ objs /\ Refers[<<kind, x>>] \subseteq objs
      BY <3>1
    <3>. QED
      BY <1>2, <3>1, <3>2
  <2>2. ASSUME NEW j \in 1 .. i - 1 PROVE keys[j] # keys[i]
    <3>1. j \in 1 .. n /\ j # i
      BY <1>4
    <3>2. names[j] # names[i]
      BY <3>1 DEF n
    <3>. QED
      BY <1>2, <3>1, <3>2
  <2>. QED
    BY <2>1, <2>2 DEF Before
<1>6. AddOk(objs, keys)
  BY <1>1, <1>5 DEF AddOk
<1>. QED
  BY <1>1, <1>3, <1>6 DEF Adds, keys

(* What is always there while the driver filters. *)
Base == (({Provider} \cup ({"callout"} \X Callouts)) \cup {Sublayer}) \cup ({"filter"} \X {"connect", "accept"})

(* A list of two names. *)
LEMMA TwoNames ==
  ASSUME NEW x \in Names, NEW y \in Names, x # y
  PROVE  /\ <<x, y>> \in Seq(Names) /\ ToSet(<<x, y>>) = {x, y}
         /\ \A i, j \in 1 .. Len(<<x, y>>) : <<x, y>>[i] = <<x, y>>[j] => i = j
<1>1. <<x, y>> \in Seq(Names) /\ Len(<<x, y>>) = 2 /\ DOMAIN <<x, y>> = {1, 2}
  OBVIOUS
<1>2. 1 .. 2 = {1, 2}
  OBVIOUS
<1>. QED
  BY <1>1, <1>2 DEF ToSet

(* The names, and that no callout is listed twice. *)
LEMMA AllNames ==
  /\ {"connect", "accept", "stream", "datagram", "in_transport", "out_transport", "reauth_in", "reauth_out"} = Names
  /\ Names \ Callouts = {"reauth_in", "reauth_out"}
  /\ \A i, j \in 1 .. Len(CalloutOrder) : CalloutOrder[i] = CalloutOrder[j] => i = j
<1>1. Len(CalloutOrder) = 6 /\ 1 .. 6 = {1, 2, 3, 4, 5, 6}
  BY DEF CalloutOrder
<1>2. \A i, j \in 1 .. Len(CalloutOrder) : CalloutOrder[i] = CalloutOrder[j] => i = j
  BY <1>1 DEF CalloutOrder
<1>. QED
  BY <1>2, NameSets DEF Names

(* fort_prov_register_callouts leaves what the driver filters by. *)
LEMMA RegisterAdds ==
  /\ \A objs : Register(objs).objs = objs \cup Base
  /\ Register({}).objs = Base /\ Register({}).ok
<1>. DEFINE C == {"callout"} \X Callouts
            F == {"filter"} \X {"connect", "accept"}
            c == Keys("callout", CalloutOrder)
            f == Keys("filter", <<"connect", "accept">>)
            u == Joined(<<Provider>>, c)
            v == Joined(u, <<Sublayer>>)
            w == Joined(v, f)
<1>1. Adds({}, <<Provider>>, {Provider})
  BY Kinds, RefersValues, OneAdded
<1>2. Adds({} \cup {Provider}, c, C)
  <2>1. \A x \in Callouts : <<"callout", x>> \in Objects \ {Provider} /\ Refers[<<"callout", x>>] \subseteq {Provider}
    BY Kinds, RefersValues
  <2>2. Adds({Provider}, c, {"callout"} \X ToSet(CalloutOrder))
    BY <2>1, NameSeqs, AllNames, KeysAdded
  <2>. QED
    BY <2>2, NameSeqs
<1>3. Adds({} \cup ({Provider} \cup C), <<Sublayer>>, {Sublayer})
  BY Kinds, RefersValues, OneAdded
<1>4. Adds({} \cup (({Provider} \cup C) \cup {Sublayer}), f, F)
  <2>. DEFINE o == {} \cup (({Provider} \cup C) \cup {Sublayer})
  <2>1. \A x \in {"connect", "accept"} : <<"filter", x>> \in Objects \ o /\ Refers[<<"filter", x>>] \subseteq o
    <3>1. {"connect", "accept"} \subseteq Callouts /\ Callouts \subseteq Names
      BY NameSets DEF Names
    <3>2. ASSUME NEW x \in {"connect", "accept"}
          PROVE  <<"filter", x>> \in Objects \ o /\ Refers[<<"filter", x>>] \subseteq o
      <4>1. <<"filter", x>> \in Objects \ o
        BY <3>1, Kinds
      <4>2. Refers[<<"filter", x>>] \subseteq {Sublayer, <<"callout", x>>}
        BY <3>1, RefersValues
      <4>. QED
        BY <3>1, <4>1, <4>2
    <3>. QED
      BY <3>2
  <2>. HIDE DEF o
  <2>2. "connect" \in Names /\ "accept" \in Names /\ "connect" # "accept"
    BY AllNames
  <2>3. <<"connect", "accept">> \in Seq(Names) /\ ToSet(<<"connect", "accept">>) = {"connect", "accept"}
        /\ \A i, j \in 1 .. Len(<<"connect", "accept">>) : <<"connect", "accept">>[i] = <<"connect", "accept">>[j] => i = j
    BY <2>2, TwoNames
  <2>4. Adds(o, f, {"filter"} \X ToSet(<<"connect", "accept">>))
    BY <2>1, <2>3, KeysAdded
  <2>. QED
    BY <2>3, <2>4 DEF o
<1>5. RegisterOrder = w
  BY Zenon DEF RegisterOrder, Joined
<1>. HIDE DEF c, C, f, F
<1>6. Adds({}, u, {Provider} \cup C)
  BY <1>1, <1>2, AddsJoined
<1>. HIDE DEF u
<1>7. Adds({}, v, ({Provider} \cup C) \cup {Sublayer})
  BY <1>3, <1>6, AddsJoined
<1>. HIDE DEF v
<1>8. Adds({}, w, (({Provider} \cup C) \cup {Sublayer}) \cup F)
  BY <1>4, <1>7, AddsJoined
<1>. HIDE DEF w
<1>9. Adds({}, RegisterOrder, Base)
  BY <1>5, <1>8 DEF Base, C, F
<1>10. ToSet(RegisterOrder) = Base
  BY <1>9 DEF Adds
<1>11. \A objs : Register(objs).objs = objs \cup Base
  BY <1>10 DEF Register, AddAll
<1>12. Register({}).ok
  BY <1>9, AddsAll DEF Register
<1>13. Register({}).objs = Base
  BY <1>10 DEF Register, AddAll
<1>. QED
  BY <1>11, <1>12, <1>13

-----------------------------------------------------------------------------
(* Filters of flows and of the reauthorization. *)

FlowSet == {"filter"} \X Flows
ReauthSet == {"filter"} \X {"reauth_in", "reauth_out"}

(* The keys of two filters. *)
LEMMA TwoFilters ==
  ASSUME NEW x \in Names, NEW y \in Names, x # y
  PROVE  /\ Keys("filter", <<x, y>>) \in Seq(Objects)
         /\ ToSet(Keys("filter", <<x, y>>)) = {"filter"} \X {x, y}
<1>. DEFINE names == <<x, y>>
<1>1. names \in Seq(Names) /\ ToSet(names) = {x, y}
  BY TwoNames
<1>. HIDE DEF names
<1>2. \A z \in ToSet(names) : <<"filter", z>> \in Objects
  BY <1>1, Kinds
<1>3. Keys("filter", names) \in Seq(Objects) /\ ToSet(Keys("filter", names)) = {"filter"} \X ToSet(names)
  BY <1>1, <1>2, KeysSet
<1>. QED
  BY <1>1, <1>3 DEF names

(* The lists of fort_prov_flow_register and _unregister. *)
LEMMA FlowLists ==
  /\ FlowFilters \in Seq(Objects) /\ ToSet(FlowFilters) = {"filter"} \X {"stream", "datagram"}
  /\ TransportFilters \in Seq(Objects)
  /\ ToSet(TransportFilters) = {"filter"} \X {"in_transport", "out_transport"}
  /\ \A objs : InOrder(objs, FlowFilters) /\ InOrder(objs, TransportFilters)
<1>1. {"stream", "datagram", "in_transport", "out_transport"} \subseteq Names
  BY AllNames
<1>2. /\ <<"stream", "datagram">> \in Seq(Names)
      /\ ToSet(<<"stream", "datagram">>) = {"stream", "datagram"}
  BY <1>1, TwoNames
<1>3. /\ <<"in_transport", "out_transport">> \in Seq(Names)
      /\ ToSet(<<"in_transport", "out_transport">>) = {"in_transport", "out_transport"}
  BY <1>1, TwoNames
<1>4. /\ FlowFilters \in Seq(Objects) /\ ToSet(FlowFilters) = {"filter"} \X {"stream", "datagram"}
  BY <1>1, TwoFilters DEF FlowFilters
<1>5. /\ TransportFilters \in Seq(Objects)
      /\ ToSet(TransportFilters) = {"filter"} \X {"in_transport", "out_transport"}
  BY <1>1, TwoFilters DEF TransportFilters
<1>6. \A objs : InOrder(objs, FlowFilters)
  BY <1>2, FiltersInOrder DEF FlowFilters
<1>7. \A objs : InOrder(objs, TransportFilters)
  BY <1>3, FiltersInOrder DEF TransportFilters
<1>. QED
  BY <1>4, <1>5, <1>6, <1>7

(* fort_prov_flow_unregister. *)
LEMMA FlowUnregistered ==
  ASSUME NEW objs
  PROVE  FlowUnregister(objs) = objs \ FlowSet
<1>. DEFINE X == {"filter"} \X {"stream", "datagram"}
            Y == {"filter"} \X {"in_transport", "out_transport"}
<1>1. Deletes(objs, FlowFilters, X) /\ Deletes(objs \ X, TransportFilters, Y)
  BY FlowLists DEF Deletes
<1>2. X \cup Y = FlowSet
  BY DEF FlowSet, Flows
<1>. HIDE DEF X, Y
<1>3. Deletes(objs, Joined(FlowFilters, TransportFilters), X \cup Y)
  BY <1>1, DeletesJoined
<1>4. DeleteAll(objs, Joined(FlowFilters, TransportFilters)) = objs \ FlowSet
  BY <1>2, <1>3, InOrderDeleted DEF Deletes
<1>. QED
  BY <1>4, Zenon DEF FlowUnregister, Joined

(* They are there: the objects that are always there, and both of the      *)
(* filters of the reauthorization or none.                                 *)
Full(objs) ==
  /\ Base \subseteq objs /\ objs \subseteq Objects
  /\ <<"filter", "reauth_in">> \in objs <=> <<"filter", "reauth_out">> \in objs

(* A filter of flows can be added when its callout and the sublayer are     *)
(* there.                                                                   *)
LEMMA FlowsAdded ==
  ASSUME NEW objs, Base \subseteq objs, NEW x \in Flows, NEW y \in Flows, x # y,
         <<"filter", x>> \notin objs, <<"filter", y>> \notin objs
  PROVE  Adds(objs, Keys("filter", <<x, y>>), {"filter"} \X {x, y})
<1>1. Flows \subseteq Callouts /\ Callouts \subseteq Names
  BY NameSets DEF Flows, Names
<1>2. /\ <<x, y>> \in Seq(Names) /\ ToSet(<<x, y>>) = {x, y}
      /\ \A i, j \in 1 .. Len(<<x, y>>) : <<x, y>>[i] = <<x, y>>[j] => i = j
  BY <1>1, TwoNames
<1>3. ASSUME NEW z \in {x, y}
      PROVE  <<"filter", z>> \in Objects \ objs /\ Refers[<<"filter", z>>] \subseteq objs
  <2>1. Refers[<<"filter", z>>] \subseteq {Sublayer, <<"callout", z>>}
    BY <1>1, RefersValues
  <2>2. {Sublayer, <<"callout", z>>} \subseteq Base
    BY <1>1 DEF Base
  <2>3. <<"filter", z>> \in Objects
    BY <1>1, Kinds
  <2>. QED
    BY <2>1, <2>2, <2>3
<1>4. Adds(objs, Keys("filter", <<x, y>>), {"filter"} \X ToSet(<<x, y>>))
  BY <1>2, <1>3, KeysAdded
<1>. QED
  BY <1>2, <1>4

(* fort_prov_flow_register. *)
LEMMA FlowRegistered ==
  ASSUME NEW objs, NEW t \in BOOLEAN
  PROVE  /\ objs \subseteq FlowRegister(objs, t).objs
         /\ FlowRegister(objs, t).objs \subseteq objs \cup FlowSet
         /\ Base \subseteq objs /\ objs \cap FlowSet = {} => FlowRegister(objs, t).ok
<1>. DEFINE X == {"filter"} \X {"stream", "datagram"}
            Y == {"filter"} \X {"in_transport", "out_transport"}
            both == Joined(FlowFilters, TransportFilters)
            list == IF t THEN both ELSE FlowFilters
<1>1. X \cup Y = FlowSet /\ X \cap Y = {}
  BY DEF FlowSet, Flows
<1>2. ToSet(both) = X \cup Y
  <2>0. FlowFilters \in Seq(Objects) /\ TransportFilters \in Seq(Objects)
    BY FlowLists, Zenon
  <2>1. ToSet(both) = ToSet(FlowFilters) \cup ToSet(TransportFilters)
    BY <2>0, JoinRange, Zenon DEF Joined
  <2>. QED
    BY <2>1, FlowLists, Zenon
<1>3. FlowFilters \o (IF t THEN TransportFilters ELSE <<>>) = list
  <2>1. FlowFilters \o <<>> = FlowFilters
    BY FlowLists
  <2>. QED
    BY <2>1, Zenon DEF Joined
<1>4. ToSet(list) \subseteq FlowSet
  BY <1>1, <1>2, FlowLists
<1>5. FlowRegister(objs, t) = AddAll(objs, list)
  BY <1>3, Zenon DEF FlowRegister
<1>6. ASSUME Base \subseteq objs, objs \cap FlowSet = {} PROVE AddAll(objs, list).ok
  <2>1. Adds(objs, FlowFilters, X)
    BY <1>6, FlowsAdded DEF FlowFilters, FlowSet, Flows
  <2>2. Base \subseteq objs \cup X /\ \A x \in {"in_transport", "out_transport"} : <<"filter", x>> \notin objs \cup X
    BY <1>6 DEF FlowSet, Flows
  <2>3. Adds(objs \cup X, TransportFilters, Y)
    <3>. HIDE DEF X
    <3>1. "in_transport" \in Flows /\ "out_transport" \in Flows /\ "in_transport" # "out_transport"
      BY DEF Flows
    <3>. QED
      BY <2>2, <3>1, FlowsAdded DEF TransportFilters
  <2>. HIDE DEF X, Y
  <2>4. Adds(objs, both, X \cup Y)
    BY <2>1, <2>3, AddsJoined
  <2>5. AddAll(objs, both).ok /\ AddAll(objs, FlowFilters).ok
    BY <2>1, <2>4, AddsAll
  <2>. QED
    BY <2>5
<1>. HIDE DEF list
<1>. QED
  BY <1>4, <1>5, <1>6 DEF AddAll

(* fort_prov_reauth. *)
LEMMA ReauthToggled ==
  ASSUME NEW objs, objs \subseteq Objects
  PROVE  /\ objs \ ReauthSet \subseteq ReauthFilters(objs).objs
         /\ ReauthFilters(objs).objs \subseteq objs \cup ReauthSet
         /\ Full(objs) => ReauthFilters(objs).ok /\ Full(ReauthFilters(objs).objs)
<1>. DEFINE keys == Keys("filter", Reauths)
<1>0. {"reauth_in", "reauth_out"} = ToSet(Reauths) /\ {"reauth_in", "reauth_out"} \subseteq Names
      /\ {"reauth_in", "reauth_out"} = Names \ Callouts
  BY NameSets, AllNames DEF Names
<1>1. keys \in Seq(Objects) /\ ToSet(keys) = ReauthSet /\ InOrder(objs, keys)
  BY <1>0, NameSeqs, KeysSet, Kinds, FiltersInOrder DEF ReauthSet
<1>2. DeleteAll(objs, keys) = objs \ ReauthSet
  BY <1>1, InOrderDeleted
<1>3. AddAll(objs, keys).objs = objs \cup ReauthSet
  BY <1>1 DEF AddAll
<1>4. Base \cap ReauthSet = {}
  BY Kinds, <1>0 DEF Base, ReauthSet
<1>5. ReauthSet \subseteq Objects
  BY <1>0, Kinds DEF ReauthSet
<1>6. ReauthSet = {<<"filter", "reauth_in">>, <<"filter", "reauth_out">>}
  BY DEF ReauthSet
<1>7. ASSUME Full(objs), <<"filter", "reauth_in">> \notin objs PROVE AddAll(objs, keys).ok
  <2>1. objs \cap ReauthSet = {}
    BY <1>6, <1>7 DEF Full
  <2>2. ASSUME NEW x \in ToSet(Reauths)
        PROVE  <<"filter", x>> \in Objects \ objs /\ Refers[<<"filter", x>>] \subseteq objs
    <3>1. <<"filter", x>> \in Objects \ objs
      BY <1>0, <1>5, <2>1 DEF ReauthSet
    <3>2. Refers[<<"filter", x>>] \subseteq {Sublayer}
      BY <1>0, RefersValues
    <3>3. Sublayer \in objs
      BY <1>7 DEF Full, Base
    <3>. QED
      BY <3>1, <3>2, <3>3
  <2>3. \A i, j \in 1 .. Len(Reauths) : Reauths[i] = Reauths[j] => i = j
    <3>1. Len(Reauths) = 2 /\ 1 .. 2 = {1, 2}
      BY DEF Reauths
    <3>. QED
      BY <3>1 DEF Reauths
  <2>4. Adds(objs, keys, {"filter"} \X ToSet(Reauths))
    BY <2>2, <2>3, NameSeqs, KeysAdded
  <2>. QED
    BY <2>4, AddsAll
<1>. HIDE DEF keys
<1>8. ReauthFilters(objs) = IF <<"filter", "reauth_in">> \in objs
        THEN [objs |-> DeleteAll(objs, keys), ok |-> TRUE] ELSE AddAll(objs, keys)
  BY Zenon DEF ReauthFilters, keys
<1>9. CASE <<"filter", "reauth_in">> \in objs
  <2>1. ReauthFilters(objs).objs = objs \ ReauthSet /\ ReauthFilters(objs).ok
    BY <1>2, <1>8, <1>9
  <2>. QED
    BY <1>4, <1>6, <2>1 DEF Full
<1>10. CASE <<"filter", "reauth_in">> \notin objs
  <2>1. ReauthFilters(objs).objs = objs \cup ReauthSet /\ (Full(objs) => ReauthFilters(objs).ok)
    BY <1>3, <1>7, <1>8, <1>10
  <2>. QED
    BY <1>5, <1>6, <2>1 DEF Full
<1>. QED
  BY <1>9, <1>10

(* The whole transaction of a reauthorization: it keeps the provider, and is *)
(* not refused when everything is there.                                    *)
LEMMA ReauthResult ==
  ASSUME wfp.objs \subseteq Objects, transport \in BOOLEAN,
         NEW old, NEW new, new.boot \in BOOLEAN, new.transport \in BOOLEAN,
         NEW res, res = ReauthProv(old, new)
  PROVE  /\ res.objs \subseteq Objects
         /\ old.boot # new.boot \/ Provider \in wfp.objs => Provider \in res.objs
         /\ old.boot = new.boot => (Provider \in res.objs => Provider \in wfp.objs)
         /\ Full(wfp.objs) => res.ok
         /\ Full(wfp.objs) => Full(res.objs)
<1>. DEFINE recreated == old.boot # new.boot
            base == IF recreated THEN Register(Unregister(wfp.objs)) ELSE [objs |-> wfp.objs, ok |-> TRUE]
            flow == IF ~recreated /\ old.log = new.log /\ transport = new.transport THEN base
                    ELSE IF new.log THEN FlowRegister(FlowUnregister(base.objs), new.transport)
                    ELSE [base EXCEPT !.objs = FlowUnregister(@)]
            end == ReauthFilters(flow.objs)
<1>1. res.objs = end.objs /\ res.ok = (base.ok /\ flow.ok /\ end.ok)
  BY DEF ReauthProv
<1>2. Base \subseteq Objects /\ Base \cap FlowSet = {} /\ Provider \in Base /\ Provider \notin FlowSet \cup ReauthSet
      /\ FlowSet \subseteq Objects /\ FlowSet \cap ReauthSet = {} /\ Base \cap ReauthSet = {} /\ ReauthSet \subseteq Objects
  BY Kinds, NameSets DEF Base, FlowSet, Flows, ReauthSet, Names
<1>3. /\ base.objs = (IF recreated THEN Base ELSE wfp.objs) /\ base.ok
      /\ base = [objs |-> base.objs, ok |-> base.ok]
  <2>1. Unregister(wfp.objs) = {}
    BY UnregisterClears
  <2>2. Register({}).objs = Base /\ Register({}).ok
    BY RegisterAdds
  <2>3. Register({}) = [objs |-> Register({}).objs, ok |-> Register({}).ok]
    BY DEF Register, AddAll
  <2>. QED
    BY <2>1, <2>2, <2>3
<1>4. recreated => Full(base.objs)
  BY <1>2, <1>3 DEF Full, ReauthSet
<1>5. Full(wfp.objs) => Full(base.objs)
  BY <1>3, <1>4
<1>. DEFINE bo == base.objs
<1>6. bo \subseteq Objects
  BY <1>2, <1>3
<1>7. /\ flow.objs \subseteq bo \cup FlowSet /\ bo \ FlowSet \subseteq flow.objs
      /\ Full(bo) => flow.ok
  <2>1. FlowUnregister(bo) = bo \ FlowSet
    BY FlowUnregistered
  <2>. DEFINE reg == FlowRegister(bo \ FlowSet, new.transport)
  <2>2. /\ bo \ FlowSet \subseteq reg.objs
        /\ reg.objs \subseteq (bo \ FlowSet) \cup FlowSet
        /\ Base \subseteq bo \ FlowSet /\ (bo \ FlowSet) \cap FlowSet = {} => reg.ok
    BY FlowRegistered
  <2>3. Full(bo) => Base \subseteq bo \ FlowSet
    BY <1>2 DEF Full
  <2>4. flow = base \/ flow = reg \/ flow = [base EXCEPT !.objs = bo \ FlowSet]
    BY <2>1
  <2>5. CASE flow = base
    BY <1>3, <2>5
  <2>6. CASE flow = reg
    BY <2>2, <2>3, <2>6
  <2>7. CASE flow = [base EXCEPT !.objs = bo \ FlowSet]
    <3>. HIDE DEF base, flow
    <3>1. flow.objs = bo \ FlowSet /\ flow.ok = base.ok
      BY <1>3, <2>7
    <3>. QED
      BY <1>3, <3>1
  <2>. HIDE DEF flow, reg, base
  <2>. QED
    BY <2>4, <2>5, <2>6, <2>7
<1>. HIDE DEF flow, base
<1>8. Full(bo) => Full(flow.objs)
  <2>1. ReauthSet = {<<"filter", "reauth_in">>, <<"filter", "reauth_out">>}
    BY DEF ReauthSet
  <2>. QED
    BY <1>2, <1>7, <2>1 DEF Full
<1>9. flow.objs \subseteq Objects
  BY <1>2, <1>6, <1>7
<1>10. /\ flow.objs \ ReauthSet \subseteq end.objs
       /\ end.objs \subseteq flow.objs \cup ReauthSet
       /\ Full(flow.objs) => end.ok /\ Full(end.objs)
  BY <1>9, ReauthToggled
<1>. HIDE DEF end
<1>. QED
  BY <1>1, <1>2, <1>3, <1>4, <1>5, <1>7, <1>8, <1>9, <1>10

-----------------------------------------------------------------------------
(* The inductive invariant. *)

DriverTypes ==
  /\ entry \in {"off", "loaded", "crashed"} \cup LoadSteps \cup UnloadSteps
  /\ parts \subseteq Parts /\ callouts \subseteq Callouts /\ IsFiniteSet(callouts)
  /\ wfp \in [objs : SUBSET Objects, boot : BOOLEAN]
  /\ bootFlag \in BOOLEAN /\ transport \in BOOLEAN /\ session \in BOOLEAN
  /\ contexts \in BOOLEAN /\ stuck \in BOOLEAN /\ late \in BOOLEAN
  /\ dconf \in DriverConfs \cup {NoConf}
  /\ timers \subseteq {"log", "app"} /\ running \subseteq Calls
  /\ told \in {"boot", "plain", "unknown"} /\ loads \in 0 .. MaxLoads

(* Steps before the device is set, while it is being filled, and while it   *)
(* is being emptied.                                                       *)
Unset == {"off", "device", "link", "open", "crashed"}
Filled == {"is_boot", "unregister", "callouts", "item", "provider", "power", "systime"}
Emptied == UnloadSteps \ {"flush", "un_link", "un_device"}
Opened == {"extension", "stat", "buffer", "defer"}

(* What exists, step by step. *)
PartsInv ==
  /\ entry \in {"off", "device", "crashed"} => parts = {}
  /\ entry = "link" => parts = {"device"}
  /\ entry \in {"open", "un_link"} => parts \subseteq {"device", "link"}
  /\ entry \in Filled \cup {"loaded", "flush", "timers", "defer"} => Opened \subseteq parts
  /\ entry \in Emptied => "extension" \in parts
  /\ entry \in {"provider", "power", "systime", "loaded"} => "item" \in parts
  /\ "defer" \in parts => entry \in Filled \cup {"loaded", "flush", "timers", "defer"}
  /\ "stat" \in parts => entry \in Filled \cup {"loaded", "flush", "timers", "defer", "stat"}
  /\ "buffer" \in parts => entry \in Filled \cup {"loaded", "flush", "timers", "defer", "stat", "buffer"}
  /\ "item" \in parts =>
       entry \in {"provider", "power", "systime", "loaded", "flush", "timers", "defer", "stat", "buffer",
                  "un_item"}
  /\ "power" \in parts =>
       entry \in {"systime", "loaded", "flush", "timers", "defer", "stat", "buffer", "un_item", "un_power"}
  /\ "systime" \in parts =>
       entry \in {"loaded", "flush", "timers", "defer", "stat", "buffer", "un_item", "un_power", "un_systime"}
  /\ entry \in Unset \cup {"is_boot", "unregister", "un_link"} => callouts = {}
  /\ entry = "callouts" =>
       /\ Cardinality(callouts) \in 0 .. 5
       /\ callouts = {CalloutOrder[j] : j \in 1 .. Cardinality(callouts)}
  /\ entry # "un_device"

(* A session is one of a loaded driver, and what it sets goes with it. *)
SessionInv ==
  /\ session => entry = "loaded"
  /\ dconf # NoConf => session /\ dconf.boot = bootFlag
  /\ ~session => timers = {}
  /\ entry \in Filled \cup {"flush"} => ~contexts

(* Calls that run. *)
RunningInv ==
  /\ entry \in LoadSteps \cup {"off", "crashed", "flush"} => running \subseteq {"power"}
  /\ entry \in Emptied \cup {"un_link"} /\ ~late => running \subseteq {"power"}
  /\ entry \in Emptied /\ ~late => <<"filter", "stream">> \notin wfp.objs
  /\ "power" \in running =>
       entry \in {"systime", "loaded", "flush", "timers", "defer", "stat", "buffer", "un_item", "un_power"}

(* The objects, and what they were said to be. *)
Between == {"unregister", "callouts", "item", "provider"}
ObjectsInv ==
  /\ wfp.objs = {} \/ Provider \in wfp.objs
  /\ entry \in {"power", "systime", "loaded"} => Full(wfp.objs)
  /\ entry \in Emptied /\ running \cap {"app_dpc", "time", "work"} # {} /\ "item" \in parts => Provider \in wfp.objs
  /\ told = "plain" => ~ (Provider \in wfp.objs /\ wfp.boot)
  /\ told = "boot" /\ entry \notin Between => Provider \in wfp.objs /\ wfp.boot
  /\ entry \in {"unregister", "callouts", "item", "provider", "power", "systime", "loaded", "flush"}
                 \cup (Emptied \ {"un_callouts"}) =>
       told \in {Kind(bootFlag), "unknown"}
  /\ entry \in (Unset \ {"crashed"}) \cup {"is_boot", "un_callouts", "un_link"} =>
       wfp.objs = {} \/ (wfp.boot /\ told = "boot") \/ stuck \/ told = "unknown"

DriverInv == DriverTypes /\ PartsInv /\ SessionInv /\ RunningInv /\ ObjectsInv

(* The calls. *)
LEMMA CallsAre == Calls = {"classify", "stream", "log_dpc", "app_dpc", "time", "power", "work"}
  BY DEF Calls, Needs

(* Each step keeps the invariant. *)
LEMMA StartLoadStep ==
  ASSUME DriverInv, StartLoad
  PROVE  DriverInv'
<1>1. DriverTypes'
  <2>1. MaxLoads \in Nat
    BY DriverAssumption DEF DriverAssumption
  <2>2. loads' \in 0 .. MaxLoads
    BY <2>1 DEF DriverInv, DriverTypes, StartLoad
  <2>. QED
    BY <2>2 DEF DriverInv, DriverTypes, StartLoad, sessionVars, LoadSteps
<1>2. PartsInv'
  BY DEF DriverInv, DriverTypes, PartsInv, StartLoad, sessionVars, historyVars, Parts, Opened,
     LoadSteps, UnloadSteps, Unset, Filled, Emptied, Between
<1>3. SessionInv'
  BY DEF DriverInv, DriverTypes, PartsInv, SessionInv, StartLoad, sessionVars, historyVars,
     LoadSteps, UnloadSteps, Unset, Filled, Emptied, Between
<1>4. RunningInv'
  BY DEF DriverInv, DriverTypes, PartsInv, SessionInv, RunningInv, StartLoad, sessionVars,
     historyVars, Opened, LoadSteps, UnloadSteps, Unset, Filled, Emptied, Between
<1>5. ObjectsInv'
  BY DEF DriverInv, DriverTypes, PartsInv, SessionInv, RunningInv, ObjectsInv, StartLoad,
     sessionVars, historyVars, Opened, LoadSteps, UnloadSteps, Unset, Filled, Emptied, Between
<1>. QED
  BY <1>1, <1>2, <1>3, <1>4, <1>5 DEF DriverInv

LEMMA CreateDeviceStep ==
  ASSUME DriverInv, CreateDevice
  PROVE  DriverInv'
<1>1. DriverTypes'
  BY FS_EmptySet DEF DriverInv, DriverTypes, PartsInv, CreateDevice, sessionVars, historyVars,
     Parts, LoadSteps, UnloadSteps, Unset, Filled, Emptied, Between
<1>2. PartsInv'
  BY DEF DriverInv, DriverTypes, PartsInv, CreateDevice, sessionVars, historyVars, Parts,
     Opened, LoadSteps, UnloadSteps, Unset, Filled, Emptied, Between
<1>3. SessionInv'
  BY DEF DriverInv, DriverTypes, PartsInv, SessionInv, CreateDevice, sessionVars, historyVars,
     LoadSteps, UnloadSteps, Unset, Filled, Emptied, Between
<1>4. RunningInv'
  BY DEF DriverInv, DriverTypes, PartsInv, SessionInv, RunningInv, CreateDevice, sessionVars,
     historyVars, Opened, LoadSteps, UnloadSteps, Unset, Filled, Emptied, Between
<1>5. ObjectsInv'
  BY DEF DriverInv, DriverTypes, PartsInv, SessionInv, RunningInv, ObjectsInv, CreateDevice,
     sessionVars, historyVars, Opened, LoadSteps, UnloadSteps, Unset, Filled, Emptied, Between
<1>. QED
  BY <1>1, <1>2, <1>3, <1>4, <1>5 DEF DriverInv

LEMMA CreateLinkStep ==
  ASSUME DriverInv, CreateLink
  PROVE  DriverInv'
<1>1. DriverTypes'
  BY FS_EmptySet DEF DriverInv, DriverTypes, PartsInv, CreateLink, FailLoad, sessionVars,
     historyVars, Parts, LoadSteps, UnloadSteps, Unset, Filled, Emptied, Between
<1>2. PartsInv'
  BY DEF DriverInv, DriverTypes, PartsInv, CreateLink, FailLoad, sessionVars, historyVars,
     Parts, Opened, LoadSteps, UnloadSteps, Unset, Filled, Emptied, Between
<1>3. SessionInv'
  BY DEF DriverInv, DriverTypes, PartsInv, SessionInv, CreateLink, FailLoad, sessionVars,
     historyVars, LoadSteps, UnloadSteps, Unset, Filled, Emptied, Between
<1>4. RunningInv'
  BY DEF DriverInv, DriverTypes, PartsInv, SessionInv, RunningInv, CreateLink, FailLoad,
     sessionVars, historyVars, Opened, LoadSteps, UnloadSteps, Unset, Filled, Emptied, Between
<1>5. ObjectsInv'
  BY DEF DriverInv, DriverTypes, PartsInv, SessionInv, RunningInv, ObjectsInv, CreateLink,
     FailLoad, sessionVars, historyVars, Opened, LoadSteps, UnloadSteps, Unset, Filled,
     Emptied, Between
<1>. QED
  BY <1>1, <1>2, <1>3, <1>4, <1>5 DEF DriverInv

LEMMA OpenPartsStep ==
  ASSUME DriverInv, OpenParts
  PROVE  DriverInv'
<1>1. DriverTypes'
  BY FS_EmptySet DEF DriverInv, DriverTypes, PartsInv, OpenParts, sessionVars, historyVars,
     Parts, LoadSteps, UnloadSteps, Unset, Filled, Emptied, Between
<1>2. PartsInv'
  BY DEF DriverInv, DriverTypes, PartsInv, OpenParts, sessionVars, historyVars, Parts, Opened,
     LoadSteps, UnloadSteps, Unset, Filled, Emptied, Between
<1>3. SessionInv'
  BY DEF DriverInv, DriverTypes, PartsInv, SessionInv, OpenParts, sessionVars, historyVars,
     LoadSteps, UnloadSteps, Unset, Filled, Emptied, Between
<1>4. RunningInv'
  BY DEF DriverInv, DriverTypes, PartsInv, SessionInv, RunningInv, OpenParts, sessionVars,
     historyVars, Opened, LoadSteps, UnloadSteps, Unset, Filled, Emptied, Between
<1>5. ObjectsInv'
  BY DEF DriverInv, DriverTypes, PartsInv, SessionInv, RunningInv, ObjectsInv, OpenParts,
     sessionVars, historyVars, Opened, LoadSteps, UnloadSteps, Unset, Filled, Emptied, Between
<1>. QED
  BY <1>1, <1>2, <1>3, <1>4, <1>5 DEF DriverInv

LEMMA IsBootStep ==
  ASSUME DriverInv, IsBoot
  PROVE  DriverInv'
<1>1. DriverTypes'
  BY FS_EmptySet DEF DriverInv, DriverTypes, PartsInv, IsBoot, Forgotten, Kind, sessionVars,
     historyVars, Parts, LoadSteps, UnloadSteps, Unset, Filled, Emptied, Between
<1>2. PartsInv'
  BY DEF DriverInv, DriverTypes, PartsInv, IsBoot, Forgotten, Kind, sessionVars, historyVars,
     Parts, Opened, LoadSteps, UnloadSteps, Unset, Filled, Emptied, Between
<1>3. SessionInv'
  BY DEF DriverInv, DriverTypes, PartsInv, SessionInv, IsBoot, Forgotten, Kind, sessionVars,
     historyVars, LoadSteps, UnloadSteps, Unset, Filled, Emptied, Between
<1>4. RunningInv'
  BY DEF DriverInv, DriverTypes, PartsInv, SessionInv, RunningInv, IsBoot, Forgotten, Kind,
     sessionVars, historyVars, Opened, LoadSteps, UnloadSteps, Unset, Filled, Emptied, Between
<1>5. ObjectsInv'
  BY DEF DriverInv, DriverTypes, PartsInv, SessionInv, RunningInv, ObjectsInv, IsBoot,
     Forgotten, Kind, sessionVars, historyVars, Opened, LoadSteps, UnloadSteps, Unset, Filled,
     Emptied, Between
<1>. QED
  BY <1>1, <1>2, <1>3, <1>4, <1>5 DEF DriverInv

LEMMA RegisterWorkerStep ==
  ASSUME DriverInv, RegisterWorker
  PROVE  DriverInv'
<1>1. DriverTypes'
  <2>1. parts' \subseteq Parts /\ told' \in {"boot", "plain", "unknown"}
    BY DEF DriverInv, DriverTypes, RegisterWorker, FailLoad, Forgotten, Kind, Parts
  <2>2. entry' \in {"off", "loaded", "crashed"} \cup LoadSteps \cup UnloadSteps
    BY DEF DriverInv, DriverTypes, RegisterWorker, FailLoad, Forgotten, Kind, LoadSteps,
       UnloadSteps
  <2>. QED
    BY <2>1, <2>2 DEF DriverInv, DriverTypes, RegisterWorker, FailLoad, Forgotten, Kind,
       sessionVars, historyVars
<1>2. PartsInv'
  BY DEF DriverInv, DriverTypes, PartsInv, RegisterWorker, FailLoad, Forgotten, Kind,
     sessionVars, historyVars, Parts, Opened, LoadSteps, UnloadSteps, Unset, Filled, Emptied,
     Between
<1>3. SessionInv'
  BY DEF DriverInv, DriverTypes, PartsInv, SessionInv, RegisterWorker, FailLoad, Forgotten,
     Kind, sessionVars, historyVars, LoadSteps, UnloadSteps, Unset, Filled, Emptied, Between
<1>4. RunningInv'
  BY DEF DriverInv, DriverTypes, PartsInv, SessionInv, RunningInv, RegisterWorker, FailLoad,
     Forgotten, Kind, sessionVars, historyVars, Opened, LoadSteps, UnloadSteps, Unset, Filled,
     Emptied, Between
<1>5. ObjectsInv'
  BY DEF DriverInv, DriverTypes, PartsInv, SessionInv, RunningInv, ObjectsInv, RegisterWorker,
     FailLoad, Forgotten, Kind, sessionVars, historyVars, Opened, LoadSteps, UnloadSteps,
     Unset, Filled, Emptied, Between
<1>. QED
  BY <1>1, <1>2, <1>3, <1>4, <1>5 DEF DriverInv

LEMMA RegisterPowerStep ==
  ASSUME DriverInv, RegisterCallback("power", "systime")
  PROVE  DriverInv'
<1>1. DriverTypes'
  <2>1. parts' \subseteq Parts /\ told' \in {"boot", "plain", "unknown"}
    BY DEF DriverInv, DriverTypes, RegisterCallback, FailLoad, Parts
  <2>2. entry' \in {"off", "loaded", "crashed"} \cup LoadSteps \cup UnloadSteps
    BY DEF DriverInv, DriverTypes, RegisterCallback, FailLoad, LoadSteps, UnloadSteps
  <2>. QED
    BY <2>1, <2>2 DEF DriverInv, DriverTypes, RegisterCallback, FailLoad, sessionVars, historyVars
<1>2. PartsInv'
  BY DEF DriverInv, DriverTypes, PartsInv, RegisterCallback, FailLoad, sessionVars,
     historyVars, Parts, Opened, LoadSteps, UnloadSteps, Unset, Filled, Emptied, Between
<1>3. SessionInv'
  BY DEF DriverInv, DriverTypes, PartsInv, SessionInv, RegisterCallback, FailLoad, sessionVars,
     historyVars, LoadSteps, UnloadSteps, Unset, Filled, Emptied, Between
<1>4. RunningInv'
  BY DEF DriverInv, DriverTypes, PartsInv, SessionInv, RunningInv, RegisterCallback, FailLoad,
     sessionVars, historyVars, Opened, LoadSteps, UnloadSteps, Unset, Filled, Emptied, Between
<1>5. ObjectsInv'
  BY DEF DriverInv, DriverTypes, PartsInv, SessionInv, RunningInv, ObjectsInv,
     RegisterCallback, FailLoad, sessionVars, historyVars, Opened, LoadSteps, UnloadSteps,
     Unset, Filled, Emptied, Between
<1>. QED
  BY <1>1, <1>2, <1>3, <1>4, <1>5 DEF DriverInv

LEMMA RegisterSystimeStep ==
  ASSUME DriverInv, RegisterCallback("systime", "loaded")
  PROVE  DriverInv'
<1>1. DriverTypes'
  <2>1. parts' \subseteq Parts /\ told' \in {"boot", "plain", "unknown"}
    BY DEF DriverInv, DriverTypes, RegisterCallback, FailLoad, Parts
  <2>2. entry' \in {"off", "loaded", "crashed"} \cup LoadSteps \cup UnloadSteps
    BY DEF DriverInv, DriverTypes, RegisterCallback, FailLoad, LoadSteps, UnloadSteps
  <2>. QED
    BY <2>1, <2>2 DEF DriverInv, DriverTypes, RegisterCallback, FailLoad, sessionVars, historyVars
<1>2. PartsInv'
  BY DEF DriverInv, DriverTypes, PartsInv, RegisterCallback, FailLoad, sessionVars,
     historyVars, Parts, Opened, LoadSteps, UnloadSteps, Unset, Filled, Emptied, Between
<1>3. SessionInv'
  BY DEF DriverInv, DriverTypes, PartsInv, SessionInv, RegisterCallback, FailLoad, sessionVars,
     historyVars, LoadSteps, UnloadSteps, Unset, Filled, Emptied, Between
<1>4. RunningInv'
  BY DEF DriverInv, DriverTypes, PartsInv, SessionInv, RunningInv, RegisterCallback, FailLoad,
     sessionVars, historyVars, Opened, LoadSteps, UnloadSteps, Unset, Filled, Emptied, Between
<1>5. ObjectsInv'
  BY DEF DriverInv, DriverTypes, PartsInv, SessionInv, RunningInv, ObjectsInv,
     RegisterCallback, FailLoad, sessionVars, historyVars, Opened, LoadSteps, UnloadSteps,
     Unset, Filled, Emptied, Between
<1>. QED
  BY <1>1, <1>2, <1>3, <1>4, <1>5 DEF DriverInv

LEMMA OpenDeviceStep ==
  ASSUME DriverInv, OpenDevice
  PROVE  DriverInv'
<1>1. DriverTypes'
  BY FS_EmptySet DEF DriverInv, DriverTypes, PartsInv, OpenDevice, sessionVars, historyVars,
     Parts, LoadSteps, UnloadSteps, Unset, Filled, Emptied, Between
<1>2. PartsInv'
  BY DEF DriverInv, DriverTypes, PartsInv, OpenDevice, sessionVars, historyVars, Parts, Opened,
     LoadSteps, UnloadSteps, Unset, Filled, Emptied, Between
<1>3. SessionInv'
  BY DEF DriverInv, DriverTypes, PartsInv, SessionInv, OpenDevice, sessionVars, historyVars,
     LoadSteps, UnloadSteps, Unset, Filled, Emptied, Between
<1>4. RunningInv'
  BY DEF DriverInv, DriverTypes, PartsInv, SessionInv, RunningInv, OpenDevice, sessionVars,
     historyVars, Opened, LoadSteps, UnloadSteps, Unset, Filled, Emptied, Between
<1>5. ObjectsInv'
  BY DEF DriverInv, DriverTypes, PartsInv, SessionInv, RunningInv, ObjectsInv, OpenDevice,
     sessionVars, historyVars, Opened, LoadSteps, UnloadSteps, Unset, Filled, Emptied, Between
<1>. QED
  BY <1>1, <1>2, <1>3, <1>4, <1>5 DEF DriverInv

LEMMA FlowsEndStep ==
  ASSUME DriverInv, FlowsEnd
  PROVE  DriverInv'
<1>1. DriverTypes'
  BY DEF DriverInv, DriverTypes, FlowsEnd, historyVars
<1>2. PartsInv'
  BY DEF DriverInv, DriverTypes, PartsInv, FlowsEnd, sessionVars, historyVars, Parts, Opened,
     LoadSteps, UnloadSteps, Unset, Filled, Emptied, Between
<1>3. SessionInv'
  BY DEF DriverInv, DriverTypes, PartsInv, SessionInv, FlowsEnd, sessionVars, historyVars,
     LoadSteps, UnloadSteps, Unset, Filled, Emptied, Between
<1>4. RunningInv'
  BY DEF DriverInv, DriverTypes, PartsInv, SessionInv, RunningInv, FlowsEnd, sessionVars,
     historyVars, Opened, LoadSteps, UnloadSteps, Unset, Filled, Emptied, Between
<1>5. ObjectsInv'
  BY DEF DriverInv, DriverTypes, PartsInv, SessionInv, RunningInv, ObjectsInv, FlowsEnd,
     sessionVars, historyVars, Opened, LoadSteps, UnloadSteps, Unset, Filled, Emptied, Between
<1>. QED
  BY <1>1, <1>2, <1>3, <1>4, <1>5 DEF DriverInv

LEMMA StartUnloadStep ==
  ASSUME DriverInv, StartUnload
  PROVE  DriverInv'
<1>1. DriverTypes'
  BY FS_EmptySet DEF DriverInv, DriverTypes, PartsInv, StartUnload, sessionVars, historyVars,
     Parts, LoadSteps, UnloadSteps, Unset, Filled, Emptied, Between
<1>2. PartsInv'
  BY DEF DriverInv, DriverTypes, PartsInv, StartUnload, sessionVars, historyVars, Parts,
     Opened, LoadSteps, UnloadSteps, Unset, Filled, Emptied, Between
<1>3. SessionInv'
  BY DEF DriverInv, DriverTypes, PartsInv, SessionInv, StartUnload, sessionVars, historyVars,
     LoadSteps, UnloadSteps, Unset, Filled, Emptied, Between
<1>4. RunningInv'
  BY DEF DriverInv, DriverTypes, PartsInv, SessionInv, RunningInv, StartUnload, sessionVars,
     historyVars, Opened, LoadSteps, UnloadSteps, Unset, Filled, Emptied, Between
<1>5. ObjectsInv'
  BY DEF DriverInv, DriverTypes, PartsInv, SessionInv, RunningInv, ObjectsInv, StartUnload,
     sessionVars, historyVars, Full, Base, Opened, LoadSteps, UnloadSteps, Unset, Filled,
     Emptied, Between
<1>. QED
  BY <1>1, <1>2, <1>3, <1>4, <1>5 DEF DriverInv

LEMMA CloseTimersStep ==
  ASSUME DriverInv, CloseTimers
  PROVE  DriverInv'
<1>1. DriverTypes'
  BY FS_EmptySet DEF DriverInv, DriverTypes, PartsInv, CloseTimers, sessionVars, historyVars,
     Parts, LoadSteps, UnloadSteps, Unset, Filled, Emptied, Between
<1>2. PartsInv'
  BY DEF DriverInv, DriverTypes, PartsInv, CloseTimers, sessionVars, historyVars, Parts,
     Opened, LoadSteps, UnloadSteps, Unset, Filled, Emptied, Between
<1>3. SessionInv'
  BY DEF DriverInv, DriverTypes, PartsInv, SessionInv, CloseTimers, sessionVars, historyVars,
     LoadSteps, UnloadSteps, Unset, Filled, Emptied, Between
<1>4. RunningInv'
  BY DEF DriverInv, DriverTypes, PartsInv, SessionInv, RunningInv, CloseTimers, sessionVars,
     historyVars, Opened, LoadSteps, UnloadSteps, Unset, Filled, Emptied, Between
<1>5. ObjectsInv'
  BY DEF DriverInv, DriverTypes, PartsInv, SessionInv, RunningInv, ObjectsInv, CloseTimers,
     sessionVars, historyVars, Opened, LoadSteps, UnloadSteps, Unset, Filled, Emptied, Between
<1>. QED
  BY <1>1, <1>2, <1>3, <1>4, <1>5 DEF DriverInv

LEMMA RemoveCalloutsStep ==
  ASSUME DriverInv, RemoveCallouts
  PROVE  DriverInv'
<1>1. DriverTypes'
  BY FS_EmptySet DEF DriverInv, DriverTypes, PartsInv, RemoveCallouts, sessionVars,
     historyVars, Parts, LoadSteps, UnloadSteps, Unset, Filled, Emptied, Between
<1>2. PartsInv'
  BY DEF DriverInv, DriverTypes, PartsInv, RemoveCallouts, sessionVars, historyVars, Parts,
     Opened, LoadSteps, UnloadSteps, Unset, Filled, Emptied, Between
<1>3. SessionInv'
  BY DEF DriverInv, DriverTypes, PartsInv, SessionInv, RemoveCallouts, sessionVars,
     historyVars, LoadSteps, UnloadSteps, Unset, Filled, Emptied, Between
<1>4. RunningInv'
  BY DEF DriverInv, DriverTypes, PartsInv, SessionInv, RunningInv, RemoveCallouts, sessionVars,
     historyVars, Opened, LoadSteps, UnloadSteps, Unset, Filled, Emptied, Between
<1>5. ObjectsInv'
  BY DEF DriverInv, DriverTypes, PartsInv, SessionInv, RunningInv, ObjectsInv, RemoveCallouts,
     sessionVars, historyVars, Opened, LoadSteps, UnloadSteps, Unset, Filled, Emptied, Between
<1>. QED
  BY <1>1, <1>2, <1>3, <1>4, <1>5 DEF DriverInv

LEMMA DeleteDeviceStep ==
  ASSUME DriverInv, DeleteDevice
  PROVE  DriverInv'
<1>1. DriverTypes'
  BY FS_EmptySet DEF DriverInv, DriverTypes, PartsInv, DeleteDevice, sessionVars, historyVars,
     Parts, LoadSteps, UnloadSteps, Unset, Filled, Emptied, Between
<1>2. PartsInv'
  BY DEF DriverInv, DriverTypes, PartsInv, DeleteDevice, sessionVars, historyVars, Parts,
     Opened, LoadSteps, UnloadSteps, Unset, Filled, Emptied, Between
<1>3. SessionInv'
  BY DEF DriverInv, DriverTypes, PartsInv, SessionInv, DeleteDevice, sessionVars, historyVars,
     LoadSteps, UnloadSteps, Unset, Filled, Emptied, Between
<1>4. RunningInv'
  BY DEF DriverInv, DriverTypes, PartsInv, SessionInv, RunningInv, DeleteDevice, sessionVars,
     historyVars, Opened, LoadSteps, UnloadSteps, Unset, Filled, Emptied, Between
<1>5. ObjectsInv'
  BY DEF DriverInv, DriverTypes, PartsInv, SessionInv, RunningInv, ObjectsInv, DeleteDevice,
     sessionVars, historyVars, Opened, LoadSteps, UnloadSteps, Unset, Filled, Emptied, Between
<1>. QED
  BY <1>1, <1>2, <1>3, <1>4, <1>5 DEF DriverInv

(* What a reauthorization makes of the objects, of what they were said to  *)
(* be and of the timers.                                                   *)
FlagsType == [boot : BOOLEAN, log : BOOLEAN, transport : BOOLEAN]

Reauthed(old, new, appTimer) ==
  /\ wfp' \in [objs : SUBSET Objects, boot : BOOLEAN] /\ transport' \in BOOLEAN
  /\ told' \in {"boot", "plain", "unknown"}
  /\ Provider \in wfp.objs => Provider \in wfp'.objs
  /\ Full(wfp.objs) => Full(wfp'.objs)
  /\ old.boot = new.boot => told' = told /\ wfp'.boot = wfp.boot
  /\ old.boot # new.boot =>
       told' = "unknown" \/ (told' = Kind(new.boot) /\ wfp'.boot = new.boot /\ Provider \in wfp'.objs)
  /\ timers' \subseteq {"log", "app"} /\ ("app" \in timers' => appTimer) /\ ("log" \in timers' => new.log)

LEMMA ForceReauthFacts ==
  ASSUME DriverTypes, NEW old \in FlagsType, NEW new \in FlagsType, NEW appTimer \in BOOLEAN,
         ForceReauth(old, new, appTimer)
  PROVE  Reauthed(old, new, appTimer)
<1>. DEFINE res == ReauthProv(old, new)
<1>0. /\ wfp \in [objs : SUBSET Objects, boot : BOOLEAN] /\ transport \in BOOLEAN
      /\ told \in {"boot", "plain", "unknown"}
      /\ old.boot \in BOOLEAN /\ new.boot \in BOOLEAN /\ new.transport \in BOOLEAN /\ new.log \in BOOLEAN
  BY DEF DriverTypes, FlagsType
<1>1. /\ res.objs \subseteq Objects
      /\ old.boot # new.boot \/ Provider \in wfp.objs => Provider \in res.objs
      /\ Full(wfp.objs) => Full(res.objs)
  BY <1>0, ReauthResult
<1>. HIDE DEF res
<1>2. CASE /\ wfp' = [objs |-> res.objs, boot |-> IF old.boot # new.boot THEN new.boot ELSE wfp.boot]
           /\ told' = IF old.boot # new.boot THEN Kind(new.boot) ELSE told
           /\ transport' = new.transport
           /\ timers' = (IF appTimer THEN {"app"} ELSE {}) \cup (IF new.log THEN {"log"} ELSE {})
  BY <1>0, <1>1, <1>2 DEF Reauthed, Kind
<1>3. CASE /\ transport' \in {transport, new.transport}
           /\ told' = IF old.boot # new.boot THEN "unknown" ELSE told
           /\ timers' = IF appTimer THEN {"app"} ELSE {}
           /\ UNCHANGED wfp
  BY <1>0, <1>3 DEF Reauthed
<1>. QED
  BY <1>2, <1>3 DEF ForceReauth, res

(* The flags of a configuration, or of none. *)
LEMMA FlagsOfType ==
  ASSUME bootFlag \in BOOLEAN, NEW c \in DriverConfs \cup {NoConf}
  PROVE  /\ FlagsOf(c) \in FlagsType
         /\ c # NoConf => FlagsOf(c) = c
         /\ c = NoConf => FlagsOf(c).boot = bootFlag /\ FlagsOf(c).log = FALSE
  BY DriverAssumption DEF FlagsOf, FlagsType, DriverAssumption

LEMMA UnregisterOldStep ==
  ASSUME DriverInv, UnregisterOld
  PROVE  DriverInv'
<1>0. /\ wfp' \in [objs : SUBSET Objects, boot : BOOLEAN] /\ wfp'.boot = wfp.boot
      /\ wfp'.objs = {} \/ wfp' = wfp
  BY UnregisterClears DEF DriverInv, DriverTypes, UnregisterOld
<1>1. DriverTypes'
  BY <1>0, FS_EmptySet, ZenonT(60) DEF DriverInv, DriverTypes, PartsInv, UnregisterOld, sessionVars,
     historyVars, Parts, LoadSteps, UnloadSteps, Unset, Filled, Emptied, Between
<1>2. PartsInv'
  BY <1>0, FS_EmptySet DEF DriverInv, DriverTypes, PartsInv, SessionInv, UnregisterOld,
     sessionVars, historyVars, Parts, Opened, LoadSteps, UnloadSteps, Unset, Filled, Emptied,
     Between
<1>3. SessionInv'
  BY DEF DriverInv, DriverTypes, PartsInv, SessionInv, UnregisterOld, sessionVars, historyVars,
     LoadSteps, UnloadSteps, Unset, Filled, Emptied, Between
<1>4. RunningInv'
  BY <1>0 DEF DriverInv, DriverTypes, PartsInv, SessionInv, RunningInv, UnregisterOld,
     sessionVars, historyVars, Opened, LoadSteps, UnloadSteps, Unset, Filled, Emptied, Between
<1>5. ObjectsInv'
  BY <1>0 DEF DriverInv, DriverTypes, PartsInv, SessionInv, RunningInv, ObjectsInv,
     UnregisterOld, sessionVars, historyVars, Opened, LoadSteps, UnloadSteps, Unset, Filled,
     Emptied, Between
<1>. QED
  BY <1>1, <1>2, <1>3, <1>4, <1>5 DEF DriverInv

LEMMA UnregisterProviderStep ==
  ASSUME DriverInv, UnregisterProvider
  PROVE  DriverInv'
<1>0. /\ wfp' \in [objs : SUBSET Objects, boot : BOOLEAN] /\ wfp'.boot = wfp.boot /\ stuck' \in BOOLEAN
      /\ \/ wfp'.objs = {}
         \/ wfp' = wfp /\ (bootFlag \/ stuck')
  <2>1. CASE wfp' = [wfp EXCEPT !.objs = Unregister(@)] /\ stuck' = FALSE
    BY <2>1, UnregisterClears DEF DriverInv, DriverTypes
  <2>2. CASE wfp' = wfp /\ stuck' \in BOOLEAN /\ (bootFlag \/ stuck')
    BY <2>2 DEF DriverInv, DriverTypes
  <2>3. CASE UNCHANGED <<wfp, stuck>> /\ bootFlag
    BY <2>3, <2>2 DEF DriverInv, DriverTypes
  <2>. QED
    BY <2>1, <2>2, <2>3 DEF UnregisterProvider
<1>1. DriverTypes'
  BY <1>0, FS_EmptySet DEF DriverInv, DriverTypes, PartsInv, UnregisterProvider, sessionVars,
     historyVars, Parts, LoadSteps, UnloadSteps, Unset, Filled, Emptied, Between
<1>2. PartsInv'
  BY <1>0, FS_EmptySet DEF DriverInv, DriverTypes, PartsInv, SessionInv, UnregisterProvider,
     sessionVars, historyVars, Parts, Opened, LoadSteps, UnloadSteps, Unset, Filled, Emptied,
     Between
<1>3. SessionInv'
  BY DEF DriverInv, DriverTypes, PartsInv, SessionInv, UnregisterProvider, sessionVars,
     historyVars, LoadSteps, UnloadSteps, Unset, Filled, Emptied, Between
<1>4. RunningInv'
  BY <1>0 DEF DriverInv, DriverTypes, PartsInv, SessionInv, RunningInv, UnregisterProvider,
     sessionVars, historyVars, Opened, LoadSteps, UnloadSteps, Unset, Filled, Emptied, Between
<1>5. ObjectsInv'
  BY <1>0 DEF DriverInv, DriverTypes, PartsInv, ObjectsInv, Kind, UnregisterProvider,
     sessionVars, historyVars, LoadSteps, UnloadSteps, Unset, Filled, Emptied, Between
<1>. QED
  BY <1>1, <1>2, <1>3, <1>4, <1>5 DEF DriverInv

(* The first of two lists joined. *)
LEMMA FirstOfJoined ==
  ASSUME NEW S, NEW a \in Seq(S), NEW b \in Seq(S), Len(a) # 0
  PROVE  Joined(a, b) \in Seq(S) /\ Len(Joined(a, b)) # 0 /\ Joined(a, b)[1] = a[1]
<1>1. Joined(a, b) \in Seq(S)
  BY JoinedFacts DEF Joined
<1>2. Len(Joined(a, b)) # 0
  BY JoinedFacts DEF Joined
<1>3. (a \o b)[1] = a[1]
  OBVIOUS
<1>. QED
  BY <1>1, <1>2, <1>3 DEF Joined

(* What is registered has all that is always there. *)
LEMMA BaseFull == Full(Base) /\ Provider \in Base /\ <<"filter", "stream">> \notin Base
<1>1. Base \subseteq Objects /\ Provider \in Base
  BY Kinds, NameSets DEF Base, Names
<1>2. {<<"filter", "stream">>, <<"filter", "reauth_in">>, <<"filter", "reauth_out">>} \cap Base = {}
  BY Kinds, AllNames DEF Base
<1>. QED
  BY <1>1, <1>2 DEF Full

(* The provider is added first, and not when there is one. *)
LEMMA RegisterRefused ==
  ASSUME NEW objs, Provider \in objs
  PROVE  ~ Register(objs).ok
<1>. DEFINE c == Keys("callout", CalloutOrder)
            f == Keys("filter", <<"connect", "accept">>)
            p == <<Provider>>
            u == Joined(p, c)
            v == Joined(u, <<Sublayer>>)
            w == Joined(v, f)
<1>1. /\ p \in Seq(Objects) /\ Len(p) # 0 /\ p[1] = Provider
      /\ <<Sublayer>> \in Seq(Objects)
  BY Kinds, OneKey
<1>2. c \in Seq(Objects)
  BY NameSeqs, KeysSet, Kinds
<1>3. f \in Seq(Objects)
  BY AllNames, TwoFilters
<1>4. RegisterOrder = w
  BY Zenon DEF RegisterOrder, Joined
<1>. HIDE DEF p, c, f
<1>5. u \in Seq(Objects) /\ Len(u) # 0 /\ u[1] = Provider
  BY <1>1, <1>2, FirstOfJoined
<1>. HIDE DEF u
<1>6. v \in Seq(Objects) /\ Len(v) # 0 /\ v[1] = Provider
  BY <1>1, <1>5, FirstOfJoined
<1>. HIDE DEF v
<1>7. w \in Seq(Objects) /\ Len(w) # 0 /\ w[1] = Provider
  BY <1>3, <1>6, FirstOfJoined
<1>. HIDE DEF w
<1>8. 1 \in DOMAIN w
  BY <1>7
<1>. QED
  BY <1>4, <1>7, <1>8 DEF Register, AddAll

LEMMA RegisterProviderStep ==
  ASSUME DriverInv, RegisterProvider
  PROVE  DriverInv'
<1>0. \/ /\ entry' = "power" /\ told' = told
         /\ wfp' = [objs |-> Base, boot |-> bootFlag] /\ Full(Base)
         /\ Provider \in Base /\ <<"filter", "stream">> \notin Base
      \/ FailLoad /\ UNCHANGED wfp /\ Forgotten
  <2>1. Provider \in wfp.objs => ~ Register(wfp.objs).ok
    BY RegisterRefused
  <2>2. Register({}).objs = Base
    BY RegisterAdds
  <2>3. Full(Base) /\ Provider \in Base /\ <<"filter", "stream">> \notin Base
    BY BaseFull
  <2>. QED
    BY <2>1, <2>2, <2>3 DEF DriverInv, DriverTypes, ObjectsInv, RegisterProvider
<1>01. /\ wfp' \in [objs : SUBSET Objects, boot : BOOLEAN] /\ entry' \in LoadSteps \cup UnloadSteps
       /\ told' \in {"boot", "plain", "unknown"}
  <2>1. /\ wfp \in [objs : SUBSET Objects, boot : BOOLEAN] /\ bootFlag \in BOOLEAN
        /\ told \in {"boot", "plain", "unknown"}
    BY DEF DriverInv, DriverTypes
  <2>2. [objs |-> Base, boot |-> bootFlag] \in [objs : SUBSET Objects, boot : BOOLEAN]
    BY <2>1, BaseFull DEF Full
  <2>3. "power" \in LoadSteps /\ "flush" \in UnloadSteps /\ "un_link" \in UnloadSteps
    BY DEF LoadSteps, UnloadSteps
  <2>. QED
    BY <1>0, <2>1, <2>2, <2>3 DEF FailLoad, Forgotten
<1>1. DriverTypes'
  BY <1>0, <1>01 DEF DriverInv, DriverTypes, RegisterProvider, Forgotten, sessionVars, historyVars
<1>2. PartsInv'
  BY DEF DriverInv, DriverTypes, PartsInv, SessionInv, RegisterProvider, FailLoad, Forgotten,
     Kind, sessionVars, historyVars, Parts, Opened, LoadSteps, UnloadSteps, Unset, Filled,
     Emptied, Between
<1>3. SessionInv'
  BY DEF DriverInv, DriverTypes, PartsInv, SessionInv, RegisterProvider, FailLoad, Forgotten,
     Kind, sessionVars, historyVars, LoadSteps, UnloadSteps, Unset, Filled, Emptied, Between
<1>4. RunningInv'
  BY <1>0 DEF DriverInv, DriverTypes, PartsInv, SessionInv, RunningInv, RegisterProvider,
     FailLoad, Forgotten, Kind, sessionVars, historyVars, Opened, LoadSteps, UnloadSteps,
     Unset, Filled, Emptied, Between
<1>5. ObjectsInv'
  BY <1>0 DEF DriverInv, DriverTypes, PartsInv, RunningInv, ObjectsInv, RegisterProvider,
     FailLoad, Forgotten, Kind, Opened, Full, LoadSteps, UnloadSteps, Unset, Filled, Emptied,
     Between
<1>. QED
  BY <1>1, <1>2, <1>3, <1>4, <1>5 DEF DriverInv

LEMMA CloseDriverStep ==
  ASSUME DriverInv, CloseDriver
  PROVE  DriverInv'
<1>0. Reauthed(FlagsOf(dconf), FlagsOf(NoConf), FALSE)
  <2>1. DriverTypes /\ bootFlag \in BOOLEAN /\ dconf \in DriverConfs \cup {NoConf}
    BY DEF DriverInv, DriverTypes
  <2>2. FlagsOf(dconf) \in FlagsType /\ FlagsOf(NoConf) \in FlagsType
    BY <2>1, FlagsOfType, DriverAssumption DEF DriverAssumption, FlagsType
  <2>3. (FALSE) \in BOOLEAN
    OBVIOUS
  <2>. QED
    BY <2>1, <2>2, <2>3, ForceReauthFacts, Zenon DEF CloseDriver
<1>00. /\ FlagsOf(dconf).boot = bootFlag
       /\ FlagsOf(NoConf).boot = bootFlag /\ FlagsOf(NoConf).log = FALSE
  BY FlagsOfType DEF DriverInv, DriverTypes, SessionInv
<1>1. DriverTypes'
  BY <1>0, <1>00, ZenonT(60) DEF DriverInv, DriverTypes, PartsInv, CloseDriver, Reauthed, Kind, Full, Base,
     sessionVars, historyVars, Parts, LoadSteps, UnloadSteps, Unset, Filled, Emptied, Between
<1>2. PartsInv'
  BY DEF DriverInv, DriverTypes, PartsInv, SessionInv, CloseDriver, Reauthed, Kind, Full, Base,
     sessionVars, historyVars, Parts, Opened, LoadSteps, UnloadSteps, Unset, Filled, Emptied,
     Between
<1>3. SessionInv'
  BY <1>0, <1>00 DEF DriverInv, DriverTypes, PartsInv, SessionInv, CloseDriver, Reauthed, Kind,
     Full, Base, sessionVars, historyVars, LoadSteps, UnloadSteps, Unset, Filled, Emptied,
     Between
<1>4. RunningInv'
  BY <1>0, <1>00 DEF DriverInv, DriverTypes, PartsInv, SessionInv, RunningInv, CloseDriver,
     Reauthed, Kind, Full, Base, sessionVars, historyVars, Opened, LoadSteps, UnloadSteps,
     Unset, Filled, Emptied, Between
<1>5. ObjectsInv'
  BY <1>0, <1>00 DEF DriverInv, DriverTypes, PartsInv, SessionInv, RunningInv, ObjectsInv,
     CloseDriver, Reauthed, Kind, Full, Base, sessionVars, historyVars, Opened, LoadSteps,
     UnloadSteps, Unset, Filled, Emptied, Between
<1>. QED
  BY <1>1, <1>2, <1>3, <1>4, <1>5 DEF DriverInv

LEMMA SetConfStep ==
  ASSUME DriverInv, NEW c \in DriverConfs, SetDriverConf(c)
  PROVE  DriverInv'
<1>1a. PICK periods \in BOOLEAN : ForceReauth(FlagsOf(dconf), c, periods)
  BY DEF SetDriverConf
<1>0. Reauthed(FlagsOf(dconf), c, periods)
  <2>1. DriverTypes /\ bootFlag \in BOOLEAN /\ dconf \in DriverConfs \cup {NoConf}
    BY DEF DriverInv, DriverTypes
  <2>2. FlagsOf(dconf) \in FlagsType /\ c \in FlagsType
    BY <2>1, FlagsOfType, DriverAssumption DEF DriverAssumption, FlagsType
  <2>3. (periods) \in BOOLEAN
    OBVIOUS
  <2>. QED
    BY <2>1, <2>2, <2>3, <1>1a, ForceReauthFacts, Zenon DEF SetDriverConf
<1>00. FlagsOf(dconf).boot = bootFlag
  BY FlagsOfType DEF DriverInv, DriverTypes, SessionInv
<1>01. c.boot \in BOOLEAN /\ c # NoConf
  BY DriverAssumption DEF DriverAssumption
<1>1. DriverTypes'
  BY <1>1a, <1>0, <1>00, <1>01 DEF DriverInv, DriverTypes, PartsInv, SetDriverConf, Reauthed,
     Kind, Full, Base, sessionVars, historyVars, Parts, LoadSteps, UnloadSteps, Unset, Filled,
     Emptied, Between
<1>2. PartsInv'
  BY DEF DriverInv, DriverTypes, PartsInv, SessionInv, SetDriverConf, Reauthed, Kind, Full,
     Base, sessionVars, historyVars, Parts, Opened, LoadSteps, UnloadSteps, Unset, Filled,
     Emptied, Between
<1>3. SessionInv'
  BY <1>1a, <1>0, <1>00, <1>01 DEF DriverInv, DriverTypes, PartsInv, SessionInv, SetDriverConf,
     Reauthed, Kind, Full, Base, sessionVars, historyVars, LoadSteps, UnloadSteps, Unset,
     Filled, Emptied, Between
<1>4. RunningInv'
  BY <1>1a, <1>0, <1>00, <1>01 DEF DriverInv, DriverTypes, PartsInv, SessionInv, RunningInv,
     SetDriverConf, Reauthed, Kind, Full, Base, sessionVars, historyVars, Opened, LoadSteps,
     UnloadSteps, Unset, Filled, Emptied, Between
<1>5. ObjectsInv'
  BY <1>1a, <1>0, <1>00, <1>01 DEF DriverInv, DriverTypes, PartsInv, SessionInv, RunningInv,
     ObjectsInv, SetDriverConf, Reauthed, Kind, Full, Base, sessionVars, historyVars, Opened,
     LoadSteps, UnloadSteps, Unset, Filled, Emptied, Between
<1>. QED
  BY <1>1, <1>2, <1>3, <1>4, <1>5 DEF DriverInv

LEMMA WorkStep ==
  ASSUME DriverInv, Work
  PROVE  DriverInv'
<1>0. Reauthed(FlagsOf(dconf), FlagsOf(dconf), ("app" \in timers))
  <2>1. DriverTypes /\ bootFlag \in BOOLEAN /\ dconf \in DriverConfs \cup {NoConf}
    BY DEF DriverInv, DriverTypes
  <2>2. FlagsOf(dconf) \in FlagsType /\ FlagsOf(dconf) \in FlagsType
    BY <2>1, FlagsOfType, DriverAssumption DEF DriverAssumption, FlagsType
  <2>3. (("app" \in timers)) \in BOOLEAN
    OBVIOUS
  <2>. QED
    BY <2>1, <2>2, <2>3, ForceReauthFacts, Zenon DEF Work
<1>01. /\ "work" \in running /\ "item" \in parts
       /\ dconf = NoConf => FlagsOf(dconf).log = FALSE
  BY FlagsOfType DEF Work, Needs, DriverInv, DriverTypes
<1>1. DriverTypes'
  BY <1>0, <1>01 DEF DriverInv, DriverTypes, PartsInv, Work, Reauthed, Kind, Full, Base, Needs,
     sessionVars, historyVars, Parts, LoadSteps, UnloadSteps, Unset, Filled, Emptied, Between
<1>2. PartsInv'
  BY DEF DriverInv, DriverTypes, PartsInv, SessionInv, Work, Reauthed, Kind, Full, Base, Needs,
     sessionVars, historyVars, Parts, Opened, LoadSteps, UnloadSteps, Unset, Filled, Emptied,
     Between
<1>3. SessionInv'
  BY <1>0, <1>01 DEF DriverInv, DriverTypes, PartsInv, SessionInv, Work, Reauthed, Kind, Full,
     Base, Needs, sessionVars, historyVars, LoadSteps, UnloadSteps, Unset, Filled, Emptied,
     Between
<1>4. RunningInv'
  BY <1>0, <1>01 DEF DriverInv, DriverTypes, PartsInv, SessionInv, RunningInv, Work, Reauthed,
     Kind, Full, Base, Needs, sessionVars, historyVars, Opened, LoadSteps, UnloadSteps, Unset,
     Filled, Emptied, Between
<1>5. ObjectsInv'
  BY <1>0, <1>01 DEF DriverInv, DriverTypes, PartsInv, SessionInv, RunningInv, ObjectsInv,
     Work, Reauthed, Kind, Full, Base, Needs, sessionVars, historyVars, Opened, LoadSteps,
     UnloadSteps, Unset, Filled, Emptied, Between
<1>. QED
  BY <1>1, <1>2, <1>3, <1>4, <1>5 DEF DriverInv

LEMMA RestartStep ==
  ASSUME DriverInv, Restart
  PROVE  DriverInv'
<1>1. DriverTypes'
  BY FS_EmptySet DEF DriverInv, DriverTypes, PartsInv, Restart, AfterRestart, sessionVars,
     historyVars, Parts, LoadSteps, UnloadSteps, Unset, Filled, Emptied, Between
<1>2. PartsInv'
  BY FS_EmptySet DEF DriverInv, DriverTypes, PartsInv, SessionInv, Restart, AfterRestart,
     sessionVars, historyVars, Parts, Opened, LoadSteps, UnloadSteps, Unset, Filled, Emptied,
     Between
<1>3. SessionInv'
  BY DEF DriverInv, DriverTypes, PartsInv, SessionInv, Restart, AfterRestart, sessionVars,
     historyVars, LoadSteps, UnloadSteps, Unset, Filled, Emptied, Between
<1>4. RunningInv'
  BY DEF DriverInv, DriverTypes, PartsInv, SessionInv, RunningInv, Restart, AfterRestart,
     sessionVars, historyVars, Opened, LoadSteps, UnloadSteps, Unset, Filled, Emptied, Between
<1>5. ObjectsInv'
  BY DEF DriverInv, DriverTypes, PartsInv, SessionInv, RunningInv, ObjectsInv, Restart,
     AfterRestart, sessionVars, historyVars, Opened, LoadSteps, UnloadSteps, Unset, Filled,
     Emptied, Between
<1>. QED
  BY <1>1, <1>2, <1>3, <1>4, <1>5 DEF DriverInv

LEMMA InstallCalloutStep ==
  ASSUME DriverInv, InstallCallout
  PROVE  DriverInv'
<1>0. /\ entry = "callouts"
      /\ \/ /\ callouts' \subseteq Callouts /\ IsFiniteSet(callouts') /\ UNCHANGED told
            /\ \/ entry' = "item"
               \/ /\ entry' = "callouts" /\ Cardinality(callouts') \in 0 .. 5
                  /\ callouts' = {CalloutOrder[j] : j \in 1 .. Cardinality(callouts')}
         \/ FailLoad /\ UNCHANGED callouts /\ Forgotten
  <2>. DEFINE n == Cardinality(callouts)
  <2>1. /\ n \in 0 .. 5 /\ callouts = {CalloutOrder[j] : j \in 1 .. n}
        /\ callouts \subseteq Callouts /\ IsFiniteSet(callouts)
    BY DEF DriverInv, DriverTypes, PartsInv, InstallCallout
  <2>2. /\ entry = "callouts"
        /\ \/ /\ callouts' = callouts \cup {CalloutOrder[n + 1]}
              /\ entry' = IF n + 1 = Len(CalloutOrder) THEN "item" ELSE "callouts"
              /\ UNCHANGED told
           \/ FailLoad /\ UNCHANGED callouts /\ Forgotten
    BY DEF InstallCallout
  <2>. HIDE DEF n
  <2>3. Len(CalloutOrder) = 6
    BY DEF CalloutOrder
  <2>. DEFINE x == CalloutOrder[n + 1]
  <2>4. x \in Callouts /\ x \notin callouts
    <3>1. n + 1 \in 1 .. 6 /\ \A j \in 1 .. n : j \in 1 .. 6 /\ j # n + 1
      BY <2>1
    <3>2. \A i, j \in 1 .. 6 : CalloutOrder[i] = CalloutOrder[j] => i = j
      BY <2>3, AllNames
    <3>3. \A j \in 1 .. n : x # CalloutOrder[j]
      BY <3>1, <3>2
    <3>4. x \in Callouts
      <4>1. CalloutOrder \in Seq(Callouts) /\ n + 1 \in 1 .. Len(CalloutOrder)
        BY <2>3, <3>1, NameSeqs
      <4>. QED
        BY <4>1, ElementOfSeq
    <3>. QED
      BY <2>1, <3>3, <3>4
  <2>5. IsFiniteSet(callouts \cup {x}) /\ Cardinality(callouts \cup {x}) = n + 1
    BY <2>1, <2>4, FS_AddElement DEF n
  <2>6. callouts \cup {x} = {CalloutOrder[j] : j \in 1 .. n + 1}
    <3>1. 1 .. n + 1 = (1 .. n) \cup {n + 1}
      BY <2>1
    <3>. QED
      BY <2>1, <3>1
  <2>7. n + 1 = 6 \/ n + 1 \in 0 .. 5
    BY <2>1
  <2>. QED
    BY <2>1, <2>2, <2>3, <2>4, <2>5, <2>6, <2>7
<1>01. entry' \in LoadSteps \cup UnloadSteps /\ told' \in {"boot", "plain", "unknown"}
  <2>1. "item" \in LoadSteps /\ "callouts" \in LoadSteps /\ "flush" \in UnloadSteps /\ "un_link" \in UnloadSteps
    BY DEF LoadSteps, UnloadSteps
  <2>2. told \in {"boot", "plain", "unknown"}
    BY DEF DriverInv, DriverTypes
  <2>. QED
    BY <1>0, <2>1, <2>2 DEF FailLoad, Forgotten
<1>1. DriverTypes'
  BY <1>0, <1>01 DEF DriverInv, DriverTypes, InstallCallout, sessionVars, historyVars
<1>2. PartsInv'
  BY <1>0 DEF DriverInv, DriverTypes, PartsInv, FailLoad, InstallCallout, Opened, LoadSteps,
     UnloadSteps, Unset, Filled, Emptied, Between
<1>3. SessionInv'
  BY DEF DriverInv, DriverTypes, PartsInv, SessionInv, InstallCallout, FailLoad, Forgotten,
     Kind, sessionVars, historyVars, LoadSteps, UnloadSteps, Unset, Filled, Emptied, Between
<1>4. RunningInv'
  BY DEF DriverInv, DriverTypes, PartsInv, SessionInv, RunningInv, InstallCallout, FailLoad,
     Forgotten, Kind, sessionVars, historyVars, Opened, LoadSteps, UnloadSteps, Unset, Filled,
     Emptied, Between
<1>5. ObjectsInv'
  BY DEF DriverInv, DriverTypes, PartsInv, SessionInv, RunningInv, ObjectsInv, InstallCallout,
     FailLoad, Forgotten, Kind, sessionVars, historyVars, Opened, LoadSteps, UnloadSteps,
     Unset, Filled, Emptied, Between
<1>. QED
  BY <1>1, <1>2, <1>3, <1>4, <1>5 DEF DriverInv

LEMMA BeginCallStep ==
  ASSUME DriverInv, NEW c \in Calls, BeginCall(c)
  PROVE  DriverInv'
<1>0. /\ running' = running \cup {c} /\ c \notin running /\ Begins(c)
      /\ c \in {"classify", "stream", "log_dpc", "app_dpc", "time", "power", "work"}
  BY CallsAre DEF BeginCall
<1>01. \/ c = "classify" /\ dconf # NoConf
       \/ c = "stream" /\ <<"filter", "stream">> \in wfp.objs /\ callouts # {} /\ contexts
       \/ c \in {"log_dpc", "app_dpc", "time"} /\ timers # {}
       \/ c = "power" /\ "power" \in parts
  BY <1>0 DEF Begins, FilterCalls
<1>02. c = "classify" \/ c = "stream" \/ c = "log_dpc" \/ c = "app_dpc" \/ c = "time" \/ c = "power"
  BY <1>01
<1>1. DriverTypes'
  BY DEF DriverInv, DriverTypes, PartsInv, BeginCall, sessionVars, historyVars, Parts,
     LoadSteps, UnloadSteps, Unset, Filled, Emptied, Between
<1>2. PartsInv'
  BY DEF DriverInv, DriverTypes, PartsInv, SessionInv, BeginCall, sessionVars, historyVars,
     Parts, Opened, LoadSteps, UnloadSteps, Unset, Filled, Emptied, Between
<1>3. SessionInv'
  BY DEF DriverInv, DriverTypes, PartsInv, SessionInv, BeginCall, sessionVars, historyVars,
     LoadSteps, UnloadSteps, Unset, Filled, Emptied, Between
<1>4. RunningInv'
  BY <1>0, <1>01, <1>02 DEF DriverInv, DriverTypes, PartsInv, SessionInv, RunningInv,
     BeginCall, sessionVars, historyVars, Opened, LoadSteps, UnloadSteps, Unset, Filled,
     Emptied, Between
<1>5. ObjectsInv'
  <2>1. entry \in Emptied /\ running' \cap {"app_dpc", "time", "work"} # {} =>
          running \cap {"app_dpc", "time", "work"} # {}
    <3>1. c \in {"app_dpc", "time"} => entry \notin Emptied
      BY <1>01 DEF DriverInv, DriverTypes, SessionInv, Emptied, UnloadSteps
    <3>. QED
      BY <1>0, <1>02, <3>1
  <2>. QED
    BY <2>1 DEF DriverInv, ObjectsInv, BeginCall, sessionVars, historyVars
<1>. QED
  BY <1>1, <1>2, <1>3, <1>4, <1>5 DEF DriverInv

LEMMA EndCallStep ==
  ASSUME DriverInv, NEW c \in Calls, EndCall(c)
  PROVE  DriverInv'
<1>0. /\ \/ running' = running \ {c}
         \/ c \in {"app_dpc", "time"} /\ running' = (running \ {c}) \cup {"work"}
      /\ c \in running /\ running' \subseteq Calls
  BY CallsAre DEF DriverInv, DriverTypes, EndCall
<1>01. contexts' \in BOOLEAN /\ (contexts' => contexts \/ dconf # NoConf)
  BY DEF DriverInv, DriverTypes, EndCall
<1>1. DriverTypes'
  BY <1>0, <1>01 DEF DriverInv, DriverTypes, PartsInv, EndCall, sessionVars, historyVars,
     Parts, LoadSteps, UnloadSteps, Unset, Filled, Emptied, Between
<1>2. PartsInv'
  BY DEF DriverInv, DriverTypes, PartsInv, SessionInv, EndCall, sessionVars, historyVars,
     Parts, Opened, LoadSteps, UnloadSteps, Unset, Filled, Emptied, Between
<1>3. SessionInv'
  BY <1>0, <1>01 DEF DriverInv, DriverTypes, PartsInv, SessionInv, EndCall, sessionVars,
     historyVars, LoadSteps, UnloadSteps, Unset, Filled, Emptied, Between
<1>4. RunningInv'
  BY <1>0, <1>01 DEF DriverInv, DriverTypes, PartsInv, SessionInv, RunningInv, EndCall,
     sessionVars, historyVars, Opened, LoadSteps, UnloadSteps, Unset, Filled, Emptied, Between
<1>5. ObjectsInv'
  BY <1>0, <1>01 DEF DriverInv, DriverTypes, PartsInv, SessionInv, RunningInv, ObjectsInv,
     EndCall, sessionVars, historyVars, Opened, LoadSteps, UnloadSteps, Unset, Filled, Emptied,
     Between
<1>. QED
  BY <1>1, <1>2, <1>3, <1>4, <1>5 DEF DriverInv

LEMMA ClosePartStep ==
  ASSUME DriverInv, NEW s \in DOMAIN UnloadOrder, ClosePart(s)
  PROVE  DriverInv'
<1>0. \/ s = "defer" /\ UnloadOrder[s].part = "defer" /\ UnloadOrder[s].next = "stat"
      \/ s = "stat" /\ UnloadOrder[s].part = "stat" /\ UnloadOrder[s].next = "buffer"
      \/ s = "buffer" /\ UnloadOrder[s].part = "buffer" /\ UnloadOrder[s].next = "un_item"
      \/ s = "un_item" /\ UnloadOrder[s].part = "item" /\ UnloadOrder[s].next = "un_power"
      \/ s = "un_power" /\ UnloadOrder[s].part = "power" /\ UnloadOrder[s].next = "un_systime"
      \/ s = "un_systime" /\ UnloadOrder[s].part = "systime" /\ UnloadOrder[s].next = "un_provider"
  BY DEF UnloadOrder
<1>1. DriverTypes'
  <2>1. entry' \in UnloadSteps /\ parts' \subseteq Parts /\ contexts' \in BOOLEAN
    BY <1>0 DEF DriverInv, DriverTypes, ClosePart, UnloadSteps
  <2>. QED
    BY <2>1 DEF DriverInv, DriverTypes, ClosePart, historyVars
<1>2. PartsInv'
  BY <1>0 DEF DriverInv, DriverTypes, PartsInv, SessionInv, ClosePart, sessionVars,
     historyVars, Parts, Opened, LoadSteps, UnloadSteps, Unset, Filled, Emptied, Between
<1>3. SessionInv'
  BY <1>0 DEF DriverInv, DriverTypes, PartsInv, SessionInv, ClosePart, sessionVars,
     historyVars, LoadSteps, UnloadSteps, Unset, Filled, Emptied, Between
<1>4. RunningInv'
  BY <1>0 DEF DriverInv, DriverTypes, PartsInv, SessionInv, RunningInv, ClosePart, sessionVars,
     historyVars, Opened, LoadSteps, UnloadSteps, Unset, Filled, Emptied, Between
<1>5. ObjectsInv'
  BY <1>0 DEF DriverInv, DriverTypes, PartsInv, SessionInv, RunningInv, ObjectsInv, ClosePart,
     sessionVars, historyVars, Opened, LoadSteps, UnloadSteps, Unset, Filled, Emptied, Between
<1>. QED
  BY <1>1, <1>2, <1>3, <1>4, <1>5 DEF DriverInv

(* Every step keeps the invariant. *)
LEMMA DriverStep ==
  ASSUME DriverInv, [DriverNext]_driverVars
  PROVE  DriverInv'
<1>1. CASE Load
  BY <1>1, StartLoadStep, CreateDeviceStep, CreateLinkStep, OpenPartsStep, IsBootStep,
     UnregisterOldStep,
     InstallCalloutStep, RegisterWorkerStep, RegisterProviderStep, RegisterPowerStep, RegisterSystimeStep DEF Load
<1>2. CASE Unload
  BY <1>2, StartUnloadStep, CloseTimersStep, ClosePartStep, UnregisterProviderStep,
     RemoveCalloutsStep,
     DeleteDeviceStep DEF Unload
<1>3. CASE Restart
  BY <1>3, RestartStep
<1>4. CASE OpenDevice \/ CloseDriver \/ \E c \in DriverConfs : SetDriverConf(c)
  BY <1>4, OpenDeviceStep, CloseDriverStep, SetConfStep
<1>5. CASE (\E c \in Calls : BeginCall(c) \/ EndCall(c)) \/ Work \/ FlowsEnd
  BY <1>5, BeginCallStep, EndCallStep, WorkStep, FlowsEndStep
<1>6. CASE UNCHANGED driverVars
  <2>1. DriverTypes'
    BY <1>6 DEF DriverInv, DriverTypes, driverVars
  <2>2. PartsInv'
    BY <1>6 DEF DriverInv, PartsInv, driverVars
  <2>3. SessionInv' /\ RunningInv'
    BY <1>6 DEF DriverInv, SessionInv, RunningInv, driverVars
  <2>4. ObjectsInv'
    BY <1>6 DEF DriverInv, ObjectsInv, driverVars
  <2>. QED
    BY <2>1, <2>2, <2>3, <2>4 DEF DriverInv
<1>. QED
  BY <1>1, <1>2, <1>3, <1>4, <1>5, <1>6 DEF DriverNext

(* The inductive invariant. *)
THEOREM DriverInvariant == DriverSpec => []DriverInv
<1>1. DriverInit => DriverInv
  <2> SUFFICES ASSUME DriverInit PROVE DriverInv
    OBVIOUS
  <2>0. MaxLoads \in Nat
    BY DriverAssumption DEF DriverAssumption
  <2>1. DriverTypes
    <3>1. wfp \in [objs : SUBSET Objects, boot : BOOLEAN]
      BY DEF DriverInit
    <3>2. loads \in 0 .. MaxLoads
      BY <2>0 DEF DriverInit
    <3>. QED
      BY <3>1, <3>2, FS_EmptySet DEF DriverInit, DriverTypes
  <2>2. PartsInv
    BY DEF DriverInit, PartsInv, LoadSteps, UnloadSteps, Unset, Filled, Emptied, Between
  <2>3. SessionInv /\ RunningInv
    BY DEF DriverInit, SessionInv, RunningInv, LoadSteps, UnloadSteps, Unset, Filled, Emptied,
       Between
  <2>4. ObjectsInv
    BY DEF DriverInit, ObjectsInv, LoadSteps, UnloadSteps, Unset, Filled, Emptied, Between
  <2>. QED
    BY <2>1, <2>2, <2>3, <2>4 DEF DriverInv
<1>. QED
  BY <1>1, DriverStep, PTL DEF DriverSpec

(* A driver that is not loaded leaves no device, callout or timer, and no   *)
(* object but those of the boot, unless a removal or transaction failed     *)
(* (fort_driver_unload, fort_device_unload).                                *)
THEOREM NothingIsLeft == DriverSpec => []NothingLeft
<1>1. DriverInv => NothingLeft
  BY DEF DriverInv, PartsInv, SessionInv, ObjectsInv, NothingLeft, Unset
<1>. QED
  BY <1>1, DriverInvariant, PTL

(* The filters of the boot are there exactly when the last configuration    *)
(* asked for them (fort_device_unload, fort_prov_is_boot).                  *)
THEOREM BootIsKept == DriverSpec => []BootKept
<1>1. DriverInv => BootKept
  BY DEF DriverInv, DriverTypes, ObjectsInv, BootKept, Between
<1>. QED
  BY <1>1, DriverInvariant, PTL

(* No call uses a part that has been closed, unless it outlived its session *)
(* (fort_device_unload).                                                    *)
THEOREM ClosedIsUnused == DriverSpec => []ClosedUnused
<1>1. DriverInv => ClosedUnused
  <2> SUFFICES ASSUME DriverInv, entry # "off", ~late, NEW c \in running
               PROVE  Needs[c] \subseteq parts
    BY DEF ClosedUnused
  <2>1. /\ Needs["power"] = {"extension"}
        /\ \A x \in Calls : Needs[x] \subseteq Opened \cup {"item"}
    BY CallsAre DEF Needs, Opened
  <2>2. CASE entry = "loaded"
    BY <2>1, <2>2 DEF DriverInv, DriverTypes, PartsInv
  <2>3. CASE entry # "loaded"
    <3>1. c = "power"
      BY <2>3 DEF DriverInv, DriverTypes, RunningInv, PartsInv, Emptied, UnloadSteps, LoadSteps
    <3>2. "extension" \in parts
      BY <3>1 DEF DriverInv, RunningInv, PartsInv, Filled, Emptied, UnloadSteps, Opened
    <3>. QED
      BY <2>1, <3>1, <3>2
  <2>. QED
    BY <2>2, <2>3
<1>. QED
  BY <1>1, DriverInvariant, PTL

(* Of a loaded driver no reauthorization fails because of objects that are  *)
(* there or are not, from any configuration to any other                    *)
(* (fort_callout_force_reauth).                                             *)
THEOREM ReauthNeverRefused == DriverSpec => []NeverRefused
<1>1. DriverInv => NeverRefused
  <2> SUFFICES ASSUME DriverInv, entry = "loaded", NEW c \in DriverConfs \cup {NoConf}
               PROVE  ReauthProv(FlagsOf(dconf), FlagsOf(c)).ok
    BY DEF NeverRefused
  <2>1. /\ Full(wfp.objs) /\ wfp.objs \subseteq Objects /\ transport \in BOOLEAN /\ bootFlag \in BOOLEAN
    BY DEF DriverInv, DriverTypes, ObjectsInv
  <2>2. FlagsOf(c).boot \in BOOLEAN /\ FlagsOf(c).transport \in BOOLEAN
    BY <2>1, FlagsOfType DEF FlagsType
  <2>. QED
    BY <2>1, <2>2, ReauthResult
<1>. QED
  BY <1>1, DriverInvariant, PTL
=============================================================================
