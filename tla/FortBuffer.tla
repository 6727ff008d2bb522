----------------------------- MODULE FortBuffer -----------------------------
(***************************************************************************)
(* The driver's log buffer (fortbuf.c), the life of the GETLOG requests    *)
(* that read it (fortdev.c) and the code that completes them: classify     *)
(* callbacks and the log timer (fortcout.c).                               *)
(*                                                                         *)
(* Log records are written under the buffer's spin lock either straight    *)
(* into the output buffer of the pending GETLOG request or, when there is  *)
(* none, into a chain of blocks.  A request is taken out of the buffer     *)
(* under the lock but completed only after the lock is released, by the    *)
(* thread that took it; the I/O manager may cancel it at any moment.       *)
(*                                                                         *)
(* A record is its number: 1, 2, 3 ... in the order in which the buffer    *)
(* accepted the records.  Only its length matters besides.                 *)
(***************************************************************************)
EXTENDS Integers, Sequences, FiniteSets

CONSTANTS
  BufferSize,     \* FORT_BUFFER_SIZE: capacity of a block, least GETLOG length
  LogSizeMax,     \* FORT_LOG_SIZE_MAX: flush when less than this is left
  ClassifySizes,  \* lengths of the records classify writes (blocked, blocked IP, new process)
  TimerSizes,     \* lengths of the records the timer writes (time, traffic)
  OutLens,        \* output lengths the client passes with GETLOG
  Word,           \* 2^32: ULONG arithmetic wraps here
  Irps,           \* request packets
  NoIrp,          \* NULL
  Callers,        \* threads running a classify callback
  MaxRecords,     \* bound: records accepted in a behaviour
  MaxCancels,     \* bound: cancellations requested
  MaxCleanups     \* bound: times the client closes the device

Sizes == ClassifySizes \cup TimerSizes

ASSUME BufferAssumption ==
  /\ BufferSize \in Nat \ {0}
  /\ LogSizeMax \in 1 .. BufferSize
  /\ Sizes \subseteq 1 .. BufferSize
  /\ OutLens \subseteq Nat
  /\ \A l \in OutLens : l + BufferSize < Word
  /\ Word \in Nat

ASSUME IrpAssumption ==
  /\ NoIrp \notin Irps
  /\ "timer" \notin Callers
  /\ "canceller" \notin Callers

ASSUME BoundAssumption ==
  MaxRecords \in Nat /\ MaxCancels \in Nat /\ MaxCleanups \in Nat

(* Who may hold a request it has to complete. *)
Actors == Callers \cup {"timer", "canceller"}

VARIABLES
  blocks,      \* data_head .. data_tail: sequence of [recs, top]
  irp,         \* buf->irp, the pending request
  outRecs,     \* what has been written to buf->out
  out_len,     \* buf->out_len, 0 when nothing is pending
  out_top,     \* buf->out_top
  next,        \* number of the next accepted record
  dpc,         \* the timer DPC is inside its critical section
  held,        \* [Actors -> [irp, recs]]: request to complete and the records its info covers
  pending,     \* requests the client has issued and that are not completed
  dispatching, \* pended requests whose cancel routine is not set yet
  routine,     \* requests with a cancel routine
  cancelling,  \* requests whose cancel routine has been called, not run yet
  cancelFlag,  \* requests with Irp->Cancel set
  current,     \* the request the client's reader waits for
  opened,      \* FORT_DEVICE_IS_OPENED
  read,        \* records received by the client, in order
  twice,       \* history: requests completed more than once
  missed,      \* history: a cancel routine did not find its request in the buffer any more
  dropped,     \* history: records freed at open and close, or answered to a closed client
  cancels, cleanups

bufVars == <<blocks, irp, outRecs, out_len, out_top>>
irpVars == <<pending, dispatching, routine, cancelling, cancelFlag, current>>
histVars == <<read, twice, missed, dropped>>
cntVars == <<cancels, cleanups>>
vars == <<bufVars, next, dpc, held, irpVars, opened, histVars, cntVars>>

(* The records of a block chain, and all records the driver still has. *)
RecsOf(s) == { s[k] : k \in DOMAIN s }
BlockRecs == UNION { RecsOf(blocks[b].recs) : b \in DOMAIN blocks }
Stored == RecsOf(outRecs) \cup BlockRecs \cup UNION { RecsOf(held[a].recs) : a \in Actors }

None == [irp |-> NoIrp, recs |-> <<>>]
Block == [recs : Seq(Nat), top : 1 .. BufferSize]

Init ==
  /\ blocks = <<>> /\ irp = NoIrp /\ outRecs = <<>> /\ out_len = 0 /\ out_top = 0
  /\ next = 1 /\ dpc = FALSE
  /\ held = [a \in Actors |-> None]
  /\ pending = {} /\ dispatching = {} /\ routine = {} /\ cancelling = {} /\ cancelFlag = {}
  /\ current = NoIrp /\ opened = FALSE /\ read = <<>>
  /\ twice = {} /\ missed = FALSE /\ dropped = {}
  /\ cancels = 0 /\ cleanups = 0

-----------------------------------------------------------------------------
(* fort_buffer_prepare and the write that follows it under the same lock. *)

(* UINT32 subtraction. *)
Minus32(x, y) == (x - y) % Word

(* "Is it time to flush logs?" *)
TimeToFlush(len, new_top) == Minus32(len, new_top) < LogSizeMax

(* The record goes to the client's buffer. *)
UsePending == blocks = <<>> /\ out_len # 0 /\ out_top < out_len

(* Mistake: a new block is linked before the head. *)
DataAlloc_AtHead(len) ==
  IF blocks = <<>> \/ len > BufferSize - blocks[Len(blocks)].top
  THEN <<[recs |-> <<next>>, top |-> len]>> \o blocks
  ELSE [blocks EXCEPT ![Len(blocks)] =
          [recs |-> Append(@.recs, next), top |-> @.top + len]]

(* The block the record goes to, or a new one when it does not fit. *)
DataAlloc(len) ==
  IF blocks = <<>> \/ len > BufferSize - blocks[Len(blocks)].top
  THEN Append(blocks, [recs |-> <<next>>, top |-> len])
  ELSE [blocks EXCEPT ![Len(blocks)] =
          [recs |-> Append(@.recs, next), top |-> @.top + len]]

TakePending(a, recs) ==
  /\ held' = [held EXCEPT ![a] = [irp |-> irp, recs |-> recs]]
  /\ irp' = NoIrp /\ outRecs' = <<>> /\ out_len' = 0 /\ out_top' = 0

PreparePending(a, len) ==
  /\ UsePending
  /\ LET new_top == out_top + len
         recs == Append(outRecs, next)
     IN IF TimeToFlush(out_len, new_top)
        THEN TakePending(a, recs)
        ELSE /\ out_top' = new_top /\ outRecs' = recs
             /\ UNCHANGED <<held, irp, out_len>>
  /\ UNCHANGED blocks

PrepareBlock(len) ==
  /\ ~UsePending
  /\ blocks' = DataAlloc(len)
  /\ UNCHANGED <<irp, outRecs, out_len, out_top, held>>

(* A failed allocation loses the record and changes nothing: a stutter. *)
Prepare(a, len) ==
  /\ next <= MaxRecords /\ next' = next + 1
  /\ PreparePending(a, len) \/ PrepareBlock(len)

-----------------------------------------------------------------------------
(* Classify callbacks: up to three records in one call, which share the    *)
(* local variable irp; the call completes the request it took when it ends.*)

ClassifyWrite(c, len) ==
  /\ ~dpc
  /\ Prepare(c, len)
  /\ UNCHANGED <<dpc, irpVars, opened, histVars, cntVars>>

(* IoCompleteRequest: what the holder took is handed to the client, or to  *)
(* nobody when the client that issued the request has closed the device.   *)
Complete(a) ==
  LET i == held[a].irp IN
  /\ i # NoIrp
  /\ held' = [held EXCEPT ![a] = None]
  /\ pending' = pending \ {i}
  /\ routine' = routine \ {i}
  /\ twice' = IF i \in pending THEN twice ELSE twice \cup {i}
  /\ IF i = current
     THEN read' = read \o held[a].recs /\ current' = NoIrp /\ UNCHANGED dropped
     ELSE /\ dropped' = IF i \in pending THEN dropped \cup RecsOf(held[a].recs) ELSE dropped
          /\ UNCHANGED <<read, current>>
  /\ UNCHANGED <<bufVars, next, dispatching, cancelling, cancelFlag, opened, missed, cntVars, dpc>>

(* The DPC completes after its critical section. *)
TimerComplete == ~dpc /\ Complete("timer")

-----------------------------------------------------------------------------
(* fort_callout_timer: the records and the flush are one critical section. *)

TimerBegin ==
  /\ ~dpc /\ held["timer"] = None
  /\ dpc' = TRUE
  /\ UNCHANGED <<bufVars, next, held, irpVars, opened, histVars, cntVars>>

TimerWrite(len) ==
  /\ dpc
  /\ Prepare("timer", len)
  /\ UNCHANGED <<dpc, irpVars, opened, histVars, cntVars>>

(* fort_buffer_dpc_flush_pending; the head block moves to an empty pending buffer. *)
FlushPending ==
  LET move == out_top = 0 /\ out_len # 0 /\ blocks # <<>>
      recs == IF move THEN blocks[1].recs ELSE outRecs
  IN /\ IF move \/ out_top # 0
        THEN TakePending("timer", recs)
        ELSE UNCHANGED <<irp, outRecs, out_len, out_top, held>>
     /\ blocks' = IF move THEN Tail(blocks) ELSE blocks

(* Mistake: the critical section ends without the flush. *)
TimerEnd_NoFlush ==
  /\ dpc /\ dpc' = FALSE
  /\ UNCHANGED <<bufVars, held, next, irpVars, opened, histVars, cntVars>>

TimerEnd ==
  /\ dpc /\ dpc' = FALSE
  /\ IF held["timer"] = None THEN FlushPending ELSE UNCHANGED <<bufVars, held>>
  /\ UNCHANGED <<next, irpVars, opened, histVars, cntVars>>

-----------------------------------------------------------------------------
(* FORT_IOCTL_GETLOG. A request packet nobody refers to any more is reused. *)

Referenced(i) ==
  \/ i \in pending \cup dispatching \cup cancelling
  \/ \E a \in Actors : held[a].irp = i

(* The client has one reader, which waits for its request to complete.     *)
(* A shorter buffer than a block is refused before anything changes, and   *)
(* so is a request while another one is pending ("collision").             *)
GetLog(i, len) ==
  /\ opened /\ current = NoIrp /\ ~dpc /\ ~Referenced(i)
  /\ len >= BufferSize
  /\ cancelFlag' = cancelFlag \ {i}
  /\ IF blocks = <<>>
     THEN /\ out_len = 0
          /\ irp' = i /\ out_len' = len /\ out_top' = 0 /\ outRecs' = <<>>
          /\ pending' = pending \cup {i} /\ dispatching' = dispatching \cup {i}
          /\ current' = i
          /\ UNCHANGED <<blocks, read>>
     ELSE /\ len >= blocks[1].top
          /\ read' = read \o blocks[1].recs
          /\ blocks' = Tail(blocks)
          /\ UNCHANGED <<irp, outRecs, out_len, out_top, pending, dispatching, current>>
  /\ UNCHANGED <<next, dpc, held, routine, cancelling, opened, twice, missed, dropped, cntVars>>

(* IoSetCancelRoutine, after the request has become visible to the writers. *)
SetCancelRoutine(i) ==
  /\ i \in dispatching
  /\ dispatching' = dispatching \ {i}
  /\ routine' = IF i \in pending THEN routine \cup {i} ELSE routine
  /\ UNCHANGED <<bufVars, next, dpc, held, pending, cancelling, cancelFlag, current, opened,
                 histVars, cntVars>>

-----------------------------------------------------------------------------
(* Cancellation. IoCancelIrp calls the routine that is set, and only once. *)

CancelIo(i) ==
  /\ cancels < MaxCancels /\ cancels' = cancels + 1
  /\ i \in pending
  /\ cancelFlag' = cancelFlag \cup {i}
  /\ IF i \in routine
     THEN routine' = routine \ {i} /\ cancelling' = cancelling \cup {i}
     ELSE UNCHANGED <<routine, cancelling>>
  /\ UNCHANGED <<bufVars, next, dpc, held, pending, dispatching, current, opened, histVars,
                 cleanups>>

(* Mistake: a cancelled request that is still pending is freed, not completed. *)
CancelPending_Forget(i) ==
  /\ i \in cancelling /\ ~dpc /\ held["canceller"] = None
  /\ cancelling' = cancelling \ {i}
  /\ missed' = (missed \/ i # irp)
  /\ IF i = irp
     THEN irp' = NoIrp /\ outRecs' = <<>> /\ out_len' = 0 /\ out_top' = 0 /\ UNCHANGED held
     ELSE /\ held' = [held EXCEPT !["canceller"] = [irp |-> i, recs |-> <<>>]]
          /\ UNCHANGED <<irp, outRecs, out_len, out_top>>
  /\ UNCHANGED <<blocks, next, dpc, pending, dispatching, routine, cancelFlag, current, opened,
                 read, twice, dropped, cntVars>>

(* Mistake: it is completed without the records written to it. *)
CancelPending_NoData(i) ==
  /\ i \in cancelling /\ ~dpc /\ held["canceller"] = None
  /\ cancelling' = cancelling \ {i}
  /\ missed' = (missed \/ i # irp)
  /\ IF i = irp
     THEN TakePending("canceller", <<>>)
     ELSE /\ held' = [held EXCEPT !["canceller"] = [irp |-> i, recs |-> <<>>]]
          /\ UNCHANGED <<irp, outRecs, out_len, out_top>>
  /\ UNCHANGED <<blocks, next, dpc, pending, dispatching, routine, cancelFlag, current, opened,
                 read, twice, dropped, cntVars>>

(* fort_device_cancel_pending: a request that is no longer in the buffer   *)
(* is completed all the same, with STATUS_CANCELLED and no data.           *)
CancelPending(i) ==
  /\ i \in cancelling /\ ~dpc /\ held["canceller"] = None
  /\ cancelling' = cancelling \ {i}
  /\ missed' = (missed \/ i # irp)
  /\ IF i = irp
     THEN TakePending("canceller", outRecs)
     ELSE /\ held' = [held EXCEPT !["canceller"] = [irp |-> i, recs |-> <<>>]]
          /\ UNCHANGED <<irp, outRecs, out_len, out_top>>
  /\ UNCHANGED <<blocks, next, dpc, pending, dispatching, routine, cancelFlag, current, opened,
                 read, twice, dropped, cntVars>>

-----------------------------------------------------------------------------
(* Open and last close of the device; both drop what waits in the blocks,  *)
(* neither touches the pending request.  The flag of the device and the    *)
(* blocks change in one step; what the code does between the two is of     *)
(* other parts (FortDevice).                                               *)

BufferClear ==
  /\ blocks' = <<>>
  /\ dropped' = dropped \cup BlockRecs

Open ==
  /\ ~opened /\ ~dpc
  /\ opened' = TRUE
  /\ BufferClear
  /\ UNCHANGED <<irp, outRecs, out_len, out_top, next, dpc, held, irpVars, read, twice, missed, cntVars>>

Cleanup ==
  /\ opened /\ ~dpc
  /\ cleanups < MaxCleanups /\ cleanups' = cleanups + 1
  /\ opened' = FALSE /\ current' = NoIrp
  /\ BufferClear
  /\ UNCHANGED <<irp, outRecs, out_len, out_top, next, dpc, held, pending, dispatching, routine,
                 cancelling, cancelFlag, read, twice, missed, cancels>>

Next ==
  \/ \E c \in Callers, len \in ClassifySizes : ClassifyWrite(c, len)
  \/ \E a \in Callers \cup {"canceller"} : Complete(a)
  \/ TimerComplete
  \/ TimerBegin
  \/ \E len \in TimerSizes : TimerWrite(len)
  \/ TimerEnd
  \/ \E i \in Irps, len \in OutLens : GetLog(i, len)
  \/ \E i \in Irps : SetCancelRoutine(i) \/ CancelIo(i) \/ CancelPending(i)
  \/ Open
  \/ Cleanup

Spec == Init /\ [][Next]_vars

(* The log timer ticks, callbacks and dispatch routines return, and the    *)
(* client keeps the device open and keeps reading. The buffer's lock is a  *)
(* queued spin lock, granted in the order of the requests: who waits for   *)
(* it gets it although the timer takes it again and again (SF).            *)
Fairness ==
  /\ WF_vars(TimerBegin) /\ WF_vars(TimerEnd) /\ WF_vars(TimerComplete)
  /\ \A a \in Callers \cup {"canceller"} : WF_vars(Complete(a))
  /\ \A i \in Irps : WF_vars(SetCancelRoutine(i)) /\ SF_vars(CancelPending(i))
  /\ SF_vars(Open)
  /\ SF_vars(\E i \in Irps, len \in OutLens : GetLog(i, len))

FairSpec == Spec /\ Fairness

-----------------------------------------------------------------------------
(* Properties *)

TypeOK ==
  /\ blocks \in Seq(Block)
  /\ irp \in Irps \cup {NoIrp}
  /\ outRecs \in Seq(Nat) /\ out_len \in Nat /\ out_top \in Nat
  /\ next \in 1 .. MaxRecords + 1
  /\ dpc \in BOOLEAN /\ opened \in BOOLEAN /\ missed \in BOOLEAN
  /\ held \in [Actors -> [irp : Irps \cup {NoIrp}, recs : Seq(Nat)]]
  /\ pending \subseteq Irps /\ dispatching \subseteq Irps /\ routine \subseteq Irps
  /\ cancelling \subseteq Irps /\ cancelFlag \subseteq Irps /\ twice \subseteq Irps
  /\ current \in Irps \cup {NoIrp}
  /\ read \in Seq(Nat) /\ dropped \subseteq Nat
  /\ cancels \in 0 .. MaxCancels /\ cleanups \in 0 .. MaxCleanups

(* FORT_LOG_SIZE_MAX is the size of the largest record, so GETLOG never    *)
(* returns more bytes than the client has room for.                        *)
RecordsFitAlways == out_top <= out_len

(* However long the records are, one record at most is written past the    *)
(* room that the flush check left, never a second one.                     *)
OverrunBounded ==
  \A m \in 0 .. BufferSize : (\A s \in Sizes : s <= LogSizeMax + m) => out_top <= out_len + m

(* A pending request is in the buffer exactly while out_len says so, and   *)
(* a buffer without one holds no half-written output.                      *)
PendingConsistent ==
  /\ out_len = 0 <=> irp = NoIrp
  /\ out_len = 0 => out_top = 0 /\ outRecs = <<>>
  /\ out_top = 0 <=> outRecs = <<>>

(* The inductive strengthening of the two properties above: what is left   *)
(* in the client's buffer after each record is LogSizeMax or more, unless  *)
(* a longer record has overrun it, and then no other record is added.      *)
Room ==
  out_len # 0 =>
    /\ out_len \in OutLens /\ out_len >= BufferSize
    /\ \/ out_top = 0
       \/ out_top + LogSizeMax <= out_len
       \/ /\ out_top > out_len
          /\ \A m \in 0 .. BufferSize :
               (\A s \in Sizes : s <= LogSizeMax + m) => out_top <= out_len + m

RoomInv == PendingConsistent /\ Room

(* Two threads never leave with the same request to complete, and none     *)
(* leaves with the one still in the buffer; only a cancel routine that     *)
(* came too late holds, without data, what another thread has taken.       *)
Late(a) == a = "canceller" /\ held[a].recs = <<>>
OneHolder ==
  /\ \A a, b \in Actors :
       a # b /\ held[a].irp = held[b].irp /\ held[a] # None => Late(a) \/ Late(b)
  /\ \A a \in Actors : held[a].irp # NoIrp => held[a].irp # irp

(* The reader never waits for a forgotten request: what it waits for is in *)
(* the buffer or in the hands of a thread that will complete it.           *)
NoRequestForgotten ==
  current # NoIrp => current = irp \/ \E a \in Actors : held[a].irp = current

(* IoCompleteRequest is called twice for a request only after it has been  *)
(* cancelled: writers and timer alone never do.                            *)
CompletedOnce == [][\A i \in twice' \ twice : i \in cancelFlag]_vars

(* The inductive strengthening of the three properties above. *)
OwnerInv ==
  /\ \A a \in Actors : held[a].irp = NoIrp => held[a] = None
  /\ OneHolder
  /\ irp # NoIrp => irp \in pending
  /\ current # NoIrp /\ irp # NoIrp => irp = current
  /\ NoRequestForgotten
  /\ cancelling \subseteq cancelFlag
  /\ held["canceller"].irp # NoIrp => held["canceller"].irp \in cancelFlag
  /\ \A a \in Actors :
       held[a].irp # NoIrp => held[a].irp \in pending \cup cancelFlag

(* As long as the client keeps the device open, records disappear only     *)
(* after a cancel routine completed, without data, a request that somebody *)
(* else had taken (what waits in the blocks is freed at open and close).   *)
NothingLost ==
  ~missed /\ cleanups = 0 => 1 .. next - 1 = RecsOf(read) \cup Stored \cup dropped

(* With one client that reads and the log timer on, every record the       *)
(* buffer accepts is received.                                             *)
EveryRecordRead ==
  \A r \in 1 .. MaxRecords :
    (r < next) ~> (r \in RecsOf(read) \cup dropped \/ missed \/ cleanups # 0)
=============================================================================
