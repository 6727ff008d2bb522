----------------------------- MODULE LogStream -----------------------------
(***************************************************************************)
(* What the log buffer promises to a client that keeps reading: a FIFO.    *)
(* Records are received in the order in which they were accepted, each     *)
(* once, in batches of any size; only the newest ones may be discarded     *)
(* (when the device is opened, fort_buffer_clear), unless the stream has   *)
(* become lossy: then a part of it may be lost.                            *)
(***************************************************************************)
EXTENDS Integers, Sequences

CONSTANT MaxRecords

VARIABLES queue, read, next, lossy

vars == <<queue, read, next, lossy>>

Init == queue = <<>> /\ read = <<>> /\ next = 1 /\ lossy = FALSE

Accept ==
  /\ next <= MaxRecords
  /\ queue' = Append(queue, next) /\ next' = next + 1
  /\ UNCHANGED <<read, lossy>>

Receive ==
  \E n \in 1 .. Len(queue) :
    /\ read' = read \o SubSeq(queue, 1, n)
    /\ queue' = SubSeq(queue, n + 1, Len(queue))
    /\ UNCHANGED <<next, lossy>>

Discard ==
  \E n \in 0 .. Len(queue) - 1 :
    queue' = SubSeq(queue, 1, n) /\ UNCHANGED <<read, next, lossy>>

Lose ==
  /\ lossy'
  /\ \E m \in 0 .. Len(queue) : \E n \in m .. Len(queue) :
       queue' = SubSeq(queue, 1, m) \o SubSeq(queue, n + 1, Len(queue))
  /\ next' \in {next, next + 1}
  /\ UNCHANGED read

Next == Accept \/ Receive \/ Discard \/ Lose

Spec == Init /\ [][Next]_vars
=============================================================================
