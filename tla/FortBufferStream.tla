-------------------------- MODULE FortBufferStream --------------------------
(* FortBuffer implements LogStream: the records in flight to the client,   *)
(* then those written to its buffer, then those in the blocks form the     *)
(* queue.  What is written for a client that has gone is not in it.        *)
EXTENDS FortBuffer, SequencesExt

InFlight ==
  LET holders == { a \in Actors : held[a].irp = current /\ held[a].recs # <<>> }
  IN IF current = NoIrp \/ holders = {} THEN <<>> ELSE held[CHOOSE a \in holders : TRUE].recs

Written == IF irp = current THEN outRecs ELSE <<>>

Stream ==
  INSTANCE LogStream WITH
    lossy <- missed \/ cleanups # 0,
    queue <- InFlight \o Written \o FlattenSeq([b \in DOMAIN blocks |-> blocks[b].recs])

(* Every step of the buffer, of the callbacks, of the timer, of the client *)
(* and of the cancel routines is a step of the FIFO, or invisible to its   *)
(* reader; it loses records only once a cancel routine has come too late   *)
(* or the client has closed the device.                                    *)
StreamSpec == Stream!Spec
=============================================================================
