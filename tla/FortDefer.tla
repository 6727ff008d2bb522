------------------------------ MODULE FortDefer ------------------------------
(***************************************************************************)
(* Deferred packets of the driver (fortpkt.c) and the speed limit of an    *)
(* application group that defers them (fortstat.c, the transport and       *)
(* stream callouts of fortcout.c).                                         *)
(*                                                                         *)
(* When a group has received more than its limit allows in a period of the *)
(* log timer, the outbound ACKs of its TCP flows are dropped and kept, to  *)
(* be injected again when the timer finds the group below its limit.  The  *)
(* first segment of a fragmented flow is cut, and what follows is kept     *)
(* until the cut segment has passed.                                       *)
(*                                                                         *)
(* One group; its packets live in a pool of FORT_PACKETs that lists, the   *)
(* chains being injected and the free chain link through one next pointer, *)
(* so the pointers are modelled as they are.  Every action is a critical   *)
(* section of the defer or stat lock, or one call without a lock.          *)
(***************************************************************************)
EXTENDS Integers, FiniteSets

CONSTANTS
  Flows,          \* TCP flows of the group
  FragmentFlows,  \* those of them that are fragmented
  Packets,        \* FORT_PACKETs; bound: the pool of the code grows as needed
  Nil,            \* NULL
  Limits,         \* [in, out]: limits a client may set, in bytes per period
  Limit0,         \* the limits at the start
  Lens,           \* bytes of data a flow receives at once
  StreamRace,     \* the two callouts of one flow may overlap
  MaxBytes,       \* bound: bytes of the group in one period
  MaxData,        \* bound: data received, retransmissions not counted
  MaxPower        \* bound: the power goes off

ASSUME DeferAssumption ==
  /\ IsFiniteSet(Flows) /\ FragmentFlows \subseteq Flows
  /\ Flows \cap {"timer", "power", "conf", "free", "sent", "in", "out", "stream"} = {}
  /\ IsFiniteSet(Packets) /\ Nil \notin Packets \cup Flows
  /\ Limits \cup {Limit0} \subseteq [in : Nat, out : Nat]
  /\ Lens \subseteq Nat \ {0}
  /\ StreamRace \in BOOLEAN
  /\ {MaxBytes, MaxData, MaxPower} \subseteq Nat

Actors == {"timer", "power", "conf"} \cup Flows  \* a flow's actor sends its segments
Acks == {"in", "out"}                            \* defer->lists: inbound and outbound ACKs
Lists == Acks \cup {"stream"}
FlagNames == {"limitIn", "deferOut", "fragment", "fragmentDefer", "fragmented"}

VARIABLES
  limit,     \* stat->conf_group.limits of the group
  bytes,     \* stat->groups[].traf.in_bytes
  flushBit,  \* stat->group_flush_bits, inbound
  flags,     \* [Flows -> SUBSET FlagNames]: flow->opt.flags
  list,      \* [Lists -> [head, tail]]
  next,      \* [Packets -> pkt->next]
  pktFlow, pktList,  \* [Packets -> whose packet it is, and of which list]
  free,      \* defer->packet_free
  pool,      \* packets the pool has grown to
  listBits,  \* defer->list_bits
  stage,     \* [Actors -> place]
  bits,      \* [Actors -> lists the actor flushes]
  chain,     \* [Actors -> the packet it injects next]
  sending,   \* flows whose stream callout has decided to defer
  sent, passed,  \* packets being injected; their clones have passed the callout
  powerOff,  \* FORT_DEVICE_POWER_OFF
  reauth,    \* flows still to be classified again
  retransmit,  \* flows whose sender may retransmit in this period
  overtaken, \* history: an ACK was being deferred when the power went off
  refused,   \* history: flows cut short, their packets waiting, as another was refused
  data, powers  \* counters of bounds

groupVars == <<limit, bytes, flushBit>>
listVars == <<list, next, pktFlow, pktList, free, pool, listBits>>
actVars == <<stage, bits, chain>>
sentVars == <<sent, passed>>
envVars == <<powerOff, reauth, retransmit, overtaken, refused, data, powers>>
vars == <<groupVars, flags, listVars, actVars, sending, sentVars, envVars>>

(* limit_bits has one bit for both directions; the flow takes it for the   *)
(* inbound one (fort_stat_group_speed_limit).                              *)
ConfFlags(f, l) ==
  (IF l.in # 0 \/ l.out # 0 THEN {"limitIn"} ELSE {}) \cup
  (IF f \in FragmentFlows THEN {"fragment"} ELSE {})

Init ==
  /\ limit = Limit0 /\ bytes = 0 /\ flushBit = FALSE
  /\ flags = [f \in Flows |-> ConfFlags(f, Limit0)]
  /\ list = [l \in Lists |-> [head |-> Nil, tail |-> Nil]]
  /\ next = [p \in Packets |-> Nil]
  /\ pktFlow = [p \in Packets |-> Nil] /\ pktList = [p \in Packets |-> Nil]
  /\ free = Nil /\ pool = {} /\ listBits = {}
  /\ stage = [a \in Actors |-> "idle"]
  /\ bits = [a \in Actors |-> {}]
  /\ chain = [a \in Actors |-> Nil]
  /\ sending = {} /\ sent = {} /\ passed = {}
  /\ powerOff = FALSE /\ reauth = {} /\ retransmit = Flows /\ overtaken = FALSE /\ refused = {}
  /\ data = 0 /\ powers = 0

-----------------------------------------------------------------------------
(* The pool and its lists. *)

(* The packets from p on: those in every set with p and what follows.      *)
Follows(S, p) == {p} \cup { next[q] : q \in S } \subseteq S \cup {Nil}
From(p) == { q \in Packets : \A S \in SUBSET Packets : Follows(S, p) => q \in S }

Waiting(l, f) == { p \in From(list[l].head) : pktFlow[p] = f }

(* fort_defer_packet_get: the head of the free chain, or the packet the    *)
(* array grows by.                                                         *)
CanGet(p) == IF free # Nil THEN p = free
             ELSE Packets # pool /\ p = CHOOSE q \in Packets \ pool : TRUE

(* fort_defer_list_add, and pkt->next = NULL after it. *)
ListAdd(l, p) ==
  LET tail == list[l].tail
  IN /\ list' = [list EXCEPT ![l] = [head |-> IF tail = Nil THEN p ELSE @.head, tail |-> p]]
     /\ next' = [q \in Packets |-> IF q = p THEN Nil ELSE IF q = tail THEN p ELSE next[q]]

(* fort_defer_packet_add and fort_defer_stream_add, under the lock. *)
Add(l, f) ==
  \E p \in Packets :
    /\ CanGet(p)
    /\ free' = IF free = Nil THEN Nil ELSE next[free]
    /\ pool' = pool \cup {p}
    /\ ListAdd(l, p)
    /\ pktFlow' = [pktFlow EXCEPT ![p] = f]
    /\ pktList' = [pktList EXCEPT ![p] = l]
    /\ listBits' = listBits \cup ({l} \cap Acks)

(* fort_defer_list_get on the state s of the lists: the whole list is put  *)
(* before the chain.                                                       *)
ListGet(s, l) ==
  IF s.list[l].head = Nil THEN s
  ELSE [list  |-> [s.list EXCEPT ![l] = [head |-> Nil, tail |-> Nil]],
        next  |-> [s.next EXCEPT ![s.list[l].tail] = s.chain],
        chain |-> s.list[l].head]

Now == [list |-> list, next |-> next, chain |-> Nil]

(* One turn of the loop of fort_defer_list_flow_get; w.pkt is Nil when it  *)
(* has ended.  A packet that is taken out is not unlinked from the one     *)
(* before it that stays.                                                   *)
FlowGetTurn(w, f) ==
  LET pkt == w.pkt
      taken == pktFlow[pkt] = f
      last == taken /\ pkt = w.tail
  IN IF pkt = Nil THEN w
     ELSE [pkt   |-> IF last THEN Nil ELSE w.next[pkt],
           prev  |-> IF taken THEN pkt ELSE w.prev,
           chain |-> IF taken /\ w.prev = Nil THEN pkt ELSE w.chain,
           head  |-> IF taken /\ pkt = w.head THEN w.next[pkt] ELSE w.head,
           tail  |-> IF last THEN Nil ELSE w.tail,
           next  |-> IF ~ taken THEN w.next
                     ELSE [q \in Packets |-> IF q = pkt THEN Nil
                                             ELSE IF q = w.prev THEN pkt ELSE w.next[q]]]

(* Mistake: only the first packet of the list is looked at. *)
FlowGet_First(f) ==
  LET p == list["stream"].head
  IN IF p = Nil \/ pktFlow[p] # f THEN Now
     ELSE [list  |-> [list EXCEPT !["stream"] =
                        [head |-> next[p], tail |-> IF next[p] = Nil THEN Nil ELSE @.tail]],
           next  |-> [next EXCEPT ![p] = Nil],
           chain |-> p]

(* fort_defer_list_flow_get with no chain so far. *)
FlowGet(f) ==
  LET start == [pkt |-> list["stream"].head, prev |-> Nil, chain |-> Nil,
                head |-> list["stream"].head, tail |-> list["stream"].tail, next |-> next]
      turns[n \in 0 .. Cardinality(Packets)] ==
        IF n = 0 THEN start ELSE FlowGetTurn(turns[n - 1], f)
      end == turns[Cardinality(Packets)]
  IN [list  |-> [list EXCEPT !["stream"] = [head |-> end.head, tail |-> end.tail]],
      next  |-> end.next,
      chain |-> end.chain]

Go(a, place) == stage' = [stage EXCEPT ![a] = place]

(* Actor a leaves the lock with what it has taken, to inject it. *)
Leave(a, s, place) ==
  /\ list' = s.list /\ next' = s.next
  /\ chain' = [chain EXCEPT ![a] = s.chain]
  /\ Go(a, place)

(* fort_defer_packet_flush.  "Clear flushed bits" clears none of them: the *)
(* loop before it has shifted them out.  So bits come and never go, and    *)
(* that the code reads them before it takes the lock is not a step here: a *)
(* packet it misses for that counts as deferred after the flush.           *)
TakeAcks(a) ==
  LET todo == bits[a] \cap listBits
      first == IF "in" \in todo THEN ListGet(Now, "in") ELSE Now
      all == IF "out" \in todo THEN ListGet(first, "out") ELSE first
  IN /\ stage[a] = "takeAcks"
     /\ Leave(a, all, "injectAcks")
     /\ bits' = [bits EXCEPT ![a] = {}]
     /\ UNCHANGED <<groupVars, flags, pktFlow, pktList, free, pool, listBits, sending, sentVars,
                    envVars>>

(* fort_defer_stream_flush, for one flow or for all. *)
TakeStream(a) ==
  /\ stage[a] = "takeStream"
  /\ Leave(a, IF a \in Flows THEN FlowGet(a) ELSE ListGet(Now, "stream"), "injectStream")
  /\ UNCHANGED <<groupVars, flags, pktFlow, pktList, free, pool, listBits, bits, sending, sentVars,
                 envVars>>

(* Mistake: the packet becomes the whole free chain. *)
FreedNext_Lost == Nil

FreedNext == free

(* fort_defer_packet_free.  What a packet says is not read any more, and   *)
(* forgotten; its next neither, once it is given to be sent.               *)
Freed(p) ==
  /\ next' = [next EXCEPT ![p] = FreedNext]
  /\ pktFlow' = [pktFlow EXCEPT ![p] = Nil] /\ pktList' = [pktList EXCEPT ![p] = Nil]
  /\ free' = p

(* One turn of fort_defer_packet_inject; a packet that cannot be injected  *)
(* is freed, and lost to its flow.                                         *)
Inject(a) ==
  LET p == chain[a]
  IN /\ p # Nil
     /\ chain' = [chain EXCEPT ![a] = next[p]]
     /\ \/ /\ sent' = sent \cup {p}
           /\ next' = [next EXCEPT ![p] = Nil]
           /\ UNCHANGED <<free, pktFlow, pktList>>
        \/ Freed(p) /\ UNCHANGED sent
     /\ UNCHANGED <<groupVars, flags, list, pool, listBits, stage, bits, sending,
                    passed, envVars>>

(* fort_packet_inject_complete. *)
Complete(p) ==
  /\ p \in sent
  /\ sent' = sent \ {p} /\ passed' = passed \ {p}
  /\ Freed(p)
  /\ UNCHANGED <<groupVars, flags, list, pool, listBits, actVars, sending,
                 envVars>>

-----------------------------------------------------------------------------
(* The speed limit. *)

(* fort_flow_speed_limit: flow f receives n bytes. *)
Receive(f, n) ==
  /\ "limitIn" \in flags[f]
  /\ bytes + n <= MaxBytes
  /\ bytes' = bytes + n
  /\ flags' = [flags EXCEPT ![f] =
                 IF bytes + n >= limit.in THEN @ \cup {"deferOut"} ELSE @ \ {"deferOut"}]
  /\ flushBit' = TRUE
  /\ UNCHANGED <<limit, listVars, actVars, sending, sentVars, powerOff, reauth, overtaken,
                 refused, powers>>

Data(f, n) ==
  /\ data < MaxData
  /\ Receive(f, n)
  /\ data' = data + 1
  /\ UNCHANGED retransmit

(* The sender repeats a byte that was not acknowledged: once a period. *)
Retransmit(f) ==
  /\ f \in retransmit /\ Waiting("out", f) # {}
  /\ Receive(f, 1)
  /\ retransmit' = retransmit \ {f}
  /\ UNCHANGED data

(* Bytes left to the next period. *)
Rest == IF limit.in = 0 \/ bytes <= limit.in THEN 0 ELSE bytes - limit.in

(* Mistake: the counterpart ACKs of inbound data are taken for the inbound ones. *)
Counterpart_Same == "in"

(* Inbound data is limited by its outbound ACKs. *)
Counterpart == "out"

(* fort_stat_dpc_group_flush, in the log timer. *)
Tick ==
  /\ stage["timer"] = "idle"
  /\ retransmit' = Flows
  /\ IF ~ flushBit THEN UNCHANGED <<bytes, flushBit, stage, bits>>
     ELSE /\ bytes' = Rest
          /\ IF Rest < limit.in
             THEN /\ flushBit' = FALSE
                  /\ bits' = [bits EXCEPT !["timer"] = {Counterpart}]
                  /\ Go("timer", "takeAcks")
             ELSE UNCHANGED <<flushBit, bits, stage>>
  /\ UNCHANGED <<limit, flags, listVars, chain, sending, sentVars, powerOff, reauth, overtaken,
                 refused, data, powers>>

(* Mistake: the power is not looked at. *)
Defers_Awake(f) == {"limitIn", "deferOut"} \subseteq flags[f]

Defers(f) == {"limitIn", "deferOut"} \subseteq flags[f] /\ ~ powerOff

(* Flow f sends a pure ACK: the transport callout reads the flags, *)
AckCheck(f) ==
  /\ stage[f] = "idle" /\ Defers(f)
  /\ Go(f, "defer")
  /\ UNCHANGED <<groupVars, flags, listVars, bits, chain, sending, sentVars, envVars>>

(* and defers it, or permits it when it cannot be deferred. *)
AckDefer(f) ==
  /\ stage[f] = "defer"
  /\ \/ Add("out", f)
     \/ UNCHANGED listVars
  /\ Go(f, "idle")
  /\ UNCHANGED <<groupVars, flags, bits, chain, sending, sentVars, envVars>>

(* The clone of an injected ACK gets to the callout: it is permitted, and  *)
(* the flow's ACKs with it until the group is over its limit again.        *)
AckPasses(p) ==
  /\ p \in sent \ passed /\ pktList[p] = "out"
  /\ passed' = passed \cup {p}
  /\ flags' = IF Defers(pktFlow[p]) THEN [flags EXCEPT ![pktFlow[p]] = @ \ {"deferOut"}] ELSE flags
  /\ UNCHANGED <<groupVars, listVars, actVars, sending, sent, envVars>>

-----------------------------------------------------------------------------
(* Fragmentation of the first segment. *)

Serial(f) == StreamRace \/ (f \notin sending /\ stage[f] = "idle")
Cut(f) == {"fragmentDefer", "fragmented"} \cap flags[f] = {"fragmentDefer"}

(* The stream callout: the flow's first data is cut, *)
SendFirst(f) ==
  /\ Serial(f) /\ f \notin sending
  /\ {"fragment", "fragmentDefer", "fragmented"} \cap flags[f] = {"fragment"}
  /\ flags' = [flags EXCEPT ![f] = @ \cup {"fragmentDefer"}]
  /\ UNCHANGED <<groupVars, listVars, actVars, sending, sentVars, envVars>>

(* and the rest of it deferred, *)
SendCheck(f) ==
  /\ Serial(f) /\ f \notin sending /\ Cut(f)
  /\ sending' = sending \cup {f}
  /\ UNCHANGED <<groupVars, flags, listVars, actVars, sentVars, envVars>>

(* or permitted, and the flow not cut any more, when it is refused. *)
SendDefer(f) ==
  /\ f \in sending
  /\ sending' = sending \ {f}
  /\ \/ Add("stream", f) /\ UNCHANGED <<flags, refused>>
     \/ /\ flags' = [flags EXCEPT ![f] = @ \cup {"fragmented"}]
        /\ refused' = IF Waiting("stream", f) = {} THEN refused ELSE refused \cup {f}
        /\ UNCHANGED listVars
  /\ UNCHANGED <<groupVars, actVars, sentVars, powerOff, reauth, retransmit, overtaken, data, powers>>

(* The transport callout: the cut segment leaves. *)
SegmentCheck(f) ==
  /\ Serial(f) /\ stage[f] = "idle" /\ Cut(f)
  /\ Go(f, "takeStream")
  /\ UNCHANGED <<groupVars, flags, listVars, bits, chain, sending, sentVars, envVars>>

SegmentEnd(f) ==
  /\ stage[f] = "injectStream" /\ chain[f] = Nil
  /\ flags' = [flags EXCEPT ![f] = @ \cup {"fragmented"}]
  /\ Go(f, "idle")
  /\ UNCHANGED <<groupVars, listVars, bits, chain, sending, sentVars, envVars>>

-----------------------------------------------------------------------------
(* Power, configuration. *)

(* fort_callback_power: the flag, then the ACKs, then the stream. *)
PowerOff ==
  /\ powers < MaxPower /\ ~ powerOff /\ stage["power"] = "idle"
  /\ powerOff' = TRUE
  /\ powers' = powers + 1
  /\ overtaken' = (\E f \in Flows : stage[f] = "defer")
  /\ bits' = [bits EXCEPT !["power"] = Acks]
  /\ Go("power", "takeAcks")
  /\ UNCHANGED <<groupVars, flags, listVars, chain, sending, sentVars, reauth, retransmit,
                 refused, data>>

PowerOn ==
  /\ powerOff /\ stage["power"] = "idle"
  /\ powerOff' = FALSE
  /\ UNCHANGED <<groupVars, flags, listVars, actVars, sending, sentVars, reauth, retransmit,
                 overtaken, refused, data, powers>>

(* fort_device_control_setconf: bits of limit_2bits that change are lists  *)
(* to be flushed before the flows are classified again.                    *)
ChangedBits(l) == { d \in Acks : (l[d] = 0) # (limit[d] = 0) }

SetLimit(l) ==
  /\ stage["conf"] = "idle" /\ reauth = {}
  /\ limit' = l
  /\ IF ChangedBits(l) = {}
     THEN reauth' = Flows /\ UNCHANGED <<bits, stage>>
     ELSE /\ bits' = [bits EXCEPT !["conf"] = ChangedBits(l)]
          /\ Go("conf", "takeAcks")
          /\ UNCHANGED reauth
  /\ UNCHANGED <<bytes, flushBit, flags, listVars, chain, sending, sentVars, powerOff, retransmit,
                 overtaken, refused, data, powers>>

(* A flush is over. *)
FlushEnd(a) ==
  /\ a \notin Flows /\ chain[a] = Nil
  /\ \/ stage[a] = "injectAcks" /\ Go(a, IF a = "power" THEN "takeStream" ELSE "idle")
     \/ stage[a] = "injectStream" /\ Go(a, "idle")
  /\ reauth' = IF a = "conf" THEN Flows ELSE reauth
  /\ UNCHANGED <<groupVars, flags, listVars, bits, chain, sending, sentVars, powerOff, retransmit,
                 overtaken, refused, data, powers>>

(* fort_flow_add, when the flow is classified again. *)
Reauth(f) ==
  /\ f \in reauth
  /\ reauth' = reauth \ {f}
  /\ flags' = [flags EXCEPT ![f] = ConfFlags(f, limit) \cup (@ \cap {"fragmentDefer", "fragmented"})]
  /\ UNCHANGED <<groupVars, listVars, actVars, sending, sentVars, powerOff, retransmit, overtaken,
                 refused, data, powers>>

-----------------------------------------------------------------------------
(* What an actor does once it has begun. *)
Continue(a) == TakeAcks(a) \/ TakeStream(a) \/ Inject(a) \/ FlushEnd(a)
FlowContinue(f) == AckDefer(f) \/ SendDefer(f) \/ SegmentEnd(f) \/ Reauth(f)
PacketContinue(p) == Complete(p) \/ AckPasses(p)

Next ==
  \/ \E a \in Actors : Continue(a)
  \/ \E f \in Flows :
       \/ \E n \in Lens : Data(f, n)
       \/ Retransmit(f) \/ AckCheck(f) \/ SendFirst(f) \/ SendCheck(f) \/ SegmentCheck(f)
       \/ FlowContinue(f)
  \/ \E p \in Packets : PacketContinue(p)
  \/ Tick \/ PowerOff \/ PowerOn
  \/ \E l \in Limits : SetLimit(l)

Spec == Init /\ [][Next]_vars

(* The log timer runs, and a sender repeats what is not acknowledged.      *)
Fairness ==
  /\ WF_vars(Tick) /\ WF_vars(Continue("timer"))
  /\ \A f \in Flows : WF_vars(Retransmit(f))

FairSpec == Spec /\ Fairness

-----------------------------------------------------------------------------
(* Where packets are. *)
Place(x) ==
  CASE x = "free" -> From(free)
    [] x = "sent" -> sent
    [] x \in Lists -> From(list[x].head)
    [] x \in Actors -> From(chain[x])

AllPlaces == {"free", "sent"} \cup Lists \cup Actors

(* With one fragmented flow at most: however flushes, completions and new  *)
(* packets interleave, a packet of the pool is in one place, free, listed, *)
(* in one chain or being injected; none is lost, injected twice or used    *)
(* again while it is in use; and a list ends at its tail.                  *)
PoolSound ==
  Cardinality(FragmentFlows) <= 1 =>
    /\ \A p \in Packets :
         Cardinality({ x \in AllPlaces : p \in Place(x) }) = IF p \in pool THEN 1 ELSE 0
    /\ \A l \in Lists :
         IF list[l].head = Nil THEN list[l].tail = Nil
         ELSE list[l].tail \in From(list[l].head) /\ next[list[l].tail] = Nil

(* When the power callback has returned, no ACK is deferred, nor will one  *)
(* be before the power is on; unless one was on its way when the flag was  *)
(* set.                                                                    *)
AsleepEmpty ==
  (powerOff /\ stage["power"] = "idle" /\ ~ overtaken) => list["out"].head = Nil

(* As long as the two callouts of a flow do not overlap, and one flow is   *)
(* fragmented: no packet of a flow waits for a segment that has passed.    *)
(* The exception is a flow one of whose later packets could not be         *)
(* deferred.                                                               *)
NotStranded ==
  ~ StreamRace /\ Cardinality(FragmentFlows) <= 1 =>
    \A f \in Flows \ refused :
      "fragmented" \in flags[f] /\ stage[f] # "injectStream" => Waiting("stream", f) = {}

(* A deferred ACK is injected or dropped in the end, while the group has a *)
(* limit and the sender repeats what it sees no ACK of.                    *)
EveryAckSent ==
  \A p \in Packets : p \in From(list["out"].head) ~> p \notin From(list["out"].head)
=============================================================================
