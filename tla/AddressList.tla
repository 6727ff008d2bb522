---------------------------- MODULE AddressList ----------------------------
(***************************************************************************)
(* A list of addresses, from the user's text to the driver's decision:     *)
(* Ip4Range (ip4range.cpp) makes sorted arrays of single addresses and of  *)
(* ranges of its lines, ConfUtil writes them into the configuration or a   *)
(* zone, and fort_conf_ip_inlist (fortconf.c) searches them for the        *)
(* address of a connection.                                                *)
(*                                                                         *)
(* Each loop of the code takes an action a turn.  Arrays are sequences,    *)
(* low and high the code's indexes, which begin at 0.                      *)
(***************************************************************************)
EXTENDS Integers, Sequences

CONSTANTS
  LastIp,   \* 2^32 - 1
  MaxLines  \* bound: lines of the list

ASSUME AddressAssumption == LastIp \in Nat /\ MaxLines \in Nat

Ips == 0 .. LastIp

(* What a line says, parsed: one address, an address and a mask, a range. *)
Ranges == { r \in [from : Ips, to : Ips] : r.from <= r.to }

VARIABLES
  lines,        \* the user's list, [1 .. n -> Ranges]
  ipRangeMap,   \* [from -> to]
  next,         \* the number of the line to insert
  taken,        \* keys of the map that are in the arrays
  ipArray, pairFrom, pairTo,
  remote_ip, low, high, answer,
  place         \* "insert", "fill", "written", "ip", "pair" or "done"

parseVars == <<lines, ipRangeMap, next>>
arrayVars == <<taken, ipArray, pairFrom, pairTo>>
findVars == <<remote_ip, low, high, answer>>
addressVars == <<parseVars, arrayVars, findVars, place>>

Lists == UNION { [1 .. n -> Ranges] : n \in 0 .. MaxLines }

AddressStart ==
  /\ ipRangeMap = [f \in {} |-> 0]
  /\ next = 1
  /\ taken = {}
  /\ ipArray = <<>> /\ pairFrom = <<>> /\ pairTo = <<>>
  /\ remote_ip = 0 /\ low = 0 /\ high = 0 /\ answer = FALSE

AddressInit == lines \in Lists /\ AddressStart /\ place = "insert"

-----------------------------------------------------------------------------
(* Ip4Range::fromList *)

InsertLine ==
  /\ place = "insert" /\ next \in DOMAIN lines
  /\ ipRangeMap' = [f \in DOMAIN ipRangeMap \cup {lines[next].from} |->
                      IF f = lines[next].from THEN lines[next].to ELSE ipRangeMap[f]]
  /\ next' = next + 1
  /\ UNCHANGED <<lines, arrayVars, findVars, place>>

InsertEnd ==
  /\ place = "insert" /\ next \notin DOMAIN lines
  /\ place' = "fill"
  /\ UNCHANGED <<parseVars, arrayVars, findVars>>

LastTo == pairTo[Len(pairTo)]

(* The next key: the map is sorted. *)
IsNext(k) == k \in DOMAIN ipRangeMap \ taken /\ \A j \in DOMAIN ipRangeMap \ taken : k <= j

(* Mistake: a gap of one address is merged too. *)
Merges_Gap(k) == pairTo # <<>> /\ k <= LastTo + 2

(* quint32: the address after the last one is 0. *)
Merges(k) == pairTo # <<>> /\ k <= (LastTo + 1) % (LastIp + 1)

(* Ip4Range::fillRange *)
Merge(k) ==
  /\ place = "fill" /\ IsNext(k) /\ Merges(k)
  /\ taken' = taken \cup {k}
  /\ pairTo' = IF ipRangeMap[k] > LastTo THEN [pairTo EXCEPT ![Len(pairTo)] = ipRangeMap[k]] ELSE pairTo
  /\ UNCHANGED <<parseVars, ipArray, pairFrom, findVars, place>>

AppendIp(k) ==
  /\ place = "fill" /\ IsNext(k) /\ ~ Merges(k) /\ ipRangeMap[k] = k
  /\ taken' = taken \cup {k}
  /\ ipArray' = Append(ipArray, k)
  /\ UNCHANGED <<parseVars, pairFrom, pairTo, findVars, place>>

AppendPair(k) ==
  /\ place = "fill" /\ IsNext(k) /\ ~ Merges(k) /\ ipRangeMap[k] # k
  /\ taken' = taken \cup {k}
  /\ pairFrom' = Append(pairFrom, k)
  /\ pairTo' = Append(pairTo, ipRangeMap[k])
  /\ UNCHANGED <<parseVars, ipArray, findVars, place>>

(* ConfUtil::writeAddressList, and the driver has the arrays. *)
FillEnd ==
  /\ place = "fill" /\ DOMAIN ipRangeMap \subseteq taken
  /\ place' = "written"
  /\ UNCHANGED <<parseVars, arrayVars, findVars>>

-----------------------------------------------------------------------------
(* fort_conf_ip_inlist: fort_conf_ip_inarr, then fort_conf_ip_inrange,     *)
(* both by fort_conf_ip_find.                                              *)

Array(p) == IF p = "ip" THEN ipArray ELSE pairFrom

(* The begin of fort_conf_ip_find: of nothing to search, FALSE. *)
Search(p) == low' = 0 /\ high' = Len(Array(p)) - 1 /\ place' = p

(* A connection comes. *)
Ask ==
  /\ place = "written"
  /\ remote_ip' \in Ips
  /\ answer' = FALSE
  /\ Search("ip")
  /\ UNCHANGED <<parseVars, arrayVars>>

mid == (low + high) \div 2
mid_ip == Array(place)[mid + 1]

Probe ==
  /\ place \in {"ip", "pair"} /\ low <= high
  /\ \/ /\ remote_ip < mid_ip
        /\ high' = mid - 1
        /\ UNCHANGED <<low, answer, place>>
     \/ /\ remote_ip > mid_ip
        /\ low' = mid + 1
        /\ UNCHANGED <<high, answer, place>>
     \/ /\ remote_ip = mid_ip
        /\ answer' = TRUE /\ place' = "done"
        /\ UNCHANGED <<low, high>>
  /\ UNCHANGED <<parseVars, arrayVars, remote_ip>>

NotInArray ==
  /\ place = "ip" /\ low > high
  /\ Search("pair")
  /\ UNCHANGED <<parseVars, arrayVars, remote_ip, answer>>

(* The range that begins last before the address. *)
InRange ==
  /\ place = "pair" /\ low > high
  /\ answer' = (high >= 0 /\ remote_ip >= pairFrom[high + 1] /\ remote_ip <= pairTo[high + 1])
  /\ place' = "done"
  /\ UNCHANGED <<parseVars, arrayVars, remote_ip, low, high>>

AddressNext ==
  \/ InsertLine \/ InsertEnd
  \/ \E k \in Ips : Merge(k) \/ AppendIp(k) \/ AppendPair(k)
  \/ FillEnd
  \/ Ask \/ Probe \/ NotInArray \/ InRange

AddressSpec == AddressInit /\ [][AddressNext]_addressVars

-----------------------------------------------------------------------------
Within(r, ip) == r.from <= ip /\ ip <= r.to

Listed(ip) == \E n \in DOMAIN lines : Within(lines[n], ip)

(* A range is lost to a shorter one below it that begins where it does:    *)
(* the map keeps the last.                                                 *)
Lost ==
  \E m, n \in DOMAIN lines : m < n /\ lines[m].from = lines[n].from /\ lines[m].to > lines[n].to

(* A range begins inside of one that ends at the last address of all: it   *)
(* is not merged, and hides what is behind it.                             *)
Hidden ==
  \E m, n \in DOMAIN lines : lines[m].to = LastIp /\ lines[m].from < lines[n].from

(* An address is found only when a line of the list has it; and it is      *)
(* found when a line has it, whatever ranges overlap, touch or contain one *)
(* another and whatever their order, but for lists with one of these flaws.*)
Sound == answer => Listed(remote_ip)
Complete == Listed(remote_ip) => answer \/ Lost \/ Hidden
AddressDecided == place = "done" => Sound /\ Complete
=============================================================================
