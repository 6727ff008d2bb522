------------------------------ MODULE FortProv ------------------------------
(***************************************************************************)
(* The driver's objects in the Windows Filtering Platform                  *)
(* (common/fortprov.c): a provider, a sublayer, six callouts, and the      *)
(* filters that refer to them.  An object is its key.                      *)
(*                                                                         *)
(* The platform refuses an object whose key exists or whose references do  *)
(* not, and keeps an object that another one refers to.  The code ignores  *)
(* refused deletions and gives up at the first refused addition.           *)
(***************************************************************************)
EXTENDS Naturals, FiniteSets, Sequences, SequencesExt

(* In the order in which fort_callout_install registers them. *)
CalloutOrder ==
  <<"connect", "accept", "stream", "datagram", "in_transport", "out_transport">>

Callouts == ToSet(CalloutOrder)
Reauths == <<"reauth_in", "reauth_out">>

Provider == <<"provider">>
Sublayer == <<"sublayer">>
Keys(kind, names) == [i \in DOMAIN names |-> <<kind, names[i]>>]

Objects ==
  {Provider, Sublayer} \cup ({"callout"} \X Callouts)
    \cup ({"filter"} \X (Callouts \cup ToSet(Reauths)))

(* What refers to an object. *)
Referring ==
  [o \in Objects |->
    CASE o = Provider -> {Sublayer} \cup ({"callout"} \X Callouts)
      [] o = Sublayer -> {"filter"} \X (Callouts \cup ToSet(Reauths))
      [] o[1] = "callout" -> {<<"filter", o[2]>>}
      [] o[1] = "filter" -> {}]

Refers == [o \in Objects |-> {p \in Objects : o \in Referring[p]}]

(* What deleting, or adding, the objects keys[1], keys[2] .. makes of objs. *)
DeleteAll(objs, keys) ==
  LET after[i \in 0 .. Len(keys)] ==
        IF i = 0 THEN objs
        ELSE LET before == after[i - 1] IN
             IF Referring[keys[i]] \cap before = {} THEN before \ {keys[i]} ELSE before
  IN after[Len(keys)]

AddAll(objs, keys) ==
  LET added(i) == objs \cup {keys[j] : j \in 1 .. i - 1} IN
  [objs |-> objs \cup ToSet(keys),
   ok |-> \A i \in DOMAIN keys : keys[i] \notin added(i) /\ Refers[keys[i]] \subseteq added(i)]

(* Mistake: the sublayer is deleted before the filters that refer to it. *)
UnregisterOrder_Early ==
  <<Sublayer>> \o Keys("filter", CalloutOrder \o Reauths) \o Keys("callout", CalloutOrder)
    \o <<Provider>>

(* Mistake: the two filters of the reauthorization are left. *)
UnregisterOrder_NoReauth ==
  Keys("filter", CalloutOrder) \o <<Sublayer>> \o Keys("callout", CalloutOrder) \o <<Provider>>

(* fort_prov_unregister_callouts *)
UnregisterOrder ==
  Keys("filter", CalloutOrder \o Reauths) \o <<Sublayer>> \o Keys("callout", CalloutOrder)
    \o <<Provider>>

Unregister(objs) == DeleteAll(objs, UnregisterOrder)

(* fort_prov_register_callouts: filters of connections are there always. *)
RegisterOrder ==
  <<Provider>> \o Keys("callout", CalloutOrder) \o <<Sublayer>>
    \o Keys("filter", <<"connect", "accept">>)

Register(objs) == AddAll(objs, RegisterOrder)

(* Filters of flows are there while there are statistics. *)
FlowFilters == Keys("filter", <<"stream", "datagram">>)
TransportFilters == Keys("filter", <<"in_transport", "out_transport">>)

FlowUnregister(objs) == DeleteAll(objs, FlowFilters \o TransportFilters)

FlowRegister(objs, withTransport) ==
  AddAll(objs, FlowFilters \o (IF withTransport THEN TransportFilters ELSE <<>>))

(* fort_prov_reauth: two filters that do nothing come or go, for the sake   *)
(* of the change.                                                          *)
ReauthFilters(objs) ==
  IF <<"filter", "reauth_in">> \in objs
    THEN [objs |-> DeleteAll(objs, Keys("filter", Reauths)), ok |-> TRUE]
    ELSE AddAll(objs, Keys("filter", Reauths))

(* What is left after a restart of the system: a persistent provider.      *)
AfterRestart(objs, boot) == IF boot THEN objs \cap {Provider} ELSE {}
=============================================================================
