---------------------------- MODULE MCFortDefer ----------------------------
(* Limits for FortDefer: what a group receives is limited. *)
EXTENDS FortDefer

Inbound == [in |-> 2, out |-> 0]
MCLimits == {Inbound}
=============================================================================
