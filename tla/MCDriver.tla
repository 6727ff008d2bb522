------------------------------ MODULE MCDriver ------------------------------
(* The control plane, and the life of the driver with its objects in the   *)
(* filtering platform.  A run of the model is of either.                   *)
EXTENDS MCFortDevice, FortDriver

(* Statistics; boot-time filters; both, with a limit. *)
MCDriverConfs ==
  { [boot |-> FALSE, log |-> TRUE, transport |-> TRUE],
    [boot |-> TRUE, log |-> FALSE, transport |-> FALSE],
    [boot |-> TRUE, log |-> TRUE, transport |-> TRUE] }

VARIABLE part

BothInit ==
  /\ Init /\ DriverInit
  /\ part \in {"control", "driver"}
  /\ inPeriod => part = "control"

BothNext ==
  \/ part = "control" /\ Next /\ UNCHANGED <<driverVars, part>>
  \/ part = "driver" /\ DriverNext /\ UNCHANGED <<vars, part>>

BothSpec == BothInit /\ [][BothNext]_<<vars, driverVars, part>>
=============================================================================
