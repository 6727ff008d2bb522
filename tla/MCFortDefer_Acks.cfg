\* A fragmented flow of a group with an inbound limit.
CONSTANTS
  f1 = f1
  Flows = {f1}
  FragmentFlows = {f1}
  q1 = q1  q2 = q2
  Packets = {q1, q2}
  Nil = Nil
  Limits <- MCLimits
  Limit0 <- Inbound
  Lens = {2, 4}
  StreamRace = FALSE
  MaxBytes = 5
  MaxData = 1
  MaxPower = 1
SPECIFICATION FairSpec
INVARIANTS PoolSound AsleepEmpty NotStranded
PROPERTY EveryAckSent
