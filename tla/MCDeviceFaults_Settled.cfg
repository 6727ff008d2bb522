\* One client, the worker and the app timer.
CONSTANTS
  a = a  w = w  d = d
  Clients = {a}
  Workers = {w}
  Callbacks = {d}
  Confs <- MCConfs
  FlagSets <- MCFlagSets
  BootAtLoad = TRUE
  CanFail = TRUE
  Overlaps = FALSE
  MaxOps = 7
  None = None
SPECIFICATION FaultsSpec
INVARIANTS Settled
PROPERTY Reauthorized
