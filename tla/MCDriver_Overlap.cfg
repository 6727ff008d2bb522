\* Two clients whose sessions follow each other closely, the worker, the app timer.
\* Two loads of the driver, each step of which may fail, and one call at a time.
CONSTANTS
  a = a  b = b  w = w  d = d
  Clients = {a, b}
  Workers = {w}
  Callbacks = {d}
  Confs <- MCConfsPeriods
  FlagSets <- NoFlagSets
  BootAtLoad = FALSE
  CanFail = TRUE
  Overlaps = TRUE
  MaxOps = 2
  None = None
  DriverConfs <- MCDriverConfs
  MaxLoads = 2
  MaxCalls = 1
  NoConf = NoConf
CHECK_DEADLOCK FALSE
SPECIFICATION BothSpec
INVARIANTS NoStaleDecisions NothingLeft BootKept ClosedUnused NeverRefused
