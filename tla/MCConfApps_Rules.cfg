\* Two classify callbacks beside the UI; one program; two addresses for blocks.
CONSTANTS
  t1 = t1  t2 = t2  ui = ui  r1 = r1  r2 = r2  r3 = r3  p1 = p1  p2 = p2
  Threads = {ui, t1, t2}
  Setters = {ui}
  Refs = {r1, r2}
  NoRef = NoRef
  Programs = {p1}
  FlagSets <- MCFlagSets
  Addrs = {"inet"}
  NoRule = NoRule  NoBlock = NoBlock  NoJob = NoJob  NoRow = NoRow
  MaxLog = 1
SYMMETRY Symmetry
SPECIFICATION ConfSpec
INVARIANTS HeldIsLive RulesAgree EveryNewReported
