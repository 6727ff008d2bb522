\* One classify callback beside the UI; one program and its name.
CONSTANTS
  t1 = t1  ui = ui  r1 = r1  r2 = r2  p1 = p1  n1 = n1
  Threads = {ui, t1}
  Setters = {ui}
  Refs = {r1, r2}
  NoRef = NoRef
  Programs = {p1, n1}
  NameOf <- MCNameOf
  FlagSets <- MCFlagSets
  Addrs = {"inet"}
  NoRule = NoRule  NoBlock = NoBlock  NoJob = NoJob  NoRow = NoRow
  MaxLog = 1
SPECIFICATION EndsSpec
INVARIANT EndedIsBlocked
