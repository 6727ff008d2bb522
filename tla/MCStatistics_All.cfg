\* Four flows of three processes, of which the table holds two; two classify threads.
\* A record for each process, so that the timer may stop between two of them.
\* Two programs, five blocked connections of which two are kept, two changes.
CONSTANTS
  f1 = f1  f2 = f2  f3 = f3  f4 = f4  p1 = p1  p2 = p2  p3 = p3
  Threads = {t1, t2}
  Pids = {p1, p2, p3}
  FlowIds = {f1, f2, f3, f4}
  PidOf <- MCPidOf
  ProcMax = 3
  ChunkMax = 1
  RefWord = 5
  Lens = {1}
  NoPid = NoPid
  MaxLog = 3
  MaxBytes = 1
  MaxToggles = 2
  Paths = {p1, p2}
  KeepCount = 2
  IncMax = 2
  MaxLogged = 5
  MaxChanges = 2
CHECK_DEADLOCK FALSE
SYMMETRY Symmetry
CONSTRAINT Unraced
SPECIFICATION StatisticsSpec
INVARIANTS FlowsOnLiveProc TrafficExact TablesAgree TableBounded RowsAgree ListFollows
PROPERTY NewestKept
