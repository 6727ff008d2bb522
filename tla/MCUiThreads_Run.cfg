\* The log reader with three records; the two workers of HostInfoManager, three
\* addresses and a cache of two.  What has been closed does nothing more, nor
\* may anything happen when a cancellation came too early.
CHECK_DEADLOCK FALSE
CONSTANTS
  w1 = w1  w2 = w2  a1 = a1  a2 = a2  a3 = a3
  Workers = {w1, w2}
  MaxWorkers = 2
  Jobs = {a1, a2, a3}
  NoJob = NoJob
  MaxJobs = 3
  MaxCost = 2
  MaxRecords = 3
  MaxResults = 1
SPECIFICATION ThreadsSpec
INVARIANTS JobHasWorker RecordsInOrder
PROPERTIES NamesArrive CloseEnds LogIsRead CancelEnds
