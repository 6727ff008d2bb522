CONSTANTS
  BufferSize = 4
  LogSizeMax = 2
  ClassifySizes = {1, 2, 3}
  TimerSizes = {1}
  OutLens = {3, 4, 5}
  Word = 64
  Irps = {i1, i2}
  NoIrp = NoIrp
  Callers = {c1, c2}
  MaxRecords = 3
  MaxCancels = 1
  MaxCleanups = 1
SPECIFICATION FairSpec
INVARIANTS NoRequestForgotten NothingLost
PROPERTIES StreamSpec EveryRecordRead
