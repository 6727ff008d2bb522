CONSTANTS
  BufferSize = 16320
  LogSizeMax = 520
  ClassifySizes = {520, 536}
  TimerSizes = {}
  OutLens = {16320}
  Word = 1073741824
  Irps = {i1}
  NoIrp = NoIrp
  Callers = {c1}
  MaxRecords = 31
  MaxCancels = 0
  MaxCleanups = 0
SPECIFICATION Spec
INVARIANT RecordsFitAlways
