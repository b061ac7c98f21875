SPECIFICATION FairSpec
CONSTANTS
  Commands <- MCCommands
  CmdSize <- MCSize
  NoCmd <- MCNone
  SegmentBytes = 2
  Policy = "interval"
  Faults = {}
  Closers = {c1}
  c1 = c1
  DirDurable = TRUE
  MaxIndex = 4
INVARIANTS SealedOnDisk CloseFlushes
PROPERTIES AckedEventuallyFlushed CloseReturns
