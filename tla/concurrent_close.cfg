SPECIFICATION Spec
CONSTANTS
  Commands <- MCCommands
  CmdSize <- MCSize
  NoCmd <- MCNone
  SegmentBytes = 2
  Policy = "os"
  Faults = {}
  Closers = {c1, c2}
  c1 = c1
  c2 = c2
  DirDurable = TRUE
  MaxIndex = 2
INVARIANTS CloseFlushes
