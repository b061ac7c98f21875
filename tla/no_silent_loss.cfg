SPECIFICATION Spec
CONSTANTS
  Commands <- MCCommands
  CmdSize <- MCSize
  NoCmd <- MCNone
  SegmentBytes = 2
  Policy = "interval"
  Faults = {"power", "writeErr", "syncErr", "createErr"}
  Closers = {c1}
  c1 = c1
  DirDurable = TRUE
  MaxIndex = 3
INVARIANTS NoSilentLoss
