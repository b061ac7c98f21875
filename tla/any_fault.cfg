SPECIFICATION Spec
CONSTANTS
  Commands <- MCCommands
  CmdSize <- MCSize
  NoCmd <- MCNone
  SegmentBytes = 2
  Policy = "interval"
  Faults = {"kill", "power", "writeErr", "syncErr", "createErr", "dirErr"}
  Closers = {c1}
  c1 = c1
  DirDurable = FALSE
  MaxIndex = 2
INVARIANTS TypeOK LogContiguous
