SPECIFICATION NodeSpec
CONSTANTS
  Commands <- MCCommands
  CmdSize <- MCSize
  NoCmd <- MCNone
  SegmentBytes = 2
  Policy = "always"
  Faults = {"kill", "power", "writeErr", "syncErr", "createErr", "dirErr"}
  Closers = {c1}
  c1 = c1
  DirDurable = FALSE
  MaxIndex = 1
INVARIANTS MarkerWhole OnlyForeignRefused RecordsReachable
PROPERTY ForeignUntouched
