SPECIFICATION Spec
CONSTANTS
  Commands <- MCCommands
  CmdSize <- MCSize
  NoCmd <- MCNone
  SegmentBytes = 2
  Policy = "always"
  Faults = {"kill", "power"}
  Closers = {c1}
  c1 = c1
  DirDurable = TRUE
  MaxIndex = 3
INVARIANTS AckedSurvive
