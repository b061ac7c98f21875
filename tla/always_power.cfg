SPECIFICATION Spec
CONSTANTS
  Commands <- MCCommands
  CmdSize <- MCSize
  NoCmd <- MCNone
  SegmentBytes = 2
  Policy = "always"
  Faults = {"power", "writeErr", "createErr"}
  Closers = {c1}
  c1 = c1
  DirDurable = TRUE
  MaxIndex = 5
INVARIANTS AckedSurvive NeverRefused SealedOnDisk RecoveryInv
PROPERTIES AckedNeverReassigned
