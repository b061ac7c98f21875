SPECIFICATION ReplaySpec
CONSTANTS
  Commands <- MCCommands
  CmdSize <- MCSize
  NoCmd <- MCNone
  SegmentBytes = 2
  Policy = "always"
  Faults = {"kill", "writeErr", "syncErr", "createErr", "dirErr"}
  Closers = {c1}
  c1 = c1
  DirDurable = TRUE
  MaxIndex = 3
  FromIndices <- MCFrom
INVARIANTS AckedSurvive NeverRefused RotationUnblocked ReplayInOrder ReplayComplete ReplayNotMisled
PROPERTIES AckedNeverReassigned
