SPECIFICATION Spec
CONSTANTS
  Bases <- MCBases
  MaxExtra = 2
INVARIANTS UnauthenticatedOnlyLocally LogConfigAccepted FixedInOnePass FixedInFourPasses
CHECK_DEADLOCK FALSE
