SPECIFICATION Spec
CONSTANTS
  Writers <- TwoWriters
  Dirs <- TwoDirs
  DirOf <- MCDirOf
  Existing <- MCExisting
  MaxBytes = 2
  Old = Old
CHECK_DEADLOCK FALSE
INVARIANT ListComplete
