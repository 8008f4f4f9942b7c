SPECIFICATION Spec
CONSTANTS
  Writers <- TwoWriters
  Dirs <- TwoDirs
  DirOf <- MCDirOf
  Existing <- MCExisting
  MaxBytes = 2
  Old = Old
INVARIANT NoPartialObject
INVARIANT TempsCleaned
INVARIANT QuietListComplete
PROPERTY ImplementsWriter
CHECK_DEADLOCK FALSE
