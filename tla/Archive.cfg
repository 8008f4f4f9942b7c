SPECIFICATION Spec
CONSTANTS
  None = None
  Universe <- AllPaths
  Datadirs <- SmallDatadirs
  MaxChanges = 1
INVARIANT Restored
INVARIANT StableFilesKept
INVARIANT PlannedIsUploaded
INVARIANT PartsDisjoint
INVARIANT ExtractsUnlessAbsolute
CHECK_DEADLOCK FALSE
