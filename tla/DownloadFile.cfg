SPECIFICATION FairSpec
CONSTANTS
  Downs = {d1}
  Writers = {w1, w2}
  d1 = d1
  w1 = w1
  w2 = w2
  Local = Local
  Broken = Broken
  NoDir = NoDir
  None = None
  Shapes <- AllShapes
  ParallelParts = 0
  CtxAware = FALSE
  DiskFaults = FALSE
INVARIANT FailureKeepsOriginal
INVARIANT PromotedVerified
INVARIANT NoLeftovers
PROPERTY UnforcedKeepsFiles
PROPERTY Terminates
CHECK_DEADLOCK FALSE
