SPECIFICATION Spec
CONSTANTS
  Downs = {d1}
  Writers = {w1}
  d1 = d1
  w1 = w1
  Local = Local
  Broken = Broken
  NoDir = NoDir
  None = None
  Shapes <- TwoParts
  ParallelParts = 1
  CtxAware = FALSE
  DiskFaults = FALSE
INVARIANT PromotedComplete
CHECK_DEADLOCK FALSE
