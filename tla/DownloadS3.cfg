SPECIFICATION Spec
CONSTANTS
  Downs = {d1, d2}
  Writers = {w1}
  d1 = d1
  d2 = d2
  w1 = w1
  Local = Local
  Broken = Broken
  NoDir = NoDir
  None = None
  Shapes <- TwoParts
  ParallelParts = 2
  CtxAware = TRUE
  DiskFaults = FALSE
SYMMETRY DownsSymmetry
INVARIANT UninterruptedIsComplete
INVARIANT RaceLeavesWholeTree
CHECK_DEADLOCK FALSE
