SPECIFICATION FairSpec
CONSTANTS
  Runs = {r1, r2}
  r1 = r1
  r2 = r2
  Prev = Prev
  None = None
  ParallelParts = 0
  CtxAware = FALSE
  Invocations <- TwoPartInvocations
INVARIANT PublishedComplete
INVARIANT FailureIsUnpublished
PROPERTY QuietAfterReturn
PROPERTY Terminates
CHECK_DEADLOCK FALSE
