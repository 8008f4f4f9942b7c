SPECIFICATION Spec
CONSTANTS
  Runs = {r1}
  r1 = r1
  Prev = Prev
  None = None
  ParallelParts = 2
  CtxAware = TRUE
  Invocations <- AllInvocations
INVARIANT TypeOK
INVARIANT IntactUnlessRival
INVARIANT SuccessIsPublished
PROPERTY NoSilentReplace
CHECK_DEADLOCK FALSE
