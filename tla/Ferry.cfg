SPECIFICATION MCSpec
CONSTANTS
  Runs = {r1}
  r1 = r1
  Prev = Prev
  None = None
  Downs = {d1}
  d1 = d1
  Local = Local
  Broken = Broken
  NoDir = NoDir
  ParallelParts = 1
  CtxAware = FALSE
  DiskFaults = TRUE
  Invocations <- TwoPartInvocations
  SizeOf <- Sizes
  Name = Name
  Others <- Nested
INVARIANT PromotesOneUpload
INVARIANT VerifiedWasIntact
INVARIANT AlarmMeansOverwrite
INVARIANT RowIsWhole
CHECK_DEADLOCK FALSE
