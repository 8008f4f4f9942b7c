SPECIFICATION StreamSpec
CONSTANTS
  PartSize = 2
  Concurrency = 2
  MaxParts = 3
  MaxBytes = 7
  Buffers = {b1, b2, b3, b4, b5}
  b1 = b1
  b2 = b2
  b3 = b3
  b4 = b4
  b5 = b5
  Old = Old
  None = None
SYMMETRY BuffersSymmetry
INVARIANT CommittedIsWritten
INVARIANT QuietTermination
INVARIANT BuffersExclusive
INVARIANT BufferCeiling
INVARIANT NeverStuck
INVARIANT OnlyWholeStreams
INVARIANT ReturnsClean
PROPERTY ImplementsWriter
CHECK_DEADLOCK FALSE
