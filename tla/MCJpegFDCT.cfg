CONSTANTS
  SampleBlocks <- MCSampleBlocks
  Divisors = {8}
SPECIFICATION FdctSpec
INVARIANT CoefficientsExact
CHECK_DEADLOCK FALSE
