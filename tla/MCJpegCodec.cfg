CONSTANTS
  RowsInArray = 4
  MaxAccess = 2
  Values = {0, 1}
  Zero = 0
  Images <- MCImages
  Torn <- MCTorn
  JunkSeqs <- MCJunkSeqs
  MaxShift = 4
  MCUsPerRow = 3
  DCTSize = 2
  MaxLines = 3
  MaxPortion = 3
  Blocks <- MCBlocks
  SampleBlocks <- MCSampleBlocks
  Divisors = {8, 24}
  Pictures <- MCPictures
  Requests <- MCRequests
  ArithPhotos <- MCArithPhotos
  HuffPhotos <- MCHuffPhotos
  MaxLength = 6
  HUFF_LOOKAHEAD = 3
  MaxEOBRUN = 3
  MAX_CORR_BITS = 26
  MIN_GET_BITS = 25
  Portions = {1, 3}
SPECIFICATION CodecSpec
INVARIANTS
  Coherent
  LinesExact
  SamplesExact
  CoefficientsExplained
  TransformExact
  ArithmeticExact
  HuffmanExact
CHECK_DEADLOCK FALSE
