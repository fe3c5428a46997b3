CONSTANTS
  FrameMax = 13
  Streams <- MCStreams
  Cuts = {0, 1, 7}
  None = None
  Files <- MCFiles
  RowLines = 2
  BmpHeight = 3
  MaxFrames = 2
  MaxOutside = 2
SPECIFICATION FairSpec
INVARIANTS
  FramesFound
  FrameShown
  NoMixedFrame
  FailuresExplained
PROPERTIES
  ReaderEnds
  DecodeReturns
CHECK_DEADLOCK FALSE
