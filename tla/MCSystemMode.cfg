CONSTANT MaxQueue = 3
SPECIFICATION FairSpec
INVARIANTS
  PreviewModePending
  RecordsModeExplained
  ModeTrusted
PROPERTIES
  PreviewReachesMode
  StartupEnds
CHECK_DEADLOCK FALSE
