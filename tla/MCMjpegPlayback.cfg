CONSTANTS
  p1 = p1
  p2 = p2
  None = None
  Instance <- MCInstance
  Task <- MCTask
SPECIFICATION Spec
SYMMETRY InstanceSymmetry
INVARIANTS
  NoLifecycleCrash
  PreviewLossExplained
  BackgroundPlaybackIsLate
  DecodersExclusive
PROPERTIES
  CloseAfterLastRead
  FreedOnlyByLatePlayback
CHECK_DEADLOCK FALSE
