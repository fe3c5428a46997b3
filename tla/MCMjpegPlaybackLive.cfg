CONSTANTS
  p1 = p1
  p2 = p2
  None = None
  Instance = {p1}
  Task <- MCTask
SPECIFICATION FairSpec
PROPERTIES
  StreamsSpec
  UIUnblocked
  ReadDVRCompletes
CHECK_DEADLOCK FALSE
