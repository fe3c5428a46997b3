CONSTANTS
  LastItem = 2
  MaxSaves = 2
  MaxStrays = 2
SPECIFICATION FairSpec
INVARIANTS
  ItemPlayed
  NoStrayTimer
PROPERTIES
  ProgressEnds
CHECK_DEADLOCK FALSE
