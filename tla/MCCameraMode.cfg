CONSTANT Call = {c1, c2}
SPECIFICATION FairSpec
INVARIANTS
  CameraPrefExplained
PROPERTY IconReturns
CHECK_DEADLOCK FALSE
