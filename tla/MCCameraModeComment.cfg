CONSTANT Call = {c1, c2}
SPECIFICATION FairSpec
PROPERTY CameraPrefCorrect
CHECK_DEADLOCK FALSE
