CONSTANTS
  MaxPosts = 3
SPECIFICATION MenuFairSpec
INVARIANTS
  MenuAgrees
PROPERTIES
  MenuHides
CHECK_DEADLOCK FALSE
