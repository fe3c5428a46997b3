CONSTANTS
  Clip = {1}
  Job = {j1}
  Lister = {l1, l2}
  None = None
SPECIFICATION Spec
INVARIANTS
  ShownListFresh
  IndicatorExplained
  CrashExplained
CHECK_DEADLOCK FALSE
