CONSTANTS
  Value = {v0, v1}
  Default = v0
  Null = Null
  NullText = NullText
  MaxRequests = 1
  MaxTouched = 1
  MaxConfirms = 2
  MaxFaults = 1
SPECIFICATION Spec
INVARIANTS
  DvrAsWanted
  PrefsAgree
  ConfirmAgrees
CHECK_DEADLOCK FALSE
