SPECIFICATION Spec
CONSTANTS
  Forms = {f1}
  MaxLevel = 1
  Events = {"veto"}
INVARIANT StoredAreValid
CHECK_DEADLOCK FALSE
