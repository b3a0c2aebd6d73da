SPECIFICATION Spec
CONSTANTS
  Forms = {f1, f2}
  MaxLevel = 3
  Events = {"veto", "leak", "refuse", "popup"}
INVARIANTS TypeOK FormsNest
PROPERTY CancelKeepsNothing
CHECK_DEADLOCK FALSE
