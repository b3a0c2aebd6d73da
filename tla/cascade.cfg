SPECIFICATION Spec
CONSTANTS
  Records <- MCRecords
  Owner <- MCOwner
  Cascade = {"line1", "line2", "lot"}
  CheckIn = {"note"}
  Events = {"veto", "lock"}
INVARIANTS TypeOK RestrictHolds CascadeComplete
PROPERTY DeletionEnds
