CONSTANTS
  p1 = p1
  none = none
  Projects <- OneProject
  NoProject <- none
  Rows <- GitRows
  QCap = 2
  HasStack = TRUE
SPECIFICATION Spec
INVARIANTS BusyHasCompletion ServingIsAttended ServerHasOwner IInv
CONSTRAINT Followed
