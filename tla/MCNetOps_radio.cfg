CONSTANTS
  p1 = p1
  none = none
  Projects <- OneProject
  NoProject <- none
  Rows <- RadioRows
  QCap = 2
  HasStack = TRUE
SPECIFICATION Spec
INVARIANTS TaskHoldsRadio
