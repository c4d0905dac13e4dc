SPECIFICATION LinkSpec
CONSTANTS
  k1 = k1
  k2 = k2
  k3 = k3
  t1 = t1
  t2 = t2
  none = none
  n1 = n1
  n2 = n2
  nameless = nameless
  NameOf <- TwoNamed
  Nameless <- nameless
  Keyboards <- ThreeKeyboards
  None <- none
  Tasks <- TwoTasks
  MaxOps = 1
  MaxTroubles = 1
INVARIANTS
  TypeOK
  NoGhost
  ScanOwnsRadio
CHECK_DEADLOCK FALSE
PROPERTIES
  ForgottenStays
  Reconnects
  OutcomeArrives
