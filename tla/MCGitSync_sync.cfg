CONSTANTS
  d1 = d1
  d2 = d2
  r1 = r1
  r2 = r2
  none = none
  Closed <- none
  DeviceEdits <- TwoOwn
  RemoteEdits <- OneOther
  MaxTip = 1
  MaxFails = 1
  MaxCrashes = 1
SYMMETRY Alike
CONSTRAINT OneLoss
SPECIFICATION Spec
INVARIANTS TypeOK NothingLost
PROPERTIES RemoteHistoryGrows LeavesAsFound
