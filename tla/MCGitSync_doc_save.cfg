CONSTANTS
  d1 = d1
  d2 = d2
  r1 = r1
  r2 = r2
  none = none
  Closed <- none
  DeviceEdits <- OneOwn
  RemoteEdits <- OneOther
  MaxTip = 1
  MaxFails = 0
  MaxCrashes = 0
SPECIFICATION Spec
INVARIANT SavesSurviveSync
