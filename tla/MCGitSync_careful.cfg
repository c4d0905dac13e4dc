CONSTANTS
  d1 = d1
  d2 = d2
  r1 = r1
  r2 = r2
  none = none
  Closed <- none
  DeviceEdits <- TwoOwn
  RemoteEdits <- TwoOther
  MaxTip = 2
  MaxFails = 1
  MaxCrashes = 1
SPECIFICATION FairSpec
PROPERTIES Exchanges EventuallyInSync
