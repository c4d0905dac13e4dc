CONSTANTS
  p1 = p1
  none = none
  Projects <- OneProject
  NoProject <- none
  Rows <- SftpRows
  QCap = 2
  HasStack = TRUE
SPECIFICATION FairSpec
PROPERTIES AlertSettles BusySettles ServerStops
