SPECIFICATION FairSpec
CONSTANTS
  h1 = h1
  none = none
  Handles <- OneHandle
  NoHandle <- none
  OurWindow = 4
  ClientWindow = 1
  Buffer = 3
  MaxPacket = 2
  MaxRequests = 4
INVARIANTS
  TypeOK
  AnswersInOrder
  WindowsAgree
  HandlesAreKnown
PROPERTY
  Answered
