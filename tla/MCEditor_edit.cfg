SPECIFICATION Spec
CONSTANTS
  x = x
  sp = sp
  nl = nl
  junk = junk
  one = one
  none = none
  Chars <- ThreeChars
  Space <- sp
  Newline <- nl
  ECOLS = 2
  MaxLines = 4
  Junk <- junk
  Names <- OneName
  NoFile <- none
  Files <- Given
  Cap = 4
  EVIS = 2
  MaxKeys = 7
CHECK_DEADLOCK FALSE
INVARIANTS
  TypeOK
  SelectionIsAnchorToCursor
  LinesFit
PROPERTIES
  KeepsText
  LooksChangeNothing
