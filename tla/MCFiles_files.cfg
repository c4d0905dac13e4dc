SPECIFICATION Spec
CONSTANTS
  a = a
  b = b
  c = c
  none = none
  blank = blank
  draft = draft
  t1 = t1
  t2 = t2
  dir = dir
  Names <- ThreeNames
  NoName <- none
  Listed <- CutNames
  Texts <- FourTexts
  Blank <- blank
  Draft <- draft
  Folder <- dir
  Trees <- OneTree
  MaxDepth = 3
  MaxNew = 1
  MaxTroubles = 1
INVARIANT
  TypeOK
PROPERTIES
  TextsStay
  UnsavedIsKept
