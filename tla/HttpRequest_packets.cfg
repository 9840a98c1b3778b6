CONSTANTS
  Names = {n1, n2}
  NoName = NoName
  MaxLen = 2
  MaxHeaders = 2
  MaxMessages = 1
SPECIFICATION Spec
SYMMETRY Symmetry
INVARIANTS
  TypeOK
  UrlWholeUnlessCut
  DiesOfUnevenCuts
\* The peer may stop sending, and the parser reads nothing after an error.
CHECK_DEADLOCK FALSE
