CONSTANTS
  Handles = {h1, h2}
  NoHandle = none
  Program = "static"
  MaxRequests = 1
  MaxData = 0
SPECIFICATION Spec
SYMMETRY Symmetry
INVARIANT
  ClosedAfterWholeAnswer
\* The process may have ended.
CHECK_DEADLOCK FALSE
