CONSTANTS
  Handles = {h1}
  NoHandle = none
  Program = "server"
  MaxRequests = 3
  MaxData = 2
SPECIFICATION FairSpec
INVARIANTS
  TypeOK
  ResponseWellFormed
  ClosedAfterWholeAnswer
PROPERTIES
  ImplementsUvTcp
  CompleteIsServed
\* The process may have ended.
CHECK_DEADLOCK FALSE
