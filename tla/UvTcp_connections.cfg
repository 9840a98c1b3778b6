CONSTANTS
  Handles = {h1, h2}
  NoHandle = none
  Chunks = {c1, c2}
  MaxWrites = 2
SPECIFICATION FairSpec
INVARIANTS
  TypeOK
  RootsMatchConnections
  ClosingIsQuiet
  HandlerOnOpenHandle
  WriteReqsAccounted
  OutputInOrder
PROPERTIES
  ImplementsGracefulConn
  EndedIsFreed
\* The process may have ended.
CHECK_DEADLOCK FALSE
