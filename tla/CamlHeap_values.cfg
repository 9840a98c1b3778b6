CONSTANTS
  MaxAddr = 4
  MaxChain = 2
SPECIFICATION Spec
INVARIANTS
  TypeOK
  ConnectionKeepsValues
  ChainBalanced
  StaleOnlyIfMoved
  ClientNeedsNoCollection
\* The program may have ended.
CHECK_DEADLOCK FALSE
