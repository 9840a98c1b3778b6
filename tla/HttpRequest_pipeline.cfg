CONSTANTS
  Names = {n1, n2}
  NoName = NoName
  MaxLen = 1
  MaxHeaders = 1
  MaxMessages = 2
SPECIFICATION Spec
SYMMETRY Symmetry
INVARIANTS
  HeadersAccumulate
  EventsReachLatestHandler
\* The peer may stop sending, and the parser reads nothing after an error.
CHECK_DEADLOCK FALSE
