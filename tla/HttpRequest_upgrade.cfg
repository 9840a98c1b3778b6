CONSTANTS
  Names = {n1}
  NoName = NoName
  MaxLen = 1
  MaxHeaders = 1
  MaxMessages = 2
SPECIFICATION Spec
INVARIANT
  UpgradeChecked
\* The peer may stop sending, and the parser reads nothing after an error.
CHECK_DEADLOCK FALSE
