CONSTANTS
  Requests = {q1, q2}
  None = none
  errno <- MCerrno
  BSD = TRUE
  ConnectErrors <- MCConnectErrors
SPECIFICATION FairSpec
INVARIANTS
  TypeOK
  OnlyFailureCallsBack
  BufferFreedOnce
  ErrorIdentified
  ExitAfterTimers
  OnlyFailedFreed
PROPERTY
  Settles
\* The program ends.
CHECK_DEADLOCK FALSE
