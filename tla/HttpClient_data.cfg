CONSTANTS
  Requests = {q1}
  None = none
  errno <- MCerrno
  BSD = TRUE
  ConnectErrors <- MCConnectErrors
SPECIFICATION Spec
INVARIANT
  DataReachesCallback
\* The program ends.
CHECK_DEADLOCK FALSE
