CONSTANTS
  Handles = {h1}
  NoHandle = none
  Chunks = {c1}
  MaxWrites = 2
SPECIFICATION FairSpec
PROPERTY
  EofClosesConnection
\* The process may have ended.
CHECK_DEADLOCK FALSE
