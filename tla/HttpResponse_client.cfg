CONSTANTS
  Texts = {t1, t2}
  MaxWrites = 5
SPECIFICATION Spec
INVARIANTS
  TypeOK
  ClientReadsChunks
  ClientReadsPlain
\* The program may stop writing.
CHECK_DEADLOCK FALSE
