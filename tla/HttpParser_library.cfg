CONSTANTS
  Libraries <- MCLibraries
  Width = 4
  MaxUrl = 5
  MaxDepth = 2
SPECIFICATION Spec
INVARIANTS
  TypeOK
  Translated
  ErrorMisread
  UrlFieldsRight
  FreedOnceUnlessCalled
  DataOfOwnFrame
\* The program may have gone wrong.
CHECK_DEADLOCK FALSE
