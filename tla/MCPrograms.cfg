SPECIFICATION ProgramsSpec
CONSTANTS
  N = 5
  Keys <- MCKeys
  Key = {3, 7, 11}
  Item = {1}
  ARRAY_SIZE = 4
  Thread = {0, 1, 2}
  NProducers = 2
  Calls = 2
  Stamped = {0, 1, 2, 3}
  NULL = NULL
  SIZE = 2
  MaxSpurious = 1
  Request = {1, 2, 3, 4}
INVARIANTS
  NoUseAfterFree
  TotalIsN
  CountsAreRight
  FreedWhenUnused
  StampsInOrder
PROPERTIES
  NoWrapAround
  RequestsServed
  ProgramsEnd
CHECK_DEADLOCK FALSE
