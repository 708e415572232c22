SPECIFICATION StructuresSpec
CONSTANTS
  Reader = {r1, r2}
  Size = 2
  Val = {0, 1}
  Zero = 0
  MaxVersion = 4
  Thread = {t1, t2}
  Node = {n1, n2, n3, n4, n5, n6, n7}
  Key = {1, 2, 3}
  Item = {1}
  Client = {c}
  Cell = {1, 2, 3, 4}
  Key2 = {1, 2, 3, 4}
  Item2 = {1}
  Value = {1, 2, 3}
  MaxCells = 4
  Arg = {1, 2}
  MaxObjects = 2
  MaxCalls = 4
  Number = {0, 1, 3}
  INT_MAX = 6
  Addr = {1, 2, 3, 4, 5, 6, 7, 8, 9, 10, 11, 12}
  NTimes = 2
  ARENA = 16
  MaxTurns = 4
  Byte = {47, 49, 57}
  LIMIT = 10
  PRINTLEN = 3
  MaxInput = 8
  MaxTries = 1
INVARIANTS
  CopiesHold
  SearchTree
  ObjectsMeetSpecs
PROPERTIES
  ImplementsRegister
  ReadsReturn
  ImplementsDict
  HeapsMeetSpecs
CHECK_DEADLOCK FALSE
