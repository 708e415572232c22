SPECIFICATION CollectionsSpec
CONSTANTS
  Thread = {t1, t2}
  Key = {3, 7}
  Item = {1, 2}
  ARRAY_SIZE = 2
  Node = {h, l, n1, n2, n3}
  Head = h
  Last = l
  AddElem = {1, 2}
  RemoveElem = {1, 2}
  AddElem2 = {1, 2}
  RemoveElem2 = {2}
INVARIANTS
  NoDuplicateKeys
  SearchesAreRight
PROPERTIES
  ImplementsMap
  CallsReturn
  ImplementsSet
  SomeReturns
CHECK_DEADLOCK FALSE
