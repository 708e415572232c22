SPECIFICATION Spec
CONSTANTS
  Thread = {t1, t2}
  Node = {h, l, n1, n2, n3}
  Head = h
  Last = l
  AddElem = {1, 2}
  RemoveElem = {1}
PROPERTIES
  ImplementsSet
CHECK_DEADLOCK FALSE
