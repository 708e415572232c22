SPECIFICATION FairSpec
CONSTANTS
  Thread = {t1}
  Node = {h, l, n1}
  Head = h
  Last = l
  AddElem = {1}
  RemoveElem = {1}
PROPERTIES
  RemoveReturns
CHECK_DEADLOCK FALSE
