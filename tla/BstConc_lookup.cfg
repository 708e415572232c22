SPECIFICATION BstSpec
CONSTANTS
  Thread = {t1, t2}
  Node = {n1, n2, n3, n4, n5, n6, n7}
  Key = {1, 2, 3}
  Item = {1}
INVARIANTS
  LocksFree
CHECK_DEADLOCK FALSE
