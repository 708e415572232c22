SPECIFICATION QueuesSpec
CONSTANTS
  Thread = {t1, t2, t3}
  Item = {x, y}
  NULL = NULL
  SIZE = 2
  MaxSpurious = 1
  NThreads = 2
  Calls = 2
  Elem = {1, 2, 3}
  MaxSteps = 8
  WORD = 2
  ALIGN = 2
  BINS = 2
  BIGBLOCK = 12
  INT_MAX = 3
  Page = {20, 40}
  Size = {2, 3, 7}
  Count = {0, 3}
SYMMETRY ThreadSymmetry
INVARIANTS
  NoLostWakeup
  QueuesHold
PROPERTIES
  ImplementsFifo
  ImplementsAllocator
CHECK_DEADLOCK FALSE
