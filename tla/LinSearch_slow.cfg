SPECIFICATION Spec
CONSTANTS
  Thread = {t1}
  Key = {1}
  Item = {1}
  ARRAY_SIZE = 3
  Faster = FALSE
INVARIANTS
  OneEntryPerKey
CHECK_DEADLOCK FALSE
