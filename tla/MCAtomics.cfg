SPECIFICATION AtomicsSpec
CONSTANTS
  Thread = {t1, t2}
  Val = {0, 1, 2}
  Reader = {r1, r2}
  Size = 2
  Writes = 2
  NThreads = 3
  Calls <- MCCalls
  ARRAY_SIZE = 4
INVARIANTS
  NoRace
  TotalIsNumberOfAdds
PROPERTIES
  ReadsAdvance
  ImplementsCell
  SomeReturns
CHECK_DEADLOCK FALSE
