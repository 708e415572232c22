SPECIFICATION FairSpec
CONSTANTS
  N = 2
  VMod = 3
INVARIANTS
  NoRace
  Fresh
  NeverOutOfBuffers
PROPERTIES
  ImplementsBroadcast
  FramesPass
