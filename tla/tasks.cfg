CONSTANTS
  WordBits = 2
  NWords = 3
  NReserved = 2
  MaxTask = 3
  Depths = {44, 56}
SPECIFICATION FairSpec
INVARIANTS TableSound StacksSound
PROPERTIES StacksKept EveryTaskRuns
