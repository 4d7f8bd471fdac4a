CONSTANTS
  WordBits = 2
  NWords = 3
  NReserved = 2
  MaxTask = 3
  Depth = 20
SPECIFICATION Spec
CHECK_DEADLOCK FALSE
INVARIANT KernelStackSound
PROPERTIES InterruptsReturn ImplementsTasks
