\* Three cores, which all count themselves within a tick of their startup
\* IPI or may take longer. In that case an increment of the core counter can
\* be lost, and core 0 really does wait for ever.
SPECIFICATION FairSpec
CHECK_DEADLOCK FALSE
CONSTANTS
  N = 3
  NoTask = NoTask
  Stack = Stack
INVARIANTS Inv HandsOver
PROPERTY ComesUp
