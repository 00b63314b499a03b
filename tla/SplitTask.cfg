\* splitTask with five application processors and two calls.
SPECIFICATION FairSpec
CONSTANTS
  N = 5
  MaxCalls = 2
  NoTask = NoTask
  Stack = Stack
INVARIANT ArgumentsStable
PROPERTIES NoOverwrite ForkJoinSafe CallsReturn
