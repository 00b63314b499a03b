CONSTANTS
  Cap = 2
  MaxRaised <- Few
SPECIFICATION FairSpec
INVARIANTS
  Inv
PROPERTIES
  OnlyLateEventsAreLost
  ArraysDrain
