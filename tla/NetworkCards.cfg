CONSTANTS
  R = 4
  IntelFrames = 12
  Faulty = {2, 5}
  RtlR = 3
  RtlFrames = 7
  T = 4
  MaxSends = 30
CHECK_DEADLOCK FALSE
SPECIFICATION CardsSpec
INVARIANT CardsInv
PROPERTIES FramesOnce LagOnlyGrows NothingLeft
