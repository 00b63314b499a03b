CONSTANTS
  Frames <- Mixed
  Clients = {c1, c2}
  Mac <- MacBytes
  NoAddress = NoAddress
  Cap = 3
  MaxFrames = 3
  MaxWire = 9
CHECK_DEADLOCK FALSE
SPECIFICATION FairSpec
INVARIANTS
  Inv
  ReceivedInOrder
  FirstAnswerDecides
PROPERTY
  AnswerIsTaken
