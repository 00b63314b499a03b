CONSTANTS
  Windows = {w1, w2, w3}
  MaxClicks = 2
  Desk = Desk
  Null = Null
SPECIFICATION FairSpec
INVARIANTS Inv FocusOnTop
PROPERTIES QuitAnswered ExitHeard
