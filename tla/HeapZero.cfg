\* Two blocks, one of which may be empty, as the desktop asks for when it
\* has no window to look through.
SPECIFICATION ClickSpec
CONSTANTS
  Blocks = {b1, b2}
  Sizes = {0, 1}
  Base = 1
  NoBlock = NoBlock
  K = 2
INVARIANT UsedRamExact
