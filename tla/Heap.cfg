\* Three blocks of one or two bytes, in any order of allocation and freeing.
SPECIFICATION FairSpec
CONSTANTS
  Blocks = {b1, b2, b3}
  Sizes = {1, 2}
  Base = 1
  NoBlock = NoBlock
  K = 3
INVARIANTS NoWildRead UsedRamExact
PROPERTIES PoolSpec OperationsReturn
