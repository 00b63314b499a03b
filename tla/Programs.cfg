CONSTANTS
  Nodes = {n1, n2, n3, n4, n5}
  Null = Null
  MaxExecs = 3
  MaxTerminal = 2
SYMMETRY BlockSymmetry
SPECIFICATION Spec
INVARIANTS
  Inv
  WaitsTruthful
  EachUpdatedOnce
