CONSTANTS
  Null = Null
  Programs = {p, q}
  MaxTicks = 5
  Listeners = {l1, l2}
  CallBlocks = {k1, k2, k3, k4, k5, k6}
  keyCalls = keyCalls
  moveCalls = moveCalls
  clickCalls = clickCalls
  Blocks = {b1, b2, b3, b4, b5}
  Lists = {list1, list2}
  desktop1 = desktop1
  desktop2 = desktop2
  other = other
  Providers = {desktop1, desktop2, other}
  Names = {"desktop", "other"}
  NameOf <- ProviderNames
  Clients = {c1, c2, c3}
  Reserved = 1
  LastNumber = 4
  Free = Free
  Nodes = {n1, n2, n3}
  MaxExecs = 2
  MaxTerminal = 2
SPECIFICATION KernelSpec
INVARIANTS
  OnlyLateTicksAreLost
  CallbacksInv
  ServicesInv
  ListsAreSequences
PROPERTY
  EveryProgramUpdated
