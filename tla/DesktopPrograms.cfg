CONSTANTS
  Words = 14
  Cores = 3
  DropWidth = 7
  DropHeight = 5
  Line = 2
  Width = 2
  Height = 4
  BufferSize = 4
  Modulus = 16
  Prompts = {1, 2}
  Letters = {"/", ".", "a", "b", "x"}
  Names <- FileNames
  BootFiles <- DiskNames
  BootFolders <- DiskFolders
  Lines <- TypedLines
  Fields <- Map
  Parts = 2
  Stride = 1
  EnemyStride = 1
  Player <- First
  Enemy <- Second
  NaN = NaN
  Frames = {window1}
  Screen <- ScreenRoom
  Size <- Sizes
  Steps <- Moves
  None = None
SPECIFICATION AllSpec
INVARIANTS SharesCopied MovedUp EditorInv StaysInRoom PointerInv
PROPERTY StaysInFolders
