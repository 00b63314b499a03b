------------------------- MODULE MCDesktopPrograms -------------------------
(* What the desktop's programs do by themselves, for TLC: copying the      *)
(* screen and scrolling on all cores, the line that is typed at a          *)
(* terminal, the files and the terminal's directory, the pointer and the   *)
(* windows it drags, and the game. They share no state, so a behaviour is  *)
(* one of one of them.                                                     *)
EXTENDS Integers, TLC

CONSTANTS
  Words, Cores,                           \* of CoreBlit
  DropWidth, DropHeight, Line,            \* of CoreDrop
  Width, Height, BufferSize, Modulus, Prompts,  \* of LineEditor
  Letters, Names, BootFiles, BootFolders, Lines,  \* of FileStore
  Fields, Parts, Stride, EnemyStride, Player, Enemy, NaN,  \* of Game
  Frames, Screen, Size, Steps, None       \* of Pointer, its Windows first

(* Two folders' names begin alike, and a file can be called as a third     *)
(* folder is.                                                              *)
DiskFolders == {<<"/", "a">>, <<"/", "a", "b">>}
DiskNames == DiskFolders \cup {<<"/", "a", "/", "x">>, <<"/", "a", "b", "/", "a">>}
FileNames == DiskNames \cup
  {<<"/", "x">>, <<"/", "a", "/", "b">>, <<"/", "a", "/", "b", "/", "x">>}
TypedLines ==
  {<<".", ".">>, <<"a">>, <<"b">>, <<"a", "b">>, <<"a", "/">>, <<"a", "b", "/">>, <<"b", "/">>,
   <<"a", "/", "b", "/">>, <<"/">>, <<"x">>}

(* A room with a corner and, across one of its corners, a second room.     *)
Map == 1 :> {1, 2, 3} @@ 2 :> {1, 2, 3} @@ 3 :> {1, 2} @@ 4 :> {3, 4}
First == [x |-> 2, y |-> 2]
Second == [x |-> 7, y |-> 4]

(* A screen that leaves a window a little room, and movements that end at  *)
(* and before its edges.                                                   *)
ScreenRoom == [x |-> 25, y |-> 93]
Sizes == [w \in Frames |-> [x |-> 2, y |-> 1]]
Moves == {-24, 0, 24}

VARIABLES
  part,                                                               \* whose behaviour
  copying, copied,                                                    \* CoreBlit
  at, pixels,                                                         \* CoreDrop
  cursorX, cursorY, screen, typing, typingStart, typingBuffer,        \* LineEditor
  typingCurrent, shifts, shift, caps, running, done, keysDown,
  missed, meant, owed,
  files, terminalDirectory,                                           \* FileStore
  player, enemy,                                                      \* Game
  mouse, open, place, dragged, grab                                   \* Pointer

Blit == INSTANCE CoreBlit WITH i <- copying
Drop == INSTANCE CoreDrop WITH Width <- DropWidth, Height <- DropHeight
Editor == INSTANCE LineEditor
Store == INSTANCE FileStore
World == INSTANCE Game
Point == INSTANCE Pointer WITH Windows <- Frames, at <- place, dragging <- dragged

ASSUME ProgramsAssumption ==
  /\ Point!PointerAssumption /\ Blit!CoreBlitAssumption /\ Drop!CoreDropAssumption
  /\ Editor!LineEditorAssumption /\ Store!FileStoreAssumption /\ World!GameAssumption

blitVars == <<copying, copied>>
dropVars == <<at, pixels>>
editorVars == <<cursorX, cursorY, screen, typing, typingStart, typingBuffer, typingCurrent,
                shifts, shift, caps, running, done, keysDown, missed, meant, owed>>
storeVars == <<files, terminalDirectory>>
gameVars == <<player, enemy>>
pointerVars == <<mouse, open, place, dragged, grab>>
allVars == <<part, blitVars, dropVars, editorVars, storeVars, gameVars, pointerVars>>

AllInit ==
  /\ part \in {"blit", "drop", "editor", "store", "game", "pointer"}
  /\ Blit!Init /\ Drop!Init /\ Editor!Init /\ Store!Init /\ World!Init /\ Point!Init
  /\ part # "store" => files = Store!addFiles(CHOOSE order \in Store!Orders : TRUE)

AllNext ==
  \/ part = "blit" /\ Blit!Next
       /\ UNCHANGED <<part, dropVars, editorVars, storeVars, gameVars, pointerVars>>
  \/ part = "drop"
       /\ (Drop!Next \/ (Drop!Finished /\ UNCHANGED dropVars))
       /\ UNCHANGED <<part, blitVars, editorVars, storeVars, gameVars, pointerVars>>
  \/ part = "editor" /\ Editor!Next
       /\ UNCHANGED <<part, blitVars, dropVars, storeVars, gameVars, pointerVars>>
  \/ part = "store" /\ Store!Next
       /\ UNCHANGED <<part, blitVars, dropVars, editorVars, gameVars, pointerVars>>
  \/ part = "game" /\ World!update
       /\ UNCHANGED <<part, blitVars, dropVars, editorVars, storeVars, pointerVars>>
  \/ part = "pointer" /\ Point!Next
       /\ UNCHANGED <<part, blitVars, dropVars, editorVars, storeVars, gameVars>>

AllSpec == AllInit /\ [][AllNext]_allVars

(* When the task is done every share has been copied, and only fewer words *)
(* than there are cores are left out.                                      *)
SharesCopied == part = "blit" => Blit!SharesCopied

(* Every pixel is moved up by a line once, though all cores move at once.  *)
MovedUp == part = "drop" => Drop!TypeOK /\ Drop!MovedUp

(* The line shown, the line typed and the line executed are one, and it is *)
(* executed once.                                                          *)
EditorInv == part = "editor" => Editor!Inv

(* Listings show every file once, the folder above is the one with a name  *)
(* less, and no line leads from a folder that has files to one that has    *)
(* none.                                                                   *)
StaysInFolders == [](part = "store" => Store!Inv) /\ Store!StaysInFolders

(* Neither player nor enemy gets into a wall or another room; a position   *)
(* is always a number.                                                     *)
StaysInRoom == part = "game" => World!TypeOK /\ World!StaysInRoom

(* The pointer and the windows are where they can be drawn, and the        *)
(* pointer is on the title bar that it drags.                              *)
PointerInv == part = "pointer" => Point!Inv
=============================================================================
