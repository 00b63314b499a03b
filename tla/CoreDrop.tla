----------------------------- MODULE CoreDrop ------------------------------
(***************************************************************************)
(* How a terminal moves its screen up by a line (coreDrop in src/src/main.c*)
(* and in the desktop's terminal): every core moves some columns, in place *)
(* and pixel by pixel.                                                     *)
(***************************************************************************)
EXTENDS Naturals

CONSTANTS
  Width, Height,  \* the screen's or the window's, in pixels
  Line,           \* the height of a line of text, 32
  Cores

CoreDropAssumption ==
  /\ Width \in Nat /\ Height \in Nat /\ Line \in Nat \ {0} /\ Line <= Height
  /\ Cores \in Nat \ {0}

Ids == 0 .. Cores - 1
Share == Width \div Cores
Columns == 0 .. Width - 1
Rows == 0 .. Height - 1

VARIABLES
  at,     \* each core's x and y
  pixels  \* the row that the pixel in a place comes from

vars == <<at, pixels>>

Init ==
  /\ at = [id \in Ids |-> [x |-> 0, y |-> 0]]
  /\ pixels = [p \in Columns \X Rows |-> p[2]]

Working(id) == at[id].y < Height - Line /\ Share > 0

(* Broken: the columns of a core begin with the last one of another.       *)
ColumnShared(id) == at[id].x + (IF id = 0 THEN 0 ELSE id * Share - 1)

Column(id) == at[id].x + id * Share

From(id) == at[id].y + Line

Step(id) == IF at[id].x + 1 < Share THEN [x |-> at[id].x + 1, y |-> at[id].y]
            ELSE [x |-> 0, y |-> at[id].y + 1]

coreDrop(id) ==
  /\ Working(id)
  /\ pixels' = [pixels EXCEPT ![<<Column(id), at[id].y>>] = pixels[<<Column(id), From(id)>>]]
  /\ at' = [at EXCEPT ![id] = Step(id)]

Next == \E id \in Ids : coreDrop(id)

Spec == Init /\ [][Next]_vars

Finished == \A id \in Ids : ~Working(id)

-----------------------------------------------------------------------------
TypeOK ==
  /\ at \in [Ids -> [x : {0} \cup 0 .. Share - 1, y : 0 .. Height]]
  /\ pixels \in [Columns \X Rows -> Rows]

(* When all cores are done the columns they have between them have moved   *)
(* up by a line, no pixel twice, although each is read in the screen that  *)
(* is being written; what is left, fewer columns than cores, stays.        *)
MovedUp ==
  Finished =>
    \A x \in Columns, y \in Rows :
      pixels[<<x, y>>] = IF x < Share * Cores /\ y < Height - Line THEN y + Line ELSE y
=============================================================================
