------------------------------- MODULE Game --------------------------------
(***************************************************************************)
(* Where the player and the enemy of the game can be                       *)
(* (src/src/programs/desktop/taskbar/rendering/program.c). A position is a *)
(* floating point number on each axis, here a number of parts of a cell,   *)
(* or NaN; the fields of `map` are the cells.                              *)
(***************************************************************************)
EXTENDS Integers

CONSTANTS
  Fields,         \* map: Fields[y] is the set of x of row y that are not walls
  Parts,          \* positions told apart in a cell, on each axis
  Stride,         \* how far an update moves the player, at most
  EnemyStride,
  Player, Enemy,  \* where they start
  NaN

VARIABLES player, enemy

vars == <<player, enemy>>

Init == player = Player /\ enemy = Enemy

(* What the processor makes of a position that is an index: NaN becomes    *)
(* 2^31, of which uint8_t keeps 0.                                         *)
Cell(n) == IF n = NaN THEN 0 ELSE n \div Parts

Open(at) == Cell(at.y) \in DOMAIN Fields /\ Cell(at.x) \in Fields[Cell(at.y)]

(* A direction of no length is divided by its length.                      *)
Sum(n, by) == IF by = NaN THEN NaN ELSE n + by

(* Broken: both axes are tried from the old position.                      *)
MoveApart(at, by) ==
  LET x == Sum(at.x, by.x)
      y == Sum(at.y, by.y)
  IN [x |-> IF Open([at EXCEPT !.x = x]) THEN x ELSE at.x,
      y |-> IF Open([at EXCEPT !.y = y]) THEN y ELSE at.y]

(* One axis after the other, the second one from where the first one led.  *)
move(at, by) ==
  LET x == Sum(at.x, by.x)
      along == IF Open([at EXCEPT !.x = x]) THEN [at EXCEPT !.x = x] ELSE at
      y == Sum(at.y, by.y)
  IN IF Open([along EXCEPT !.y = y]) THEN [along EXCEPT !.y = y] ELSE along

(* The keys and the direction of view give any direction, or none: w with  *)
(* s, and a with d, cancel each other, and then both components are NaN.   *)
Walks == [x : -Stride .. Stride, y : -Stride .. Stride]
Still == [x |-> NaN, y |-> NaN]

Sign(n) == IF n < 0 THEN -1 ELSE IF n > 0 THEN 1 ELSE 0

(* What an update can add in the direction from the enemy to the player.   *)
Chases(from, to) ==
  {by \in [x : -EnemyStride .. EnemyStride, y : -EnemyStride .. EnemyStride] :
     /\ by.x # 0 => Sign(by.x) = Sign(to.x - from.x)
     /\ by.y # 0 => Sign(by.y) = Sign(to.y - from.y)}

Square(n) == n * n

(* The enemy stays where it is when it is two cells away or less; nothing  *)
(* is far from NaN.                                                        *)
Far(p, q) ==
  /\ NaN \notin {p.x, p.y, q.x, q.y}
  /\ Square(p.x - q.x) + Square(p.y - q.y) > Square(2 * Parts)

(* The player moves by the keys, and then the enemy towards it.            *)
update ==
  \E by \in Walks \cup {Still} :
    /\ player' = move(player, by)
    /\ IF Far(player', enemy)
         THEN \E chase \in Chases(enemy, player') : enemy' = move(enemy, chase)
         ELSE UNCHANGED enemy

Spec == Init /\ [][update]_vars

-----------------------------------------------------------------------------
(* The cells that can be reached from the player's first one through cells *)
(* that have a side in common: no set that has it and, with a cell, those  *)
(* beside it lacks one of them.                                            *)
Cells == UNION {{[x |-> x, y |-> y] : x \in Fields[y]} : y \in DOMAIN Fields}

Beside(c, d) ==
  \/ c.x = d.x /\ c.y - d.y \in {-1, 1}
  \/ c.y = d.y /\ c.x - d.x \in {-1, 1}

CellAt(p) == [x |-> Cell(p.x), y |-> Cell(p.y)]

Closed(S) == \A c \in S, d \in Cells : Beside(c, d) => d \in S

InRoom(c) ==
  c \in Cells /\ \A S \in SUBSET Cells : CellAt(Player) \in S /\ Closed(S) => c \in S

(* The map has a wall all around, which field 0 of every row is part of,   *)
(* and an update moves nobody by more than a wall is thick.                *)
GameAssumption ==
  /\ Parts \in Nat \ {0} /\ NaN \notin Int
  /\ Stride \in 0 .. Parts /\ EnemyStride \in 0 .. Parts
  /\ DOMAIN Fields \subseteq Nat \ {0} /\ \A y \in DOMAIN Fields : Fields[y] \subseteq Nat \ {0}
  /\ \A p \in {Player, Enemy} : p \in [x : Int, y : Int] /\ InRoom(CellAt(p))

(* Positions are numbers: not pressing a key, which divides 0 by 0, leaves *)
(* no trace, because field 0 of every row of the map is a wall.            *)
TypeOK == {player, enemy} \subseteq [x : Int, y : Int]

(* Nobody gets into a wall, or between two cells that only touch at a      *)
(* corner into another room, however the steps on the two axes combine.    *)
StaysInRoom == InRoom(CellAt(player)) /\ InRoom(CellAt(enemy))
=============================================================================
