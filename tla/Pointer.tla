------------------------------ MODULE Pointer ------------------------------
(***************************************************************************)
(* The position of the mouse pointer and of the windows it drags           *)
(* (src/src/programs/desktop/program.c). Without a window to drag the      *)
(* pointer is kept on the screen; with one, the window is, and the pointer *)
(* follows at the distance it had when the button was pressed.             *)
(***************************************************************************)
EXTENDS Integers

CONSTANTS
  Windows,   \* windows that are not full screen
  Screen,    \* Screen[a]: the display's width or height
  Size,      \* Size[w][a]: a window's width and height, without its frame
  Steps,     \* the movements a mouse packet can report, on each axis
  None

Axes == {"x", "y"}

(* What the frame and the frame with the taskbar add to a window, and the  *)
(* extent of the title bar, on which a drag begins.                        *)
Frame(a) == IF a = "x" THEN 20 ELSE 57
Reserve(a) == IF a = "x" THEN 20 ELSE 89
Grip(w, a) == IF a = "x" THEN Size[w][a] + 20 ELSE 47

(* allocateWindow and mouseMove compute with these differences as unsigned *)
(* numbers, and do not look whether a window fits the screen.              *)
WindowsFit == \A w \in Windows, a \in Axes : Size[w][a] + Reserve(a) <= Screen[a]

PointerAssumption ==
  /\ Screen \in [Axes -> Nat \ {0}]
  /\ Size \in [Windows -> [Axes -> Nat]]
  /\ Steps \subseteq Int
  /\ None \notin Windows
  /\ WindowsFit

VARIABLES
  mouse,     \* mouseX and mouseY
  open,      \* the windows that are open
  at,        \* their x and y
  dragging,  \* the window being dragged, or None
  grab       \* draggingX and draggingY

vars == <<mouse, open, at, dragging, grab>>

Init ==
  /\ mouse = [a \in Axes |-> Screen[a] \div 2]
  /\ open = {} /\ at = [w \in Windows |-> [a \in Axes |-> 0]]
  /\ dragging = None /\ grab = [a \in Axes |-> 0]

Clamp(n, top) == IF n < 0 THEN 0 ELSE IF n > top THEN top ELSE n

allocateWindow(w) ==
  /\ w \notin open
  /\ open' = open \cup {w}
  /\ at' = [at EXCEPT ![w] =
       [a \in Axes |-> (Screen[a] \div 2) - ((Size[w][a] + Frame(a)) \div 2)]]
  /\ UNCHANGED <<mouse, dragging, grab>>

(* A window's client closes it when it is not being dragged.               *)
unallocateWindow(w) ==
  /\ w \in open /\ w # dragging
  /\ open' = open \ {w}
  /\ UNCHANGED <<mouse, at, dragging, grab>>

MovePointer(d) ==
  /\ dragging = None
  /\ mouse' = [a \in Axes |-> Clamp(mouse[a] + d[a], Screen[a] - 1)]
  /\ UNCHANGED <<open, at, dragging, grab>>

(* Broken: the pointer moves by itself.                                    *)
MoveBoth(d) ==
  /\ dragging # None
  /\ at' = [at EXCEPT ![dragging] = [a \in Axes |->
       Clamp(at[dragging][a] + d[a], Screen[a] - Size[dragging][a] - Reserve(a))]]
  /\ mouse' = [a \in Axes |-> Clamp(mouse[a] + d[a], Screen[a] - 1)]
  /\ UNCHANGED <<open, dragging, grab>>

MoveWindow(d) ==
  /\ dragging # None
  /\ at' = [at EXCEPT ![dragging] = [a \in Axes |->
       Clamp(at[dragging][a] + d[a], Screen[a] - Size[dragging][a] - Reserve(a))]]
  /\ mouse' = [a \in Axes |-> at'[dragging][a] - grab[a]]
  /\ UNCHANGED <<open, dragging, grab>>

OnTitle(w) == \A a \in Axes : at[w][a] <= mouse[a] /\ mouse[a] < at[w][a] + Grip(w, a)

(* The left button is pressed on a title bar. A release that was lost can  *)
(* have left another window, or this one, being dragged.                   *)
Press(w) ==
  /\ w \in open /\ OnTitle(w)
  /\ dragging' = w
  /\ grab' = [a \in Axes |-> at[w][a] - mouse[a]]
  /\ UNCHANGED <<mouse, open, at>>

(* The left button is released, or the key that clears the focus pressed.  *)
Release ==
  /\ dragging' = None
  /\ UNCHANGED <<mouse, open, at, grab>>

mouseMove == \E d \in [Axes -> Steps] : MovePointer(d) \/ MoveWindow(d)

Next ==
  \/ mouseMove \/ Release
  \/ \E w \in Windows : allocateWindow(w) \/ unallocateWindow(w) \/ Press(w)

Spec == Init /\ [][Next]_vars

-----------------------------------------------------------------------------
TypeOK ==
  /\ mouse \in [Axes -> Int] /\ grab \in [Axes -> Int]
  /\ open \subseteq Windows
  /\ at \in [Windows -> [Axes -> Int]]
  /\ dragging \in open \cup {None}

(* The pointer is on the screen, although it is not checked while it       *)
(* follows a window: update draws it with the screen's row length.         *)
PointerOnScreen == \A a \in Axes : 0 <= mouse[a] /\ mouse[a] < Screen[a]

(* A window with its frame is on the screen: the desktop draws it there    *)
(* without looking.                                                        *)
WindowsOnScreen ==
  \A w \in open, a \in Axes : 0 <= at[w][a] /\ at[w][a] + Size[w][a] + Frame(a) <= Screen[a]

(* The pointer stays on the title bar of the window it drags, at the       *)
(* screen's edges too.                                                     *)
DragHolds ==
  dragging # None =>
    \A a \in Axes : /\ mouse[a] = at[dragging][a] - grab[a]
                    /\ at[dragging][a] <= mouse[a]
                    /\ mouse[a] < at[dragging][a] + Grip(dragging, a)

(* The pointer and the windows are where they can be drawn. DragHolds is   *)
(* what makes it inductive: while a window is dragged, only the window's   *)
(* position is kept within bounds.                                         *)
Inv == TypeOK /\ PointerOnScreen /\ WindowsOnScreen /\ DragHolds
=============================================================================
