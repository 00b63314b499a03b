------------------------------ MODULE Desktop ------------------------------
(***************************************************************************)
(* The desktop's windows (src/src/programs/desktop/program.c) and the      *)
(* programs that own them. A pass of the system's main loop delivers the   *)
(* key presses and the movements, then the clicks, all of them at one      *)
(* place, and then updates every program once. A window is the address of  *)
(* its block, which is handed out again when the window has closed.        *)
(***************************************************************************)
EXTENDS Naturals, Sequences, FiniteSets, SequencesExt

CONSTANTS
  Windows,
  MaxClicks,   \* bound: clicks in one pass
  Desk,        \* the desktop among the programs to update
  Null

ASSUME DesktopAssumption ==
  MaxClicks \in Nat /\ Desk \notin Windows /\ Null \notin Windows

(* What of a window with a frame lies under the pointer.                   *)
Zones == {"outside", "content", "close", "minimise", "title"}

(* Where the pointer is: on the exit icon, a program's icon, an item or an *)
(* empty part of the taskbar; on the taskbar's edge; or above it.          *)
Strip == {"exit", "program", "item", "blank"}
Rows == Strip \cup {"edge", "above"}

VARIABLES
  phase,      \* what the main loop is at: "keys", "clicks" or "updates"
  spot,       \* where the pointer is during the clicks of a pass
  clicks,     \* how many of them have been handled
  due,        \* the programs still to be updated in this pass
  windows,    \* the list of windows, the one drawn last at its end
  taskbar,    \* the list of taskbar items
  fullscreen, minimised,
  focus, dragging,
  events,     \* the kinds of event waiting in a window's list
  exiting,
  left,       \* the desktop has quit
  late        \* a window has opened since the exit icon was pressed

loopVars == <<phase, spot, clicks, due>>
lists == <<windows, taskbar, fullscreen>>
exitVars == <<exiting, left, late>>
vars == <<loopVars, lists, minimised, focus, dragging, events, exitVars>>

Open == ToSet(windows)
Nowhere == [row |-> "edge", item |-> 0, zone |-> [w \in Windows |-> "outside"]]

Init ==
  /\ phase = "keys" /\ spot = Nowhere /\ clicks = 0 /\ due = {}
  /\ windows = <<>> /\ taskbar = <<>> /\ fullscreen = {} /\ minimised = {}
  /\ focus = Null /\ dragging = Null
  /\ events = [w \in Windows |-> {}]
  /\ exiting = FALSE /\ left = FALSE /\ late = FALSE

-----------------------------------------------------------------------------
(* The calls of the desktop's system call.                                 *)
MoveItemEnd(list, w) == Append(RemoveFirst(list, w), w)

(* allocateWindow and allocateFullscreenWindow.                            *)
allocateWindow(w, full) ==
  /\ w \in Windows \ Open
  /\ windows' = Append(windows, w) /\ taskbar' = Append(taskbar, w)
  /\ fullscreen' = IF full THEN fullscreen \cup {w} ELSE fullscreen
  /\ focus' = w
  /\ late' = exiting
  /\ UNCHANGED <<minimised, events, exiting, left>>

(* dragging is left as it is.                                              *)
unallocateWindow(w) ==
  /\ windows' = RemoveFirst(windows, w) /\ taskbar' = RemoveFirst(taskbar, w)
  /\ fullscreen' = fullscreen \ {w} /\ minimised' = minimised \ {w}
  /\ events' = [events EXCEPT ![w] = {}]
  /\ focus' = IF focus = w THEN Null ELSE focus
  /\ UNCHANGED dragging

-----------------------------------------------------------------------------
(* Key presses and movements. The key with the logo clears the focus; the  *)
(* others, and the movements, go to the window that has it.                *)
keyPress ==
  /\ phase = "keys" /\ ~left
  /\ \/ /\ dragging' = Null /\ focus' = Null
        /\ UNCHANGED events
     \/ /\ focus # Null
        /\ events' = [events EXCEPT ![focus] = @ \cup {"input"}]
        /\ UNCHANGED <<focus, dragging>>
  /\ UNCHANGED <<loopVars, lists, minimised, exitVars>>

(* Where the pointer can be: windows with a frame stay above the taskbar,  *)
(* and the pointer on the title of the window it drags (see Pointer).      *)
Spots ==
  {s \in [row : Rows, item : 0 .. Len(taskbar), zone : [Windows -> Zones]] :
     /\ s.row = "item" <=> s.item # 0
     /\ \A w \in Windows : s.row # "above" \/ w \notin Open \ fullscreen => s.zone[w] = "outside"
     /\ dragging \in Open => s.zone[dragging] = "title"}

(* The movements of the pass have been handled; the clicks follow.         *)
Moved ==
  /\ phase = "keys" /\ phase' = "clicks"
  /\ spot' \in Spots
  /\ UNCHANGED <<clicks, due, lists, minimised, focus, dragging, events, exitVars>>

-----------------------------------------------------------------------------
(* Clicks.                                                                 *)
FocusFills == focus \in fullscreen
OnStrip == ~FocusFills /\ spot.row \in Strip

Kept == UNCHANGED <<lists, minimised, focus, events, exitVars>>

(* What the release of the left button leaves of a drag.                   *)
Held(isLeft, pressed) == IF isLeft /\ ~pressed THEN Null ELSE dragging

(* Broken: the window gets the focus where it is in the list.              *)
RaiseInPlace(w) == focus' = w /\ UNCHANGED windows

Raise(w) == focus' = w /\ windows' = MoveItemEnd(windows, w)

SendQuit(w) == events' = [events EXCEPT ![w] = @ \cup {"quit"}]

TaskbarPress(w, isLeft) ==
  /\ UNCHANGED <<taskbar, fullscreen, dragging, exitVars>>
  /\ \/ /\ ~isLeft /\ SendQuit(w)
        /\ UNCHANGED <<windows, minimised, focus>>
     \/ /\ isLeft /\ w \notin minimised /\ focus = w
        /\ focus' = Null /\ minimised' = minimised \cup {w}
        /\ UNCHANGED <<windows, events>>
     \/ /\ isLeft /\ (w \in minimised \/ focus # w)
        /\ minimised' = minimised \ {w} /\ Raise(w)
        /\ UNCHANGED events

(* Broken: the windows that cannot be seen are not told.                   *)
ExitPressVisible ==
  /\ exiting' = TRUE
  /\ events' = [w \in Windows |->
       IF w \in Open \ minimised THEN events[w] \cup {"quit"} ELSE events[w]]
  /\ UNCHANGED <<lists, minimised, focus, dragging, left, late>>

ExitPress ==
  /\ exiting' = TRUE
  /\ events' = [w \in Windows |-> IF w \in Open THEN events[w] \cup {"quit"} ELSE events[w]]
  /\ UNCHANGED <<lists, minimised, focus, dragging, left, late>>

(* execute runs start() of the program, which opens its window.            *)
ProgramPress == \E w \in Windows, full \in BOOLEAN : allocateWindow(w, full) /\ UNCHANGED dragging

StripClick(isLeft, pressed) ==
  \/ pressed /\ spot.row = "item" /\ TaskbarPress(taskbar[spot.item], isLeft)
  \/ pressed /\ isLeft /\ spot.row = "exit" /\ ExitPress
  \/ pressed /\ isLeft /\ spot.row = "program" /\ ProgramPress
  \/ /\ ~pressed \/ spot.row = "blank" \/ (~isLeft /\ spot.row # "item")
     /\ Kept /\ dragging' = Held(isLeft, pressed)

(* The window that a click ends at: the one drawn last that takes it.      *)
Takes(w, press) ==
  /\ w \notin minimised
  /\ IF w \in fullscreen
     THEN FocusFills \/ spot.row = "above"
     ELSE spot.zone[w] = "content" \/ (press /\ spot.zone[w] # "outside")

Hit(w, press) ==
  \E i \in DOMAIN windows :
    /\ windows[i] = w /\ Takes(w, press)
    /\ \A j \in (i + 1) .. Len(windows) : ~Takes(windows[j], press)

(* Broken: the window is also taken hold of.                               *)
CloseAndGrab(w) == SendQuit(w) /\ dragging' = w /\ UNCHANGED <<windows, minimised, focus>>

ClosePress(w) == SendQuit(w) /\ UNCHANGED <<windows, minimised, focus, dragging>>

MinimisePress(w) ==
  /\ minimised' = minimised \cup {w}
  /\ focus' = IF focus = w THEN Null ELSE focus
  /\ UNCHANGED <<windows, events, dragging>>

TitlePress(w) ==
  /\ dragging' = w
  /\ IF focus = w THEN UNCHANGED <<windows, focus>> ELSE Raise(w)
  /\ UNCHANGED <<minimised, events>>

(* The inside of a window, or a window that is full screen.                *)
ContentClick(w, isLeft, pressed) ==
  /\ dragging' = Held(isLeft, pressed)
  /\ UNCHANGED minimised
  /\ \/ /\ focus = w
        /\ events' = [events EXCEPT ![w] = @ \cup {"input"}]
        /\ UNCHANGED <<windows, focus>>
     \/ /\ focus # w /\ (w \in fullscreen \/ (isLeft /\ pressed))
        /\ Raise(w) /\ UNCHANGED events
     \/ /\ focus # w /\ w \notin fullscreen /\ ~(isLeft /\ pressed)
        /\ UNCHANGED <<windows, focus, events>>

WindowClick(w, isLeft, pressed) ==
  /\ Hit(w, isLeft /\ pressed)
  /\ UNCHANGED <<taskbar, fullscreen, exitVars>>
  /\ \/ (w \in fullscreen \/ spot.zone[w] = "content") /\ ContentClick(w, isLeft, pressed)
     \/ spot.zone[w] = "close" /\ ClosePress(w)
     \/ spot.zone[w] = "minimise" /\ MinimisePress(w)
     \/ spot.zone[w] = "title" /\ TitlePress(w)

mouseClick(isLeft, pressed) ==
  /\ phase = "clicks" /\ ~left
  /\ clicks < MaxClicks /\ clicks' = clicks + 1
  /\ UNCHANGED <<phase, spot, due>>
  /\ \/ OnStrip /\ StripClick(isLeft, pressed)
     \/ ~OnStrip /\ \E w \in Open : WindowClick(w, isLeft, pressed)
     \/ /\ ~OnStrip /\ \A w \in Open : ~Hit(w, isLeft /\ pressed)
        /\ Kept /\ dragging' = Held(isLeft, pressed)

-----------------------------------------------------------------------------
(* Updates.                                                                *)
Clicked ==
  /\ phase = "clicks" /\ phase' = "updates"
  /\ due' = Open \cup (IF left THEN {} ELSE {Desk})
  /\ spot' = Nowhere /\ clicks' = 0
  /\ UNCHANGED <<lists, minimised, focus, dragging, events, exitVars>>

(* A program, in its update, executes another, whose start() opens a       *)
(* window. The new program comes before the others in the list: it is not  *)
(* updated in this pass.                                                   *)
Launch ==
  /\ phase = "updates" /\ due \cap Windows # {}
  /\ \E w \in Windows \ due, full \in BOOLEAN : allocateWindow(w, full)
  /\ UNCHANGED <<loopVars, dragging>>

(* Broken: the window closes in the pass after.                            *)
CloseLater(w) ==
  /\ UNCHANGED <<lists, minimised, focus, dragging>>
  /\ events' = [events EXCEPT ![w] = @ \ {"input"}]

(* What the update of a window's program does with its events: it takes    *)
(* all of them, and closes the window when it was told to quit.            *)
TakeEvents(w) ==
  IF "quit" \in events[w] THEN unallocateWindow(w)
  ELSE /\ events' = [events EXCEPT ![w] = {}]
       /\ UNCHANGED <<lists, minimised, focus, dragging>>

Update(w) ==
  /\ phase = "updates" /\ w \in due
  /\ due' = due \ {w}
  /\ TakeEvents(w)
  /\ UNCHANGED <<phase, spot, clicks, exitVars>>

(* When it has been told to, the desktop waits for its last window.        *)
Leave == left' = (exiting /\ windows = <<>>)

DesktopUpdate ==
  /\ phase = "updates" /\ Desk \in due
  /\ due' = due \ {Desk}
  /\ Leave
  /\ UNCHANGED <<phase, spot, clicks, lists, minimised, focus, dragging, events, exiting, late>>

Updated ==
  /\ phase = "updates" /\ due = {}
  /\ phase' = "keys"
  /\ UNCHANGED <<spot, clicks, due, lists, minimised, focus, dragging, events, exitVars>>

Pass == Moved \/ Clicked \/ (\E w \in Windows : Update(w)) \/ DesktopUpdate \/ Updated

Next ==
  \/ keyPress \/ Launch \/ Pass
  \/ \E isLeft, pressed \in BOOLEAN : mouseClick(isLeft, pressed)

Spec == Init /\ [][Next]_vars

(* The main loop goes on.                                                  *)
FairSpec == Spec /\ WF_vars(Pass)

-----------------------------------------------------------------------------
TypeOK ==
  /\ phase \in {"keys", "clicks", "updates"} /\ clicks \in 0 .. MaxClicks
  /\ spot \in [row : Rows, item : 0 .. Len(taskbar), zone : [Windows -> Zones]]
  /\ due \subseteq Open \cup {Desk} /\ (phase # "updates" => due = {})
  /\ windows \in Seq(Windows) /\ IsInjective(windows) /\ taskbar \in Seq(Windows)
  /\ fullscreen \subseteq Open /\ minimised \subseteq Open
  /\ focus \in Open \cup {Null}
  /\ events \in [Windows -> SUBSET {"quit", "input"}]
  /\ exiting \in BOOLEAN /\ left \in BOOLEAN /\ late \in BOOLEAN

(* Every window has one item in the taskbar: without it, one that is       *)
(* minimised or covered could not be reached any more.                     *)
TaskbarComplete == IsInjective(taskbar) /\ ToSet(taskbar) = Open

(* The window that has the focus is drawn last and is not hidden: keys,    *)
(* which look at nothing else, go to what the user sees on top.            *)
FocusOnTop == focus # Null => focus = Last(windows) /\ focus \notin minimised

(* The window being dragged is open, although unallocateWindow does not    *)
(* look whether it is: mouseMove would move a block that has been freed,   *)
(* or another window that has got the block.                               *)
DraggingIsOpen == dragging # Null => dragging \in Open

(* A window that has been told to close has closed before the next pass,  *)
(* and so before the pointer can be on its title.                          *)
QuitAnswered == [][phase = "updates" /\ phase' = "keys" =>
                     \A w \in Windows : "quit" \notin events[w]]_vars

(* The desktop's memory is given back only when no window is left to draw. *)
LeavesEmpty == left => windows = <<>> /\ taskbar = <<>> /\ focus = Null

(* When the exit icon is pressed the desktop leaves, unless a window opens *)
(* afterwards: that one has not been told, and the desktop waits for it.   *)
ExitHeard == exiting ~> (left \/ late)

(* While a pass handles its clicks the pointer stays where it is: on the   *)
(* title of the window it drags, and so on nothing that closes one.        *)
PointerStays ==
  IF phase # "clicks" THEN spot = Nowhere ELSE
    /\ spot.row = "item" => spot.item # 0
    /\ spot.row # "above" => \A w \in Windows : spot.zone[w] = "outside"
    /\ dragging # Null => spot.zone[dragging] = "title"

(* Only a window that is open and still to be updated can have been told   *)
(* to close, and it is not the one that is dragged: a pass that tells it   *)
(* has the pointer where no drag can begin or be under way.                *)
ToldInTime ==
  /\ \A w \in Windows \ Open : events[w] = {}
  /\ \A w \in Windows : "quit" \in events[w] =>
       \/ phase = "clicks" /\ (spot.row # "above" \/ spot.zone[w] = "close")
       \/ phase = "updates" /\ w \in due /\ dragging # w

(* The lists of the windows and of the taskbar, and the window dragged,    *)
(* are those of the windows there are.                                     *)
Inv ==
  /\ TypeOK /\ TaskbarComplete /\ DraggingIsOpen /\ LeavesEmpty
  /\ PointerStays /\ ToldInTime
=============================================================================
