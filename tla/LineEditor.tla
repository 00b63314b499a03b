----------------------------- MODULE LineEditor ----------------------------
(***************************************************************************)
(* The line that is typed at a terminal: the desktop's                     *)
(* (src/src/programs/desktop/taskbar/terminal/program.c), and the main one *)
(* (src/src/main.c), whose code is the same but for what it waits on. The  *)
(* line is kept twice, in a buffer and on the screen, and the screen's     *)
(* position alone says how far backspace may go.                           *)
(***************************************************************************)
EXTENDS Integers, SequencesExt, FiniteSetsExt

CONSTANTS
  Width, Height,  \* the terminal's size in characters
  BufferSize,     \* characters in the typing buffer, with the one that ends it
  Modulus,        \* 2 ^ 32, the width of typingStart
  Prompts         \* lengths of the directory that is shown

(* Nothing in the code stops the line at the end of its buffer, so a line  *)
(* is bounded here; and the screen has room for the longest one.           *)
LineEditorAssumption ==
  /\ Width \in Nat \ {0} /\ Height \in Nat \ {0} /\ BufferSize \in Nat \ {0}
  /\ Modulus \in Nat /\ Width * Height < Modulus
  /\ Prompts \subseteq Nat \ {0}
  /\ BufferSize + Width <= Width * (Height - 1)

Chars == {"a", "A"}
End == "end"       \* L'\0'
Other == "other"   \* in a cell: nothing, the cursor, or what was printed before the line
Shifts == {"left", "right"}

VARIABLES
  cursorX, cursorY,
  screen,         \* what each cell shows
  typing, typingStart, typingBuffer, typingCurrent,
  shifts, shift,  \* leftShift and rightShift; the two combined
  caps,
  running, done,  \* a program was started for the line; it has quit
  keysDown,       \* the shift keys that are held down
  missed,         \* one of them was pressed or released while no line was typed
  meant,          \* the line as the keys pressed make it
  owed            \* lines entered less lines executed

cursorVars == <<cursorX, cursorY, screen, typingStart>>
lineVars == <<typing, typingBuffer, typingCurrent, meant>>
shiftVars == <<shifts, shift, caps, keysDown, missed>>
runVars == <<running, done, owed>>
vars == <<cursorVars, lineVars, shiftVars, runVars>>

Cells == 0 .. Width * Height - 1
Cursor == cursorX + cursorY * Width

Init ==
  /\ cursorX = 0 /\ cursorY = 0 /\ screen = [c \in Cells |-> Other]
  /\ typing = FALSE /\ typingStart = 0 /\ typingCurrent = 0
  /\ typingBuffer = [i \in 0 .. BufferSize - 1 |-> End]
  /\ shifts = {} /\ shift = FALSE /\ caps = FALSE
  /\ running = FALSE /\ done = TRUE
  /\ keysDown = {} /\ missed = FALSE /\ meant = <<>> /\ owed = 0

-----------------------------------------------------------------------------
(* Printing, as a function of where the cursor is, what is shown and where *)
(* the line starts.                                                        *)
Now == [x |-> cursorX, y |-> cursorY, cells |-> screen, start |-> typingStart]

(* Broken: the start of the line stays where it was on the screen.         *)
ScrollKeepingStart(t) ==
  [t EXCEPT !.x = 0,
            !.cells = [c \in Cells |-> IF c + Width \in Cells THEN t.cells[c + Width] ELSE Other]]

Scroll(t) ==
  [t EXCEPT !.x = 0,
            !.cells = [c \in Cells |-> IF c + Width \in Cells THEN t.cells[c + Width] ELSE Other],
            !.start = (t.start - Width) % Modulus]

Newline(t) == IF t.y + 1 # Height THEN [t EXCEPT !.x = 0, !.y = t.y + 1] ELSE Scroll(t)

PutCharacter(t, c) ==
  LET drawn == [t EXCEPT !.cells[t.x + t.y * Width] = c]
  IN IF t.x + 1 = Width THEN Newline(drawn) ELSE [drawn EXCEPT !.x = t.x + 1]

(* The directory, n characters, and the line that begins after it. Beyond  *)
(* the last line the screen moves up instead of the cursor down. What the  *)
(* screen has kept is not told apart any more.                             *)
Prompt(t, n) ==
  LET x == (t.x + n) % Width
      down == t.y + (t.x + n) \div Width
      y == IF down < Height THEN down ELSE Height - 1
  IN [x |-> x, y |-> y, cells |-> [c \in Cells |-> Other], start |-> x + y * Width]

Becomes(t) ==
  /\ cursorX' = t.x /\ cursorY' = t.y
  /\ screen' = t.cells /\ typingStart' = t.start

-----------------------------------------------------------------------------
(* Keys. They are looked at only while a line is being typed.              *)
Backspace ==
  /\ typing
  /\ meant' = IF meant = <<>> THEN meant ELSE Front(meant)
  /\ IF Cursor > typingStart
     THEN /\ typingCurrent' = typingCurrent - 1
          /\ cursorX' = IF cursorX > 0 THEN cursorX - 1 ELSE Width - 1
          /\ cursorY' = IF cursorX > 0 THEN cursorY ELSE cursorY - 1
          /\ screen' = [screen EXCEPT ![Cursor - 1] = Other]
     ELSE UNCHANGED <<typingCurrent, cursorX, cursorY, screen>>
  /\ UNCHANGED <<typing, typingStart, typingBuffer, shiftVars, runVars>>

Enter ==
  /\ typing /\ typing' = FALSE
  /\ typingBuffer' = [typingBuffer EXCEPT ![typingCurrent] = End]
  /\ Becomes(Newline(Now))
  /\ owed' = IF meant = <<>> THEN owed ELSE owed + 1
  /\ UNCHANGED <<typingCurrent, meant, shiftVars, running, done>>

Combine(key, pressed) == shifts' # {}

Shift(key, pressed) ==
  /\ pressed <=> key \notin keysDown
  /\ keysDown' = IF pressed THEN keysDown \cup {key} ELSE keysDown \ {key}
  /\ IF typing
     THEN /\ shifts' = IF pressed THEN shifts \cup {key} ELSE shifts \ {key}
          /\ shift' = Combine(key, pressed)
          /\ UNCHANGED missed
     ELSE missed' = TRUE /\ UNCHANGED <<shifts, shift>>
  /\ UNCHANGED <<caps, cursorVars, lineVars, runVars>>

CapsLock ==
  /\ typing /\ caps' = ~caps
  /\ UNCHANGED <<shifts, shift, keysDown, missed, cursorVars, lineVars, runVars>>

(* A key of the two tables of characters.                                  *)
Character ==
  LET c == IF shift # caps THEN "A" ELSE "a" IN
    /\ typing /\ typingCurrent < BufferSize - 1
    /\ typingBuffer' = [typingBuffer EXCEPT ![typingCurrent] = c]
    /\ typingCurrent' = typingCurrent + 1
    /\ meant' = Append(meant, c)
    /\ Becomes(PutCharacter(Now, c))
    /\ UNCHANGED <<typing, shiftVars, runVars>>

-----------------------------------------------------------------------------
(* What is printed while no line is typed: by commands, and by the program *)
(* that was started.                                                       *)
Output ==
  /\ ~typing
  /\ \/ Becomes(PutCharacter(Now, Other))
     \/ Becomes(Newline(Now))
  /\ UNCHANGED <<lineVars, shiftVars, runVars>>

(* The buffer as StrLen and StrCpy see it.                                 *)
Command ==
  LET ends == {i \in DOMAIN typingBuffer : typingBuffer[i] = End}
  IN [i \in 1 .. Min(ends \cup {BufferSize}) |-> typingBuffer[i - 1]]

(* Set by a line that starts a program.                                    *)
MarkRun(runs, how) == running \/ (runs /\ how \in {"starts", "quits at once"})

(* What a line that is executed prints: it starts a program, clears the    *)
(* screen, or prints.                                                      *)
Printed(how) ==
  IF how = "clears" THEN {[Now EXCEPT !.x = 0, !.y = 0]} ELSE {Now, PutCharacter(Now, Other)}

(* One update, after the events. A line that was entered is executed; when *)
(* it starts a program, that may have quit when execute returns. When      *)
(* nothing runs, the directory is shown and a new line begins.             *)
Step ==
  \E how \in {"starts", "quits at once", "clears", "prints"} :
    LET runs == ~typing /\ ~running /\ Command # <<>>
        isDone == done /\ ~(runs /\ how = "starts")
    IN \E printed \in IF runs THEN Printed(how) ELSE {Now} :
         /\ done' = isDone
         /\ owed' = IF runs THEN owed - 1 ELSE owed
         /\ IF ~typing /\ isDone
            THEN /\ running' = FALSE /\ typing' = TRUE
                 /\ \E n \in Prompts : Becomes(Prompt(printed, n))
                 /\ typingCurrent' = 0 /\ meant' = <<>>
            ELSE /\ running' = MarkRun(runs, how)
                 /\ Becomes(printed)
                 /\ UNCHANGED <<typing, typingCurrent, meant>>
         /\ UNCHANGED <<typingBuffer, shiftVars>>

(* The program that the terminal waits for quits.                          *)
ProgramQuits ==
  /\ running /\ ~done /\ done' = TRUE
  /\ UNCHANGED <<running, owed, cursorVars, lineVars, shiftVars>>

Next ==
  \/ Backspace \/ Enter \/ CapsLock \/ Character
  \/ \E key \in Shifts, pressed \in BOOLEAN : Shift(key, pressed)
  \/ Output \/ Step \/ ProgramQuits

Spec == Init /\ [][Next]_vars

-----------------------------------------------------------------------------
TypeOK ==
  /\ cursorX \in 0 .. Width - 1 /\ cursorY \in 0 .. Height - 1
  /\ screen \in [Cells -> Chars \cup {Other}]
  /\ typing \in BOOLEAN /\ typingStart \in 0 .. Modulus - 1 /\ typingCurrent \in 0 .. BufferSize - 1
  /\ typingBuffer \in [0 .. BufferSize - 1 -> Chars \cup {End}]
  /\ shifts \subseteq Shifts /\ keysDown \subseteq Shifts
  /\ shift \in BOOLEAN /\ caps \in BOOLEAN /\ missed \in BOOLEAN
  /\ running \in BOOLEAN /\ done \in BOOLEAN
  /\ meant \in Seq(Chars)

(* While a line is typed, the screen from its start to the cursor shows    *)
(* what the buffer holds, which is what the keys pressed make: backspace   *)
(* removes from both or from neither, also where the line has wrapped and  *)
(* the screen has moved up under it.                                       *)
LineShown ==
  typing =>
    /\ typingCurrent = Len(meant) /\ Cursor = typingStart + typingCurrent
    /\ \A i \in 1 .. Len(meant) :
         /\ typingBuffer[i - 1] = meant[i]
         /\ screen[typingStart + i - 1] = meant[i]

(* The line that is executed is the one that was on the screen, although   *)
(* the buffer keeps what was erased.                                       *)
RunsTheLine == owed > 0 => Command = meant

(* A line is executed once: neither again while its program runs, nor not  *)
(* at all.                                                                 *)
RunsOnce ==
  /\ owed \in {0, 1} /\ (typing \/ running => owed = 0)
  /\ ~done => running
  /\ running => ~typing
  /\ ~typing /\ ~running => (owed = 1 <=> Command # <<>>)

(* Shift is what the two keys make it, as long as none of them moved while *)
(* the terminal did not look.                                              *)
ShiftTracks == (shift <=> shifts # {}) /\ (~missed => shifts = keysDown)

(* The line shown, the line typed and the line executed are one.           *)
Inv == TypeOK /\ LineShown /\ RunsTheLine /\ RunsOnce /\ ShiftTracks
=============================================================================
