---------------------------- MODULE InputEvents ----------------------------
(***************************************************************************)
(* The keyboard and mouse interrupt handlers (src/src/main.h) and the main *)
(* loop that empties the arrays they fill (src/src/main.c).                *)
(*                                                                         *)
(* Each kind of event has an array and a counter. A handler stores at the  *)
(* counter and increments it; the loop handles entries while its index is  *)
(* below the counter, and then sets the counter to 0. The loop runs with   *)
(* interrupts on, so a handler can run between any two of its steps. The   *)
(* handlers run through interrupt gates and do not interrupt each other.   *)
(***************************************************************************)
EXTENDS Integers, SequencesExt

CONSTANTS
  Cap,        \* entries in each array (255). A handler is not run when its
              \* array is full: the store would be out of bounds
  MaxRaised   \* bound, for each source, on the events it raises

Kinds == {"key", "move", "click"}
Buttons == {"left", "right"}
Sources == {"key", "move"} \cup Buttons
ASSUME InputAssumption == Cap \in Nat \ {0} /\ MaxRaised \in [Sources -> Nat]

Array(s) == IF s \in Buttons THEN "click" ELSE s

VARIABLES
  entries,      \* keyPresses, mouseMoves and mouseClicks up to their counters
  current,      \* currentKeyPress, currentMouseMove and currentMouseClick
  mouseCycle,   \* which byte of a packet the mouse handler expects
  mouseBytes,   \* the bytes it has: the buttons down, and whether the x byte
                \* says that the mouse moved
  lastClick,    \* lastLeftClick and lastRightClick: the buttons known to be down
  phase,        \* the loop over one kind that the main loop is in, or "rest"
  step,         \* "drain", or "reset" when the loop's test has failed
  i,            \* the loop's index
  raised,       \* history: how many events of each source have been raised
  log           \* history: the events of each kind handled, in order

mouseVars == <<mouseCycle, mouseBytes, lastClick>>
loopVars == <<phase, step, i>>
vars == <<entries, current, mouseVars, loopVars, raised, log>>

Init ==
  /\ entries = [k \in Kinds |-> <<>>]
  /\ current = [k \in Kinds |-> 0]
  /\ mouseCycle = 2
  /\ mouseBytes = [buttons |-> {}, x |-> FALSE]
  /\ lastClick = {}
  /\ phase = "key" /\ step = "drain" /\ i = 0
  /\ raised = [s \in Sources |-> 0]
  /\ log = [k \in Kinds |-> <<>>]

-----------------------------------------------------------------------------
(* Interrupt handlers.                                                     *)

(* late: whether the loop over the event's kind has already failed its     *)
(* test and is about to reset the counter.                                 *)
Event(s, pressed) ==
  [source |-> s, id |-> raised[s] + 1, pressed |-> pressed,
   late |-> phase = Array(s) /\ step = "reset"]

Room(new) ==
  \A k \in Kinds :
    /\ current[k] + Len(new[k]) <= Cap
    /\ \A e \in ToSet(new[k]) : e.id <= MaxRaised[e.source]

Count(new) == raised' = [s \in Sources |->
  IF \E e \in ToSet(new[Array(s)]) : e.source = s THEN raised[s] + 1 ELSE raised[s]]

(* Entry n of the array is entries[k][n + 1]; new is what the handler      *)
(* appends to each array.                                                  *)
Store(new) ==
  /\ Room(new)
  /\ entries' = [k \in Kinds |-> entries[k] \o new[k]]
  /\ current' = [k \in Kinds |-> current[k] + Len(new[k])]
  /\ Count(new)

Keyboard ==
  /\ Store([k \in Kinds |-> IF k = "key" THEN << Event("key", FALSE) >> ELSE <<>>])
  /\ UNCHANGED <<mouseVars, loopVars, log>>

(* A byte that does not complete a packet.                                 *)
MouseByte ==
  /\ \/ /\ mouseCycle = 0
        /\ \E down \in SUBSET Buttons : mouseBytes' = [mouseBytes EXCEPT !.buttons = down]
     \/ /\ mouseCycle = 1
        /\ \E moved \in BOOLEAN : mouseBytes' = [mouseBytes EXCEPT !.x = moved]
  /\ mouseCycle' = mouseCycle + 1
  /\ UNCHANGED <<entries, current, lastClick, loopVars, raised, log>>

Changed == (mouseBytes.buttons \ lastClick) \cup (lastClick \ mouseBytes.buttons)

(* Broken: a click reports the state the button had.                       *)
ClicksOld ==
  LET Click(b) == Event(b, b \in lastClick)
      b1 == IF "left" \in Changed THEN << Click("left") >> ELSE <<>>
      b2 == IF "right" \in Changed THEN << Click("right") >> ELSE <<>>
  IN  b1 \o b2

(* The clicks a packet tells of, left before right.                        *)
Clicks ==
  LET Click(b) == Event(b, b \notin lastClick)
      b1 == IF "left" \in Changed THEN << Click("left") >> ELSE <<>>
      b2 == IF "right" \in Changed THEN << Click("right") >> ELSE <<>>
  IN  b1 \o b2

(* The byte that completes a packet. The first one after the boot is the   *)
(* answer to the command that starts the mouse, and makes a movement.      *)
MousePacket ==
  /\ mouseCycle = 2
  /\ \E y \in BOOLEAN :
       Store([key |-> <<>>,
              move |-> IF mouseBytes.x \/ y THEN << Event("move", FALSE) >> ELSE <<>>,
              click |-> Clicks])
  /\ lastClick' = mouseBytes.buttons
  /\ mouseCycle' = 0
  /\ UNCHANGED <<mouseBytes, loopVars, log>>

Interrupt == Keyboard \/ MouseByte \/ MousePacket

-----------------------------------------------------------------------------
(* The main loop.                                                          *)

(* One pass through a loop's body: the entry goes to every callback.       *)
Deliver ==
  /\ phase \in Kinds /\ step = "drain"
  /\ i < current[phase]
  /\ log' = [log EXCEPT ![phase] = Append(@, entries[phase][i + 1])]
  /\ i' = i + 1
  /\ UNCHANGED <<entries, current, mouseVars, phase, step, raised>>

(* Broken: the loop stops one entry early.                                 *)
ExitTestEarly ==
  /\ phase \in Kinds /\ step = "drain"
  /\ i + 1 >= current[phase]
  /\ step' = "reset"
  /\ UNCHANGED <<entries, current, mouseVars, phase, i, raised, log>>

ExitTest ==
  /\ phase \in Kinds /\ step = "drain"
  /\ i >= current[phase]
  /\ step' = "reset"
  /\ UNCHANGED <<entries, current, mouseVars, phase, i, raised, log>>

(* Broken: the movements are left out.                                     *)
AfterSkips(k) == CASE k = "key" -> "click" [] k = "move" -> "click" [] k = "click" -> "rest"

After(k) == CASE k = "key" -> "move" [] k = "move" -> "click" [] k = "click" -> "rest"

(* The counter is set to 0, whatever has arrived since the test, and the   *)
(* next loop's index starts from 0.                                        *)
Reset ==
  /\ step = "reset"
  /\ current' = [current EXCEPT ![phase] = 0]
  /\ entries' = [entries EXCEPT ![phase] = <<>>]
  /\ phase' = After(phase) /\ step' = "drain" /\ i' = 0
  /\ UNCHANGED <<mouseVars, raised, log>>

(* Packets, commands, programs' updates and the blit.                      *)
Rest ==
  /\ phase = "rest"
  /\ phase' = "key"
  /\ UNCHANGED <<entries, current, mouseVars, step, i, raised, log>>

MainLoop == Deliver \/ ExitTest \/ Reset \/ Rest

Next == Interrupt \/ MainLoop

Spec == Init /\ [][Next]_vars

(* Interrupt handlers return, so the loop keeps running between them.      *)
FairSpec == Spec /\ WF_vars(MainLoop)

-----------------------------------------------------------------------------
(* What is left of the array of a kind for the loop to handle.             *)
PendingSeq(k) == SubSeq(entries[k], (IF phase = k THEN i ELSE 0) + 1, current[k])
Pending(k) == ToSet(PendingSeq(k))

(* Every event of a kind that is handled or still pending, in order.       *)
Kept(k) == log[k] \o PendingSeq(k)

Events == [source : Sources, id : Nat \ {0}, pressed : BOOLEAN, late : BOOLEAN]

(* Types, and the loop's index within the array it reads.                  *)
TypeOK ==
  /\ entries \in [Kinds -> Seq(Events)] /\ log \in [Kinds -> Seq(Events)]
  /\ current = [k \in Kinds |-> Len(entries[k])]
  /\ \A k \in Kinds : current[k] <= Cap
  /\ mouseCycle \in 0..2
  /\ mouseBytes \in [buttons : SUBSET Buttons, x : BOOLEAN]
  /\ lastClick \in SUBSET Buttons
  /\ phase \in Kinds \cup {"rest"} /\ step \in {"drain", "reset"}
  /\ i \in 0..Cap
  /\ IF phase \in Kinds THEN i <= current[phase] ELSE i = 0 /\ step = "drain"
  /\ raised \in [Sources -> Nat] /\ \A s \in Sources : raised[s] <= MaxRaised[s]

(* No event is handled that was not raised, and those of a source are      *)
(* handled in the order they were raised, none twice, whatever the         *)
(* handlers do between two steps of a loop.                                *)
WereRaised(q) == \A n \in 1..Len(q) : q[n].id <= raised[q[n].source]
Increasing(q) ==
  \A m, n \in 1..Len(q) : m < n /\ q[m].source = q[n].source => q[m].id < q[n].id
InOrder == \A k \in Kinds : WereRaised(Kept(k)) /\ Increasing(Kept(k))

(* A click is recorded per button as a change of state, so a consumer that *)
(* remembers the last click of a button knows whether the button is down,  *)
(* unless that very click was lost: an earlier loss is made good.          *)
LastClickTells(q, b) ==
  \A n \in 1..Len(q) :
    q[n].source = b /\ q[n].id = raised[b] => (q[n].pressed <=> b \in lastClick)
ButtonsAgree ==
  \A b \in Buttons :
    IF raised[b] = 0 THEN b \notin lastClick ELSE LastClickTells(Kept("click"), b)

(* What a loop whose test has failed will drop arrived after the test.     *)
DropsOnlyLate == step = "reset" => \A e \in Pending(phase) : e.late

(* Only an event raised between the failed test of its kind's loop and the *)
(* reset of the counter is lost; every other one stays until it is handled.*)
OnlyLateEventsAreLost ==
  [][\A k \in Kinds : \A e \in Pending(k) :
       e.late \/ e \in Pending(k)' \/ e \in ToSet(log'[k])]_vars

(* No array fills up for ever: whatever is in one is handled or dropped.   *)
ArraysDrain == \A k \in Kinds : current[k] > 0 ~> current[k] = 0

(* What is kept of the events agrees with what was raised: its order, and  *)
(* the state of the buttons; and the loops drop nothing they had seen.     *)
Inv == TypeOK /\ InOrder /\ ButtonsAgree /\ DropsOnlyLate
=============================================================================
