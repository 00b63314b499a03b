----------------------------- MODULE Callbacks -----------------------------
(***************************************************************************)
(* The lists of functions that the main loop calls with every key press,   *)
(* movement and click (src/src/main.c). A program that wants the events    *)
(* puts an item on each list when it starts and keeps their addresses, by  *)
(* which it removes them before it quits (the desktop's start and update). *)
(* The items are blocks that are freed and taken again, for any list.      *)
(***************************************************************************)
EXTENDS LinkedList, SequencesExt

CONSTANTS
  Programs,  \* those that take events: the desktop, and a second one in it
  Blocks,
  keyCalls, moveCalls, clickCalls  \* the variables that hold the lists

CallLists == {keyCalls, moveCalls, clickCalls}

CallbacksAssumption ==
  /\ Cardinality(CallLists) = 3 /\ IsFiniteSet(Blocks)
  /\ Blocks \cap CallLists = {}
  /\ Null \notin Blocks \cup CallLists \cup Programs

VARIABLES
  next,     \* the first word of each block and list
  pointer,  \* the program whose function an item holds; Null when it is free
  kept,     \* kept[p][l]: the item of p on a list, as p remembers it
  list,     \* the list being walked, or Null
  call,     \* the item that the walk has got to
  called,   \* the programs that it has called
  started   \* the programs that take events, in the order they started

vars == <<next, pointer, kept, list, call, called, started>>

Init ==
  /\ next = [n \in Blocks \cup CallLists |-> Null]
  /\ pointer = [b \in Blocks |-> Null]
  /\ kept = [p \in Programs |-> [l \in CallLists |-> Null]]
  /\ list = Null /\ call = Null /\ called = <<>>
  /\ started = <<>>

Unused == {b \in Blocks : pointer[b] = Null}

(* Broken: the newest program is called first.                             *)
AddCallFirst(links, l, b) == addItemFirst(links, l, b)

(* addKeyCall, addMoveCall and addClickCall.                               *)
AddCall(links, l, b) == addItem(links, l, b)

AddCalls(links, item) ==
  LET key == AddCall(links, keyCalls, item[keyCalls])
      move == AddCall(key, moveCalls, item[moveCalls])
  IN  AddCall(move, clickCalls, item[clickCalls])

(* Only start() and update() change the lists, and neither runs while one  *)
(* of them is walked: what a click can start is a client of the desktop.   *)
Start(p) ==
  /\ list = Null
  /\ p \notin ToSet(started)
  /\ \E item \in [CallLists -> Unused] :
       /\ IsInjective(item)
       /\ next' = AddCalls(next, item)
       /\ pointer' = [b \in Blocks |-> IF b \in Range(item) THEN p ELSE pointer[b]]
       /\ kept' = [kept EXCEPT ![p] = item]
  /\ started' = Append(started, p)
  /\ UNCHANGED <<list, call, called>>

(* removeKeyCall, removeMoveCall and removeClickCall.                      *)
RemoveCall(links, l, b) == removeItem(links, l, b)

RemoveCalls(links, item) ==
  LET key == RemoveCall(links, keyCalls, item[keyCalls])
      move == RemoveCall(key, moveCalls, item[moveCalls])
  IN  RemoveCall(move, clickCalls, item[clickCalls])

Quit(p) ==
  /\ list = Null
  /\ p \in ToSet(started)
  /\ next' = RemoveCalls(next, kept[p])
  /\ pointer' = [b \in Blocks |-> IF b \in Range(kept[p]) THEN Null ELSE pointer[b]]
  /\ kept' = [kept EXCEPT ![p] = [l \in CallLists |-> Null]]
  /\ started' = RemoveFirst(started, p)
  /\ UNCHANGED <<list, call, called>>

(* The main loop takes an event from an array.                             *)
Event(l) ==
  /\ list = Null
  /\ list' = l /\ call' = l /\ called' = <<>>
  /\ UNCHANGED <<next, pointer, kept, started>>

Call ==
  /\ list # Null /\ next[call] # Null
  /\ call' = next[call]
  /\ called' = Append(called, pointer[next[call]])
  /\ UNCHANGED <<next, pointer, kept, list, started>>

WalkEnds ==
  /\ list # Null /\ next[call] = Null
  /\ list' = Null /\ call' = Null
  /\ UNCHANGED <<next, pointer, kept, called, started>>

Next ==
  \/ \E p \in Programs : Start(p) \/ Quit(p)
  \/ \E l \in CallLists : Event(l)
  \/ Call
  \/ WalkEnds

Spec == Init /\ [][Next]_vars

-----------------------------------------------------------------------------
TypeOK ==
  /\ next \in [Blocks \cup CallLists -> Blocks \cup {Null}]
  /\ pointer \in [Blocks -> Programs \cup {Null}]
  /\ kept \in [Programs -> [CallLists -> Blocks \cup {Null}]]
  /\ list \in CallLists \cup {Null}
  /\ call \in Blocks \cup CallLists \cup {Null}
  /\ {called, started} \subseteq Seq(Programs)

(* The address that a program keeps is that of its own item, on the list   *)
(* it is for, whatever programs that started before or after it did.       *)
KeptItemIsOwn ==
  \A p \in ToSet(started), l \in CallLists :
    /\ kept[p][l] \in ToSet(Items(next, l))
    /\ pointer[kept[p][l]] = p

(* An event is handed to each program that takes events once, in the order *)
(* they started, and to none that has quit.                                *)
EachCalledOnce ==
  list # Null =>
    called \o [n \in DOMAIN Items(next, call) |-> pointer[Items(next, call)[n]]] = started

(* The lists of calls are those of the programs that take events.          *)
Inv == TypeOK /\ KeptItemIsOwn /\ EachCalledOnce
=============================================================================
