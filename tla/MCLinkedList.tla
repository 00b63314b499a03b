---------------------------- MODULE MCLinkedList ---------------------------
(* The list library for TLC: lists that take their items from the same     *)
(* blocks, against the sequences they stand for.                           *)
EXTENDS LinkedList, SequencesExt

CONSTANTS Lists, Blocks

LinkedListAssumption ==
  /\ IsFiniteSet(Lists) /\ IsFiniteSet(Blocks)
  /\ Blocks \cap Lists = {} /\ Null \notin Blocks \cup Lists

VARIABLES
  next,
  contents  \* contents[l]: what a list holds, as a sequence

vars == <<next, contents>>

Init ==
  /\ next = [n \in Lists \cup Blocks |-> Null]
  /\ contents = [l \in Lists |-> <<>>]

Used == UNION {ToSet(contents[l]) : l \in Lists}

Add(l, b) ==
  /\ b \in Blocks \ Used
  /\ next' = addItem(next, l, b)
  /\ contents' = [contents EXCEPT ![l] = Append(@, b)]

AddFirst(l, b) ==
  /\ b \in Blocks \ Used
  /\ next' = addItemFirst(next, l, b)
  /\ contents' = [contents EXCEPT ![l] = <<b>> \o @]

TakeOut(l, b) ==
  /\ b \in ToSet(contents[l])
  /\ next' = removeItem(next, l, b)
  /\ contents' = [contents EXCEPT ![l] = RemoveFirst(@, b)]

MoveEnd(l, b) ==
  /\ b \in ToSet(contents[l])
  /\ next' = moveItemEnd(next, l, b)
  /\ contents' = [contents EXCEPT ![l] = Append(RemoveFirst(@, b), b)]

(* The list is freed and its variable cleared.                             *)
Unallocate(l) ==
  /\ next' = [next EXCEPT ![l] = Null]
  /\ contents' = [contents EXCEPT ![l] = <<>>]

Next == \E l \in Lists :
  \/ \E b \in Blocks : Add(l, b) \/ AddFirst(l, b) \/ TakeOut(l, b) \/ MoveEnd(l, b)
  \/ Unallocate(l)

Spec == Init /\ [][Next]_vars

(* Each list holds what its operations say, in order, and can be freed as  *)
(* a whole, however blocks pass from one list to the other with the links  *)
(* they had.                                                               *)
ListsAreSequences ==
  \A l \in Lists :
    /\ Items(next, l) = contents[l]
    /\ listLength(next, l) = Len(contents[l])
    /\ unallocateList(next, l) = ToSet(contents[l])
=============================================================================
