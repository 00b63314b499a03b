---------------------------- MODULE LinkedList ----------------------------
(***************************************************************************)
(* The singly linked lists of src/src/shared.h. An item is a heap block    *)
(* whose first word points to the next item; the variable that holds a     *)
(* list's first item is used as if it were an item before it, so a list is *)
(* named by that variable.                                                 *)
(*                                                                         *)
(* `next` is the first word of every block and of every list variable. A   *)
(* block that is freed keeps its contents until it is used again.          *)
(***************************************************************************)
EXTENDS Naturals, Sequences, FiniteSets

CONSTANT Null

(* The items iterateList visits from a list, or from an item, on. Links    *)
(* that lead in a circle, which no loop would leave, are followed as often *)
(* as there are blocks and lists.                                          *)
Items(next, from) ==
  LET visit[k \in 0..Cardinality(DOMAIN next)] ==
        [n \in DOMAIN next |->
           IF k = 0 \/ next[n] = Null THEN <<>>
           ELSE <<next[n]>> \o visit[k - 1][next[n]]]
  IN  visit[Cardinality(DOMAIN next)][from]

End(next, list) ==
  LET items == Items(next, list)
  IN  IF items = <<>> THEN list ELSE items[Len(items)]

(* What points to an item of the list.                                     *)
Before(next, list, item) ==
  LET items == Items(next, list)
      k == CHOOSE n \in 1..Len(items) : items[n] = item
  IN  IF k = 1 THEN list ELSE items[k - 1]

addItem(next, list, item) ==
  [next EXCEPT ![End(next, list)] = item, ![item] = Null]

addItemFirst(next, list, item) ==
  [next EXCEPT ![item] = next[list], ![list] = item]

(* The removed item still points to the one that followed it.              *)
removeItem(next, list, item) ==
  [next EXCEPT ![Before(next, list, item)] = next[item]]

(* Broken: what pointed to the item still does.                            *)
moveItemEndKeeping(next, list, item) ==
  [next EXCEPT ![End(next, list)] = item, ![item] = Null]

(* The item is taken out and put behind what is the last one then.         *)
moveItemEnd(next, list, item) ==
  LET without == removeItem(next, list, item)
  IN  [without EXCEPT ![End(without, list)] = item, ![item] = Null]

listLength(next, list) == Len(Items(next, list))

(* The blocks that are freed, each one before its link is followed; the    *)
(* variable still points to the first of them until its owner clears it.   *)
unallocateList(next, list) ==
  {Items(next, list)[n] : n \in 1 .. listLength(next, list)}
=============================================================================
