------------------------------- MODULE MCHeap -------------------------------
(* Heap with interchangeable block names, and the allocator as the desktop *)
(* uses it in a click while no window is open.                             *)
EXTENDS Heap, TLC

BlockSymmetry == Permutations(Blocks)

(* A block of no bytes is given back before anything else is asked for.    *)
ClickNext ==
  /\ Next
  /\ pc = "idle" /\ (\E b \in live : size[b] = 0) => pc' = "free" /\ size[client'] = 0

ClickSpec == Init /\ [][ClickNext]_vars

=============================================================================
