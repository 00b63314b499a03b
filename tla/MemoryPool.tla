----------------------------- MODULE MemoryPool -----------------------------
(***************************************************************************)
(* What allocate and unallocate (src/src/main.h) promise: a set of live    *)
(* blocks that never overlap, each placed at the lowest address at which   *)
(* it fits among the blocks that are live when it is asked for.            *)
(***************************************************************************)
EXTENDS Naturals

CONSTANTS
  Blocks,   \* names for the blocks a program may hold at one time
  Sizes,    \* the sizes asked for
  Base      \* the lowest address of the pool

VARIABLES
  live,   \* the blocks handed out and not given back
  ptr,    \* ptr[b]: the address of a live block
  size    \* size[b]: its length

vars == <<live, ptr, size>>

Fits(a, n) == \A b \in live : a + n <= ptr[b] \/ a >= ptr[b] + size[b]

(* The lowest fit, when there is one, is at the bottom of the pool or at   *)
(* the end of a live block.                                                *)
Candidates == {Base} \cup {ptr[b] + size[b] : b \in live}

LowestFit(a, n) ==
  /\ a >= Base /\ Fits(a, n)
  /\ \A lower \in Base..(a - 1) : ~Fits(lower, n)

Init ==
  /\ live = {}
  /\ ptr = [b \in Blocks |-> 0]
  /\ size = [b \in Blocks |-> 0]

Allocate(b, n) ==
  /\ b \notin live
  /\ \E a \in Candidates : LowestFit(a, n) /\ ptr' = [ptr EXCEPT ![b] = a]
  /\ size' = [size EXCEPT ![b] = n]
  /\ live' = live \cup {b}

Unallocate(b) ==
  /\ b \in live
  /\ live' = live \ {b}
  /\ ptr' = [ptr EXCEPT ![b] = 0]
  /\ size' = [size EXCEPT ![b] = 0]

Next == \E b \in Blocks : Unallocate(b) \/ \E n \in Sizes : Allocate(b, n)

Spec == Init /\ [][Next]_vars

=============================================================================
