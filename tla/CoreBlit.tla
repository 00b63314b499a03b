----------------------------- MODULE CoreBlit ------------------------------
(***************************************************************************)
(* How a copy of the screen is divided among the cores (coreBlit in        *)
(* src/src/shared.h, and likewise coreFill): splitTask runs the task once  *)
(* for each core, with the core's number, and each run copies its share,   *)
(* word by word, while the others copy theirs.                             *)
(***************************************************************************)
EXTENDS Naturals

CONSTANTS
  Words,   \* words of two pixels on the screen
  Cores

CoreBlitAssumption == Words \in Nat /\ Cores \in Nat \ {0}

Ids == 0 .. Cores - 1
blitSize == Words \div Cores

VARIABLES
  i,       \* how far the task has come on each core
  copied   \* whether a word has been copied

vars == <<i, copied>>

Init == i = [id \in Ids |-> 0] /\ copied = [w \in 0 .. Words - 1 |-> FALSE]

(* Broken: a share begins at the last word of the one before.              *)
WordShared(id, n) == n + (IF id = 0 THEN 0 ELSE blitSize * id - 1)

Word(id, n) == n + blitSize * id

coreBlit(id) ==
  /\ i[id] < blitSize
  /\ copied' = [copied EXCEPT ![Word(id, i[id])] = TRUE]
  /\ i' = [i EXCEPT ![id] = i[id] + 1]

Finished == \A id \in Ids : i[id] = blitSize

(* splitTask returns, and the next copy begins.                            *)
Again == Finished /\ i' = [id \in Ids |-> 0] /\ copied' = [w \in 0 .. Words - 1 |-> FALSE]

Next == Again \/ \E id \in Ids : coreBlit(id)

Spec == Init /\ [][Next]_vars

-----------------------------------------------------------------------------
(* Types, and no core writes past the screen.                              *)
TypeOK ==
  /\ i \in [Ids -> 0 .. blitSize]
  /\ copied \in [0 .. Words - 1 -> BOOLEAN]
  /\ \A id \in Ids : i[id] < blitSize => Word(id, i[id]) \in 0 .. Words - 1

(* Two cores never write the same word, at whatever speeds they run.       *)
OwnWords ==
  \A c, d \in Ids :
    c # d /\ i[c] < blitSize /\ i[d] < blitSize => Word(c, i[c]) # Word(d, i[d])

(* When splitTask returns every share has been copied, and only the words  *)
(* that no share holds are left out: fewer than there are cores.           *)
SharesCopied ==
  Finished => /\ \A w \in 0 .. Words - 1 : copied[w] <=> w < blitSize * Cores
              /\ Words - blitSize * Cores < Cores
=============================================================================
