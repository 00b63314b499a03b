---------------------------- MODULE FrameBuffer ----------------------------
(***************************************************************************)
(* What a network driver promises of the frames its card accepts: each one *)
(* is held until it is handed on, once. Frames are numbered in the order   *)
(* of their arrival; with fifo they are handed on in that order too.       *)
(***************************************************************************)
EXTENDS Naturals, Sequences

CONSTANTS
  Faulty    \* the frames that arrive with an error, which are not handed on

VARIABLES
  fifo,     \* whether frames are handed on in order; it never changes
  arrived,  \* how many frames have arrived
  held,     \* the frames accepted and not handed on
  out       \* the frames handed on, in order

vars == <<fifo, arrived, held, out>>

Init == fifo \in BOOLEAN /\ arrived = 0 /\ held = {} /\ out = <<>>

Arrive ==
  /\ arrived' = arrived + 1
  /\ held' \in {held, held \cup {arrived + 1}}
  /\ UNCHANGED <<fifo, out>>

HandOn ==
  /\ \E f \in held :
       /\ fifo => \A g \in held : f <= g
       /\ held' = held \ {f}
       /\ out' = IF f \in Faulty THEN out ELSE Append(out, f)
  /\ UNCHANGED <<fifo, arrived>>

Next == Arrive \/ HandOn

Spec == Init /\ [][Next]_vars
=============================================================================
