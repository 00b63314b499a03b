------------------------------- MODULE E1000 -------------------------------
(***************************************************************************)
(* The receive ring of the e1000e and its interrupt handler                *)
(* (src/src/main.h). The card owns the descriptors from its head up to the *)
(* tail, and raises an interrupt for a received frame. The handler takes   *)
(* one descriptor, the one after the tail, whatever the number of frames   *)
(* received, and then clears the cause it has read. The card runs          *)
(* alongside the handler; a frame that arrives before the cause is cleared *)
(* has no interrupt of its own.                                            *)
(***************************************************************************)
EXTENDS Integers, Sequences

CONSTANTS
  R,          \* descriptors in the ring (256)
  MaxFrames,  \* bound on the frames that arrive
  Faulty      \* the frames in which the card finds an error

E1000Assumption ==
  R \in Nat /\ R > 1 /\ MaxFrames \in Nat

VARIABLES
  paced,    \* whether the network waits until an interrupt has been handled;
            \* it never changes
  ring,     \* the frame in each descriptor, 0 when its done bit is clear
  head,     \* register 0x2810: where the card stores the next frame
  tail,     \* register 0x2818
  cause,    \* bit 7 of register 0xC0, the only cause that is not masked
  pc,       \* "idle", or "clear" between taking a frame and clearing the cause
  arrived,  \* history: how many frames have arrived
  out       \* history: what was stored in ethernetPackets, in order

vars == <<paced, ring, head, tail, cause, pc, arrived, out>>

Slots == 0..R-1

Init ==
  /\ paced \in BOOLEAN
  /\ ring = [k \in Slots |-> 0]
  /\ head = 0 /\ tail = R - 1
  /\ cause = FALSE /\ pc = "idle"
  /\ arrived = 0 /\ out = <<>>

Succ(k) == IF k + 1 >= R THEN 0 ELSE k + 1

-----------------------------------------------------------------------------
(* The card.                                                               *)

Arrive ==
  /\ arrived < MaxFrames
  /\ paced => ~cause /\ pc = "idle"
  /\ arrived' = arrived + 1
  /\ UNCHANGED <<paced, tail, pc, out>>

Receive ==
  /\ Arrive
  /\ head # tail
  /\ ring' = [ring EXCEPT ![head] = arrived']
  /\ head' = Succ(head)
  /\ cause' = TRUE

(* No descriptor is left: the frame is dropped without an interrupt.       *)
Overrun ==
  /\ Arrive
  /\ head = tail
  /\ UNCHANGED <<paced, ring, head, cause>>

-----------------------------------------------------------------------------
(* The interrupt handler.                                                  *)

(* Broken: the done bit is not cleared.                                    *)
HandleKeepsDone ==
  /\ pc = "idle" /\ cause
  /\ LET t == Succ(tail) IN
       /\ out' = IF ring[t] \in Faulty THEN out ELSE Append(out, ring[t])
       /\ tail' = t
  /\ pc' = "clear"
  /\ UNCHANGED <<paced, ring, head, cause, arrived>>

(* Reads the cause, takes the frame after the tail, gives its descriptor   *)
(* back to the card.                                                       *)
Handle ==
  /\ pc = "idle" /\ cause
  /\ LET t == Succ(tail) IN
       /\ out' = IF ring[t] \in Faulty THEN out ELSE Append(out, ring[t])
       /\ ring' = [ring EXCEPT ![t] = 0]
       /\ tail' = t
  /\ pc' = "clear"
  /\ UNCHANGED <<paced, head, cause, arrived>>

(* Broken: the cause is not cleared.                                       *)
ClearNothing ==
  /\ pc = "clear" /\ pc' = "idle"
  /\ UNCHANGED <<paced, ring, head, tail, cause, arrived, out>>

(* Writes the cause back, which clears it, and returns.                    *)
Clear ==
  /\ pc = "clear"
  /\ cause' = FALSE
  /\ pc' = "idle"
  /\ UNCHANGED <<paced, ring, head, tail, arrived, out>>

Next == Receive \/ Overrun \/ Handle \/ Clear

Spec == Init /\ [][Next]_vars

(* An interrupt that is pending is served and its handler returns.         *)
FairSpec == Spec /\ WF_vars(Handle \/ Clear)

-----------------------------------------------------------------------------
(* How many descriptors the card has filled and the handler has not taken. *)
Filled == IF head > tail THEN head - tail - 1 ELSE head - tail - 1 + R

(* The frames among them that no interrupt is on its way for.              *)
Backlog == Filled - (IF cause /\ pc = "idle" THEN 1 ELSE 0)

(* The descriptors after the tail and before the head.                     *)
Window == {k \in Slots : IF head > tail THEN tail < k /\ k < head ELSE k < head \/ tail < k}

Held == {ring[k] : k \in Slots} \ {0}

(* Types; the done bits are those of the descriptors in the window.        *)
TypeOK ==
  /\ paced \in BOOLEAN
  /\ ring \in [Slots -> 0..arrived]
  /\ head \in Slots /\ tail \in Slots
  /\ cause \in BOOLEAN /\ pc \in {"idle", "clear"}
  /\ arrived \in 0..MaxFrames
  /\ out \in Seq(1..arrived)
  /\ \A k \in Slots : ring[k] # 0 <=> k \in Window

(* How far a descriptor is behind the one the handler will take next.      *)
Ahead(k) == IF k > tail THEN k - tail - 1 ELSE k - tail - 1 + R

(* The frames lie in the ring in the order of their arrival, and an        *)
(* interrupt finds one: the handler's blind step past the tail is safe.    *)
InRingOrder ==
  /\ \A k, l \in Window : Ahead(k) < Ahead(l) => ring[k] < ring[l]
  /\ cause /\ pc = "idle" => Succ(tail) \in Window

(* Every frame that the card accepts is handed on once and in order, or is *)
(* still in the ring; the handler, which looks at no done bit, never takes *)
(* a descriptor that the card has not filled.                              *)
Buffer == INSTANCE FrameBuffer WITH held <- Held, fifo <- TRUE
FrameBufferSpec == Buffer!Spec

(* A frame that arrives before the cause of an earlier one is cleared has  *)
(* no interrupt, and the handler takes one frame for each: the receive     *)
(* path falls behind by it for good, until the ring is full of old frames  *)
(* and nothing is received any more.                                       *)
LagOnlyGrows == [][Backlog' >= Backlog]_vars

(* A network that waits for each interrupt to be handled has every frame   *)
(* handed on without the help of a later one.                              *)
NothingWaits == \A f \in 1..MaxFrames : paced /\ f \in Held ~> f \notin Held
=============================================================================
