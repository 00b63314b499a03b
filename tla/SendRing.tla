----------------------------- MODULE SendRing ------------------------------
(***************************************************************************)
(* The send rings of the two network cards (src/src/main.h). Neither       *)
(* e1000Send nor rtl8169Send looks whether the card has sent the           *)
(* descriptor it is about to fill. The e1000e sends while its head differs *)
(* from its tail, so a ring that the driver has filled looks empty to it;  *)
(* the rtl8169 sends while it owns the descriptor it is at, and goes back  *)
(* to the first after the last, which txCurrent never does.                *)
(***************************************************************************)
EXTENDS Integers, Sequences

CONSTANTS
  T,           \* descriptors in the ring (256)
  MaxSends     \* bound on the calls of sendPacket

SendRingAssumption ==
  T \in Nat /\ T > 1 /\ MaxSends \in Nat

VARIABLES
  card,    \* "e1000" or "rtl8169": what sendPacket points to; never changes
  ring,    \* the packet in each descriptor, 0 before the first
  owned,   \* rtl8169: the descriptors whose done bit gives them to the card
  next,    \* the e1000's tail register 0x3818, or txCurrent
  at,      \* the card's place in the ring
  sent,    \* history: how many packets have been given to sendPacket
  wire,    \* history: the packets the card has sent
  broken   \* whether the ring has been filled (e1000) or left (rtl8169);
           \* what the card does from then on is not modelled

vars == <<card, ring, owned, next, at, sent, wire, broken>>

Slots == 0..T-1

Init ==
  /\ card \in {"e1000", "rtl8169"}
  /\ ring = [k \in Slots |-> 0]
  /\ owned = {}
  /\ next = 0 /\ at = 0
  /\ sent = 0 /\ wire = <<>>
  /\ broken = FALSE

Succ(k) == IF k + 1 >= T THEN 0 ELSE k + 1

Send ==
  /\ sent < MaxSends /\ ~broken
  /\ sent' = sent + 1
  /\ UNCHANGED <<card, at, wire>>

e1000Send ==
  /\ card = "e1000" /\ Send
  /\ ring' = [ring EXCEPT ![next] = sent']
  /\ next' = Succ(next)
  /\ broken' = (next' = at)
  /\ UNCHANGED <<card, owned>>

rtl8169Send ==
  /\ card = "rtl8169" /\ Send
  /\ IF next < T
       THEN /\ ring' = [ring EXCEPT ![next] = sent']
            /\ owned' = owned \cup {next}
            /\ UNCHANGED broken
       ELSE broken' = TRUE /\ UNCHANGED <<ring, owned>>
  /\ next' = next + 1

Ready == IF card = "e1000" THEN at # next ELSE at \in owned

(* The card sends the packet it is at.                                     *)
Transmit ==
  /\ ~broken /\ Ready
  /\ wire' = Append(wire, ring[at])
  /\ at' = Succ(at)
  /\ owned' = owned \ {at}
  /\ UNCHANGED <<card, ring, next, sent, broken>>

Next == e1000Send \/ rtl8169Send \/ Transmit

Spec == Init /\ [][Next]_vars
FairSpec == Spec /\ WF_vars(Transmit)

-----------------------------------------------------------------------------
TypeOK ==
  /\ card \in {"e1000", "rtl8169"}
  /\ ring \in [Slots -> 0..sent] /\ owned \subseteq Slots
  /\ next \in 0..T+1 /\ at \in Slots
  /\ sent \in 0..MaxSends /\ wire \in Seq(Nat) /\ Len(wire) <= sent
  /\ broken \in BOOLEAN

(* How many descriptors the card goes on by to reach one.                  *)
Ahead(k) == IF k >= at THEN k - at ELSE k - at + T

(* Until the ring breaks, the packets not yet sent are in the descriptors  *)
(* from the card's place to the driver's, one after the other. The e1000's *)
(* driver is never a whole ring ahead; the rtl8169's has not been round.   *)
InRingOrder ==
  ~broken =>
    IF card = "e1000"
    THEN /\ next \in Slots /\ sent - Len(wire) = Ahead(next)
         /\ \A k \in Slots : Ahead(k) < Ahead(next) => ring[k] = Len(wire) + 1 + Ahead(k)
    ELSE /\ next = sent /\ next <= T
         /\ at = IF Len(wire) < T THEN Len(wire) ELSE 0
         /\ owned = {k \in Slots : Len(wire) <= k /\ k < next}
         /\ \A k \in Slots : k < next => ring[k] = k + 1

(* Although the driver never waits for the card, the packets on the wire   *)
(* are those it was given, complete, once and in order, as long as it has  *)
(* not come round to the card's place; and no descriptor is overwritten    *)
(* before it has been sent.                                                *)
WireInOrder ==
  /\ \A n \in 1..Len(wire) : wire[n] = n
  /\ ~broken => \A n \in Len(wire)+1..sent : \E k \in Slots : ring[k] = n

(* The e1000 fails when T packets wait, the rtl8169 with packet T + 1 of   *)
(* the boot, however slowly they are sent.                                 *)
BreaksWhen ==
  broken => IF card = "e1000" THEN sent - Len(wire) = T ELSE sent = T + 1

(* A packet reaches the wire, unless the ring breaks first.                *)
AllSent == \A n \in 1..MaxSends : sent = n ~> Len(wire) >= n \/ broken
=============================================================================
