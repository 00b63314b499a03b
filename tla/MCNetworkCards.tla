-------------------------- MODULE MCNetworkCards ---------------------------
(* The rings of the network card that the system has found, for TLC. The   *)
(* receive ring and the send ring share nothing, so a behaviour is one of  *)
(* either: of E1000, of Rtl8169 or of SendRing.                            *)
EXTENDS Integers, Sequences

CONSTANTS
  R, IntelFrames, Faulty,  \* R, MaxFrames and Faulty of the e1000
  RtlR, RtlFrames,         \* R and MaxFrames of the rtl8169
  T, MaxSends              \* of the send ring

VARIABLES
  card,       \* the card, which sendPacket belongs to
  direction,  \* "receive" or "send"
  paced,      \* of both receive paths
  ring, head, tail, cause, pc, intelArrived, out,
  rtlRing, rtlCard, causes, rtlPc, status, rtlI, rtlArrived, known, rtlOut,
  txRing, owned, next, at, txSent, wire, broken

intelVars == <<head, tail, cause, ring, pc, intelArrived, out>>
rtlVars == <<rtlRing, rtlCard, causes, rtlPc, status, rtlI, rtlArrived, known, rtlOut>>
txVars == <<txRing, owned, next, at, txSent, wire, broken>>
cardVars == <<card, direction, paced, intelVars, rtlVars, txVars>>

Intel == INSTANCE E1000 WITH MaxFrames <- IntelFrames, arrived <- intelArrived

Rtl == INSTANCE Rtl8169 WITH
  R <- RtlR, MaxFrames <- RtlFrames, ring <- rtlRing, card <- rtlCard,
  pc <- rtlPc, i <- rtlI, arrived <- rtlArrived, out <- rtlOut

Tx == INSTANCE SendRing WITH ring <- txRing, sent <- txSent

ASSUME RingsAssumption ==
  Intel!E1000Assumption /\ Rtl!Rtl8169Assumption /\ Tx!SendRingAssumption

CardsInit == direction \in {"receive", "send"} /\ Intel!Init /\ Rtl!Init /\ Tx!Init

Only(name, path) == card = name /\ direction = path

CardsNext ==
  \/ Only("e1000", "receive") /\ Intel!Next /\ UNCHANGED <<card, direction, rtlVars, txVars>>
  \/ Only("rtl8169", "receive") /\ Rtl!Next
       /\ UNCHANGED <<card, direction, intelVars, txVars>>
  \/ direction = "send" /\ Tx!Next /\ UNCHANGED <<direction, paced, intelVars, rtlVars>>

(* The fairness of each of the three.                                      *)
CardsSpec ==
  /\ CardsInit /\ [][CardsNext]_cardVars
  /\ WF_cardVars(Only("e1000", "receive") /\ (Intel!Handle \/ Intel!Clear)
                   /\ UNCHANGED <<card, direction, rtlVars, txVars>>)
  /\ WF_cardVars(Only("rtl8169", "receive") /\ (Rtl!Enter \/ Rtl!Scan \/ Rtl!Return)
                   /\ UNCHANGED <<card, direction, intelVars, txVars>>)
  /\ WF_cardVars(direction = "send" /\ Tx!Transmit
                   /\ UNCHANGED <<direction, paced, intelVars, rtlVars>>)

(* The e1000's handler meets the frames in the order of their arrival. No  *)
(* scan of the rtl8169's ring leaves a frame behind that had arrived when  *)
(* it began. What is sent is what sendPacket was given, in order, until    *)
(* the ring, in which nobody looks for room, is full or past its end.      *)
CardsInv ==
  /\ Intel!TypeOK /\ Rtl!TypeOK /\ Tx!TypeOK
  /\ Intel!InRingOrder
  /\ Rtl!Swept /\ Rtl!NoneTwice /\ Rtl!OneAtATime
  /\ Tx!WireInOrder /\ Tx!BreaksWhen /\ Tx!InRingOrder

(* Each card's handler hands on every good frame exactly once; the e1000's *)
(* in order, the rtl8169's in order when the network waits for interrupts. *)
FramesOnce == Intel!FrameBufferSpec /\ Rtl!FrameBufferSpec

(* The e1000's receive path falls behind for good, see E1000.              *)
LagOnlyGrows == Intel!LagOnlyGrows

(* When the network waits for each interrupt, no accepted frame waits for  *)
(* the next one; and a packet reaches the wire, unless its ring breaks.    *)
NothingLeft == Intel!NothingWaits /\ Rtl!NothingWaits /\ Tx!AllSent
=============================================================================
