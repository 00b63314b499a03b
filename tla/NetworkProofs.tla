---------------------------- MODULE NetworkProofs --------------------------
(***************************************************************************)
(* Proofs about the network. For rings of every size and every number of   *)
(* frames and packets: the invariants of the e1000's and the rtl8169's     *)
(* receive rings and of their send rings, and that both receive paths      *)
(* implement FrameBuffer. For any frames, connections and batches: the     *)
(* invariant of NetworkStack.                                              *)
(***************************************************************************)
EXTENDS MCNetworkCards, NetworkStack, SequenceTheorems, TLAPS

-----------------------------------------------------------------------------
(* A sequence of numbers up to n is one of numbers up to any later n, and  *)
(* stays one when such a number is appended.                               *)
LEMMA AppendUpTo ==
  ASSUME NEW n \in Nat, NEW m \in Nat, n <= m, NEW q \in Seq(1..n), NEW f \in 1..m
  PROVE  q \in Seq(1..m) /\ Append(q, f) \in Seq(1..m)
<1>1. 1..n \subseteq 1..m
  OBVIOUS
<1>2. q \in Seq(1..m)
  BY <1>1, SeqMonotonic
<1> QED
  BY <1>2, AppendProperties

LEMMA SeqUpTo ==
  ASSUME NEW n \in Nat, NEW m \in Nat, n <= m, NEW q \in Seq(1..n)
  PROVE  q \in Seq(1..m)
<1>1. 1..n \subseteq 1..m
  OBVIOUS
<1> QED
  BY <1>1, SeqMonotonic

-----------------------------------------------------------------------------
(* The e1000's receive ring.                                               *)

E1000Inv == Intel!TypeOK /\ Intel!InRingOrder

(* The slots, without the intervals.                                       *)
LEMMA SlotsDef ==
  /\ R \in Nat /\ R > 1 /\ IntelFrames \in Nat
  /\ \A k : k \in Intel!Slots <=> k \in Nat /\ k < R
BY RingsAssumption DEF Intel!E1000Assumption, Intel!Slots

(* The window is what is less ahead of the handler than the head is.       *)
LEMMA WindowAhead ==
  ASSUME head \in Intel!Slots, tail \in Intel!Slots
  PROVE  /\ Intel!Filled = Intel!Ahead(head)
         /\ Intel!Succ(tail) \in Intel!Slots /\ Intel!Succ(head) \in Intel!Slots
         /\ \A k \in Intel!Slots : k \in Intel!Window <=> Intel!Ahead(k) < Intel!Ahead(head)
         /\ \A k \in Intel!Slots :
              Intel!Ahead(k) \in 0..(R - 1) /\ (Intel!Ahead(k) = 0 <=> k = Intel!Succ(tail))
         /\ \A k \in Intel!Slots : Intel!Ahead(k) = R - 1 <=> k = tail
         /\ \A k, l \in Intel!Slots : Intel!Ahead(k) = Intel!Ahead(l) => k = l
<1>1. Intel!Filled = Intel!Ahead(head)
  BY SlotsDef DEF Intel!Filled, Intel!Ahead
<1>2. \A k \in Intel!Slots : k \in Intel!Window <=> Intel!Ahead(k) < Intel!Ahead(head)
  BY SlotsDef DEF Intel!Window, Intel!Ahead
<1>3. Intel!Succ(tail) \in Intel!Slots /\ Intel!Succ(head) \in Intel!Slots
  BY SlotsDef DEF Intel!Succ
<1>4. \A k \in Intel!Slots :
        Intel!Ahead(k) \in 0..(R - 1) /\ (Intel!Ahead(k) = 0 <=> k = Intel!Succ(tail))
  BY SlotsDef DEF Intel!Ahead, Intel!Succ
<1>5. \A k \in Intel!Slots : Intel!Ahead(k) = R - 1 <=> k = tail
  BY SlotsDef DEF Intel!Ahead
<1>6. \A k, l \in Intel!Slots : Intel!Ahead(k) = Intel!Ahead(l) => k = l
  BY SlotsDef DEF Intel!Ahead
<1> QED
  BY <1>1, <1>2, <1>3, <1>4, <1>5, <1>6

(* What the card stores goes behind everything in the window.              *)
LEMMA ReceiveWindow ==
  ASSUME Intel!TypeOK, Intel!Receive
  PROVE  /\ head \in Intel!Slots /\ head \notin Intel!Window /\ ring[head] = 0
         /\ head' \in Intel!Slots /\ Intel!Window' = Intel!Window \cup {head}
         /\ \A k \in Intel!Slots : Intel!Ahead(k)' = Intel!Ahead(k)
         /\ Intel!Filled' = Intel!Filled + 1
         /\ Intel!Succ(tail)' \in Intel!Window'
<1>1. /\ head \in Intel!Slots /\ tail \in Intel!Slots /\ head # tail
      /\ head' = Intel!Succ(head) /\ tail' = tail
  BY DEF Intel!TypeOK, Intel!Receive, Intel!Arrive
<1>2. head' \in Intel!Slots
  BY <1>1, WindowAhead
<1>3. \A k \in Intel!Slots : Intel!Ahead(k)' = Intel!Ahead(k)
  BY <1>1 DEF Intel!Ahead
<1>4. Intel!Window' = Intel!Window \cup {head}
  BY <1>1, SlotsDef DEF Intel!Window, Intel!Succ
<1>5. Intel!Filled' = Intel!Filled + 1
  <2>1. head \in Nat /\ head < R /\ tail \in Nat /\ tail < R
    BY <1>1, SlotsDef
  <2>2. Intel!Filled' = IF head' > tail THEN head' - tail - 1 ELSE head' - tail - 1 + R
    BY <1>1 DEF Intel!Filled
  <2>3. CASE head + 1 >= R
    <3>1. head' = 0
      BY <1>1, <2>3 DEF Intel!Succ
    <3> QED BY <1>1, <2>1, <2>2, <2>3, <3>1, SlotsDef DEF Intel!Filled
  <2>4. CASE ~(head + 1 >= R)
    <3>1. head' = head + 1
      BY <1>1, <2>4 DEF Intel!Succ
    <3> QED BY <1>1, <2>1, <2>2, <2>4, <3>1, SlotsDef DEF Intel!Filled
  <2> QED BY <2>3, <2>4
<1>6. head \notin Intel!Window
  BY <1>1, SlotsDef DEF Intel!Window
<1>7. Intel!Succ(tail) \in Intel!Window \cup {head}
  BY <1>1, SlotsDef DEF Intel!Window, Intel!Succ
<1>8. ring[head] = 0
  BY <1>1, <1>6 DEF Intel!TypeOK
<1> QED
  BY <1>1, <1>2, <1>3, <1>4, <1>5, <1>6, <1>7, <1>8

(* What the handler takes is the first of the window.                      *)
LEMMA HandleWindow ==
  ASSUME E1000Inv, Intel!Handle
  PROVE  /\ Intel!Succ(tail) \in Intel!Window /\ Intel!Succ(tail) \in Intel!Slots
         /\ tail' = Intel!Succ(tail)
         /\ Intel!Window' = Intel!Window \ {tail'}
         /\ \A k \in Intel!Window \ {tail'} :
              Intel!Ahead(k)' = Intel!Ahead(k) - 1 /\ Intel!Ahead(tail') < Intel!Ahead(k)
         /\ Intel!Filled' = Intel!Filled - 1
<1>1. /\ head \in Intel!Slots /\ tail \in Intel!Slots /\ Intel!Succ(tail) \in Intel!Window
      /\ tail' = Intel!Succ(tail) /\ head' = head
  BY DEF E1000Inv, Intel!TypeOK, Intel!InRingOrder, Intel!Handle
<1>2. Intel!Succ(tail) \in Intel!Slots
  BY <1>1, WindowAhead
<1>3. \A k \in Intel!Window : k \in Intel!Slots
  BY DEF Intel!Window
<1>4. \A k \in Intel!Window \ {tail'} :
        Intel!Ahead(k)' = Intel!Ahead(k) - 1 /\ Intel!Ahead(tail') < Intel!Ahead(k)
  BY <1>1, <1>2, <1>3, SlotsDef DEF Intel!Ahead, Intel!Succ
<1>5. Intel!Window' = Intel!Window \ {tail'}
  BY <1>1, <1>2, SlotsDef DEF Intel!Window, Intel!Succ
<1>6. Intel!Filled' = Intel!Filled - 1
  BY <1>1, <1>2, SlotsDef DEF Intel!Window, Intel!Filled, Intel!Succ
<1> QED
  BY <1>1, <1>2, <1>4, <1>5, <1>6

LEMMA E1000InitInv == Intel!Init => E1000Inv
<1> SUFFICES ASSUME Intel!Init PROVE E1000Inv
  OBVIOUS
<1> USE SlotsDef DEF Intel!Init
<1>1. Intel!Window = {}
  BY DEF Intel!Window
<1>2. <<>> \in Seq(1..0)
  BY EmptySeq
<1>3. Intel!TypeOK
  <2>1. out \in Seq(1..intelArrived)
    BY <1>2
  <2>2. /\ ring \in [Intel!Slots -> 0..intelArrived]
        /\ \A k \in Intel!Slots : ring[k] # 0 <=> k \in Intel!Window
    BY <1>1
  <2>3. tail \in Intel!Slots /\ head \in Intel!Slots /\ intelArrived \in 0..IntelFrames
    OBVIOUS
  <2> QED
    BY <2>1, <2>2, <2>3 DEF Intel!TypeOK
<1>4. Intel!InRingOrder
  BY <1>1 DEF Intel!InRingOrder
<1> QED
  BY <1>3, <1>4 DEF E1000Inv

LEMMA E1000NextInv == E1000Inv /\ [Intel!Next]_(Intel!vars) => E1000Inv'
<1> SUFFICES ASSUME E1000Inv, [Intel!Next]_(Intel!vars) PROVE E1000Inv'
  OBVIOUS
<1> Intel!TypeOK
  BY DEF E1000Inv
<1>1. CASE Intel!Receive
  <2>1. /\ intelArrived \in Nat /\ intelArrived' = intelArrived + 1
        /\ intelArrived' <= IntelFrames
        /\ ring' = [ring EXCEPT ![head] = intelArrived']
        /\ out' = out /\ paced' = paced /\ pc' = pc /\ tail' = tail /\ cause' = TRUE
    BY <1>1, SlotsDef DEF Intel!Receive, Intel!Arrive, Intel!TypeOK
  <2>2. ring' \in [Intel!Slots -> 0..intelArrived']
    BY <1>1, <2>1, ReceiveWindow DEF Intel!TypeOK
  <2>3. \A k \in Intel!Slots : ring'[k] # 0 <=> k \in Intel!Window'
    BY <1>1, <2>1, ReceiveWindow DEF Intel!TypeOK
  <2>4. out' \in Seq(1..intelArrived')
    BY <2>1, SeqUpTo DEF Intel!TypeOK
  <2>5. Intel!TypeOK'
    BY <1>1, <2>1, <2>2, <2>3, <2>4, ReceiveWindow, SlotsDef DEF Intel!TypeOK
  <2>6. ASSUME NEW k \in Intel!Window', NEW l \in Intel!Window',
               Intel!Ahead(k)' < Intel!Ahead(l)'
        PROVE  ring'[k] < ring'[l]
    <3>1. k \in Intel!Slots /\ l \in Intel!Slots /\ Intel!Ahead(k) < Intel!Ahead(l)
      BY <1>1, <2>6, ReceiveWindow DEF Intel!Window
    <3>2. \A m \in Intel!Slots : m \in Intel!Window =>
            Intel!Ahead(m) < Intel!Ahead(head) /\ Intel!Ahead(m) \in Nat
      BY WindowAhead DEF Intel!TypeOK
    <3>3. Intel!Ahead(head) \in Nat
      BY WindowAhead DEF Intel!TypeOK
    <3>4. CASE l = head
      <4>1. k # head /\ ring'[k] = ring[k] /\ ring[k] \in 0..intelArrived
        BY <2>1, <3>1, <3>3, <3>4 DEF Intel!TypeOK
      <4>2. ring'[l] = intelArrived + 1
        BY <1>1, <2>1, <3>4, ReceiveWindow DEF Intel!TypeOK
      <4> QED BY <2>1, <4>1, <4>2
    <3>5. CASE l # head
      <4>1. l \in Intel!Window /\ k # head
        BY <1>1, <3>1, <3>2, <3>3, <3>5, ReceiveWindow
      <4>2. k \in Intel!Window
        BY <1>1, <4>1, ReceiveWindow
      <4>3. ring'[k] = ring[k] /\ ring'[l] = ring[l]
        BY <2>1, <3>1, <3>5, <4>1 DEF Intel!TypeOK
      <4> QED BY <3>1, <4>1, <4>2, <4>3 DEF E1000Inv, Intel!InRingOrder
    <3> QED BY <3>4, <3>5
  <2> QED
    BY <1>1, <2>5, <2>6, ReceiveWindow DEF E1000Inv, Intel!InRingOrder
<1>2. CASE Intel!Overrun
  <2>1. /\ intelArrived \in Nat /\ intelArrived' = intelArrived + 1
        /\ intelArrived' <= IntelFrames
        /\ UNCHANGED <<paced, ring, head, tail, cause, pc, out>>
    BY <1>2, SlotsDef DEF Intel!Overrun, Intel!Arrive, Intel!TypeOK
  <2>2. out' \in Seq(1..intelArrived')
    BY <2>1, SeqUpTo DEF Intel!TypeOK
  <2>3. ring' \in [Intel!Slots -> 0..intelArrived']
    BY <2>1 DEF Intel!TypeOK
  <2>4. Intel!Window' = Intel!Window
    BY <2>1 DEF Intel!Window
  <2>5. Intel!TypeOK'
    BY <2>1, <2>2, <2>3, <2>4, SlotsDef DEF Intel!TypeOK
  <2>6. Intel!InRingOrder'
    BY <2>1, <2>4 DEF E1000Inv, Intel!InRingOrder, Intel!Ahead, Intel!Succ
  <2> QED
    BY <2>5, <2>6 DEF E1000Inv
<1>3. CASE Intel!Handle
  <2> DEFINE t == Intel!Succ(tail)
  <2>1. /\ out' = IF ring[t] \in Faulty THEN out ELSE Append(out, ring[t])
        /\ ring' = [ring EXCEPT ![t] = 0] /\ tail' = t /\ pc' = "clear"
        /\ UNCHANGED <<paced, head, cause, intelArrived>>
    BY <1>3 DEF Intel!Handle
  <2>2. t \in Intel!Window /\ t \in Intel!Slots /\ Intel!Window' = Intel!Window \ {t}
    BY <1>3, <2>1, HandleWindow
  <2>3. ring[t] \in 1..intelArrived /\ intelArrived \in Nat
    BY <2>2, SlotsDef DEF Intel!TypeOK
  <2> HIDE DEF t
  <2>4. out' \in Seq(1..intelArrived')
    <3>1. out \in Seq(1..intelArrived)
      BY DEF Intel!TypeOK
    <3>2. Append(out, ring[t]) \in Seq(1..intelArrived)
      BY <2>3, <3>1, AppendProperties
    <3> QED BY <2>1, <3>1, <3>2
  <2>5. /\ ring' \in [Intel!Slots -> 0..intelArrived']
        /\ \A k \in Intel!Slots : ring'[k] # 0 <=> k \in Intel!Window'
    BY <2>1, <2>2, <2>3 DEF Intel!TypeOK
  <2>6. Intel!TypeOK'
    BY <2>1, <2>2, <2>4, <2>5 DEF Intel!TypeOK
  <2>7. ASSUME NEW k \in Intel!Window', NEW l \in Intel!Window',
               Intel!Ahead(k)' < Intel!Ahead(l)'
        PROVE  ring'[k] < ring'[l]
    <3>1. /\ k \in Intel!Window \ {t} /\ l \in Intel!Window \ {t}
          /\ k \in Intel!Slots /\ l \in Intel!Slots
      BY <2>2 DEF Intel!Window
    <3>2. Intel!Ahead(k)' = Intel!Ahead(k) - 1 /\ Intel!Ahead(l)' = Intel!Ahead(l) - 1
      BY <1>3, <2>1, <3>1, HandleWindow
    <3>3. Intel!Ahead(k) \in Nat /\ Intel!Ahead(l) \in Nat
      BY <3>1, WindowAhead DEF Intel!TypeOK
    <3>4. ring'[k] = ring[k] /\ ring'[l] = ring[l]
      BY <2>1, <3>1 DEF Intel!TypeOK
    <3> QED BY <2>7, <3>1, <3>2, <3>3, <3>4 DEF E1000Inv, Intel!InRingOrder
  <2> QED
    BY <2>1, <2>6, <2>7 DEF E1000Inv, Intel!InRingOrder
<1>4. CASE Intel!Clear
  <2>1. /\ cause' = FALSE /\ pc' = "idle"
        /\ UNCHANGED <<paced, ring, head, tail, intelArrived, out>>
    BY <1>4 DEF Intel!Clear
  <2>2. Intel!Window' = Intel!Window
    BY <2>1 DEF Intel!Window
  <2>3. Intel!TypeOK'
    BY <2>1, <2>2 DEF Intel!TypeOK
  <2> QED
    BY <2>1, <2>2, <2>3 DEF E1000Inv, Intel!InRingOrder, Intel!Ahead
<1>5. CASE UNCHANGED Intel!vars
  BY <1>5 DEF Intel!vars, E1000Inv, Intel!TypeOK, Intel!InRingOrder, Intel!Window,
              Intel!Ahead, Intel!Succ
<1> QED
  BY <1>1, <1>2, <1>3, <1>4, <1>5 DEF Intel!Next

(* No step shortens the backlog: every frame handed on takes an interrupt. *)
LEMMA E1000Lags == E1000Inv /\ [Intel!Next]_(Intel!vars) => Intel!Backlog' >= Intel!Backlog
<1> SUFFICES ASSUME E1000Inv, [Intel!Next]_(Intel!vars) PROVE Intel!Backlog' >= Intel!Backlog
  OBVIOUS
<1> Intel!TypeOK
  BY DEF E1000Inv
<1>1. Intel!Filled \in Int /\ cause \in BOOLEAN /\ pc \in {"idle", "clear"}
  BY SlotsDef DEF Intel!TypeOK, Intel!Filled
<1>2. CASE Intel!Receive
  BY <1>1, <1>2, ReceiveWindow DEF Intel!Receive, Intel!Arrive, Intel!Backlog
<1>3. CASE Intel!Overrun
  BY <1>1, <1>3 DEF Intel!Overrun, Intel!Arrive, Intel!Backlog, Intel!Filled
<1>4. CASE Intel!Handle
  BY <1>1, <1>4, HandleWindow DEF Intel!Handle, Intel!Backlog
<1>5. CASE Intel!Clear
  <2>1. Intel!Filled' = Intel!Filled
    BY <1>5 DEF Intel!Clear, Intel!Filled
  <2> QED
    BY <1>1, <1>5, <2>1 DEF Intel!Clear, Intel!Backlog
<1>6. CASE UNCHANGED Intel!vars
  BY <1>1, <1>6 DEF Intel!vars, Intel!Backlog, Intel!Filled
<1> QED
  BY <1>2, <1>3, <1>4, <1>5, <1>6 DEF Intel!Next

(* Every step is a step of FrameBuffer, which hands frames on in order.    *)
LEMMA E1000Refines ==
  E1000Inv /\ [Intel!Next]_(Intel!vars) => [Intel!Buffer!Next]_(Intel!Buffer!vars)
<1> SUFFICES ASSUME E1000Inv, [Intel!Next]_(Intel!vars)
             PROVE  [Intel!Buffer!Next]_(Intel!Buffer!vars)
  OBVIOUS
<1> Intel!TypeOK
  BY DEF E1000Inv
<1>1. CASE Intel!Receive
  <2>1. /\ intelArrived' = intelArrived + 1 /\ out' = out
        /\ ring' = [ring EXCEPT ![head] = intelArrived + 1]
        /\ head \in Intel!Slots /\ ring[head] = 0 /\ intelArrived \in Nat
    BY <1>1, ReceiveWindow, SlotsDef DEF Intel!Receive, Intel!Arrive, Intel!TypeOK
  <2>2. Intel!Held' = Intel!Held \cup {intelArrived + 1}
    <3>1. \A k \in Intel!Slots : ring'[k] = IF k = head THEN intelArrived + 1 ELSE ring[k]
      BY <2>1 DEF Intel!TypeOK
    <3>2. ASSUME NEW f \in Intel!Held' PROVE f \in Intel!Held \cup {intelArrived + 1}
      BY <3>1 DEF Intel!Held, Intel!Slots
    <3>3. ASSUME NEW f \in Intel!Held PROVE f \in Intel!Held'
      BY <2>1, <3>1 DEF Intel!Held, Intel!Slots
    <3>4. intelArrived + 1 \in Intel!Held'
      BY <2>1, <3>1 DEF Intel!Held, Intel!Slots
    <3> QED BY <3>2, <3>3, <3>4
  <2> QED
    BY <2>1, <2>2 DEF Intel!Buffer!Next, Intel!Buffer!Arrive
<1>2. CASE Intel!Overrun
  <2>1. intelArrived' = intelArrived + 1 /\ out' = out /\ ring' = ring
    BY <1>2 DEF Intel!Overrun, Intel!Arrive
  <2>2. Intel!Held' = Intel!Held
    BY <2>1 DEF Intel!Held, Intel!Slots
  <2> QED
    BY <2>1, <2>2 DEF Intel!Buffer!Next, Intel!Buffer!Arrive
<1>3. CASE Intel!Handle
  <2> DEFINE t == Intel!Succ(tail)
  <2>1. /\ out' = IF ring[t] \in Faulty THEN out ELSE Append(out, ring[t])
        /\ ring' = [ring EXCEPT ![t] = 0] /\ tail' = t /\ UNCHANGED intelArrived
    BY <1>3 DEF Intel!Handle
  <2>2. t \in Intel!Window /\ t \in Intel!Slots /\ ring[t] \in Nat \ {0}
    BY <1>3, HandleWindow, SlotsDef DEF Intel!TypeOK
  <2>3. ASSUME NEW k \in Intel!Slots, ring[k] # 0, k # t PROVE ring[t] < ring[k]
    <3>1. k \in Intel!Window \ {t}
      BY <2>3 DEF Intel!TypeOK
    <3>2. Intel!Ahead(t) < Intel!Ahead(k)
      BY <1>3, <2>1, <3>1, HandleWindow
    <3> QED BY <2>2, <3>1, <3>2 DEF E1000Inv, Intel!InRingOrder
  <2> HIDE DEF t
  <2>4. ring[t] \in Intel!Held /\ \A g \in Intel!Held : ring[t] <= g
    BY <2>2, <2>3 DEF Intel!Held, Intel!TypeOK
  <2>5. Intel!Held' = Intel!Held \ {ring[t]}
    <3>1. \A k \in Intel!Slots : ring'[k] = IF k = t THEN 0 ELSE ring[k]
      BY <2>1 DEF Intel!TypeOK
    <3>2. \A k \in Intel!Slots : ring[k] # 0 /\ k # t => ring[k] # ring[t]
      BY <2>2, <2>3 DEF Intel!TypeOK
    <3>3. ASSUME NEW f \in Intel!Held' PROVE f \in Intel!Held \ {ring[t]}
      BY <3>1, <3>2 DEF Intel!Held, Intel!Slots
    <3>4. ASSUME NEW f \in Intel!Held \ {ring[t]} PROVE f \in Intel!Held'
      BY <3>1 DEF Intel!Held, Intel!Slots
    <3> QED BY <3>3, <3>4
  <2>6. Intel!Buffer!HandOn
    BY <2>1, <2>4, <2>5 DEF Intel!Buffer!HandOn
  <2> QED
    BY <2>6 DEF Intel!Buffer!Next
<1>4. CASE Intel!Clear
  BY <1>4 DEF Intel!Clear, Intel!Buffer!vars, Intel!Held, Intel!Slots
<1>5. CASE UNCHANGED Intel!vars
  BY <1>5 DEF Intel!vars, Intel!Buffer!vars, Intel!Held, Intel!Slots
<1> QED
  BY <1>1, <1>2, <1>3, <1>4, <1>5 DEF Intel!Next

LEMMA E1000RefinesInit == Intel!Init => Intel!Buffer!Init
BY DEF Intel!Init, Intel!Buffer!Init, Intel!Held

-----------------------------------------------------------------------------
(* The rtl8169's receive ring.                                             *)

RtlInv == Rtl!TypeOK /\ Rtl!Swept /\ Rtl!NoneTwice /\ Rtl!OneAtATime

LEMMA RtlSlotsDef ==
  /\ RtlR \in Nat /\ RtlR > 1 /\ RtlFrames \in Nat
  /\ \A k : k \in Rtl!Slots <=> k \in Nat /\ k < RtlR
BY RingsAssumption DEF Rtl!Rtl8169Assumption, Rtl!Slots

LEMMA RtlInitInv == Rtl!Init => RtlInv
<1> SUFFICES ASSUME Rtl!Init PROVE RtlInv
  OBVIOUS
<1> USE RtlSlotsDef DEF Rtl!Init
<1>1. Rtl!TypeOK
  <2>1. <<>> \in Seq(1..0)
    BY EmptySeq
  <2>2. rtlOut \in Seq(1..rtlArrived)
    BY <2>1
  <2>3. rtlRing \in [Rtl!Slots -> 0..rtlArrived] /\ rtlCard \in Rtl!Slots
    OBVIOUS
  <2> QED
    BY <2>2, <2>3 DEF Rtl!TypeOK
<1>2. Rtl!Swept /\ Rtl!NoneTwice /\ Rtl!OneAtATime
  BY DEF Rtl!Swept, Rtl!NoneTwice, Rtl!OneAtATime
<1> QED
  BY <1>1, <1>2 DEF RtlInv

LEMMA RtlNextInv == RtlInv /\ [Rtl!Next]_(Rtl!vars) => RtlInv'
<1> SUFFICES ASSUME RtlInv, [Rtl!Next]_(Rtl!vars) PROVE RtlInv'
  OBVIOUS
<1> Rtl!TypeOK
  BY DEF RtlInv
<1> USE RtlSlotsDef
<1>1. CASE Rtl!Receive
  <2>1. /\ rtlArrived \in Nat /\ known \in Nat /\ known <= rtlArrived
        /\ rtlArrived' = rtlArrived + 1 /\ rtlArrived' <= RtlFrames
        /\ rtlRing' = [rtlRing EXCEPT ![rtlCard] = rtlArrived + 1]
        /\ rtlCard \in Rtl!Slots /\ rtlRing[rtlCard] = 0
        /\ rtlCard' = IF rtlCard = RtlR - 1 THEN 0 ELSE rtlCard + 1
        /\ causes' = causes \cup {"received"}
        /\ UNCHANGED <<paced, rtlPc, status, rtlI, known, rtlOut>>
    BY <1>1 DEF Rtl!Receive, Rtl!Arrive, Rtl!TypeOK, Rtl!handlerVars
  <2>2. \A k \in Rtl!Slots : /\ rtlRing'[k] = IF k = rtlCard THEN rtlArrived + 1 ELSE rtlRing[k]
                             /\ rtlRing[k] \in 0..rtlArrived
    BY <2>1 DEF Rtl!TypeOK
  <2>3. Rtl!TypeOK'
    <3>1. rtlOut' \in Seq(1..rtlArrived')
      BY <2>1, SeqUpTo DEF Rtl!TypeOK
    <3>2. rtlRing' \in [Rtl!Slots -> 0..rtlArrived']
      BY <2>1, <2>2 DEF Rtl!TypeOK
    <3>3. rtlCard' \in Rtl!Slots
      BY <2>1
    <3> QED
      BY <2>1, <3>1, <3>2, <3>3 DEF Rtl!TypeOK, Rtl!Causes, Rtl!Slots
  <2>4. Rtl!Swept'
    BY <2>1, <2>2 DEF RtlInv, Rtl!Swept, Rtl!Slots
  <2>5. Rtl!NoneTwice'
    BY <2>1, <2>2 DEF RtlInv, Rtl!NoneTwice, Rtl!Slots
  <2>6. Rtl!OneAtATime'
    <3>1. paced => /\ rtlPc = "idle" /\ \A k \in Rtl!Slots : rtlRing[k] = 0
                   /\ "received" \in causes'
      BY <1>1, <2>1 DEF Rtl!Receive, Rtl!Arrive, RtlInv, Rtl!OneAtATime
    <3> QED
      BY <2>1, <2>2, <3>1 DEF Rtl!OneAtATime, Rtl!Pending, Rtl!Mask, Rtl!Slots
  <2> QED
    BY <2>3, <2>4, <2>5, <2>6 DEF RtlInv
<1>2. CASE Rtl!Overrun
  <2>1. /\ rtlArrived \in Nat /\ rtlArrived' = rtlArrived + 1 /\ rtlArrived' <= RtlFrames
        /\ known \in Nat /\ known <= rtlArrived
        /\ causes' = causes \cup {"unavailable"}
        /\ rtlCard \in Rtl!Slots /\ rtlRing[rtlCard] # 0
        /\ UNCHANGED <<paced, rtlRing, rtlCard, rtlPc, status, rtlI, known, rtlOut>>
    BY <1>2 DEF Rtl!Overrun, Rtl!Arrive, Rtl!TypeOK, Rtl!handlerVars
  <2>2. Rtl!TypeOK'
    <3>1. rtlOut' \in Seq(1..rtlArrived')
      BY <2>1, SeqUpTo DEF Rtl!TypeOK
    <3>2. rtlRing' \in [Rtl!Slots -> 0..rtlArrived']
      BY <2>1 DEF Rtl!TypeOK
    <3> QED
      BY <2>1, <3>1, <3>2 DEF Rtl!TypeOK, Rtl!Causes, Rtl!Slots
  <2>3. ~paced
    BY <1>2, <2>1 DEF Rtl!Overrun, Rtl!Arrive, RtlInv, Rtl!OneAtATime
  <2> QED
    BY <2>1, <2>2, <2>3 DEF RtlInv, Rtl!Swept, Rtl!NoneTwice, Rtl!OneAtATime, Rtl!Slots
<1>3. CASE Rtl!Enter
  <2>1. /\ rtlPc = "idle" /\ "received" \in causes /\ status' = causes
        /\ rtlPc' = "scan" /\ rtlI' = 0 /\ known' = rtlArrived
        /\ UNCHANGED <<paced, rtlRing, rtlCard, causes, rtlArrived, rtlOut>>
    BY <1>3 DEF Rtl!Enter, Rtl!Pending, Rtl!Mask
  <2>2. Rtl!TypeOK'
    BY <2>1 DEF Rtl!TypeOK, Rtl!Slots
  <2> QED
    BY <2>1, <2>2 DEF RtlInv, Rtl!Swept, Rtl!NoneTwice, Rtl!OneAtATime, Rtl!Slots
<1>4. CASE Rtl!Scan
  <2>1. /\ rtlPc = "scan" /\ rtlI \in Rtl!Slots
        /\ rtlOut' = IF rtlRing[rtlI] = 0 THEN rtlOut ELSE Append(rtlOut, rtlRing[rtlI])
        /\ rtlRing' = [rtlRing EXCEPT ![rtlI] = 0] /\ rtlI' = rtlI + 1
        /\ UNCHANGED <<paced, rtlCard, causes, rtlPc, status, rtlArrived, known>>
    <3>1. rtlI < RtlR /\ rtlI \in Nat
      BY <1>4 DEF Rtl!Scan, Rtl!TypeOK
    <3>2. rtlI \in Rtl!Slots
      BY <3>1
    <3> QED
      BY <1>4, <3>2 DEF Rtl!Scan
  <2>2. /\ \A k \in Rtl!Slots : rtlRing'[k] = IF k = rtlI THEN 0 ELSE rtlRing[k]
        /\ rtlArrived \in Nat /\ rtlRing[rtlI] \in 0..rtlArrived
    BY <2>1 DEF Rtl!TypeOK
  <2>3. Rtl!TypeOK'
    <3>1. rtlOut \in Seq(1..rtlArrived)
      BY DEF Rtl!TypeOK
    <3>2. rtlRing[rtlI] # 0 => Append(rtlOut, rtlRing[rtlI]) \in Seq(1..rtlArrived)
      BY <2>2, <3>1, AppendProperties
    <3>3. rtlOut' \in Seq(1..rtlArrived')
      BY <2>1, <3>1, <3>2
    <3>4. rtlRing' \in [Rtl!Slots -> 0..rtlArrived']
      BY <2>1, <2>2 DEF Rtl!TypeOK
    <3> QED
      BY <2>1, <3>3, <3>4 DEF Rtl!TypeOK, Rtl!Slots
  <2>4. Rtl!Swept'
    BY <2>1, <2>2 DEF RtlInv, Rtl!Swept, Rtl!Slots
  <2>5. Rtl!NoneTwice'
    BY <2>1, <2>2 DEF RtlInv, Rtl!NoneTwice, Rtl!Slots
  <2>6. Rtl!OneAtATime'
    BY <2>1, <2>2 DEF RtlInv, Rtl!OneAtATime, Rtl!Slots
  <2> QED
    BY <2>3, <2>4, <2>5, <2>6 DEF RtlInv
<1>5. CASE Rtl!Return
  <2>1. /\ rtlPc = "scan" /\ rtlI = RtlR /\ causes' = causes \ status /\ rtlPc' = "idle"
        /\ UNCHANGED <<paced, rtlRing, rtlCard, status, rtlI, rtlArrived, known, rtlOut>>
    BY <1>5 DEF Rtl!Return
  <2>2. Rtl!TypeOK'
    BY <2>1 DEF Rtl!TypeOK, Rtl!Slots
  <2>3. \A k \in Rtl!Slots : rtlRing[k] # 0 => rtlRing[k] > known
    BY <2>1 DEF RtlInv, Rtl!Swept
  <2>4. paced => \A k \in Rtl!Slots : rtlRing[k] = 0
    <3>1. \A k \in Rtl!Slots : rtlRing[k] \in 0..rtlArrived
      BY DEF Rtl!TypeOK
    <3> QED
      BY <2>1, <2>3, <3>1 DEF RtlInv, Rtl!OneAtATime, Rtl!TypeOK
  <2> QED
    BY <2>1, <2>2, <2>3, <2>4 DEF RtlInv, Rtl!Swept, Rtl!NoneTwice, Rtl!OneAtATime, Rtl!Slots
<1>6. CASE UNCHANGED Rtl!vars
  BY <1>6 DEF Rtl!vars, Rtl!handlerVars, RtlInv, Rtl!TypeOK, Rtl!Swept, Rtl!NoneTwice,
              Rtl!OneAtATime, Rtl!Pending, Rtl!Slots
<1> QED
  BY <1>1, <1>2, <1>3, <1>4, <1>5, <1>6 DEF Rtl!Next

(* Every step is a step of FrameBuffer, which hands frames on in order     *)
(* when the network waits for each interrupt.                              *)
LEMMA RtlRefines == RtlInv /\ [Rtl!Next]_(Rtl!vars) => [Rtl!Buffer!Next]_(Rtl!Buffer!vars)
<1> SUFFICES ASSUME RtlInv, [Rtl!Next]_(Rtl!vars)
             PROVE  [Rtl!Buffer!Next]_(Rtl!Buffer!vars)
  OBVIOUS
<1> Rtl!TypeOK
  BY DEF RtlInv
<1> USE RtlSlotsDef
<1>1. CASE Rtl!Receive
  <2>1. /\ rtlArrived' = rtlArrived + 1 /\ rtlArrived \in Nat
        /\ rtlRing' = [rtlRing EXCEPT ![rtlCard] = rtlArrived + 1]
        /\ rtlCard \in Rtl!Slots /\ rtlRing[rtlCard] = 0
        /\ UNCHANGED <<paced, rtlOut>>
    BY <1>1 DEF Rtl!Receive, Rtl!Arrive, Rtl!TypeOK
  <2>2. Rtl!Held' = Rtl!Held \cup {rtlArrived + 1}
    <3>1. \A k \in Rtl!Slots :
            rtlRing'[k] = IF k = rtlCard THEN rtlArrived + 1 ELSE rtlRing[k]
      BY <2>1 DEF Rtl!TypeOK
    <3>2. ASSUME NEW f \in Rtl!Held' PROVE f \in Rtl!Held \cup {rtlArrived + 1}
      BY <3>1 DEF Rtl!Held, Rtl!Slots
    <3>3. ASSUME NEW f \in Rtl!Held PROVE f \in Rtl!Held'
      BY <2>1, <3>1 DEF Rtl!Held, Rtl!Slots
    <3>4. rtlArrived + 1 \in Rtl!Held'
      BY <2>1, <3>1 DEF Rtl!Held, Rtl!Slots
    <3> QED BY <3>2, <3>3, <3>4
  <2> QED
    BY <2>1, <2>2 DEF Rtl!Buffer!Next, Rtl!Buffer!Arrive
<1>2. CASE Rtl!Overrun
  <2>1. rtlArrived' = rtlArrived + 1 /\ UNCHANGED <<paced, rtlRing, rtlOut>>
    BY <1>2 DEF Rtl!Overrun, Rtl!Arrive
  <2>2. Rtl!Held' = Rtl!Held
    BY <2>1 DEF Rtl!Held, Rtl!Slots
  <2> QED
    BY <2>1, <2>2 DEF Rtl!Buffer!Next, Rtl!Buffer!Arrive
<1>3. CASE Rtl!Scan
  <2>1. /\ rtlI \in Rtl!Slots /\ rtlRing[rtlI] \in Nat
        /\ rtlOut' = IF rtlRing[rtlI] = 0 THEN rtlOut ELSE Append(rtlOut, rtlRing[rtlI])
        /\ rtlRing' = [rtlRing EXCEPT ![rtlI] = 0]
        /\ UNCHANGED <<paced, rtlArrived>>
    <3>1. rtlI < RtlR
      BY <1>3 DEF Rtl!Scan
    <3>2. rtlI \in Nat
      BY DEF Rtl!TypeOK
    <3>3. rtlI \in Rtl!Slots
      BY <3>1, <3>2
    <3>4. rtlRing[rtlI] \in Nat
      BY <3>3 DEF Rtl!TypeOK
    <3> QED
      BY <1>3, <3>4, <3>3 DEF Rtl!Scan
  <2>2. \A k \in Rtl!Slots : rtlRing'[k] = IF k = rtlI THEN 0 ELSE rtlRing[k]
    BY <2>1 DEF Rtl!TypeOK
  <2>3. CASE rtlRing[rtlI] = 0
    <3>1. rtlRing' = rtlRing
      BY <2>1, <2>3 DEF Rtl!TypeOK
    <3> QED
      BY <2>1, <2>3, <3>1 DEF Rtl!Buffer!vars, Rtl!Held, Rtl!Slots
  <2>4. CASE rtlRing[rtlI] # 0
    <3>1. rtlRing[rtlI] \in Rtl!Held
      BY <2>1, <2>4 DEF Rtl!Held
    <3>2. paced => \A g \in Rtl!Held : rtlRing[rtlI] <= g
      BY <2>1, <2>4 DEF RtlInv, Rtl!OneAtATime, Rtl!Held
    <3>3. Rtl!Held' = Rtl!Held \ {rtlRing[rtlI]}
      <4>1. \A k \in Rtl!Slots : k # rtlI => rtlRing[k] # rtlRing[rtlI]
        BY <2>1, <2>4 DEF RtlInv, Rtl!NoneTwice
      <4>2. ASSUME NEW f \in Rtl!Held' PROVE f \in Rtl!Held \ {rtlRing[rtlI]}
        BY <2>2, <4>1 DEF Rtl!Held, Rtl!Slots
      <4>3. ASSUME NEW f \in Rtl!Held \ {rtlRing[rtlI]} PROVE f \in Rtl!Held'
        BY <2>2 DEF Rtl!Held, Rtl!Slots
      <4> QED BY <4>2, <4>3
    <3>4. Rtl!Buffer!HandOn
      BY <2>1, <2>4, <3>1, <3>2, <3>3 DEF Rtl!Buffer!HandOn
    <3> QED
      BY <3>4 DEF Rtl!Buffer!Next
  <2> QED
    BY <2>3, <2>4
<1>4. CASE Rtl!Enter \/ Rtl!Return \/ UNCHANGED Rtl!vars
  BY <1>4 DEF Rtl!Enter, Rtl!Return, Rtl!vars, Rtl!Buffer!vars, Rtl!Held, Rtl!Slots
<1> QED
  BY <1>1, <1>2, <1>3, <1>4 DEF Rtl!Next

LEMMA RtlRefinesInit == Rtl!Init => Rtl!Buffer!Init
BY DEF Rtl!Init, Rtl!Buffer!Init, Rtl!Held

-----------------------------------------------------------------------------
(* The send rings.                                                         *)

TxInv == Tx!TypeOK /\ Tx!InRingOrder /\ Tx!WireInOrder /\ Tx!BreaksWhen

LEMMA TxSlotsDef ==
  /\ T \in Nat /\ T > 1 /\ MaxSends \in Nat
  /\ \A k : k \in Tx!Slots <=> k \in Nat /\ k < T
BY RingsAssumption DEF Tx!SendRingAssumption, Tx!Slots

(* Going on by one from the card's place, and from the driver's.           *)
LEMMA TxAhead ==
  ASSUME at \in Tx!Slots
  PROVE  /\ \A k \in Tx!Slots : Tx!Ahead(k) \in 0..(T - 1) /\ Tx!Succ(k) \in Tx!Slots
         /\ \A k \in Tx!Slots : Tx!Ahead(k) = 0 <=> k = at
         /\ \A k, l \in Tx!Slots : Tx!Ahead(k) = Tx!Ahead(l) => k = l
         /\ \A k \in Tx!Slots :
              Tx!Ahead(Tx!Succ(k)) = IF Tx!Succ(k) = at THEN 0 ELSE Tx!Ahead(k) + 1
         /\ \A k \in Tx!Slots : Tx!Succ(k) = at => Tx!Ahead(k) = T - 1
         /\ \A n \in 0..(T - 1) : \E k \in Tx!Slots : Tx!Ahead(k) = n
<1> USE TxSlotsDef
<1>1. \A k \in Tx!Slots : Tx!Ahead(k) \in 0..(T - 1) /\ Tx!Succ(k) \in Tx!Slots
  BY DEF Tx!Ahead, Tx!Succ
<1>2. \A k \in Tx!Slots : Tx!Ahead(k) = 0 <=> k = at
  BY DEF Tx!Ahead
<1>3. \A k, l \in Tx!Slots : Tx!Ahead(k) = Tx!Ahead(l) => k = l
  BY DEF Tx!Ahead
<1>4. ASSUME NEW k \in Tx!Slots
      PROVE  Tx!Ahead(Tx!Succ(k)) = IF Tx!Succ(k) = at THEN 0 ELSE Tx!Ahead(k) + 1
  BY DEF Tx!Ahead, Tx!Succ
<1>5. \A k \in Tx!Slots : Tx!Succ(k) = at => Tx!Ahead(k) = T - 1
  BY DEF Tx!Ahead, Tx!Succ
<1>6. ASSUME NEW n \in 0..(T - 1) PROVE \E k \in Tx!Slots : Tx!Ahead(k) = n
  <2>1. CASE at + n < T
    <3>1. at + n \in Tx!Slots /\ Tx!Ahead(at + n) = n
      BY <2>1 DEF Tx!Ahead
    <3> QED BY <3>1
  <2>2. CASE at + n >= T
    <3>1. at + n - T \in Tx!Slots /\ Tx!Ahead(at + n - T) = n
      BY <2>2 DEF Tx!Ahead
    <3> QED BY <3>1
  <2> QED BY <2>1, <2>2
<1> QED
  BY <1>1, <1>2, <1>3, <1>4, <1>5, <1>6

(* While the ring holds, every packet not yet sent is in a descriptor.     *)
LEMMA TxNoneLost ==
  Tx!TypeOK /\ Tx!InRingOrder /\ ~broken =>
    \A n \in (Len(wire) + 1)..txSent : \E k \in Tx!Slots : txRing[k] = n
<1> SUFFICES ASSUME Tx!TypeOK, Tx!InRingOrder, ~broken, NEW n \in (Len(wire) + 1)..txSent
             PROVE  \E k \in Tx!Slots : txRing[k] = n
  OBVIOUS
<1> USE TxSlotsDef
<1>1. Len(wire) \in Nat /\ txSent \in Nat /\ n \in Nat /\ at \in Tx!Slots
  BY LenProperties DEF Tx!TypeOK
<1>2. CASE card = "e1000"
  <2>1. /\ next \in Tx!Slots /\ Tx!Ahead(next) \in 0..(T - 1)
        /\ txSent - Len(wire) = Tx!Ahead(next)
    BY <1>1, <1>2, TxAhead DEF Tx!InRingOrder
  <2>2. n - Len(wire) - 1 \in 0..(T - 1) /\ n - Len(wire) - 1 < Tx!Ahead(next)
    BY <1>1, <2>1
  <2>3. PICK k \in Tx!Slots : Tx!Ahead(k) = n - Len(wire) - 1
    BY <1>1, <2>2, TxAhead
  <2>4. txRing[k] = Len(wire) + 1 + Tx!Ahead(k)
    BY <1>2, <2>2, <2>3 DEF Tx!InRingOrder
  <2> QED
    BY <1>1, <2>3, <2>4
<1>3. CASE card # "e1000"
  <2>1. next = txSent /\ next <= T /\ \A k \in Tx!Slots : k < next => txRing[k] = k + 1
    BY <1>3 DEF Tx!InRingOrder
  <2>2. n - 1 \in Tx!Slots /\ n - 1 < next
    BY <1>1, <2>1
  <2> QED
    BY <1>1, <2>1, <2>2
<1> QED
  BY <1>2, <1>3

LEMMA TxInitInv == Tx!Init => TxInv
<1> SUFFICES ASSUME Tx!Init PROVE TxInv
  OBVIOUS
<1> USE TxSlotsDef DEF Tx!Init
<1>1. <<>> \in Seq(Nat) /\ Len(<<>>) = 0
  BY EmptySeq
<1>2. Tx!TypeOK
  BY <1>1 DEF Tx!TypeOK
<1>3. Tx!InRingOrder
  <2>1. 0 \in Tx!Slots /\ \A k \in Tx!Slots : Tx!Ahead(k) = k
    BY DEF Tx!Ahead
  <2>2. \A k \in Tx!Slots : ~(Tx!Ahead(k) < Tx!Ahead(next)) /\ ~(k < next)
    BY <2>1
  <2>3. txSent - Len(wire) = Tx!Ahead(next) /\ next \in Tx!Slots
    BY <1>1, <2>1
  <2>4. owned = {k \in Tx!Slots : Len(wire) <= k /\ k < next}
    BY <2>2
  <2>5. next = txSent /\ next <= T /\ at = IF Len(wire) < T THEN Len(wire) ELSE 0
    BY <1>1
  <2> QED
    BY <2>2, <2>3, <2>4, <2>5 DEF Tx!InRingOrder
<1>4. Tx!WireInOrder
  BY <1>1 DEF Tx!WireInOrder
<1> QED
  BY <1>2, <1>3, <1>4 DEF TxInv, Tx!BreaksWhen

LEMMA TxNextInv == TxInv /\ [Tx!Next]_(Tx!vars) => TxInv'
<1> SUFFICES ASSUME TxInv, [Tx!Next]_(Tx!vars) PROVE TxInv'
  OBVIOUS
<1> Tx!TypeOK /\ Tx!InRingOrder
  BY DEF TxInv
<1> USE TxSlotsDef
<1>0. /\ Len(wire) \in Nat /\ wire \in Seq(Nat) /\ txSent \in Nat /\ Len(wire) <= txSent
      /\ at \in Tx!Slots /\ next \in Nat /\ \A n \in 1..Len(wire) : wire[n] = n
  BY LenProperties DEF TxInv, Tx!TypeOK, Tx!WireInOrder
<1>1. CASE Tx!e1000Send
  <2>1. /\ card = "e1000" /\ txSent < MaxSends /\ ~broken /\ txSent' = txSent + 1
        /\ txRing' = [txRing EXCEPT ![next] = txSent + 1]
        /\ next' = Tx!Succ(next) /\ broken' = (next' = at)
        /\ UNCHANGED <<card, at, wire, owned>>
    BY <1>1 DEF Tx!e1000Send, Tx!Send
  <2>2. next \in Tx!Slots /\ txSent - Len(wire) = Tx!Ahead(next) /\ next' \in Tx!Slots
    BY <1>0, <2>1, TxAhead DEF Tx!InRingOrder
  <2>3. Tx!TypeOK'
    BY <1>0, <2>1, <2>2 DEF Tx!TypeOK
  <2>4. \A k \in Tx!Slots : Tx!Ahead(k)' = Tx!Ahead(k)
    BY <2>1 DEF Tx!Ahead
  <2>5. Tx!InRingOrder'
    <3> SUFFICES ASSUME next' # at
                 PROVE  /\ txSent' - Len(wire) = Tx!Ahead(next')
                        /\ \A k \in Tx!Slots : Tx!Ahead(k) < Tx!Ahead(next') =>
                             txRing'[k] = Len(wire) + 1 + Tx!Ahead(k)
      BY <2>1, <2>2, <2>4 DEF Tx!InRingOrder, Tx!Ahead
    <3>1. Tx!Ahead(next') = Tx!Ahead(next) + 1
      BY <1>0, <2>1, <2>2, TxAhead
    <3>2. \A k \in Tx!Slots : Tx!Ahead(k) \in Nat
      BY <1>0, TxAhead
    <3>3. ASSUME NEW k \in Tx!Slots, Tx!Ahead(k) < Tx!Ahead(next')
          PROVE  txRing'[k] = Len(wire) + 1 + Tx!Ahead(k)
      <4>1. CASE k = next
        BY <1>0, <2>1, <2>2, <3>2, <4>1 DEF Tx!TypeOK
      <4>2. CASE k # next
        <5>1. Tx!Ahead(k) < Tx!Ahead(next)
          <6>1. Tx!Ahead(k) # Tx!Ahead(next)
            BY <1>0, <2>2, <4>2, TxAhead
          <6>2. Tx!Ahead(k) \in Nat /\ Tx!Ahead(next) \in Nat
            BY <2>2, <3>2
          <6> QED BY <3>1, <3>3, <6>1, <6>2
        <5>2. txRing'[k] = txRing[k]
          BY <2>1, <4>2 DEF Tx!TypeOK
        <5> QED BY <2>1, <5>1, <5>2 DEF Tx!InRingOrder
      <4> QED BY <4>1, <4>2
    <3> QED
      BY <1>0, <2>1, <2>2, <3>1, <3>2, <3>3
  <2>6. Tx!BreaksWhen'
    <3> SUFFICES ASSUME broken' PROVE txSent' - Len(wire) = T
      BY <2>1 DEF Tx!BreaksWhen
    <3>1. Tx!Ahead(next) = T - 1
      BY <1>0, <2>1, <2>2, TxAhead
    <3> QED
      BY <1>0, <2>1, <2>2, <3>1
  <2>7. Tx!WireInOrder'
    <3>1. (~broken => \A n \in (Len(wire) + 1)..txSent :
                        \E k \in Tx!Slots : txRing[k] = n)'
      BY <2>3, <2>5, TxNoneLost, PTL
    <3> QED
      BY <1>0, <2>1, <3>1 DEF Tx!WireInOrder, Tx!Slots
  <2> QED
    BY <2>3, <2>5, <2>6, <2>7 DEF TxInv
<1>2. CASE Tx!rtl8169Send
  <2>1. /\ card = "rtl8169" /\ txSent < MaxSends /\ ~broken /\ txSent' = txSent + 1
        /\ next' = next + 1 /\ UNCHANGED <<card, at, wire>>
        /\ IF next < T
             THEN /\ txRing' = [txRing EXCEPT ![next] = txSent + 1]
                  /\ owned' = owned \cup {next}
                  /\ broken' = broken
             ELSE broken' = TRUE /\ txRing' = txRing /\ owned' = owned
    BY <1>2 DEF Tx!rtl8169Send, Tx!Send
  <2>2. /\ next = txSent /\ next <= T /\ owned = {k \in Tx!Slots : Len(wire) <= k /\ k < next}
        /\ at = IF Len(wire) < T THEN Len(wire) ELSE 0
        /\ \A k \in Tx!Slots : k < next => txRing[k] = k + 1
    BY <2>1 DEF Tx!InRingOrder
  <2>3. Tx!TypeOK'
    <3>1. /\ txRing \in [Tx!Slots -> 0..txSent] /\ owned \subseteq Tx!Slots
          /\ broken \in BOOLEAN /\ txSent \in 0..MaxSends /\ card \in {"e1000", "rtl8169"}
      BY DEF Tx!TypeOK
    <3>2. txRing \in [Tx!Slots -> 0..txSent']
      BY <1>0, <2>1, <3>1
    <3>3. CASE next < T
      <4>1. txRing' = [txRing EXCEPT ![next] = txSent + 1] /\ next \in Tx!Slots
        BY <1>0, <2>1, <3>3
      <4>2. txRing' \in [Tx!Slots -> 0..txSent']
        BY <1>0, <2>1, <3>2, <4>1
      <4>3. owned' \subseteq Tx!Slots /\ broken' \in BOOLEAN
        BY <2>1, <3>1, <3>3, <4>1
      <4>4. next' \in 0..(T + 1) /\ txSent' \in 0..MaxSends
        BY <1>0, <2>1, <2>2
      <4> QED
        BY <1>0, <2>1, <3>1, <4>2, <4>3, <4>4 DEF Tx!TypeOK
    <3>4. CASE ~(next < T)
      <4>1. next' \in 0..(T + 1) /\ txSent' \in 0..MaxSends
        BY <1>0, <2>1, <2>2
      <4> QED
        BY <1>0, <2>1, <3>1, <3>2, <3>4, <4>1 DEF Tx!TypeOK
    <3> QED
      BY <3>3, <3>4
  <2>4. Tx!InRingOrder'
    <3> SUFFICES ASSUME next < T
                 PROVE  /\ next' = txSent' /\ next' <= T
                        /\ owned' = {k \in Tx!Slots : Len(wire) <= k /\ k < next'}
                        /\ \A k \in Tx!Slots : k < next' => txRing'[k] = k + 1
      BY <2>1, <2>2 DEF Tx!InRingOrder, Tx!Slots
    <3>1. \A k \in Tx!Slots : k < next' => txRing'[k] = k + 1
      <4> SUFFICES ASSUME NEW k \in Tx!Slots, k < next' PROVE txRing'[k] = k + 1
        OBVIOUS
      <4>1. /\ txRing' = [txRing EXCEPT ![next] = txSent + 1]
            /\ txRing \in [Tx!Slots -> 0..txSent] /\ next = txSent /\ next' = next + 1
        BY <2>1, <2>2 DEF Tx!TypeOK
      <4>2. CASE k = next
        BY <4>1, <4>2
      <4>3. CASE k # next
        <5>1. k < next
          BY <1>0, <4>1, <4>3
        <5> QED BY <2>2, <4>1, <4>3, <5>1
      <4> QED BY <4>2, <4>3
    <3>2. owned' = {k \in Tx!Slots : Len(wire) <= k /\ k < next'}
      BY <1>0, <2>1, <2>2
    <3> QED
      BY <1>0, <2>1, <2>2, <3>1, <3>2
  <2>5. Tx!BreaksWhen'
    <3> SUFFICES ASSUME broken' PROVE txSent' = T + 1
      BY <2>1 DEF Tx!BreaksWhen
    <3>1. ~(next < T)
      BY <2>1
    <3> QED
      BY <1>0, <2>1, <2>2, <3>1
  <2>6. Tx!WireInOrder'
    <3>1. (~broken => \A n \in (Len(wire) + 1)..txSent :
                        \E k \in Tx!Slots : txRing[k] = n)'
      BY <2>3, <2>4, TxNoneLost, PTL
    <3> QED
      BY <1>0, <2>1, <3>1 DEF Tx!WireInOrder, Tx!Slots
  <2> QED
    BY <2>3, <2>4, <2>5, <2>6 DEF TxInv
<1>3. CASE Tx!Transmit
  <2>1. /\ ~broken /\ Tx!Ready /\ wire' = Append(wire, txRing[at])
        /\ at' = Tx!Succ(at) /\ owned' = owned \ {at}
        /\ UNCHANGED <<card, txRing, next, txSent, broken>>
    BY <1>3 DEF Tx!Transmit
  <2>2. txRing[at] = Len(wire) + 1 /\ Len(wire) < txSent
    <3>1. CASE card = "e1000"
      <4>1. next \in Tx!Slots /\ at # next
        BY <2>1, <3>1 DEF Tx!Ready, Tx!InRingOrder
      <4>2. Tx!Ahead(at) = 0 /\ Tx!Ahead(next) > 0
        BY <1>0, <4>1, TxAhead
      <4> QED
        BY <1>0, <2>1, <3>1, <4>2 DEF Tx!InRingOrder
    <3>2. CASE card # "e1000"
      BY <1>0, <2>1, <3>2 DEF Tx!Ready, Tx!InRingOrder
    <3> QED BY <3>1, <3>2
  <2>3. /\ wire' \in Seq(Nat) /\ Len(wire') = Len(wire) + 1
        /\ \A n \in 1..Len(wire') : wire'[n] = n
    BY <1>0, <2>1, <2>2, AppendProperties
  <2>4. at' \in Tx!Slots
    BY <1>0, <2>1, TxAhead
  <2>5. Tx!TypeOK'
    BY <1>0, <2>1, <2>2, <2>3, <2>4 DEF Tx!TypeOK
  <2>6. Tx!InRingOrder'
    <3>1. CASE card = "e1000"
      <4>1. /\ next \in Tx!Slots /\ at # next /\ txSent - Len(wire) = Tx!Ahead(next)
        BY <2>1, <3>1 DEF Tx!Ready, Tx!InRingOrder
      <4>2. \A k \in Tx!Slots :
              Tx!Ahead(k)' = IF k = at THEN T - 1 ELSE Tx!Ahead(k) - 1
        <5> SUFFICES ASSUME NEW k \in Tx!Slots
                     PROVE  Tx!Ahead(k)' = IF k = at THEN T - 1 ELSE Tx!Ahead(k) - 1
          OBVIOUS
        <5>1. /\ Tx!Ahead(k)' = IF k >= at' THEN k - at' ELSE k - at' + T
              /\ Tx!Ahead(k) = IF k >= at THEN k - at ELSE k - at + T
          BY DEF Tx!Ahead
        <5>2. CASE at + 1 >= T
          <6>1. at' = 0 /\ at = T - 1
            BY <1>0, <2>1, <5>2 DEF Tx!Succ
          <6> QED BY <1>0, <5>1, <6>1
        <5>3. CASE ~(at + 1 >= T)
          <6>1. at' = at + 1 /\ at \in Nat /\ k \in Nat
            BY <1>0, <2>1, <5>3 DEF Tx!Succ
          <6>2. CASE k = at
            BY <5>1, <6>1, <6>2
          <6>3. CASE k > at
            BY <5>1, <6>1, <6>3
          <6>4. CASE k < at
            BY <5>1, <6>1, <6>4
          <6> QED BY <6>1, <6>2, <6>3, <6>4
        <5> QED BY <5>2, <5>3
      <4>3. Tx!Ahead(next)' = Tx!Ahead(next) - 1 /\ Tx!Ahead(next) \in 0..(T - 1)
        BY <1>0, <2>1, <4>1, TxAhead DEF Tx!Ahead, Tx!Succ
      <4>4. ASSUME NEW k \in Tx!Slots, Tx!Ahead(k)' < Tx!Ahead(next)'
            PROVE  txRing'[k] = Len(wire)' + 1 + Tx!Ahead(k)'
        <5>1. k # at /\ Tx!Ahead(k) < Tx!Ahead(next) /\ Tx!Ahead(k) \in 0..(T - 1)
          <6>1. Tx!Ahead(k) \in 0..(T - 1)
            BY <1>0, TxAhead
          <6>2. Tx!Ahead(k)' = IF k = at THEN T - 1 ELSE Tx!Ahead(k) - 1
            BY <4>2
          <6>3. Tx!Ahead(k)' < Tx!Ahead(next) - 1
            BY <4>3, <4>4
          <6>4. k # at
            BY <4>3, <6>2, <6>3
          <6> QED BY <4>3, <6>1, <6>2, <6>3, <6>4
        <5> QED
          BY <1>0, <2>1, <2>3, <3>1, <4>2, <5>1 DEF Tx!InRingOrder
      <4> QED
        BY <1>0, <2>1, <2>3, <3>1, <4>1, <4>3, <4>4 DEF Tx!InRingOrder, Tx!Slots
    <3>2. CASE card # "e1000"
      BY <1>0, <2>1, <2>2, <2>3, <3>2 DEF Tx!InRingOrder, Tx!Succ, Tx!Slots, Tx!Ready
    <3> QED BY <3>1, <3>2
  <2>7. Tx!BreaksWhen'
    BY <2>1 DEF Tx!BreaksWhen
  <2>8. Tx!WireInOrder'
    <3>1. (~broken => \A n \in (Len(wire) + 1)..txSent :
                        \E k \in Tx!Slots : txRing[k] = n)'
      BY <2>5, <2>6, TxNoneLost, PTL
    <3> QED
      BY <1>0, <2>1, <2>3, <3>1 DEF Tx!WireInOrder, Tx!Slots
  <2> QED
    BY <2>5, <2>6, <2>7, <2>8 DEF TxInv
<1>4. CASE UNCHANGED Tx!vars
  BY <1>4 DEF Tx!vars, TxInv, Tx!TypeOK, Tx!InRingOrder, Tx!WireInOrder, Tx!BreaksWhen,
              Tx!Ahead, Tx!Slots
<1> QED
  BY <1>1, <1>2, <1>3, <1>4 DEF Tx!Next

-----------------------------------------------------------------------------
(* The cards together.                                                     *)

CardsParts == E1000Inv /\ RtlInv /\ TxInv

(* A step of the cards is a step of each ring, or leaves it alone.         *)
LEMMA CardsStep ==
  [CardsNext]_cardVars =>
    [Intel!Next]_(Intel!vars) /\ [Rtl!Next]_(Rtl!vars) /\ [Tx!Next]_(Tx!vars)
<1> SUFFICES ASSUME [CardsNext]_cardVars
             PROVE  [Intel!Next]_(Intel!vars) /\ [Rtl!Next]_(Rtl!vars) /\ [Tx!Next]_(Tx!vars)
  OBVIOUS
<1>1. CASE Intel!Next /\ UNCHANGED <<card, direction, rtlVars, txVars>>
  <2>1. UNCHANGED paced
    BY <1>1 DEF Intel!Next, Intel!Receive, Intel!Overrun, Intel!Arrive, Intel!Handle,
                Intel!Clear
  <2> QED
    BY <1>1, <2>1 DEF rtlVars, txVars, Rtl!vars, Rtl!handlerVars, Tx!vars
<1>2. CASE Rtl!Next /\ UNCHANGED <<card, direction, intelVars, txVars>>
  <2>1. UNCHANGED paced
    BY <1>2 DEF Rtl!Next, Rtl!Receive, Rtl!Overrun, Rtl!Arrive, Rtl!Enter, Rtl!Scan,
                Rtl!Return
  <2> QED
    BY <1>2, <2>1 DEF intelVars, Intel!vars, txVars, Tx!vars
<1>3. CASE Tx!Next /\ UNCHANGED <<direction, paced, intelVars, rtlVars>>
  BY <1>3 DEF intelVars, Intel!vars, rtlVars, Rtl!vars, Rtl!handlerVars
<1>4. CASE UNCHANGED cardVars
  BY <1>4 DEF cardVars, intelVars, Intel!vars, rtlVars, txVars, Rtl!vars, Rtl!handlerVars,
              Tx!vars
<1> QED
  BY <1>1, <1>2, <1>3, <1>4 DEF CardsNext

LEMMA CardsPartsInv == CardsSpec => []CardsParts
<1>1. CardsInit => CardsParts
  BY E1000InitInv, RtlInitInv, TxInitInv DEF CardsInit, CardsParts
<1>2. CardsParts /\ [CardsNext]_cardVars => CardsParts'
  BY CardsStep, E1000NextInv, RtlNextInv, TxNextInv DEF CardsParts
<1> QED
  BY <1>1, <1>2, PTL DEF CardsSpec

(* For rings of every size: the e1000's handler only ever takes a frame    *)
(* that is there, the oldest; a scan of the rtl8169's ring leaves nothing  *)
(* behind that it could have seen; and the packets reach the wire complete *)
(* and in order, until the send ring breaks the way it is said to.         *)
THEOREM NetworkCardsInv == CardsSpec => []CardsInv
<1>1. CardsParts => CardsInv
  BY DEF CardsParts, CardsInv, E1000Inv, RtlInv, TxInv
<1> QED
  BY CardsPartsInv, <1>1, PTL

(* Both receive paths implement FrameBuffer: every frame that a card       *)
(* accepts is handed on once or still held, in order for the e1000, and in *)
(* order for the rtl8169 when the network waits for each interrupt.        *)
THEOREM NetworkCardsFramesOnce == CardsSpec => FramesOnce
<1>1. CardsInit => Intel!Buffer!Init /\ Rtl!Buffer!Init
  BY E1000RefinesInit, RtlRefinesInit DEF CardsInit
<1>2. CardsParts /\ [CardsNext]_cardVars
        => [Intel!Buffer!Next]_(Intel!Buffer!vars) /\ [Rtl!Buffer!Next]_(Rtl!Buffer!vars)
  BY CardsStep, E1000Refines, RtlRefines DEF CardsParts
<1> QED
  BY CardsPartsInv, <1>1, <1>2, PTL
  DEF CardsSpec, FramesOnce, Intel!FrameBufferSpec, Intel!Buffer!Spec, Rtl!FrameBufferSpec,
      Rtl!Buffer!Spec

(* The e1000's backlog of frames that no interrupt is on its way for never *)
(* shrinks.                                                                *)
THEOREM NetworkCardsLag == CardsSpec => LagOnlyGrows
<1>1. CardsParts /\ [CardsNext]_cardVars => Intel!Backlog' >= Intel!Backlog
  BY CardsStep, E1000Lags DEF CardsParts
<1>2. CardsParts /\ [CardsNext]_cardVars => [Intel!Backlog' >= Intel!Backlog]_(Intel!vars)
  BY <1>1
<1> QED
  BY CardsPartsInv, <1>2, PTL DEF CardsSpec, LagOnlyGrows, Intel!LagOnlyGrows

-----------------------------------------------------------------------------
(* NetworkStack.                                                           *)

(* What the constants are.                                                 *)
LEMMA StackNames ==
  ASSUME NetworkAssumption
  PROVE  /\ "dhcp" \in Owners /\ "dhcp" \notin Clients
         /\ \A c : c \in Clients => c \in Owners /\ c # "dhcp" /\ Port(c) = ClientPort
         /\ Port("dhcp") = DhcpPort /\ DhcpPort # ClientPort
         /\ \A o \in Owners : Port(o) \in Ports /\ (Port(o) = DhcpPort <=> o = "dhcp")
         /\ \A o \in Owners : o # "dhcp" => o \in Clients
         /\ DhcpPort \in Ports /\ ClientPort \in Ports
         /\ \A p \in Ports : p = DhcpPort \/ p = ClientPort
BY DEF NetworkAssumption, Owners, Port, Ports, DhcpPort, ClientPort

(* Sequences of numbered frames: appending one keeps the others.           *)
LEMMA Appended ==
  ASSUME NEW S, NEW s \in Seq(S), NEW e \in S
  PROVE  /\ Append(s, e) \in Seq(S) /\ Append(s, e) # <<>>
         /\ Len(s) \in Nat /\ Len(Append(s, e)) = Len(s) + 1
         /\ DOMAIN s = 1 .. Len(s) /\ DOMAIN Append(s, e) = 1 .. Len(s) + 1
         /\ \A m \in 1 .. Len(s) : Append(s, e)[m] = s[m]
         /\ Append(s, e)[Len(s) + 1] = e
         /\ Head(Append(s, e)) = IF s = <<>> THEN e ELSE Head(s)
<1>1. /\ Append(s, e) \in Seq(S) /\ Append(s, e) # <<>>
      /\ Len(Append(s, e)) = Len(s) + 1
      /\ \A m \in 1 .. Len(s) : Append(s, e)[m] = s[m]
      /\ Append(s, e)[Len(s) + 1] = e
  BY AppendProperties
<1>2. Len(s) \in Nat /\ DOMAIN s = 1 .. Len(s)
  BY LenProperties
<1>3. DOMAIN Append(s, e) = 1 .. Len(s) + 1
  BY <1>1, LenProperties
<1>4. Head(Append(s, e)) = IF s = <<>> THEN e ELSE Head(s)
  BY HeadTailAppend
<1> QED
  BY <1>1, <1>2, <1>3, <1>4

(* What an owner has sent and has left to send.                            *)
LEMMA GivenTyped ==
  ASSUME TypeOK, NEW o \in Owners
  PROVE  /\ Sent(o) \in Seq(Packets) /\ send[o] \in Seq(Packets)
         /\ Given(o) \in Seq(Packets)
         /\ Len(Sent(o)) = Len(sent[o]) /\ Len(sent[o]) \in Nat
         /\ \A m \in 1 .. Len(sent[o]) : Sent(o)[m] = sent[o][m].packet
<1>1. sent[o] \in Seq([to : Machines, packet : Packets]) /\ send[o] \in Seq(Packets)
  BY DEF TypeOK
<1>2. DOMAIN sent[o] = 1 .. Len(sent[o]) /\ Len(sent[o]) \in Nat
  BY <1>1, LenProperties
<1>3. \A m \in 1 .. Len(sent[o]) : sent[o][m].packet \in Packets
  <2> DEFINE s == sent[o]
             V == [to : Machines, packet : Packets]
  <2>1. s \in Seq(V)
    BY <1>1
  <2>2. \A m \in 1 .. Len(s) : s[m] \in V
    <3> HIDE DEF s, V
    <3> QED
      BY <2>1, ElementOfSeq
  <2> QED
    BY <2>2
<1>4. Sent(o) \in Seq(Packets) /\ Len(Sent(o)) = Len(sent[o])
      /\ \A m \in 1 .. Len(sent[o]) : Sent(o)[m] = sent[o][m].packet
  <2> DEFINE n == Len(sent[o])
             s == sent[o]
  <2>1. Sent(o) = [m \in 1 .. n |-> s[m].packet]
    BY <1>2 DEF Sent
  <2>2. n \in Nat /\ \A m \in 1 .. n : s[m].packet \in Packets
    BY <1>2, <1>3
  <2> HIDE DEF n, s
  <2> QED
    BY <2>1, <2>2 DEF n, s
<1>5. Given(o) \in Seq(Packets)
  BY <1>1, <1>4, ConcatProperties DEF Given
<1> QED
  BY <1>1, <1>2, <1>4, <1>5

(* A packet that is put into a list is given after the others.             *)
LEMMA GivenMore ==
  ASSUME TypeOK, NEW o \in Owners, NEW packet \in Packets
  PROVE  Sent(o) \o Append(send[o], packet) = Append(Given(o), packet)
<1> DEFINE s == Sent(o)
           t == send[o]
           S == Packets
<1>1. s \in Seq(S) /\ t \in Seq(S) /\ packet \in S
  BY GivenTyped
<1> HIDE DEF s, t, S
<1>2. <<packet>> \in Seq(S)
  BY <1>1
<1>3. Append(t, packet) = t \o <<packet>>
  BY <1>1, AppendIsConcat
<1>4. (s \o t) \o <<packet>> = s \o (t \o <<packet>>)
  BY <1>1, <1>2, ConcatAssociative
<1>5. s \o t \in Seq(S)
  BY <1>1, ConcatProperties
<1>6. Append(s \o t, packet) = (s \o t) \o <<packet>>
  BY <1>1, <1>5, AppendIsConcat
<1>7. s \o Append(t, packet) = Append(s \o t, packet)
  BY <1>3, <1>4, <1>6
<1> QED
  BY <1>7 DEF s, t, Given

(* The inductive invariant: what the runs check is inductive together,     *)
(* since the numbers of the frames order what is taken and what waits.     *)
StackInv == Inv /\ ReceivedInOrder /\ FirstAnswerDecides

(* The packets and the machines that the stack deals with.                 *)
LEMMA StackValues ==
  /\ Packet("all", "discover") \in Packets /\ NameQuestion \in Packets
  /\ TimeQuestion \in Packets
  /\ \A f \in Datagrams : /\ f \in Frames /\ f.type = "udp" /\ Packet(f.src, f.data) \in Packets
                          /\ f.data \in Addresses
  /\ \A f \in Frames : f.from \in Machines /\ (f.type = "udp" => f \in Datagrams)
  /\ NoAddress \in Addresses /\ "all" \in Machines
BY DEF Packets, Machines, Addresses, Datagrams

(* No frame has arrived, and the DHCP client has its first packet to send. *)
LEMMA StackInit ==
  ASSUME NetworkAssumption, Init
  PROVE  StackInv
<1>1. /\ batch = <<>> /\ i = 0 /\ phase = "lease" /\ open = {"dhcp"}
      /\ \A o \in Owners : received[o] = <<>> /\ sent[o] = <<>>
      /\ send["dhcp"] = << Packet("all", "discover") >>
      /\ \A c \in Clients : send[c] = <<>> /\ client[c] = "off"
      /\ dhcp = TRUE /\ ip = NoAddress /\ router = "all" /\ arrived = 0 /\ replies = {}
      /\ \A p \in Ports : taken[p] = <<>>
  BY StackNames DEF Init
<1>2. /\ DOMAIN received = Owners /\ DOMAIN send = Owners /\ DOMAIN sent = Owners
      /\ DOMAIN taken = Ports /\ DOMAIN client = Clients
  BY DEF Init
<1>3. TypeOK
  <2>1. /\ received \in [Owners -> Seq(Entries(Datagrams))]
        /\ sent \in [Owners -> Seq([to : Machines, packet : Packets])]
        /\ taken \in [Ports -> Seq(Entries(Datagrams))]
    BY DEF Init
  <2>2. send \in [Owners -> Seq(Packets)]
    BY StackValues DEF Init
  <2>3. batch \in Seq(Entries(Frames)) /\ Len(batch) = 0
    BY <1>1
  <2>4. open \subseteq Owners /\ \A o \in Owners \ open : received[o] = <<>> /\ send[o] = <<>>
    BY <1>1, StackNames
  <2>5. client \in [Clients -> {"off", "name", "time", "quit"}]
        /\ \A c \in Clients : client[c] \in {"name", "time"} <=> c \in open
    BY <1>1, <1>2, StackNames DEF Init
  <2>6. Cap \in Nat /\ MaxFrames \in Nat
    BY DEF NetworkAssumption
  <2>7. /\ Len(batch) <= Cap /\ i \in 0..Cap /\ (phase = "frames" => i <= Len(batch))
        /\ arrived \in 0..MaxFrames /\ phase \in Phases
    BY <1>1, <2>3, <2>6 DEF Phases
  <2>8. dhcp \in BOOLEAN /\ (dhcp <=> "dhcp" \in open) /\ ip \in Addresses /\ router \in Machines
    BY <1>1, StackValues
  <2> QED
    BY <2>1, <2>2, <2>3, <2>4, <2>5, <2>7, <2>8 DEF TypeOK
<1>4. Numbered
  BY <1>1 DEF Numbered
<1>5. ReceivedInOrder
  BY <1>1, StackNames DEF ReceivedInOrder
<1>6. /\ Given("dhcp") = << Packet("all", "discover") >>
      /\ \A c \in Clients : Given(c) = <<>>
  <2>1. \A o \in Owners : Sent(o) = <<>>
    BY <1>1 DEF Sent
  <2>2. <<>> \o << Packet("all", "discover") >> = << Packet("all", "discover") >>
    BY StackValues, ConcatEmptySeq
  <2>3. Given("dhcp") = <<>> \o << Packet("all", "discover") >>
    BY <1>1, <2>1, StackNames DEF Given
  <2>4. \A c \in Clients : Given(c) = <<>> \o <<>>
    BY <1>1, <2>1, StackNames DEF Given
  <2>5. <<>> \o <<>> = <<>>
    OBVIOUS
  <2> QED
    BY <2>2, <2>3, <2>4, <2>5
<1>7. SentOnce
  BY <1>1, <1>6 DEF SentOnce
<1>8. RouterIsFirstSender
  BY <1>1 DEF RouterIsFirstSender
<1>9. FirstAnswerDecides
  <2> DEFINE first == Packet("all", "discover")
             given == Given("dhcp")
  <2>1. given = <<first>> /\ received["dhcp"] = taken[DhcpPort]
    BY <1>1, <1>6, StackNames
  <2> HIDE DEF first, given
  <2>2. given # <<>> /\ Head(given) = first /\ \A m \in 2 .. Len(given) : FALSE
    BY <2>1
  <2> QED
    BY <1>1, <2>1, <2>2 DEF FirstAnswerDecides, first, given
<1>10. ListsSent /\ NoStrayReplies /\ OnePacketOneAnswer
  BY <1>1 DEF ListsSent, NoStrayReplies, OnePacketOneAnswer
<1> QED
  BY <1>3, <1>4, <1>5, <1>7, <1>8, <1>9, <1>10 DEF StackInv, Inv

(* What TypeOK says of the connections and the programs.                   *)
ConnectionsOK ==
  /\ open \subseteq Owners
  /\ received \in [Owners -> Seq(Entries(Datagrams))]
  /\ send \in [Owners -> Seq(Packets)]
  /\ \A o \in Owners \ open : received[o] = <<>> /\ send[o] = <<>>
  /\ dhcp \in BOOLEAN
  /\ (dhcp <=> "dhcp" \in open) /\ ip \in Addresses /\ router \in Machines
  /\ client \in [Clients -> {"off", "name", "time", "quit"}]
  /\ \A c \in Clients : client[c] \in {"name", "time"} <=> c \in open
  /\ taken \in [Ports -> Seq(Entries(Datagrams))]
  /\ sent \in [Owners -> Seq([to : Machines, packet : Packets])]

BatchOK ==
  /\ batch \in Seq(Entries(Frames)) /\ Len(batch) <= Cap
  /\ i \in 0..Cap /\ (phase = "frames" => i <= Len(batch)) /\ phase \in Phases
  /\ arrived \in 0..MaxFrames

(* The two halves of TypeOK.                                               *)
LEMMA TypeParts ==
  /\ TypeOK <=> ConnectionsOK /\ BatchOK
  /\ TypeOK' <=> ConnectionsOK' /\ BatchOK'
BY DEF TypeOK, ConnectionsOK, BatchOK

(* Everything is as it was but for the batch and the phase.                *)
LEMMA StackStays ==
  ASSUME StackInv, UNCHANGED <<stack, client, taken, sent>>
  PROVE  /\ ConnectionsOK' /\ SentOnce' /\ RouterIsFirstSender'
         /\ OnePacketOneAnswer'
         /\ ReceivedInOrder' /\ FirstAnswerDecides'
<1>1. /\ open' = open /\ received' = received /\ send' = send /\ dhcp' = dhcp /\ ip' = ip
      /\ router' = router /\ client' = client /\ taken' = taken /\ sent' = sent
  BY DEF stack
<1>2. ConnectionsOK'
  BY <1>1, TypeParts DEF StackInv, Inv, ConnectionsOK
<1>3. SentOnce'
  BY <1>1 DEF StackInv, Inv, SentOnce, Given, Sent
<1>4. RouterIsFirstSender'
  BY <1>1 DEF StackInv, Inv, RouterIsFirstSender
<1>5. OnePacketOneAnswer'
  BY <1>1 DEF StackInv, Inv, OnePacketOneAnswer
<1>6. ReceivedInOrder'
  BY <1>1 DEF StackInv, ReceivedInOrder
<1>7. FirstAnswerDecides'
  BY <1>1 DEF StackInv, FirstAnswerDecides, Given, Sent
<1> QED
  BY <1>2, <1>3, <1>4, <1>5, <1>6, <1>7

(* The batch is a sequence of frames with their numbers.                   *)
LEMMA BatchEntries ==
  ASSUME TypeOK
  PROVE  /\ Len(batch) \in Nat /\ DOMAIN batch = 1 .. Len(batch) /\ i \in Nat
         /\ \A k \in 1 .. Len(batch) : /\ batch[k] \in Entries(Frames) /\ batch[k].n \in Nat
                                       /\ batch[k].frame \in Frames
<1>1. batch \in Seq(Entries(Frames)) /\ i \in 0..Cap
  BY DEF TypeOK
<1>2. Len(batch) \in Nat /\ DOMAIN batch = 1 .. Len(batch)
  BY <1>1, LenProperties
<1>3. \A k \in 1 .. Len(batch) : batch[k] \in Entries(Frames)
  <2> DEFINE V == Entries(Frames)
  <2> HIDE DEF V
  <2> QED
    BY <1>1, ElementOfSeq DEF V
<1> QED
  BY <1>1, <1>2, <1>3 DEF Entries

(* The numbers that are taken.                                             *)
LEMMA TakenNumbers ==
  ASSUME TypeOK, NEW p \in Ports
  PROVE  /\ taken[p] \in Seq(Entries(Datagrams)) /\ Len(taken[p]) \in Nat
         /\ DOMAIN taken[p] = 1 .. Len(taken[p])
         /\ \A m \in 1 .. Len(taken[p]) : taken[p][m] \in Entries(Datagrams) /\ taken[p][m].n \in Nat
<1>1. taken[p] \in Seq(Entries(Datagrams))
  BY DEF TypeOK
<1>2. Len(taken[p]) \in Nat /\ DOMAIN taken[p] = 1 .. Len(taken[p])
  BY <1>1, LenProperties
<1>3. \A m \in 1 .. Len(taken[p]) : taken[p][m] \in Entries(Datagrams)
  <2> DEFINE s == taken[p]
             V == Entries(Datagrams)
  <2> HIDE DEF s, V
  <2> QED
    BY <1>1, ElementOfSeq DEF s, V
<1> QED
  BY <1>1, <1>2, <1>3 DEF Entries

(* An interrupt adds the latest frame of all to the batch.                 *)
LEMMA ArrivePreserves ==
  ASSUME NetworkAssumption, StackInv, Arrive
  PROVE  StackInv'
<1>1. TypeOK /\ Numbered /\ UNCHANGED <<stack, client, taken, sent, i, phase, replies>>
  BY DEF Arrive, StackInv, Inv
<1>2. PICK f \in Frames : batch' = Append(batch, [frame |-> f, n |-> arrived + 1])
  BY DEF Arrive
<1> DEFINE e == [frame |-> f, n |-> arrived + 1]
           V == Entries(Frames)
<1>3. arrived \in Nat /\ arrived + 1 <= MaxFrames /\ MaxFrames \in Nat /\ Cap \in Nat
      /\ Len(batch) < Cap /\ arrived' = arrived + 1 /\ batch \in Seq(V)
  BY <1>1 DEF Arrive, NetworkAssumption, TypeOK
<1>4. e \in V /\ e.n = arrived + 1
  BY <1>2, <1>3 DEF Entries
<1> HIDE DEF e, V
<1>5. /\ batch' \in Seq(V) /\ Len(batch) \in Nat /\ Len(batch') = Len(batch) + 1
      /\ DOMAIN batch = 1 .. Len(batch) /\ DOMAIN batch' = 1 .. Len(batch) + 1
      /\ \A k \in 1 .. Len(batch) : batch'[k] = batch[k]
      /\ batch'[Len(batch) + 1] = e
  BY <1>2, <1>3, <1>4, Appended DEF e
<1>6. BatchOK'
  <2>1. i' \in 0..Cap /\ (phase' = "frames" => i' <= Len(batch)) /\ phase' \in Phases
    BY <1>1 DEF TypeOK
  <2>2. Len(batch') <= Cap /\ (phase' = "frames" => i' <= Len(batch')) /\ arrived' \in 0..MaxFrames
    BY <1>3, <1>5, <2>1
  <2> QED
    BY <1>5, <2>1, <2>2 DEF BatchOK, V
<1>7. TypeOK'
  BY <1>1, <1>6, StackStays, TypeParts
<1>8. Numbered'
  <2>1. \A k \in 1 .. Len(batch) : batch[k].n \in Nat /\ batch[k].n <= arrived
    BY <1>1, <1>5, BatchEntries DEF Numbered
  <2>2. /\ \A k \in DOMAIN batch' : batch'[k].n <= arrived'
        /\ \A k, l \in DOMAIN batch' : k < l => batch'[k].n < batch'[l].n
    <3>1. \A k, l \in 1 .. Len(batch) : k < l => batch[k].n < batch[l].n
      BY <1>1, <1>5 DEF Numbered
    <3>2. ASSUME NEW k \in 1 .. Len(batch) + 1
          PROVE  batch'[k].n \in Nat /\ batch'[k].n <= arrived + 1
                 /\ (k <= Len(batch) => batch'[k].n <= arrived)
      <4>1. CASE k \in 1 .. Len(batch)
        BY <1>3, <1>5, <2>1, <4>1
      <4>2. CASE k = Len(batch) + 1
        BY <1>3, <1>4, <1>5, <4>2
      <4> QED
        BY <1>5, <4>1, <4>2
    <3>3. ASSUME NEW k \in 1 .. Len(batch) + 1, NEW l \in 1 .. Len(batch) + 1, k < l
          PROVE  batch'[k].n < batch'[l].n
      <4>0. k \in 1 .. Len(batch) /\ batch'[k] = batch[k]
        BY <1>5, <3>3
      <4>1. CASE l \in 1 .. Len(batch)
        BY <1>5, <3>1, <3>3, <4>0, <4>1
      <4>2. CASE l = Len(batch) + 1
        <5>1. batch'[k].n \in Nat /\ batch'[k].n <= arrived /\ batch'[l].n = arrived + 1
          BY <1>4, <1>5, <3>2, <4>0, <4>2
        <5> QED
          BY <1>3, <5>1
      <4> QED
        BY <1>5, <4>1, <4>2
    <3> QED
      BY <1>3, <1>5, <3>2, <3>3
  <2>3. ASSUME NEW p \in Ports, NEW m \in DOMAIN taken[p]
        PROVE  /\ taken[p][m].n <= arrived'
               /\ \A k \in DOMAIN batch' : Waiting(k)' => taken[p][m].n < batch'[k].n
    <3>1. taken[p][m].n \in Nat /\ taken[p][m].n <= arrived
      BY <1>1, TakenNumbers DEF Numbered
    <3>2. \A k \in 1 .. Len(batch) : Waiting(k) => taken[p][m].n < batch[k].n
      BY <1>1, <1>5 DEF Numbered
    <3>3. \A k : Waiting(k)' <=> Waiting(k)
      BY <1>1 DEF Waiting
    <3> DEFINE number == taken[p][m].n
    <3> HIDE DEF number
    <3> QED
      BY <1>3, <1>4, <1>5, <3>1, <3>2, <3>3 DEF number
  <2> QED
    BY <1>1, <2>2, <2>3 DEF Numbered
<1>9. ListsSent' /\ NoStrayReplies'
  BY <1>1 DEF StackInv, Inv, ListsSent, NoStrayReplies, stack
<1> QED
  BY <1>1, <1>7, <1>8, <1>9, StackStays DEF StackInv, Inv

(* Fewer frames of the batch wait, and nothing is taken.                   *)
LEMMA FewerWait ==
  ASSUME Numbered, UNCHANGED <<batch, arrived, taken>>, \A k \in DOMAIN batch : Waiting(k)' => Waiting(k)
  PROVE  Numbered'
BY DEF Numbered

(* A frame that no connection gets: for another machine, or a question.    *)
LEMMA PassOverPreserves ==
  ASSUME NetworkAssumption, StackInv, Ignore \/ HandleArp
  PROVE  StackInv'
<1>1. /\ TypeOK /\ Numbered /\ ListsSent
      /\ UNCHANGED <<stack, client, taken, sent, batch, phase, arrived>>
      /\ phase = "frames" /\ i < Len(batch) /\ i' = i + 1
  BY DEF Ignore, HandleArp, InBatch, history, StackInv, Inv
<1>2. Len(batch) \in Nat /\ i \in Nat /\ Len(batch) <= Cap /\ Cap \in Nat
  BY <1>1, BatchEntries DEF TypeOK, NetworkAssumption
<1>3. BatchOK'
  <2>1. i' \in 0..Cap /\ i' <= Len(batch)
    BY <1>1, <1>2
  <2> QED
    BY <1>1, <1>2, <2>1 DEF BatchOK, TypeOK
<1>4. Numbered'
  BY <1>1, <1>2, FewerWait, BatchEntries DEF Waiting
<1>5. ListsSent'
  BY <1>1 DEF ListsSent
<1>6. NoStrayReplies'
  <2>1. CASE Ignore
    BY <2>1 DEF Ignore, history, StackInv, Inv, NoStrayReplies
  <2>2. CASE HandleArp
    <3>0. PICK byte \in Compared :
            replies' = IF AsksUs(Current, byte) THEN replies \cup {Reply(Current)} ELSE replies
      BY <2>2 DEF HandleArp
    <3>1. CASE ~AsksUs(Current, byte)
      BY <2>2, <3>0, <3>1 DEF HandleArp, StackInv, Inv, NoStrayReplies
    <3>2. CASE AsksUs(Current, byte)
      <4>1. i \in DOMAIN Mac => byte = Mac[i]
        BY <3>0 DEF Compared
      <4>2. Current.hw = byte \/ Current.target = ip
        BY <3>2 DEF AsksUs
      <4>3. replies' = replies \cup {Reply(Current)}
        BY <3>0, <3>2
      <4>4. /\ Reply(Current).ip = ip /\ Reply(Current).asked = Current.target
            /\ Reply(Current).hw = Current.hw /\ Reply(Current).place = i
        BY DEF Reply
      <4> QED
        BY <4>1, <4>2, <4>3, <4>4 DEF StackInv, Inv, NoStrayReplies
    <3> QED
      BY <3>1, <3>2
  <2> QED
    BY <2>1, <2>2
<1> QED
  BY <1>1, <1>3, <1>4, <1>5, <1>6, StackStays, TypeParts DEF StackInv, Inv

(* The end of the batch; frames that arrive before the reset are lost.     *)
LEMMA EndOfBatchPreserves ==
  ASSUME NetworkAssumption, StackInv, FramesDone \/ Reset
  PROVE  StackInv'
<1>1. /\ TypeOK /\ Numbered /\ NoStrayReplies
      /\ UNCHANGED <<stack, client, taken, sent, i, arrived, replies>>
      /\ \/ batch' = batch /\ phase' = "reset"
         \/ batch' = <<>> /\ phase' = "send"
  BY DEF FramesDone, Reset, history, StackInv, Inv
<1>2. Len(batch) \in Nat /\ Len(batch) <= Cap /\ Cap \in Nat
  BY <1>1, BatchEntries DEF TypeOK, NetworkAssumption
<1>3. BatchOK'
  <2>1. batch' \in Seq(Entries(Frames)) /\ Len(batch') <= Cap
    <3>1. CASE batch' = batch
      BY <1>1, <3>1 DEF TypeOK
    <3>2. CASE batch' = <<>>
      BY <1>2, <3>2
    <3> QED
      BY <1>1, <3>1, <3>2
  <2> QED
    BY <1>1, <2>1 DEF BatchOK, TypeOK, Phases
<1>4. Numbered'
  <2>1. CASE batch' = batch /\ phase' = "reset"
    BY <1>1, <2>1, FewerWait DEF Waiting
  <2>2. CASE batch' = <<>>
    <3>1. DOMAIN batch' = {}
      BY <2>2
    <3> QED
      BY <1>1, <3>1 DEF Numbered
  <2> QED
    BY <1>1, <2>1, <2>2
<1>5. ListsSent' /\ NoStrayReplies'
  BY <1>1 DEF ListsSent, NoStrayReplies
<1> QED
  BY <1>1, <1>3, <1>4, <1>5, StackStays, TypeParts DEF StackInv, Inv

(* The DHCP client requests the address of its first answer.               *)
LEMMA LeasePreserves ==
  ASSUME NetworkAssumption, StackInv, Lease
  PROVE  StackInv'
<1>1. /\ TypeOK /\ Numbered /\ ListsSent /\ FirstAnswerDecides
      /\ phase = "lease"
      /\ UNCHANGED <<batch, open, received, dhcp, router, client, arrived, taken, sent, replies>>
      /\ phase' = "frames" /\ i' = 0
  BY DEF Lease, history, StackInv, Inv
<1>2. BatchOK'
  BY <1>1, BatchEntries DEF TypeOK, BatchOK, Phases, NetworkAssumption
<1>3. Numbered'
  BY <1>1, FewerWait DEF Waiting
<1>4. /\ ReceivedInOrder' /\ RouterIsFirstSender' /\ NoStrayReplies'
      /\ OnePacketOneAnswer'
      /\ ListsSent'
  BY <1>1 DEF StackInv, Inv, ReceivedInOrder, RouterIsFirstSender,
              NoStrayReplies,
              OnePacketOneAnswer, ListsSent
<1>5. CASE UNCHANGED <<ip, send>>
  <2>1. UNCHANGED <<stack, client, taken, sent>>
    BY <1>1, <1>5 DEF stack
  <2> QED
    BY <1>1, <1>2, <1>3, <1>4, <2>1, StackStays, TypeParts DEF StackInv, Inv
<1>6. CASE ~UNCHANGED <<ip, send>>
  <2> DEFINE answer == Head(received["dhcp"]).frame
             P == Packet(answer.src, answer.data)
             G == Given("dhcp")
  <2>1. /\ ip = NoAddress /\ received["dhcp"] # <<>> /\ ip' = answer.data
        /\ send' = [send EXCEPT !["dhcp"] = Append(@, P)]
    BY <1>6 DEF Lease
  <2>2. /\ "dhcp" \in Owners /\ "dhcp" \in open /\ dhcp
        /\ received["dhcp"] \in Seq(Entries(Datagrams))
    BY <1>1, <2>1, StackNames DEF TypeOK
  <2>3. answer \in Datagrams
    <3> DEFINE s == received["dhcp"]
               V == Entries(Datagrams)
    <3>1. Head(s) \in V
      <4>1. s \in Seq(V) /\ s # <<>>
        BY <2>1, <2>2
      <4> HIDE DEF s, V
      <4> QED
        BY <4>1, HeadTailProperties
    <3> QED
      BY <3>1 DEF Entries
  <2>4. P \in Packets /\ answer.data \in Addresses
    BY <2>3, StackValues
  <2>5. answer = Head(taken[DhcpPort]).frame /\ taken[DhcpPort] # <<>>
    BY <1>1, <2>1, <2>2 DEF FirstAnswerDecides
  <2> HIDE DEF answer, P
  <2>6. /\ send["dhcp"] \in Seq(Packets) /\ send'["dhcp"] = Append(send["dhcp"], P)
        /\ send' \in [Owners -> Seq(Packets)]
        /\ \A o \in Owners : o # "dhcp" => send'[o] = send[o]
    <3>1. send \in [Owners -> Seq(Packets)]
      BY <1>1 DEF TypeOK
    <3>2. send["dhcp"] \in Seq(Packets)
      BY <2>2, <3>1
    <3>3. Append(send["dhcp"], P) \in Seq(Packets)
      BY <2>4, <3>2, AppendProperties
    <3> QED
      BY <2>1, <2>2, <3>1, <3>2, <3>3
  <2>7. ConnectionsOK'
    BY <1>1, <2>1, <2>2, <2>4, <2>6 DEF TypeOK, ConnectionsOK
  <2>8. Given("dhcp")' = Append(G, P)
    <3>1. Sent("dhcp") \o Append(send["dhcp"], P) = Append(G, P)
      BY <1>1, <2>2, <2>4, GivenMore
    <3> QED
      BY <1>1, <2>6, <3>1 DEF Given, Sent
  <2>9. SentOnce'
    <3>1. \A c \in Clients : Given(c)' = Given(c)
      BY <1>1, <2>6, StackNames DEF Given, Sent
    <3> QED
      BY <1>1, <3>1 DEF StackInv, Inv, SentOnce
  <2>10. FirstAnswerDecides'
    <3>1. G \in Seq(Packets)
      BY <1>1, <2>2, GivenTyped
    <3>2. /\ G # <<>> /\ Head(G) = Packet("all", "discover")
          /\ \A m \in 2 .. Len(G) : G[m] = P /\ ip = answer.data
      BY <1>1, <2>5 DEF FirstAnswerDecides, P, answer
    <3> DEFINE H == Append(G, P)
    <3>3. /\ Len(G) \in Nat /\ H # <<>> /\ Len(H) = Len(G) + 1
          /\ \A m \in 1 .. Len(G) : H[m] = G[m]
          /\ H[Len(G) + 1] = P /\ Head(H) = Head(G)
      <4> HIDE DEF G
      <4> QED
        BY <2>4, <3>1, <3>2, Appended
    <3> HIDE DEF G, H
    <3>4. Head(H) = Packet("all", "discover") /\ \A m \in 2 .. Len(H) : H[m] = P
      BY <3>2, <3>3
    <3>5. ip' # NoAddress => Len(H) = 2
      <4>1. Len(G) # 0
        BY <3>1, <3>2, EmptySeq
      <4>2. Len(G) >= 2 => ip = answer.data
        BY <3>2, <3>3
      <4> QED
        BY <2>1, <3>3, <4>1, <4>2
    <3>6. Given("dhcp")' = H /\ taken'[DhcpPort] = taken[DhcpPort] /\ dhcp' = dhcp
          /\ received'["dhcp"] = received["dhcp"]
      BY <1>1, <2>8 DEF H
    <3>7. \A m \in 2 .. Len(H) :
            taken'[DhcpPort] # <<>>
              /\ H[m] = Packet(Head(taken'[DhcpPort]).frame.src, Head(taken'[DhcpPort]).frame.data)
              /\ ip' = Head(taken'[DhcpPort]).frame.data
      BY <2>1, <2>5, <3>4, <3>6 DEF P, answer
    <3>8. dhcp' /\ received'["dhcp"] = taken'[DhcpPort]
      BY <1>1, <2>2, <3>6 DEF FirstAnswerDecides
    <3> HIDE DEF P, answer
    <3> QED
      BY <3>3, <3>4, <3>5, <3>6, <3>7, <3>8 DEF FirstAnswerDecides
  <2> QED
    BY <1>1, <1>2, <1>3, <1>4, <2>7, <2>9, <2>10, TypeParts DEF StackInv, Inv
<1> QED
  BY <1>5, <1>6

(* What a connection has received.                                         *)
LEMMA ReceivedPackets ==
  ASSUME TypeOK, NEW o \in Owners
  PROVE  /\ received[o] \in Seq(Entries(Datagrams)) /\ Len(received[o]) \in Nat
         /\ DOMAIN received[o] = 1 .. Len(received[o])
<1>1. received[o] \in Seq(Entries(Datagrams))
  BY DEF TypeOK
<1> QED
  BY <1>1, LenProperties

(* The datagram that the loop hands on.                                    *)
LEMMA HandedOn ==
  ASSUME NetworkAssumption, StackInv, HandleUdp
  PROVE  /\ i + 1 \in 1 .. Len(batch) /\ i \in Nat
         /\ batch[i + 1] \in Entries(Datagrams)
         /\ batch[i + 1].frame = Current
         /\ Current \in Datagrams /\ Current.from \in Machines
         /\ Current.from # "all"
         /\ batch[i + 1].n \in Nat /\ batch[i + 1].n <= arrived
         /\ \A p \in Ports : \A m \in 1 .. Len(taken[p]) : taken[p][m].n < batch[i + 1].n
         /\ \A k \in 1 .. Len(batch) : k > i + 1 => batch[i + 1].n < batch[k].n
<1>1. TypeOK /\ Numbered /\ phase = "frames" /\ i < Len(batch) /\ Current.type = "udp"
  BY DEF HandleUdp, InBatch, StackInv, Inv
<1>2. /\ i \in Nat /\ Len(batch) \in Nat /\ DOMAIN batch = 1 .. Len(batch)
      /\ \A k \in 1 .. Len(batch) : batch[k] \in Entries(Frames) /\ batch[k].n \in Nat
                                    /\ batch[k].frame \in Frames
  BY <1>1, BatchEntries
<1>3. i + 1 \in 1 .. Len(batch)
  BY <1>1, <1>2
<1>4. Current \in Datagrams
  BY <1>1, <1>2, <1>3, StackValues DEF Current
<1>5. batch[i + 1] \in Entries(Datagrams)
  BY <1>2, <1>3, <1>4 DEF Entries, Current
<1>6. Waiting(i + 1)
  BY <1>1, <1>2 DEF Waiting
<1>7. \A p \in Ports : \A m \in 1 .. Len(taken[p]) : taken[p][m].n < batch[i + 1].n
  BY <1>1, <1>2, <1>3, <1>6, TakenNumbers DEF Numbered
<1>8. \A k \in 1 .. Len(batch) : k > i + 1 => batch[i + 1].n < batch[k].n
  BY <1>1, <1>2, <1>3 DEF Numbered
<1>9. batch[i + 1].n <= arrived /\ batch[i + 1].n \in Nat
  BY <1>1, <1>2, <1>3 DEF Numbered
<1>10. Current.from \in Machines /\ Current.from # "all"
  BY <1>4, StackValues DEF NetworkAssumption, FrameOK
<1> QED
  BY <1>2, <1>3, <1>4, <1>5, <1>7, <1>8, <1>9, <1>10 DEF Current

(* What is taken for a port stays, and so does what comes first.           *)
LEMMA TakenGrows ==
  ASSUME NetworkAssumption, StackInv, HandleUdp, NEW p \in Ports
  PROVE  /\ taken'[p] \in Seq(Entries(Datagrams)) /\ Len(taken'[p]) \in Nat
         /\ DOMAIN taken'[p] = 1 .. Len(taken'[p])
         /\ Len(taken[p]) <= Len(taken'[p])
         /\ \A m \in 1 .. Len(taken[p]) : taken'[p][m] = taken[p][m]
         /\ taken[p] # <<>> => taken'[p] # <<>> /\ Head(taken'[p]) = Head(taken[p])
         /\ p = Current.port /\ Takers(Current) # {}
              => /\ taken'[p] = Append(taken[p], batch[i + 1])
                 /\ Len(taken'[p]) = Len(taken[p]) + 1
                 /\ taken'[p][Len(taken[p]) + 1] = batch[i + 1]
         /\ ~(p = Current.port /\ Takers(Current) # {}) => taken'[p] = taken[p]
<1>1. taken[p] \in Seq(Entries(Datagrams)) /\ Len(taken[p]) \in Nat
      /\ DOMAIN taken[p] = 1 .. Len(taken[p])
  BY TakenNumbers DEF StackInv, Inv
<1>2. batch[i + 1] \in Entries(Datagrams)
  BY HandedOn
<1>3. taken'[p] = IF p = Current.port /\ Takers(Current) # {}
                    THEN Append(taken[p], batch[i + 1]) ELSE taken[p]
  BY DEF HandleUdp
<1> DEFINE s == taken[p]
           e == batch[i + 1]
           V == Entries(Datagrams)
<1>4. CASE p = Current.port /\ Takers(Current) # {}
  <2>1. taken'[p] = Append(s, e) /\ s \in Seq(V) /\ e \in V
    BY <1>1, <1>2, <1>3, <1>4
  <2> HIDE DEF s, e, V
  <2>2. /\ Append(s, e) \in Seq(V) /\ Append(s, e) # <<>>
        /\ Len(s) \in Nat /\ Len(Append(s, e)) = Len(s) + 1
        /\ DOMAIN Append(s, e) = 1 .. Len(s) + 1
        /\ \A m \in 1 .. Len(s) : Append(s, e)[m] = s[m]
        /\ Append(s, e)[Len(s) + 1] = e
        /\ Head(Append(s, e)) = IF s = <<>> THEN e ELSE Head(s)
    BY <2>1, Appended
  <2> DEFINE t == Append(s, e)
  <2> HIDE DEF t
  <2>3. taken'[p] = t /\ t = Append(s, e)
    BY <2>1 DEF t
  <2> QED
    BY <1>4, <2>2, <2>3 DEF t, s, e, V
<1>5. CASE ~(p = Current.port /\ Takers(Current) # {})
  BY <1>1, <1>3, <1>5
<1> QED
  BY <1>4, <1>5

(* And so is what is received.                                             *)
LEMMA ReceivedGrows ==
  ASSUME NetworkAssumption, StackInv, HandleUdp, NEW o \in Owners
  PROVE  /\ received'[o] \in Seq(Entries(Datagrams)) /\ Len(received'[o]) \in Nat
         /\ DOMAIN received'[o] = 1 .. Len(received'[o])
         /\ o \in Takers(Current)
              => /\ received'[o] = Append(received[o], batch[i + 1])
                 /\ Len(received'[o]) = Len(received[o]) + 1
                 /\ \A m \in 1 .. Len(received[o]) : received'[o][m] = received[o][m]
                 /\ received'[o][Len(received[o]) + 1] = batch[i + 1]
         /\ o \notin Takers(Current) => received'[o] = received[o]
<1>1. received[o] \in Seq(Entries(Datagrams)) /\ Len(received[o]) \in Nat
      /\ DOMAIN received[o] = 1 .. Len(received[o])
  BY ReceivedPackets DEF StackInv, Inv
<1>2. batch[i + 1] \in Entries(Datagrams) /\ batch[i + 1].frame = Current
  BY HandedOn
<1>3. received'[o] = IF o \in Takers(Current) THEN Append(received[o], batch[i + 1])
                                              ELSE received[o]
  BY <1>2 DEF HandleUdp, Receive
<1> DEFINE s == received[o]
           e == batch[i + 1]
           V == Entries(Datagrams)
<1>4. CASE o \in Takers(Current)
  <2>1. received'[o] = Append(s, e) /\ s \in Seq(V) /\ e \in V
    BY <1>1, <1>2, <1>3, <1>4
  <2> HIDE DEF s, e, V
  <2>2. /\ Append(s, e) \in Seq(V)
        /\ Len(s) \in Nat /\ Len(Append(s, e)) = Len(s) + 1
        /\ DOMAIN Append(s, e) = 1 .. Len(s) + 1
        /\ \A m \in 1 .. Len(s) : Append(s, e)[m] = s[m]
        /\ Append(s, e)[Len(s) + 1] = e
    BY <2>1, Appended
  <2> DEFINE t == Append(s, e)
  <2> HIDE DEF t
  <2>3. received'[o] = t /\ t = Append(s, e)
    BY <2>1 DEF t
  <2> QED
    BY <1>4, <2>2, <2>3 DEF t, s, e, V
<1>5. CASE o \notin Takers(Current)
  BY <1>1, <1>3, <1>5
<1> QED
  BY <1>4, <1>5

(* Every connection with the port gets the datagram, which is later than   *)
(* all that were taken before.                                             *)
LEMMA HandleUdpPreserves ==
  ASSUME NetworkAssumption, StackInv, HandleUdp
  PROVE  StackInv'
<1> DEFINE e == batch[i + 1]
           f == Current
           V == Takers(Current)
<1>1. /\ TypeOK /\ Numbered /\ ReceivedInOrder /\ RouterIsFirstSender
      /\ FirstAnswerDecides
      /\ OnePacketOneAnswer
      /\ UNCHANGED <<batch, phase, open, send, dhcp, ip, client, arrived, sent, replies>>
      /\ phase = "frames" /\ i' = i + 1 /\ i < Len(batch) /\ router' = Learn(f)
  BY DEF HandleUdp, InBatch, StackInv, Inv
<1>2. /\ i + 1 \in 1 .. Len(batch) /\ i \in Nat /\ e \in Entries(Datagrams)
      /\ e.frame = f
      /\ f \in Datagrams /\ f.from \in Machines /\ f.from # "all"
      /\ e.n \in Nat /\ e.n <= arrived
      /\ \A p \in Ports : \A m \in 1 .. Len(taken[p]) : taken[p][m].n < e.n
      /\ \A k \in 1 .. Len(batch) : k > i + 1 => e.n < batch[k].n
  BY HandedOn
<1>3. V \subseteq open /\ open \subseteq Owners /\ \A o \in open : o \in V <=> Port(o) = f.port
  BY <1>1 DEF Takers, TypeOK
<1> HIDE DEF e, f, V
<1>4. BatchOK'
  <2>1. Len(batch) \in Nat /\ Len(batch) <= Cap /\ Cap \in Nat
    BY <1>1, BatchEntries DEF TypeOK, NetworkAssumption
  <2> QED
    BY <1>1, <1>2, <2>1 DEF TypeOK, BatchOK
<1>5. ConnectionsOK'
  <2>1. received' \in [Owners -> Seq(Entries(Datagrams))]
    <3>1. DOMAIN received' = Owners
      BY DEF HandleUdp, Receive
    <3>2. received' = [o \in Owners |-> received'[o]]
      BY DEF HandleUdp, Receive
    <3> QED
      BY <3>2, ReceivedGrows
  <2>2. taken' \in [Ports -> Seq(Entries(Datagrams))]
    <3>1. taken' = [p \in Ports |-> taken'[p]]
      BY DEF HandleUdp
    <3> QED
      BY <3>1, TakenGrows
  <2>3. \A o \in Owners \ open : received'[o] = <<>> /\ send[o] = <<>>
    BY <1>1, <1>3, ReceivedGrows DEF TypeOK, V
  <2>4. router' \in Machines
    BY <1>1, <1>2 DEF Learn, TypeOK
  <2> QED
    BY <1>1, <2>1, <2>2, <2>3, <2>4 DEF TypeOK, ConnectionsOK
<1>6. Numbered'
  <2>1. DOMAIN batch = 1 .. Len(batch) /\ Len(batch) \in Nat
        /\ \A k \in 1 .. Len(batch) : batch[k].n \in Nat
    BY <1>1, BatchEntries
  <2>2. ASSUME NEW p \in Ports, NEW m \in 1 .. Len(taken'[p])
        PROVE  /\ taken'[p][m].n <= arrived
               /\ \A k \in 1 .. Len(batch) : k > i + 1 => taken'[p][m].n < batch[k].n
    <3>1. CASE m \in 1 .. Len(taken[p])
      <4>1. taken'[p][m] = taken[p][m]
        BY <3>1, TakenGrows
      <4>2. /\ taken[p][m].n <= arrived
            /\ \A k \in 1 .. Len(batch) : k > i => taken[p][m].n < batch[k].n
        BY <1>1, <2>1, <3>1, TakenNumbers DEF Numbered, Waiting
      <4> QED
        BY <1>2, <4>1, <4>2
    <3>2. CASE m \notin 1 .. Len(taken[p])
      <4>1. Len(taken[p]) \in Nat
        BY <1>1, TakenNumbers
      <4>2. taken'[p][m] = e
        BY <2>2, <3>2, <4>1, TakenGrows DEF e
      <4> QED
        BY <1>2, <4>2
    <3> QED
      BY <3>1, <3>2
  <2>3. \A k \in 1 .. Len(batch) : Waiting(k)' => k > i + 1
    BY <1>1 DEF Waiting
  <2>4. \A p \in Ports : DOMAIN taken'[p] = 1 .. Len(taken'[p])
    BY TakenGrows
  <2> QED
    BY <1>1, <2>1, <2>2, <2>3, <2>4 DEF Numbered
<1>7. ReceivedInOrder'
  <2>1. ASSUME NEW o \in open
        PROVE  /\ Len(taken'[Port(o)]) - Len(received'[o]) >= 0
               /\ \A m \in 1 .. Len(received'[o]) :
                    received'[o][m] = taken'[Port(o)][Len(taken'[Port(o)]) - Len(received'[o]) + m]
    <3> DEFINE p == Port(o)
               a == Len(taken[p])
               g == Len(received[o])
    <3>1. o \in Owners /\ p \in Ports /\ a \in Nat /\ g \in Nat /\ a - g >= 0
          /\ \A m \in 1 .. g : received[o][m] = taken[p][a - g + m]
      <4>1. o \in Owners /\ p \in Ports
        BY <1>3, StackNames
      <4>2. a \in Nat /\ g \in Nat /\ DOMAIN received[o] = 1 .. g
        BY <1>1, <4>1, TakenNumbers, ReceivedPackets
      <4> QED
        BY <1>1, <4>1, <4>2 DEF ReceivedInOrder
    <3>2. CASE o \in V
      <4>1. /\ Len(taken'[p]) = a + 1 /\ Len(received'[o]) = g + 1
            /\ taken'[p][a + 1] = e /\ received'[o][g + 1] = e
            /\ \A m \in 1 .. a : taken'[p][m] = taken[p][m]
            /\ \A m \in 1 .. g : received'[o][m] = received[o][m]
        BY <1>3, <3>1, <3>2, TakenGrows, ReceivedGrows DEF e, f, V
      <4> DEFINE t == taken[p]
                 tt == taken'[p]
                 r == received[o]
                 rr == received'[o]
      <4>2. /\ Len(tt) = a + 1 /\ Len(rr) = g + 1 /\ tt[a + 1] = e /\ rr[g + 1] = e
            /\ \A m \in 1 .. a : tt[m] = t[m]
            /\ \A m \in 1 .. g : rr[m] = r[m]
            /\ \A m \in 1 .. g : r[m] = t[a - g + m]
        BY <3>1, <4>1
      <4>3. Len(tt) - Len(rr) >= 0 /\ \A m \in 1 .. Len(rr) : rr[m] = tt[Len(tt) - Len(rr) + m]
        <5>1. a \in Nat /\ g \in Nat /\ a >= g
          BY <3>1
        <5> HIDE DEF t, tt, r, rr, a, g
        <5>2. ASSUME NEW m \in 1 .. g + 1
              PROVE  rr[m] = tt[a - g + m]
          <6>1. CASE m \in 1 .. g
            <7>1. a - g + m \in 1 .. a
              BY <5>1, <6>1
            <7> QED
              BY <4>2, <6>1, <7>1
          <6>2. CASE m = g + 1
            <7>1. a - g + m = a + 1
              BY <5>1, <6>2
            <7> QED
              BY <4>2, <6>2, <7>1
          <6> QED
            BY <5>1, <6>1, <6>2
        <5>3. Len(tt) - Len(rr) = a - g
          BY <4>2, <5>1
        <5> QED
          BY <4>2, <5>1, <5>2, <5>3
      <4> QED
        BY <4>3
    <3>3. CASE o \notin V
      <4>1. taken'[p] = taken[p] /\ received'[o] = received[o]
        BY <1>3, <3>1, <3>3, TakenGrows, ReceivedGrows DEF f, V
      <4> QED
        BY <3>1, <4>1
    <3> QED
      BY <3>2, <3>3
  <2>2. ASSUME NEW p \in Ports, NEW m \in 1 .. Len(taken'[p]), NEW k \in 1 .. Len(taken'[p]), m < k
        PROVE  taken'[p][m].n < taken'[p][k].n
    <3>1. Len(taken[p]) \in Nat
      BY <1>1, TakenNumbers
    <3>2. CASE k \in 1 .. Len(taken[p])
      <4>1. m \in 1 .. Len(taken[p])
        BY <2>2, <3>1, <3>2
      <4> QED
        BY <1>1, <2>2, <3>2, <4>1, TakenGrows, TakenNumbers DEF ReceivedInOrder
    <3>3. CASE k \notin 1 .. Len(taken[p])
      <4>1. taken'[p][k] = e /\ m \in 1 .. Len(taken[p])
        BY <2>2, <3>1, <3>3, TakenGrows DEF e
      <4> QED
        BY <1>2, <4>1, TakenGrows
    <3> QED
      BY <3>2, <3>3
  <2>3. \A o \in open : DOMAIN received'[o] = 1 .. Len(received'[o])
    BY <1>3, ReceivedGrows
  <2>4. \A p \in Ports : DOMAIN taken'[p] = 1 .. Len(taken'[p])
    BY TakenGrows
  <2> QED
    BY <1>1, <2>1, <2>2, <2>3, <2>4 DEF ReceivedInOrder
<1>8. SentOnce' /\ ListsSent' /\ NoStrayReplies'
  BY <1>1 DEF StackInv, Inv, SentOnce, Given, Sent, ListsSent,
              NoStrayReplies
<1>9. OnePacketOneAnswer'
  <2> SUFFICES ASSUME NEW c \in Clients
               PROVE  /\ client[c] = "time" => Len(taken'[ClientPort]) > Len(received'[c])
                      /\ client[c] = "quit" => Len(taken'[ClientPort]) >= 2
    BY <1>1 DEF OnePacketOneAnswer
  <2>1. c \in Owners /\ Port(c) = ClientPort /\ ClientPort \in Ports
    BY StackNames
  <2>2. /\ Len(taken[ClientPort]) \in Nat /\ Len(taken'[ClientPort]) \in Nat
        /\ Len(taken[ClientPort]) <= Len(taken'[ClientPort])
        /\ Len(received[c]) \in Nat /\ Len(received'[c]) \in Nat
    BY <1>1, <2>1, TakenNumbers, TakenGrows, ReceivedPackets, ReceivedGrows
  <2>3. \/ Len(received'[c]) = Len(received[c])
        \/ /\ Len(received'[c]) = Len(received[c]) + 1
           /\ Len(taken'[ClientPort]) = Len(taken[ClientPort]) + 1
    <3>1. CASE c \in V
      BY <1>3, <2>1, <3>1, TakenGrows, ReceivedGrows DEF f, V
    <3>2. CASE c \notin V
      BY <2>1, <3>2, ReceivedGrows DEF V
    <3> QED
      BY <3>1, <3>2
  <2>4. /\ client[c] = "time" => Len(taken[ClientPort]) > Len(received[c])
        /\ client[c] = "quit" => Len(taken[ClientPort]) >= 2
    BY <1>1 DEF OnePacketOneAnswer
  <2> QED
    BY <2>2, <2>3, <2>4
<1>10. FirstAnswerDecides'
  <2>1. Given("dhcp")' = Given("dhcp")
    BY <1>1 DEF Given, Sent
  <2>2. taken[DhcpPort] # <<>>
          => taken'[DhcpPort] # <<>> /\ Head(taken'[DhcpPort]) = Head(taken[DhcpPort])
    BY StackNames, TakenGrows
  <2>3. dhcp => received'["dhcp"] = taken'[DhcpPort]
    <3> SUFFICES ASSUME dhcp PROVE received'["dhcp"] = taken'[DhcpPort]
      OBVIOUS
    <3>1. "dhcp" \in open /\ received["dhcp"] = taken[DhcpPort]
      BY <1>1 DEF TypeOK, FirstAnswerDecides
    <3>2. "dhcp" \in Owners /\ Port("dhcp") = DhcpPort /\ DhcpPort \in Ports
      BY StackNames
    <3>3. CASE "dhcp" \in V
      <4>1. Current.port = DhcpPort /\ Takers(Current) # {} /\ "dhcp" \in Takers(Current)
        BY <1>3, <3>1, <3>2, <3>3 DEF f, V
      <4>2. received'["dhcp"] = Append(received["dhcp"], batch[i + 1])
        BY <3>2, <4>1, ReceivedGrows
      <4>3. taken'[DhcpPort] = Append(taken[DhcpPort], batch[i + 1])
        BY <3>2, <4>1, TakenGrows
      <4> QED
        BY <3>1, <4>2, <4>3
    <3>4. CASE "dhcp" \notin V
      BY <1>3, <3>1, <3>2, <3>4, TakenGrows, ReceivedGrows DEF f, V
    <3> QED
      BY <3>3, <3>4
  <2> QED
    BY <1>1, <2>1, <2>2, <2>3 DEF FirstAnswerDecides
<1>11. RouterIsFirstSender'
  <2>1. /\ \A o \in Owners : \A m \in DOMAIN sent[o] : sent[o][m].to \in {"all", router}
        /\ (\A p \in Ports : taken[p] = <<>>) => router = "all"
        /\ ~(\A p \in Ports : taken[p] = <<>>) =>
             \E p \in Ports : /\ taken[p] # <<>> /\ router = Head(taken[p]).frame.from
                              /\ \A q \in Ports : taken[q] # <<>> => Head(taken[p]).n <= Head(taken[q]).n
    BY <1>1 DEF RouterIsFirstSender
  <2>2. ASSUME NEW p \in Ports, taken[p] # <<>>
        PROVE  /\ Head(taken[p]) = taken[p][1] /\ 1 \in 1 .. Len(taken[p])
               /\ Head(taken[p]).n \in Nat /\ Head(taken[p]).n < e.n
               /\ Head(taken[p]).frame.from # "all"
    <3>1. taken[p] \in Seq(Entries(Datagrams)) /\ Len(taken[p]) \in Nat
      BY <1>1, TakenNumbers
    <3>2. 1 \in 1 .. Len(taken[p]) /\ Head(taken[p]) = taken[p][1]
      <4> DEFINE s == taken[p]
                 S == Entries(Datagrams)
      <4>1. s \in Seq(S) /\ s # <<>>
        BY <2>2, <3>1
      <4> HIDE DEF s, S
      <4>2. Len(s) \in Nat \ {0} /\ Head(s) = s[1]
        BY <4>1, EmptySeq
      <4> QED
        BY <4>2 DEF s
    <3>3. taken[p][1] \in Entries(Datagrams) /\ taken[p][1].n \in Nat
      BY <1>1, <3>2, TakenNumbers
    <3>4. taken[p][1].frame \in Frames
      BY <3>3, StackValues DEF Entries
    <3> QED
      BY <1>2, <3>2, <3>3, <3>4 DEF NetworkAssumption, FrameOK
  <2>3. CASE V = {}
    <3>1. router' = router /\ \A p \in Ports : taken'[p] = taken[p]
      BY <1>1, <2>3, TakenGrows DEF Learn, f, V
    <3> QED
      BY <1>1, <2>1, <3>1 DEF RouterIsFirstSender
  <2>4. CASE V # {} /\ \A p \in Ports : taken[p] = <<>>
    <3>1. router = "all" /\ router' = f.from
      BY <1>1, <2>1, <2>4 DEF Learn, f, V
    <3>2. f.port \in Ports
      BY <1>3, <2>4, StackNames
    <3>3. taken'[f.port] # <<>> /\ Head(taken'[f.port]) = e
          /\ \A q \in Ports : q # f.port => taken'[q] = <<>>
      <4>1. taken'[f.port] = Append(<<>>, e) /\ <<>> \in Seq(Entries(Datagrams))
        BY <2>4, <3>2, TakenGrows DEF e, f, V
      <4>2. \A q \in Ports : q # f.port => taken'[q] = <<>>
        BY <2>4, TakenGrows DEF f
      <4> QED
        BY <1>2, <4>1, <4>2, Appended
    <3>4. \A q \in Ports : taken'[q] # <<>> => Head(taken'[f.port]).n <= Head(taken'[q]).n
      BY <1>2, <3>3
    <3>5. \A o \in Owners : \A m \in DOMAIN sent'[o] : sent'[o][m].to \in {"all", router'}
      BY <1>1, <2>1, <3>1
    <3>6. router' = Head(taken'[f.port]).frame.from
      BY <1>2, <3>1, <3>3
    <3> QED
      BY <3>2, <3>3, <3>4, <3>5, <3>6 DEF RouterIsFirstSender
  <2>5. CASE V # {} /\ ~(\A p \in Ports : taken[p] = <<>>)
    <3>1. PICK p \in Ports : /\ taken[p] # <<>> /\ router = Head(taken[p]).frame.from
                             /\ \A q \in Ports : taken[q] # <<>> => Head(taken[p]).n <= Head(taken[q]).n
      BY <2>1, <2>5
    <3>2. router # "all" /\ router' = router
      BY <1>1, <2>2, <3>1 DEF Learn
    <3>3. taken'[p] # <<>> /\ Head(taken'[p]) = Head(taken[p])
      BY <3>1, TakenGrows
    <3>4. ASSUME NEW q \in Ports, taken'[q] # <<>>
          PROVE  Head(taken[p]).n <= Head(taken'[q]).n
      <4>1. CASE taken[q] # <<>>
        BY <3>1, <4>1, TakenGrows
      <4>2. CASE taken[q] = <<>>
        <5>1. taken'[q] = Append(<<>>, e) /\ <<>> \in Seq(Entries(Datagrams))
          BY <3>4, <4>2, TakenGrows DEF e
        <5>2. Head(taken'[q]) = e
          BY <1>2, <5>1, Appended
        <5> QED
          BY <1>2, <2>2, <3>1, <5>2
      <4> QED
        BY <4>1, <4>2
    <3> QED
      BY <1>1, <2>1, <3>1, <3>2, <3>3, <3>4 DEF RouterIsFirstSender
  <2> QED
    BY <2>3, <2>4, <2>5
<1> QED
  BY <1>4, <1>5, <1>6, <1>7, <1>8, <1>9, <1>10, <1>11, TypeParts DEF StackInv, Inv

(* What was to be sent has been sent: all lists are empty.                 *)
LEMMA SendPreserves ==
  ASSUME NetworkAssumption, StackInv, Send
  PROVE  StackInv'
<1>1. /\ TypeOK /\ Numbered /\ ReceivedInOrder /\ RouterIsFirstSender
      /\ FirstAnswerDecides
      /\ UNCHANGED <<batch, i, open, received, dhcp, ip, router, client, arrived, taken, replies>>
      /\ phase = "send" /\ phase' = "close"
      /\ sent' = SendAll /\ send' = [o \in Owners |-> <<>>]
  BY DEF Send, StackInv, Inv
<1>2. BatchOK'
  BY <1>1 DEF TypeOK, BatchOK, Phases
<1>3. Numbered'
  BY <1>1, FewerWait DEF Waiting
<1>4. ReceivedInOrder' /\ NoStrayReplies' /\ OnePacketOneAnswer' /\ ListsSent'
  BY <1>1 DEF StackInv, Inv, ReceivedInOrder, NoStrayReplies,
              OnePacketOneAnswer, ListsSent
<1>5. ASSUME NEW o \in Owners
      PROVE  /\ sent'[o] \in Seq([to : Machines, packet : Packets])
             /\ send'[o] = <<>>
             /\ \A m \in DOMAIN sent'[o] : \/ m \in DOMAIN sent[o] /\ sent'[o][m].to = sent[o][m].to
                                           \/ sent'[o][m].to = router
             /\ Given(o)' = Given(o)
  <2> DEFINE s == sent[o]
             l == send[o]
             a == Addressed(l)
             S == [to : Machines, packet : Packets]
             n == Len(s)
             k == Len(l)
  <2>1. /\ s \in Seq(S) /\ n \in Nat /\ DOMAIN s = 1 .. n
        /\ l \in Seq(Packets) /\ k \in Nat /\ DOMAIN l = 1 .. k
        /\ Sent(o) \in Seq(Packets) /\ Len(Sent(o)) = n
        /\ \A m \in 1 .. n : Sent(o)[m] = s[m].packet
    <3>1. s \in Seq(S) /\ l \in Seq(Packets)
      BY <1>1 DEF TypeOK
    <3>2. n \in Nat /\ DOMAIN s = 1 .. n
      BY <3>1, LenProperties
    <3>3. k \in Nat /\ DOMAIN l = 1 .. k
      BY <3>1, LenProperties
    <3> QED
      BY <1>1, <3>1, <3>2, <3>3, GivenTyped
  <2>2. /\ a \in Seq(S) /\ Len(a) = k
        /\ \A m \in 1 .. k : a[m].to = router /\ a[m].packet = l[m]
    <3>1. a = [m \in 1 .. k |-> [to |-> router, packet |-> l[m]]]
      BY <2>1 DEF Addressed
    <3>2. \A m \in 1 .. k : l[m] \in Packets
      <4> HIDE DEF l
      <4> QED
        BY <2>1, ElementOfSeq
    <3>3. router \in Machines
      BY <1>1 DEF TypeOK
    <3> HIDE DEF a, l, k
    <3> QED
      BY <2>1, <3>1, <3>2, <3>3
  <2>3. sent'[o] = s \o a /\ send'[o] = <<>>
    BY <1>1 DEF SendAll
  <2> HIDE DEF s, l, a, S, n, k
  <2> DEFINE t == s \o a
  <2>4. Len(s) = n
    BY DEF n
  <2>5. /\ t \in Seq(S) /\ DOMAIN t = 1 .. n + k
        /\ \A m \in 1 .. n : t[m] = s[m]
        /\ \A m \in 1 .. n + k : m \notin 1 .. n => m - n \in 1 .. k /\ t[m] = a[m - n]
    <3>1. s \in Seq(S) /\ a \in Seq(S) /\ n \in Nat /\ k \in Nat /\ Len(s) = n /\ Len(a) = k
      BY <2>1, <2>2, <2>4
    <3> QED
      BY <3>1
  <2> HIDE DEF t
  <2>6. ASSUME NEW m \in 1 .. n + k
        PROVE  \/ m \in 1 .. n /\ t[m] = s[m]
               \/ m \notin 1 .. n /\ t[m] = a[m - n] /\ m - n \in 1 .. k
    BY <2>5
  <2>7. Sent(o)' = Sent(o) \o l
    <3> DEFINE g == Sent(o)
               h == g \o l
               u == Sent(o)'
    <3>1. u = [m \in 1 .. n + k |-> t[m].packet]
      BY <2>3, <2>5 DEF Sent, t
    <3>2. g \in Seq(Packets) /\ Len(g) = n /\ \A m \in 1 .. n : g[m] = s[m].packet
      BY <2>1
    <3> HIDE DEF g
    <3>3. /\ h \in Seq(Packets) /\ Len(h) = n + k
          /\ \A m \in 1 .. n : h[m] = g[m]
          /\ \A m \in 1 .. n + k : m \notin 1 .. n => h[m] = l[m - n]
      <4> DEFINE Q == Packets
      <4>1. /\ g \in Seq(Q) /\ l \in Seq(Q) /\ n \in Nat /\ k \in Nat
            /\ Len(g) = n /\ Len(l) = k
        BY <2>1, <3>2 DEF k
      <4> HIDE DEF Q
      <4>2. /\ g \o l \in Seq(Q) /\ Len(g \o l) = n + k /\ DOMAIN (g \o l) = 1 .. n + k
            /\ \A m \in 1 .. n : (g \o l)[m] = g[m]
            /\ \A m \in 1 .. n + k : m \notin 1 .. n => m - n \in 1 .. k /\ (g \o l)[m] = l[m - n]
        BY <4>1
      <4>3. /\ h \in Seq(Q) /\ Len(h) = n + k
            /\ \A m \in 1 .. n : h[m] = g[m]
            /\ \A m \in 1 .. n + k : m \notin 1 .. n => m - n \in 1 .. k /\ h[m] = l[m - n]
        BY <4>2
      <4> HIDE DEF h
      <4> QED
        BY <4>3 DEF Q
    <3> HIDE DEF h, u
    <3>4. ASSUME NEW m \in 1 .. n + k
          PROVE  t[m].packet = h[m]
      <4>1. CASE m \in 1 .. n
        BY <2>5, <3>2, <3>3, <4>1
      <4>2. CASE m \notin 1 .. n
        BY <2>2, <2>5, <3>3, <4>2
      <4> QED
        BY <4>1, <4>2
    <3>5. h = [m \in 1 .. n + k |-> h[m]]
      <4>1. h \in [1 .. Len(h) -> Packets]
        BY <3>3, LenProperties
      <4> QED
        BY <3>3, <4>1
    <3>6. u = h
      BY <3>1, <3>4, <3>5
    <3> QED
      BY <3>6 DEF u, h, g
  <2>8. Given(o)' = Given(o)
    <3>1. Given(o) = Sent(o) \o l /\ Given(o) \in Seq(Packets)
      BY <1>1, GivenTyped DEF Given, l
    <3>2. Given(o)' = Sent(o)' \o <<>>
      BY <2>3 DEF Given
    <3> DEFINE g == Given(o)
    <3>3. Given(o)' = g \o <<>> /\ g \in Seq(Packets)
      BY <2>7, <3>1, <3>2
    <3> HIDE DEF g
    <3>4. g \o <<>> = g
      BY <3>3, ConcatEmptySeq
    <3> QED
      BY <3>3, <3>4 DEF g
  <2>9. \A m \in 1 .. n + k : (m \in 1 .. n /\ t[m].to = s[m].to) \/ t[m].to = router
    BY <2>2, <2>6
  <2> QED
    BY <2>1, <2>3, <2>5, <2>8, <2>9 DEF s, S, t
<1>6. ConnectionsOK'
  <2>1. sent' \in [Owners -> Seq([to : Machines, packet : Packets])]
    <3>1. sent' = [o \in Owners |-> sent'[o]]
      BY <1>1 DEF SendAll
    <3> QED
      BY <1>5, <3>1
  <2>2. send' \in [Owners -> Seq(Packets)]
    BY <1>1
  <2> QED
    BY <1>1, <1>5, <2>1, <2>2 DEF TypeOK, ConnectionsOK
<1>7. SentOnce'
  BY <1>1, <1>5, StackNames DEF StackInv, Inv, SentOnce
<1>8. FirstAnswerDecides'
  BY <1>1, <1>5, StackNames DEF FirstAnswerDecides
<1>9. RouterIsFirstSender'
  <2>1. \A o \in Owners : \A m \in DOMAIN sent'[o] : sent'[o][m].to \in {"all", router}
    BY <1>1, <1>5 DEF RouterIsFirstSender
  <2> QED
    BY <1>1, <2>1 DEF RouterIsFirstSender
<1> QED
  BY <1>2, <1>3, <1>4, <1>6, <1>7, <1>8, <1>9, TypeParts DEF StackInv, Inv

(* Packets given as before, to somebody whose list is as it was.           *)
LEMMA GivenKept ==
  ASSUME sent' = sent, NEW o \in Owners, send'[o] = send[o]
  PROVE  Given(o)' = Given(o)
BY DEF Given, Sent

(* The connection of the DHCP client is closed with nothing left to send.  *)
LEMMA CloseDhcpPreserves ==
  ASSUME NetworkAssumption, StackInv, CloseDhcp
  PROVE  StackInv'
<1>1. /\ TypeOK /\ Numbered /\ ListsSent /\ FirstAnswerDecides
      /\ UNCHANGED <<batch, i, ip, router, client, arrived, taken, sent, replies>>
      /\ phase = "close" /\ phase' = "programs"
  BY DEF CloseDhcp, history, StackInv, Inv
<1>2. BatchOK'
  BY <1>1 DEF TypeOK, BatchOK, Phases
<1>3. Numbered'
  BY <1>1, FewerWait DEF Waiting
<1>4. RouterIsFirstSender' /\ NoStrayReplies'
  BY <1>1 DEF StackInv, Inv, RouterIsFirstSender, NoStrayReplies
<1>5. /\ \A o \in Owners : send'[o] = send[o] /\ send[o] = <<>>
      /\ \A o \in Owners : o # "dhcp" => received'[o] = received[o] /\ (o \in open' <=> o \in open)
      /\ open' \subseteq open /\ dhcp' \in BOOLEAN /\ (dhcp' <=> "dhcp" \in open')
      /\ ~dhcp' => ip # NoAddress
      /\ dhcp' => received'["dhcp"] = received["dhcp"] /\ dhcp
      /\ received' \in [Owners -> Seq(Entries(Datagrams))]
      /\ send' \in [Owners -> Seq(Packets)]
      /\ \A o \in Owners \ open' : received'[o] = <<>>
  <2>1. \A o \in Owners : send[o] = <<>>
    BY <1>1 DEF ListsSent
  <2>2. CASE UNCHANGED <<open, received, send, dhcp>>
    <3>1. ~dhcp => ip # NoAddress
      BY <1>1 DEF FirstAnswerDecides
    <3> QED
      BY <1>1, <2>1, <2>2, <3>1 DEF TypeOK
  <2>3. CASE ip # NoAddress /\ dhcp /\ closeConnections({"dhcp"}) /\ dhcp' = FALSE
    <3>1. /\ open' = open \ {"dhcp"}
          /\ received' = [o \in Owners |-> IF o = "dhcp" THEN <<>> ELSE received[o]]
          /\ send' = [o \in Owners |-> IF o = "dhcp" THEN <<>> ELSE send[o]]
      BY <2>3 DEF closeConnections, Without
    <3>2. /\ received \in [Owners -> Seq(Entries(Datagrams))]
          /\ send \in [Owners -> Seq(Packets)]
          /\ \A o \in Owners \ open : received[o] = <<>>
      BY <1>1 DEF TypeOK
    <3>3. received' \in [Owners -> Seq(Entries(Datagrams))] /\ send' \in [Owners -> Seq(Packets)]
      BY <3>1, <3>2
    <3>4. dhcp' \in BOOLEAN /\ (dhcp' <=> "dhcp" \in open')
      <4>1. "dhcp" \notin open'
        BY <3>1
      <4> QED
        BY <2>3, <4>1
    <3>5. \A o \in Owners : o # "dhcp" => received'[o] = received[o] /\ (o \in open' <=> o \in open)
      BY <3>1
    <3>6. \A o \in Owners \ open' : received'[o] = <<>>
      BY <3>1, <3>2
    <3>7. \A o \in Owners : send'[o] = send[o]
      BY <2>1, <3>1
    <3> QED
      BY <2>1, <2>3, <3>1, <3>3, <3>4, <3>5, <3>6, <3>7
  <2> QED
    BY <2>2, <2>3 DEF CloseDhcp
<1>6. ConnectionsOK'
  BY <1>1, <1>5, StackNames DEF TypeOK, ConnectionsOK
<1>7. \A o \in Owners : Given(o)' = Given(o)
  BY <1>1, <1>5, GivenKept
<1>8. SentOnce'
  BY <1>1, <1>7, StackNames DEF StackInv, Inv, SentOnce
<1>9. FirstAnswerDecides'
  BY <1>1, <1>5, <1>7, StackNames DEF StackInv, FirstAnswerDecides
<1>10. OnePacketOneAnswer'
  BY <1>1, <1>5, StackNames DEF StackInv, Inv, OnePacketOneAnswer
<1>11. ReceivedInOrder'
  <2>1. \A o \in open' : o \in open /\ received'[o] = received[o]
    <3>1. open \subseteq Owners /\ dhcp \in BOOLEAN /\ (dhcp <=> "dhcp" \in open)
      BY <1>1 DEF TypeOK
    <3> QED
      BY <1>5, <3>1
  <2>2. \A o \in open :
          /\ Len(taken[Port(o)]) - Len(received[o]) >= 0
          /\ \A m \in DOMAIN received[o] :
               received[o][m] = taken[Port(o)][Len(taken[Port(o)]) - Len(received[o]) + m]
    BY DEF StackInv, ReceivedInOrder
  <2>3. \A p \in Ports : \A m, k \in DOMAIN taken[p] : m < k => taken[p][m].n < taken[p][k].n
    BY DEF StackInv, ReceivedInOrder
  <2>4. taken' = taken
    BY <1>1
  <2>5. ASSUME NEW o \in open'
        PROVE  /\ Len(taken'[Port(o)]) - Len(received'[o]) >= 0
               /\ \A m \in DOMAIN received'[o] :
                    received'[o][m] = taken'[Port(o)][Len(taken'[Port(o)]) - Len(received'[o]) + m]
    <3>1. o \in open /\ received'[o] = received[o]
      BY <2>1
    <3> QED
      BY <2>2, <2>4, <3>1
  <2> QED
    BY <2>3, <2>4, <2>5 DEF ReceivedInOrder
<1>12. ListsSent'
  BY <1>1, <1>5, StackNames DEF ListsSent
<1> QED
  BY <1>2, <1>3, <1>4, <1>6, <1>8, <1>9, <1>10, <1>11, <1>12, TypeParts DEF StackInv, Inv

(* A test program opens its connection.                                    *)
LEMMA StartPreserves ==
  ASSUME NetworkAssumption, StackInv, NEW c \in Clients, Start(c)
  PROVE  StackInv'
<1>1. /\ TypeOK /\ Numbered /\ ListsSent
      /\ UNCHANGED <<batch, i, phase, received, dhcp, ip, router, arrived, taken, sent, replies>>
      /\ phase = "programs" /\ client[c] = "off" /\ open' = open \cup {c}
      /\ send' = [send EXCEPT ![c] = << NameQuestion >>]
      /\ client' = [client EXCEPT ![c] = "name"]
  BY DEF Start, history, StackInv, Inv
<1>2. BatchOK'
  BY <1>1 DEF TypeOK, BatchOK, Phases
<1>3. Numbered'
  BY <1>1, FewerWait DEF Waiting
<1>4. RouterIsFirstSender' /\ NoStrayReplies'
  BY <1>1 DEF StackInv, Inv, RouterIsFirstSender, NoStrayReplies
<1>5. /\ c \in Owners /\ c # "dhcp" /\ c \notin open /\ received[c] = <<>> /\ send[c] = <<>>
      /\ client \in [Clients -> {"off", "name", "time", "quit"}]
      /\ send \in [Owners -> Seq(Packets)]
  BY <1>1, StackNames DEF TypeOK
<1>6. /\ send'[c] = << NameQuestion >> /\ client'[c] = "name"
      /\ \A o \in Owners : o # c => send'[o] = send[o]
      /\ \A d \in Clients : d # c => client'[d] = client[d]
  BY <1>1, <1>5
<1>7. ConnectionsOK'
  <2>1. send' \in [Owners -> Seq(Packets)]
    <3>1. << NameQuestion >> \in Seq(Packets)
      BY StackValues
    <3> QED
      BY <1>1, <1>5, <3>1
  <2>2. client' \in [Clients -> {"off", "name", "time", "quit"}]
    BY <1>1, <1>5
  <2>3. \A o \in Owners \ open' : received'[o] = <<>> /\ send'[o] = <<>>
    BY <1>1, <1>6 DEF TypeOK
  <2>4. \A d \in Clients : client'[d] \in {"name", "time"} <=> d \in open'
    BY <1>1, <1>5, <1>6 DEF TypeOK
  <2>5. dhcp' \in BOOLEAN /\ (dhcp' <=> "dhcp" \in open')
    <3>1. dhcp \in BOOLEAN /\ (dhcp <=> "dhcp" \in open) /\ dhcp' = dhcp
      BY <1>1 DEF TypeOK
    <3>2. "dhcp" \in open' <=> "dhcp" \in open
      BY <1>1, <1>5
    <3> QED
      BY <3>1, <3>2
  <2> QED
    BY <1>1, <1>5, <2>1, <2>2, <2>3, <2>4, <2>5 DEF TypeOK, ConnectionsOK
<1>8. Given(c) = <<>> /\ Given(c)' = << NameQuestion >>
  <2>1. Given(c) = <<>>
    BY <1>1 DEF StackInv, Inv, SentOnce
  <2>2. Append(send[c], NameQuestion) = << NameQuestion >>
    BY <1>5, StackValues
  <2>3. Sent(c) \o Append(send[c], NameQuestion) = Append(Given(c), NameQuestion)
    BY <1>1, <1>5, StackValues, GivenMore
  <2>4. Given(c)' = Sent(c) \o << NameQuestion >>
    BY <1>1, <1>6 DEF Given, Sent
  <2>5. Append(<<>>, NameQuestion) = << NameQuestion >>
    OBVIOUS
  <2> QED
    BY <2>1, <2>2, <2>3, <2>4, <2>5
<1>9. \A o \in Owners : o # c => Given(o)' = Given(o)
  BY <1>1, <1>6, GivenKept
<1>10. SentOnce'
  <2> SUFFICES ASSUME NEW d \in Clients
               PROVE  Given(d)' = CASE client'[d] = "off" -> <<>>
                                    [] client'[d] = "name" -> << NameQuestion >>
                                    [] client'[d] \in {"time", "quit"} -> << NameQuestion, TimeQuestion >>
    BY DEF SentOnce
  <2>1. CASE d = c
    BY <1>6, <1>8, <2>1
  <2>2. CASE d # c
    <3>1. Given(d)' = Given(d) /\ client'[d] = client[d]
      BY <1>6, <1>9, <2>2, StackNames
    <3> QED
      BY <3>1 DEF StackInv, Inv, SentOnce
  <2> QED
    BY <2>1, <2>2
<1>11. FirstAnswerDecides'
  BY <1>1, <1>5, <1>9, StackNames DEF StackInv, FirstAnswerDecides
<1>12. OnePacketOneAnswer'
  BY <1>1, <1>6 DEF StackInv, Inv, OnePacketOneAnswer
<1>13. ReceivedInOrder'
  <2>1. ASSUME NEW o \in open'
        PROVE  /\ Len(taken[Port(o)]) - Len(received[o]) >= 0
               /\ \A m \in DOMAIN received[o] :
                    received[o][m] = taken[Port(o)][Len(taken[Port(o)]) - Len(received[o]) + m]
    <3>1. CASE o = c
      <4>1. Len(received[o]) = 0 /\ DOMAIN received[o] = {} /\ Len(taken[Port(o)]) \in Nat
        BY <1>1, <1>5, <3>1, StackNames, TakenNumbers
      <4> QED
        BY <4>1
    <3>2. CASE o # c
      <4>1. o \in open
        BY <1>1, <3>2
      <4> QED
        BY <4>1 DEF StackInv, ReceivedInOrder
    <3> QED
      BY <3>1, <3>2
  <2>2. received' = received /\ taken' = taken
    BY <1>1
  <2>3. \A p \in Ports : \A m, k \in DOMAIN taken[p] : m < k => taken[p][m].n < taken[p][k].n
    BY DEF StackInv, ReceivedInOrder
  <2> QED
    BY <2>1, <2>2, <2>3 DEF ReceivedInOrder
<1>14. ListsSent'
  BY <1>1, <1>5, <1>6, StackNames DEF ListsSent
<1> QED
  BY <1>2, <1>3, <1>4, <1>7, <1>10, <1>11, <1>12, <1>13, <1>14, TypeParts DEF StackInv, Inv

(* The programs that find a packet ask on, or close their connection and   *)
(* quit, which loses nothing that they asked, since it has been sent.      *)
LEMMA UpdatePreserves ==
  ASSUME NetworkAssumption, StackInv, Update
  PROVE  StackInv'
<1> DEFINE A == Answered("name")
           B == Answered("time")
<1>1. /\ TypeOK /\ Numbered /\ ListsSent /\ ReceivedInOrder
      /\ UNCHANGED <<batch, i, dhcp, ip, router, arrived, taken, sent, replies>>
      /\ phase = "programs" /\ phase' = "lease" /\ open' = open \ B
      /\ received' = Without(A \cup B, received)
      /\ send' = [o \in Owners |-> IF o \in A THEN Append(send[o], TimeQuestion)
                                   ELSE Without(B, send)[o]]
      /\ client' = [c \in Clients |-> IF c \in A THEN "time"
                                      ELSE IF c \in B THEN "quit" ELSE client[c]]
  BY DEF Update, history, StackInv, Inv
<1>2. BatchOK'
  BY <1>1 DEF TypeOK, BatchOK, Phases
<1>3. Numbered'
  BY <1>1, FewerWait DEF Waiting
<1>4. RouterIsFirstSender' /\ NoStrayReplies'
  BY <1>1 DEF StackInv, Inv, RouterIsFirstSender, NoStrayReplies
<1>5. /\ A \subseteq Clients /\ A \subseteq open /\ B \subseteq Clients /\ B \subseteq open
      /\ \A c \in A : client[c] = "name" /\ received[c] # <<>> /\ c \notin B
      /\ \A c \in B : client[c] = "time" /\ received[c] # <<>> /\ c \notin A
  BY DEF Answered
<1> HIDE DEF A, B
<1>6. /\ "dhcp" \notin A /\ "dhcp" \notin B /\ "dhcp" \in Owners
      /\ \A c \in Clients : c \in Owners /\ c # "dhcp"
      /\ \A o \in Owners \ Clients : o = "dhcp"
  BY <1>5, StackNames
<1>7. /\ \A o \in Owners : received'[o] = IF o \in A \cup B THEN <<>> ELSE received[o]
      /\ \A o \in Owners : send'[o] = IF o \in A THEN Append(send[o], TimeQuestion)
                                      ELSE IF o \in B THEN <<>> ELSE send[o]
      /\ \A c \in Clients : client'[c] = IF c \in A THEN "time"
                                         ELSE IF c \in B THEN "quit" ELSE client[c]
  BY <1>1 DEF Without
<1>8. \A c \in B : send[c] = <<>>
  BY <1>1, <1>5 DEF ListsSent
<1>9. ConnectionsOK'
  <2>1. received' \in [Owners -> Seq(Entries(Datagrams))]
    <3>1. received' = [o \in Owners |-> received'[o]]
      BY <1>1 DEF Without
    <3>2. ASSUME NEW o \in Owners
          PROVE  received'[o] \in Seq(Entries(Datagrams))
      <4>1. received'[o] = <<>> \/ received'[o] = received[o]
        BY <1>7
      <4>2. received[o] \in Seq(Entries(Datagrams))
        BY <1>1 DEF TypeOK
      <4>3. <<>> \in Seq(Entries(Datagrams))
        OBVIOUS
      <4> QED
        BY <4>1, <4>2, <4>3
    <3> QED
      BY <3>1, <3>2
  <2>2. send' \in [Owners -> Seq(Packets)]
    <3>1. send' = [o \in Owners |-> send'[o]]
      BY <1>1
    <3>2. ASSUME NEW o \in Owners
          PROVE  send'[o] \in Seq(Packets)
      <4>1. send[o] \in Seq(Packets) /\ Append(send[o], TimeQuestion) \in Seq(Packets)
        BY <1>1, StackValues, Appended DEF TypeOK
      <4>2. \/ send'[o] = <<>> \/ send'[o] = send[o]
            \/ send'[o] = Append(send[o], TimeQuestion)
        BY <1>7
      <4>3. <<>> \in Seq(Packets)
        OBVIOUS
      <4> QED
        BY <4>1, <4>2, <4>3
    <3> QED
      BY <3>1, <3>2
  <2>3. client' \in [Clients -> {"off", "name", "time", "quit"}]
    <3>1. client' = [c \in Clients |-> client'[c]]
      BY <1>1
    <3>2. \A c \in Clients : client'[c] \in {"off", "name", "time", "quit"}
      BY <1>1, <1>7 DEF TypeOK
    <3> QED
      BY <3>1, <3>2
  <2>4. \A o \in Owners \ open' : received'[o] = <<>> /\ send'[o] = <<>>
    BY <1>1, <1>5, <1>7 DEF TypeOK
  <2>5. ASSUME NEW c \in Clients
        PROVE  client'[c] \in {"name", "time"} <=> c \in open'
    <3>1. client[c] \in {"name", "time"} <=> c \in open
      BY <1>1 DEF TypeOK
    <3> QED
      BY <1>1, <1>5, <1>7, <3>1
  <2>6. open \subseteq Owners /\ dhcp \in BOOLEAN /\ (dhcp <=> "dhcp" \in open) /\ dhcp' = dhcp
    BY <1>1 DEF TypeOK
  <2>7. "dhcp" \in open' <=> "dhcp" \in open
    BY <1>1, <1>6
  <2>8. dhcp' \in BOOLEAN /\ (dhcp' <=> "dhcp" \in open') /\ open' \subseteq Owners
    BY <1>1, <2>6, <2>7
  <2>9. /\ ip' \in Addresses /\ router' \in Machines
        /\ taken' \in [Ports -> Seq(Entries(Datagrams))]
        /\ sent' \in [Owners -> Seq([to : Machines, packet : Packets])]
    BY <1>1 DEF TypeOK
  <2> QED
    BY <2>1, <2>2, <2>3, <2>4, <2>5, <2>8, <2>9 DEF ConnectionsOK
<1>10. \A o \in Owners : o \notin A => Given(o)' = Given(o)
  BY <1>1, <1>7, <1>8, GivenKept
<1>11. ASSUME NEW c \in A
       PROVE  Given(c)' = << NameQuestion, TimeQuestion >>
  <2>1. c \in Owners /\ c \in Clients
    BY <1>5, <1>6
  <2>2. Given(c) = << NameQuestion >>
    BY <1>5, <2>1 DEF StackInv, Inv, SentOnce
  <2>3. Sent(c) \o Append(send[c], TimeQuestion) = Append(Given(c), TimeQuestion)
    BY <1>1, <2>1, StackValues, GivenMore
  <2>4. Given(c)' = Sent(c) \o Append(send[c], TimeQuestion)
    BY <1>1, <1>7, <2>1 DEF Given, Sent
  <2>5. Append(<< NameQuestion >>, TimeQuestion) = << NameQuestion, TimeQuestion >>
    <3> DEFINE x == NameQuestion
               y == TimeQuestion
    <3> HIDE DEF x, y
    <3>1. <<x>> \in Seq({x, y}) /\ Len(<<x>>) = 1 /\ <<x>>[1] = x
      OBVIOUS
    <3>2. /\ Append(<<x>>, y) \in Seq({x, y}) /\ Len(Append(<<x>>, y)) = 2
          /\ Append(<<x>>, y)[1] = x /\ Append(<<x>>, y)[2] = y
      BY <3>1, Appended
    <3>3. /\ <<x, y>> \in Seq({x, y}) /\ Len(<<x, y>>) = 2
          /\ <<x, y>>[1] = x /\ <<x, y>>[2] = y
      OBVIOUS
    <3>4. \A m \in 1 .. 2 : Append(<<x>>, y)[m] = <<x, y>>[m]
      BY <3>2, <3>3
    <3>5. Append(<<x>>, y) = <<x, y>>
      BY <3>2, <3>3, <3>4, SeqEqual
    <3> QED
      BY <3>5 DEF x, y
  <2> QED
    BY <2>2, <2>3, <2>4, <2>5
<1>12. SentOnce'
  <2> SUFFICES ASSUME NEW c \in Clients
               PROVE  Given(c)' = CASE client'[c] = "off" -> <<>>
                                    [] client'[c] = "name" -> << NameQuestion >>
                                    [] client'[c] \in {"time", "quit"} -> << NameQuestion, TimeQuestion >>
    BY DEF SentOnce
  <2>1. CASE c \in A
    BY <1>7, <1>11, <2>1
  <2>2. CASE c \notin A
    <3>1. Given(c)' = Given(c)
      BY <1>6, <1>10, <2>2
    <3>2. Given(c) = CASE client[c] = "off" -> <<>>
                       [] client[c] = "name" -> << NameQuestion >>
                       [] client[c] \in {"time", "quit"} -> << NameQuestion, TimeQuestion >>
      BY DEF StackInv, Inv, SentOnce
    <3>3. client'[c] = client[c] \/ (client[c] = "time" /\ client'[c] = "quit")
      <4>1. CASE c \in B
        BY <1>5, <1>7, <2>2, <4>1
      <4>2. CASE c \notin B
        <5>1. client'[c] = IF c \in A THEN "time" ELSE IF c \in B THEN "quit" ELSE client[c]
          BY <1>7
        <5> QED
          BY <2>2, <4>2, <5>1
      <4> QED
        BY <4>1, <4>2
    <3> QED
      BY <3>1, <3>2, <3>3
  <2> QED
    BY <2>1, <2>2
<1>13. FirstAnswerDecides'
  BY <1>1, <1>6, <1>7, <1>10 DEF StackInv, FirstAnswerDecides
<1>14. OnePacketOneAnswer'
  <2> SUFFICES ASSUME NEW c \in Clients
               PROVE  /\ client'[c] = "time" => Len(taken[ClientPort]) > Len(received'[c])
                      /\ client'[c] = "quit" => Len(taken[ClientPort]) >= 2
    BY <1>1 DEF OnePacketOneAnswer
  <2>1. c \in Owners /\ Port(c) = ClientPort /\ ClientPort \in Ports
    BY StackNames
  <2>2. /\ Len(taken[ClientPort]) \in Nat /\ Len(received[c]) \in Nat
        /\ received[c] # <<>> => Len(received[c]) > 0
    <3>1. received[c] \in Seq(Entries(Datagrams)) /\ Len(received[c]) \in Nat
      BY <1>1, <2>1, ReceivedPackets
    <3>2. received[c] # <<>> => Len(received[c]) # 0
      BY <3>1, EmptySeq
    <3> QED
      BY <1>1, <2>1, <3>1, <3>2, TakenNumbers
  <2>3. /\ client[c] = "time" => Len(taken[ClientPort]) > Len(received[c])
        /\ client[c] = "quit" => Len(taken[ClientPort]) >= 2
    BY DEF StackInv, Inv, OnePacketOneAnswer
  <2>4. CASE c \in A
    <3>1. Len(taken[ClientPort]) - Len(received[c]) >= 0 /\ received[c] # <<>>
      BY <1>1, <1>5, <2>1, <2>4 DEF ReceivedInOrder
    <3>2. client'[c] = "time" /\ received'[c] = <<>> /\ Len(<<>>) = 0
      BY <1>7, <2>1, <2>4
    <3> QED
      BY <2>2, <3>1, <3>2
  <2>5. CASE c \in B
    <3>1. client[c] = "time" /\ received[c] # <<>> /\ client'[c] = "quit"
      BY <1>5, <1>7, <2>5
    <3> QED
      BY <2>2, <2>3, <3>1
  <2>6. CASE c \notin A \cup B
    BY <1>7, <2>1, <2>3, <2>6
  <2> QED
    BY <2>4, <2>5, <2>6
<1>15. ReceivedInOrder'
  <2>1. ASSUME NEW o \in open'
        PROVE  /\ Len(taken'[Port(o)]) - Len(received'[o]) >= 0
               /\ \A m \in DOMAIN received'[o] :
                    received'[o][m] = taken'[Port(o)][Len(taken'[Port(o)]) - Len(received'[o]) + m]
    <3>1. o \in open /\ o \in Owners /\ Port(o) \in Ports /\ taken' = taken
      BY <1>1, StackNames DEF TypeOK
    <3>2. CASE o \in A \cup B
      <4>1. received'[o] = <<>> /\ Len(taken[Port(o)]) \in Nat
        BY <1>1, <1>7, <3>1, <3>2, TakenNumbers
      <4>2. Len(received'[o]) = 0 /\ DOMAIN received'[o] = {}
        BY <4>1
      <4> QED
        BY <3>1, <4>1, <4>2
    <3>3. CASE o \notin A \cup B
      <4>1. received'[o] = received[o]
        BY <1>7, <3>1, <3>3
      <4> QED
        BY <1>1, <3>1, <4>1 DEF ReceivedInOrder
    <3> QED
      BY <3>2, <3>3
  <2>2. taken' = taken
    BY <1>1
  <2>3. \A p \in Ports : \A m, k \in DOMAIN taken[p] : m < k => taken[p][m].n < taken[p][k].n
    BY DEF StackInv, ReceivedInOrder
  <2> QED
    BY <2>1, <2>2, <2>3 DEF ReceivedInOrder
<1>16. ListsSent'
  BY <1>1 DEF ListsSent
<1> QED
  BY <1>2, <1>3, <1>4, <1>9, <1>12, <1>13, <1>14, <1>15, <1>16, TypeParts DEF StackInv, Inv

(* Every step of the main loop, of an interrupt and of a program.          *)
LEMMA StackNext ==
  ASSUME NetworkAssumption, StackInv, [Next]_vars
  PROVE  StackInv'
<1>1. ASSUME Arrive
      PROVE  StackInv'
  BY <1>1, ArrivePreserves
<1>2. ASSUME Ignore \/ HandleArp
      PROVE  StackInv'
  BY <1>2, PassOverPreserves
<1>3. ASSUME FramesDone \/ Reset
      PROVE  StackInv'
  BY <1>3, EndOfBatchPreserves
<1>4. ASSUME Lease
      PROVE  StackInv'
  BY <1>4, LeasePreserves
<1>5. ASSUME HandleUdp
      PROVE  StackInv'
  BY <1>5, HandleUdpPreserves
<1>6. ASSUME Send
      PROVE  StackInv'
  BY <1>6, SendPreserves
<1>7. ASSUME CloseDhcp
      PROVE  StackInv'
  BY <1>7, CloseDhcpPreserves
<1>8. ASSUME Update
      PROVE  StackInv'
  BY <1>8, UpdatePreserves
<1>9. ASSUME NEW c \in Clients, Start(c)
      PROVE  StackInv'
  BY <1>9, StartPreserves
<1>10. ASSUME UNCHANGED vars
       PROVE  StackInv'
  <2>1. UNCHANGED <<stack, client, taken, sent, batch, i, phase, arrived, replies>>
    BY <1>10 DEF vars, history
  <2>2. BatchOK' /\ Numbered' /\ ListsSent' /\ NoStrayReplies'
    BY <2>1 DEF stack, StackInv, Inv, TypeOK, BatchOK, Numbered, Waiting,
                ListsSent, NoStrayReplies
  <2> QED
    BY <2>1, <2>2, StackStays, TypeParts DEF StackInv, Inv
<1> QED
  BY <1>1, <1>2, <1>3, <1>4, <1>5, <1>6, <1>7, <1>8, <1>9, <1>10 DEF Next, MainLoop

(* For any frames, programs and batches that NetworkAssumption allows,     *)
(* whenever frames arrive.                                                 *)
LEMMA StackSafe == NetworkAssumption => (Spec => []StackInv)
<1> SUFFICES ASSUME NetworkAssumption PROVE Spec => []StackInv
  OBVIOUS
<1>1. Init => StackInv
  BY StackInit
<1>2. StackInv /\ [Next]_vars => StackInv'
  BY StackNext
<1> QED
  BY <1>1, <1>2, PTL DEF Spec

(* Every packet that a program's connection was given leaves the machine   *)
(* once and in order, although the main loop frees lists, closes           *)
(* connections and ends programs in between; packets go to whoever sent    *)
(* the first datagram taken; and a program takes one packet per answer.    *)
THEOREM NetworkStackInv == NetworkAssumption => (Spec => []Inv)
<1>1. StackInv => Inv
  BY DEF StackInv
<1> QED
  BY <1>1, StackSafe, PTL

(* Connections hold the latest datagrams for their ports in the order of   *)
(* arrival, without a gap or a copy, however interrupts cut the batches.   *)
THEOREM NetworkStackReceivedInOrder ==
  NetworkAssumption => (Spec => []ReceivedInOrder)
<1>1. StackInv => ReceivedInOrder
  BY DEF StackInv
<1> QED
  BY <1>1, StackSafe, PTL

(* The machine's address is the one in the first datagram for the DHCP     *)
(* port that offers one, requested once from its sender before the DHCP    *)
(* client's connection is closed.                                          *)
THEOREM NetworkStackFirstAnswerDecides ==
  NetworkAssumption => (Spec => []FirstAnswerDecides)
<1>1. StackInv => FirstAnswerDecides
  BY DEF StackInv
<1> QED
  BY <1>1, StackSafe, PTL

=============================================================================
