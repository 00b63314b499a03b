------------------------------ MODULE Rtl8169 ------------------------------
(***************************************************************************)
(* The receive ring of the rtl8169 and its interrupt handler               *)
(* (src/src/main.h). Each descriptor says whether the card owns it. The    *)
(* handler scans the whole ring from its first descriptor, hands on every  *)
(* frame it meets and gives the descriptor back, and then clears the       *)
(* causes it had read before the scan. The card runs alongside: a frame    *)
(* can arrive behind the scan or ahead of it.                              *)
(***************************************************************************)
EXTENDS Integers, Sequences

CONSTANTS
  R,          \* descriptors in the ring (256)
  MaxFrames   \* bound on the frames that arrive

Rtl8169Assumption ==
  R \in Nat /\ R > 1 /\ MaxFrames \in Nat

VARIABLES
  paced,    \* whether the network waits until an interrupt has been handled;
            \* it never changes
  ring,     \* the frame in each descriptor, 0 when the card owns it
  card,     \* the descriptor the card stores the next frame in
  causes,   \* register 0x3E: "received" (bit 0) and "unavailable" (bit 4)
  pc,       \* "idle" or "scan"
  status,   \* the causes that the handler has read
  i,        \* the handler's loop index
  arrived,  \* history: how many frames have arrived
  known,    \* history: how many of them had when the last scan began
  out       \* history: what was stored in ethernetPackets, in order

handlerVars == <<pc, status, i>>
vars == <<paced, ring, card, causes, handlerVars, arrived, known, out>>

Slots == 0..R-1
Causes == {"received", "unavailable"}
Mask == {"received"}

Init ==
  /\ paced \in BOOLEAN
  /\ ring = [k \in Slots |-> 0]
  /\ card = 0
  /\ causes = {}
  /\ pc = "idle" /\ status = {} /\ i = 0
  /\ arrived = 0 /\ known = 0 /\ out = <<>>

Pending == causes \cap Mask # {}

-----------------------------------------------------------------------------
(* The card.                                                               *)

Arrive ==
  /\ arrived < MaxFrames
  /\ paced => ~Pending /\ pc = "idle"
  /\ arrived' = arrived + 1
  /\ UNCHANGED <<paced, handlerVars, known, out>>

(* The descriptor with the end bit is the last one.                        *)
Receive ==
  /\ Arrive
  /\ ring[card] = 0
  /\ ring' = [ring EXCEPT ![card] = arrived']
  /\ card' = IF card = R - 1 THEN 0 ELSE card + 1
  /\ causes' = causes \cup {"received"}

Overrun ==
  /\ Arrive
  /\ ring[card] # 0
  /\ causes' = causes \cup {"unavailable"}
  /\ UNCHANGED <<paced, ring, card>>

-----------------------------------------------------------------------------
(* The interrupt handler.                                                  *)

Enter ==
  /\ pc = "idle" /\ Pending
  /\ status' = causes
  /\ pc' = "scan" /\ i' = 0
  /\ known' = arrived
  /\ UNCHANGED <<paced, ring, card, causes, arrived, out>>

(* One descriptor: a frame in it is handed on, and the card owns it again. *)
Scan ==
  /\ pc = "scan" /\ i < R
  /\ out' = IF ring[i] = 0 THEN out ELSE Append(out, ring[i])
  /\ ring' = [ring EXCEPT ![i] = 0]
  /\ i' = i + 1
  /\ UNCHANGED <<paced, card, causes, pc, status, arrived, known>>

(* Broken: the last descriptor is not scanned.                             *)
ReturnEarly ==
  /\ pc = "scan" /\ i = R - 1
  /\ causes' = causes \ status
  /\ pc' = "idle"
  /\ UNCHANGED <<paced, ring, card, status, i, arrived, known, out>>

(* Writes the status back, which clears the causes read before the scan,   *)
(* with those of the frames that have arrived since.                       *)
Return ==
  /\ pc = "scan" /\ i = R
  /\ causes' = causes \ status
  /\ pc' = "idle"
  /\ UNCHANGED <<paced, ring, card, status, i, arrived, known, out>>

Next == Receive \/ Overrun \/ Enter \/ Scan \/ Return

Spec == Init /\ [][Next]_vars

(* An interrupt that is pending is served and its handler returns.         *)
FairSpec == Spec /\ WF_vars(Enter \/ Scan \/ Return)

-----------------------------------------------------------------------------
Held == {ring[k] : k \in Slots} \ {0}

(* Types; the card's place is in the ring, and a handler that has read a   *)
(* status has read a cause it scans for.                                   *)
TypeOK ==
  /\ paced \in BOOLEAN
  /\ ring \in [Slots -> 0..arrived]
  /\ card \in Slots
  /\ causes \subseteq Causes /\ status \subseteq Causes
  /\ pc \in {"idle", "scan"} /\ i \in 0..R
  /\ arrived \in 0..MaxFrames /\ known \in 0..arrived
  /\ out \in Seq(1..arrived)
  /\ pc = "scan" => "received" \in status

(* Every frame that the card accepts is handed on exactly once or is still *)
(* in the ring, whatever arrives during a scan. The order of arrival is    *)
(* kept only when the network waits for each interrupt: otherwise a frame  *)
(* that has wrapped round the ring, or arrived ahead of the scan after     *)
(* another one behind it, is handed on before older ones.                  *)
Buffer == INSTANCE FrameBuffer WITH held <- Held, fifo <- paced, Faulty <- {}
FrameBufferSpec == Buffer!Spec

(* A scan leaves no frame behind that had arrived when it began: one that  *)
(* is overtaken, or whose interrupt is cleared with the scan's, is handed  *)
(* on by the next scan.                                                    *)
Swept == \A k \in Slots :
           ring[k] # 0 /\ (pc = "idle" \/ k < i) => ring[k] > known

(* No frame is in the ring twice. When the network waits for interrupts    *)
(* there is at most one, and none arrives that a scan does not know of.    *)
NoneTwice == \A k, l \in Slots : ring[k] # 0 /\ ring[k] = ring[l] => k = l
OneAtATime ==
  paced => /\ \A k, l \in Slots : ring[k] # 0 /\ ring[l] # 0 => k = l
           /\ pc = "scan" => known = arrived
           /\ pc = "idle" /\ ~Pending => \A k \in Slots : ring[k] = 0

(* A network that waits for each interrupt to be handled has every frame   *)
(* handed on without the help of a later one.                              *)
NothingWaits == \A f \in 1..MaxFrames : paced /\ f \in Held ~> f \notin Held
=============================================================================
