----------------------------- MODULE HeapProofs -----------------------------
(***************************************************************************)
(* Proofs about Heap for every set of callers' blocks, every set of sizes  *)
(* without 0, every pool address and every table room: the inductive       *)
(* invariant, the properties the runs check, and the refinement of         *)
(* MemoryPool. That no size is 0 is a hypothesis of each theorem and not   *)
(* an assumption of the module: the code does ask for 0 bytes.             *)
(***************************************************************************)
EXTENDS Heap, FiniteSetTheorems, WellFoundedInduction, TLAPS

USE HeapAssumption DEF Slots, EntryType

(* The written entries are finitely many, and so are the present ones.     *)
LEMMA LiveSlotsFinite ==
  ASSUME TypeOK
  PROVE  /\ IsFiniteSet(LiveSlots) /\ LiveSlots \subseteq Slots
         /\ IsFiniteSet(Passed) /\ Cardinality(Passed) \in Nat
         /\ Cardinality(LiveSlots) \in Nat
<1>1. written \in Nat /\ written <= K
  BY DEF TypeOK
<1>2. IsFiniteSet(1..written)
  BY <1>1, FS_Interval
<1>3. LiveSlots \subseteq 1..written /\ Passed \subseteq LiveSlots
  BY DEF LiveSlots, Passed
<1>4. IsFiniteSet(LiveSlots)
  BY <1>2, <1>3, FS_Subset
<1>5. IsFiniteSet(Passed)
  BY <1>3, <1>4, FS_Subset
<1> QED
  BY <1>1, <1>3, <1>4, <1>5, FS_CardinalityType

(* The first loop of allocate stops exactly when it has passed every live  *)
(* entry, and never needs an entry that was not written.                   *)
LEMMA SearchEnds ==
  ASSUME Inv, pc = "search"
  PROVE  /\ count = allocations => Passed = LiveSlots
         /\ count # allocations => cursor \in 1..written
<1> USE DEF Inv
<1>1. Passed \in SUBSET LiveSlots
  BY DEF Passed
<1>2. count = Cardinality(Passed) /\ allocations = Cardinality(LiveSlots)
  BY DEF SearchInv, TableInv
<1>3. count = allocations => Passed = LiveSlots
  BY <1>1, <1>2, LiveSlotsFinite, FS_Subset
<1>4. ASSUME cursor \notin 1..written
      PROVE  count = allocations
  <2>1. cursor > written
    BY <1>4 DEF TypeOK
  <2>2. Passed = LiveSlots
    BY <2>1 DEF Passed, LiveSlots, TypeOK
  <2> QED
    BY <2>2, <1>2
<1> QED
  BY <1>3, <1>4

(* The second loop of allocate stops at an entry that holds no live block, *)
(* within the room of the table.                                           *)
LEMMA SlotEnds ==
  ASSUME Inv, pc = "slot"
  PROVE  /\ count # allocations => cursor \in 1..written
         /\ count = allocations \/ ~Present(cursor) =>
              cursor \notin LiveSlots /\ cursor <= K
<1> USE DEF Inv
<1> DEFINE Prefix == 1..(cursor - 1)
<1>1. /\ cursor \in Nat \ {0} /\ cursor <= written + 1 /\ written \in Nat
      /\ written <= K /\ count = cursor - 1 /\ Prefix \in SUBSET LiveSlots
      /\ allocations < K /\ allocations = Cardinality(LiveSlots)
  BY DEF TypeOK, SlotInv, Asked, TableInv
<1>2. IsFiniteSet(Prefix) /\ Cardinality(Prefix) = cursor - 1
  BY <1>1, FS_Interval
<1>3. count = allocations => Prefix = LiveSlots
  <2> HIDE DEF Prefix
  <2> QED
    BY <1>1, <1>2, LiveSlotsFinite, FS_Subset
<1>4. ASSUME cursor = written + 1
      PROVE  Prefix = LiveSlots
  BY <1>1, <1>4 DEF LiveSlots
<1>5. cursor = written + 1 => count = allocations /\ cursor <= K
  BY <1>1, <1>2, <1>4
<1>6. cursor # written + 1 => cursor <= K
  BY <1>1
<1>7. count # allocations => cursor \in 1..written
  BY <1>1, <1>5
<1>8. count = allocations \/ ~Present(cursor) => cursor \notin LiveSlots
  BY <1>1, <1>3 DEF LiveSlots
<1> QED
  BY <1>5, <1>6, <1>7, <1>8

(* unallocate meets the caller's entry before the end of the table.        *)
LEMMA FreeEnds ==
  ASSUME Inv, pc = "free"
  PROVE  /\ cursor \in 1..written
         /\ Present(cursor) /\ table[cursor].start = value => cursor \in LiveSlots
<1> USE DEF Inv
<1>1. PICK k \in LiveSlots : Holds(k, client)
  BY DEF FreeInv, HeldInv
<1>2. table[k].start = value
  BY <1>1 DEF Holds, FreeInv
<1>3. k \notin Passed
  BY <1>2 DEF FreeInv
<1>4. k >= cursor /\ k \in 1..written
  BY <1>3 DEF Passed, LiveSlots, TypeOK
<1>5. cursor \in 1..written
  BY <1>4 DEF TypeOK
<1> QED
  BY <1>5 DEF LiveSlots

-----------------------------------------------------------------------------
LEMMA InitInv == Init => Inv
<1> SUFFICES ASSUME Init PROVE Inv
  OBVIOUS
<1>1. TypeOK
  BY DEF Init, TypeOK, Garbage
<1>2. LiveSlots = {}
  BY DEF Init, LiveSlots
<1>3. TableInv
  BY <1>2, FS_EmptySet DEF TableInv, Init
<1>4. HeldInv
  BY <1>2 DEF HeldInv, LiveDisjoint, Init
<1>5. SearchInv /\ SlotInv /\ FreeInv
  BY DEF SearchInv, SlotInv, FreeInv, Init
<1> QED
  BY <1>1, <1>3, <1>4, <1>5 DEF Inv

(* A step that leaves the table and the callers' blocks alone preserves    *)
(* what the invariant says of them.                                        *)
LEMMA TableKept ==
  ASSUME Inv, UNCHANGED <<table, allocations, written, held>>
  PROVE  LiveSlots' = LiveSlots /\ TableInv' /\ HeldInv'
<1>1. LiveSlots' = LiveSlots
  BY DEF LiveSlots, Present
<1> QED
  BY <1>1 DEF Inv, TableInv, HeldInv, Holds, LiveDisjoint, held

LEMMA AllocateInv ==
  ASSUME Inv, NEW b \in Blocks, NEW n \in Sizes, Allocate(b, n)
  PROVE  Inv'
<1> USE DEF Allocate
<1>1. TypeOK'
  BY DEF Inv, TypeOK, held
<1>2. LiveSlots' = LiveSlots /\ TableInv' /\ HeldInv'
  BY TableKept
<1>3. Passed' = {}
  BY <1>2 DEF Passed, LiveSlots, Inv, TypeOK
<1>4. Tried'
  BY DEF Tried
<1>5. cursor' <= written' + 1
  BY DEF Inv, TypeOK
<1>6. SearchInv'
  BY <1>3, <1>4, <1>5, FS_EmptySet DEF SearchInv, Asked, held
<1>7. SlotInv' /\ FreeInv'
  BY DEF SlotInv, FreeInv
<1> QED
  BY <1>1, <1>2, <1>6, <1>7 DEF Inv

LEMMA SkipAbsentInv ==
  ASSUME Inv, SkipAbsent
  PROVE  Inv'
<1> USE DEF SkipAbsent
<1>1. cursor \in 1..written
  BY SearchEnds
<1>2. TypeOK'
  BY <1>1 DEF Inv, TypeOK, held
<1>3. LiveSlots' = LiveSlots /\ TableInv' /\ HeldInv'
  BY TableKept
<1>4. Passed' = Passed
  BY <1>1, <1>3 DEF Passed, LiveSlots, Inv, TypeOK
<1>5. SearchInv'
  BY <1>1, <1>3, <1>4 DEF Inv, SearchInv, Asked, Tried, Clear, held, TypeOK
<1>6. SlotInv' /\ FreeInv'
  BY DEF SlotInv, FreeInv
<1> QED
  BY <1>2, <1>3, <1>5, <1>6 DEF Inv

LEMMA PassEntryInv ==
  ASSUME Inv, PassEntry
  PROVE  Inv'
<1> USE DEF PassEntry
<1>1. cursor \in 1..written /\ cursor \in LiveSlots
  BY SearchEnds DEF LiveSlots
<1>2. TypeOK /\ LiveSlots' = LiveSlots /\ TableInv' /\ HeldInv'
  BY TableKept DEF Inv
<1>3. Passed' = Passed \cup {cursor} /\ cursor \notin Passed
  BY <1>1, <1>2 DEF Passed, LiveSlots, TypeOK
<1>4. Cardinality(Passed') = count + 1
  BY <1>3, <1>2, LiveSlotsFinite, FS_AddElement DEF Inv, SearchInv
<1>5. count + 1 <= K
  <2>1. Cardinality(Passed') <= Cardinality(LiveSlots)
    BY <1>1, <1>2, <1>3, LiveSlotsFinite, FS_Subset DEF Passed
  <2> QED
    BY <2>1, <1>4 DEF Inv, TableInv, TypeOK
<1>6. TypeOK'
  BY <1>1, <1>2, <1>5 DEF TypeOK, held
<1>7. SearchInv'
  <2>1. Asked'
    BY <1>2 DEF Inv, SearchInv, Asked, Tried, Clear, held
  <2>2. cursor' <= written' + 1
    BY <1>1, <1>2 DEF TypeOK
  <2>3. \A k \in Passed' : Clear(value, amount, k)'
    BY <1>3 DEF Inv, SearchInv, Clear
  <2> QED
    BY <1>4, <2>1, <2>2, <2>3 DEF SearchInv
<1>8. SlotInv' /\ FreeInv'
  BY DEF SlotInv, FreeInv
<1> QED
  BY <1>2, <1>6, <1>7, <1>8 DEF Inv

(* Moving on to the end of the entry that was bumped into skips only       *)
(* addresses that overlap that entry.                                      *)
LEMMA BumpAndRestartInv ==
  ASSUME Inv, BumpAndRestart
  PROVE  Inv'
<1> USE DEF BumpAndRestart
<1>1. cursor \in 1..written /\ cursor \in LiveSlots
  BY SearchEnds DEF LiveSlots
<1>2. TypeOK /\ LiveSlots' = LiveSlots /\ TableInv' /\ HeldInv'
  BY TableKept DEF Inv
<1>3. /\ table[cursor].start \in Nat /\ table[cursor].end \in Nat
      /\ value \in Nat /\ amount \in Nat /\ Base \in Nat
  BY <1>1, <1>2 DEF TypeOK
<1>4. TypeOK'
  BY <1>2, <1>3 DEF TypeOK, held
<1>5. Passed' = {}
  BY <1>2 DEF Passed, LiveSlots, TypeOK
<1>6. Tried'
  <2>1. Tried
    BY DEF Inv, SearchInv, Asked
  <2>2. value' >= Base
    BY <1>1, <1>3 DEF Inv, TableInv
  <2>3. ASSUME NEW a \in Base..(value' - 1)
        PROVE  \E k \in LiveSlots : ~Clear(a, amount, k)
    <3>1. CASE a < value
      BY <2>1, <2>3, <3>1, <1>3 DEF Tried
    <3>2. CASE a >= value
      <4>1. ~Clear(a, amount, cursor)
        BY <2>3, <3>2, <1>3 DEF Clear
      <4> QED
        BY <4>1, <1>1
    <3> QED
      BY <3>1, <3>2, <1>3
  <2> QED
    BY <2>2, <2>3, <1>1, <1>2 DEF Tried, Clear
<1>7. SearchInv'
  <2>1. cursor' <= written' + 1
    BY <1>2 DEF TypeOK
  <2> QED
    BY <1>5, <1>6, <2>1, FS_EmptySet DEF Inv, SearchInv, Asked, held
<1>8. SlotInv' /\ FreeInv'
  BY DEF SlotInv, FreeInv
<1> QED
  BY <1>2, <1>4, <1>7, <1>8 DEF Inv

LEMMA SearchDoneInv ==
  ASSUME Inv, SearchDone
  PROVE  Inv'
<1> USE DEF SearchDone
<1>1. Passed = LiveSlots
  BY SearchEnds
<1>2. TypeOK /\ LiveSlots' = LiveSlots /\ TableInv' /\ HeldInv'
  BY TableKept DEF Inv
<1>3. TypeOK'
  BY <1>2 DEF TypeOK, held
<1>4. SlotInv'
  <2>1. Asked'
    BY <1>2 DEF Inv, SearchInv, Asked, Tried, Clear, held
  <2>2. \A k \in LiveSlots' : Clear(value, amount, k)'
    BY <1>1, <1>2 DEF Inv, SearchInv, Clear
  <2>3. cursor' <= written' + 1 /\ count' = cursor' - 1 /\ 1..(cursor' - 1) = {}
    BY <1>2 DEF TypeOK
  <2> QED
    BY <2>1, <2>2, <2>3 DEF SlotInv
<1>5. SearchInv' /\ FreeInv'
  BY DEF SearchInv, FreeInv
<1> QED
  BY <1>2, <1>3, <1>4, <1>5 DEF Inv

LEMMA NextSlotInv ==
  ASSUME Inv, NextSlot
  PROVE  Inv'
<1> USE DEF NextSlot
<1>1. cursor \in 1..written /\ cursor \in LiveSlots
  BY SlotEnds DEF LiveSlots
<1>2. TypeOK /\ LiveSlots' = LiveSlots /\ TableInv' /\ HeldInv'
  BY TableKept DEF Inv
<1>3. SlotInv'
  <2>1. Asked'
    BY <1>2 DEF Inv, SlotInv, Asked, Tried, Clear, held
  <2>2. 1..(cursor' - 1) \subseteq LiveSlots /\ count' = cursor' - 1 /\ cursor' <= written' + 1
    BY <1>1, <1>2 DEF Inv, SlotInv, TypeOK
  <2>3. \A k \in LiveSlots' : Clear(value, amount, k)'
    BY <1>2 DEF Inv, SlotInv, Clear
  <2> QED
    BY <1>2, <2>1, <2>2, <2>3 DEF SlotInv
<1>4. TypeOK'
  <2>1. cursor + 1 <= K /\ count + 1 <= K
    <3> DEFINE Prefix == 1..cursor
    <3>1. Prefix \in SUBSET LiveSlots /\ cursor \in Nat
      BY <1>3, <1>2, <1>1 DEF SlotInv, TypeOK
    <3>2. Cardinality(Prefix) = cursor
      BY <3>1, <1>1, FS_Interval
    <3>3. cursor <= allocations
      <4> HIDE DEF Prefix
      <4> QED
        BY <3>1, <3>2, <1>2, LiveSlotsFinite, FS_Subset DEF Inv, TableInv
    <3> QED
      BY <3>3, <1>2 DEF Inv, SlotInv, Asked, TypeOK
  <2> QED
    BY <1>1, <1>2, <2>1 DEF TypeOK, held
<1>5. SearchInv' /\ FreeInv'
  BY DEF SearchInv, FreeInv
<1> QED
  BY <1>2, <1>3, <1>4, <1>5 DEF Inv

(* The entry written is a new live one, clear of every other.              *)
LEMMA WriteEntryInv ==
  ASSUME Inv, 0 \notin Sizes, WriteEntry
  PROVE  Inv'
<1> USE DEF WriteEntry, Return
<1>1. cursor \notin LiveSlots /\ cursor <= K
  BY SlotEnds
<1>2. TypeOK /\ Asked /\ cursor \in 1..(written + 1)
  BY DEF Inv, SlotInv, TypeOK
<1>3. amount \in Nat \ {0} /\ value \in Nat /\ value >= Base /\ client \in Blocks
      /\ client \notin live /\ Base \in Nat /\ written \in 0..K /\ cursor \in Slots
  BY <1>1, <1>2 DEF TypeOK, Asked, Tried
<1>4. LiveSlots' = LiveSlots \cup {cursor}
  <2>1. /\ table'[cursor].present
        /\ \A k \in Slots : k # cursor => table'[k] = table[k]
    BY <1>2, <1>3 DEF TypeOK
  <2>2. written' = (IF cursor > written THEN cursor ELSE written) /\ 1..written \subseteq Slots
    BY <1>3
  <2>3. 1..written' = 1..written \cup {cursor} /\ 1..written' \subseteq Slots
    BY <1>2, <1>3, <2>2
  <2> QED
    BY <2>1, <2>3 DEF LiveSlots, Present
<1>5. /\ table'[cursor].start = value /\ table'[cursor].end = value + amount
      /\ \A k \in Slots : k # cursor => table'[k] = table[k]
  BY <1>2, <1>3 DEF TypeOK
<1>6. LiveSlots \subseteq Slots
  BY <1>2, LiveSlotsFinite
<1>7. \A k \in LiveSlots : Clear(value, amount, k)
  BY DEF Inv, SlotInv
<1>8. TypeOK'
  <2>1. [present |-> TRUE, start |-> value, end |-> value + amount] \in EntryType
    BY <1>3
  <2>2. table' \in [Slots -> EntryType]
    BY <2>1, <1>2, <1>3 DEF TypeOK
  <2>3. allocations' \in 0..K
    BY <1>2 DEF TypeOK, Asked
  <2> QED
    BY <1>2, <1>3, <2>2, <2>3 DEF TypeOK
<1>9. TableInv'
  <2>1. allocations' = Cardinality(LiveSlots')
    BY <1>1, <1>2, <1>4, LiveSlotsFinite, FS_AddElement DEF Inv, TableInv
  <2>2. \A k \in LiveSlots' : Base <= table'[k].start /\ table'[k].start < table'[k].end
    BY <1>3, <1>4, <1>5, <1>6 DEF Inv, TableInv
  <2>3. ASSUME NEW k \in LiveSlots
        PROVE  value + amount <= table[k].start \/ table[k].end <= value
    BY <1>7, <1>3, <1>6, <1>2 DEF Clear, TypeOK
  <2>4. \A j, k \in LiveSlots' :
          j # k => table'[j].end <= table'[k].start \/ table'[k].end <= table'[j].start
    BY <2>3, <1>4, <1>5, <1>6, <1>1 DEF Inv, TableInv
  <2> QED
    BY <2>1, <2>2, <2>4 DEF TableInv
<1>10. HeldInv'
  <2>1. /\ ptr'[client] = value /\ size'[client] = amount
        /\ \A b \in live : ptr'[b] = ptr[b] /\ size'[b] = size[b]
    BY <1>2, <1>3 DEF TypeOK
  <2>2. \A b \in live' : \E k \in LiveSlots' : Holds(k, b)'
    <3>1. ASSUME NEW b \in live
          PROVE  \E k \in LiveSlots' : Holds(k, b)'
      BY <2>1, <1>1, <1>4, <1>5, <1>6 DEF Inv, HeldInv, Holds
    <3>2. table'[cursor].start = ptr'[client] /\ table'[cursor].end = ptr'[client] + size'[client]
      BY <2>1, <1>5
    <3> QED
      BY <3>1, <3>2, <1>4 DEF Holds
  <2>3. \A k \in LiveSlots' : \E b \in live' : Holds(k, b)'
    <3>1. ASSUME NEW k \in LiveSlots
          PROVE  \E b \in live' : Holds(k, b)'
      BY <2>1, <1>1, <1>5, <1>6 DEF Inv, HeldInv, Holds
    <3>2. table'[cursor].start = ptr'[client] /\ table'[cursor].end = ptr'[client] + size'[client]
      BY <2>1, <1>5
    <3> QED
      BY <3>1, <3>2, <1>4 DEF Holds
  <2>4. \A b \in live' : size'[b] > 0
    BY <2>1, <1>3 DEF Inv, HeldInv
  <2>5. ASSUME NEW b \in live
        PROVE  value + amount <= ptr[b] \/ ptr[b] + size[b] <= value
    <3>1. PICK k \in LiveSlots : Holds(k, b)
      BY DEF Inv, HeldInv
    <3> QED
      BY <3>1, <1>7, <1>3, <1>2 DEF Clear, Holds, TypeOK
  <2>6. LiveDisjoint'
    BY <2>1, <2>5 DEF Inv, HeldInv, LiveDisjoint
  <2> QED
    BY <2>2, <2>3, <2>4, <2>6 DEF HeldInv
<1>11. SearchInv' /\ SlotInv' /\ FreeInv'
  BY DEF SearchInv, SlotInv, FreeInv
<1> QED
  BY <1>8, <1>9, <1>10, <1>11 DEF Inv

LEMMA UnallocateInv ==
  ASSUME Inv, NEW b \in Blocks, Unallocate(b)
  PROVE  Inv'
<1> USE DEF Unallocate
<1>1. TypeOK /\ LiveSlots' = LiveSlots /\ TableInv' /\ HeldInv'
  BY TableKept DEF Inv
<1>2. TypeOK'
  BY <1>1 DEF TypeOK, held
<1>3. FreeInv'
  BY <1>1 DEF FreeInv, Passed, LiveSlots, TypeOK, held
<1>4. SearchInv' /\ SlotInv'
  BY DEF SearchInv, SlotInv
<1> QED
  BY <1>1, <1>2, <1>3, <1>4 DEF Inv

LEMMA NextEntryInv ==
  ASSUME Inv, NextEntry
  PROVE  Inv'
<1> USE DEF NextEntry
<1>1. TypeOK /\ LiveSlots' = LiveSlots /\ TableInv' /\ HeldInv'
  BY TableKept DEF Inv
<1>2. cursor \in 1..written
  BY FreeEnds
<1>3. FreeInv'
  <2>1. LiveSlots \subseteq Nat /\ cursor \in Nat
    BY <1>1, LiveSlotsFinite DEF TypeOK
  <2>2. \A k \in Passed' : k \in Passed \/ k = cursor
    BY <1>1, <2>1 DEF Passed
  <2>3. \A k \in Passed' : table[k].start # value
    BY <2>2, <1>1 DEF Inv, FreeInv, Passed, LiveSlots
  <2> QED
    BY <1>1, <2>3 DEF Inv, FreeInv, held
<1>4. cursor + 1 <= K
  <2>1. PICK k \in LiveSlots : Holds(k, client)
    BY DEF Inv, FreeInv, HeldInv
  <2>2. k \notin Passed' /\ k \in 1..written
    BY <2>1, <1>1, <1>3 DEF FreeInv, Holds, held, LiveSlots
  <2>3. k >= cursor + 1
    BY <2>2, <1>1, <1>2 DEF Passed, TypeOK
  <2> QED
    BY <2>2, <2>3, <1>1, <1>2 DEF TypeOK
<1>5. TypeOK'
  BY <1>1, <1>2, <1>4 DEF TypeOK, held
<1>6. SearchInv' /\ SlotInv'
  BY DEF SearchInv, SlotInv
<1> QED
  BY <1>1, <1>3, <1>5, <1>6 DEF Inv

(* The entry freed is the caller's: no other live entry starts there.      *)
LEMMA FreeEntryInv ==
  ASSUME Inv, FreeEntry
  PROVE  Inv'
<1> USE DEF FreeEntry, Return
<1>1. TypeOK /\ client \in live /\ live \subseteq Blocks /\ value = ptr[client]
  BY DEF Inv, FreeInv, TypeOK
<1>2. cursor \in LiveSlots
  BY FreeEnds
<1>3. LiveSlots \subseteq Slots
  BY <1>1, LiveSlotsFinite
<1>a. \A k \in LiveSlots :
        table[k].start \in Nat /\ table[k].end \in Nat /\ table[k].start < table[k].end
  BY <1>1, <1>3 DEF Inv, TableInv, TypeOK
<1>b. \A b \in live : ptr[b] \in Nat /\ size[b] \in Nat /\ size[b] > 0
  BY <1>1 DEF Inv, HeldInv, TypeOK
<1>4. Holds(cursor, client)
  <2>1. PICK k \in LiveSlots : Holds(k, client)
    BY <1>1 DEF Inv, HeldInv
  <2>2. table[k].start = table[cursor].start
    BY <2>1, <1>1 DEF Holds
  <2>3. k = cursor
    BY <2>2, <1>2, <1>a DEF Inv, TableInv
  <2> QED
    BY <2>1, <2>3
<1>5. /\ table' \in [Slots -> EntryType]
      /\ \A k \in Slots : k # cursor => table'[k] = table[k]
      /\ ~table'[cursor].present
  BY <1>1, <1>2, <1>3 DEF TypeOK
<1>6. LiveSlots' = LiveSlots \ {cursor}
  BY <1>1, <1>3, <1>5 DEF LiveSlots, Present, TypeOK
<1>7. Cardinality(LiveSlots') = allocations - 1 /\ Cardinality(LiveSlots') \in Nat
  <2>1. IsFiniteSet(LiveSlots)
    BY <1>1, LiveSlotsFinite
  <2>2. IsFiniteSet(LiveSlots')
    BY <2>1, <1>6, FS_RemoveElement
  <2> QED
    BY <2>1, <2>2, <1>2, <1>6, FS_RemoveElement, FS_CardinalityType DEF Inv, TableInv
<1>8. TypeOK'
  BY <1>1, <1>5, <1>7 DEF TypeOK
<1>9. TableInv'
  BY <1>3, <1>5, <1>6, <1>7 DEF Inv, TableInv
<1>10. HeldInv'
  <2>1. \A b \in live' : ptr'[b] = ptr[b] /\ size'[b] = size[b] /\ b # client /\ b \in live
    BY <1>1 DEF TypeOK
  <2>2. ASSUME NEW b \in live, b # client
        PROVE  ~Holds(cursor, b)
    BY <2>2, <1>1, <1>4, <1>b DEF Inv, HeldInv, LiveDisjoint, Holds
  <2>3. \A b \in live' : \E k \in LiveSlots' : Holds(k, b)'
    BY <2>1, <2>2, <1>3, <1>5, <1>6 DEF Inv, HeldInv, Holds
  <2>4. ASSUME NEW k \in LiveSlots'
        PROVE  \E b \in live' : Holds(k, b)'
    <3>1. PICK b \in live : Holds(k, b)
      BY <1>6 DEF Inv, HeldInv
    <3>2. b # client
      BY <3>1, <1>1, <1>2, <1>3, <1>4, <1>6 DEF Inv, TableInv, Holds, TypeOK
    <3> QED
      BY <3>1, <3>2, <2>1, <1>3, <1>5, <1>6 DEF Holds
  <2>5. \A b \in live' : size'[b] > 0
    BY <2>1 DEF Inv, HeldInv
  <2>6. LiveDisjoint'
    BY <2>1 DEF Inv, HeldInv, LiveDisjoint
  <2> QED
    BY <2>3, <2>4, <2>5, <2>6 DEF HeldInv
<1>11. SearchInv' /\ SlotInv' /\ FreeInv'
  BY DEF SearchInv, SlotInv, FreeInv
<1> QED
  BY <1>8, <1>9, <1>10, <1>11 DEF Inv

-----------------------------------------------------------------------------
LEMMA NextInv == 0 \notin Sizes /\ Inv /\ [Next]_vars => Inv'
<1> SUFFICES ASSUME 0 \notin Sizes, Inv, [Next]_vars PROVE Inv'
  OBVIOUS
<1>1. CASE Advance
  BY <1>1, SkipAbsentInv, PassEntryInv, BumpAndRestartInv, SearchDoneInv,
     NextSlotInv, WriteEntryInv, NextEntryInv, FreeEntryInv DEF Advance
<1>2. CASE \E b \in Blocks : Unallocate(b) \/ \E n \in Sizes : Allocate(b, n)
  BY <1>2, AllocateInv, UnallocateInv
<1>3. CASE UNCHANGED vars
  <2>1. LiveSlots' = LiveSlots /\ TableInv' /\ HeldInv'
    BY <1>3, TableKept DEF vars
  <2>2. Passed' = Passed
    BY <1>3, <2>1 DEF Passed, vars, op
  <2> QED
    BY <1>3, <2>1, <2>2
    DEF Inv, TypeOK, SearchInv, SlotInv, FreeInv, Asked, Tried, Clear, vars, op, held
<1> QED
  BY <1>1, <1>2, <1>3 DEF Next

(* The table holds exactly the callers' blocks in every reachable state.   *)
THEOREM SpecInv == ASSUME 0 \notin Sizes PROVE Spec => []Inv
BY InitInv, NextInv, PTL DEF Spec

LEMMA InvSafe == Inv => TypeOK /\ LiveDisjoint /\ NoWildRead
<1> SUFFICES ASSUME Inv PROVE TypeOK /\ LiveDisjoint /\ NoWildRead
  OBVIOUS
<1>1. NoWildRead
  <2>1. \A k \in 1..written : k <= written
    BY DEF Inv, TypeOK
  <2>2. pc = "search" /\ count # allocations => cursor \in 1..written
    BY SearchEnds
  <2>3. pc = "slot" /\ count # allocations => cursor \in 1..written
    BY SlotEnds
  <2>4. pc = "free" => cursor \in 1..written
    BY FreeEnds
  <2> QED
    BY <2>1, <2>2, <2>3, <2>4 DEF NoWildRead
<1> QED
  BY <1>1 DEF Inv, HeldInv

(* The variables keep the values of their C counterparts.                  *)
THEOREM SpecTypeOK == ASSUME 0 \notin Sizes PROVE Spec => []TypeOK
BY SpecInv, InvSafe, PTL

(* No two blocks handed out ever overlap.                                  *)
THEOREM SpecLiveDisjoint == ASSUME 0 \notin Sizes PROVE Spec => []LiveDisjoint
BY SpecInv, InvSafe, PTL

(* No loop of the allocator relies on an entry that was never written.     *)
THEOREM SpecNoWildRead == ASSUME 0 \notin Sizes PROVE Spec => []NoWildRead
BY SpecInv, InvSafe, PTL

-----------------------------------------------------------------------------
(* Sums over a finite set, as MapThenSumSet computes them.                 *)
Pick(s) == CHOOSE x \in s : TRUE

(* g[s] is the sum of w over s, for every subset s of S.                   *)
SumsOf(g, w, S) ==
  g = [s \in SUBSET S |-> IF s = {} THEN 0 ELSE w[Pick(s)] + g[s \ {Pick(s)}]]

LEMMA PickIn == ASSUME NEW s, s # {} PROVE Pick(s) \in s
BY DEF Pick

(* Of some subsets of a finite set one has no other of them within it.     *)
LEMMA SmallestSubset ==
  ASSUME NEW S, IsFiniteSet(S), NEW Bad, Bad \subseteq SUBSET S, Bad # {}
  PROVE  \E s \in Bad : \A t \in Bad : t \subseteq s => t = s
<1> DEFINE R == StrictSubsetOrdering(S)
<1>1. IsWellFoundedOn(R, FiniteSubsetsOf(S)) /\ FiniteSubsetsOf(S) = SUBSET S
  BY FS_StrictSubsetOrderingWellFounded, FS_FiniteSubsetsOfFinite
<1>2. \A s, t \in SUBSET S : <<t, s>> \in R <=> t \subseteq s /\ t # s
  BY DEF StrictSubsetOrdering
<1> HIDE DEF R
<1>3. PICK s \in Bad : \A t \in Bad : ~(<<t, s>> \in R)
  BY <1>1, WFMin
<1>4. ASSUME NEW t \in Bad, t \subseteq s PROVE t = s
  <2>1. s \in SUBSET S /\ t \in SUBSET S
    OBVIOUS
  <2>2. ~(<<t, s>> \in R)
    BY <1>3
  <2> QED
    BY <1>2, <1>4, <2>1, <2>2
<1> QED
  BY <1>4

(* There are such sums.                                                    *)
LEMMA SumsExist ==
  ASSUME NEW S, IsFiniteSet(S), NEW w \in [S -> Nat]
  PROVE  \E g \in [SUBSET S -> Nat] : SumsOf(g, w, S)
<1> DEFINE Step(g, r) == IF r = {} THEN 0 ELSE w[Pick(r)] + g[r \ {Pick(r)}]
           Upto(g, n) == \A r \in SUBSET S : Cardinality(r) <= n => g[r] = Step(g, r)
           Bad == {n \in Nat : ~\E g \in [SUBSET S -> Nat] : Upto(g, n)}
<1>1. ASSUME NEW r \in SUBSET S
      PROVE  /\ IsFiniteSet(r) /\ Cardinality(r) \in Nat
             /\ Cardinality(r) <= Cardinality(S)
             /\ Cardinality(r) = 0 <=> r = {}
  BY FS_Subset, FS_CardinalityType, FS_EmptySet
<1>a. ASSUME NEW r \in SUBSET S, r # {}
      PROVE  /\ Pick(r) \in S /\ r \ {Pick(r)} \in SUBSET S
             /\ Cardinality(r \ {Pick(r)}) = Cardinality(r) - 1
  <2>1. Pick(r) \in r
    BY <1>a, PickIn
  <2>2. Cardinality(r \ {Pick(r)}) = Cardinality(r) - 1
    BY <1>1, <2>1, FS_RemoveElement
  <2> QED
    BY <2>1, <2>2
<1>2. ASSUME NEW g \in [SUBSET S -> Nat], NEW r \in SUBSET S PROVE Step(g, r) \in Nat
  <2>1. CASE r = {}
    BY <2>1
  <2>2. CASE r # {}
    <3>1. w[Pick(r)] \in Nat /\ g[r \ {Pick(r)}] \in Nat
      BY <1>a, <2>2
    <3> QED
      BY <2>2, <3>1
  <2> QED
    BY <2>1, <2>2
<1>3. Bad = {}
  <2> SUFFICES ASSUME Bad # {} PROVE FALSE
    OBVIOUS
  <2> DEFINE Below == OpToRel(<, Nat)
  <2>1. IsWellFoundedOn(Below, Nat)
    BY NatLessThanWellFounded, Zenon
  <2>2. \A m, n \in Nat : <<n, m>> \in Below <=> n < m
    BY DEF OpToRel
  <2> HIDE DEF Below
  <2>3. Bad \subseteq Nat
    OBVIOUS
  <2>4. PICK m \in Bad : \A n \in Bad : ~(<<n, m>> \in Below)
    <3> HIDE DEF Bad
    <3> QED
      BY <2>1, <2>3, WFMin
  <2>5. m \in Nat /\ \A n \in Nat : n < m => \E g \in [SUBSET S -> Nat] : Upto(g, n)
    <3> HIDE DEF Upto
    <3> QED
      BY <2>2, <2>4
  <2>6. \E g \in [SUBSET S -> Nat] : Upto(g, m)
    <3>1. CASE m = 0
      <4> DEFINE g == [r \in SUBSET S |-> 0]
      <4>1. g \in [SUBSET S -> Nat]
        OBVIOUS
      <4>2. \A r \in SUBSET S : Cardinality(r) <= 0 => r = {}
        BY <1>1
      <4>3. Upto(g, m)
        BY <3>1, <4>2
      <4> QED
        BY <4>1, <4>3
    <3>2. CASE m # 0
      <4>1. m - 1 \in Nat /\ m - 1 < m
        BY <2>5, <3>2
      <4>2. PICK f \in [SUBSET S -> Nat] : Upto(f, m - 1)
        <5> HIDE DEF Upto
        <5> QED
          BY <2>5, <4>1
      <4> DEFINE g == [r \in SUBSET S |-> Step(f, r)]
      <4>3. g \in [SUBSET S -> Nat]
        <5> HIDE DEF Step
        <5> QED
          BY <1>2
      <4>4. ASSUME NEW r \in SUBSET S, Cardinality(r) <= m PROVE g[r] = Step(g, r)
        <5>1. g[r] = Step(f, r)
          OBVIOUS
        <5>2. CASE r = {}
          BY <5>1, <5>2
        <5>3. CASE r # {}
          <6> DEFINE t == r \ {Pick(r)}
          <6>1. t \in SUBSET S /\ Cardinality(t) <= m - 1
            BY <1>1, <1>a, <2>5, <4>1, <4>4, <5>3
          <6>2. f[t] = Step(f, t)
            BY <4>2, <6>1
          <6>3. g[t] = f[t]
            BY <6>1, <6>2
          <6> QED
            BY <5>1, <5>3, <6>3
        <5> QED
          BY <5>2, <5>3
      <4>5. Upto(g, m)
        BY <4>4
      <4> QED
        BY <4>3, <4>5
    <3> QED
      BY <3>1, <3>2
  <2> QED
    <3> HIDE DEF Upto
    <3> QED
      BY <2>4, <2>6
<1>4. Cardinality(S) \in Nat
  BY FS_CardinalityType
<1>5. PICK g \in [SUBSET S -> Nat] : Upto(g, Cardinality(S))
  <2> HIDE DEF Upto
  <2> QED
    BY <1>3, <1>4
<1>6. \A r \in SUBSET S : g[r] = Step(g, r)
  BY <1>1, <1>5
<1>7. SumsOf(g, w, S)
  <2>1. g = [r \in SUBSET S |-> g[r]]
    OBVIOUS
  <2> QED
    BY <1>6, <2>1 DEF SumsOf
<1> QED
  BY <1>7

(* What a sum is when the set is empty and when it is not, and that it is  *)
(* a number.                                                               *)
SumsAre(g, w, S) ==
  /\ g[{}] = 0
  /\ \A s \in SUBSET S : g[s] \in Nat
  /\ \A s \in SUBSET S : s # {} => \E p \in s : g[s] = w[p] + g[s \ {p}]

LEMMA SumsAreSums ==
  ASSUME NEW S, IsFiniteSet(S), NEW w \in [S -> Nat], NEW g, SumsOf(g, w, S)
  PROVE  SumsAre(g, w, S)
<1>1. \A s \in SUBSET S : g[s] = IF s = {} THEN 0 ELSE w[Pick(s)] + g[s \ {Pick(s)}]
  BY Zenon DEF SumsOf
<1>2. g[{}] = 0
  BY <1>1
<1> DEFINE Bad == {s \in SUBSET S : g[s] \notin Nat}
<1>3. ASSUME NEW s \in Bad PROVE \E t \in Bad : t \subseteq s /\ t # s
  <2>1. s \in SUBSET S /\ s # {}
    BY <1>2
  <2>2. Pick(s) \in s /\ g[s] = w[Pick(s)] + g[s \ {Pick(s)}]
    BY <1>1, <2>1, PickIn
  <2>3. w[Pick(s)] \in Nat
    BY <2>1, <2>2
  <2>4. s \ {Pick(s)} \in Bad
    BY <2>1, <2>2, <2>3
  <2> QED
    BY <2>2, <2>4
<1>4. Bad = {}
  <2>1. Bad \subseteq SUBSET S
    OBVIOUS
  <2> HIDE DEF Bad
  <2> QED
    BY <1>3, <2>1, SmallestSubset
<1>5. \A s \in SUBSET S : s # {} => \E p \in s : g[s] = w[p] + g[s \ {p}]
  BY <1>1, PickIn
<1> QED
  BY <1>2, <1>4, <1>5 DEF SumsAre

(* A sum may begin with any element.                                       *)
Adds(g, w, S) ==
  g[{}] = 0 /\ \A s \in SUBSET S : \A y \in s : g[s] = w[y] + g[s \ {y}]

LEMMA AnyFirst ==
  ASSUME NEW S, IsFiniteSet(S), NEW w \in [S -> Nat], NEW g, SumsOf(g, w, S)
  PROVE  Adds(g, w, S)
<1> DEFINE Bad == {s \in SUBSET S : \E y \in s : g[s] # w[y] + g[s \ {y}]}
<1>1. SumsAre(g, w, S)
  BY SumsAreSums
<1>2. ASSUME NEW s \in Bad PROVE \E t \in Bad : t \subseteq s /\ t # s
  <2>1. PICK y \in s : g[s] # w[y] + g[s \ {y}]
    OBVIOUS
  <2>2. s \in SUBSET S /\ s # {}
    BY <2>1
  <2>3. PICK p \in s : g[s] = w[p] + g[s \ {p}]
    BY <1>1, <2>2 DEF SumsAre
  <2> DEFINE t == s \ {p}
             r == s \ {y}
             u == t \ {y}
  <2>4. g[s] = w[p] + g[t] /\ p # y
    BY <2>3, <2>1, <2>2
  <2>5. /\ t \in SUBSET S /\ r \in SUBSET S /\ u \in SUBSET S
        /\ y \in t /\ p \in r /\ u = r \ {p}
        /\ t \subseteq s /\ t # s /\ r \subseteq s /\ r # s
    BY <2>1, <2>2, <2>4
  <2>6. w[p] \in Nat /\ w[y] \in Nat /\ g[u] \in Nat
    BY <1>1, <2>1, <2>2, <2>5 DEF SumsAre
  <2> HIDE DEF t, r, u
  <2>7. ~(g[t] = w[y] + g[u] /\ g[r] = w[p] + g[u])
    BY <2>1, <2>4, <2>6 DEF r
  <2>8. CASE g[t] # w[y] + g[u]
    <3>1. t \in Bad
      BY <2>5, <2>8 DEF u
    <3> QED
      BY <2>5, <3>1
  <2>9. CASE g[r] # w[p] + g[u]
    <3>1. r \in Bad
      BY <2>5, <2>9
    <3> QED
      BY <2>5, <3>1
  <2> QED
    BY <2>7, <2>8, <2>9
<1>3. Bad = {}
  <2>1. Bad \subseteq SUBSET S
    OBVIOUS
  <2> HIDE DEF Bad
  <2> QED
    BY <1>2, <2>1, SmallestSubset
<1>4. g[{}] = 0
  BY <1>1 DEF SumsAre
<1> QED
  BY <1>3, <1>4 DEF Adds

(* v has the numbers that w has, under other names.                        *)
Renamed(S, w, T, v) ==
  \E f \in [S -> T] :
    /\ \A x, y \in S : f[x] = f[y] => x = y
    /\ \A y \in T : \E x \in S : f[x] = y
    /\ \A x \in S : w[x] = v[f[x]]

(* Sums of the same numbers under other names are the same.                *)
LEMMA SameSum ==
  ASSUME NEW S, IsFiniteSet(S), NEW w \in [S -> Nat], NEW g, SumsOf(g, w, S),
         NEW T, IsFiniteSet(T), NEW v \in [T -> Nat], NEW h, SumsOf(h, v, T),
         Renamed(S, w, T, v)
  PROVE  g[S] = h[T]
<1>0. PICK f \in [S -> T] :
        /\ \A x, y \in S : f[x] = f[y] => x = y
        /\ \A y \in T : \E x \in S : f[x] = y
        /\ \A x \in S : w[x] = v[f[x]]
  BY DEF Renamed
<1> DEFINE Named(s) == {y \in T : \E x \in s : f[x] = y}
           Bad == {s \in SUBSET S : g[s] # h[Named(s)]}
<1>1. g[{}] = 0 /\ \A s \in SUBSET S : \A y \in s : g[s] = w[y] + g[s \ {y}]
  <2>1. Adds(g, w, S)
    BY AnyFirst
  <2> QED
    BY <2>1 DEF Adds
<1>2. h[{}] = 0 /\ \A t \in SUBSET T : \A y \in t : h[t] = v[y] + h[t \ {y}]
  <2>1. Adds(h, v, T)
    BY AnyFirst
  <2> QED
    BY <2>1 DEF Adds
<1>3. ASSUME NEW s \in Bad PROVE \E t \in Bad : t \subseteq s /\ t # s
  <2>1. s \in SUBSET S /\ g[s] # h[Named(s)]
    OBVIOUS
  <2>2. s # {}
    <3> SUFFICES ASSUME s = {} PROVE FALSE
      OBVIOUS
    <3>1. Named(s) = {}
      OBVIOUS
    <3> QED
      BY <1>1, <1>2, <2>1, <3>1
  <2>a. PICK p \in s : TRUE
    BY <2>2
  <2> DEFINE r == s \ {p}
  <2>3. p \in s /\ p \in S /\ r \in SUBSET S /\ r # s /\ r \subseteq s
    BY <2>1
  <2>4. Named(s) \in SUBSET T /\ f[p] \in Named(s)
    BY <2>3
  <2>5. Named(r) = Named(s) \ {f[p]}
    <3>1. ASSUME NEW y \in Named(r) PROVE y \in Named(s) \ {f[p]}
      <4>1. PICK x \in r : f[x] = y
        OBVIOUS
      <4>2. x \in S /\ x # p /\ x \in s
        BY <2>3
      <4> QED
        BY <1>0, <2>3, <4>1, <4>2
    <3>2. ASSUME NEW y \in Named(s) \ {f[p]} PROVE y \in Named(r)
      <4>1. PICK x \in s : f[x] = y
        OBVIOUS
      <4> QED
        BY <4>1
    <3> HIDE DEF Named
    <3> QED
      BY <3>1, <3>2
  <2>6. g[s] = w[p] + g[r] /\ h[Named(s)] = v[f[p]] + h[Named(r)] /\ w[p] = v[f[p]]
    <3>1. g[s] = w[p] + g[r]
      BY <1>1, <2>1, <2>2
    <3>2. w[p] = v[f[p]]
      BY <1>0, <2>3
    <3> HIDE DEF Named
    <3>3. h[Named(s)] = v[f[p]] + h[Named(s) \ {f[p]}]
      BY <1>2, <2>4
    <3> QED
      BY <2>5, <3>1, <3>2, <3>3
  <2>7. r \in Bad
    <3> HIDE DEF Named, r
    <3> QED
      BY <2>1, <2>3, <2>6
  <2> QED
    BY <2>3, <2>7
<1>4. Bad = {}
  <2>1. Bad \subseteq SUBSET S
    OBVIOUS
  <2> HIDE DEF Bad
  <2> QED
    BY <1>3, <2>1, SmallestSubset
<1>5. Named(S) = T
  BY <1>0
<1>6. g[S] = h[Named(S)]
  <2> HIDE DEF Named
  <2> QED
    BY <1>4
<1> QED
  BY <1>5, <1>6
(* n is the sum of w over S.                                               *)
IsSum(n, w, S) ==
  IsFiniteSet(S) /\ w \in [S -> Nat] /\ \E g : SumsOf(g, w, S) /\ n = g[S]

LEMMA RenamedSum ==
  ASSUME NEW S, NEW w, NEW m, IsSum(m, w, S), NEW T, NEW v, NEW n, IsSum(n, v, T),
         Renamed(S, w, T, v)
  PROVE  m = n
<1>1. PICK g : SumsOf(g, w, S) /\ m = g[S]
  BY DEF IsSum
<1>2. PICK h : SumsOf(h, v, T) /\ n = h[T]
  BY DEF IsSum
<1>3. IsFiniteSet(S) /\ w \in [S -> Nat] /\ IsFiniteSet(T) /\ v \in [T -> Nat]
  BY DEF IsSum
<1>4. g[S] = h[T]
  BY <1>1, <1>2, <1>3, SameSum
<1> QED
  BY <1>1, <1>2, <1>4

-----------------------------------------------------------------------------
(* getUsedRam adds up the table, and the callers what they asked for.       *)

(* getUsedRam visits exactly the present entries that were written.        *)
LEMMA VisitedIsLive == Inv => Visited = LiveSlots
<1> SUFFICES ASSUME Inv PROVE Visited = LiveSlots
  OBVIOUS
<1> DEFINE Before(k) == {j \in 1..(k - 1) : Present(j)}
<1>1. /\ IsFiniteSet(LiveSlots) /\ LiveSlots \subseteq Slots
      /\ allocations = Cardinality(LiveSlots) /\ written \in Nat /\ written <= K
      /\ allocations \in Nat
  BY LiveSlotsFinite DEF Inv, TableInv, TypeOK
<1>2. ASSUME NEW k \in LiveSlots PROVE Cardinality(Before(k)) < allocations
  <2>1. Before(k) \in SUBSET LiveSlots /\ k \in LiveSlots /\ k \notin Before(k)
    BY <1>1 DEF LiveSlots
  <2>2. IsFiniteSet(Before(k)) /\ Cardinality(Before(k)) <= Cardinality(LiveSlots)
    BY <1>1, <2>1, FS_Subset
  <2>3. Cardinality(Before(k)) # Cardinality(LiveSlots)
    BY <1>1, <2>1, FS_Subset
  <2>4. Cardinality(Before(k)) \in Nat
    BY <2>2, FS_CardinalityType
  <2> QED
    BY <1>1, <2>2, <2>3, <2>4
<1>3. ASSUME NEW k \in Slots, Present(k), k \notin LiveSlots
      PROVE  ~(Cardinality(Before(k)) < allocations)
  <2>1. k > written
    BY <1>1, <1>3 DEF LiveSlots
  <2>2. LiveSlots \in SUBSET Before(k)
    BY <1>1, <2>1 DEF LiveSlots
  <2>3. IsFiniteSet(1..(k - 1)) /\ Before(k) \in SUBSET (1..(k - 1))
    BY FS_Interval
  <2>4. IsFiniteSet(Before(k))
    BY <2>3, FS_Subset
  <2>5. Cardinality(LiveSlots) <= Cardinality(Before(k)) /\ Cardinality(Before(k)) \in Nat
    BY <2>2, <2>4, FS_Subset, FS_CardinalityType
  <2> QED
    BY <1>1, <2>5
<1>4. \A k \in LiveSlots : Present(k) /\ k \in Slots
  BY <1>1 DEF LiveSlots
<1> QED
  BY <1>2, <1>3, <1>4 DEF Visited

(* MapThenSumSet of the extents of entries, and of the sizes of blocks.    *)
LEMMA ExtentsSummed ==
  ASSUME NEW S, IsFiniteSet(S), NEW w \in [S -> Nat],
         \A k \in S : w[k] = table[k].end - table[k].start
  PROVE  IsSum(MapThenSumSet(LAMBDA k : table[k].end - table[k].start, S), w, S)
<1> DEFINE Is(g) ==
             g = [s \in SUBSET S |->
                    IF s = {} THEN 0
                    ELSE (table[CHOOSE x \in s : TRUE].end - table[CHOOSE x \in s : TRUE].start)
                           + g[s \ {CHOOSE x \in s : TRUE}]]
           iter == CHOOSE g : Is(g)
<1>1. ASSUME NEW g PROVE Is(g) <=> SumsOf(g, w, S)
  <2>1. ASSUME NEW s \in SUBSET S, s # {}
        PROVE  w[Pick(s)] = table[Pick(s)].end - table[Pick(s)].start
    BY <2>1, PickIn
  <2>2. [s \in SUBSET S |->
           IF s = {} THEN 0
           ELSE (table[Pick(s)].end - table[Pick(s)].start) + g[s \ {Pick(s)}]]
        = [s \in SUBSET S |-> IF s = {} THEN 0 ELSE w[Pick(s)] + g[s \ {Pick(s)}]]
    BY <2>1
  <2> QED
    BY <2>2, Zenon DEF SumsOf, Pick
<1>2. \E g : Is(g)
  <2> HIDE DEF Is
  <2> QED
    BY <1>1, SumsExist
<1>3. Is(iter)
  <2> HIDE DEF Is
  <2> QED
    BY <1>2
<1>4. MapThenSumSet(LAMBDA k : table[k].end - table[k].start, S) = iter[S]
  BY DEF MapThenSumSet, MapThenFoldSet
<1> HIDE DEF Is, iter
<1>5. IsSum(iter[S], w, S)
  BY <1>1, <1>3 DEF IsSum
<1> QED
  BY <1>4, <1>5

LEMMA SizesSummed ==
  ASSUME NEW S, IsFiniteSet(S), NEW w \in [S -> Nat], \A b \in S : w[b] = size[b]
  PROVE  IsSum(MapThenSumSet(LAMBDA b : size[b], S), w, S)
<1> DEFINE Is(g) ==
             g = [s \in SUBSET S |->
                    IF s = {} THEN 0
                    ELSE size[CHOOSE x \in s : TRUE] + g[s \ {CHOOSE x \in s : TRUE}]]
           iter == CHOOSE g : Is(g)
<1>1. ASSUME NEW g PROVE Is(g) <=> SumsOf(g, w, S)
  <2>1. \A s \in SUBSET S : s # {} => w[Pick(s)] = size[Pick(s)]
    BY PickIn
  <2>2. [s \in SUBSET S |-> IF s = {} THEN 0 ELSE size[Pick(s)] + g[s \ {Pick(s)}]]
        = [s \in SUBSET S |-> IF s = {} THEN 0 ELSE w[Pick(s)] + g[s \ {Pick(s)}]]
    BY <2>1
  <2> QED
    BY <2>2, Zenon DEF SumsOf, Pick
<1>2. \E g : Is(g)
  <2> HIDE DEF Is
  <2> QED
    BY <1>1, SumsExist
<1>3. Is(iter)
  <2> HIDE DEF Is
  <2> QED
    BY <1>2
<1>4. MapThenSumSet(LAMBDA b : size[b], S) = iter[S]
  BY DEF MapThenSumSet, MapThenFoldSet
<1> HIDE DEF Is, iter
<1>5. IsSum(iter[S], w, S)
  BY <1>1, <1>3 DEF IsSum
<1> QED
  BY <1>4, <1>5

(* Every present entry is that of one block, and every block has one.      *)
LEMMA EntriesAreBlocks ==
  ASSUME Inv
  PROVE  \E f \in [LiveSlots -> live] :
           /\ \A j, k \in LiveSlots : f[j] = f[k] => j = k
           /\ \A b \in live : \E k \in LiveSlots : f[k] = b
           /\ \A k \in LiveSlots : Holds(k, f[k])
<1> DEFINE f == [k \in LiveSlots |-> CHOOSE b \in live : Holds(k, b)]
<1>1. \A k \in LiveSlots : f[k] \in live /\ Holds(k, f[k])
  BY DEF Inv, HeldInv
<1>2. f \in [LiveSlots -> live]
  BY <1>1
<1> HIDE DEF f
<1>3. /\ \A b \in live : ptr[b] \in Nat /\ size[b] \in Nat /\ size[b] > 0
      /\ \A k \in LiveSlots :
           table[k].start \in Nat /\ table[k].end \in Nat /\ table[k].start < table[k].end
  BY LiveSlotsFinite DEF Inv, HeldInv, TableInv, TypeOK
<1>4. ASSUME NEW j \in LiveSlots, NEW k \in LiveSlots, f[j] = f[k] PROVE j = k
  <2>1. table[j].start = table[k].start
    BY <1>1, <1>4 DEF Holds
  <2> QED
    BY <1>3, <2>1 DEF Inv, TableInv
<1>5. ASSUME NEW b \in live PROVE \E k \in LiveSlots : f[k] = b
  <2>1. PICK k \in LiveSlots : Holds(k, b)
    BY DEF Inv, HeldInv
  <2>2. ptr[f[k]] = ptr[b] /\ f[k] \in live
    BY <1>1, <2>1 DEF Holds
  <2>3. f[k] = b
    BY <1>3, <2>2 DEF Inv, HeldInv, LiveDisjoint
  <2> QED
    BY <2>3
<1> QED
  BY <1>1, <1>2, <1>4, <1>5

LEMMA InvUsedRam == Inv => UsedRamExact
<1> SUFFICES ASSUME Inv PROVE getUsedRam = MapThenSumSet(LAMBDA b : size[b], live)
  BY DEF UsedRamExact
<1>1. PICK f \in [LiveSlots -> live] :
           /\ \A j, k \in LiveSlots : f[j] = f[k] => j = k
           /\ \A b \in live : \E k \in LiveSlots : f[k] = b
           /\ \A k \in LiveSlots : Holds(k, f[k])
  BY EntriesAreBlocks
<1>2. IsFiniteSet(LiveSlots) /\ LiveSlots \subseteq Slots
  BY LiveSlotsFinite DEF Inv
<1>3. IsFiniteSet(live)
  <2>1. f \in Surjection(LiveSlots, live)
    BY <1>1 DEF Surjection
  <2> QED
    BY <1>2, <2>1, FS_Surjection
<1> DEFINE w == [k \in LiveSlots |-> table[k].end - table[k].start]
           v == [b \in live |-> size[b]]
<1>4. /\ w \in [LiveSlots -> Nat] /\ v \in [live -> Nat]
      /\ \A k \in LiveSlots : w[k] = v[f[k]]
  <2>1. \A b \in live : ptr[b] \in Nat /\ size[b] \in Nat
    BY DEF Inv, TypeOK
  <2> QED
    BY <1>1, <2>1 DEF Holds
<1>5. \A k \in LiveSlots : w[k] = table[k].end - table[k].start
  OBVIOUS
<1>6. \A b \in live : v[b] = size[b]
  OBVIOUS
<1> HIDE DEF w, v
<1>7. IsSum(MapThenSumSet(LAMBDA k : table[k].end - table[k].start, LiveSlots), w, LiveSlots)
  BY <1>2, <1>4, <1>5, ExtentsSummed
<1>8. IsSum(MapThenSumSet(LAMBDA b : size[b], live), v, live)
  BY <1>3, <1>4, <1>6, SizesSummed
<1>9. Renamed(LiveSlots, w, live, v)
  BY <1>1, <1>4 DEF Renamed
<1>10. getUsedRam = MapThenSumSet(LAMBDA k : table[k].end - table[k].start, LiveSlots)
  BY VisitedIsLive DEF getUsedRam
<1> QED
  BY <1>7, <1>8, <1>9, <1>10, RenamedSum

(* What is reported as used is what the callers hold.                      *)
THEOREM SpecUsedRamExact == ASSUME 0 \notin Sizes PROVE Spec => []UsedRamExact
BY SpecInv, InvUsedRam, PTL

-----------------------------------------------------------------------------
(* Refinement of MemoryPool: the step that writes an entry allocates, the  *)
(* step that clears one frees, and the others do not concern the pool.     *)

(* The table and the callers agree on where a block fits.                  *)
LEMMA FitsIsClear ==
  ASSUME Inv, NEW a \in Nat, NEW n \in Nat
  PROVE  Pool!Fits(a, n) <=> \A k \in LiveSlots : Clear(a, n, k)
BY DEF Inv, HeldInv, Holds, Clear, Pool!Fits

LEMMA WriteIsAllocate ==
  ASSUME Inv, WriteEntry
  PROVE  Pool!Allocate(client, amount)
<1> USE DEF WriteEntry
<1>1. Asked /\ TypeOK /\ \A k \in LiveSlots : Clear(value, amount, k)
  BY DEF Inv, SlotInv
<1>2. value \in Nat /\ amount \in Nat /\ Base \in Nat /\ value >= Base
  BY <1>1 DEF TypeOK, Asked, Tried
<1>3. Pool!Fits(value, amount)
  BY <1>1, <1>2, FitsIsClear
<1>4. \A lower \in Base..(value - 1) : ~Pool!Fits(lower, amount)
  BY <1>1, <1>2, FitsIsClear DEF Asked, Tried
<1>5. value \in Pool!Candidates
  BY <1>1 DEF Asked, Tried, Pool!Candidates, Inv, HeldInv, Holds
<1> QED
  BY <1>1, <1>2, <1>3, <1>4, <1>5 DEF Pool!Allocate, Pool!LowestFit, Asked

LEMMA FreeIsUnallocate ==
  ASSUME Inv, FreeEntry
  PROVE  Pool!Unallocate(client)
BY DEF FreeEntry, Inv, FreeInv, Pool!Unallocate

LEMMA StepSimulation == Inv /\ [Next]_vars => [Pool!Next]_Pool!vars
<1> SUFFICES ASSUME Inv, [Next]_vars PROVE [Pool!Next]_Pool!vars
  OBVIOUS
<1>1. CASE WriteEntry
  <2>1. client \in Blocks /\ amount \in Sizes
    BY <1>1 DEF WriteEntry, Inv, TypeOK, SlotInv, Asked
  <2> QED
    BY <1>1, <2>1, WriteIsAllocate DEF Pool!Next
<1>2. CASE FreeEntry
  <2>1. client \in Blocks
    BY <1>2 DEF FreeEntry, Inv, TypeOK
  <2> QED
    BY <1>2, <2>1, FreeIsUnallocate DEF Pool!Next
<1>3. CASE \/ SkipAbsent \/ PassEntry \/ BumpAndRestart \/ SearchDone
           \/ NextSlot \/ NextEntry
  BY <1>3 DEF SkipAbsent, PassEntry, BumpAndRestart, SearchDone, NextSlot, NextEntry,
              held, Pool!vars
<1>4. CASE \E b \in Blocks : Unallocate(b) \/ \E n \in Sizes : Allocate(b, n)
  BY <1>4 DEF Unallocate, Allocate, held, Pool!vars
<1>5. CASE UNCHANGED vars
  BY <1>5 DEF vars, held, Pool!vars
<1> QED
  BY <1>1, <1>2, <1>3, <1>4, <1>5 DEF Next, Advance

(* The allocator implements the lowest-fit pool.                           *)
THEOREM SpecPool == ASSUME 0 \notin Sizes PROVE Spec => PoolSpec
<1>1. Init => Pool!Init
  BY DEF Init, Pool!Init
<1> QED
  BY <1>1, StepSimulation, SpecInv, PTL DEF Spec, PoolSpec, Pool!Spec

=============================================================================
