-------------------------------- MODULE Heap --------------------------------
(***************************************************************************)
(* allocate and unallocate (src/src/main.h) and getUsedRam                 *)
(* (src/src/main.c): a first-fit allocator whose table of entries grows    *)
(* down from the end of the memory it manages.                             *)
(*                                                                         *)
(* Entry k of the table is allocated - (k - 1) in the code. Nothing clears *)
(* the memory the table grows into, so an entry that was never written     *)
(* holds anything. Every iteration of a loop is a step, which makes the    *)
(* loops' invariants those of the specification. Only core 0 allocates,    *)
(* and no interrupt handler does, so one operation runs at a time.         *)
(***************************************************************************)
EXTENDS Integers, FiniteSetsExt

CONSTANTS
  Blocks,   \* names for the blocks that can be held at one time
  Sizes,    \* the amounts asked for
  Base,     \* "memory", the first address of the pool
  NoBlock,  \* no operation is running
  K         \* the number of table entries there is room for: the code has
            \* no such bound and would let the table meet the blocks

ASSUME HeapAssumption ==
  /\ Sizes \subseteq Nat
  /\ Base \in Nat
  /\ K \in Nat \ {0}
  /\ NoBlock \notin Blocks

Slots == 1..K

VARIABLES
  table,         \* the entries below "allocated"
  allocations,   \* the number of present entries
  written,       \* history: how many entries have ever been written
  pc,            \* idle, search or slot (in allocate), free (in unallocate)
  client,        \* the block being handed out or given back, or NoBlock
  amount,        \* allocate's argument
  value,         \* the address being tried; in unallocate, the pointer
  cursor,        \* the entry being looked at
  count,         \* present entries passed
  live, ptr, size   \* what the callers hold, as in MemoryPool

op == <<client, amount, value, cursor, count>>
held == <<live, ptr, size>>
vars == <<table, allocations, written, pc, op, held>>

Present(k) == table[k].present

(* Broken: a block may not end where the next one starts.                  *)
ClearStrict(a, n, k) == a + n < table[k].start \/ a >= table[k].end

(* The two comparisons of allocate against one entry.                      *)
Clear(a, n, k) == a + n <= table[k].start \/ a >= table[k].end

Garbage(p) == [present |-> p, start |-> Base, end |-> Base + 1]

Init ==
  /\ table \in [Slots -> {Garbage(p) : p \in BOOLEAN}]
  /\ allocations = 0 /\ written = 0
  /\ pc = "idle"
  /\ client = NoBlock
  /\ amount = 0 /\ value = 0 /\ cursor = 1 /\ count = 0
  /\ live = {}
  /\ ptr = [b \in Blocks |-> 0]
  /\ size = [b \in Blocks |-> 0]

(* The C locals end with the call.                                         *)
Return ==
  /\ pc' = "idle" /\ client' = NoBlock
  /\ amount' = 0 /\ value' = 0 /\ cursor' = 1 /\ count' = 0

-----------------------------------------------------------------------------
(* allocate.                                                               *)

Allocate(b, n) ==
  /\ pc = "idle" /\ b \notin live
  /\ allocations < K
  /\ pc' = "search"
  /\ client' = b /\ amount' = n
  /\ value' = Base /\ cursor' = 1 /\ count' = 0
  /\ UNCHANGED <<table, allocations, written, held>>

SkipAbsent ==
  /\ pc = "search" /\ count # allocations /\ ~Present(cursor)
  /\ cursor' = cursor + 1
  /\ UNCHANGED <<table, allocations, written, pc, client, amount, value, count, held>>

PassEntry ==
  /\ pc = "search" /\ count # allocations /\ Present(cursor)
  /\ Clear(value, amount, cursor)
  /\ count' = count + 1 /\ cursor' = cursor + 1
  /\ UNCHANGED <<table, allocations, written, pc, client, amount, value, held>>

(* Broken: the search restarts with the same address.                      *)
RestartOnly ==
  /\ pc = "search" /\ count # allocations /\ Present(cursor)
  /\ ~Clear(value, amount, cursor)
  /\ cursor' = 1 /\ count' = 0
  /\ UNCHANGED <<table, allocations, written, pc, client, amount, value, held>>

(* The candidate overlaps the entry: try its end, from the first entry on. *)
BumpAndRestart ==
  /\ pc = "search" /\ count # allocations /\ Present(cursor)
  /\ ~Clear(value, amount, cursor)
  /\ value' = table[cursor].end
  /\ cursor' = 1 /\ count' = 0
  /\ UNCHANGED <<table, allocations, written, pc, client, amount, held>>

SearchDone ==
  /\ pc = "search" /\ count = allocations
  /\ pc' = "slot" /\ cursor' = 1 /\ count' = 0
  /\ UNCHANGED <<table, allocations, written, client, amount, value, held>>

NextSlot ==
  /\ pc = "slot" /\ Present(cursor) /\ count # allocations
  /\ cursor' = cursor + 1 /\ count' = count + 1
  /\ UNCHANGED <<table, allocations, written, pc, client, amount, value, held>>

(* Broken: end is the last byte of the block and not the one after it.     *)
WriteLastByte ==
  /\ pc = "slot" /\ (~Present(cursor) \/ count = allocations)
  /\ table' = [table EXCEPT ![cursor] =
                 [present |-> TRUE, start |-> value, end |-> value + amount - 1]]
  /\ written' = IF cursor > written THEN cursor ELSE written
  /\ allocations' = allocations + 1
  /\ live' = live \cup {client}
  /\ ptr' = [ptr EXCEPT ![client] = value]
  /\ size' = [size EXCEPT ![client] = amount]
  /\ Return

(* The entry is written and the address returned.                          *)
WriteEntry ==
  /\ pc = "slot" /\ (~Present(cursor) \/ count = allocations)
  /\ table' = [table EXCEPT ![cursor] =
                 [present |-> TRUE, start |-> value, end |-> value + amount]]
  /\ written' = IF cursor > written THEN cursor ELSE written
  /\ allocations' = allocations + 1
  /\ live' = live \cup {client}
  /\ ptr' = [ptr EXCEPT ![client] = value]
  /\ size' = [size EXCEPT ![client] = amount]
  /\ Return

-----------------------------------------------------------------------------
(* unallocate, called with a pointer that allocate returned and that has   *)
(* not been given back since.                                              *)

Unallocate(b) ==
  /\ pc = "idle" /\ b \in live
  /\ pc' = "free"
  /\ client' = b /\ value' = ptr[b] /\ cursor' = 1
  /\ UNCHANGED <<table, allocations, written, amount, count, held>>

NextEntry ==
  /\ pc = "free" /\ (~Present(cursor) \/ table[cursor].start # value)
  /\ cursor' = cursor + 1
  /\ UNCHANGED <<table, allocations, written, pc, client, amount, value, count, held>>

(* Broken: allocations still counts the freed entry.                       *)
FreeUncounted ==
  /\ pc = "free" /\ Present(cursor) /\ table[cursor].start = value
  /\ table' = [table EXCEPT ![cursor].present = FALSE]
  /\ live' = live \ {client}
  /\ ptr' = [ptr EXCEPT ![client] = 0]
  /\ size' = [size EXCEPT ![client] = 0]
  /\ Return
  /\ UNCHANGED <<allocations, written>>

FreeEntry ==
  /\ pc = "free" /\ Present(cursor) /\ table[cursor].start = value
  /\ table' = [table EXCEPT ![cursor].present = FALSE]
  /\ allocations' = allocations - 1
  /\ live' = live \ {client}
  /\ ptr' = [ptr EXCEPT ![client] = 0]
  /\ size' = [size EXCEPT ![client] = 0]
  /\ Return
  /\ UNCHANGED written

-----------------------------------------------------------------------------
(* getUsedRam: the entries are visited in order until as many present ones *)
(* as there are allocations have been counted.                             *)
Visited ==
  {k \in Slots : Present(k) /\ Cardinality({j \in 1..(k - 1) : Present(j)}) < allocations}

getUsedRam == MapThenSumSet(LAMBDA k : table[k].end - table[k].start, Visited)

-----------------------------------------------------------------------------
Advance == \/ SkipAbsent \/ PassEntry \/ BumpAndRestart \/ SearchDone \/ NextSlot
           \/ WriteEntry \/ NextEntry \/ FreeEntry

Next == Advance \/ \E b \in Blocks : Unallocate(b) \/ \E n \in Sizes : Allocate(b, n)

Spec == Init /\ [][Next]_vars

(* An operation that has been called keeps running.                        *)
FairSpec == Spec /\ WF_vars(Advance)

-----------------------------------------------------------------------------
(* Properties.                                                             *)

EntryType == [present : BOOLEAN, start : Nat, end : Nat]

(* The variables have the values of their C counterparts, and no loop      *)
(* looks past the room there is for the table.                             *)
TypeOK ==
  /\ table \in [Slots -> EntryType]
  /\ allocations \in 0..K /\ written \in 0..K
  /\ pc \in {"idle", "search", "slot", "free"}
  /\ client \in IF pc = "idle" THEN {NoBlock} ELSE Blocks
  /\ amount \in Nat /\ value \in Nat /\ count \in 0..K
  /\ cursor \in 1..(IF pc = "search" THEN K + 1 ELSE K)
  /\ live \subseteq Blocks
  /\ ptr \in [Blocks -> Nat] /\ size \in [Blocks -> Nat]

(* Two blocks held at the same time share no byte, whatever was allocated  *)
(* and freed before, in whatever order.                                    *)
LiveDisjoint ==
  \A b, c \in live : b # c => ptr[b] + size[b] <= ptr[c] \/ ptr[c] + size[c] <= ptr[b]

(* No loop decides anything on an entry that was never written: the count  *)
(* of present entries stops allocate, and the search of unallocate ends at *)
(* the caller's own entry.                                                 *)
NoWildRead ==
  /\ pc \in {"search", "slot"} /\ count # allocations => cursor <= written
  /\ pc = "free" => cursor <= written

(* getUsedRam, between operations, is the number of bytes the callers hold *)
(* ("Using ... bytes of ram.", src/src/main.c:1126-1135).                  *)
UsedRamExact ==
  pc = "idle" => getUsedRam = MapThenSumSet(LAMBDA b : size[b], live)

(* Every call of allocate and unallocate returns: the restarts of the      *)
(* search are finitely many.                                               *)
OperationsReturn == pc # "idle" ~> pc = "idle"

(* The table and its loops implement the lowest-fit pool of MemoryPool.    *)
Pool == INSTANCE MemoryPool
PoolSpec == Pool!Spec

-----------------------------------------------------------------------------
(* The inductive invariant, for sizes other than 0.                        *)

LiveSlots == {k \in 1..written : Present(k)}
Passed == {k \in LiveSlots : k < cursor}
Holds(k, b) == table[k].start = ptr[b] /\ table[k].end = ptr[b] + size[b]

TableInv ==
  /\ allocations = Cardinality(LiveSlots)
  /\ \A k \in LiveSlots : Base <= table[k].start /\ table[k].start < table[k].end
  /\ \A j, k \in LiveSlots :
       j # k => table[j].end <= table[k].start \/ table[k].end <= table[j].start

HeldInv ==
  /\ \A b \in live : \E k \in LiveSlots : Holds(k, b)
  /\ \A k \in LiveSlots : \E b \in live : Holds(k, b)
  /\ \A b \in live : size[b] > 0
  /\ LiveDisjoint

(* Every address below the candidate has been ruled out by a live entry.   *)
Tried ==
  /\ value = Base \/ \E k \in LiveSlots : value = table[k].end
  /\ value >= Base
  /\ \A a \in Base..(value - 1) : \E k \in LiveSlots : ~Clear(a, amount, k)

Asked == allocations < K /\ client \notin live /\ amount \in Sizes /\ Tried

SearchInv ==
  pc = "search" =>
    /\ Asked
    /\ cursor <= written + 1
    /\ count = Cardinality(Passed)
    /\ \A k \in Passed : Clear(value, amount, k)

SlotInv ==
  pc = "slot" =>
    /\ Asked
    /\ cursor <= written + 1
    /\ count = cursor - 1 /\ 1..(cursor - 1) \subseteq LiveSlots
    /\ \A k \in LiveSlots : Clear(value, amount, k)

FreeInv ==
  pc = "free" =>
    /\ client \in live /\ value = ptr[client]
    /\ \A k \in Passed : table[k].start # value

(* The table holds exactly the callers' blocks, and each loop has learnt   *)
(* what its exit relies on.                                                *)
Inv == TypeOK /\ TableInv /\ HeldInv /\ SearchInv /\ SlotInv /\ FreeInv

=============================================================================
