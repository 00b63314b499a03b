--------------------------- MODULE SmpBootProofs ---------------------------
(***************************************************************************)
(* Proofs about SmpBoot for every number of cores: the invariant, timely   *)
(* or not, and the state in which the cores are handed over to splitTask.  *)
(***************************************************************************)
EXTENDS SmpBoot, FiniteSetTheorems, TLAPS

(* The number of cores fits in the byte that counts them.                  *)
LEMMA NType ==
  /\ N \in Nat /\ N <= 255
  /\ \A c : c \in Cores <=> c \in Nat /\ 1 <= c /\ c <= N
BY BootAssumption DEF Cores

-----------------------------------------------------------------------------
(* Counting the cores that have incremented the byte at 0x1004.            *)

(* There are at most N, and N of them are all of them; while some core has *)
(* not counted itself there are fewer.                                     *)
LEMMA CountedBounds ==
  /\ IsFiniteSet(CountedCores)
  /\ Cardinality(CountedCores) \in 0..N
  /\ Cardinality(CountedCores) = N => CountedCores = Cores
  /\ \A c \in Cores : ~Counted(c) => Cardinality(CountedCores) < N
<1>1. IsFiniteSet(Cores) /\ Cardinality(Cores) = N
  <2>1. 1 \in Int /\ N \in Int /\ N >= 0
    BY NType
  <2>2. IsFiniteSet(1..N) /\ Cardinality(1..N) = IF 1 > N THEN 0 ELSE N - 1 + 1
    BY <2>1, FS_Interval
  <2> QED
    BY <2>1, <2>2 DEF Cores
<1>2. CountedCores \in SUBSET Cores
  BY DEF CountedCores
<1>3. /\ IsFiniteSet(CountedCores)
      /\ Cardinality(CountedCores) <= N
      /\ Cardinality(CountedCores) = N => CountedCores = Cores
  BY <1>1, <1>2, FS_Subset
<1>4. Cardinality(CountedCores) \in Nat
  BY <1>3, FS_CardinalityType
<1>5. ASSUME NEW c \in Cores, ~Counted(c)
      PROVE  Cardinality(CountedCores) < N
  <2>1. CountedCores # Cores
    BY <1>5 DEF CountedCores
  <2> QED BY <2>1, <1>3, <1>4, NType
<1> QED
  BY <1>3, <1>4, <1>5, NType

(* A step that counts no core leaves the set of counted cores alone.       *)
LEMMA CountedSame ==
  ASSUME \A c \in Cores : Counted(c)' <=> Counted(c)
  PROVE  CountedCores' = CountedCores
BY DEF CountedCores, Cores

(* The step in which a core counts itself adds that core.                  *)
LEMMA CountedGrows ==
  ASSUME NEW c \in Cores, ~Counted(c), Counted(c)',
         \A d \in Cores \ {c} : Counted(d)' <=> Counted(d)
  PROVE  /\ CountedCores' = CountedCores \cup {c}
         /\ Cardinality(CountedCores)' = Cardinality(CountedCores) + 1
<1>1. CountedCores' = CountedCores \cup {c}
  BY DEF CountedCores, Cores
<1>2. c \notin CountedCores /\ IsFiniteSet(CountedCores)
  BY CountedBounds DEF CountedCores
<1>3. Cardinality(CountedCores \cup {c}) = Cardinality(CountedCores) + 1
  BY <1>2, FS_AddElement
<1> QED
  BY <1>1, <1>3

-----------------------------------------------------------------------------
(* A mailbox of its own for every timely core follows from the order in    *)
(* which the cores go through the trampoline.                              *)
LEMMA OwnMailboxFromOrder == TypeOK /\ OneByOne => OwnMailbox
<1> SUFFICES ASSUME TypeOK, OneByOne, timely, NEW c \in Cores, NEW d \in Cores
             PROVE
    /\ c # d /\ pc[c] \notin {"off", "woken"} /\ pc[d] \notin {"off", "woken"}
         => id[c] # id[d]
    /\ pc[c] \in {"load", "store", "boot", "ready"} => rsp[c] = id[c] + 1
  BY DEF OwnMailbox
<1>1. c \in Nat /\ d \in Nat /\ pc[c] \in {"off", "woken", "stack", "load", "store", "boot", "ready"}
  BY NType DEF TypeOK, Cores
<1>2. InTurn(c) /\ InTurn(d)
  BY DEF OneByOne
<1> QED
  BY <1>1, <1>2 DEF InTurn

LEMMA InitInv == Init => Inv
<1> SUFFICES ASSUME Init PROVE Inv
  OBVIOUS
<1> USE NType DEF Init
<1>1. TypeOK
  <2>1. id \in [Cores -> 0..(N - 1)]
    <3>1. \A c \in Cores : 0 \in 0..(N - 1)
      OBVIOUS
    <3> QED BY <3>1
  <2>2. /\ slot \in [Cores -> 0..N] /\ rsp \in [Cores -> 0..N]
        /\ al \in [Cores -> 0..255]
    OBVIOUS
  <2>3. pc \in [Cores -> {"off", "woken", "stack", "load", "store", "boot", "ready"}]
    OBVIOUS
  <2>4. next \in 1..(N + 1) /\ counter \in 0..255
    OBVIOUS
  <2> QED BY <2>1, <2>2, <2>3, <2>4 DEF TypeOK
<1>2. NeverOvercounted
  <2>1. Cardinality(CountedCores) \in Nat
    BY CountedBounds
  <2> QED
    BY <2>1 DEF NeverOvercounted, Started
<1>3. OneByOne
  BY DEF OneByOne, OneByOneCount, InTurn
<1> QED
  BY <1>1, <1>2, <1>3, OwnMailboxFromOrder DEF Inv

(* Every step of core 0 and of its timer preserves the invariant.          *)
LEMMA BspStepInv == Inv /\ (BspStep \/ Tick) => Inv'
<1> SUFFICES ASSUME Inv, BspStep \/ Tick PROVE Inv'
  OBVIOUS
<1> USE NType DEF Inv, TypeOK
<1>1. CountedCores' = CountedCores
  <2> SUFFICES ASSUME NEW c \in Cores PROVE Counted(c)' <=> Counted(c)
    BY CountedSame
  <2>1. CASE StartCore
    <3>1. pc[next] = "off"
      BY <2>1 DEF StartCore, NeverOvercounted, Started
    <3> QED BY <2>1, <3>1 DEF StartCore, Counted
  <2>2. CASE pc' = pc
    BY <2>2 DEF Counted
  <2> QED
    BY <2>1, <2>2 DEF BspStep, Prepare, PrepareDone, ResetTicks, TickSeen,
                      StartDone, StartOs, Tick
<1>2. Cardinality(CountedCores) \in Nat
  BY CountedBounds
<1>3. CASE Prepare
  <2>1. TypeOK' BY <1>3 DEF Prepare
  <2>2. NeverOvercounted'
    BY <1>1, <1>2, <1>3 DEF Prepare, NeverOvercounted, Started, Counted
  <2>3. OneByOne' BY <1>3 DEF Prepare, OneByOne, OneByOneCount, InTurn,
           NeverOvercounted, Started, Counted
  <2> QED BY <2>1, <2>2, <2>3, OwnMailboxFromOrder, PTL
<1>4. CASE PrepareDone
  <2>1. TypeOK' BY <1>4 DEF PrepareDone
  <2>2. NeverOvercounted'
    BY <1>1, <1>2, <1>4 DEF PrepareDone, NeverOvercounted, Started, Counted
  <2>3. OneByOne' BY <1>4 DEF PrepareDone, OneByOne, OneByOneCount, InTurn,
           NeverOvercounted, Started, Counted
  <2> QED BY <2>1, <2>2, <2>3, OwnMailboxFromOrder, PTL
<1>5. CASE StartCore
  <2>1. TypeOK' BY <1>5 DEF StartCore
  <2>2. NeverOvercounted'
    BY <1>1, <1>2, <1>5 DEF StartCore, NeverOvercounted, Started, Counted
  <2>3. OneByOne' BY <1>5 DEF StartCore, OneByOne, OneByOneCount, InTurn,
           NeverOvercounted, Started, Counted
  <2> QED BY <2>1, <2>2, <2>3, OwnMailboxFromOrder, PTL
<1>6. CASE ResetTicks
  <2>1. TypeOK' BY <1>6 DEF ResetTicks
  <2>2. NeverOvercounted'
    BY <1>1, <1>2, <1>6 DEF ResetTicks, NeverOvercounted, Started, Counted
  <2>3. OneByOne' BY <1>6 DEF ResetTicks, OneByOne, OneByOneCount, InTurn,
           NeverOvercounted, Started, Counted
  <2> QED BY <2>1, <2>2, <2>3, OwnMailboxFromOrder, PTL
<1>7. CASE TickSeen
  <2>1. TypeOK' BY <1>7 DEF TickSeen, NeverOvercounted
  <2>2. NeverOvercounted'
    <3>1. \A c \in Cores : pc'[c] # "off" <=> Started(c)'
      BY <1>7 DEF TickSeen, NeverOvercounted, Started
    <3> QED
      BY <1>1, <1>2, <1>7, <3>1 DEF TickSeen, NeverOvercounted
  <2>3. OneByOne' BY <1>7 DEF TickSeen, OneByOne, OneByOneCount, InTurn,
           NeverOvercounted, Started, Counted
  <2> QED BY <2>1, <2>2, <2>3, OwnMailboxFromOrder, PTL
<1>8. CASE StartDone
  <2>1. TypeOK' BY <1>8 DEF StartDone
  <2>2. NeverOvercounted'
    BY <1>1, <1>2, <1>8 DEF StartDone, NeverOvercounted, Started, Counted
  <2>3. OneByOne' BY <1>8 DEF StartDone, OneByOne, OneByOneCount, InTurn,
           NeverOvercounted, Started, Counted
  <2> QED BY <2>1, <2>2, <2>3, OwnMailboxFromOrder, PTL
<1>9. CASE StartOs
  <2>1. TypeOK' BY <1>9 DEF StartOs
  <2>2. NeverOvercounted'
    <3>1. CountedCores = Cores
      BY <1>9, CountedBounds DEF StartOs, NeverOvercounted
    <3> QED
      BY <1>1, <1>2, <1>9, <3>1 DEF StartOs, NeverOvercounted, Started, Counted
  <2>3. OneByOne' BY <1>9 DEF StartOs, OneByOne, OneByOneCount, InTurn,
           NeverOvercounted, Started, Counted
  <2> QED BY <2>1, <2>2, <2>3, OwnMailboxFromOrder, PTL
<1>10. CASE Tick
  <2>1. TypeOK' BY <1>10 DEF Tick
  <2>2. NeverOvercounted'
    BY <1>1, <1>2, <1>10 DEF Tick, NeverOvercounted, Started, Counted
  <2>3. OneByOne' BY <1>10 DEF Tick, OneByOne, OneByOneCount, InTurn,
           NeverOvercounted, Started, Counted
  <2> QED BY <2>1, <2>2, <2>3, OwnMailboxFromOrder, PTL
<1> QED
  BY <1>3, <1>4, <1>5, <1>6, <1>7, <1>8, <1>9, <1>10 DEF BspStep

LEMMA AlType == TypeOK => \A c \in Cores : al[c] \in Nat
BY DEF TypeOK

(* Every step of an application processor preserves the invariant.         *)
LEMMA ApStepInv ==
  ASSUME Inv, NEW c \in Cores, ApStep(c)
  PROVE  Inv'
<1> USE NType DEF Inv, TypeOK
<1>1. Cardinality(CountedCores) \in Nat /\ Cardinality(CountedCores) <= N
  BY CountedBounds
<1>2. ASSUME pc'[c] \notin {"boot", "ready"} \/ pc[c] = "boot",
             pc[c] = "boot" => pc'[c] = "ready",
             pc[c] \in {"woken", "stack", "load", "boot"},
             pc' = [pc EXCEPT ![c] = pc'[c]]
      PROVE  CountedCores' = CountedCores
  <2> SUFFICES ASSUME NEW d \in Cores PROVE Counted(d)' <=> Counted(d)
    BY CountedSame
  <2> QED BY <1>2 DEF Counted
<1>3. CASE ReadId(c)
  <2>1. counter < N
    BY <1>1, <1>3, CountedBounds DEF ReadId, NeverOvercounted, Counted
  <2>2. TypeOK' BY <1>3, <2>1 DEF ReadId
  <2>3. CountedCores' = CountedCores
    BY <1>2, <1>3 DEF ReadId
  <2>4. NeverOvercounted'
    BY <1>1, <1>3, <2>3 DEF ReadId, NeverOvercounted, Started
  <2>5. OneByOne'
    BY <1>3 DEF ReadId, OneByOne, OneByOneCount, InTurn, NeverOvercounted, Started, Counted
  <2> QED BY <2>2, <2>4, <2>5, OwnMailboxFromOrder, PTL
<1>4. CASE LoadStack(c)
  <2>1. id[c] + 1 \in Cores
    OBVIOUS
  <2>2. TypeOK' BY <1>4, <2>1 DEF LoadStack
  <2>3. CountedCores' = CountedCores
    BY <1>2, <1>4 DEF LoadStack
  <2>4. NeverOvercounted'
    BY <1>1, <1>4, <2>3 DEF LoadStack, NeverOvercounted, Started
  <2>5. OneByOne'
    BY <1>4, <2>1 DEF LoadStack, OneByOne, OneByOneCount, InTurn,
           NeverOvercounted, Started, Counted
  <2> QED BY <2>2, <2>4, <2>5, OwnMailboxFromOrder, PTL
<1>5. CASE IncLoad(c)
  <2>2. TypeOK' BY <1>5 DEF IncLoad
  <2>3. CountedCores' = CountedCores
    BY <1>2, <1>5 DEF IncLoad
  <2>4. NeverOvercounted'
    BY <1>1, <1>5, <2>3 DEF IncLoad, NeverOvercounted, Started
  <2>5. OneByOne'
    BY <1>5 DEF IncLoad, OneByOne, OneByOneCount, InTurn,
           NeverOvercounted, Started, Counted
  <2> QED BY <2>2, <2>4, <2>5, OwnMailboxFromOrder, PTL
<1>6. CASE IncStore(c)
  <2>1. Cardinality(CountedCores) < N /\ al[c] <= Cardinality(CountedCores)
    BY <1>6, CountedBounds DEF IncStore, NeverOvercounted, Counted
  <2>2. counter' = al[c] + 1
    BY <1>1, <1>6, <2>1 DEF IncStore
  <2>3. TypeOK' BY <1>1, <1>6, <2>1, <2>2 DEF IncStore
  <2>4. /\ CountedCores' = CountedCores \cup {c}
        /\ Cardinality(CountedCores)' = Cardinality(CountedCores) + 1
    BY <1>6, CountedGrows DEF IncStore, Counted
  <2>5. NeverOvercounted'
    <3>1. counter' <= Cardinality(CountedCores)'
      BY <1>1, <2>1, <2>2, <2>4
    <3>2. ASSUME NEW d \in Cores, pc'[d] = "store"
          PROVE  al'[d] <= Cardinality(CountedCores)'
      <4>1. pc[d] = "store" /\ al' = al
        BY <1>6, <3>2 DEF IncStore
      <4>2. al[d] \in Nat
        BY AlType
      <4> QED
        BY <1>1, <2>4, <4>1, <4>2 DEF NeverOvercounted
    <3>3. \A d \in Cores : pc'[d] # "off" <=> Started(d)'
      BY <1>6 DEF IncStore, NeverOvercounted, Started
    <3>4. bsp # "os"
      BY <1>6 DEF IncStore, NeverOvercounted, CountedCores, Counted
    <3> QED
      BY <1>6, <3>1, <3>2, <3>3, <3>4 DEF IncStore, NeverOvercounted
  <2>6. OneByOne'
    BY <1>6, <2>2 DEF IncStore, OneByOne, OneByOneCount, InTurn,
           NeverOvercounted, Started, Counted
  <2> QED BY <2>3, <2>5, <2>6, OwnMailboxFromOrder, PTL
<1>7. CASE ClearSlot(c)
  <2>2. TypeOK' BY <1>7 DEF ClearSlot
  <2>3. CountedCores' = CountedCores
    BY <1>2, <1>7 DEF ClearSlot
  <2>4. NeverOvercounted'
    BY <1>1, <1>7, <2>3 DEF ClearSlot, NeverOvercounted, Started
  <2>5. OneByOne'
    BY <1>7 DEF ClearSlot, OneByOne, OneByOneCount, InTurn,
           NeverOvercounted, Started, Counted
  <2> QED BY <2>2, <2>4, <2>5, OwnMailboxFromOrder, PTL
<1> QED
  BY <1>3, <1>4, <1>5, <1>6, <1>7 DEF ApStep

(* For every number of cores: increments of the core counter can be lost   *)
(* but never invented, and cores that each count themselves within a tick  *)
(* of their startup IPI take numbers, stacks and mailboxes of their own.   *)
THEOREM BootInv == Spec => []Inv
<1>1. Inv /\ [Next]_vars => Inv'
  <2> SUFFICES ASSUME Inv, [Next]_vars PROVE Inv'
    OBVIOUS
  <2>1. CASE BspStep \/ Tick
    BY <2>1, BspStepInv
  <2>2. ASSUME NEW c \in Cores, ApStep(c) PROVE Inv'
    BY <2>2, ApStepInv
  <2>3. CASE UNCHANGED vars
    BY <2>3 DEF vars, Inv, TypeOK, OwnMailbox, NeverOvercounted, OneByOne,
                OneByOneCount, InTurn, Started, Counted, CountedCores
  <2> QED
    BY <2>1, <2>2, <2>3 DEF Next, Up
<1> QED
  BY InitInv, <1>1, PTL DEF Spec

-----------------------------------------------------------------------------
(* Whenever core 0 runs the operating system every core has counted        *)
(* itself, and timely cores are in an initial state of SplitTask.          *)
THEOREM BootHandsOver == Spec => []HandsOver
<1>1. Inv => HandsOver
  <2> SUFFICES ASSUME Inv, bsp = "os"
               PROVE  (\A c \in Cores : Counted(c)) /\ (timely => ST!Init)
    BY DEF HandsOver
  <2>1. \A c \in Cores : Counted(c)
    BY DEF Inv, NeverOvercounted, CountedCores
  <2>2. ASSUME timely PROVE ST!Init
    <3>1. ASSUME NEW m \in Cores PROVE Owner(m) = m
      <4>1. \A c \in Cores : id[c] = c - 1
        BY <2>1, <2>2 DEF Inv, OneByOne, InTurn, Counted
      <4> QED
        BY <4>1, <3>1, NType DEF Owner, Cores
    <3>2. \A m \in Cores :
            /\ pc[Owner(m)] \in {"boot", "ready"}
            /\ slot[m] = IF pc[Owner(m)] = "boot" THEN m ELSE 0
      BY <2>1, <2>2, <3>1 DEF Inv, OneByOne, InTurn, Counted
    <3>3. \A m \in Cores : m # 0
      BY NType DEF Cores
    <3>4. [m \in Cores |-> IF slot[m] = 0 THEN NoTask ELSE Stack]
            = [m \in Cores |-> IF pc[Owner(m)] = "boot" THEN Stack ELSE NoTask]
      BY <3>2, <3>3
    <3>5. [m \in Cores |-> pc[Owner(m)]] \in [Cores -> {"boot", "ready"}]
      BY <3>2
    <3> QED
      BY <3>4, <3>5 DEF ST!Init, ST!APs, ST!AllCores, Cores
  <2> QED
    BY <2>1, <2>2
<1> QED
  BY BootInv, <1>1, PTL

=============================================================================
