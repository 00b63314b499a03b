------------------------- MODULE KernelTablesProofs -------------------------
(* Proofs about Ticks, Services, the list library and Callbacks, for any   *)
(* programs, any number of interrupts, any table of system calls and any   *)
(* blocks.                                                                 *)
EXTENDS MCKernelTables, Integers, SequenceTheorems, FiniteSetTheorems,
        WellFoundedInduction, TLAPS

-----------------------------------------------------------------------------
(* Ticks.                                                                  *)
Places == {"callbacks", "update", "copy", "reset"}

TypeInv ==
  /\ hpetCounter \in Nat /\ ticks \in Nat /\ elapsed \in Nat
  /\ at \in Places
  /\ running \subseteq Programs /\ todo \subseteq running
  /\ told \in [Programs -> Nat] /\ since \in [Programs -> Nat]
  /\ early \in [Programs -> Nat] /\ late \in [Programs -> Nat]

(* The copy and the counter stand for different interrupts, except between *)
(* the copy and the reset, when the counter begins with those of the copy. *)
CountInv ==
  /\ elapsed <= MaxTicks
  /\ at = "reset" => ticks <= hpetCounter /\ hpetCounter <= elapsed
  /\ at # "reset" => hpetCounter + ticks <= elapsed

StartInv ==
  /\ at # "update" => todo = {}
  /\ \A p \in Programs : since[p] <= elapsed /\ early[p] <= since[p]
  /\ \A p \in Programs \ running : told[p] = 0 /\ late[p] = 0

TicksInv == TypeInv /\ CountInv /\ StartInv /\ OnlyLateTicksAreLost

-----------------------------------------------------------------------------
LEMMA TicksInitInv == Init => TicksInv
<1> SUFFICES ASSUME Init PROVE TicksInv
  OBVIOUS
<1> USE TicksAssumption DEF Init, Zero
<1>1. TypeInv
  BY DEF TypeInv, Places
<1>2. CountInv
  BY DEF CountInv
<1>3. StartInv
  BY DEF StartInv
<1>4. OnlyLateTicksAreLost
  BY Zenon DEF OnlyLateTicksAreLost
<1> QED
  BY <1>1, <1>2, <1>3, <1>4 DEF TicksInv

(* One step for each action: the types and the order of the counts, and    *)
(* the account of each program.                                            *)
LEMMA TicksNextInv == TicksInv /\ [Next]_vars => TicksInv'
<1> SUFFICES ASSUME TicksInv, [Next]_vars PROVE TicksInv'
  OBVIOUS
<1> USE TicksAssumption DEF TicksInv, TypeInv, Places
<1>1. CASE hpet
  <2> USE <1>1 DEF hpet
  <2>1. TypeInv'
    OBVIOUS
  <2>2. CountInv'
    BY DEF CountInv
  <2>3. StartInv'
    BY DEF StartInv, CountInv
  <2>4. OnlyLateTicksAreLost'
    BY DEF OnlyLateTicksAreLost, Owed, StartInv
  <2> QED
    BY <2>1, <2>2, <2>3, <2>4
<1>2. ASSUME NEW p \in Programs, execute(p) PROVE TicksInv'
  <2> USE <1>2 DEF execute
  <2>1. TypeInv'
    OBVIOUS
  <2>2. CountInv'
    BY DEF CountInv
  <2>3. StartInv'
    BY DEF StartInv, CountInv
  <2>4. OnlyLateTicksAreLost'
    BY DEF OnlyLateTicksAreLost, Owed, StartInv
  <2> QED
    BY <2>1, <2>2, <2>3, <2>4
<1>3. CASE BeginUpdates
  <2> USE <1>3 DEF BeginUpdates
  <2>1. TypeInv'
    OBVIOUS
  <2>2. CountInv'
    BY DEF CountInv
  <2>3. StartInv'
    BY DEF StartInv, CountInv
  <2>4. OnlyLateTicksAreLost'
    BY DEF OnlyLateTicksAreLost, Owed, StartInv
  <2> QED
    BY <2>1, <2>2, <2>3, <2>4
<1>4. ASSUME NEW p \in Programs, Update(p) PROVE TicksInv'
  <2> USE <1>4 DEF Update
  <2>1. TypeInv'
    OBVIOUS
  <2>2. CountInv'
    BY DEF CountInv
  <2>3. StartInv'
    BY DEF StartInv, CountInv
  <2>4. OnlyLateTicksAreLost'
    BY DEF OnlyLateTicksAreLost, Owed, StartInv
  <2> QED
    BY <2>1, <2>2, <2>3, <2>4
<1>5. CASE UpdatesDone
  <2> USE <1>5 DEF UpdatesDone
  <2>1. TypeInv'
    OBVIOUS
  <2>2. CountInv'
    BY DEF CountInv
  <2>3. StartInv'
    BY DEF StartInv, CountInv
  <2>4. OnlyLateTicksAreLost'
    BY DEF OnlyLateTicksAreLost, Owed, StartInv
  <2> QED
    BY <2>1, <2>2, <2>3, <2>4
<1>6. CASE Copy
  <2> USE <1>6 DEF Copy
  <2>1. TypeInv'
    OBVIOUS
  <2>2. CountInv'
    BY DEF CountInv
  <2>3. StartInv'
    BY DEF StartInv, CountInv
  <2>4. OnlyLateTicksAreLost'
    BY DEF OnlyLateTicksAreLost, Owed, StartInv
  <2> QED
    BY <2>1, <2>2, <2>3, <2>4
<1>7. CASE Reset
  <2> USE <1>7 DEF Reset
  <2>1. TypeInv'
    OBVIOUS
  <2>2. CountInv'
    BY DEF CountInv
  <2>3. StartInv'
    BY DEF StartInv, CountInv
  <2>4. OnlyLateTicksAreLost'
    BY DEF OnlyLateTicksAreLost, Owed, StartInv
  <2> QED
    BY <2>1, <2>2, <2>3, <2>4
<1>8. CASE UNCHANGED vars
  BY <1>8 DEF vars, CountInv, StartInv, OnlyLateTicksAreLost, Owed
<1> QED
  BY <1>1, <1>2, <1>3, <1>4, <1>5, <1>6, <1>7, <1>8 DEF Next

(* The invariant holds for any programs, started at any time.              *)
THEOREM TicksSpecInv == Spec => []TicksInv
<1> QED
  BY TicksInitInv, TicksNextInv, PTL DEF Spec

(* The counters keep within the interrupts there were.                     *)
THEOREM TicksSpecTypeOK == Spec => []TypeOK
<1>1. TicksInv => TypeOK
  <2> SUFFICES ASSUME TicksInv PROVE TypeOK
    OBVIOUS
  <2> USE TicksAssumption DEF TicksInv, TypeInv, CountInv, StartInv
  <2>1. hpetCounter <= elapsed /\ ticks <= elapsed
    BY DEF Places
  <2>2. \A p \in Programs :
          since[p] \in 0 .. MaxTicks /\ early[p] \in 0 .. MaxTicks
    <3> SUFFICES ASSUME NEW p \in Programs
                 PROVE  since[p] \in 0 .. MaxTicks /\ early[p] \in 0 .. MaxTicks
      BY Zenon
    <3>1. since[p] \in Nat /\ early[p] \in Nat
      OBVIOUS
    <3> QED
      BY <3>1
  <2>3. \A p \in Programs : told[p] \in 0 .. MaxTicks /\ late[p] \in 0 .. MaxTicks
    <3> SUFFICES ASSUME NEW p \in Programs
                 PROVE  told[p] \in 0 .. MaxTicks /\ late[p] \in 0 .. MaxTicks
      BY Zenon
    <3>1. CASE p \notin running
      BY <3>1
    <3>2. CASE p \in running
      <4>1. Owed(p) \in Nat
        BY DEF Owed
      <4>2. told[p] + Owed(p) + late[p] = (elapsed - since[p]) + early[p]
        BY <3>2 DEF OnlyLateTicksAreLost
      <4> QED
        BY <4>1, <4>2
    <3> QED
      BY <3>1, <3>2
  <2> QED
    BY <2>1, <2>2, <2>3 DEF TypeOK, Places
<1> QED
  BY <1>1, TicksSpecInv, PTL

(* A program's time is all the time there was, but for what came between   *)
(* the copy and the reset.                                                 *)
THEOREM TicksSpecOnlyLateTicksAreLost == Spec => []OnlyLateTicksAreLost
<1>1. TicksInv => OnlyLateTicksAreLost
  BY DEF TicksInv
<1> QED
  BY <1>1, TicksSpecInv, PTL

-----------------------------------------------------------------------------
(* Services: what its operators compute.                                   *)
LEMMA LeastOf ==
  ASSUME NEW S, S \subseteq Nat, S # {}
  PROVE  Table!Min(S) \in S /\ \A m \in S : Table!Min(S) <= m
<1> DEFINE Below == OpToRel(<, Nat)
<1>1. IsWellFoundedOn(Below, Nat)
  BY NatLessThanWellFounded, Zenon
<1>2. \A m, n \in Nat : <<n, m>> \in Below <=> n < m
  BY DEF OpToRel
<1> HIDE DEF Below
<1>3. PICK m \in S : \A n \in S : ~(<<n, m>> \in Below)
  BY Zenon, <1>1, WFMin
<1>4. ASSUME NEW n \in S PROVE m <= n
  <2>1. m \in Nat /\ n \in Nat /\ ~(n < m)
    BY Zenon, <1>2, <1>3
  <2> QED
    BY <2>1
<1> QED
  BY Zenon, <1>4 DEF Table!Min

LEMMA RemovedAt ==
  ASSUME NEW S, NEW q \in Seq(S), NEW n \in 1 .. Len(q)
  PROVE  /\ Table!RemoveAt(q, n) \in Seq(S)
         /\ Len(Table!RemoveAt(q, n)) = Len(q) - 1
         /\ \A k \in 1 .. Len(q) - 1 :
              Table!RemoveAt(q, n)[k] = IF k < n THEN q[k] ELSE q[k + 1]
<1> DEFINE a == SubSeq(q, 1, n - 1)
           b == SubSeq(q, n + 1, Len(q))
<1>1. Len(q) \in Nat /\ n \in Nat /\ 1 <= n /\ n <= Len(q)
  BY LenProperties
<1>2. /\ a \in Seq(S) /\ Len(a) = n - 1
      /\ \A k \in 1 .. n - 1 : a[k] = q[k]
  <2>1. n - 1 <= Len(q) /\ n - 1 \in Int
    BY <1>1
  <2> QED
    BY <1>1, <2>1, SubSeqProperties
<1>3. /\ b \in Seq(S) /\ Len(b) = Len(q) - n
      /\ \A k \in 1 .. Len(q) - n : b[k] = q[n + k]
  BY <1>1, SubSeqProperties
<1> HIDE DEF a, b
<1>4. /\ a \o b \in Seq(S) /\ Len(a \o b) = Len(a) + Len(b)
      /\ \A k \in 1 .. Len(a) + Len(b) :
           (a \o b)[k] = IF k <= Len(a) THEN a[k] ELSE b[k - Len(a)]
  BY Zenon, <1>2, <1>3, ConcatProperties
<1>5. Table!RemoveAt(q, n) = a \o b
  BY DEF Table!RemoveAt, a, b
<1>6. ASSUME NEW k \in 1 .. Len(q) - 1
      PROVE  (a \o b)[k] = IF k < n THEN q[k] ELSE q[k + 1]
  <2>1. k \in 1 .. Len(a) + Len(b)
    BY <1>1, <1>2, <1>3
  <2>2. CASE k < n
    BY <1>1, <1>2, <1>4, <2>1, <2>2
  <2>3. CASE ~(k < n)
    <3>1. k - Len(a) \in 1 .. Len(q) - n /\ n + (k - Len(a)) = k + 1 /\ ~(k <= Len(a))
      BY <1>1, <1>2, <2>3
    <3> QED
      BY Zenon, <1>3, <1>4, <2>1, <2>3, <3>1
  <2> QED
    BY Zenon, <2>2, <2>3
<1> QED
  <2>1. a \o b \in Seq(S) /\ Len(a \o b) = Len(q) - 1
    BY <1>1, <1>2, <1>3, <1>4
  <2> QED
    BY Zenon, <1>5, <1>6, <2>1

-----------------------------------------------------------------------------
(* Services: the invariant.                                                *)
LEMMA ServicesFacts ==
  /\ Reserved \in Nat /\ Reserved > 0 /\ LastNumber \in Nat
  /\ NameOf \in [Providers -> Names]
  /\ Free \notin Providers /\ \A p \in Providers : p \notin Clients
  /\ \A n : n \in Table!Numbers <=> n \in Nat /\ Reserved <= n /\ n <= LastNumber
  /\ 0 \notin Table!Numbers
BY KernelAssumption DEF Table!ServicesAssumption, Table!Numbers

(* ListMatches, entry by entry.                                            *)
Entry(p) == [name |-> NameOf[p], id |-> syscall[p]]

Once ==
  \A m, n \in 1 .. Len(syscallIds) : syscallIds[m].id = syscallIds[n].id => m = n

Listed ==
  \A n \in 1 .. Len(syscallIds) :
    \E p \in Providers : syscall[p] # 0 /\ syscallIds[n] = Entry(p)

OnList ==
  \A p \in Providers :
    syscall[p] # 0 => \E n \in 1 .. Len(syscallIds) : syscallIds[n] = Entry(p)

Holds ==
  \A p \in Providers, n \in Table!Numbers : syscall[p] = n <=> syscallHandlers[n] = p

LEMMA ByEntry ==
  Table!TypeOK => (Table!ListMatches <=> Once /\ Listed /\ OnList /\ Holds)
<1> SUFFICES ASSUME Table!TypeOK
             PROVE  Table!ListMatches <=> Once /\ Listed /\ OnList /\ Holds
  OBVIOUS
<1>1. DOMAIN syscallIds = 1 .. Len(syscallIds)
  BY LenProperties DEF Table!TypeOK
<1> DEFINE held == {Entry(p) : p \in {q \in Providers : syscall[q] # 0}}
<1>2. Table!ToSet(syscallIds) = held <=> Listed /\ OnList
  <2>1. Table!ToSet(syscallIds) = {syscallIds[n] : n \in 1 .. Len(syscallIds)}
    BY <1>1 DEF Table!ToSet
  <2>2. Table!ToSet(syscallIds) \subseteq held <=> Listed
    BY <2>1 DEF Listed
  <2>3. held \subseteq Table!ToSet(syscallIds) <=> OnList
    BY Zenon, <2>1 DEF OnList
  <2> HIDE DEF held
  <2> QED
    BY <2>2, <2>3
<1> QED
  BY <1>1, <1>2 DEF Table!ListMatches, Once, Holds, Entry, Table!NoNumber

LEMMA ServicesInit == Table!Init => Table!Inv
<1> SUFFICES ASSUME Table!Init PROVE Table!Inv
  OBVIOUS
<1> USE ServicesFacts DEF Table!Init, Table!NoNumber
<1>1. syscallIds = <<>> /\ Len(syscallIds) = 0
  OBVIOUS
<1>2. Table!TypeOK
  <2>1. syscallIds \in Seq([name : Names, id : Table!Numbers])
    BY <1>1
  <2> QED
    BY <2>1 DEF Table!TypeOK
<1>3. Table!ListMatches
  <2>1. Once /\ Listed /\ OnList
    BY <1>1 DEF Once, Listed, OnList
  <2>2. Holds
    BY DEF Holds
  <2> QED
    BY <1>2, <2>1, <2>2, ByEntry
<1>4. Table!KeptNumberLeadsBack /\ Table!NumberInUse
  BY DEF Table!KeptNumberLeadsBack, Table!NumberInUse
<1> QED
  BY <1>2, <1>3, <1>4 DEF Table!Inv

(* A provider's number was free, so no client keeps it.                    *)
LEMMA RegisterPreserves ==
  ASSUME Table!Inv, NEW p \in Providers, Table!registerSyscallHandler(p)
  PROVE  Table!Inv'
<1> USE ServicesFacts
<1> DEFINE id == Table!FirstFree
<1>0. Table!TypeOK /\ Once /\ Listed /\ OnList /\ Holds
  BY ByEntry DEF Table!Inv
<1>1. id \in Table!Numbers /\ syscallHandlers[id] = Free
  <2>1. Table!FreeNumbers \subseteq Nat /\ Table!FreeNumbers # {}
    BY DEF Table!FreeNumbers, Table!registerSyscallHandler
  <2>2. Table!FirstFree \in Table!FreeNumbers
    BY Zenon, <2>1, LeastOf DEF Table!FirstFree
  <2> QED
    BY <2>2 DEF Table!FreeNumbers
<1> HIDE DEF id
<1> DEFINE e == [name |-> NameOf[p], id |-> id]
<1>2. /\ syscall[p] = 0 /\ windows' = windows
      /\ syscallHandlers' = [syscallHandlers EXCEPT ![id] = p]
      /\ syscallIds' = Append(syscallIds, e)
      /\ syscall' = [syscall EXCEPT ![p] = id]
  BY DEF Table!registerSyscallHandler, Table!NoNumber, id
<1>3. /\ syscallIds \in Seq([name : Names, id : Table!Numbers])
      /\ e \in [name : Names, id : Table!Numbers]
      /\ e.id = id /\ Len(syscallIds) \in Nat
  BY <1>0, <1>1, LenProperties DEF Table!TypeOK
<1>4. /\ syscallIds' \in Seq([name : Names, id : Table!Numbers])
      /\ Len(syscallIds') = Len(syscallIds) + 1
      /\ \A n \in 1 .. Len(syscallIds) : syscallIds'[n] = syscallIds[n]
      /\ syscallIds'[Len(syscallIds) + 1] = e
  <2> HIDE DEF e
  <2> QED BY <1>2, <1>3, AppendProperties
<1>5. \A q \in Providers \cup Clients : syscall'[q] = IF q = p THEN id ELSE syscall[q]
  BY <1>0, <1>2 DEF Table!TypeOK
<1>6. \A n \in Table!Numbers :
        syscallHandlers'[n] = IF n = id THEN p ELSE syscallHandlers[n]
  BY <1>0, <1>2 DEF Table!TypeOK
<1>7. Table!TypeOK'
  BY <1>0, <1>1, <1>2, <1>4 DEF Table!TypeOK
<1>8. \A q \in Providers : syscall[q] # id
  BY <1>0, <1>1 DEF Holds
<1>9. \A n \in 1 .. Len(syscallIds) : syscallIds[n].id # id
  <2> SUFFICES ASSUME NEW n \in 1 .. Len(syscallIds) PROVE syscallIds[n].id # id
    OBVIOUS
  <2>1. PICK q \in Providers : syscall[q] # 0 /\ syscallIds[n] = Entry(q)
    BY <1>0 DEF Listed
  <2>2. syscallIds[n].id = syscall[q]
    BY <2>1 DEF Entry
  <2> QED
    BY <1>8, <2>2
<1>10. Once'
  <2> SUFFICES ASSUME NEW m \in 1 .. Len(syscallIds'), NEW n \in 1 .. Len(syscallIds'),
                      syscallIds'[m].id = syscallIds'[n].id
               PROVE  m = n
    BY DEF Once
  <2>1. \A k \in 1 .. Len(syscallIds') : k \in 1 .. Len(syscallIds) \/ k = Len(syscallIds) + 1
    BY <1>3, <1>4
  <2> HIDE DEF e
  <2>2. CASE m \in 1 .. Len(syscallIds) /\ n \in 1 .. Len(syscallIds)
    BY Zenon, <1>0, <1>4, <2>2 DEF Once
  <2>3. CASE m = Len(syscallIds) + 1 /\ n \in 1 .. Len(syscallIds)
    BY <1>3, <1>4, <1>9, <2>3
  <2>4. CASE n = Len(syscallIds) + 1 /\ m \in 1 .. Len(syscallIds)
    BY Zenon, <1>3, <1>4, <1>9, <2>4
  <2> QED
    BY <2>1, <2>2, <2>3, <2>4
<1>11. Listed'
  <2> SUFFICES ASSUME NEW n \in 1 .. Len(syscallIds')
               PROVE  \E q \in Providers : syscall'[q] # 0 /\ syscallIds'[n] = Entry(q)'
    BY DEF Listed
  <2>1. CASE n = Len(syscallIds) + 1
    <3>1. syscallIds'[n] = Entry(p)' /\ syscall'[p] # 0
      BY <1>1, <1>4, <1>5, <2>1 DEF Entry
    <3> QED
      BY <3>1
  <2>2. CASE n \in 1 .. Len(syscallIds)
    <3>1. PICK q \in Providers : syscall[q] # 0 /\ syscallIds[n] = Entry(q)
      BY <1>0, <2>2 DEF Listed
    <3>2. q # p
      BY <1>2, <3>1
    <3>3. syscall'[q] # 0 /\ syscallIds'[n] = Entry(q)'
      BY <1>4, <1>5, <2>2, <3>1, <3>2 DEF Entry
    <3> QED
      BY <3>3
  <2> QED
    BY <1>3, <1>4, <2>1, <2>2
<1>12. OnList'
  <2> SUFFICES ASSUME NEW q \in Providers, syscall'[q] # 0
               PROVE  \E n \in 1 .. Len(syscallIds') : syscallIds'[n] = Entry(q)'
    BY DEF OnList
  <2>1. CASE q = p
    <3>1. Len(syscallIds) + 1 \in 1 .. Len(syscallIds')
      BY <1>3, <1>4
    <3>2. syscallIds'[Len(syscallIds) + 1] = Entry(q)'
      BY <1>4, <1>5, <2>1 DEF Entry
    <3> QED
      BY <3>1, <3>2
  <2>2. CASE q # p
    <3>1. PICK n \in 1 .. Len(syscallIds) : syscallIds[n] = Entry(q)
      BY <1>0, <1>5, <2>2 DEF OnList
    <3>2. n \in 1 .. Len(syscallIds') /\ syscallIds'[n] = Entry(q)'
      BY <1>3, <1>4, <1>5, <2>2, <3>1 DEF Entry
    <3> QED
      BY <3>2
  <2> QED
    BY <2>1, <2>2
<1>13. Holds'
  <2> SUFFICES ASSUME NEW q \in Providers, NEW n \in Table!Numbers
               PROVE  syscall'[q] = n <=> syscallHandlers'[n] = q
    BY DEF Holds
  <2>1. CASE n = id
    BY <1>1, <1>5, <1>6, <1>8, <2>1
  <2>2. CASE n # id
    BY <1>0, <1>2, <1>5, <1>6, <2>2 DEF Holds
  <2> QED
    BY <2>1, <2>2
<1>14. Table!ListMatches'
  BY <1>7, <1>10, <1>11, <1>12, <1>13, ByEntry, PTL
<1>15. ASSUME NEW c \in Clients
       PROVE  /\ syscall'[c] = syscall[c]
              /\ syscall[c] # 0 => /\ syscall[c] \in Table!Numbers
                                   /\ syscallHandlers[syscall[c]] # Free
                                   /\ syscallHandlers'[syscall[c]] = syscallHandlers[syscall[c]]
  <2>1. syscall'[c] = syscall[c]
    BY <1>5
  <2>2. syscall[c] # 0 => syscall[c] \in Table!Numbers /\ syscallHandlers[syscall[c]] # Free
    BY <1>0 DEF Table!TypeOK, Table!Inv, Table!NumberInUse, Table!NoNumber
  <2> QED
    BY <1>1, <1>6, <2>1, <2>2
<1>16. Table!KeptNumberLeadsBack' /\ Table!NumberInUse'
  BY <1>2, <1>15 DEF Table!Inv, Table!KeptNumberLeadsBack, Table!NumberInUse, Table!NoNumber
<1> QED
  BY <1>7, <1>14, <1>16 DEF Table!Inv

(* A provider goes when it has no windows, so no client keeps its number.  *)
LEMMA QuitPreserves ==
  ASSUME Table!Inv, NEW p \in Providers, Table!Quit(p)
  PROVE  Table!Inv'
<1> USE ServicesFacts
<1> DEFINE id == syscall[p]
           e == [name : Names, id : Table!Numbers]
<1>0. Table!TypeOK /\ Once /\ Listed /\ OnList /\ Holds
  BY ByEntry DEF Table!Inv
<1>1. id \in Table!Numbers /\ windows[p] = {} /\ syscallHandlers[id] = p
  BY <1>0 DEF Table!Quit, Table!MayGo, Table!TypeOK, Table!NoNumber, Holds
<1>2. PICK n \in DOMAIN syscallIds :
        /\ syscallIds[n].id = id
        /\ syscallHandlers' = [syscallHandlers EXCEPT ![id] = Free]
        /\ syscallIds' = Table!RemoveAt(syscallIds, n)
  BY DEF Table!Quit, Table!unregisterSyscallHandler
<1>3. /\ syscallIds \in Seq(e) /\ Len(syscallIds) \in Nat /\ n \in 1 .. Len(syscallIds)
      /\ DOMAIN syscallIds = 1 .. Len(syscallIds)
  BY <1>0, <1>2, LenProperties DEF Table!TypeOK
<1>4. /\ syscallIds' \in Seq(e) /\ Len(syscallIds') = Len(syscallIds) - 1
      /\ \A k \in 1 .. Len(syscallIds) - 1 :
           syscallIds'[k] = IF k < n THEN syscallIds[k] ELSE syscallIds[k + 1]
  <2> HIDE DEF e
  <2> QED BY Zenon, <1>2, <1>3, RemovedAt
<1>5. /\ windows' = windows
      /\ \A q \in Providers \cup Clients : syscall'[q] = IF q = p THEN 0 ELSE syscall[q]
      /\ \A m \in Table!Numbers :
           syscallHandlers'[m] = IF m = id THEN Free ELSE syscallHandlers[m]
  BY <1>0, <1>1, <1>2 DEF Table!Quit, Table!TypeOK, Table!NoNumber
<1>6. Table!TypeOK'
  <2>1. /\ syscallHandlers' \in [Table!Numbers -> Providers \cup {Free}]
        /\ syscall' \in [Providers \cup Clients -> Table!Numbers \cup {Table!NoNumber}]
    BY <1>0, <1>1, <1>2 DEF Table!Quit, Table!TypeOK
  <2> QED
    BY <1>0, <1>4, <1>5, <2>1 DEF Table!TypeOK
<1> HIDE DEF id, e
(* Where an entry that stays has been.                                     *)
<1>7. ASSUME NEW k \in 1 .. Len(syscallIds')
      PROVE  \E m \in 1 .. Len(syscallIds) :
               /\ m = IF k < n THEN k ELSE k + 1
               /\ m # n /\ syscallIds'[k] = syscallIds[m]
  <2>1. k \in 1 .. Len(syscallIds) - 1
    BY <1>4
  <2>2. CASE k < n
    <3>1. k \in 1 .. Len(syscallIds) /\ k # n /\ syscallIds'[k] = syscallIds[k]
      BY <1>3, <1>4, <2>1, <2>2
    <3> QED BY <2>2, <3>1
  <2>3. CASE ~(k < n)
    <3>1. k + 1 \in 1 .. Len(syscallIds) /\ k + 1 # n /\ syscallIds'[k] = syscallIds[k + 1]
      BY <1>3, <1>4, <2>1, <2>3
    <3> QED BY <2>3, <3>1
  <2> QED
    BY <2>2, <2>3
<1>8. ASSUME NEW m \in 1 .. Len(syscallIds), m # n
      PROVE  \E k \in 1 .. Len(syscallIds') : syscallIds'[k] = syscallIds[m]
  <2>1. CASE m < n
    <3>1. m \in 1 .. Len(syscallIds) - 1 /\ m \in 1 .. Len(syscallIds')
      BY <1>3, <1>4, <2>1
    <3> QED BY <1>4, <2>1, <3>1
  <2>2. CASE ~(m < n)
    <3>1. m - 1 \in 1 .. Len(syscallIds) - 1 /\ ~(m - 1 < n) /\ (m - 1) + 1 = m
      BY <1>3, <1>8, <2>2
    <3> QED BY <1>4, <3>1
  <2> QED
    BY <2>1, <2>2
<1>9. Once'
  <2> SUFFICES ASSUME NEW k \in 1 .. Len(syscallIds'), NEW l \in 1 .. Len(syscallIds'),
                      syscallIds'[k].id = syscallIds'[l].id
               PROVE  k = l
    BY DEF Once
  <2>1. PICK m \in 1 .. Len(syscallIds) :
          m = (IF k < n THEN k ELSE k + 1) /\ syscallIds'[k] = syscallIds[m]
    BY <1>7
  <2>2. PICK o \in 1 .. Len(syscallIds) :
          o = (IF l < n THEN l ELSE l + 1) /\ syscallIds'[l] = syscallIds[o]
    BY <1>7
  <2>3. m = o
    BY <1>0, <2>1, <2>2 DEF Once
  <2> QED
    BY <1>3, <2>1, <2>2, <2>3
<1>10. Listed'
  <2> SUFFICES ASSUME NEW k \in 1 .. Len(syscallIds')
               PROVE  \E q \in Providers : syscall'[q] # 0 /\ syscallIds'[k] = Entry(q)'
    BY DEF Listed
  <2>1. PICK m \in 1 .. Len(syscallIds) : m # n /\ syscallIds'[k] = syscallIds[m]
    BY <1>7
  <2>2. PICK q \in Providers : syscall[q] # 0 /\ syscallIds[m] = Entry(q)
    BY <1>0 DEF Listed
  <2>3. q # p
    BY <1>0, <1>2, <1>3, <2>1, <2>2 DEF Once, Entry, id
  <2>4. syscall'[q] # 0 /\ syscallIds'[k] = Entry(q)'
    BY <1>5, <2>1, <2>2, <2>3 DEF Entry
  <2> QED
    BY <2>4
<1>11. OnList'
  <2> SUFFICES ASSUME NEW q \in Providers, syscall'[q] # 0
               PROVE  \E k \in 1 .. Len(syscallIds') : syscallIds'[k] = Entry(q)'
    BY DEF OnList
  <2>1. q # p /\ syscall'[q] = syscall[q]
    BY <1>5
  <2>2. PICK m \in 1 .. Len(syscallIds) : syscallIds[m] = Entry(q)
    BY <1>0, <2>1 DEF OnList
  <2>3. m # n
    <3>1. syscall[q] # id
      BY <1>0, <1>1, <2>1 DEF Holds
    <3> QED
      BY <1>2, <2>2, <3>1 DEF Entry
  <2>4. PICK k \in 1 .. Len(syscallIds') : syscallIds'[k] = syscallIds[m]
    BY <1>8, <2>3
  <2> QED
    BY <2>1, <2>2, <2>4 DEF Entry
<1>12. Holds'
  <2> SUFFICES ASSUME NEW q \in Providers, NEW m \in Table!Numbers
               PROVE  syscall'[q] = m <=> syscallHandlers'[m] = q
    BY DEF Holds
  <2>1. CASE q = p
    BY <1>0, <1>1, <1>5, <2>1 DEF Holds, id
  <2>2. CASE q # p
    BY <1>0, <1>1, <1>5, <2>2 DEF Holds
  <2> QED
    BY <2>1, <2>2
<1>13. Table!ListMatches'
  BY <1>6, <1>9, <1>10, <1>11, <1>12, ByEntry, PTL
<1>14. ASSUME NEW c \in Clients
       PROVE  /\ syscall'[c] = syscall[c]
              /\ syscall[c] # 0 => /\ syscall[c] \in Table!Numbers
                                   /\ syscallHandlers[syscall[c]] # Free
                                   /\ syscallHandlers'[syscall[c]] = syscallHandlers[syscall[c]]
  <2>1. syscall'[c] = syscall[c]
    BY <1>5
  <2>2. syscall[c] # 0 => syscall[c] \in Table!Numbers /\ syscallHandlers[syscall[c]] # Free
    BY <1>0 DEF Table!TypeOK, Table!Inv, Table!NumberInUse, Table!NoNumber
  <2>3. syscall[c] # 0 => syscall[c] # id
    BY <1>1 DEF Table!Inv, Table!KeptNumberLeadsBack, Table!NoNumber
  <2> QED
    BY <1>5, <2>1, <2>2, <2>3
<1>15. Table!KeptNumberLeadsBack' /\ Table!NumberInUse'
  BY <1>5, <1>14 DEF Table!Inv, Table!KeptNumberLeadsBack, Table!NumberInUse, Table!NoNumber
<1> QED
  BY <1>6, <1>13, <1>15 DEF Table!Inv

(* What a provider or the list says of the table does not depend on the    *)
(* numbers that clients keep.                                              *)
LEMMA ClientStepKeeps ==
  ASSUME Table!Inv, Table!TypeOK',
         UNCHANGED <<syscallHandlers, syscallIds>>,
         \A p \in Providers : syscall'[p] = syscall[p]
  PROVE  Table!ListMatches'
<1>1. Once /\ Listed /\ OnList /\ Holds
  BY ByEntry DEF Table!Inv
<1>2. \A p \in Providers : Entry(p)' = Entry(p)
  BY DEF Entry
<1>3. Once' /\ Holds'
  BY <1>1 DEF Once, Holds
<1>4. Listed' /\ OnList'
  BY Zenon, <1>1, <1>2 DEF Listed, OnList
<1> QED
  BY <1>3, <1>4, ByEntry, PTL

LEMMA StartPreserves ==
  ASSUME Table!Inv, NEW c \in Clients, NEW name \in Names, Table!Start(c, name)
  PROVE  Table!Inv'
<1> USE ServicesFacts
<1> DEFINE id == Table!getRegisteredSyscall(name)
           of == {n \in DOMAIN syscallIds : syscallIds[n].name = name}
<1>0. Table!TypeOK /\ Once /\ Listed /\ OnList /\ Holds
  BY ByEntry DEF Table!Inv
<1>1. /\ syscall[c] = 0 /\ id # 0
      /\ syscall' = [syscall EXCEPT ![c] = id]
      /\ windows' = [windows EXCEPT ![syscallHandlers[id]] = @ \cup {c}]
      /\ UNCHANGED <<syscallHandlers, syscallIds>>
  BY DEF Table!Start, Table!NoNumber
<1>2. PICK q \in Providers : syscall[q] = id /\ id \in Table!Numbers
                             /\ syscallHandlers[id] = q
  <2>1. of # {} /\ id = syscallIds[Table!Min(of)].id
    BY <1>1 DEF Table!getRegisteredSyscall, Table!NoNumber
  <2>2. DOMAIN syscallIds = 1 .. Len(syscallIds) /\ Len(syscallIds) \in Nat
    BY <1>0, LenProperties DEF Table!TypeOK
  <2>3. of \subseteq Nat /\ of \subseteq 1 .. Len(syscallIds)
    BY <2>2
  <2> HIDE DEF of
  <2>4. Table!Min(of) \in 1 .. Len(syscallIds)
    BY Zenon, <2>1, <2>3, LeastOf
  <2>5. PICK q \in Providers : syscall[q] # 0 /\ syscallIds[Table!Min(of)] = Entry(q)
    BY <1>0, <2>4 DEF Listed
  <2>6. syscall[q] = id
    BY <2>1, <2>5 DEF Entry
  <2>7. id \in Table!Numbers
    BY <1>0, <2>5, <2>6 DEF Table!TypeOK, Table!NoNumber
  <2> QED
    BY <1>0, <2>6, <2>7 DEF Holds
<1> HIDE DEF id, of
<1>3. /\ \A d \in Providers \cup Clients : syscall'[d] = IF d = c THEN id ELSE syscall[d]
      /\ \A p \in Providers : windows'[p] = IF p = q THEN windows[p] \cup {c} ELSE windows[p]
  BY Zenon, <1>0, <1>1, <1>2 DEF Table!TypeOK
<1>4. \A p \in Providers : c \notin windows[p]
  BY <1>1 DEF Table!Inv, Table!NumberInUse, Table!NoNumber
<1>5. Table!TypeOK'
  <2>1. /\ windows' \in [Providers -> SUBSET Clients]
        /\ syscall' \in [Providers \cup Clients -> Table!Numbers \cup {Table!NoNumber}]
    BY <1>0, <1>1, <1>2 DEF Table!TypeOK
  <2>2. \A p, r \in Providers : p # r => windows'[p] \cap windows'[r] = {}
    <3> SUFFICES ASSUME NEW p \in Providers, NEW r \in Providers,
                        NEW d, d \in windows'[p], d \in windows'[r]
                 PROVE  p = r
      OBVIOUS
    <3>1. windows[p] \cap windows[r] # {} => p = r
      BY <1>0 DEF Table!TypeOK
    <3>2. CASE d = c
      BY Zenon, <1>3, <1>4, <3>2
    <3>3. CASE d # c
      <4>1. d \in windows[p] /\ d \in windows[r]
        BY Zenon, <1>3, <3>3
      <4> QED
        BY <3>1, <4>1
    <3> QED
      BY <3>2, <3>3
  <2> QED
    BY <1>0, <1>1, <2>1, <2>2 DEF Table!TypeOK
<1>6. Table!ListMatches'
  <2>1. \A p \in Providers : syscall'[p] = syscall[p]
    BY <1>3
  <2> QED
    BY <1>1, <1>5, <2>1, ClientStepKeeps
<1>7. Table!KeptNumberLeadsBack'
  <2> SUFFICES ASSUME NEW d \in Clients, syscall'[d] # 0, NEW p \in Providers
               PROVE  d \in windows'[p] <=> syscallHandlers'[syscall'[d]] = p
    BY DEF Table!KeptNumberLeadsBack, Table!NoNumber
  <2>1. CASE d = c
    BY <1>1, <1>2, <1>3, <1>4, <2>1
  <2>2. CASE d # c
    BY <1>1, <1>3, <2>2 DEF Table!Inv, Table!KeptNumberLeadsBack, Table!NoNumber
  <2> QED
    BY <2>1, <2>2
<1>8. Table!NumberInUse'
  <2> SUFFICES ASSUME NEW d \in Clients
               PROVE  IF syscall'[d] = 0 THEN \A p \in Providers : d \notin windows'[p]
                      ELSE syscallHandlers'[syscall'[d]] # Free
    BY DEF Table!NumberInUse, Table!NoNumber
  <2>1. CASE d = c
    BY <1>1, <1>2, <1>3, <2>1
  <2>2. CASE d # c
    BY <1>1, <1>3, <2>2 DEF Table!Inv, Table!NumberInUse, Table!NoNumber
  <2> QED
    BY <2>1, <2>2
<1> QED
  BY <1>5, <1>6, <1>7, <1>8 DEF Table!Inv

LEMMA ClosePreserves ==
  ASSUME Table!Inv, NEW c \in Clients, Table!Close(c)
  PROVE  Table!Inv'
<1> USE ServicesFacts
<1> DEFINE id == syscall[c]
           q == syscallHandlers[id]
<1>0. Table!TypeOK
  BY DEF Table!Inv
<1>1. /\ id \in Table!Numbers /\ q \in Providers
      /\ windows' = [windows EXCEPT ![q] = @ \ {c}]
      /\ syscall' = [syscall EXCEPT ![c] = 0]
      /\ UNCHANGED <<syscallHandlers, syscallIds>>
  BY <1>0 DEF Table!Close, Table!TypeOK, Table!NoNumber
<1>2. \A p \in Providers : c \in windows[p] => p = q
  BY <1>1 DEF Table!Inv, Table!KeptNumberLeadsBack, Table!NoNumber
<1> HIDE DEF id, q
<1>3. /\ \A d \in Providers \cup Clients : syscall'[d] = IF d = c THEN 0 ELSE syscall[d]
      /\ \A p \in Providers : windows'[p] = IF p = q THEN windows[p] \ {c} ELSE windows[p]
  BY Zenon, <1>0, <1>1 DEF Table!TypeOK
<1>4. Table!TypeOK'
  <2>1. /\ windows' \in [Providers -> SUBSET Clients]
        /\ syscall' \in [Providers \cup Clients -> Table!Numbers \cup {Table!NoNumber}]
    BY <1>0, <1>1 DEF Table!TypeOK, Table!NoNumber
  <2>2. \A p \in Providers : windows'[p] \subseteq windows[p]
    BY Zenon, <1>3
  <2>3. \A p, r \in Providers : p # r => windows[p] \cap windows[r] = {}
    BY <1>0 DEF Table!TypeOK
  <2>4. \A p, r \in Providers : p # r => windows'[p] \cap windows'[r] = {}
    BY <2>2, <2>3
  <2> QED
    BY <1>0, <1>1, <2>1, <2>4 DEF Table!TypeOK
<1>5. Table!ListMatches'
  <2>1. \A p \in Providers : syscall'[p] = syscall[p]
    BY <1>3
  <2> QED
    BY <1>1, <1>4, <2>1, ClientStepKeeps
<1>6. Table!KeptNumberLeadsBack'
  <2> SUFFICES ASSUME NEW d \in Clients, syscall'[d] # 0, NEW p \in Providers
               PROVE  d \in windows'[p] <=> syscallHandlers'[syscall'[d]] = p
    BY DEF Table!KeptNumberLeadsBack, Table!NoNumber
  <2>1. d # c /\ syscall'[d] = syscall[d]
    BY <1>3
  <2>2. d \in windows'[p] <=> d \in windows[p]
    BY Zenon, <1>3, <2>1
  <2> QED
    BY <1>1, <2>1, <2>2 DEF Table!Inv, Table!KeptNumberLeadsBack, Table!NoNumber
<1>7. Table!NumberInUse'
  <2> SUFFICES ASSUME NEW d \in Clients
               PROVE  IF syscall'[d] = 0 THEN \A p \in Providers : d \notin windows'[p]
                      ELSE syscallHandlers'[syscall'[d]] # Free
    BY DEF Table!NumberInUse, Table!NoNumber
  <2>1. CASE d = c
    BY Zenon, <1>2, <1>3, <2>1
  <2>2. CASE d # c
    BY <1>1, <1>3, <2>2 DEF Table!Inv, Table!NumberInUse, Table!NoNumber
  <2> QED
    BY <2>1, <2>2
<1> QED
  BY <1>4, <1>5, <1>6, <1>7 DEF Table!Inv

LEMMA ServicesNext == Table!Inv /\ [Table!Next]_tableVars => Table!Inv'
<1> SUFFICES ASSUME Table!Inv, [Table!Next]_tableVars PROVE Table!Inv'
  OBVIOUS
<1>1. ASSUME NEW p \in Providers, Table!registerSyscallHandler(p) PROVE Table!Inv'
  BY <1>1, RegisterPreserves
<1>2. ASSUME NEW p \in Providers, Table!Quit(p) PROVE Table!Inv'
  BY <1>2, QuitPreserves
<1>3. ASSUME NEW c \in Clients, Table!Close(c) PROVE Table!Inv'
  BY <1>3, ClosePreserves
<1>4. ASSUME NEW c \in Clients, NEW name \in Names, Table!Start(c, name) PROVE Table!Inv'
  BY <1>4, StartPreserves
<1>5. CASE UNCHANGED tableVars
  <2>1. UNCHANGED <<syscallHandlers, syscallIds, syscall, windows>>
    BY <1>5 DEF tableVars
  <2>2. Table!TypeOK'
    BY <2>1 DEF Table!Inv, Table!TypeOK
  <2>3. Table!ListMatches'
    BY <2>1, <2>2, ClientStepKeeps
  <2>4. Table!KeptNumberLeadsBack' /\ Table!NumberInUse'
    BY <2>1 DEF Table!Inv, Table!KeptNumberLeadsBack, Table!NumberInUse
  <2> QED
    BY <2>2, <2>3, <2>4 DEF Table!Inv
<1> QED
  BY <1>1, <1>2, <1>3, <1>4, <1>5 DEF Table!Next

-----------------------------------------------------------------------------
(* The table of system calls, the list of names and the numbers that       *)
(* programs keep agree, for any providers, clients and names and a table   *)
(* of any length: a client's last call, however late, goes to the provider *)
(* that has its window.                                                    *)
THEOREM KernelServices == KernelSpec => []ServicesInv
<1>1. KernelInit => Table!Inv
  BY ServicesInit DEF KernelInit
<1>2. Table!Inv /\ [KernelNext]_allVars => Table!Inv'
  <2> SUFFICES ASSUME Table!Inv, [KernelNext]_allVars PROVE Table!Inv'
    OBVIOUS
  <2>1. [Table!Next]_tableVars
    BY DEF KernelNext, ProgramsStep, allVars
  <2> QED
    BY <2>1, ServicesNext
<1> QED
  BY <1>1, <1>2, PTL DEF KernelSpec, ServicesInv

(* And so for the ticks, as part of the kernel's tables.                   *)
THEOREM KernelOnlyLateTicksAreLost == KernelSpec => []OnlyLateTicksAreLost
<1>1. KernelInit => Init
  BY DEF KernelInit
<1>2. [KernelNext]_allVars => [Next]_vars
  BY DEF KernelNext, ProgramsStep, allVars
<1> QED
  BY <1>1, <1>2, TicksSpecOnlyLateTicksAreLost, PTL DEF KernelSpec, Spec

-----------------------------------------------------------------------------
(* The lists. A sequence s of blocks is the list at `from`.                *)
Node(from, s, k) == IF k = 0 THEN from ELSE s[k]

IsList(links, from, s) ==
  /\ \A j, k \in 1..Len(s) : s[j] = s[k] => j = k
  /\ links[Node(from, s, Len(s))] = Null
  /\ \A k \in 1..Len(s) : links[Node(from, s, k - 1)] = s[k]

(* The recursion that defines Items, which comes to an end.               *)
IsVisit(links, D, N, visit) ==
  visit = [k \in 0..N |-> [n \in D |->
             IF k = 0 \/ links[n] = Null THEN <<>> ELSE <<links[n]>> \o visit[k - 1][links[n]]]]

LEMMA VisitDefined ==
  ASSUME NEW D, NEW links \in [D -> D \cup {Null}], NEW N \in Nat
  PROVE  \E visit : IsVisit(links, D, N, visit)
<1> DEFINE P(K) == \E visit : visit = [k \in 0..K |-> [n \in D |->
           IF k = 0 \/ links[n] = Null THEN <<>> ELSE <<links[n]>> \o visit[k - 1][links[n]]]]
           Bad == {K \in Nat : ~P(K)}
<1>1. P(0)
  <2> DEFINE v == [k \in 0..0 |-> [n \in D |-> <<>>]]
  <2>1. v = [k \in 0..0 |-> [n \in D |->
           IF k = 0 \/ links[n] = Null THEN <<>> ELSE <<links[n]>> \o v[k - 1][links[n]]]]
    OBVIOUS
  <2> QED BY Zenon, <2>1
<1>2. ASSUME NEW K \in Nat, P(K) PROVE P(K + 1)
  <2>1. PICK v : v = [k \in 0..K |-> [n \in D |->
           IF k = 0 \/ links[n] = Null THEN <<>> ELSE <<links[n]>> \o v[k - 1][links[n]]]]
    BY <1>2
  <2> DEFINE w == [k \in 0..(K + 1) |-> IF k \in 0..K THEN v[k] ELSE [n \in D |->
                     IF links[n] = Null THEN <<>> ELSE <<links[n]>> \o v[K][links[n]]]]
             body == [k \in 0..(K + 1) |-> [n \in D |->
           IF k = 0 \/ links[n] = Null THEN <<>> ELSE <<links[n]>> \o w[k - 1][links[n]]]]
  <2>2. ASSUME NEW k \in 0..(K + 1) PROVE w[k] = body[k]
    <3>1. CASE k = K + 1
      <4>1. w[k] = [n \in D |->
              IF links[n] = Null THEN <<>> ELSE <<links[n]>> \o v[K][links[n]]]
        BY <3>1
      <4>2. w[k - 1] = v[K]
        BY <3>1
      <4>3. body[k] = [n \in D |->
              IF links[n] = Null THEN <<>> ELSE <<links[n]>> \o w[k - 1][links[n]]]
        BY <3>1
      <4> HIDE DEF w, body
      <4> QED BY <4>1, <4>2, <4>3
    <3>2. CASE k = 0
      <4>1. w[k] = v[k]
        BY <3>2
      <4>2. v[k] = [n \in D |-> <<>>]
        BY <2>1, <3>2
      <4>3. body[k] = [n \in D |-> <<>>]
        BY <3>2
      <4> HIDE DEF w, body
      <4> QED BY <4>1, <4>2, <4>3
    <3>3. CASE k \in 1..K
      <4>1. w[k] = v[k] /\ w[k - 1] = v[k - 1]
        BY <3>3
      <4>2. v[k] = [n \in D |->
              IF links[n] = Null THEN <<>> ELSE <<links[n]>> \o v[k - 1][links[n]]]
        <5>1. k \in 0..K /\ k # 0
          BY <3>3
        <5>2. v[k] = [n \in D |->
                IF k = 0 \/ links[n] = Null THEN <<>> ELSE <<links[n]>> \o v[k - 1][links[n]]]
          BY Zenon, <2>1, <5>1
        <5> QED BY <5>1, <5>2
      <4>3. body[k] = [n \in D |->
              IF links[n] = Null THEN <<>> ELSE <<links[n]>> \o w[k - 1][links[n]]]
        BY <3>3
      <4> HIDE DEF w, body
      <4> QED BY <4>1, <4>2, <4>3
    <3> QED BY <3>1, <3>2, <3>3
  <2>3. w = [k \in 0..(K + 1) |-> w[k]] /\ body = [k \in 0..(K + 1) |-> body[k]]
    OBVIOUS
  <2>4. w = body
    <3> HIDE DEF w, body
    <3> QED BY <2>2, <2>3
  <2> QED BY Zenon, <2>4
<1>3. Bad = {}
  <2> SUFFICES ASSUME Bad # {} PROVE FALSE
    OBVIOUS
  <2> HIDE DEF P
  <2>1. PICK m \in Bad : \A k \in Bad : m <= k
    BY Zenon, LeastOf
  <2>2. m # 0 /\ m \in Nat
    BY <1>1, <2>1
  <2>3. m - 1 \in Nat /\ P(m - 1)
    BY <2>1, <2>2
  <2>4. P(m - 1 + 1)
    BY <1>2, <2>3
  <2> QED BY <2>1, <2>2, <2>4
<1> QED
  BY Zenon, <1>3 DEF IsVisit

LEMMA SameCardinality ==
  \A S : Calls!Cardinality(S) = Cardinality(S) /\ Calls!IsFiniteSet(S) = IsFiniteSet(S)
BY DEF Calls!Cardinality, Cardinality, Calls!IsFiniteSet, IsFiniteSet

(* Items is the recursion that it is defined by.                           *)
LEMMA ItemsVisit ==
  ASSUME NEW D, IsFiniteSet(D), NEW links \in [D -> D \cup {Null}], NEW from \in D
  PROVE  \E visit :
           /\ \A k \in 0..Cardinality(D), n \in D : visit[k][n] =
                IF k = 0 \/ links[n] = Null THEN <<>>
                ELSE <<links[n]>> \o visit[k - 1][links[n]]
           /\ Calls!Items(links, from) = visit[Cardinality(D)][from]
<1> DEFINE N == Cardinality(D)
           v == CHOOSE visit : IsVisit(links, D, N, visit)
<1>1. N \in Nat /\ DOMAIN links = D
  BY FS_CardinalityType
<1>2. \E visit : IsVisit(links, D, N, visit)
  <2> HIDE DEF N
  <2> QED BY <1>1, VisitDefined
<1>3. IsVisit(links, D, N, v)
  BY <1>2
<1>4. Calls!Items(links, from) = v[N][from]
  BY Zenon, <1>1, SameCardinality DEF Calls!Items, IsVisit
<1> HIDE DEF v, N
<1>5. ASSUME NEW k \in 0..N, NEW n \in D
      PROVE  v[k][n] =
        IF k = 0 \/ links[n] = Null THEN <<>> ELSE <<links[n]>> \o v[k - 1][links[n]]
  <2>1. v[k] = [d \in D |->
           IF k = 0 \/ links[d] = Null THEN <<>> ELSE <<links[d]>> \o v[k - 1][links[d]]]
    BY Zenon, <1>3, <1>5 DEF IsVisit
  <2> QED BY <2>1
<1> QED
  BY <1>4, <1>5 DEF N

(* What Items makes of the links of a list is the list.                    *)
LEMMA ItemsOfList ==
  ASSUME NEW B, NEW L, IsFiniteSet(B), IsFiniteSet(L), Null \notin B,
         NEW links \in [B \cup L -> B \cup {Null}], NEW from \in B \cup L,
         NEW s \in Seq(B), IsList(links, from, s)
  PROVE  Calls!Items(links, from) = s
<1> DEFINE D == B \cup L
           N == Cardinality(D)
           n == Len(s)
<1>1. IsFiniteSet(D) /\ N \in Nat /\ links \in [D -> D \cup {Null}]
  <2>1. IsFiniteSet(D)
    BY Zenon, FS_Union
  <2> QED
    BY <2>1, FS_CardinalityType
<1>2. n \in Nat /\ n <= N
  <2>1. n \in Nat /\ s \in [1..n -> D]
    BY LenProperties, ElementOfSeq
  <2>2. s \in Injection(1..n, D)
    BY <2>1 DEF IsList, IsInjective, Injection
  <2>3. Cardinality(1..n) <= N
    BY <1>1, <2>2, FS_Injection
  <2>4. Cardinality(1..n) = n
    <3> HIDE DEF n
    <3>1. Cardinality(1..n) = IF 1 > n THEN 0 ELSE n - 1 + 1
      BY <2>1, FS_Interval
    <3> QED BY <2>1, <3>1
  <2> QED
    BY <2>1, <2>3, <2>4
<1>3. PICK v :
        /\ \A k \in 0..N, d \in D : v[k][d] =
             IF k = 0 \/ links[d] = Null THEN <<>> ELSE <<links[d]>> \o v[k - 1][links[d]]
        /\ Calls!Items(links, from) = v[N][from]
  <2> HIDE DEF D
  <2> QED BY <1>1, ItemsVisit
<1> DEFINE P(j) == v[N - n + j][Node(from, s, n - j)] = SubSeq(s, n - j + 1, n)
           Bad == {j \in 0..n : ~P(j)}
<1> HIDE DEF N
<1>4. \A k \in 0..n : Node(from, s, k) \in D
  BY ElementOfSeq DEF Node
<1>5. P(0)
  <2>1. SubSeq(s, n + 1, n) = <<>>
    BY <1>2, SubSeqEmpty
  <2>2. links[Node(from, s, n)] = Null /\ Node(from, s, n) \in D
    BY <1>2, <1>4 DEF IsList
  <2>3. N - n \in 0..N /\ n - 0 = n /\ N - n + 0 = N - n
    BY <1>1, <1>2
  <2>4. v[N - n][Node(from, s, n)] = <<>>
    BY Zenon, <1>3, <2>2, <2>3
  <2> QED BY Zenon, <2>1, <2>3, <2>4
<1>6. ASSUME NEW j \in 0..(n - 1), P(j) PROVE P(j + 1)
  <2> DEFINE d == Node(from, s, n - j - 1)
             e == Node(from, s, n - j)
  <2>1. d \in D /\ links[d] = e /\ e = s[n - j] /\ e \in B
    BY <1>2, <1>4, ElementOfSeq DEF IsList, Node
  <2>2. v[N - n + j + 1][d] = <<e>> \o v[N - n + j][e]
    <3> HIDE DEF d, e
    <3>1. N - n + j + 1 \in 0..N /\ N - n + j + 1 # 0 /\ N - n + j + 1 - 1 = N - n + j
      BY <1>1, <1>2
    <3>2. e # Null
      BY <2>1
    <3> DEFINE m == N - n + j + 1
    <3>3. m \in 0..N /\ m # 0 /\ m - 1 = N - n + j
      <4> HIDE DEF n
      <4>1. j \in Nat /\ j <= n - 1
        BY <1>2
      <4> QED BY <1>1, <1>2, <4>1
    <3> HIDE DEF m
    <3>4. v[m][d] = <<links[d]>> \o v[m - 1][links[d]]
      <4>1. links[d] # Null
        BY <2>1, <3>2
      <4>2. v[m][d] = IF m = 0 \/ links[d] = Null THEN <<>>
                      ELSE <<links[d]>> \o v[m - 1][links[d]]
        BY <1>3, <2>1, <3>3
      <4> QED BY <3>3, <4>1, <4>2
    <3> QED BY Zenon, <2>1, <3>3, <3>4 DEF m
  <2>3. v[N - n + j][e] = SubSeq(s, n - j + 1, n)
    BY <1>6
  <2>4. SubSeq(s, n - j, n) = <<s[n - j]>> \o SubSeq(s, n - j + 1, n)
    <3> DEFINE a == n - j
    <3>1. a \in 1..n
      BY <1>2
    <3> HIDE DEF a
    <3>2. SubSeq(s, a, n) = <<s[a]>> \o SubSeq(s, a + 1, n)
      BY <1>2, <3>1
    <3> QED BY <3>2 DEF a
  <2>5. n - (j + 1) = n - j - 1 /\ N - n + (j + 1) = N - n + j + 1 /\ n - (j + 1) + 1 = n - j
    BY <1>1, <1>2
  <2> QED BY Zenon, <2>1, <2>2, <2>3, <2>4, <2>5
<1>7. Bad = {}
  <2> HIDE DEF P
  <2> SUFFICES ASSUME Bad # {} PROVE FALSE
    OBVIOUS
  <2>0. Bad \subseteq Nat
    BY <1>2
  <2>1. PICK m \in Bad : \A k \in Bad : m <= k
    <3> HIDE DEF Bad
    <3> QED BY Zenon, <2>0, LeastOf
  <2>2. m # 0 /\ m \in 0..n
    BY <1>5, <2>1
  <2>3. m - 1 \in 0..(n - 1) /\ P(m - 1)
    BY <1>2, <2>1, <2>2
  <2>4. P(m - 1 + 1)
    BY <1>6, <2>3
  <2> QED BY <1>2, <2>1, <2>2, <2>4
<1>8. P(n)
  <2> HIDE DEF P
  <2> QED BY <1>2, <1>7
<1>9. N - n + n = N /\ n - n = 0 /\ n - n + 1 = 1
  BY <1>1, <1>2
<1>10. v[N][from] = SubSeq(s, 1, n)
  BY <1>8, <1>9 DEF Node
<1>11. SubSeq(s, 1, n) = s
  BY <1>2, SubSeqFull
<1> QED
  BY <1>3, <1>10, <1>11

(* The blocks B and list variables L with their links.                     *)
Memory(B, L, links) ==
  /\ IsFiniteSet(B) /\ IsFiniteSet(L) /\ Null \notin B \cup L /\ B \cap L = {}
  /\ links \in [B \cup L -> B \cup {Null}]

(* What a list consists of, and where it ends.                             *)
LEMMA ListNodes ==
  ASSUME NEW B, NEW L, NEW links, Memory(B, L, links),
         NEW from \in B \cup L, NEW s \in Seq(B), IsList(links, from, s)
  PROVE  /\ Calls!Items(links, from) = s
         /\ Len(s) \in Nat /\ DOMAIN s = 1..Len(s)
         /\ \A k \in 1..Len(s) : s[k] \in B /\ Node(from, s, k) = s[k]
         /\ Node(from, s, 0) = from
         /\ \A k \in 0..Len(s) : Node(from, s, k) \in B \cup L
         /\ Calls!End(links, from) = Node(from, s, Len(s))
         /\ links[Node(from, s, Len(s))] = Null
<1>1. Len(s) \in Nat /\ DOMAIN s = 1..Len(s) /\ \A k \in 1..Len(s) : s[k] \in B
  BY LenProperties, ElementOfSeq
<1>2. Calls!Items(links, from) = s
  BY Zenon, ItemsOfList DEF Memory
<1>3. Calls!End(links, from) = Node(from, s, Len(s))
  <2>1. CASE s = <<>>
    <3>1. Len(s) = 0
      BY <2>1, EmptySeq
    <3> QED BY <1>2, <2>1, <3>1 DEF Calls!End, Node
  <2>2. CASE s # <<>>
    <3>1. Len(s) # 0
      BY <2>2, EmptySeq
    <3> QED BY <1>2, <2>2, <3>1 DEF Calls!End, Node
  <2> QED BY <2>1, <2>2
<1>4. \A k \in 0..Len(s) : Node(from, s, k) \in B \cup L
  BY <1>1 DEF Node
<1>5. links[Node(from, s, Len(s))] = Null
  BY <1>1 DEF IsList
<1>6. Node(from, s, 0) = from /\ \A k \in 1..Len(s) : Node(from, s, k) = s[k]
  BY DEF Node
<1> QED
  BY <1>1, <1>2, <1>3, <1>4, <1>5, <1>6

LEMMA ListBefore ==
  ASSUME NEW B, NEW L, NEW links, Memory(B, L, links),
         NEW l \in L, NEW s \in Seq(B), IsList(links, l, s), NEW n \in 1..Len(s)
  PROVE  Calls!Before(links, l, s[n]) = Node(l, s, n - 1)
<1>1. Calls!Items(links, l) = s /\ Len(s) \in Nat /\ DOMAIN s = 1..Len(s)
  BY ListNodes
<1> DEFINE items == Calls!Items(links, l)
           k == CHOOSE m \in 1..Len(items) : items[m] = s[n]
<1>2. k \in 1..Len(s) /\ s[k] = s[n]
  BY <1>1
<1>4. Calls!Before(links, l, s[n]) = IF k = 1 THEN l ELSE items[k - 1]
  BY DEF Calls!Before
<1> HIDE DEF k
<1>3. k = n
  BY <1>1, <1>2 DEF IsList
<1> QED
  BY <1>1, <1>3, <1>4 DEF Node

(* A list is not changed by what is done elsewhere.                        *)
LEMMA ListKept ==
  ASSUME NEW links, NEW from, NEW s, IsList(links, from, s), NEW after,
         Len(s) \in Nat, \A k \in 0..Len(s) : after[Node(from, s, k)] = links[Node(from, s, k)]
  PROVE  IsList(after, from, s)
<1>1. \A k \in 1..Len(s) : k - 1 \in 0..Len(s)
  OBVIOUS
<1>2. Len(s) \in 0..Len(s)
  OBVIOUS
<1> QED
  BY <1>1, <1>2 DEF IsList

LEMMA AddItemList ==
  ASSUME NEW B, NEW L, NEW links, Memory(B, L, links),
         NEW l \in L, NEW s \in Seq(B), IsList(links, l, s),
         NEW b \in B, \A k \in 1..Len(s) : s[k] # b
  PROVE  /\ Memory(B, L, Calls!addItem(links, l, b))
         /\ Append(s, b) \in Seq(B)
         /\ IsList(Calls!addItem(links, l, b), l, Append(s, b))
         /\ \A n \in B \cup L : n # Node(l, s, Len(s)) /\ n # b
              => Calls!addItem(links, l, b)[n] = links[n]
<1> DEFINE after == Calls!addItem(links, l, b)
           t == Append(s, b)
           n == Len(s)
           e == Node(l, s, n)
<1>1. /\ n \in Nat /\ DOMAIN s = 1..n
      /\ \A k \in 1..n : s[k] \in B /\ Node(l, s, k) = s[k]
      /\ Node(l, s, 0) = l
      /\ Calls!End(links, l) = e /\ e \in B \cup L
  BY ListNodes
<1>2. after = [links EXCEPT ![e] = b, ![b] = Null]
  BY <1>1 DEF Calls!addItem
<1>3. b # l /\ b # Null /\ links \in [B \cup L -> B \cup {Null}]
  BY DEF Memory
<1>4. e # b
  BY <1>1, <1>3 DEF Node
<1>0. /\ n = Len(s) /\ links[e] = Null
      /\ \A j, k \in 1..n : s[j] = s[k] => j = k
      /\ \A k \in 1..n : links[Node(l, s, k - 1)] = s[k]
  BY DEF IsList
<1> HIDE DEF after, t, e, n
<1>5. after \in [B \cup L -> B \cup {Null}]
  BY <1>2, <1>3
<1>6. /\ t \in Seq(B) /\ Len(t) = n + 1
      /\ \A k \in 1..n : t[k] = s[k]
      /\ t[n + 1] = b /\ DOMAIN t = 1..(n + 1)
  BY <1>0, <1>1, AppendProperties, LenProperties DEF t
<1>7. \A j, k \in 1..Len(t) : t[j] = t[k] => j = k
  BY <1>0, <1>1, <1>6
<1>8. ASSUME NEW k \in 0..Len(t)
      PROVE  IF k = Len(t) THEN after[Node(l, t, k)] = Null ELSE after[Node(l, t, k)] = t[k + 1]
  <2>1. CASE k = Len(t)
    BY <1>1, <1>2, <1>3, <1>6, <2>1 DEF Node
  <2>2. CASE k = n
    <3>1. Node(l, t, k) = e
      BY <1>1, <1>6, <2>2 DEF Node, e
    <3>2. after[e] = b
      BY <1>1, <1>2, <1>3, <1>4
    <3>3. k # Len(t) /\ t[k + 1] = b
      BY <1>1, <1>6, <2>2
    <3> QED BY <3>1, <3>2, <3>3
  <2>3. CASE k \in 0..(n - 1)
    <3>1. Node(l, t, k) = Node(l, s, k) /\ t[k + 1] = s[k + 1] /\ k # Len(t) /\ k # n
      BY <1>1, <1>6, <2>3 DEF Node
    <3>2. Node(l, s, k) # b /\ Node(l, s, k) \in B \cup L
      BY <1>1, <1>3, <2>3 DEF Node
    <3>3. Node(l, s, k) # e
      <4>0. \A m \in 1..n : s[m] # l
        BY <1>1 DEF Memory
      <4>1. k # 0 => s[k] # l /\ s[k] # s[n]
        <5>1. k # 0 => k \in 1..n /\ n \in 1..n /\ k # n
          BY <1>1, <2>3
        <5> QED BY <1>0, <4>0, <5>1
      <4>2. n # 0 /\ s[n] # l
        BY <1>1, <2>3, <4>0
      <4> QED BY <4>1, <4>2 DEF e, Node
    <3> DEFINE m == Node(l, s, k)
    <3>4. after[m] = links[m]
      <4> HIDE DEF m
      <4> QED BY <1>2, <1>3, <3>2, <3>3 DEF m
    <3>5. links[m] = s[k + 1]
      <4>1. k + 1 \in 1..n /\ k + 1 - 1 = k
        BY <1>1, <2>3
      <4> QED BY <1>0, <4>1
    <3> QED BY <3>1, <3>4, <3>5
  <2> QED BY <1>1, <1>6, <2>1, <2>2, <2>3
<1>9. \A m \in B \cup L : m # e /\ m # b => after[m] = links[m]
  BY <1>2, <1>3
<1>10. Memory(B, L, after)
  BY <1>5 DEF Memory
<1>11. IsList(after, l, t)
  <2>1. Len(t) \in 0..Len(t) /\ Len(t) \in Nat
    BY <1>1, <1>6
  <2>2. ASSUME NEW k \in 1..Len(t) PROVE after[Node(l, t, k - 1)] = t[k]
    <3>1. k - 1 \in 0..Len(t) /\ k - 1 # Len(t) /\ k - 1 + 1 = k
      BY <2>1
    <3> QED BY <1>8, <3>1
  <2> QED BY <1>7, <1>8, <2>1, <2>2 DEF IsList
<1> QED
  BY <1>6, <1>9, <1>10, <1>11 DEF after, t, e, n

LEMMA RemoveItemList ==
  ASSUME NEW B, NEW L, NEW links, Memory(B, L, links),
         NEW l \in L, NEW s \in Seq(B), IsList(links, l, s), NEW n \in 1..Len(s)
  PROVE  /\ Memory(B, L, Calls!removeItem(links, l, s[n]))
         /\ Table!RemoveAt(s, n) \in Seq(B)
         /\ IsList(Calls!removeItem(links, l, s[n]), l, Table!RemoveAt(s, n))
         /\ \A m \in B \cup L : m # Node(l, s, n - 1)
              => Calls!removeItem(links, l, s[n])[m] = links[m]
<1> DEFINE after == Calls!removeItem(links, l, s[n])
           t == Table!RemoveAt(s, n)
           e == Node(l, s, n - 1)
           N == Len(s)
<1>1. /\ N \in Nat /\ \A k \in 1..N : s[k] \in B
      /\ \A k \in 0..N : Node(l, s, k) = IF k = 0 THEN l ELSE s[k]
      /\ \A k \in 0..N : Node(l, s, k) \in B \cup L
      /\ links[Node(l, s, N)] = Null
      /\ \A j, k \in 1..N : s[j] = s[k] => j = k
      /\ \A k \in 1..N : links[Node(l, s, k - 1)] = s[k]
      /\ n \in 1..N
  <2>1. /\ N \in Nat /\ \A k \in 1..N : s[k] \in B
        /\ \A k \in 0..N : Node(l, s, k) \in B \cup L
    BY ListNodes
  <2>2. /\ links[Node(l, s, N)] = Null
        /\ \A j, k \in 1..N : s[j] = s[k] => j = k
        /\ \A k \in 1..N : links[Node(l, s, k - 1)] = s[k]
    BY DEF IsList
  <2>3. \A k \in 0..N : Node(l, s, k) = IF k = 0 THEN l ELSE s[k]
    BY DEF Node
  <2> QED BY <2>1, <2>2, <2>3
<1>2. after = [links EXCEPT ![e] = links[s[n]]]
  <2>1. Calls!Before(links, l, s[n]) = e
    BY ListBefore
  <2> QED BY <2>1 DEF Calls!removeItem
<1>3. links \in [B \cup L -> B \cup {Null}] /\ \A k \in 1..N : s[k] # l
  BY <1>1 DEF Memory
<1>4. /\ t \in Seq(B) /\ Len(t) = N - 1
      /\ \A k \in 1..(N - 1) : t[k] = IF k < n THEN s[k] ELSE s[k + 1]
  BY RemovedAt
<1> HIDE DEF after, t, N
<1>5. n - 1 \in 0..N /\ e \in B \cup L
  BY <1>1
<1>6. /\ after \in [B \cup L -> B \cup {Null}] /\ after[e] = links[s[n]]
      /\ \A m \in B \cup L : m # e => after[m] = links[m]
  BY <1>1, <1>2, <1>3, <1>5
<1>7. ASSUME NEW j \in 1..(N - 1), NEW k \in 1..(N - 1), t[j] = t[k] PROVE j = k
  <2> DEFINE a == IF j < n THEN j ELSE j + 1
             b == IF k < n THEN k ELSE k + 1
  <2>1. a \in 1..N /\ t[j] = s[a]
    BY <1>1, <1>4
  <2>3. b \in 1..N /\ t[k] = s[b]
    BY <1>1, <1>4
  <2>2. a = b
    <3> HIDE DEF a, b
    <3> QED BY Zenon, <1>1, <1>7, <2>1, <2>3
  <2> QED BY <1>1, <2>2
<1>8. \A j, k \in 0..N : Node(l, s, j) = Node(l, s, k) => j = k
  <2> TAKE j, k \in 0..N
  <2>1. j # 0 => j \in 1..N
    BY <1>1
  <2>2. k # 0 => k \in 1..N
    BY <1>1
  <2> QED BY <1>1, <1>3, <2>1, <2>2
<1>9. \A k \in 0..(N - 1) : Node(l, t, k) = Node(l, s, IF k < n THEN k ELSE k + 1)
  <2> TAKE k \in 0..(N - 1)
  <2>1. k # 0 => k \in 1..(N - 1)
    BY <1>1
  <2>2. n # 0
    BY <1>1
  <2> QED BY <1>1, <1>4, <2>1, <2>2 DEF Node
<1>10. after[Node(l, t, N - 1)] = Null
  <2>1. CASE n = N
    <3>1. N - 1 \in 0..(N - 1) /\ N - 1 < n
      BY <1>1, <2>1
    <3>2. Node(l, t, N - 1) = e
      BY <1>9, <2>1, <3>1
    <3>3. s[n] = Node(l, s, N)
      BY <1>1, <2>1
    <3> QED BY <1>1, <1>6, <3>2, <3>3
  <2>2. CASE n # N
    <3>1. N - 1 \in 0..(N - 1) /\ ~(N - 1 < n) /\ N \in 0..N /\ N # n - 1 /\ N - 1 + 1 = N
      BY <1>1, <2>2
    <3>2. Node(l, t, N - 1) = Node(l, s, N)
      BY <1>9, <3>1
    <3>3. Node(l, s, N) # e /\ Node(l, s, N) \in B \cup L
      BY <1>1, <1>5, <1>8, <3>1
    <3> QED BY <1>1, <1>6, <3>2, <3>3
  <2> QED BY <2>1, <2>2
<1>11. ASSUME NEW k \in 1..(N - 1) PROVE after[Node(l, t, k - 1)] = t[k]
  <2>0. k - 1 \in 0..(N - 1) /\ k \in 1..N /\ k \in Nat
    BY <1>1
  <2>1. CASE k < n
    <3>1. k - 1 < n /\ k - 1 \in 0..N /\ k - 1 # n - 1
      BY <1>1, <2>0, <2>1
    <3>2. Node(l, t, k - 1) = Node(l, s, k - 1) /\ t[k] = s[k]
      BY <1>4, <1>9, <2>0, <2>1, <3>1
    <3>3. Node(l, s, k - 1) # e /\ Node(l, s, k - 1) \in B \cup L
      BY <1>1, <1>5, <1>8, <3>1
    <3> QED BY <1>1, <1>6, <2>0, <3>2, <3>3
  <2>2. CASE k = n
    <3>1. k - 1 < n
      BY <2>0, <2>2
    <3>2. Node(l, t, k - 1) = e /\ t[k] = s[k + 1]
      BY <1>4, <1>9, <2>0, <2>2, <3>1
    <3>3. k + 1 \in 1..N /\ k + 1 - 1 = k /\ k \in 0..N /\ k # 0
      BY <1>1, <2>0
    <3>4. links[Node(l, s, k)] = s[k + 1] /\ Node(l, s, k) = s[k]
      BY <1>1, <3>3
    <3> QED BY <1>6, <2>2, <3>2, <3>4
  <2>3. CASE k > n
    <3>1. /\ ~(k - 1 < n) /\ ~(k < n) /\ k - 1 + 1 = k /\ k + 1 - 1 = k
          /\ k \in 0..N /\ k + 1 \in 1..N /\ k # n - 1
      BY <1>1, <2>0, <2>3
    <3>2. Node(l, t, k - 1) = Node(l, s, k) /\ t[k] = s[k + 1]
      BY <1>4, <1>9, <2>0, <3>1
    <3>3. Node(l, s, k) # e /\ Node(l, s, k) \in B \cup L
      BY <1>1, <1>5, <1>8, <3>1
    <3>4. links[Node(l, s, k)] = s[k + 1]
      BY <1>1, <3>1
    <3> QED BY <1>6, <3>2, <3>3, <3>4
  <2> QED BY <1>1, <2>0, <2>1, <2>2, <2>3
<1>12. IsList(after, l, t)
  BY <1>4, <1>7, <1>10, <1>11 DEF IsList
<1>13. Memory(B, L, after)
  BY <1>6 DEF Memory
<1> QED
  BY <1>4, <1>6, <1>12, <1>13 DEF after, t, N

LEMMA AddFirstList ==
  ASSUME NEW B, NEW L, NEW links, Memory(B, L, links),
         NEW l \in L, NEW s \in Seq(B), IsList(links, l, s),
         NEW b \in B, \A k \in 1..Len(s) : s[k] # b
  PROVE  /\ Memory(B, L, Calls!addItemFirst(links, l, b))
         /\ <<b>> \o s \in Seq(B)
         /\ IsList(Calls!addItemFirst(links, l, b), l, <<b>> \o s)
         /\ \A m \in B \cup L : m # l /\ m # b
              => Calls!addItemFirst(links, l, b)[m] = links[m]
<1> DEFINE after == Calls!addItemFirst(links, l, b)
           t == <<b>> \o s
           N == Len(s)
<1>1. /\ N \in Nat /\ \A k \in 1..N : s[k] \in B
      /\ \A k \in 0..N : Node(l, s, k) = IF k = 0 THEN l ELSE s[k]
      /\ links[Node(l, s, N)] = Null
      /\ \A j, k \in 1..N : s[j] = s[k] => j = k
      /\ \A k \in 1..N : links[Node(l, s, k - 1)] = s[k]
      /\ \A k \in 1..N : s[k] # b
  BY ListNodes DEF IsList, Node
<1>2. after = [links EXCEPT ![b] = links[l], ![l] = b]
  BY DEF Calls!addItemFirst
<1>3. /\ links \in [B \cup L -> B \cup {Null}] /\ b # l
      /\ \A k \in 1..N : s[k] # l /\ s[k] \in B \cup L
  BY <1>1 DEF Memory
<1>4. /\ t \in Seq(B) /\ Len(t) = N + 1
      /\ \A k \in 1..(N + 1) : t[k] = IF k = 1 THEN b ELSE s[k - 1]
  <2>1. <<b>> \in Seq(B) /\ Len(<<b>>) = 1 /\ <<b>>[1] = b
    OBVIOUS
  <2> HIDE DEF N
  <2> DEFINE u == <<b>>
  <2> HIDE DEF u
  <2>2. /\ u \o s \in Seq(B) /\ Len(u \o s) = Len(u) + Len(s)
        /\ \A k \in 1..(Len(u) + Len(s)) :
             (u \o s)[k] = IF k <= Len(u) THEN u[k] ELSE s[k - Len(u)]
    <3>1. u \in Seq(B)
      BY <2>1 DEF u
    <3> QED BY <3>1, ConcatProperties
  <2>3. Len(u) = 1 /\ u[1] = b
    BY <2>1 DEF u
  <2> QED BY <1>1, <2>2, <2>3 DEF u, N
<1> HIDE DEF after, t, N
<1>5. /\ after \in [B \cup L -> B \cup {Null}] /\ after[l] = b /\ after[b] = links[l]
      /\ \A m \in B \cup L : m # l /\ m # b => after[m] = links[m]
  BY <1>2, <1>3
<1>6. ASSUME NEW j \in 1..(N + 1), NEW k \in 1..(N + 1), t[j] = t[k] PROVE j = k
  <2>1. j # 1 => j - 1 \in 1..N
    BY <1>1
  <2>2. k # 1 => k - 1 \in 1..N
    BY <1>1
  <2> QED BY <1>1, <1>4, <1>6, <2>1, <2>2
<1>7. \A k \in 1..(N + 1) : Node(l, t, k) = IF k = 1 THEN b ELSE Node(l, s, k - 1)
  <2> TAKE k \in 1..(N + 1)
  <2>1. k # 0 /\ (k # 1 => k - 1 # 0)
    BY <1>1
  <2> QED BY <1>4, <2>1 DEF Node
<1>8. after[Node(l, t, N + 1)] = Null
  <2>1. N + 1 \in 1..(N + 1) /\ N + 1 - 1 = N
    BY <1>1
  <2>2. CASE N = 0
    BY <1>1, <1>5, <1>7, <2>1, <2>2
  <2>3. CASE N # 0
    <3>1. N + 1 # 1 /\ N \in 0..N /\ N \in 1..N
      BY <1>1, <2>3
    <3>2. Node(l, t, N + 1) = s[N] /\ Node(l, s, N) = s[N]
      BY <1>1, <1>7, <2>1, <2>3, <3>1
    <3> QED BY <1>1, <1>3, <1>5, <3>1, <3>2
  <2> QED BY <2>2, <2>3
<1>9. ASSUME NEW k \in 1..(N + 1) PROVE after[Node(l, t, k - 1)] = t[k]
  <2>1. CASE k = 1
    BY <1>1, <1>4, <1>5, <2>1 DEF Node
  <2>2. CASE k = 2
    <3>1. 1 \in 1..(N + 1) /\ 1 \in 1..N /\ k - 1 = 1
      BY <1>1, <2>2
    <3>2. Node(l, t, k - 1) = b /\ t[k] = s[1]
      BY <1>4, <1>7, <2>2, <3>1
    <3>3. links[l] = s[1]
      <4>1. links[Node(l, s, 1 - 1)] = s[1]
        BY <1>1, <3>1
      <4> QED BY <4>1 DEF Node
    <3> QED BY <1>5, <3>2, <3>3
  <2>3. CASE k # 1 /\ k # 2
    <3>1. /\ k - 1 \in 1..(N + 1) /\ k - 1 # 1 /\ k - 1 \in 1..N /\ k - 1 - 1 \in 1..N
          /\ k - 1 - 1 \in 0..N /\ k - 1 - 1 # 0
      BY <1>1, <2>3
    <3>2. /\ Node(l, t, k - 1) = s[k - 1 - 1] /\ t[k] = s[k - 1]
          /\ Node(l, s, k - 1 - 1) = s[k - 1 - 1]
      BY <1>1, <1>4, <1>7, <2>3, <3>1
    <3>3. links[s[k - 1 - 1]] = s[k - 1]
      BY <1>1, <3>1, <3>2
    <3> QED BY <1>1, <1>3, <1>5, <3>1, <3>2, <3>3
  <2> QED BY <2>1, <2>2, <2>3
<1>10. IsList(after, l, t)
  <2>1. N + 1 = Len(t)
    BY <1>4
  <2> QED BY <1>6, <1>8, <1>9, <2>1 DEF IsList
<1>11. Memory(B, L, after)
  BY <1>5 DEF Memory
<1> QED
  BY <1>4, <1>5, <1>10, <1>11 DEF after, t, N

(* The library's operators are those of the lists of calls.                *)
LEMMA SameOperators ==
  \A links, l, b :
    /\ Library!Items(links, l) = Calls!Items(links, l)
    /\ Library!addItem(links, l, b) = Calls!addItem(links, l, b)
    /\ Library!addItemFirst(links, l, b) = Calls!addItemFirst(links, l, b)
    /\ Library!removeItem(links, l, b) = Calls!removeItem(links, l, b)
<1>1. \A links, l : Library!Items(links, l) = Calls!Items(links, l)
  BY Zenon DEF Calls!Cardinality, Library!Cardinality, Calls!Items, Library!Items
<1>2. \A links, l, b : Library!addItem(links, l, b) = Calls!addItem(links, l, b)
  BY ZenonT(60) DEF Calls!addItem, Library!addItem, Calls!End, Library!End,
     Calls!Cardinality, Library!Cardinality, Calls!Items, Library!Items
<1>3. \A links, l, b : Library!addItemFirst(links, l, b) = Calls!addItemFirst(links, l, b)
  BY DEF Calls!addItemFirst, Library!addItemFirst
<1>4. \A links, l, b : Library!removeItem(links, l, b) = Calls!removeItem(links, l, b)
  BY ZenonT(60) DEF Calls!removeItem, Library!removeItem, Calls!Before, Library!Before,
     Calls!Cardinality, Library!Cardinality, Calls!Items, Library!Items
<1> QED
  BY <1>1, <1>2, <1>3, <1>4

LEMMA MovesItem ==
  \A links, l, b :
    Library!moveItemEnd(links, l, b) = Calls!addItem(Calls!removeItem(links, l, b), l, b)
<1> SUFFICES ASSUME NEW links, NEW l, NEW b
    PROVE Library!moveItemEnd(links, l, b) = Calls!addItem(Calls!removeItem(links, l, b), l, b)
  OBVIOUS
<1>1. Library!moveItemEnd(links, l, b) = Library!addItem(Library!removeItem(links, l, b), l, b)
  BY DEF Library!moveItemEnd, Library!addItem
<1> QED
  BY <1>1, SameOperators, Zenon

LEMMA SameRemoval ==
  ASSUME NEW s, Len(s) \in Nat, NEW n \in 1..Len(s),
         \A j, k \in 1..Len(s) : s[j] = s[k] => j = k
  PROVE  /\ Calls!RemoveFirst(s, s[n]) = Table!RemoveAt(s, n)
         /\ Library!RemoveFirst(s, s[n]) = Table!RemoveAt(s, n)
<1> DEFINE I == {i \in 1..Len(s) : s[i] = s[n]}
<1>1. I = {n}
  OBVIOUS
<1>2. Calls!Min(I) = n /\ Library!Min(I) = n
  <2>1. n \in Nat
    OBVIOUS
  <2> HIDE DEF I
  <2> QED BY <1>1, <2>1 DEF Calls!Min, Library!Min
<1>3. /\ Calls!SelectInSeq(s, LAMBDA v : v = s[n]) = n
      /\ Library!SelectInSeq(s, LAMBDA v : v = s[n]) = n
  BY <1>1, <1>2 DEF Calls!SelectInSeq, Library!SelectInSeq
<1> HIDE DEF I
<1> QED
  BY Zenon, <1>3 DEF Calls!RemoveFirst, Calls!RemoveAt, Table!RemoveAt,
     Library!RemoveFirst, Library!RemoveAt

(* Lists that take their items from the same blocks.                       *)
AreLists(B, L, links, c) ==
  /\ Memory(B, L, links)
  /\ c \in [L -> Seq(B)]
  /\ \A l \in L : IsList(links, l, c[l])
  /\ \A l, m \in L : \A j \in 1..Len(c[l]), k \in 1..Len(c[m]) :
       c[l][j] = c[m][k] => l = m

(* What is done to a list leaves the others alone.                         *)
LEMMA OneListChanges ==
  ASSUME NEW B, NEW L, NEW links, NEW c, AreLists(B, L, links, c),
         NEW l \in L, NEW t \in Seq(B), NEW after,
         Memory(B, L, after), IsList(after, l, t),
         \A n \in B \cup L :
           \/ n = l \/ after[n] = links[n]
           \/ \E k \in 1..Len(c[l]) : n = c[l][k]
           \/ \E k \in 1..Len(t) : n = t[k],
         \A j \in 1..Len(t), m \in L \ {l} : \A k \in 1..Len(c[m]) : t[j] # c[m][k]
  PROVE  AreLists(B, L, after, [c EXCEPT ![l] = t])
<1> DEFINE d == [c EXCEPT ![l] = t]
<1>1. /\ d \in [L -> Seq(B)] /\ d[l] = t /\ \A m \in L \ {l} : d[m] = c[m]
      /\ c \in [L -> Seq(B)]
  BY DEF AreLists
<1>2. ASSUME NEW m \in L, m # l PROVE IsList(after, m, c[m])
  <2>1. IsList(links, m, c[m]) /\ Memory(B, L, links) /\ c[m] \in Seq(B)
    BY <1>1 DEF AreLists
  <2>2. /\ Len(c[m]) \in Nat /\ \A k \in 0..Len(c[m]) : Node(m, c[m], k) \in B \cup L
        /\ \A k \in 1..Len(c[m]) : c[m][k] \in B
    BY <2>1, ListNodes
  <2>3. B \cap L = {}
    BY DEF Memory
  <2>4. ASSUME NEW k \in 0..Len(c[m])
        PROVE  after[Node(m, c[m], k)] = links[Node(m, c[m], k)]
    <3> DEFINE n == Node(m, c[m], k)
    <3>1. n \in B \cup L
      BY <2>2
    <3>2. n = m \/ \E i \in 1..Len(c[m]) : n = c[m][i]
      <4>1. k = 0 \/ k \in 1..Len(c[m])
        BY <2>2
      <4> QED BY <4>1 DEF Node
    <3> HIDE DEF n
    <3>3. n # l
      BY <1>2, <2>2, <2>3, <3>2
    <3>4. ~ \E i \in 1..Len(c[l]) : n = c[l][i]
      <4>1. \A i \in 1..Len(c[l]) : c[l][i] \in B
        BY <1>1, ElementOfSeq
      <4>2. \A i \in 1..Len(c[l]), j \in 1..Len(c[m]) : c[l][i] # c[m][j]
        BY <1>2 DEF AreLists
      <4> QED BY <2>3, <3>2, <4>1, <4>2
    <3>5. ~ \E i \in 1..Len(t) : n = t[i]
      <4>1. \A i \in 1..Len(t) : t[i] \in B
        BY ElementOfSeq
      <4> QED BY <1>2, <2>3, <3>2, <4>1
    <3> QED BY <3>1, <3>3, <3>4, <3>5 DEF n
  <2> QED BY <2>1, <2>2, <2>4, ListKept
<1>3. \A m \in L : IsList(after, m, d[m])
  BY <1>1, <1>2
<1>4. ASSUME NEW m \in L, NEW n \in L, NEW j \in 1..Len(d[m]), NEW k \in 1..Len(d[n]),
             d[m][j] = d[n][k]
      PROVE  m = n
  <2>1. CASE m # l /\ n # l
    BY <1>1, <1>4, <2>1 DEF AreLists
  <2>2. CASE m = l /\ n # l
    BY <1>1, <1>4, <2>2
  <2>3. CASE m # l /\ n = l
    BY <1>1, <1>4, <2>3
  <2> QED BY <2>1, <2>2, <2>3
<1> QED
  <2> HIDE DEF d
  <2>1. AreLists(B, L, after, d)
    BY <1>1, <1>3, <1>4 DEF AreLists
  <2> QED BY <2>1 DEF d

(* The operations, one list among several.                                 *)
LEMMA AddItemLists ==
  ASSUME NEW B, NEW L, NEW links, NEW c, AreLists(B, L, links, c), NEW l \in L,
         NEW b \in B, \A m \in L : \A k \in 1..Len(c[m]) : c[m][k] # b
  PROVE  AreLists(B, L, Calls!addItem(links, l, b), [c EXCEPT ![l] = Append(c[l], b)])
<1> DEFINE t == Append(c[l], b)
           after == Calls!addItem(links, l, b)
<1>1. Memory(B, L, links) /\ c[l] \in Seq(B) /\ IsList(links, l, c[l])
  BY DEF AreLists
<1>2. /\ Memory(B, L, after) /\ t \in Seq(B) /\ IsList(after, l, t)
      /\ \A n \in B \cup L : n # Node(l, c[l], Len(c[l])) /\ n # b => after[n] = links[n]
  BY <1>1, AddItemList
<1>3. /\ Len(c[l]) \in Nat /\ Len(t) = Len(c[l]) + 1 /\ t[Len(c[l]) + 1] = b
      /\ \A k \in 1..Len(c[l]) : t[k] = c[l][k]
  BY <1>1, AppendProperties, LenProperties
<1> HIDE DEF t, after
<1>4. Node(l, c[l], Len(c[l])) = l \/ \E k \in 1..Len(c[l]) : Node(l, c[l], Len(c[l])) = c[l][k]
  <2>1. Len(c[l]) = 0 \/ Len(c[l]) \in 1..Len(c[l])
    BY <1>3
  <2> QED BY <2>1 DEF Node
<1>5. /\ Len(c[l]) + 1 \in 1..Len(t)
      /\ \A k \in 1..Len(t) : k \in 1..Len(c[l]) \/ k = Len(c[l]) + 1
  BY <1>3
<1>6. \A n \in B \cup L :
           \/ n = l \/ after[n] = links[n]
           \/ \E k \in 1..Len(c[l]) : n = c[l][k]
           \/ \E k \in 1..Len(t) : n = t[k]
  BY <1>2, <1>3, <1>4, <1>5
<1>7. \A j \in 1..Len(t), m \in L \ {l} : \A k \in 1..Len(c[m]) : t[j] # c[m][k]
  BY <1>3, <1>5 DEF AreLists
<1>8. AreLists(B, L, after, [c EXCEPT ![l] = t])
  BY <1>2, <1>6, <1>7, OneListChanges
<1> QED
  BY <1>8 DEF t, after

LEMMA AddFirstLists ==
  ASSUME NEW B, NEW L, NEW links, NEW c, AreLists(B, L, links, c), NEW l \in L,
         NEW b \in B, \A m \in L : \A k \in 1..Len(c[m]) : c[m][k] # b
  PROVE  AreLists(B, L, Calls!addItemFirst(links, l, b), [c EXCEPT ![l] = <<b>> \o c[l]])
<1> DEFINE t == <<b>> \o c[l]
           after == Calls!addItemFirst(links, l, b)
<1>1. Memory(B, L, links) /\ c[l] \in Seq(B) /\ IsList(links, l, c[l])
  BY DEF AreLists
<1>2. /\ Memory(B, L, after) /\ t \in Seq(B) /\ IsList(after, l, t)
      /\ \A n \in B \cup L : n # l /\ n # b => after[n] = links[n]
  BY <1>1, AddFirstList
<1>3. /\ Len(c[l]) \in Nat /\ Len(t) = 1 + Len(c[l])
      /\ \A k \in 1..(1 + Len(c[l])) : t[k] = IF k <= 1 THEN b ELSE c[l][k - 1]
  <2>1. <<b>> \in Seq(B) /\ Len(<<b>>) = 1 /\ <<b>>[1] = b
    OBVIOUS
  <2>2. /\ Len(t) = Len(<<b>>) + Len(c[l])
        /\ \A k \in 1..(Len(<<b>>) + Len(c[l])) :
             t[k] = IF k <= Len(<<b>>) THEN <<b>>[k] ELSE c[l][k - Len(<<b>>)]
    BY <1>1, <2>1, ConcatProperties
  <2>3. \A k \in 1..(1 + Len(c[l])) : k <= 1 => k = 1
    OBVIOUS
  <2> HIDE DEF t
  <2> QED BY <1>1, <2>1, <2>2, <2>3, LenProperties
<1> HIDE DEF t, after
<1>4. 1 \in 1..Len(t) /\ t[1] = b
  <2>1. 1 \in 1..(1 + Len(c[l]))
    BY <1>3
  <2> QED BY <1>3, <2>1
<1>5. \A k \in 1..Len(t) : t[k] = b \/ \E i \in 1..Len(c[l]) : t[k] = c[l][i]
  <2> SUFFICES ASSUME NEW k \in 1..Len(t), k # 1 PROVE \E i \in 1..Len(c[l]) : t[k] = c[l][i]
    BY <1>4
  <2>1. k - 1 \in 1..Len(c[l]) /\ ~(k <= 1) /\ k \in 1..(1 + Len(c[l]))
    BY <1>3
  <2> QED BY <1>3, <2>1
<1>6. \A n \in B \cup L :
           \/ n = l \/ after[n] = links[n]
           \/ \E k \in 1..Len(c[l]) : n = c[l][k]
           \/ \E k \in 1..Len(t) : n = t[k]
  BY <1>2, <1>4
<1>7. \A j \in 1..Len(t), m \in L \ {l} : \A k \in 1..Len(c[m]) : t[j] # c[m][k]
  BY <1>5 DEF AreLists
<1>8. AreLists(B, L, after, [c EXCEPT ![l] = t])
  BY <1>2, <1>6, <1>7, OneListChanges
<1> QED
  BY <1>8 DEF t, after

LEMMA RemoveItemLists ==
  ASSUME NEW B, NEW L, NEW links, NEW c, AreLists(B, L, links, c), NEW l \in L,
         NEW n \in 1..Len(c[l])
  PROVE  AreLists(B, L, Calls!removeItem(links, l, c[l][n]),
                  [c EXCEPT ![l] = Table!RemoveAt(c[l], n)])
<1> DEFINE t == Table!RemoveAt(c[l], n)
           after == Calls!removeItem(links, l, c[l][n])
<1>1. Memory(B, L, links) /\ c[l] \in Seq(B) /\ IsList(links, l, c[l])
  BY DEF AreLists
<1>2. /\ Memory(B, L, after) /\ t \in Seq(B) /\ IsList(after, l, t)
      /\ \A m \in B \cup L : m # Node(l, c[l], n - 1) => after[m] = links[m]
  BY <1>1, RemoveItemList
<1>3. /\ Len(c[l]) \in Nat /\ Len(t) = Len(c[l]) - 1
      /\ \A k \in 1..Len(c[l]) - 1 : t[k] = IF k < n THEN c[l][k] ELSE c[l][k + 1]
  BY <1>1, RemovedAt, LenProperties
<1> HIDE DEF t, after
<1>4. Node(l, c[l], n - 1) = l \/ \E k \in 1..Len(c[l]) : Node(l, c[l], n - 1) = c[l][k]
  <2>1. n - 1 = 0 \/ n - 1 \in 1..Len(c[l])
    BY <1>3
  <2> QED BY <2>1 DEF Node
<1>5. \A k \in 1..Len(t) : \E i \in 1..Len(c[l]) : t[k] = c[l][i]
  <2> SUFFICES ASSUME NEW k \in 1..Len(t) PROVE \E i \in 1..Len(c[l]) : t[k] = c[l][i]
    OBVIOUS
  <2>1. k \in 1..Len(c[l]) /\ k + 1 \in 1..Len(c[l]) /\ k \in 1..Len(c[l]) - 1
    BY <1>3
  <2> QED BY <1>3, <2>1
<1>6. \A m \in B \cup L :
           \/ m = l \/ after[m] = links[m]
           \/ \E k \in 1..Len(c[l]) : m = c[l][k]
           \/ \E k \in 1..Len(t) : m = t[k]
  BY <1>2, <1>4
<1>7. \A j \in 1..Len(t), m \in L \ {l} : \A k \in 1..Len(c[m]) : t[j] # c[m][k]
  BY Zenon, <1>5 DEF AreLists
<1>8. AreLists(B, L, after, [c EXCEPT ![l] = t])
  BY Zenon, <1>2, <1>6, <1>7, OneListChanges
<1> QED
  BY <1>8 DEF t, after

-----------------------------------------------------------------------------
(* The list library: its blocks are on at most one list.                   *)
LibraryInv == AreLists(Blocks, Lists, listNext, contents)

LEMMA LibraryListsAreSequences == LibraryInv => ListsAreSequences
<1> SUFFICES ASSUME LibraryInv, NEW l \in Lists
             PROVE  /\ Library!Items(listNext, l) = contents[l]
                    /\ Library!listLength(listNext, l) = Len(contents[l])
                    /\ Library!unallocateList(listNext, l) = Library!ToSet(contents[l])
  BY DEF ListsAreSequences, Library!ListsAreSequences
<1>1. /\ Memory(Blocks, Lists, listNext) /\ contents[l] \in Seq(Blocks)
      /\ IsList(listNext, l, contents[l])
  BY DEF LibraryInv, AreLists
<1>2. /\ Calls!Items(listNext, l) = contents[l] /\ DOMAIN contents[l] = 1..Len(contents[l])
      /\ Len(contents[l]) \in Nat
  BY <1>1, ListNodes
<1>3. Library!Items(listNext, l) = contents[l]
  BY <1>2, SameOperators
<1>4. Library!listLength(listNext, l) = Len(contents[l])
  BY <1>3 DEF Library!listLength
<1> QED
  BY <1>2, <1>3, <1>4 DEF Library!unallocateList, Library!ToSet

LEMMA LibraryInit == Library!Init => LibraryInv
<1> SUFFICES ASSUME Library!Init PROVE LibraryInv
  OBVIOUS
<1>1. /\ listNext = [n \in Lists \cup Blocks |-> Null]
      /\ contents = [l \in Lists |-> <<>>]
  BY DEF Library!Init
<1>2. Memory(Blocks, Lists, listNext)
  BY <1>1, KernelAssumption, SameCardinality
     DEF Library!LinkedListAssumption, Memory, Library!IsFiniteSet, Calls!IsFiniteSet,
         IsFiniteSet
<1>3. <<>> \in Seq(Blocks) /\ Len(<<>>) = 0
  OBVIOUS
<1>4. \A l \in Lists : IsList(listNext, l, <<>>)
  BY <1>1, <1>3 DEF IsList, Node
<1>5. \A l \in Lists : contents[l] = <<>> /\ Len(contents[l]) = 0
  BY <1>1
<1> QED
  BY <1>1, <1>2, <1>3, <1>4, <1>5 DEF LibraryInv, AreLists

LEMMA UnusedBlock ==
  ASSUME LibraryInv, NEW b \in Blocks \ Library!Used
  PROVE  \A m \in Lists : \A k \in 1..Len(contents[m]) : contents[m][k] # b
<1> SUFFICES ASSUME NEW m \in Lists, NEW k \in 1..Len(contents[m]), contents[m][k] = b
             PROVE  b \in Library!Used
  OBVIOUS
<1>1. contents[m] \in Seq(Blocks)
  BY DEF LibraryInv, AreLists
<1>2. b \in Library!ToSet(contents[m])
  BY <1>1, LenProperties DEF Library!ToSet
<1> QED
  BY <1>2 DEF Library!Used

(* The item that is taken out, by its place.                               *)
LEMMA ItemPlace ==
  ASSUME LibraryInv, NEW l \in Lists, NEW b \in Library!ToSet(contents[l])
  PROVE  \E n \in 1..Len(contents[l]) :
           /\ b = contents[l][n]
           /\ Library!RemoveFirst(contents[l], b) = Table!RemoveAt(contents[l], n)
<1>1. /\ contents[l] \in Seq(Blocks) /\ IsList(listNext, l, contents[l])
      /\ Len(contents[l]) \in Nat /\ DOMAIN contents[l] = 1..Len(contents[l])
  BY LenProperties DEF LibraryInv, AreLists
<1>2. PICK n \in 1..Len(contents[l]) : b = contents[l][n]
  BY <1>1 DEF Library!ToSet
<1>3. Library!RemoveFirst(contents[l], contents[l][n]) = Table!RemoveAt(contents[l], n)
  BY <1>1, SameRemoval DEF IsList
<1> QED
  BY <1>2, <1>3

LEMMA LibraryNext == LibraryInv /\ [Library!Next]_libraryVars => LibraryInv'
<1> SUFFICES ASSUME LibraryInv, [Library!Next]_libraryVars PROVE LibraryInv'
  OBVIOUS
<1>0. AreLists(Blocks, Lists, listNext, contents) /\ contents \in [Lists -> Seq(Blocks)]
  BY DEF LibraryInv, AreLists
<1>1. ASSUME NEW l \in Lists, NEW b \in Blocks, Library!Add(l, b) PROVE LibraryInv'
  <2>1. /\ b \in Blocks \ Library!Used
        /\ listNext' = Calls!addItem(listNext, l, b)
        /\ contents' = [contents EXCEPT ![l] = Append(contents[l], b)]
    BY <1>1, SameOperators DEF Library!Add
  <2>2. AreLists(Blocks, Lists, listNext', contents')
    BY Zenon, <1>0, <2>1, UnusedBlock, AddItemLists
  <2> QED BY <2>2 DEF LibraryInv
<1>2. ASSUME NEW l \in Lists, NEW b \in Blocks, Library!AddFirst(l, b) PROVE LibraryInv'
  <2>1. /\ b \in Blocks \ Library!Used
        /\ listNext' = Calls!addItemFirst(listNext, l, b)
        /\ contents' = [contents EXCEPT ![l] = <<b>> \o contents[l]]
    BY <1>2, SameOperators DEF Library!AddFirst
  <2>2. AreLists(Blocks, Lists, listNext', contents')
    BY Zenon, <1>0, <2>1, UnusedBlock, AddFirstLists
  <2> QED BY <2>2 DEF LibraryInv
<1>3. ASSUME NEW l \in Lists, NEW b \in Blocks, Library!TakeOut(l, b) PROVE LibraryInv'
  <2>1. PICK n \in 1..Len(contents[l]) :
          /\ b = contents[l][n]
          /\ Library!RemoveFirst(contents[l], b) = Table!RemoveAt(contents[l], n)
    BY <1>3, ItemPlace DEF Library!TakeOut
  <2>2. /\ listNext' = Calls!removeItem(listNext, l, contents[l][n])
        /\ contents' = [contents EXCEPT ![l] = Table!RemoveAt(contents[l], n)]
    BY <1>3, <2>1, SameOperators DEF Library!TakeOut
  <2>3. AreLists(Blocks, Lists, listNext', contents')
    BY Zenon, <1>0, <2>2, RemoveItemLists
  <2> QED BY <2>3 DEF LibraryInv
<1>4. ASSUME NEW l \in Lists, NEW b \in Blocks, Library!MoveEnd(l, b) PROVE LibraryInv'
  <2>1. PICK n \in 1..Len(contents[l]) :
          /\ b = contents[l][n]
          /\ Library!RemoveFirst(contents[l], b) = Table!RemoveAt(contents[l], n)
    BY <1>4, ItemPlace DEF Library!MoveEnd
  <2> DEFINE links == Calls!removeItem(listNext, l, b)
             s == Table!RemoveAt(contents[l], n)
             c == [contents EXCEPT ![l] = s]
  <2>2. /\ listNext' = Calls!addItem(links, l, b)
        /\ contents' = [contents EXCEPT ![l] = Append(s, b)]
    BY <1>4, <2>1, MovesItem DEF Library!MoveEnd
  <2>3. AreLists(Blocks, Lists, links, c)
    BY Zenon, <1>0, <2>1, RemoveItemLists
  <2>4. c[l] = s /\ \A m \in Lists \ {l} : c[m] = contents[m]
    BY <1>0
  <2>5. contents' = [c EXCEPT ![l] = Append(c[l], b)]
    <3> HIDE DEF s
    <3> QED BY <1>0, <2>2
  <2>6. ASSUME NEW m \in Lists, NEW k \in 1..Len(c[m]) PROVE c[m][k] # b
    <3>1. CASE m # l
      BY <2>1, <2>4, <2>6, <3>1 DEF LibraryInv, AreLists
    <3>2. CASE m = l
      <4>0. contents[l] \in Seq(Blocks) /\ Len(contents[l]) \in Nat
            /\ IsList(listNext, l, contents[l])
        BY <1>0, LenProperties DEF AreLists
      <4>1. /\ Len(s) = Len(contents[l]) - 1
            /\ \A i \in 1..Len(contents[l]) - 1 :
                 s[i] = IF i < n THEN contents[l][i] ELSE contents[l][i + 1]
        BY <4>0, RemovedAt
      <4>2. k \in 1..Len(contents[l]) - 1 /\ c[m][k] = s[k]
        BY <2>4, <2>6, <3>2, <4>1
      <4>3. k \in 1..Len(contents[l]) /\ k + 1 \in 1..Len(contents[l])
        BY <4>0, <4>2
      <4> HIDE DEF s, c
      <4>4. CASE k < n
        BY <2>1, <4>0, <4>1, <4>2, <4>3, <4>4 DEF IsList
      <4>5. CASE ~(k < n)
        <5>1. k + 1 # n
          BY <4>5
        <5> QED BY <2>1, <4>0, <4>1, <4>2, <4>3, <4>5, <5>1 DEF IsList
      <4> QED BY <4>4, <4>5
    <3> QED BY <3>1, <3>2
  <2>7. AreLists(Blocks, Lists, listNext', contents')
    <3> HIDE DEF c, links, s
    <3>1. b \in Blocks /\ l \in Lists
      OBVIOUS
    <3>2. AreLists(Blocks, Lists, Calls!addItem(links, l, b), [c EXCEPT ![l] = Append(c[l], b)])
      BY <2>3, <2>6, <3>1, AddItemLists
    <3> QED BY Zenon, <2>2, <2>5, <3>2
  <2> QED BY <2>7 DEF LibraryInv
<1>5. ASSUME NEW l \in Lists, Library!Unallocate(l) PROVE LibraryInv'
  <2>1. /\ listNext' = [listNext EXCEPT ![l] = Null]
        /\ contents' = [contents EXCEPT ![l] = <<>>]
        /\ Memory(Blocks, Lists, listNext)
    BY <1>0, <1>5 DEF Library!Unallocate, AreLists
  <2>2. Memory(Blocks, Lists, listNext')
    BY <2>1 DEF Memory
  <2>3. listNext'[l] = Null /\ \A n \in Blocks \cup Lists : n = l \/ listNext'[n] = listNext[n]
    BY <2>1 DEF Memory
  <2> DEFINE t == <<>>
  <2>4. t \in Seq(Blocks) /\ Len(t) = 0
    OBVIOUS
  <2>5. IsList(listNext', l, t)
    BY <2>3, <2>4 DEF IsList, Node
  <2>6. \A j \in 1..Len(t), m \in Lists \ {l} : \A k \in 1..Len(contents[m]) :
          t[j] # contents[m][k]
    BY <2>4
  <2>7. AreLists(Blocks, Lists, listNext', [contents EXCEPT ![l] = t])
    <3> HIDE DEF t
    <3> QED BY Zenon, <1>0, <2>2, <2>3, <2>4, <2>5, <2>6, OneListChanges
  <2> QED BY <2>1, <2>7 DEF LibraryInv
<1>6. CASE UNCHANGED libraryVars
  BY <1>0, <1>6 DEF libraryVars, LibraryInv
<1> QED
  BY <1>1, <1>2, <1>3, <1>4, <1>5, <1>6 DEF Library!Next

(* The list library: adding at either end, taking out, moving to the end   *)
(* and freeing leave each list the sequence it stands for, for any blocks  *)
(* and any lists that take their items from them.                          *)
THEOREM KernelListsAreSequences == KernelSpec => []ListsAreSequences
<1>1. KernelInit => LibraryInv
  BY LibraryInit DEF KernelInit
<1>2. LibraryInv /\ [KernelNext]_allVars => LibraryInv'
  <2> SUFFICES ASSUME LibraryInv, [KernelNext]_allVars PROVE LibraryInv'
    OBVIOUS
  <2>1. [Library!Next]_libraryVars
    BY DEF KernelNext, ProgramsStep, allVars
  <2> QED
    BY <2>1, LibraryNext
<1> QED
  BY <1>1, <1>2, LibraryListsAreSequences, PTL DEF KernelSpec

-----------------------------------------------------------------------------
(* Callbacks: the items of each list, as the programs remember them.       *)
ItemsOf ==
  [l \in Calls!CallLists |-> [k \in 1..Len(listeners) |-> kept[listeners[k]][l]]]

CallTypes ==
  /\ listeners \in Seq(Listeners) /\ called \in Seq(Listeners)
  /\ pointer \in [CallBlocks -> Listeners \cup {Null}]
  /\ kept \in [Listeners -> [Calls!CallLists -> CallBlocks \cup {Null}]]
  /\ list \in Calls!CallLists \cup {Null}
  /\ call \in CallBlocks \cup Calls!CallLists \cup {Null}

ListenersOnce ==
  \A j, k \in 1..Len(listeners) : listeners[j] = listeners[k] => j = k

ItemsPoint ==
  \A l \in Calls!CallLists, k \in 1..Len(listeners) : pointer[ItemsOf[l][k]] = listeners[k]

(* The walk has called those that started first, and is at the item of the *)
(* last of them.                                                           *)
WalkInv ==
  list # Null =>
    /\ Len(called) <= Len(listeners)
    /\ call = Node(list, ItemsOf[list], Len(called))
    /\ \A k \in 1..Len(called) : called[k] = listeners[k]

CallsInv ==
  /\ CallTypes /\ ListenersOnce
  /\ AreLists(CallBlocks, Calls!CallLists, callNext, ItemsOf)
  /\ ItemsPoint /\ WalkInv

LEMMA CallsFacts ==
  /\ IsFiniteSet(CallBlocks) /\ IsFiniteSet(Calls!CallLists)
  /\ CallBlocks \cap Calls!CallLists = {}
  /\ Null \notin CallBlocks \cup Calls!CallLists \cup Listeners
  /\ keyCalls # moveCalls /\ keyCalls # clickCalls /\ moveCalls # clickCalls
<1>1. /\ Cardinality(Calls!CallLists) = 3 /\ IsFiniteSet(CallBlocks)
      /\ CallBlocks \cap Calls!CallLists = {}
      /\ Null \notin CallBlocks \cup Calls!CallLists \cup Listeners
  <2>1. /\ Calls!Cardinality(Calls!CallLists) = 3 /\ Calls!IsFiniteSet(CallBlocks)
        /\ CallBlocks \cap Calls!CallLists = {}
        /\ Null \notin CallBlocks \cup Calls!CallLists \cup Listeners
    BY KernelAssumption DEF Calls!CallbacksAssumption
  <2>2. Calls!Cardinality(Calls!CallLists) = Cardinality(Calls!CallLists)
    BY SameCardinality, Zenon
  <2>3. Calls!IsFiniteSet(CallBlocks) = IsFiniteSet(CallBlocks)
    BY SameCardinality, Zenon
  <2> QED BY <2>1, <2>2, <2>3
<1>2. IsFiniteSet(Calls!CallLists)
  <2>1. IsFiniteSet({clickCalls})
    BY FS_Singleton
  <2>2. IsFiniteSet({clickCalls} \cup {moveCalls})
    BY <2>1, FS_AddElement
  <2>3. IsFiniteSet(({clickCalls} \cup {moveCalls}) \cup {keyCalls})
    BY <2>2, FS_AddElement
  <2>4. Calls!CallLists = ({clickCalls} \cup {moveCalls}) \cup {keyCalls}
    BY DEF Calls!CallLists
  <2> QED BY <2>3, <2>4
<1>3. ASSUME NEW a, NEW b PROVE Cardinality({a, b}) # 3
  <2>1. IsFiniteSet({b}) /\ Cardinality({b}) = 1
    BY Zenon, FS_Singleton
  <2>2. Cardinality({b} \cup {a}) = 1 \/ Cardinality({b} \cup {a}) = 2
    BY <2>1, FS_AddElement
  <2>3. {b} \cup {a} = {a, b}
    OBVIOUS
  <2> QED BY <2>2, <2>3
<1>4. keyCalls # moveCalls
  <2> SUFFICES ASSUME keyCalls = moveCalls PROVE FALSE
    OBVIOUS
  <2>1. Calls!CallLists = {keyCalls, clickCalls}
    BY DEF Calls!CallLists
  <2> QED BY Zenon, <1>1, <1>3, <2>1
<1>5. keyCalls # clickCalls
  <2> SUFFICES ASSUME keyCalls = clickCalls PROVE FALSE
    OBVIOUS
  <2>1. Calls!CallLists = {keyCalls, moveCalls}
    BY DEF Calls!CallLists
  <2> QED BY Zenon, <1>1, <1>3, <2>1
<1>6. moveCalls # clickCalls
  <2> SUFFICES ASSUME moveCalls = clickCalls PROVE FALSE
    OBVIOUS
  <2>1. Calls!CallLists = {keyCalls, moveCalls}
    BY DEF Calls!CallLists
  <2> QED BY <1>1, <1>3, <2>1
<1> QED
  BY <1>1, <1>2, <1>4, <1>5, <1>6

LEMMA ItemsOfFacts ==
  ASSUME CallsInv
  PROVE  /\ Len(listeners) \in Nat
         /\ \A l \in Calls!CallLists :
              /\ ItemsOf[l] \in Seq(CallBlocks) /\ Len(ItemsOf[l]) = Len(listeners)
              /\ IsList(callNext, l, ItemsOf[l])
              /\ \A k \in 1..Len(listeners) :
                   /\ ItemsOf[l][k] = kept[listeners[k]][l] /\ ItemsOf[l][k] \in CallBlocks
                   /\ listeners[k] \in Listeners
<1>1. Len(listeners) \in Nat /\ \A k \in 1..Len(listeners) : listeners[k] \in Listeners
  BY LenProperties, ElementOfSeq DEF CallsInv, CallTypes
<1>2. \A l \in Calls!CallLists :
        ItemsOf[l] \in Seq(CallBlocks) /\ IsList(callNext, l, ItemsOf[l])
  BY DEF CallsInv, AreLists
<1>3. \A l \in Calls!CallLists :
        ItemsOf[l] = [k \in 1..Len(listeners) |-> kept[listeners[k]][l]]
  BY DEF ItemsOf
<1>4. ASSUME NEW l \in Calls!CallLists
      PROVE Len(ItemsOf[l]) = Len(listeners) /\ DOMAIN ItemsOf[l] = 1..Len(listeners)
  <2>1. DOMAIN ItemsOf[l] = 1..Len(listeners)
    BY Zenon, <1>3
  <2>2. DOMAIN ItemsOf[l] = 1..Len(ItemsOf[l]) /\ Len(ItemsOf[l]) \in Nat
    BY <1>2, LenProperties
  <2> QED BY <1>1, <2>1, <2>2
<1>5. \A l \in Calls!CallLists : \A k \in 1..Len(listeners) : ItemsOf[l][k] \in CallBlocks
  BY <1>2, <1>4, ElementOfSeq
<1>6. ASSUME NEW l \in Calls!CallLists, NEW k \in 1..Len(listeners)
      PROVE  ItemsOf[l][k] = kept[listeners[k]][l]
  BY Zenon, <1>3
<1> QED
  BY <1>1, <1>2, <1>4, <1>5, <1>6, Zenon

(* From an item on, a list holds what follows it.                          *)
LEMMA ListTail ==
  ASSUME NEW B, NEW links, NEW from, NEW s \in Seq(B), IsList(links, from, s),
         NEW m \in 0..Len(s)
  PROVE  /\ SubSeq(s, m + 1, Len(s)) \in Seq(B)
         /\ Len(SubSeq(s, m + 1, Len(s))) = Len(s) - m
         /\ \A k \in 1..Len(s) - m : SubSeq(s, m + 1, Len(s))[k] = s[m + k]
         /\ IsList(links, Node(from, s, m), SubSeq(s, m + 1, Len(s)))
<1> DEFINE N == Len(s)
           t == SubSeq(s, m + 1, N)
           f == Node(from, s, m)
<1>0. N \in Nat
  BY LenProperties
<1>1. /\ t \in Seq(B) /\ Len(t) = N - m /\ \A k \in 1..N - m : t[k] = s[m + k]
  <2>1. m + 1 \in 1..N + 1 /\ N \in 0..N
    BY <1>0
  <2>2. t \in Seq(B) /\ Len(t) = (IF m + 1 <= N THEN N - (m + 1) + 1 ELSE 0)
        /\ \A k \in 1..N - (m + 1) + 1 : t[k] = s[(m + 1) + k - 1]
    BY <2>1, SubSeqProperties
  <2> HIDE DEF t, N
  <2>3. m \in Nat /\ m <= N /\ N - (m + 1) + 1 = N - m
    BY <1>0 DEF N
  <2>4. Len(t) = N - m
    BY <1>0, <2>2, <2>3
  <2>5. \A k \in 1..N - m : (m + 1) + k - 1 = m + k
    BY <1>0, <2>3
  <2> QED BY Zenon, <2>2, <2>3, <2>4, <2>5
<1>2. /\ \A j, k \in 1..N : s[j] = s[k] => j = k
      /\ links[Node(from, s, N)] = Null
      /\ \A k \in 1..N : links[Node(from, s, k - 1)] = s[k]
  BY DEF IsList
<1>3. m \in Nat /\ m <= N
  BY <1>0
<1> HIDE DEF t, N
<1>4. \A k \in 0..N - m : Node(f, t, k) = Node(from, s, m + k)
  <2> SUFFICES ASSUME NEW k \in 0..N - m PROVE Node(f, t, k) = Node(from, s, m + k)
    OBVIOUS
  <2>1. CASE k = 0
    BY <1>3, <2>1 DEF Node
  <2>2. CASE k # 0
    <3>1. k \in 1..N - m /\ m + k # 0
      BY <1>0, <1>3, <2>2
    <3> QED BY <1>1, <2>2, <3>1 DEF Node
  <2> QED BY <2>1, <2>2
<1> HIDE DEF f
<1>5. \A j, k \in 1..Len(t) : t[j] = t[k] => j = k
  <2> SUFFICES ASSUME NEW j \in 1..N - m, NEW k \in 1..N - m, t[j] = t[k] PROVE j = k
    BY <1>1
  <2>1. m + j \in 1..N /\ m + k \in 1..N
    BY <1>0, <1>3
  <2>2. m + j = m + k
    BY <1>1, <1>2, <2>1
  <2> QED BY <1>3, <2>2
<1>6. links[Node(f, t, Len(t))] = Null
  <2>1. N - m \in 0..N - m /\ m + (N - m) = N
    BY <1>0, <1>3
  <2> QED BY <1>1, <1>2, <1>4, <2>1
<1>7. ASSUME NEW k \in 1..Len(t) PROVE links[Node(f, t, k - 1)] = t[k]
  <2>1. k - 1 \in 0..N - m /\ m + k \in 1..N /\ m + (k - 1) = m + k - 1 /\ k \in 1..N - m
    BY <1>0, <1>1, <1>3
  <2> QED BY <1>1, <1>2, <1>4, <2>1
<1> QED
  BY Zenon, <1>1, <1>5, <1>6, <1>7 DEF IsList, N, t, f

LEMMA CallbacksInvFollows == CallsInv => CallbacksInv
<1> SUFFICES ASSUME CallsInv PROVE Calls!TypeOK /\ Calls!KeptItemIsOwn /\ Calls!EachCalledOnce
  BY DEF CallbacksInv, Calls!Inv
<1> DEFINE N == Len(listeners)
<1>0. CallTypes /\ Memory(CallBlocks, Calls!CallLists, callNext)
  BY DEF CallsInv, AreLists
<1>1. Calls!TypeOK
  BY <1>0 DEF CallTypes, Memory, Calls!TypeOK
<1>2. N \in Nat /\ DOMAIN listeners = 1..N
  BY <1>0, LenProperties DEF CallTypes
<1>3. ASSUME NEW l \in Calls!CallLists
      PROVE  /\ Calls!Items(callNext, l) = ItemsOf[l]
             /\ DOMAIN ItemsOf[l] = 1..N
  BY <1>0, ItemsOfFacts, ListNodes
<1>4. Calls!KeptItemIsOwn
  <2> SUFFICES ASSUME NEW p \in Calls!ToSet(listeners), NEW l \in Calls!CallLists
               PROVE  /\ kept[p][l] \in Calls!ToSet(Calls!Items(callNext, l))
                      /\ pointer[kept[p][l]] = p
    BY DEF Calls!KeptItemIsOwn
  <2>1. PICK k \in 1..N : p = listeners[k]
    BY <1>2 DEF Calls!ToSet
  <2>2. ItemsOf[l][k] = kept[p][l] /\ pointer[ItemsOf[l][k]] = p
    BY <2>1, ItemsOfFacts DEF CallsInv, ItemsPoint
  <2> QED BY <1>3, <2>2 DEF Calls!ToSet
<1>5. Calls!EachCalledOnce
  <2> SUFFICES ASSUME list # Null
               PROVE  called \o [n \in DOMAIN Calls!Items(callNext, call)
                                   |-> pointer[Calls!Items(callNext, call)[n]]] = listeners
    BY DEF Calls!EachCalledOnce
  <2> DEFINE s == ItemsOf[list]
             m == Len(called)
             t == SubSeq(s, m + 1, N)
             u == [n \in DOMAIN t |-> pointer[t[n]]]
  <2>1. list \in Calls!CallLists
    BY <1>0 DEF CallTypes
  <2>2. /\ m \in Nat /\ m <= N /\ m \in 0..N /\ call = Node(list, s, m)
        /\ \A k \in 1..m : called[k] = listeners[k]
    <3>1. m \in Nat
      BY <1>0, LenProperties DEF CallTypes
    <3>2. m <= N
      BY DEF CallsInv, WalkInv
    <3>3. m \in 0..N
      <4> HIDE DEF m, N
      <4> QED BY <1>2, <3>1, <3>2
    <3> QED BY <3>1, <3>2, <3>3 DEF CallsInv, WalkInv
  <2>3. /\ s \in Seq(CallBlocks) /\ Len(s) = N /\ IsList(callNext, list, s)
        /\ \A k \in 1..N : s[k] \in CallBlocks /\ pointer[s[k]] = listeners[k]
    BY <2>1, ItemsOfFacts DEF CallsInv, ItemsPoint
  <2>4. /\ t \in Seq(CallBlocks) /\ Len(t) = N - m /\ IsList(callNext, call, t)
        /\ \A k \in 1..N - m : t[k] = s[m + k]
    BY <2>2, <2>3, ListTail
  <2>5. call \in CallBlocks \cup Calls!CallLists
    BY <1>0, <2>1, <2>2, <2>3, ListNodes
  <2>6. Calls!Items(callNext, call) = t /\ DOMAIN t = 1..N - m
    <3> HIDE DEF t
    <3> QED BY <1>0, <2>4, <2>5, ListNodes
  <2>7. \A k \in 1..N - m : m + k \in 1..N
    <3> HIDE DEF m, N
    <3> QED BY <1>2, <2>2
  <2>8. /\ u = [k \in 1..N - m |-> listeners[m + k]]
    <3> HIDE DEF t, s, m, N
    <3> QED BY <2>3, <2>4, <2>6, <2>7
  <2>9. u \in Seq(Listeners) /\ Len(u) = N - m
    <3>1. \A k \in 1..N - m : listeners[m + k] \in Listeners
      BY <2>7, <1>0, ElementOfSeq DEF CallTypes
    <3>2. N - m \in Nat
      <4> HIDE DEF m, N
      <4> QED BY <1>2, <2>2
    <3> HIDE DEF t, s, m, N, u
    <3>3. u \in [1..N - m -> Listeners]
      BY <2>8, <3>1
    <3> DEFINE M == N - m
    <3>4. u \in Seq(Listeners) /\ DOMAIN u = 1..M /\ M \in Nat
      <4> HIDE DEF M
      <4>1. M \in Nat /\ u \in [1..M -> Listeners]
        BY <3>2, <3>3 DEF M
      <4> QED BY <4>1, IsASeq
    <3> HIDE DEF M
    <3>5. Len(u) = M
      BY <3>4, LenProperties
    <3> QED BY <3>4, <3>5 DEF M
  <2>10. /\ called \o u \in Seq(Listeners) /\ Len(called \o u) = m + (N - m)
         /\ \A k \in 1..m + (N - m) :
              (called \o u)[k] = IF k <= m THEN called[k] ELSE u[k - m]
    <3> HIDE DEF u
    <3> QED BY <1>0, <2>9, ConcatProperties DEF CallTypes
  <2>11. m + (N - m) = N
    <3> HIDE DEF m, N
    <3> QED BY <1>2, <2>2
  <2>12. ASSUME NEW k \in 1..N PROVE (called \o u)[k] = listeners[k]
    <3> HIDE DEF t, s, m, N, u
    <3>1. CASE k <= m
      <4>1. k \in 1..m
        BY <2>2, <3>1
      <4> QED BY <2>2, <2>10, <2>11, <3>1, <4>1
    <3>2. CASE ~(k <= m)
      <4>1. k - m \in 1..N - m /\ m + (k - m) = k
        BY <1>2, <2>2, <3>2
      <4> QED BY Zenon, <2>8, <2>10, <2>11, <3>2, <4>1
    <3> QED BY Zenon, <3>1, <3>2
  <2>13. called \o u = listeners
    <3> HIDE DEF u
    <3> QED BY Zenon, <1>0, <2>10, <2>11, <2>12, SeqEqual DEF CallTypes
  <2> QED BY Zenon, <2>6, <2>13
<1> QED
  BY <1>1, <1>4, <1>5

(* Each of the lists is given one item, or loses the one at a place.       *)
LEMMA AddCallsLists ==
  ASSUME NEW links, NEW c, AreLists(CallBlocks, Calls!CallLists, links, c),
         NEW item \in [Calls!CallLists -> CallBlocks],
         \A l, m \in Calls!CallLists : item[l] = item[m] => l = m,
         \A l, m \in Calls!CallLists : \A k \in 1..Len(c[m]) : c[m][k] # item[l]
  PROVE  AreLists(CallBlocks, Calls!CallLists, Calls!AddCalls(links, item),
                  [l \in Calls!CallLists |-> Append(c[l], item[l])])
<1> DEFINE Fresh(d, b) == \A m \in Calls!CallLists : \A k \in 1..Len(d[m]) : d[m][k] # b
           With(d, l) == [d EXCEPT ![l] = Append(d[l], item[l])]
           Typed(d) == d \in [Calls!CallLists -> Seq(CallBlocks)]
           c1 == With(c, keyCalls)
           c2 == With(c1, moveCalls)
           c3 == With(c2, clickCalls)
           links1 == Calls!addItem(links, keyCalls, item[keyCalls])
           links2 == Calls!addItem(links1, moveCalls, item[moveCalls])
           links3 == Calls!addItem(links2, clickCalls, item[clickCalls])
<1>1. /\ keyCalls \in Calls!CallLists /\ moveCalls \in Calls!CallLists
      /\ clickCalls \in Calls!CallLists
      /\ \A l \in Calls!CallLists : l = keyCalls \/ l = moveCalls \/ l = clickCalls
      /\ keyCalls # moveCalls /\ keyCalls # clickCalls /\ moveCalls # clickCalls
  BY CallsFacts DEF Calls!CallLists
<1>2. Typed(c)
  BY DEF AreLists
<1>3. ASSUME NEW d, Typed(d), NEW l \in Calls!CallLists
      PROVE  /\ Typed(With(d, l)) /\ With(d, l)[l] = Append(d[l], item[l])
             /\ \A m \in Calls!CallLists \ {l} : With(d, l)[m] = d[m]
  <2>1. Append(d[l], item[l]) \in Seq(CallBlocks)
    BY <1>3, AppendProperties
  <2> QED BY <1>3, <2>1
<1>4. ASSUME NEW d, Typed(d), NEW l \in Calls!CallLists, NEW m \in Calls!CallLists, l # m,
             Fresh(d, item[m])
      PROVE  Fresh(With(d, l), item[m])
  <2> SUFFICES ASSUME NEW o \in Calls!CallLists, NEW k \in 1..Len(With(d, l)[o]),
                      With(d, l)[o][k] = item[m]
               PROVE  FALSE
    OBVIOUS
  <2> HIDE DEF With
  <2>0. /\ With(d, l)[l] = Append(d[l], item[l]) /\ d[l] \in Seq(CallBlocks)
        /\ o # l => With(d, l)[o] = d[o]
    <3>1. d[l] \in Seq(CallBlocks)
      BY <1>4
    <3> HIDE DEF Typed, Fresh
    <3>2. With(d, l)[l] = Append(d[l], item[l])
      BY <1>3, <1>4
    <3>3. o # l => With(d, l)[o] = d[o]
      BY <1>3, <1>4
    <3> QED BY <3>1, <3>2, <3>3
  <2>1. o = l
    <3> SUFFICES ASSUME o # l PROVE FALSE
      OBVIOUS
    <3>1. k \in 1..Len(d[o]) /\ d[o][k] = item[m]
      BY <2>0
    <3> QED BY <1>4, <3>1
  <2>2. /\ Len(With(d, l)[l]) = Len(d[l]) + 1 /\ With(d, l)[l][Len(d[l]) + 1] = item[l]
        /\ \A i \in 1..Len(d[l]) : With(d, l)[l][i] = d[l][i]
        /\ Len(d[l]) \in Nat
    <3> HIDE DEF Typed, Fresh
    <3>1. Len(d[l]) \in Nat /\ item[l] \in CallBlocks
      BY <2>0, LenProperties
    <3> QED BY <2>0, <3>1, AppendProperties
  <2>3. k \in 1..Len(d[l]) \/ k = Len(d[l]) + 1
    BY <2>1, <2>2
  <2> QED BY <1>4, <2>1, <2>2, <2>3
<1>5. AreLists(CallBlocks, Calls!CallLists, links1, c1)
  BY <1>1, AddItemLists
<1>6. Typed(c1) /\ Fresh(c1, item[moveCalls]) /\ Fresh(c1, item[clickCalls])
  <2> HIDE DEF With, Typed
  <2>1. Fresh(c, item[moveCalls]) /\ Fresh(c, item[clickCalls])
    BY <1>1
  <2> HIDE DEF Fresh
  <2> QED BY <1>1, <1>2, <1>3, <1>4, <2>1
<1>7. AreLists(CallBlocks, Calls!CallLists, links2, c2)
  <2> HIDE DEF c1, links1
  <2> QED BY Zenon, <1>1, <1>5, <1>6, AddItemLists
<1>8. Typed(c2) /\ Fresh(c2, item[clickCalls])
  <2> HIDE DEF With, Typed, Fresh, c1
  <2> QED BY <1>1, <1>3, <1>4, <1>6
<1>9. AreLists(CallBlocks, Calls!CallLists, links3, c3)
  <2> HIDE DEF c2, links2
  <2> QED BY Zenon, <1>1, <1>7, <1>8, AddItemLists
<1>10. c3 = [l \in Calls!CallLists |-> Append(c[l], item[l])]
  <2>1. Typed(c3)
    <3> HIDE DEF With, Typed, c2
    <3> QED BY <1>1, <1>3, <1>8
  <2>2. ASSUME NEW l \in Calls!CallLists PROVE c3[l] = Append(c[l], item[l])
    <3> HIDE DEF With, Typed
    <3>1. CASE l = keyCalls
      <4>1. c1[l] = Append(c[l], item[l])
        BY <1>1, <1>2, <1>3, <3>1
      <4>2. c2[l] = c1[l]
        <5> HIDE DEF c1
        <5> QED BY <1>1, <1>3, <1>6, <3>1
      <4>3. c3[l] = c2[l]
        <5> HIDE DEF c2
        <5> QED BY <1>1, <1>3, <1>8, <3>1
      <4> QED BY <4>1, <4>2, <4>3
    <3>2. CASE l = moveCalls
      <4>1. c1[l] = c[l]
        BY <1>1, <1>2, <1>3, <3>2
      <4>2. c2[l] = Append(c1[l], item[l])
        <5> HIDE DEF c1
        <5> QED BY <1>1, <1>3, <1>6, <3>2
      <4>3. c3[l] = c2[l]
        <5> HIDE DEF c2
        <5> QED BY <1>1, <1>3, <1>8, <3>2
      <4> QED BY <4>1, <4>2, <4>3
    <3>3. CASE l = clickCalls
      <4>1. c1[l] = c[l]
        BY <1>1, <1>2, <1>3, <3>3
      <4>2. c2[l] = c1[l]
        <5> HIDE DEF c1
        <5> QED BY <1>1, <1>3, <1>6, <3>3
      <4>3. c3[l] = Append(c2[l], item[l])
        <5> HIDE DEF c2
        <5> QED BY <1>1, <1>3, <1>8, <3>3
      <4> QED BY <4>1, <4>2, <4>3
    <3> QED BY <1>1, <3>1, <3>2, <3>3
  <2> HIDE DEF c3
  <2>3. c3 = [l \in Calls!CallLists |-> c3[l]]
    BY <2>1
  <2> QED BY <2>2, <2>3
<1>11. Calls!AddCalls(links, item) = links3
  BY DEF Calls!AddCalls, Calls!AddCall
<1> HIDE DEF c3, links3
<1> QED
  BY <1>9, <1>10, <1>11

LEMMA RemoveCallsLists ==
  ASSUME NEW links, NEW c, AreLists(CallBlocks, Calls!CallLists, links, c), NEW n,
         NEW item, \A l \in Calls!CallLists : n \in 1..Len(c[l]) /\ item[l] = c[l][n]
  PROVE  AreLists(CallBlocks, Calls!CallLists, Calls!RemoveCalls(links, item),
                  [l \in Calls!CallLists |-> Table!RemoveAt(c[l], n)])
<1> DEFINE Without(d, l) == [d EXCEPT ![l] = Table!RemoveAt(d[l], n)]
           Typed(d) == d \in [Calls!CallLists -> Seq(CallBlocks)]
           c1 == Without(c, keyCalls)
           c2 == Without(c1, moveCalls)
           c3 == Without(c2, clickCalls)
           links1 == Calls!removeItem(links, keyCalls, item[keyCalls])
           links2 == Calls!removeItem(links1, moveCalls, item[moveCalls])
           links3 == Calls!removeItem(links2, clickCalls, item[clickCalls])
<1>1. /\ keyCalls \in Calls!CallLists /\ moveCalls \in Calls!CallLists
      /\ clickCalls \in Calls!CallLists
      /\ \A l \in Calls!CallLists : l = keyCalls \/ l = moveCalls \/ l = clickCalls
      /\ keyCalls # moveCalls /\ keyCalls # clickCalls /\ moveCalls # clickCalls
  BY CallsFacts DEF Calls!CallLists
<1>2. Typed(c)
  BY DEF AreLists
<1>3. ASSUME NEW d, Typed(d), NEW l \in Calls!CallLists, n \in 1..Len(d[l])
      PROVE  /\ Typed(Without(d, l)) /\ Without(d, l)[l] = Table!RemoveAt(d[l], n)
             /\ \A m \in Calls!CallLists \ {l} : Without(d, l)[m] = d[m]
  <2>1. Table!RemoveAt(d[l], n) \in Seq(CallBlocks)
    BY <1>3, RemovedAt
  <2> QED BY <1>3, <2>1
<1>4. /\ Typed(c1) /\ c1[keyCalls] = Table!RemoveAt(c[keyCalls], n)
      /\ c1[moveCalls] = c[moveCalls] /\ c1[clickCalls] = c[clickCalls]
  <2> HIDE DEF Without, Typed
  <2> QED BY <1>1, <1>2, <1>3
<1>5. /\ Typed(c2) /\ c2[keyCalls] = c1[keyCalls]
      /\ c2[moveCalls] = Table!RemoveAt(c[moveCalls], n) /\ c2[clickCalls] = c[clickCalls]
  <2> HIDE DEF Without, Typed, c1
  <2> QED BY <1>1, <1>3, <1>4
<1>6. /\ Typed(c3) /\ c3[keyCalls] = c2[keyCalls]
      /\ c3[moveCalls] = c2[moveCalls] /\ c3[clickCalls] = Table!RemoveAt(c[clickCalls], n)
  <2> HIDE DEF Without, Typed, c2
  <2> QED BY <1>1, <1>3, <1>5
<1>7. AreLists(CallBlocks, Calls!CallLists, links1, c1)
  BY <1>1, RemoveItemLists
<1>8. AreLists(CallBlocks, Calls!CallLists, links2, c2)
  <2>1. n \in 1..Len(c1[moveCalls]) /\ item[moveCalls] = c1[moveCalls][n]
    BY <1>1, <1>4
  <2> HIDE DEF c1, links1
  <2> QED BY <1>1, <1>7, <2>1, RemoveItemLists
<1>9. AreLists(CallBlocks, Calls!CallLists, links3, c3)
  <2>1. n \in 1..Len(c2[clickCalls]) /\ item[clickCalls] = c2[clickCalls][n]
    BY <1>1, <1>5
  <2> HIDE DEF c2, links2
  <2> QED BY <1>1, <1>8, <2>1, RemoveItemLists
<1>10. c3 = [l \in Calls!CallLists |-> Table!RemoveAt(c[l], n)]
  <2> HIDE DEF c1, c2, c3
  <2>1. c3 = [l \in Calls!CallLists |-> c3[l]]
    BY <1>6
  <2>2. \A l \in Calls!CallLists : c3[l] = Table!RemoveAt(c[l], n)
    BY Zenon, <1>1, <1>4, <1>5, <1>6
  <2> QED BY <2>1, <2>2
<1>11. Calls!RemoveCalls(links, item) = links3
  BY DEF Calls!RemoveCalls, Calls!RemoveCall
<1> HIDE DEF c3, links3
<1> QED
  BY <1>9, <1>10, <1>11

LEMMA CallsInit == Calls!Init => CallsInv
<1> SUFFICES ASSUME Calls!Init PROVE CallsInv
  OBVIOUS
<1> USE CallsFacts
<1>1. /\ callNext = [n \in CallBlocks \cup Calls!CallLists |-> Null]
      /\ pointer = [b \in CallBlocks |-> Null]
      /\ kept = [p \in Listeners |-> [l \in Calls!CallLists |-> Null]]
      /\ list = Null /\ call = Null /\ called = <<>> /\ listeners = <<>>
  BY DEF Calls!Init
<1>2. /\ <<>> \in Seq(Listeners) /\ Len(listeners) = 0
  BY <1>1
<1>3. CallTypes
  BY <1>1, <1>2 DEF CallTypes
<1>4. ListenersOnce /\ WalkInv
  BY <1>1, <1>2 DEF ListenersOnce, WalkInv
<1>5. \A l \in Calls!CallLists :
        ItemsOf[l] \in Seq(CallBlocks) /\ ItemsOf[l] = <<>> /\ Len(ItemsOf[l]) = 0
  <2> SUFFICES ASSUME NEW l \in Calls!CallLists
               PROVE ItemsOf[l] \in Seq(CallBlocks) /\ ItemsOf[l] = <<>> /\ Len(ItemsOf[l]) = 0
    OBVIOUS
  <2>1. ItemsOf[l] = [k \in 1..0 |-> kept[listeners[k]][l]]
    BY <1>2 DEF ItemsOf
  <2>2. [k \in 1..0 |-> kept[listeners[k]][l]] = <<>>
    OBVIOUS
  <2>3. <<>> \in Seq(CallBlocks) /\ Len(<<>>) = 0
    OBVIOUS
  <2> QED BY <2>1, <2>2, <2>3
<1>6. AreLists(CallBlocks, Calls!CallLists, callNext, ItemsOf)
  <2>1. Memory(CallBlocks, Calls!CallLists, callNext)
    BY <1>1 DEF Memory
  <2>2. ItemsOf \in [Calls!CallLists -> Seq(CallBlocks)]
    <3>1. ItemsOf = [l \in Calls!CallLists |-> ItemsOf[l]]
      BY DEF ItemsOf
    <3> QED BY <1>5, <3>1
  <2>3. \A l \in Calls!CallLists : IsList(callNext, l, ItemsOf[l])
    BY <1>1, <1>5 DEF IsList, Node
  <2> QED BY <1>5, <2>1, <2>2, <2>3 DEF AreLists
<1>7. ItemsPoint
  BY <1>2 DEF ItemsPoint
<1> QED
  BY <1>3, <1>4, <1>6, <1>7 DEF CallsInv

LEMMA StartKeepsCalls ==
  ASSUME CallsInv, NEW p \in Listeners, Calls!Start(p)
  PROVE  CallsInv'
<1> DEFINE N == Len(listeners)
<1>0. CallTypes /\ AreLists(CallBlocks, Calls!CallLists, callNext, ItemsOf)
  BY DEF CallsInv
<1>1. PICK item \in [Calls!CallLists -> Calls!Unused] :
        /\ Calls!IsInjective(item)
        /\ callNext' = Calls!AddCalls(callNext, item)
        /\ pointer' = [b \in CallBlocks |-> IF b \in Calls!Range(item) THEN p ELSE pointer[b]]
        /\ kept' = [kept EXCEPT ![p] = item]
  BY Zenon DEF Calls!Start
<1>2. /\ list = Null /\ p \notin Calls!ToSet(listeners)
      /\ listeners' = Append(listeners, p)
      /\ UNCHANGED <<list, call, called>>
  BY DEF Calls!Start
<1>3. /\ N \in Nat /\ DOMAIN listeners = 1..N /\ listeners \in Seq(Listeners)
      /\ \A k \in 1..N : listeners[k] \in Listeners /\ listeners[k] # p
  BY <1>0, <1>2, LenProperties, ElementOfSeq DEF CallTypes, Calls!ToSet
<1>4. \A l \in Calls!CallLists :
        /\ ItemsOf[l] \in Seq(CallBlocks) /\ Len(ItemsOf[l]) = N
        /\ DOMAIN ItemsOf[l] = 1..N
        /\ \A k \in 1..N :
             /\ ItemsOf[l][k] = kept[listeners[k]][l] /\ ItemsOf[l][k] \in CallBlocks
             /\ pointer[ItemsOf[l][k]] = listeners[k]
  BY ItemsOfFacts, LenProperties DEF CallsInv, ItemsPoint
<1>5. /\ item \in [Calls!CallLists -> CallBlocks]
      /\ \A l \in Calls!CallLists : pointer[item[l]] = Null
      /\ Calls!Range(item) = {item[l] : l \in Calls!CallLists}
      /\ \A l, m \in Calls!CallLists : item[l] = item[m] => l = m
  BY <1>1 DEF Calls!Unused, Calls!IsInjective, Calls!Range
<1>6. \A l, m \in Calls!CallLists : \A k \in 1..N : ItemsOf[m][k] # item[l]
  BY <1>3, <1>4, <1>5, CallsFacts
<1> HIDE DEF N
<1>7. /\ listeners' \in Seq(Listeners) /\ Len(listeners') = N + 1
      /\ \A k \in 1..N : listeners'[k] = listeners[k]
      /\ listeners'[N + 1] = p
      /\ \A k \in 1..N + 1 : k \in 1..N \/ k = N + 1
  BY <1>2, <1>3, AppendProperties DEF N
<1>8. /\ kept' \in [Listeners -> [Calls!CallLists -> CallBlocks \cup {Null}]]
      /\ kept'[p] = item /\ \A q \in Listeners \ {p} : kept'[q] = kept[q]
  <2>1. item \in [Calls!CallLists -> CallBlocks \cup {Null}]
    BY <1>5
  <2> QED BY <1>0, <1>1, <2>1 DEF CallTypes
<1>9. CallTypes'
  <2>1. pointer' \in [CallBlocks -> Listeners \cup {Null}]
    BY <1>0, <1>1 DEF CallTypes
  <2> QED BY <1>0, <1>2, <1>7, <1>8, <2>1 DEF CallTypes
<1>10. ListenersOnce'
  <2> SUFFICES ASSUME NEW j \in 1..N + 1, NEW k \in 1..N + 1, listeners'[j] = listeners'[k]
               PROVE  j = k
    BY <1>7 DEF ListenersOnce
  <2>1. \A i, o \in 1..N : listeners[i] = listeners[o] => i = o
    BY DEF CallsInv, ListenersOnce, N
  <2> QED BY <1>3, <1>7, <2>1
<1>11. ASSUME NEW l \in Calls!CallLists
       PROVE  /\ Append(ItemsOf[l], item[l]) \in Seq(CallBlocks)
              /\ DOMAIN Append(ItemsOf[l], item[l]) = 1..N + 1
              /\ \A k \in 1..N : Append(ItemsOf[l], item[l])[k] = ItemsOf[l][k]
              /\ Append(ItemsOf[l], item[l])[N + 1] = item[l]
              /\ ItemsOf'[l] = Append(ItemsOf[l], item[l])
  <2> DEFINE t == Append(ItemsOf[l], item[l])
             u == [k \in 1..N + 1 |-> kept'[listeners'[k]][l]]
  <2>0. item[l] \in CallBlocks /\ ItemsOf[l] \in Seq(CallBlocks) /\ Len(ItemsOf[l]) = N
    BY <1>4, <1>5
  <2>1. /\ t \in Seq(CallBlocks) /\ Len(t) = N + 1
        /\ \A k \in 1..N : t[k] = ItemsOf[l][k]
        /\ t[N + 1] = item[l]
    BY <2>0, AppendProperties
  <2>2. t \in [1..N + 1 -> CallBlocks]
    <3> HIDE DEF t
    <3> QED BY <2>1, LenProperties
  <2>3. ASSUME NEW k \in 1..N + 1 PROVE kept'[listeners'[k]][l] = t[k]
    <3> HIDE DEF t
    <3>1. CASE k = N + 1
      BY <1>7, <1>8, <2>1, <3>1
    <3>2. CASE k \in 1..N
      BY <1>3, <1>4, <1>7, <1>8, <2>1, <3>2
    <3> QED BY <1>7, <3>1, <3>2
  <2>4. u = t
    <3> HIDE DEF t
    <3> QED BY <2>2, <2>3
  <2>5. ItemsOf'[l] = u
    BY <1>7 DEF ItemsOf
  <2> HIDE DEF t, u
  <2>6. ItemsOf'[l] = t /\ DOMAIN t = 1..N + 1
    BY <2>2, <2>4, <2>5
  <2> QED BY Zenon, <2>1, <2>6 DEF t
<1>12. AreLists(CallBlocks, Calls!CallLists, callNext, ItemsOf)'
  <2> DEFINE d == [l \in Calls!CallLists |-> Append(ItemsOf[l], item[l])]
  <2>1. AreLists(CallBlocks, Calls!CallLists, callNext', d)
    BY <1>0, <1>1, <1>4, <1>5, <1>6, AddCallsLists
  <2>2. ItemsOf' = [l \in Calls!CallLists |-> ItemsOf'[l]]
    BY DEF ItemsOf
  <2>3. ItemsOf' = d
    BY <1>11, <2>2
  <2> HIDE DEF d
  <2>4. AreLists(CallBlocks, Calls!CallLists, callNext', ItemsOf')
    BY <2>1, <2>3
  <2> QED BY <2>4
<1>13. ItemsPoint'
  <2> SUFFICES ASSUME NEW l \in Calls!CallLists, NEW k \in 1..N + 1
               PROVE  pointer'[ItemsOf'[l][k]] = listeners'[k]
    BY <1>7 DEF ItemsPoint
  <2>1. CASE k = N + 1
    <3>1. ItemsOf'[l][k] = item[l] /\ item[l] \in Calls!Range(item) /\ item[l] \in CallBlocks
      BY <1>5, <1>11, <2>1
    <3> QED BY <1>1, <1>7, <2>1, <3>1
  <2>2. CASE k \in 1..N
    <3>1. ItemsOf'[l][k] = ItemsOf[l][k] /\ ItemsOf[l][k] \in CallBlocks
      BY <1>4, <1>11, <2>2
    <3>2. ItemsOf[l][k] \notin Calls!Range(item)
      BY <1>5, <1>6, <2>2
    <3> QED BY <1>1, <1>4, <1>7, <2>2, <3>1, <3>2
  <2> QED BY <1>7, <2>1, <2>2
<1>14. WalkInv'
  BY <1>2 DEF WalkInv
<1> QED
  BY <1>9, <1>10, <1>12, <1>13, <1>14 DEF CallsInv

LEMMA QuitKeepsCalls ==
  ASSUME CallsInv, NEW p \in Listeners, Calls!Quit(p)
  PROVE  CallsInv'
<1> DEFINE N == Len(listeners)
<1>0. CallTypes /\ AreLists(CallBlocks, Calls!CallLists, callNext, ItemsOf)
  BY DEF CallsInv
<1>1. /\ callNext' = Calls!RemoveCalls(callNext, kept[p])
      /\ pointer' = [b \in CallBlocks |->
                       IF b \in Calls!Range(kept[p]) THEN Null ELSE pointer[b]]
      /\ kept' = [kept EXCEPT ![p] = [l \in Calls!CallLists |-> Null]]
      /\ list = Null /\ p \in Calls!ToSet(listeners)
      /\ listeners' = Calls!RemoveFirst(listeners, p)
      /\ UNCHANGED <<list, call, called>>
  BY DEF Calls!Quit
<1>2. /\ N \in Nat /\ DOMAIN listeners = 1..N /\ listeners \in Seq(Listeners)
      /\ \A k \in 1..N : listeners[k] \in Listeners
      /\ \A j, k \in 1..N : listeners[j] = listeners[k] => j = k
  BY <1>0, LenProperties, ElementOfSeq DEF CallTypes, CallsInv, ListenersOnce
<1>3. PICK n \in 1..N : p = listeners[n]
  BY <1>1, <1>2 DEF Calls!ToSet
<1>4. \A l \in Calls!CallLists :
        /\ ItemsOf[l] \in Seq(CallBlocks) /\ Len(ItemsOf[l]) = N
        /\ \A j, k \in 1..N : ItemsOf[l][j] = ItemsOf[l][k] => j = k
        /\ \A k \in 1..N :
             /\ ItemsOf[l][k] = kept[listeners[k]][l] /\ ItemsOf[l][k] \in CallBlocks
             /\ pointer[ItemsOf[l][k]] = listeners[k]
  BY ItemsOfFacts DEF CallsInv, ItemsPoint, IsList
<1>5. listeners' = Table!RemoveAt(listeners, n)
  BY <1>1, <1>2, <1>3, SameRemoval
<1>6. /\ listeners' \in Seq(Listeners) /\ Len(listeners') = N - 1
      /\ \A k \in 1..N - 1 :
           listeners'[k] = IF k < n THEN listeners[k] ELSE listeners[k + 1]
  BY Zenon, <1>2, <1>5, RemovedAt
<1>7. ASSUME NEW l \in Calls!CallLists
      PROVE  /\ Table!RemoveAt(ItemsOf[l], n) \in Seq(CallBlocks)
             /\ Len(Table!RemoveAt(ItemsOf[l], n)) = N - 1
             /\ \A k \in 1..N - 1 : Table!RemoveAt(ItemsOf[l], n)[k] =
                  IF k < n THEN ItemsOf[l][k] ELSE ItemsOf[l][k + 1]
  <2> DEFINE s == ItemsOf[l]
  <2>1. s \in Seq(CallBlocks) /\ Len(s) = N
    BY <1>4
  <2> HIDE DEF s, N
  <2>2. n \in 1..Len(s)
    BY <1>3, <2>1
  <2>3. /\ Table!RemoveAt(s, n) \in Seq(CallBlocks)
        /\ Len(Table!RemoveAt(s, n)) = Len(s) - 1
        /\ \A k \in 1 .. Len(s) - 1 :
             Table!RemoveAt(s, n)[k] = IF k < n THEN s[k] ELSE s[k + 1]
    BY <2>1, <2>2, RemovedAt
  <2> QED BY <2>1, <2>3 DEF s
<1> HIDE DEF N
(* Where a program that stays has been.                                    *)
<1>8. ASSUME NEW k \in 1..N - 1
      PROVE  LET o == IF k < n THEN k ELSE k + 1
             IN  /\ o \in 1..N /\ o # n
                 /\ listeners'[k] = listeners[o] /\ listeners[o] # p
                 /\ \A l \in Calls!CallLists : Table!RemoveAt(ItemsOf[l], n)[k] = ItemsOf[l][o]
  <2> DEFINE o == IF k < n THEN k ELSE k + 1
  <2>1. o \in 1..N /\ o # n
    BY <1>2
  <2>2. listeners'[k] = listeners[o]
    BY <1>6
  <2>3. listeners[o] # p
    <3> HIDE DEF o
    <3> QED BY <1>2, <1>3, <2>1
  <2>4. \A l \in Calls!CallLists : Table!RemoveAt(ItemsOf[l], n)[k] = ItemsOf[l][o]
    BY <1>7
  <2> QED BY <2>1, <2>2, <2>3, <2>4
<1>9. /\ kept' \in [Listeners -> [Calls!CallLists -> CallBlocks \cup {Null}]]
      /\ \A q \in Listeners \ {p} : kept'[q] = kept[q]
  <2>1. [l \in Calls!CallLists |-> Null] \in [Calls!CallLists -> CallBlocks \cup {Null}]
    OBVIOUS
  <2> QED BY <1>0, <1>1, <2>1 DEF CallTypes
<1>10. CallTypes'
  <2>1. pointer' \in [CallBlocks -> Listeners \cup {Null}]
    BY <1>0, <1>1 DEF CallTypes
  <2> QED BY <1>0, <1>1, <1>6, <1>9, <2>1 DEF CallTypes
<1>11. ListenersOnce'
  <2> SUFFICES ASSUME NEW j \in 1..N - 1, NEW k \in 1..N - 1, listeners'[j] = listeners'[k]
               PROVE  j = k
    BY <1>6 DEF ListenersOnce
  <2> DEFINE i == IF j < n THEN j ELSE j + 1
             o == IF k < n THEN k ELSE k + 1
  <2>1. i \in 1..N /\ o \in 1..N /\ listeners[i] = listeners[o]
    BY <1>8
  <2>2. i = o
    <3> HIDE DEF i, o
    <3> QED BY <1>2, <2>1
  <2> QED BY <1>2, <2>2
<1>12. ItemsOf' = [l \in Calls!CallLists |-> Table!RemoveAt(ItemsOf[l], n)]
  <2> SUFFICES ASSUME NEW l \in Calls!CallLists
               PROVE  [k \in 1..N - 1 |-> kept'[listeners'[k]][l]]
                        = Table!RemoveAt(ItemsOf[l], n)
    BY <1>6 DEF ItemsOf
  <2> DEFINE t == Table!RemoveAt(ItemsOf[l], n)
  <2>1. t \in [1..N - 1 -> CallBlocks]
    <3>1. t \in Seq(CallBlocks) /\ Len(t) = N - 1
      BY <1>7
    <3> HIDE DEF t
    <3> QED BY <3>1, LenProperties
  <2>2. ASSUME NEW k \in 1..N - 1 PROVE kept'[listeners'[k]][l] = t[k]
    <3> DEFINE o == IF k < n THEN k ELSE k + 1
    <3>1. /\ o \in 1..N /\ listeners'[k] = listeners[o] /\ listeners[o] # p
          /\ t[k] = ItemsOf[l][o]
      BY <1>8
    <3> HIDE DEF o, t
    <3>2. listeners[o] \in Listeners \ {p} /\ ItemsOf[l][o] = kept[listeners[o]][l]
      BY <1>2, <1>4, <3>1
    <3> QED BY <1>9, <3>1, <3>2
  <2> HIDE DEF t
  <2>3. [k \in 1..N - 1 |-> kept'[listeners'[k]][l]] = t
    BY <2>1, <2>2
  <2> QED BY <2>3 DEF t
<1>13. AreLists(CallBlocks, Calls!CallLists, callNext, ItemsOf)'
  <2> DEFINE d == [l \in Calls!CallLists |-> Table!RemoveAt(ItemsOf[l], n)]
  <2>1. \A l \in Calls!CallLists : n \in 1..Len(ItemsOf[l]) /\ kept[p][l] = ItemsOf[l][n]
    BY <1>3, <1>4
  <2>2. AreLists(CallBlocks, Calls!CallLists, callNext', d)
    BY Zenon, <1>0, <1>1, <2>1, RemoveCallsLists
  <2> HIDE DEF d
  <2>3. AreLists(CallBlocks, Calls!CallLists, callNext', ItemsOf')
    BY <1>12, <2>2 DEF d
  <2> QED BY <2>3
<1>14. ItemsPoint'
  <2> SUFFICES ASSUME NEW l \in Calls!CallLists, NEW k \in 1..N - 1
               PROVE  pointer'[ItemsOf'[l][k]] = listeners'[k]
    BY <1>6 DEF ItemsPoint
  <2> DEFINE o == IF k < n THEN k ELSE k + 1
  <2>1. /\ o \in 1..N /\ o # n /\ listeners'[k] = listeners[o]
        /\ ItemsOf'[l][k] = ItemsOf[l][o]
    BY <1>8, <1>12
  <2> HIDE DEF o
  <2>2. ItemsOf[l][o] \in CallBlocks /\ pointer[ItemsOf[l][o]] = listeners[o]
    BY <1>4, <2>1
  <2>3. ItemsOf[l][o] \notin Calls!Range(kept[p])
    <3> SUFFICES ASSUME NEW m \in Calls!CallLists, ItemsOf[l][o] = kept[p][m] PROVE FALSE
      BY <1>0 DEF CallTypes, Calls!Range
    <3>1. ItemsOf[l][o] = ItemsOf[m][n]
      BY <1>3, <1>4
    <3>2. l = m
      BY <1>0, <1>4, <2>1, <3>1 DEF AreLists
    <3> QED BY <1>4, <2>1, <3>1, <3>2
  <2> QED BY <1>1, <2>1, <2>2, <2>3
<1>15. WalkInv'
  BY <1>1 DEF WalkInv
<1> QED
  BY <1>10, <1>11, <1>13, <1>14, <1>15 DEF CallsInv

(* A step that leaves the lists and the programs alone.                    *)
LEMMA WalkKeepsLists ==
  ASSUME CallsInv, UNCHANGED <<callNext, pointer, kept, listeners>>
  PROVE  /\ ListenersOnce' /\ ItemsPoint' /\ ItemsOf' = ItemsOf
         /\ AreLists(CallBlocks, Calls!CallLists, callNext, ItemsOf)'
<1>1. ItemsOf' = ItemsOf
  BY DEF ItemsOf
<1>2. ListenersOnce' /\ ItemsPoint'
  BY <1>1 DEF CallsInv, ListenersOnce, ItemsPoint
<1>3. AreLists(CallBlocks, Calls!CallLists, callNext', ItemsOf')
  BY <1>1 DEF CallsInv
<1> QED
  BY <1>1, <1>2, <1>3

LEMMA CallKeepsCalls ==
  ASSUME CallsInv, Calls!Call
  PROVE  CallsInv'
<1> DEFINE N == Len(listeners)
           m == Len(called)
           s == ItemsOf[list]
<1>0. CallTypes /\ AreLists(CallBlocks, Calls!CallLists, callNext, ItemsOf)
  BY DEF CallsInv
<1>1. /\ list # Null /\ callNext[call] # Null
      /\ call' = callNext[call]
      /\ called' = Append(called, pointer[callNext[call]])
      /\ UNCHANGED <<callNext, pointer, kept, list, listeners>>
  BY DEF Calls!Call
<1>2. list \in Calls!CallLists
  BY <1>0, <1>1 DEF CallTypes
<1>3. /\ N \in Nat /\ m \in Nat /\ m <= N
      /\ call = Node(list, s, m) /\ \A k \in 1..m : called[k] = listeners[k]
      /\ called \in Seq(Listeners)
  BY <1>0, <1>1, LenProperties DEF CallsInv, CallTypes, WalkInv
<1>4. /\ Len(s) = N /\ callNext[Node(list, s, N)] = Null
      /\ \A k \in 1..N : /\ callNext[Node(list, s, k - 1)] = s[k]
                         /\ s[k] \in CallBlocks /\ pointer[s[k]] = listeners[k]
                         /\ listeners[k] \in Listeners
  BY <1>2, ItemsOfFacts DEF CallsInv, ItemsPoint, IsList
<1> HIDE DEF N, m, s
<1>5. m + 1 \in 1..N /\ m + 1 - 1 = m
  <2>1. m # N
    BY <1>1, <1>3, <1>4
  <2> QED BY <1>3, <2>1
<1>6. /\ call' = s[m + 1] /\ call' \in CallBlocks
      /\ called' = Append(called, listeners[m + 1]) /\ listeners[m + 1] \in Listeners
  BY <1>1, <1>3, <1>4, <1>5
<1>7. /\ called' \in Seq(Listeners) /\ Len(called') = m + 1
      /\ called'[m + 1] = listeners[m + 1]
      /\ \A k \in 1..m : called'[k] = called[k]
  BY <1>3, <1>6, AppendProperties DEF m
<1>8. CallTypes'
  BY <1>0, <1>1, <1>6, <1>7 DEF CallTypes
<1>9. WalkInv'
  <2>1. ItemsOf' = ItemsOf
    BY <1>1, WalkKeepsLists
  <2>2. call' = Node(list', ItemsOf'[list'], m + 1)
    <3>1. m + 1 # 0
      BY <1>3
    <3> QED BY <1>1, <1>6, <2>1, <3>1 DEF Node, s
  <2>3. \A k \in 1..m + 1 : called'[k] = listeners'[k]
    <3>1. \A k \in 1..m + 1 : k \in 1..m \/ k = m + 1
      BY <1>3
    <3> QED BY <1>1, <1>3, <1>7, <3>1
  <2>4. m + 1 <= Len(listeners')
    BY <1>1, <1>5 DEF N
  <2> QED BY <1>7, <2>2, <2>3, <2>4 DEF WalkInv
<1> QED
  BY <1>1, <1>8, <1>9, WalkKeepsLists DEF CallsInv

LEMMA CallsNext == CallsInv /\ [Calls!Next]_callVars => CallsInv'
<1> SUFFICES ASSUME CallsInv, [Calls!Next]_callVars PROVE CallsInv'
  OBVIOUS
<1>0. CallTypes /\ WalkInv
  BY DEF CallsInv
<1>1. ASSUME NEW p \in Listeners, Calls!Start(p) PROVE CallsInv'
  BY <1>1, StartKeepsCalls
<1>2. ASSUME NEW p \in Listeners, Calls!Quit(p) PROVE CallsInv'
  BY <1>2, QuitKeepsCalls
<1>3. ASSUME NEW l \in Calls!CallLists, Calls!Event(l) PROVE CallsInv'
  <2>1. /\ list' = l /\ call' = l /\ called' = <<>>
        /\ UNCHANGED <<callNext, pointer, kept, listeners>>
    BY <1>3 DEF Calls!Event
  <2>2. <<>> \in Seq(Listeners) /\ Len(<<>>) = 0
    OBVIOUS
  <2>3. CallTypes'
    BY <1>0, <2>1, <2>2 DEF CallTypes
  <2>4. WalkInv'
    <3>1. Len(listeners) \in Nat
      BY ItemsOfFacts
    <3> QED BY <2>1, <2>2, <3>1 DEF WalkInv, Node
  <2> QED BY <2>1, <2>3, <2>4, WalkKeepsLists DEF CallsInv
<1>4. CASE Calls!Call
  BY <1>4, CallKeepsCalls
<1>5. CASE Calls!WalkEnds
  <2>1. /\ list' = Null /\ call' = Null
        /\ UNCHANGED <<callNext, pointer, kept, called, listeners>>
    BY <1>5 DEF Calls!WalkEnds
  <2>2. CallTypes' /\ WalkInv'
    BY <1>0, <2>1 DEF CallTypes, WalkInv
  <2> QED BY <2>1, <2>2, WalkKeepsLists DEF CallsInv
<1>6. CASE UNCHANGED callVars
  <2>1. UNCHANGED <<callNext, pointer, kept, list, call, called, listeners>>
    BY <1>6 DEF callVars
  <2>2. ItemsOf' = ItemsOf
    BY <2>1, WalkKeepsLists
  <2>3. CallTypes' /\ WalkInv'
    BY <1>0, <2>1, <2>2 DEF CallTypes, WalkInv
  <2> QED BY <2>1, <2>3, WalkKeepsLists DEF CallsInv
<1> QED
  BY <1>1, <1>2, <1>3, <1>4, <1>5, <1>6 DEF Calls!Next

(* The lists of callbacks, for any programs: what a program keeps is its   *)
(* own item, and an event is handed once to each of those that run, in the *)
(* order they started, whatever programs started and quit before.          *)
THEOREM KernelCallbacks == KernelSpec => []CallbacksInv
<1>1. KernelInit => CallsInv
  BY CallsInit DEF KernelInit
<1>2. CallsInv /\ [KernelNext]_allVars => CallsInv'
  <2> SUFFICES ASSUME CallsInv, [KernelNext]_allVars PROVE CallsInv'
    OBVIOUS
  <2>1. [Calls!Next]_callVars
    BY DEF KernelNext, ProgramsStep, allVars
  <2> QED
    BY <2>1, CallsNext
<1> QED
  BY <1>1, <1>2, CallbacksInvFollows, PTL DEF KernelSpec
=============================================================================
