-------------------------- MODULE SplitTaskProofs --------------------------
(***************************************************************************)
(* Proofs about SplitTask for every number of application processors and   *)
(* every number of calls: the inductive invariant, the properties the runs *)
(* check, and the refinement of ForkJoin.                                  *)
(***************************************************************************)
EXTENDS SplitTask, TLAPS

(* The parts of the invariant that a step of any core must re-establish.   *)
THEOREM InitInv == Init => Inv
<1> SUFFICES ASSUME Init PROVE Inv
  OBVIOUS
<1> USE CoreAssumption, SlotAssumption DEF Init, APs, AllCores
<1>1. TypeOK
  <2>1. slot \in [APs -> Nat \cup {NoTask, Stack}]
    OBVIOUS
  <2>2. pc \in [APs -> {"boot", "ready", "fetch", "work", "clear"}]
    OBVIOUS
  <2> QED
    BY <2>1, <2>2 DEF TypeOK
<1>2. CallInv
  BY DEF CallInv, InCall, Before
<1>3. CoreInv
  BY DEF CoreInv, Booting, Empty, Posted, Before, InCall
<1>4. ScanInv
  BY DEF ScanInv
<1> QED
  BY <1>1, <1>2, <1>3, <1>4 DEF Inv

(* Every step of core 0 preserves the invariant.                           *)
LEMMA BspStepInv == Inv /\ BspStep => Inv'
<1> SUFFICES ASSUME Inv, BspStep PROVE Inv'
  OBVIOUS
<1> USE CoreAssumption, SlotAssumption DEF Inv, TypeOK, APs, AllCores
<1>1. CASE SetArgs
  <2>1. TypeOK' /\ CallInv' /\ ScanInv'
    BY <1>1 DEF SetArgs, CallInv, ScanInv, InCall, Before
  <2>2. CoreInv'
    BY <1>1 DEF SetArgs, CoreInv, Booting, Empty, Assigned, Finishing,
                Posted, Before, InCall
  <2> QED BY <2>1, <2>2
<1>2. CASE Call
  <2>1. TypeOK' /\ CallInv'
    BY <1>2 DEF Call, CallInv, InCall, Before
  <2>2. CoreInv'
    BY <1>2 DEF Call, CoreInv, Booting, Empty, Assigned, Finishing,
                Posted, Before, InCall
  <2>3. ScanInv'
    BY <1>2 DEF Call, ScanInv
  <2> QED BY <2>1, <2>2, <2>3
<1>3. CASE ScanSlot
  <2>1. TypeOK' /\ CallInv'
    BY <1>3 DEF ScanSlot, CallInv, InCall, Before
  <2>2. CoreInv'
    BY <1>3 DEF ScanSlot, CoreInv, Booting, Empty, Assigned, Finishing,
                Posted, Before, InCall
  <2>3. ScanInv'
    <3> SUFFICES ASSUME done' = 0, NEW c \in APs, c < scan' PROVE slot'[c] = NoTask
      BY DEF ScanInv
    <3>1. done = 0 /\ slot[scan] = NoTask
      BY <1>3 DEF ScanSlot
    <3>2. bsp \in {"wait", "join"} /\ scan' = scan + 1 /\ slot' = slot
      BY <1>3 DEF ScanSlot
    <3>3. c < scan \/ c = scan
      BY <3>2
    <3> QED
      BY <3>1, <3>2, <3>3 DEF ScanInv
  <2> QED BY <2>1, <2>2, <2>3
<1>4. CASE ScanAgain
  <2>1. TypeOK' /\ CallInv'
    BY <1>4 DEF ScanAgain, CallInv, InCall, Before
  <2>2. CoreInv'
    BY <1>4 DEF ScanAgain, CoreInv, Booting, Empty, Assigned, Finishing,
                Posted, Before, InCall
  <2>3. ScanInv'
    BY <1>4 DEF ScanAgain, ScanInv
  <2> QED BY <2>1, <2>2, <2>3
<1>5. CASE WaitDone
  <2>1. TypeOK' /\ CallInv' /\ ScanInv'
    BY <1>5 DEF WaitDone, CallInv, ScanInv, InCall, Before
  <2>2. \A c \in APs : slot[c] = NoTask
    BY <1>5 DEF WaitDone, ScanInv
  <2>3. CoreInv'
    BY <1>5, <2>2 DEF WaitDone, CoreInv, CallInv, Booting, Empty, Assigned,
                      Finishing, Posted, Before, InCall
  <2> QED BY <2>1, <2>2, <2>3
<1>6. CASE Post
  <2>1. TypeOK' /\ CallInv' /\ ScanInv'
    BY <1>6 DEF Post, CallInv, ScanInv, InCall, Before
  <2>2. CoreInv'
    BY <1>6 DEF Post, CoreInv, CallInv, Booting, Empty, Assigned, Finishing,
                Posted, Before, InCall
  <2> QED BY <2>1, <2>2
<1>7. CASE PostDone
  <2>1. TypeOK' /\ CallInv' /\ ScanInv'
    BY <1>7 DEF PostDone, CallInv, ScanInv, InCall, Before
  <2>2. CoreInv'
    BY <1>7 DEF PostDone, CoreInv, Booting, Empty, Assigned, Finishing,
                Posted, Before, InCall
  <2> QED BY <2>1, <2>2
<1>8. CASE RunOwn
  <2>1. TypeOK' /\ CallInv'
    BY <1>8 DEF RunOwn, CallInv, InCall, Before
  <2>2. CoreInv'
    BY <1>8 DEF RunOwn, CoreInv, Booting, Empty, Assigned, Finishing,
                Posted, Before, InCall
  <2>3. ScanInv'
    BY <1>8 DEF RunOwn, ScanInv
  <2> QED BY <2>1, <2>2, <2>3
<1>9. CASE Return
  <2>1. TypeOK' /\ CallInv' /\ ScanInv'
    BY <1>9 DEF Return, CallInv, ScanInv, InCall, Before
  <2>2. \A c \in APs : slot[c] = NoTask
    BY <1>9 DEF Return, ScanInv
  <2>3. CoreInv'
    BY <1>9, <2>2 DEF Return, CoreInv, CallInv, Booting, Empty, Assigned,
                      Finishing, Posted, Before, InCall
  <2> QED BY <2>1, <2>2, <2>3
<1> QED
  BY <1>1, <1>2, <1>3, <1>4, <1>5, <1>6, <1>7, <1>8, <1>9 DEF BspStep

(* Every step of an application processor preserves the invariant. A core  *)
(* changes only its own slot, and only from its own value to NoTask.       *)
LEMMA ApStepInv == ASSUME NEW c \in APs, Inv, ApStep(c) PROVE Inv'
<1> USE CoreAssumption, SlotAssumption DEF Inv, APs, AllCores
<1> DEFINE NoCallChange == UNCHANGED <<calls, args, bsp, scan, done>>
<1>1. NoCallChange
  BY DEF ApStep, BootClear, Poll, Fetch, Work, Clear
<1>2. \A d \in APs : d # c =>
        slot'[d] = slot[d] /\ pc'[d] = pc[d] /\ task'[d] = task[d] /\ ran'[d] = ran[d]
  BY DEF ApStep, BootClear, Poll, Fetch, Work, Clear, TypeOK
<1>3. ran'[0] = ran[0]
  BY DEF ApStep, BootClear, Poll, Fetch, Work, Clear, TypeOK
<1>4. slot'[c] = slot[c] \/ slot'[c] = NoTask
  BY DEF ApStep, BootClear, Poll, Fetch, Work, Clear, TypeOK
<1>5. TypeOK'
  <2> USE DEF TypeOK
  <2>1. CASE BootClear(c) \/ Clear(c)
    BY <2>1 DEF BootClear, Clear
  <2>2. CASE Poll(c)
    BY <2>2 DEF Poll
  <2>3. CASE Fetch(c)
    BY <2>3 DEF Fetch
  <2>4. CASE Work(c)
    BY <2>4 DEF Work
  <2> QED
    BY <2>1, <2>2, <2>3, <2>4 DEF ApStep
<1>6. CallInv'
  BY <1>1, <1>3 DEF CallInv, InCall, Before
<1>7. ScanInv'
  <2> SUFFICES ASSUME bsp \in {"wait", "join"}, done = 0, NEW d \in APs, d < scan
               PROVE  slot'[d] = NoTask
    BY <1>1 DEF ScanInv
  <2>1. slot[d] = NoTask
    BY DEF ScanInv
  <2> QED
    BY <2>1, <1>2, <1>4
<1>8. CoreInv'
  <2>1. ASSUME NEW d \in APs, d # c
        PROVE  (Booting(d) \/ Empty(d) \/ Assigned(d) \/ Finishing(d))'
    BY <2>1, <1>1, <1>2
    DEF CoreInv, Booting, Empty, Assigned, Finishing, Posted, Before, InCall
  <2>2. (Booting(c) \/ Empty(c) \/ Assigned(c) \/ Finishing(c))'
    <3> USE DEF CoreInv, TypeOK
    <3>1. CASE BootClear(c)
      BY <3>1 DEF BootClear, Booting, Empty, Assigned, Finishing, Posted, Before, InCall
    <3>2. CASE Poll(c)
      BY <3>2 DEF Poll, Booting, Empty, Assigned, Finishing, Posted, Before, InCall
    <3>3. CASE Fetch(c)
      BY <3>3 DEF Fetch, Booting, Empty, Assigned, Finishing, Posted, Before, InCall
    <3>4. CASE Work(c)
      BY <3>4 DEF Work, Booting, Empty, Assigned, Finishing, Posted, Before, InCall
    <3>5. CASE Clear(c)
      BY <3>5 DEF Clear, Booting, Empty, Assigned, Finishing, Posted, Before, InCall
    <3> QED
      BY <3>1, <3>2, <3>3, <3>4, <3>5 DEF ApStep
  <2> QED
    BY <2>1, <2>2 DEF CoreInv
<1> QED
  BY <1>5, <1>6, <1>7, <1>8 DEF Inv

(* A step that changes nothing preserves the invariant.                    *)
LEMMA StutterInv == Inv /\ UNCHANGED vars => Inv'
BY DEF Inv, vars, TypeOK, CallInv, CoreInv, ScanInv, Booting, Empty, Assigned,
       Finishing, Posted, Before, InCall, APs, AllCores

(* The inductive invariant holds in every reachable state: waitForCores    *)
(* never returns early, and no core is behind or ahead of the call.        *)
THEOREM SpecInv == Spec => []Inv
<1>1. Inv /\ [Next]_vars => Inv'
  BY BspStepInv, ApStepInv, StutterInv DEF Next, Finished
<1> QED
  BY InitInv, <1>1, PTL DEF Spec

-----------------------------------------------------------------------------
(* What the invariant means for the callers.                               *)

LEMMA InvSafe == Inv => TypeOK /\ ArgumentsStable /\ JoinComplete
<1> SUFFICES ASSUME Inv PROVE TypeOK /\ ArgumentsStable /\ JoinComplete
  OBVIOUS
<1> USE CoreAssumption, SlotAssumption DEF Inv, TypeOK, APs, AllCores
<1>1. ArgumentsStable
  BY DEF ArgumentsStable, CallInv, CoreInv, Booting, Empty, Assigned, Finishing,
         Posted, InCall
<1>2. JoinComplete
  BY DEF JoinComplete, CallInv, CoreInv, Booting, Empty, Assigned, Finishing,
         Posted, Before, InCall
<1> QED
  BY <1>1, <1>2

(* The variables keep the values of their C and assembly counterparts.     *)
THEOREM SpecTypeOK == Spec => []TypeOK
BY SpecInv, InvSafe, PTL

(* However many cores there are, the shared arguments a core reads while   *)
(* it works are those of the call that gave it the work.                   *)
THEOREM SpecArgumentsStable == Spec => []ArgumentsStable
BY SpecInv, InvSafe, PTL

(* Outside splitTask every core has finished everything it was given.      *)
THEOREM SpecJoinComplete == Spec => []JoinComplete
BY SpecInv, InvSafe, PTL

(* splitTask posts only into empty mailboxes, so neither an unfinished     *)
(* task nor a stack pointer is ever overwritten.                           *)
THEOREM SpecNoOverwrite == Spec => NoOverwrite
<1> DEFINE Kept(c) == slot'[c] \in Nat /\ slot'[c] # slot[c] => slot[c] = NoTask
<1>1. ASSUME Inv, Next, NEW c \in APs
      PROVE  Kept(c)
  <2> USE <1>1, CoreAssumption, SlotAssumption DEF Inv, TypeOK, APs, AllCores
  <2>1. CASE Post
    <3>1. CASE c = scan
      BY <2>1, <3>1 DEF Post, CoreInv, Booting, Empty, Assigned, Finishing, Posted
    <3>2. CASE c # scan
      BY <2>1, <3>2 DEF Post
    <3> QED
      BY <3>1, <3>2
  <2>2. CASE BspStep /\ ~Post
    BY <2>2 DEF BspStep, SetArgs, Call, ScanSlot, ScanAgain, WaitDone, PostDone,
                RunOwn, Return
  <2>3. ASSUME NEW d \in APs, ApStep(d)
        PROVE  slot'[c] = slot[c] \/ slot'[c] = NoTask
    BY <2>3 DEF ApStep, BootClear, Poll, Fetch, Work, Clear
  <2>4. CASE Finished
    BY <2>4 DEF Finished, vars
  <2> QED
    BY <2>1, <2>2, <2>3, <2>4 DEF Next
<1>2. Inv /\ [Next]_vars => [\A c \in APs : Kept(c)]_vars
  BY <1>1
<1> QED
  BY SpecInv, <1>2, PTL DEF Spec, NoOverwrite

-----------------------------------------------------------------------------
(* Refinement of ForkJoin. Call is the fork; RunOwn and Work are the runs; *)
(* every other step leaves calls and ran alone.                            *)

LEMMA StepSimulation == Inv /\ [Next]_vars => [FJ!Next]_FJ!vars
<1> SUFFICES ASSUME Inv, [Next]_vars PROVE [FJ!Next]_FJ!vars
  OBVIOUS
<1> USE CoreAssumption, SlotAssumption
    DEF Inv, TypeOK, APs, AllCores, FJ!AllCores, FJ!vars
<1>1. CASE Call
  <2>1. calls < MaxCalls /\ calls' = calls + 1 /\ ran' = ran
    BY <1>1 DEF Call, CallInv
  <2>2. \A c \in AllCores : ran[c] = calls
    BY <1>1 DEF Call, CallInv, CoreInv, Booting, Empty, Assigned, Finishing,
                Posted, Before, InCall
  <2> QED
    BY <2>1, <2>2 DEF FJ!Next, FJ!Fork
<1>2. CASE RunOwn
  <2>1. ran[0] = calls - 1 /\ calls \in Nat \ {0}
    BY <1>2 DEF RunOwn, CallInv, InCall, Before
  <2>2. ran' = [ran EXCEPT ![0] = calls] /\ calls' = calls
    BY <1>2, <2>1 DEF RunOwn
  <2>3. FJ!Run(0)
    BY <2>1, <2>2 DEF FJ!Run
  <2> QED
    BY <2>3 DEF FJ!Next
<1>3. ASSUME NEW c \in APs, Work(c)
      PROVE  FJ!Next
  <2>1. ran[c] = calls - 1 /\ calls \in Nat \ {0}
    BY <1>3 DEF Work, CallInv, CoreInv, Booting, Empty, Assigned, Finishing,
                Posted, InCall
  <2>2. ran' = [ran EXCEPT ![c] = calls] /\ calls' = calls
    BY <1>3, <2>1 DEF Work
  <2>3. FJ!Run(c)
    BY <2>1, <2>2 DEF FJ!Run
  <2> QED
    BY <2>3 DEF FJ!Next
<1>4. CASE SetArgs \/ ScanSlot \/ ScanAgain \/ WaitDone \/ Post \/ PostDone \/ Return
  BY <1>4 DEF SetArgs, ScanSlot, ScanAgain, WaitDone, Post, PostDone, Return
<1>5. ASSUME NEW c \in APs, BootClear(c) \/ Poll(c) \/ Fetch(c) \/ Clear(c)
      PROVE  UNCHANGED <<calls, ran>>
  BY <1>5 DEF BootClear, Poll, Fetch, Clear
<1>6. CASE UNCHANGED vars
  BY <1>6 DEF vars
<1> QED
  BY <1>1, <1>2, <1>3, <1>4, <1>5, <1>6 DEF Next, BspStep, ApStep, Finished

(* splitTask implements the abstract fork-join, for any number of cores.   *)
THEOREM SpecForkJoin == Spec => ForkJoinSafe
<1>1. Init => FJ!Init
  BY DEF Init, FJ!Init, AllCores, FJ!AllCores
<1> QED
  BY <1>1, StepSimulation, SpecInv, PTL DEF Spec, ForkJoinSafe, FJ!Spec

=============================================================================
