----------------------------- MODULE SplitTask -----------------------------
(***************************************************************************)
(* splitTask and waitForCores (src/src/shared.h) against the loop that     *)
(* every application processor runs (src/src/system/smp.asm).              *)
(*                                                                         *)
(* Core 0 is the bootstrap processor; cores 1..N are the application       *)
(* processors. Core c has one eight-byte mailbox, slot[c], at address      *)
(* 0x1005 + 8 * (c - 1). A slot holds 0 (NoTask), the address of a task,   *)
(* or, until the core's first store, the top of the stack that efi_main    *)
(* left there for it (Stack). A task is named by the number of the call    *)
(* that posts it, so that a stale task is told from the current one.       *)
(*                                                                         *)
(* Every load and store of a mailbox is a step of its own. x86 keeps the   *)
(* stores of one core in order, so the arguments written before a post are *)
(* visible to whoever sees the post; each slot is one aligned-enough word, *)
(* read and written whole (the one that crosses a cache line, core 8's, is *)
(* outside this model).                                                    *)
(***************************************************************************)
EXTENDS Naturals

CONSTANTS
  N,          \* cpuCount: the number of application processors
  MaxCalls,   \* bound on the number of calls
  NoTask,     \* the 0 of an empty slot
  Stack       \* the stack pointer of a core that has not emptied its slot yet

ASSUME CoreAssumption == N \in Nat /\ MaxCalls \in Nat
ASSUME SlotAssumption == NoTask \notin Nat /\ Stack \notin Nat /\ NoTask # Stack

APs == 1..N
AllCores == 0..N
Jobs == 1..MaxCalls

VARIABLES
  calls,   \* the number of the latest call of splitTask
  args,    \* the call whose arguments the shared globals hold
  bsp,     \* where core 0 is: idle, call, wait, post, run or join
  scan,    \* core 0's loop index over the slots
  done,    \* waitForCores' OR of this pass's slots: 0, or 1 for any other value
  slot,    \* the mailboxes
  pc,      \* where each application processor is: boot, ready, fetch, work, clear
  task,    \* the task an application processor is calling
  ran      \* how many tasks each core has finished

vars == <<calls, args, bsp, scan, done, slot, pc, task, ran>>

-----------------------------------------------------------------------------
(* start() runs as soon as every core has incremented 0x1004; a core may   *)
(* not have reached the store after that increment (smp.asm 53-54).        *)
Init ==
  /\ calls = 0 /\ args = 0
  /\ bsp = "idle" /\ scan = 1 /\ done = 0
  /\ pc \in [APs -> {"boot", "ready"}]
  /\ slot = [c \in APs |-> IF pc[c] = "boot" THEN Stack ELSE NoTask]
  /\ task = [c \in APs |-> NoTask]
  /\ ran = [c \in AllCores |-> 0]

-----------------------------------------------------------------------------
(* Core 0.                                                                 *)

(* A caller stores blitTo, blitFrom, blitSize and the like, then calls.    *)
SetArgs ==
  /\ bsp = "idle" /\ calls < MaxCalls
  /\ bsp' = "call"
  /\ args' = calls + 1
  /\ UNCHANGED <<calls, scan, done, slot, pc, task, ran>>

(* Broken: splitTask posts without waiting first.                          *)
CallNoWait ==
  /\ bsp = "call"
  /\ bsp' = "post"
  /\ calls' = calls + 1
  /\ scan' = 1 /\ done' = 0
  /\ UNCHANGED <<args, slot, pc, task, ran>>

(* splitTask is entered, and its first waitForCores.                       *)
Call ==
  /\ bsp = "call"
  /\ bsp' = "wait"
  /\ calls' = calls + 1
  /\ scan' = 1 /\ done' = 0
  /\ UNCHANGED <<args, slot, pc, task, ran>>

(* One iteration of waitForCores' for loop.                                *)
ScanSlot ==
  /\ bsp \in {"wait", "join"} /\ scan <= N
  /\ done' = IF slot[scan] = NoTask THEN done ELSE 1
  /\ scan' = scan + 1
  /\ UNCHANGED <<calls, args, bsp, slot, pc, task, ran>>

(* Broken: done keeps the result of the pass before.                       *)
ScanAgainKeepDone ==
  /\ bsp \in {"wait", "join"} /\ scan = N + 1 /\ done # 0
  /\ scan' = 1
  /\ UNCHANGED <<calls, args, bsp, done, slot, pc, task, ran>>

(* done is not 0: another pass over the slots.                             *)
ScanAgain ==
  /\ bsp \in {"wait", "join"} /\ scan = N + 1 /\ done # 0
  /\ scan' = 1 /\ done' = 0
  /\ UNCHANGED <<calls, args, bsp, slot, pc, task, ran>>

(* The first waitForCores returns.                                         *)
WaitDone ==
  /\ bsp = "wait" /\ scan = N + 1 /\ done = 0
  /\ bsp' = "post" /\ scan' = 1
  /\ UNCHANGED <<calls, args, done, slot, pc, task, ran>>

(* One iteration of splitTask's for loop.                                  *)
Post ==
  /\ bsp = "post" /\ scan <= N
  /\ slot' = [slot EXCEPT ![scan] = calls]
  /\ scan' = scan + 1
  /\ UNCHANGED <<calls, args, bsp, done, pc, task, ran>>

(* splitTask's for loop ends.                                              *)
PostDone ==
  /\ bsp = "post" /\ scan = N + 1
  /\ bsp' = "run"
  /\ UNCHANGED <<calls, args, scan, done, slot, pc, task, ran>>

(* Broken: splitTask returns without its second waitForCores.              *)
RunOwnNoJoin ==
  /\ bsp = "run"
  /\ ran' = [ran EXCEPT ![0] = @ + 1]
  /\ bsp' = "idle" /\ scan' = 1 /\ done' = 0
  /\ UNCHANGED <<calls, args, slot, pc, task>>

(* task(0) returns, and the second waitForCores begins.                    *)
RunOwn ==
  /\ bsp = "run"
  /\ ran' = [ran EXCEPT ![0] = @ + 1]
  /\ bsp' = "join" /\ scan' = 1 /\ done' = 0
  /\ UNCHANGED <<calls, args, slot, pc, task>>

(* The second waitForCores returns, and splitTask with it.                 *)
Return ==
  /\ bsp = "join" /\ scan = N + 1 /\ done = 0
  /\ bsp' = "idle"
  /\ UNCHANGED <<calls, args, scan, done, slot, pc, task, ran>>

-----------------------------------------------------------------------------
(* The application processors.                                             *)

(* mov qword[rax], 0 before ready: the stack pointer leaves the slot.      *)
BootClear(c) ==
  /\ pc[c] = "boot"
  /\ slot' = [slot EXCEPT ![c] = NoTask]
  /\ pc' = [pc EXCEPT ![c] = "ready"]
  /\ UNCHANGED <<calls, args, bsp, scan, done, task, ran>>

(* cmp qword[rax], 0 finds the slot in use; je falls through.              *)
Poll(c) ==
  /\ pc[c] = "ready" /\ slot[c] # NoTask
  /\ pc' = [pc EXCEPT ![c] = "fetch"]
  /\ UNCHANGED <<calls, args, bsp, scan, done, slot, task, ran>>

(* call [rax] reads the slot a second time.                                *)
Fetch(c) ==
  /\ pc[c] = "fetch"
  /\ task' = [task EXCEPT ![c] = slot[c]]
  /\ pc' = [pc EXCEPT ![c] = "work"]
  /\ UNCHANGED <<calls, args, bsp, scan, done, slot, ran>>

(* The task, which has been reading the shared arguments, returns.         *)
Work(c) ==
  /\ pc[c] = "work"
  /\ ran' = [ran EXCEPT ![c] = @ + 1]
  /\ pc' = [pc EXCEPT ![c] = "clear"]
  /\ UNCHANGED <<calls, args, bsp, scan, done, slot, task>>

(* Broken: the slot is not emptied after the call.                         *)
ClearForgotten(c) ==
  /\ pc[c] = "clear"
  /\ pc' = [pc EXCEPT ![c] = "ready"]
  /\ UNCHANGED <<calls, args, bsp, scan, done, slot, task, ran>>

(* mov qword[rax], 0 after the call; jmp ready.                            *)
Clear(c) ==
  /\ pc[c] = "clear"
  /\ slot' = [slot EXCEPT ![c] = NoTask]
  /\ pc' = [pc EXCEPT ![c] = "ready"]
  /\ UNCHANGED <<calls, args, bsp, scan, done, task, ran>>

-----------------------------------------------------------------------------
BspStep == \/ SetArgs \/ Call \/ ScanSlot \/ ScanAgain \/ WaitDone
           \/ Post \/ PostDone \/ RunOwn \/ Return

ApStep(c) == BootClear(c) \/ Poll(c) \/ Fetch(c) \/ Work(c) \/ Clear(c)

(* The bound on calls is reached and every core is waiting for work.       *)
Finished ==
  /\ bsp = "idle" /\ calls = MaxCalls
  /\ \A c \in APs : pc[c] = "ready" /\ slot[c] = NoTask
  /\ UNCHANGED vars

Next == BspStep \/ (\E c \in APs : ApStep(c)) \/ Finished

Spec == Init /\ [][Next]_vars

(* Every processor keeps executing; interrupt handlers on core 0 are short *)
(* and the tasks are counted loops, so each enabled step is taken. Whether *)
(* the caller calls again is up to it: SetArgs is not fair.                *)
BspProgress == \/ Call \/ ScanSlot \/ ScanAgain \/ WaitDone
               \/ Post \/ PostDone \/ RunOwn \/ Return

FairSpec ==
  /\ Spec
  /\ WF_vars(BspProgress)
  /\ \A c \in APs : WF_vars(ApStep(c))

-----------------------------------------------------------------------------
(* Properties.                                                             *)

(* Every variable has the values of its C or assembly counterpart.         *)
TypeOK ==
  /\ calls \in Nat
  /\ args \in Nat
  /\ bsp \in {"idle", "call", "wait", "post", "run", "join"}
  /\ scan \in 1..(N + 1)
  /\ done \in {0, 1}
  /\ slot \in [APs -> Nat \cup {NoTask, Stack}]
  /\ pc \in [APs -> {"boot", "ready", "fetch", "work", "clear"}]
  /\ task \in [APs -> Nat \cup {NoTask, Stack}]
  /\ ran \in [AllCores -> Nat]

(* The globals a task reads (blitTo, fillColour, ...) still hold the       *)
(* arguments of that task's own call for as long as the task runs on any   *)
(* core: no caller overwrites them under a core that is still working.     *)
ArgumentsStable ==
  /\ \A c \in APs : pc[c] = "work" => task[c] = args
  /\ bsp = "run" => args = calls

(* Whenever splitTask is not executing, every core has finished every task *)
(* handed out so far: the caller may reuse or free the buffers.            *)
JoinComplete ==
  bsp \in {"idle", "call"} => \A c \in AllCores : ran[c] = calls

(* splitTask never stores over a mailbox that still holds something: a     *)
(* task that its core has not finished, or the stack pointer of a core     *)
(* that has not left boot (whose late clear would erase the new task).     *)
NoOverwrite ==
  [][\A c \in APs : slot'[c] \in Nat /\ slot'[c] # slot[c] => slot[c] = NoTask]_vars

(* Every call of splitTask returns, provided each core keeps running.      *)
CallsReturn == bsp = "call" ~> bsp = "idle"

(* splitTask is a fork-join: every core runs each job exactly once, and no *)
(* job starts before all cores have finished the one before it.            *)
FJ == INSTANCE ForkJoin
ForkJoinSafe == FJ!Spec

-----------------------------------------------------------------------------
(* The inductive invariant. While a call is in progress the cores split    *)
(* into those whose slot has been posted by this call and the others.      *)

InCall == bsp \in {"wait", "post", "run", "join"}
Before == IF InCall THEN calls - 1 ELSE calls
Posted(c) == bsp \in {"run", "join"} \/ (bsp = "post" /\ c < scan)

Booting(c) ==
  /\ pc[c] = "boot" /\ slot[c] = Stack
  /\ bsp \in {"idle", "call", "wait"}
  /\ ran[c] = Before

Empty(c) ==
  /\ pc[c] = "ready" /\ slot[c] = NoTask
  /\ ran[c] = IF Posted(c) THEN calls ELSE Before

Assigned(c) ==
  /\ Posted(c)
  /\ pc[c] \in {"ready", "fetch", "work"} /\ slot[c] = calls
  /\ pc[c] = "work" => task[c] = calls
  /\ ran[c] = calls - 1

Finishing(c) ==
  /\ Posted(c)
  /\ pc[c] = "clear" /\ slot[c] = calls
  /\ ran[c] = calls

CoreInv == \A c \in APs : Booting(c) \/ Empty(c) \/ Assigned(c) \/ Finishing(c)

CallInv ==
  /\ InCall => calls \in Nat \ {0}
  /\ bsp = "call" => calls < MaxCalls
  /\ args = IF bsp = "call" THEN calls + 1 ELSE calls
  /\ ran[0] = IF bsp = "join" THEN calls ELSE Before

(* What one pass of waitForCores has learnt is still true.                 *)
ScanInv ==
  bsp \in {"wait", "join"} /\ done = 0 =>
    \A c \in APs : c < scan => slot[c] = NoTask

(* No pass over the slots reports them all empty while a core still holds  *)
(* a stack pointer or a task, and no core is ahead of or behind the call.  *)
Inv == TypeOK /\ CallInv /\ CoreInv /\ ScanInv

=============================================================================
