------------------------------ MODULE SmpBoot ------------------------------
(***************************************************************************)
(* Bringing up the application processors: the last loops of completed()   *)
(* (src/src/main.h) against the 64-bit entry of src/src/system/smp.asm.    *)
(*                                                                         *)
(* A core learns its number by reading the byte at 0x1004 and increments   *)
(* that byte with an unlocked inc, a load and a store. Nothing but one     *)
(* HPET tick separates one startup IPI from the next.                      *)
(***************************************************************************)
EXTENDS Naturals, FiniteSets

CONSTANTS
  N,        \* cpuCount: core 0 has one of the 256 local APIC numbers, a byte
            \* each in the MADT, and every other core has another
  NoTask,   \* for SplitTask: an empty slot
  Stack     \* for SplitTask: a slot that holds a stack pointer

ASSUME BootAssumption == N \in 0..255
ASSUME HandoverAssumption == NoTask \notin Nat /\ Stack \notin Nat /\ NoTask # Stack

Cores == 1..N

VARIABLES
  timely,    \* whether every core counts itself before the tick after its
             \* startup IPI, which the code relies on; it never changes
  bsp,       \* where core 0 is: prepare, start, reset, tick, await or os
  next,      \* its loop index
  ticked,    \* hpetCounter is not 0
  counter,   \* the byte at 0x1004
  slot,      \* the mailboxes: 0, or the number of the stack allocated for it
  pc,        \* off, woken, stack, load, store, boot or ready, for each core
  id,        \* the number each core read, rdi - 1
  rsp,       \* the stack each core runs on
  al         \* what inc has loaded

vars == <<timely, bsp, next, ticked, counter, slot, pc, id, rsp, al>>

Counted(c) == pc[c] \in {"boot", "ready"}

Init ==
  /\ timely \in BOOLEAN
  /\ bsp = "prepare" /\ next = 1
  /\ ticked = FALSE /\ counter = 0
  /\ slot = [m \in Cores |-> 0]
  /\ pc = [c \in Cores |-> "off"]
  /\ id = [c \in Cores |-> 0]
  /\ rsp = [c \in Cores |-> 0]
  /\ al = [c \in Cores |-> 0]

-----------------------------------------------------------------------------
(* Core 0.                                                                 *)

(* A stack for the core's mailbox, and the INIT IPI.                       *)
Prepare ==
  /\ bsp = "prepare" /\ next <= N
  /\ slot' = [slot EXCEPT ![next] = next]
  /\ next' = next + 1
  /\ UNCHANGED <<timely, bsp, ticked, counter, pc, id, rsp, al>>

PrepareDone ==
  /\ bsp = "prepare" /\ next = N + 1
  /\ bsp' = "start" /\ next' = 1
  /\ UNCHANGED <<timely, ticked, counter, slot, pc, id, rsp, al>>

(* The startup IPI.                                                        *)
StartCore ==
  /\ bsp = "start" /\ next <= N
  /\ pc' = [pc EXCEPT ![next] = "woken"]
  /\ bsp' = "reset"
  /\ UNCHANGED <<timely, next, ticked, counter, slot, id, rsp, al>>

(* Broken: hpetCounter keeps the ticks of before the startup IPI.          *)
KeepTicks ==
  /\ bsp = "reset"
  /\ bsp' = "tick"
  /\ UNCHANGED <<timely, next, ticked, counter, slot, pc, id, rsp, al>>

(* hpetCounter = 0.                                                        *)
ResetTicks ==
  /\ bsp = "reset"
  /\ ticked' = FALSE
  /\ bsp' = "tick"
  /\ UNCHANGED <<timely, next, counter, slot, pc, id, rsp, al>>

(* while (hpetCounter == 0) ends.                                          *)
TickSeen ==
  /\ bsp = "tick" /\ ticked
  /\ next' = next + 1
  /\ bsp' = "start"
  /\ UNCHANGED <<timely, ticked, counter, slot, pc, id, rsp, al>>

StartDone ==
  /\ bsp = "start" /\ next = N + 1
  /\ bsp' = "await"
  /\ UNCHANGED <<timely, next, ticked, counter, slot, pc, id, rsp, al>>

(* while (*(uint8_t*)0x1004 != cpuCount) ends and start() is called.       *)
StartOs ==
  /\ bsp = "await" /\ counter = N
  /\ bsp' = "os"
  /\ UNCHANGED <<timely, next, ticked, counter, slot, pc, id, rsp, al>>

(* The HPET interrupt handler.                                             *)
Tick ==
  /\ ~ticked
  /\ timely /\ bsp = "tick" => Counted(next)
  /\ ticked' = TRUE
  /\ UNCHANGED <<timely, bsp, next, counter, slot, pc, id, rsp, al>>

-----------------------------------------------------------------------------
(* The application processors, from mov al, [0x1004] on.                   *)

ReadId(c) ==
  /\ pc[c] = "woken"
  /\ id' = [id EXCEPT ![c] = counter]
  /\ pc' = [pc EXCEPT ![c] = "stack"]
  /\ UNCHANGED <<timely, bsp, next, ticked, counter, slot, rsp, al>>

(* mov rsp, [rax].                                                         *)
LoadStack(c) ==
  /\ pc[c] = "stack"
  /\ rsp' = [rsp EXCEPT ![c] = slot[id[c] + 1]]
  /\ pc' = [pc EXCEPT ![c] = "load"]
  /\ UNCHANGED <<timely, bsp, next, ticked, counter, slot, id, al>>

(* inc byte[0x1004] without a lock prefix.                                 *)
IncLoad(c) ==
  /\ pc[c] = "load"
  /\ al' = [al EXCEPT ![c] = counter]
  /\ pc' = [pc EXCEPT ![c] = "store"]
  /\ UNCHANGED <<timely, bsp, next, ticked, counter, slot, id, rsp>>

(* Broken: the core does not count itself.                                 *)
IncNothing(c) ==
  /\ pc[c] = "store"
  /\ pc' = [pc EXCEPT ![c] = "boot"]
  /\ UNCHANGED <<timely, bsp, next, ticked, counter, slot, id, rsp, al>>

IncStore(c) ==
  /\ pc[c] = "store"
  /\ counter' = (al[c] + 1) % 256
  /\ pc' = [pc EXCEPT ![c] = "boot"]
  /\ UNCHANGED <<timely, bsp, next, ticked, slot, id, rsp, al>>

(* Broken: the mailbox keeps the stack pointer.                            *)
KeepSlot(c) ==
  /\ pc[c] = "boot"
  /\ pc' = [pc EXCEPT ![c] = "ready"]
  /\ UNCHANGED <<timely, bsp, next, ticked, counter, slot, id, rsp, al>>

(* mov qword[rax], 0: the mailbox is empty and the core polls it.          *)
ClearSlot(c) ==
  /\ pc[c] = "boot"
  /\ slot' = [slot EXCEPT ![id[c] + 1] = 0]
  /\ pc' = [pc EXCEPT ![c] = "ready"]
  /\ UNCHANGED <<timely, bsp, next, ticked, counter, id, rsp, al>>

-----------------------------------------------------------------------------
BspStep == \/ Prepare \/ PrepareDone \/ StartCore \/ ResetTicks
           \/ TickSeen \/ StartDone \/ StartOs

ApStep(c) == ReadId(c) \/ LoadStack(c) \/ IncLoad(c) \/ IncStore(c) \/ ClearSlot(c)

(* Everyone is up; from here on SplitTask describes the mailboxes.         *)
Booted == bsp = "os" /\ \A c \in Cores : pc[c] = "ready"
Up == Booted /\ ticked /\ UNCHANGED vars

Next == BspStep \/ Tick \/ (\E c \in Cores : ApStep(c)) \/ Up

Spec == Init /\ [][Next]_vars

(* Core 0 and the started cores run; the HPET is periodic.                 *)
FairSpec ==
  /\ Spec
  /\ WF_vars(BspStep) /\ WF_vars(Tick)
  /\ \A c \in Cores : WF_vars(ApStep(c))

-----------------------------------------------------------------------------
(* Properties.                                                             *)

(* The values each variable can hold; a core's number names a mailbox.     *)
TypeOK ==
  /\ timely \in BOOLEAN
  /\ bsp \in {"prepare", "start", "reset", "tick", "await", "os"}
  /\ next \in 1..(N + 1)
  /\ ticked \in BOOLEAN
  /\ counter \in 0..255
  /\ slot \in [Cores -> 0..N]
  /\ pc \in [Cores -> {"off", "woken", "stack", "load", "store", "boot", "ready"}]
  /\ id \in [Cores -> 0..(N - 1)]
  /\ rsp \in [Cores -> 0..N]
  /\ al \in [Cores -> 0..255]

(* When the cores are timely, no two take the same number, so no two share *)
(* a mailbox or a stack, and no core runs on a null stack.                 *)
OwnMailbox ==
  timely => \A c, d \in Cores :
    /\ c # d /\ pc[c] \notin {"off", "woken"} /\ pc[d] \notin {"off", "woken"}
         => id[c] # id[d]
    /\ pc[c] \in {"load", "store", "boot", "ready"} => rsp[c] = id[c] + 1

(* Core 0 has sent core c its startup IPI.                                 *)
Started(c) ==
  /\ bsp # "prepare"
  /\ c < next \/ (c = next /\ bsp \in {"reset", "tick"})

(* Whatever the timing, the byte at 0x1004 and the copies of it that inc   *)
(* has loaded never exceed the number of cores that have counted           *)
(* themselves: increments can be lost, never invented.                     *)
CountedCores == {c \in Cores : Counted(c)}
NeverOvercounted ==
  /\ counter <= Cardinality(CountedCores)
  /\ \A c \in Cores : pc[c] = "store" => al[c] <= Cardinality(CountedCores)
  /\ \A c \in Cores : pc[c] # "off" <=> Started(c)
  /\ bsp \in {"reset", "tick"} => next <= N
  /\ bsp \in {"await", "os"} => next = N + 1
  /\ bsp = "os" => CountedCores = Cores

(* When the cores are timely they go through the trampoline one by one:    *)
(* the cores before next have all counted themselves, only next may be     *)
(* under way, and core c takes number c - 1, stack c and mailbox c.        *)
OneByOneCount ==
  /\ counter = IF bsp = "prepare" THEN 0
               ELSE IF bsp \in {"reset", "tick"} /\ Counted(next) THEN next
               ELSE next - 1
  /\ bsp = "tick" /\ ticked => Counted(next)

InTurn(c) ==
  /\ bsp # "prepare" /\ c < next => Counted(c)
  /\ pc[c] \notin {"off", "woken"} => id[c] = c - 1
  /\ pc[c] \in {"load", "store", "boot", "ready"} => rsp[c] = c
  /\ pc[c] = "store" => al[c] = c - 1
  /\ slot[c] = IF (bsp # "prepare" \/ c < next) /\ pc[c] # "ready"
               THEN c ELSE 0

OneByOne == timely => OneByOneCount /\ \A c \in Cores : InTurn(c)

(* A mailbox of its own for every timely core, and what that rests on.     *)
Inv == TypeOK /\ OwnMailbox /\ NeverOvercounted /\ OneByOne

(* start() runs only after every core has left the trampoline and counted  *)
(* itself, whatever the timing: increments can be lost, never invented.    *)
(* When the cores are timely, the mailboxes and the cores are then in an   *)
(* initial state of SplitTask, each core seen through the mailbox it polls.*)
Owner(m) == CHOOSE c \in Cores : id[c] = m - 1
ST == INSTANCE SplitTask WITH
        MaxCalls <- 0, calls <- 0, args <- 0, bsp <- "idle", scan <- 1, done <- 0,
        slot <- [m \in Cores |-> IF slot[m] = 0 THEN NoTask ELSE Stack],
        pc   <- [m \in Cores |-> pc[Owner(m)]],
        task <- [m \in Cores |-> NoTask],
        ran  <- [c \in 0..N |-> 0]
HandsOver == bsp = "os" => (\A c \in Cores : Counted(c)) /\ (timely => ST!Init)

(* When the cores are timely, every one comes up and start() is called.    *)
ComesUp == timely ~> Booted

=============================================================================
