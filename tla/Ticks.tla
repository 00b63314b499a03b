------------------------------- MODULE Ticks -------------------------------
(***************************************************************************)
(* The time that programs are told (hpet in src/src/main.h, start in       *)
(* src/src/main.c). The timer's interrupt counts; once a pass the main     *)
(* loop copies the count and sets it back, in two statements, and hands    *)
(* the copy to every program in the next pass. A program can start before  *)
(* the programs are updated, from a callback or a command, or while they   *)
(* are, and then its first update is that of the next pass.                *)
(***************************************************************************)
EXTENDS Naturals

CONSTANTS Programs, MaxTicks

ASSUME TicksAssumption == MaxTicks \in Nat

VARIABLES
  hpetCounter,
  ticks,    \* the main loop's copy
  at,       \* what the main loop does next
  running,
  todo,     \* the running programs that this pass has not updated yet
  told,     \* told[p]: the time that a program's updates add up to
  elapsed,  \* all interrupts of the timer
  since,    \* the value of elapsed when a program started
  early,    \* the interrupts before that which its updates will count
  late      \* those after it that came between the copy and the reset

vars == <<hpetCounter, ticks, at, running, todo, told, elapsed, since, early, late>>

Zero == [p \in Programs |-> 0]

(* The timer has run since the last processor was started.                 *)
Init ==
  /\ hpetCounter \in 0 .. MaxTicks /\ elapsed = hpetCounter
  /\ ticks = 0 /\ at = "callbacks"
  /\ running = {} /\ todo = {}
  /\ told = Zero
  /\ since = Zero /\ early = Zero /\ late = Zero

hpet ==
  /\ elapsed < MaxTicks
  /\ elapsed' = elapsed + 1
  /\ hpetCounter' = hpetCounter + 1
  /\ late' = [p \in Programs |->
                late[p] + (IF at = "reset" /\ p \in running THEN 1 ELSE 0)]
  /\ UNCHANGED <<ticks, at, running, todo, told, since, early>>

(* Before the updates a program is in time for those of this pass, whose   *)
(* ticks are older than the program.                                       *)
execute(p) ==
  /\ p \notin running
  /\ at \in {"callbacks", "update"}
  /\ running' = running \cup {p}
  /\ since' = [since EXCEPT ![p] = elapsed]
  /\ early' = [early EXCEPT ![p] =
                 hpetCounter + (IF at = "callbacks" THEN ticks ELSE 0)]
  /\ UNCHANGED <<hpetCounter, ticks, at, todo, told, elapsed, late>>

BeginUpdates ==
  /\ at = "callbacks"
  /\ at' = "update" /\ todo' = running
  /\ UNCHANGED <<hpetCounter, ticks, running, told, elapsed, since, early, late>>

Update(p) ==
  /\ at = "update" /\ p \in todo
  /\ told' = [told EXCEPT ![p] = @ + ticks]
  /\ todo' = todo \ {p}
  /\ UNCHANGED <<hpetCounter, ticks, at, running, elapsed, since, early, late>>

UpdatesDone ==
  /\ at = "update" /\ todo = {}
  /\ at' = "copy"
  /\ UNCHANGED <<hpetCounter, ticks, running, todo, told, elapsed, since, early, late>>

Copy ==
  /\ at = "copy"
  /\ ticks' = hpetCounter
  /\ at' = "reset"
  /\ UNCHANGED <<hpetCounter, running, todo, told, elapsed, since, early, late>>

(* Broken: the counter runs on.                                            *)
ResetNothing ==
  /\ at = "reset"
  /\ at' = "callbacks"
  /\ UNCHANGED <<hpetCounter, ticks, running, todo, told, elapsed, since, early, late>>

Reset ==
  /\ at = "reset"
  /\ hpetCounter' = 0
  /\ at' = "callbacks"
  /\ UNCHANGED <<ticks, running, todo, told, elapsed, since, early, late>>

Next ==
  \/ hpet
  \/ \E p \in Programs : execute(p) \/ Update(p)
  \/ BeginUpdates \/ UpdatesDone \/ Copy \/ Reset

Spec == Init /\ [][Next]_vars

-----------------------------------------------------------------------------
TypeOK ==
  /\ {hpetCounter, ticks, elapsed} \subseteq Nat
  /\ at \in {"callbacks", "update", "copy", "reset"}
  /\ todo \subseteq running /\ running \subseteq Programs
  /\ {told, since, early, late} \subseteq [Programs -> 0 .. MaxTicks]
  /\ hpetCounter <= elapsed /\ ticks <= elapsed

(* What the updates of a program are still going to add to its time: the   *)
(* copy, as long as the program has not been given it, and the counter,    *)
(* except between the copy and the reset, when it is in the copy.          *)
Owed(p) ==
  (IF at \in {"callbacks", "reset"} \/ p \in todo THEN ticks ELSE 0)
  + (IF at = "reset" THEN 0 ELSE hpetCounter)

(* No interrupt of the timer is counted twice, and the only ones that a    *)
(* program is never told of came between the copy and the reset.           *)
OnlyLateTicksAreLost ==
  \A p \in running :
    told[p] + Owed(p) + late[p] = (elapsed - since[p]) + early[p]
=============================================================================
