------------------------------ MODULE ForkJoin ------------------------------
(***************************************************************************)
(* What splitTask (src/src/shared.h) promises its callers: a call hands    *)
(* one job to every core, each core runs it exactly once, and the next     *)
(* call starts only when every core has finished the previous one.         *)
(* Jobs are numbered by the call that forks them.                          *)
(***************************************************************************)
EXTENDS Naturals

CONSTANTS
  N,         \* number of application processors (cpuCount)
  MaxCalls   \* bound on the number of calls

AllCores == 0..N    \* 0 is the bootstrap processor

VARIABLES
  calls,   \* how many times the primitive has been called
  ran      \* ran[c]: how many jobs core c has finished

vars == <<calls, ran>>

Init ==
  /\ calls = 0
  /\ ran = [c \in AllCores |-> 0]

Fork ==
  /\ \A c \in AllCores : ran[c] = calls
  /\ calls < MaxCalls
  /\ calls' = calls + 1
  /\ UNCHANGED ran

Run(c) ==
  /\ ran[c] < calls
  /\ ran' = [ran EXCEPT ![c] = calls]
  /\ UNCHANGED calls

Next == Fork \/ \E c \in AllCores : Run(c)

Spec == Init /\ [][Next]_vars

=============================================================================
