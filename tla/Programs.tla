------------------------------ MODULE Programs ------------------------------
(***************************************************************************)
(* Running programs (src/src/main.c): execute, quit, waitForProgram,       *)
(* cancelWait, the table of terminals, the main terminal's wait for the    *)
(* program it started, and the main loop's pass over the programs.         *)
(*                                                                         *)
(* One core runs all of this and a system call cannot be interrupted, so   *)
(* nothing is concurrent; but execute calls the new program's start(),     *)
(* which can call execute in turn, and every list is walked while programs *)
(* come and go. Items of lists are heap blocks: a freed one can be taken   *)
(* again while somebody still points to it.                                *)
(*                                                                         *)
(* The programs keep to what those of the repository do: one registers its *)
(* terminal in start() and unregisters it in update(), waits for a program *)
(* it has just executed, cancels its wait before it quits, and does nothing*)
(* after that.                                                             *)
(***************************************************************************)
EXTENDS Naturals, FiniteSets, LinkedList, SequencesExt

CONSTANTS
  Nodes,      \* the heap blocks for the items of the two lists
  MaxExecs,   \* bound on the programs started; also names them, by number
  MaxTerminal \* highest terminal number (255)

Running == "running"            \* the variables that hold the lists
Waiting == "waitingPrograms"
Serials == 1..MaxExecs
Terminals == 0..MaxTerminal
MainTerminal == 0               \* owner of terminal 0
None == MaxExecs + 1            \* no pid: UINT64_MAX

ASSUME ProgramsAssumption ==
  /\ MaxExecs \in Nat \ {0} /\ MaxTerminal \in Nat \ {0} /\ IsFiniteSet(Nodes)
  /\ Null \notin Nodes \cup {Running, Waiting} \cup Nat
  /\ Nodes \cap {Running, Waiting} = {}

VARIABLES
  next, live,      \* the links, and the blocks in use
  pid,             \* Program.pid and WaitingProgram.pid
  terminalId,      \* Program.terminalId
  done,            \* WaitingProgram.done: whose flag it points to
  serial,          \* which program a Program item is of
  terminals,       \* terminals[]: whose function it is, or Null
  flag,            \* each program's done: "idle", "waiting" or "told"
  target,          \* which program each one waits for, or waited for last
  currentProgram,
  stack,           \* the calls of start() and update() under way
  phase,           \* callbacks, terminal or updates: where the main loop is
  program, found,  \* the main loop's iterator, and whether it saw terminalPid
  typing, terminalPid,
  terminalTarget,  \* history: the program the main terminal started last
  started,         \* history: how many programs have been started
  due, updated     \* history: programs running when the pass began, and those
                   \* updated since

itemVars == <<next, live, pid, terminalId, done, serial>>
loopVars == <<phase, program, found, due, updated>>
terminalVars == <<typing, terminalPid, terminalTarget>>
vars == <<itemVars, terminals, flag, target, currentProgram, stack, loopVars,
          terminalVars, started>>

Init ==
  /\ next = [n \in Nodes \cup {Running, Waiting} |-> Null]
  /\ live = {}
  /\ pid = [n \in Nodes |-> 0]
  /\ terminalId = [n \in Nodes |-> 0]
  /\ done = [n \in Nodes |-> 0]
  /\ serial = [n \in Nodes |-> 0]
  /\ terminals = [t \in Terminals |-> IF t = 0 THEN MainTerminal ELSE Null]
  /\ flag = [s \in Serials |-> "idle"]
  /\ target = [s \in Serials |-> 0]
  /\ currentProgram = Null
  /\ stack = <<>>
  /\ phase = "callbacks" /\ program = Null /\ found = FALSE
  /\ due = {} /\ updated = <<>>
  /\ typing = TRUE /\ terminalPid = None /\ terminalTarget = 0
  /\ started = 0

RunningSerials == { serial[n] : n \in ToSet(Items(next, Running)) }
Owned(s) == { t \in Terminals : terminals[t] = s }

(* A program is in control: the last call of start() or update(), unless   *)
(* it has called quit().                                                   *)
InControl == stack # <<>> /\ ~Last(stack).quitted
Self == Last(stack).serial

-----------------------------------------------------------------------------
(* execute: the new program's pid.                                         *)

(* pid counts up, and the search starts again, when a program has it: the  *)
(* least that none has.                                                    *)
FreePid == Min({ p \in 0..MaxExecs : \A n \in ToSet(Items(next, Running)) : pid[n] # p })

(* Broken: the new program goes to the end of the list.                    *)
EnterLast(n) == addItem(next, Running, n)

(* A new program is the first of the list.                                 *)
Enter(n) == addItemFirst(next, Running, n)

(* execute up to the call of start(). `then` is what the caller does with  *)
(* the pid it gets.                                                        *)
Execute(then) ==
  /\ started < MaxExecs
  /\ \E n \in Nodes \ live :
       /\ next' = Enter(n)
       /\ live' = live \cup {n}
       /\ pid' = [pid EXCEPT ![n] = FreePid]
       /\ terminalId' = [terminalId EXCEPT ![n] =
            IF currentProgram = Null THEN 0 ELSE terminalId[currentProgram]]
       /\ serial' = [serial EXCEPT ![n] = started + 1]
       /\ stack' = Append(stack, [serial |-> started + 1, pid |-> FreePid,
            then |-> then, old |-> currentProgram, quitted |-> FALSE])
       /\ currentProgram' = n
  /\ started' = started + 1
  /\ UNCHANGED <<done, terminals, flag, target, loopVars>>

(* A click on the desktop's taskbar, from the main loop.                   *)
CallbackExecute ==
  /\ phase = "callbacks" /\ stack = <<>>
  /\ Execute("nothing")
  /\ UNCHANGED terminalVars

ProgramExecute ==
  /\ InControl
  /\ \/ Execute("nothing")
     \/ flag[Self] # "waiting" /\ Execute("wait")
  /\ UNCHANGED terminalVars

(* A line typed at the main terminal names a program.                      *)
TerminalExecute ==
  /\ phase = "terminal" /\ stack = <<>>
  /\ ~typing /\ terminalPid = None
  /\ terminalTarget' = started + 1
  /\ Execute("terminal")
  /\ UNCHANGED <<typing, terminalPid>>

(* waitForProgram(p, &done) by program s, given the links as they are.     *)
waitForProgram(s, p, awaited) ==
  /\ target' = [target EXCEPT ![s] = awaited]
  /\ IF \E n \in ToSet(Items(next, Running)) : pid[n] = p
     THEN \E w \in Nodes \ live :
            /\ next' = addItem(next, Waiting, w)
            /\ live' = live \cup {w}
            /\ pid' = [pid EXCEPT ![w] = p]
            /\ done' = [done EXCEPT ![w] = s]
            /\ flag' = [flag EXCEPT ![s] = "waiting"]
     ELSE /\ flag' = [flag EXCEPT ![s] = "told"]
          /\ UNCHANGED <<next, live, pid, done>>

(* Broken: currentProgram is left at the new program.                      *)
RestoredNot == currentProgram

(* What execute leaves in currentProgram.                                  *)
Restored == Last(stack).old

(* start() returns, and execute to its caller.                             *)
StartReturns ==
  /\ stack # <<>> /\ Last(stack).then # "update"
  /\ currentProgram' = Restored
  /\ stack' = Front(stack)
  /\ CASE Last(stack).then = "nothing" ->
            UNCHANGED <<next, live, pid, done, flag, target, terminalPid>>
       [] Last(stack).then = "terminal" ->
            /\ terminalPid' = Last(stack).pid
            /\ UNCHANGED <<next, live, pid, done, flag, target>>
       [] Last(stack).then = "wait" ->
            /\ waitForProgram(Last(Front(stack)).serial, Last(stack).pid, Last(stack).serial)
            /\ UNCHANGED terminalPid
  /\ UNCHANGED <<terminalId, serial, terminals, loopVars, typing, terminalTarget, started>>

-----------------------------------------------------------------------------
(* The other calls of a program in control.                                *)

CancelWait ==
  /\ InControl /\ flag[Self] = "waiting"
  /\ LET waits == Items(next, Waiting)
         links[k \in 0..Len(waits)] ==
           IF k = 0 THEN next
           ELSE IF done[waits[k]] = Self THEN removeItem(links[k - 1], Waiting, waits[k])
           ELSE links[k - 1]
     IN  /\ next' = links[Len(waits)]
         /\ live' = live \ { w \in ToSet(waits) : done[w] = Self }
  /\ flag' = [flag EXCEPT ![Self] = "idle"]
  /\ UNCHANGED <<pid, terminalId, done, serial, terminals, target, currentProgram, stack,
                 loopVars, terminalVars, started>>

Registered(t) == terminalId' = [terminalId EXCEPT ![currentProgram] = t]

(* The first number that is free. terminalIds holds the numbers in use.    *)
RegisterTerminal ==
  /\ InControl /\ Last(stack).then # "update" /\ Owned(Self) = {}
  /\ \E t \in Terminals :
       /\ terminals[t] = Null /\ \A u \in Terminals : u < t => terminals[u] # Null
       /\ terminals' = [terminals EXCEPT ![t] = Self]
       /\ Registered(t)
  /\ UNCHANGED <<next, live, pid, done, serial, flag, target, currentProgram, stack,
                 loopVars, terminalVars, started>>

UnregisterTerminal ==
  /\ InControl /\ Last(stack).then = "update" /\ Owned(Self) # {}
  /\ terminals' = [terminals EXCEPT ![terminalId[currentProgram]] = Null]
  /\ UNCHANGED <<itemVars, flag, target, currentProgram, stack, loopVars, terminalVars, started>>

(* Broken: quit looks no further than the first waiting program.           *)
AwaitersFirst(p) ==
  LET waits == Items(next, Waiting) IN { k \in 1..Len(waits) : k = 1 /\ pid[waits[k]] = p }

(* The places of those that wait for a pid; only the first is told.        *)
Awaiters(p) == LET waits == Items(next, Waiting) IN { k \in 1..Len(waits) : pid[waits[k]] = p }

(* The program's item and memory are freed while its code still runs.      *)
Quit ==
  /\ InControl /\ flag[Self] # "waiting" /\ Owned(Self) = {}
  /\ LET left == removeItem(next, Running, currentProgram)
         awaiters == Awaiters(pid[currentProgram])
         first == Items(next, Waiting)[Min(awaiters)]
     IN  IF awaiters = {}
         THEN /\ next' = left /\ live' = live \ {currentProgram}
              /\ UNCHANGED flag
         ELSE /\ next' = removeItem(left, Waiting, first)
              /\ live' = live \ {currentProgram, first}
              /\ flag' = [flag EXCEPT ![done[first]] = "told"]
  /\ stack' = [stack EXCEPT ![Len(stack)].quitted = TRUE]
  /\ UNCHANGED <<pid, terminalId, done, serial, terminals, target, currentProgram,
                 loopVars, terminalVars, started>>

-----------------------------------------------------------------------------
(* The main loop.                                                          *)

(* Enter at the main terminal, then the pass over the programs.            *)
TypeLine ==
  /\ phase = "callbacks" /\ stack = <<>> /\ typing
  /\ typing' = FALSE
  /\ UNCHANGED <<itemVars, terminals, flag, target, currentProgram, stack, loopVars,
                 terminalPid, terminalTarget, started>>

CallbacksDone ==
  /\ phase = "callbacks" /\ stack = <<>>
  /\ phase' = "terminal"
  /\ UNCHANGED <<itemVars, terminals, flag, target, currentProgram, stack, program, found,
                 due, updated, terminalVars, started>>

(* Broken: the iterator starts at the first program, not before it.        *)
BeforeFirstMissed == IF next[Running] = Null THEN Running ELSE next[Running]
BeforeFirst == Running

BeginPass ==
  /\ phase = "terminal" /\ stack = <<>>
  /\ phase' = "updates"
  /\ program' = BeforeFirst /\ found' = FALSE
  /\ due' = RunningSerials /\ updated' = <<>>
  /\ UNCHANGED <<itemVars, terminals, flag, target, currentProgram, stack, terminalVars, started>>

Found == found \/ pid[next[program]] = terminalPid

Update ==
  /\ phase = "updates" /\ stack = <<>> /\ next[program] # Null
  /\ program' = next[program]
  /\ found' = Found
  /\ currentProgram' = next[program]
  /\ stack' = << [serial |-> serial[next[program]], pid |-> 0, then |-> "update",
                  old |-> Null, quitted |-> FALSE] >>
  /\ updated' = Append(updated, serial[next[program]])
  /\ UNCHANGED <<itemVars, terminals, flag, target, phase, due, terminalVars, started>>

UpdateReturns ==
  /\ stack # <<>> /\ Last(stack).then = "update"
  /\ stack' = Front(stack)
  /\ UNCHANGED <<itemVars, terminals, flag, target, currentProgram, loopVars, terminalVars, started>>

EndPass ==
  /\ phase = "updates" /\ stack = <<>> /\ next[program] = Null
  /\ currentProgram' = Null
  /\ program' = Null /\ phase' = "callbacks"
  /\ IF ~typing /\ ~found THEN typing' = TRUE /\ terminalPid' = None
                          ELSE UNCHANGED <<typing, terminalPid>>
  /\ UNCHANGED <<itemVars, terminals, flag, target, stack, found, due, updated,
                 terminalTarget, started>>

Next ==
  \/ CallbackExecute \/ ProgramExecute \/ TerminalExecute \/ StartReturns
  \/ CancelWait \/ RegisterTerminal \/ UnregisterTerminal \/ Quit
  \/ TypeLine \/ CallbacksDone \/ BeginPass \/ Update \/ UpdateReturns \/ EndPass

Spec == Init /\ [][Next]_vars

(* Programs return from start() and update(); the system never stops.      *)
FairSpec == Spec /\ WF_vars(Next)

-----------------------------------------------------------------------------
Frames == [serial : Serials, pid : 0..MaxExecs, then : {"nothing", "wait", "terminal", "update"},
           old : Nodes \cup {Null}, quitted : BOOLEAN]

(* Types, and the blocks in use are exactly the items of the two lists.    *)
TypeOK ==
  /\ next \in [Nodes \cup {Running, Waiting} -> Nodes \cup {Null}]
  /\ live = ToSet(Items(next, Running)) \cup ToSet(Items(next, Waiting))
  /\ pid \in [Nodes -> 0..MaxExecs] /\ terminalId \in [Nodes -> Terminals]
  /\ done \in [Nodes -> 0..MaxExecs] /\ serial \in [Nodes -> 0..MaxExecs]
  /\ \A t \in Terminals : terminals[t] \in Serials \cup {MainTerminal, Null}
  /\ flag \in [Serials -> {"idle", "waiting", "told"}]
  /\ target \in [Serials -> 0..MaxExecs]
  /\ currentProgram \in Nodes \cup {Null} /\ program \in Nodes \cup {Running, Null}
  /\ ToSet(stack) \subseteq Frames
  /\ phase \in {"callbacks", "terminal", "updates"}
  /\ found \in BOOLEAN /\ typing \in BOOLEAN
  /\ terminalPid \in 0..None /\ terminalTarget \in 0..MaxExecs /\ started \in 0..MaxExecs
  /\ due \subseteq Serials /\ ToSet(updated) \subseteq Serials

(* A pid belongs to one running program, although pids are used again.     *)
PidsUnique ==
  LET items == Items(next, Running)
  IN  \A m, n \in 1..Len(items) : m # n => pid[items[m]] # pid[items[n]]

(* currentProgram is the item of the program in control, however deeply    *)
(* calls of execute are nested and whoever has quit: quit, registerTerminal*)
(* and print act for their caller.                                         *)
CurrentIsInControl ==
  InControl =>
    /\ currentProgram \in ToSet(Items(next, Running))
    /\ serial[currentProgram] = Self

(* A program that waits waits for the very program it started, which still *)
(* runs and has the pid that quit() will look for; when it is told, that   *)
(* program has quit. A record never outlives the program whose flag it     *)
(* points to. The main terminal takes a new line only when the program it  *)
(* started has quit.                                                       *)
WaitsTruthful ==
  LET waits == Items(next, Waiting)
      Records(s) == { w \in ToSet(waits) : done[w] = s }
  IN  /\ typing => terminalTarget \notin RunningSerials
      /\ \A s \in Serials :
           /\ flag[s] = "waiting" =>
                /\ s \in RunningSerials
                /\ Cardinality(Records(s)) = 1
                /\ \A w \in Records(s) : \E n \in ToSet(Items(next, Running)) :
                     serial[n] = target[s] /\ pid[n] = pid[w]
           /\ flag[s] # "waiting" => Records(s) = {}
           /\ flag[s] = "told" => target[s] \notin RunningSerials

(* A pass updates every program that ran when it began, each once, and no  *)
(* other, although programs quit and start while the list is walked.       *)
EachUpdatedOnce ==
  phase = "updates" =>
    /\ IsInjective(updated) /\ ToSet(updated) \subseteq due
    /\ stack = <<>> /\ next[program] = Null => ToSet(updated) = due

(* A terminal belongs to a running program whose item has its number.      *)
TerminalsOwned ==
  \A t \in Terminals \ {0} : terminals[t] # Null =>
    \E n \in ToSet(Items(next, Running)) : serial[n] = terminals[t] /\ terminalId[n] = t

(* The records of programs, pids and terminals name whom they should.      *)
Inv == TypeOK /\ PidsUnique /\ CurrentIsInControl /\ TerminalsOwned

(* Every running program gets its turn.                                    *)
EveryProgramUpdated ==
  \A s \in Serials :
    (s \in RunningSerials /\ phase = "callbacks")
      ~> (s \notin RunningSerials \/ (phase = "updates" /\ s \in ToSet(updated)))
=============================================================================
