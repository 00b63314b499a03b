--------------------------- MODULE MCKernelTables --------------------------
(* The kernel's tables and lists for TLC: the time, the callbacks, the     *)
(* programs' system calls, the list library, and the progress of Programs. *)
(* They share no state, so a behaviour is one of one of them.              *)
EXTENDS Ticks, TLC

CONSTANTS
  Null,
  Listeners, CallBlocks,             \* Programs and Blocks of Callbacks
  keyCalls, moveCalls, clickCalls,
  Blocks, Lists,                     \* of MCLinkedList
  Providers, Names, NameOf,          \* of Services
  Clients, Reserved, LastNumber, Free,
  Nodes, MaxExecs, MaxTerminal,      \* of Programs
  desktop1, desktop2, other          \* the values of Providers

(* Two desktops, one started in the other, and another service.            *)
ProviderNames == desktop1 :> "desktop" @@ desktop2 :> "desktop" @@ other :> "other"

VARIABLES
  part,                                                           \* whose behaviour
  callNext, pointer, kept, list, call, called, listeners,         \* Callbacks
  syscallHandlers, syscallIds, syscall, windows,                  \* Services
  listNext, contents,                                             \* MCLinkedList
  next, live, pid, terminalId, done, serial, terminals, flag,     \* Programs
  target, currentProgram, stack, phase, program, found, typing,
  terminalPid, terminalTarget, started, due, updated

Calls == INSTANCE Callbacks WITH
  Programs <- Listeners, Blocks <- CallBlocks, next <- callNext, started <- listeners
Table == INSTANCE Services
Library == INSTANCE MCLinkedList WITH next <- listNext
Progs == INSTANCE Programs

ASSUME KernelAssumption ==
  Calls!CallbacksAssumption /\ Table!ServicesAssumption /\ Library!LinkedListAssumption

callVars == <<callNext, pointer, kept, list, call, called, listeners>>
tableVars == <<syscallHandlers, syscallIds, syscall, windows>>
libraryVars == <<listNext, contents>>
programVars == <<next, live, pid, terminalId, done, serial, terminals, flag, target,
                 currentProgram, stack, phase, program, found, typing, terminalPid,
                 terminalTarget, started, due, updated>>
allVars == <<part, vars, callVars, tableVars, libraryVars, programVars>>

KernelInit ==
  /\ part \in {"ticks", "calls", "table", "library", "programs"}
  /\ Init /\ Calls!Init /\ Table!Init /\ Library!Init /\ Progs!Init
  /\ part # "ticks" => hpetCounter = 0

ProgramsStep ==
  /\ part = "programs" /\ Progs!Next
  /\ UNCHANGED <<part, vars, callVars, tableVars, libraryVars>>

KernelNext ==
  \/ part = "ticks" /\ Next
       /\ UNCHANGED <<part, callVars, tableVars, libraryVars, programVars>>
  \/ part = "calls" /\ Calls!Next
       /\ UNCHANGED <<part, vars, tableVars, libraryVars, programVars>>
  \/ part = "table" /\ Table!Next
       /\ UNCHANGED <<part, vars, callVars, libraryVars, programVars>>
  \/ part = "library" /\ Library!Next
       /\ UNCHANGED <<part, vars, callVars, tableVars, programVars>>
  \/ ProgramsStep

(* Programs return from start() and update().                              *)
KernelSpec == KernelInit /\ [][KernelNext]_allVars /\ WF_allVars(ProgramsStep)

(* The address that a program keeps for removing its callback is that of   *)
(* its own item, and an event is handed once to each program.              *)
CallbacksInv == Calls!Inv

(* The list of names says of the table of handlers what is in it, and a    *)
(* number looked up once leads to the desktop that has the window.         *)
ServicesInv == Table!Inv

(* The list operations, which only follow links, keep the lists the        *)
(* sequences they stand for, however blocks pass between them.             *)
ListsAreSequences == Library!ListsAreSequences

(* Every running program gets its turn.                                    *)
EveryProgramUpdated == Progs!EveryProgramUpdated
=============================================================================
