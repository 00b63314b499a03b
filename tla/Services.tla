------------------------------ MODULE Services -----------------------------
(***************************************************************************)
(* System calls that programs provide (src/src/main.c): a provider puts    *)
(* its handler in the table under the first free number, and a program     *)
(* that wants the service looks the number up by its name once, when it    *)
(* starts, and keeps it. The one service of this system is the desktop,    *)
(* whose clients (src/src/programs/desktop/desktop.h) have a window each.  *)
(***************************************************************************)
EXTENDS Naturals, Sequences, SequencesExt, FiniteSetsExt

CONSTANTS
  Providers, Clients, Names,
  NameOf,     \* the name that a provider registers
  Reserved,   \* the numbers below it are the system's own calls
  LastNumber,
  Free        \* NULL in the table

ServicesAssumption ==
  /\ Reserved \in Nat \ {0} /\ LastNumber \in Nat /\ Reserved <= LastNumber
  /\ NameOf \in [Providers -> Names]
  /\ Free \notin Providers /\ Providers \cap Clients = {}

Numbers == Reserved .. LastNumber
NoNumber == 0

VARIABLES
  syscallHandlers,  \* the table, above the numbers that are reserved
  syscallIds,       \* the list of names and numbers
  syscall,          \* the number a provider got, and that a client looked up
  windows           \* the clients that a provider has on its own list

vars == <<syscallHandlers, syscallIds, syscall, windows>>

(* start fills the table's first entries with something that is not NULL.  *)
Init ==
  /\ syscallHandlers = [n \in Numbers |-> Free]
  /\ syscallIds = <<>>
  /\ syscall = [p \in Providers \cup Clients |-> NoNumber]
  /\ windows = [p \in Providers |-> {}]

FreeNumbers == {n \in Numbers : syscallHandlers[n] = Free}

FirstFree == Min(FreeNumbers)

(* The search has no end when every number is taken.                       *)
registerSyscallHandler(p) ==
  /\ syscall[p] = NoNumber /\ FreeNumbers # {}
  /\ LET id == FirstFree IN
       /\ syscallHandlers' = [syscallHandlers EXCEPT ![id] = p]
       /\ syscallIds' = Append(syscallIds, [name |-> NameOf[p], id |-> id])
       /\ syscall' = [syscall EXCEPT ![p] = id]
  /\ UNCHANGED windows

(* The number is cleared when it is on the list, on which it is once.      *)
unregisterSyscallHandler(id) ==
  \E n \in DOMAIN syscallIds :
    /\ syscallIds[n].id = id
    /\ syscallHandlers' = [syscallHandlers EXCEPT ![id] = Free]
    /\ syscallIds' = RemoveAt(syscallIds, n)

(* Broken: a provider goes although it has clients.                        *)
MayGoEarly(p) == syscall[p] # NoNumber

(* The desktop quits when its list of windows is empty.                    *)
MayGo(p) == syscall[p] # NoNumber /\ windows[p] = {}

Quit(p) ==
  /\ MayGo(p)
  /\ unregisterSyscallHandler(syscall[p])
  /\ syscall' = [syscall EXCEPT ![p] = NoNumber]
  /\ UNCHANGED windows

(* The first of the list with this name, or else 0, which is the number of *)
(* execute.                                                                *)
getRegisteredSyscall(name) ==
  LET of == {n \in DOMAIN syscallIds : syscallIds[n].name = name}
  IN IF of = {} THEN NoNumber ELSE syscallIds[Min(of)].id

(* A client looks the service up and gets its window, while the service is *)
(* there: it is the desktop, or its terminal, that starts such programs.   *)
Start(c, name) ==
  /\ syscall[c] = NoNumber
  /\ LET id == getRegisteredSyscall(name) IN
       /\ id # NoNumber
       /\ syscall' = [syscall EXCEPT ![c] = id]
       /\ windows' = [windows EXCEPT ![syscallHandlers[id]] = @ \cup {c}]
  /\ UNCHANGED <<syscallHandlers, syscallIds>>

(* It closes its window by the number that it kept, and quits.             *)
Close(c) ==
  /\ syscall[c] # NoNumber
  /\ syscallHandlers[syscall[c]] # Free
  /\ windows' = [windows EXCEPT ![syscallHandlers[syscall[c]]] = @ \ {c}]
  /\ syscall' = [syscall EXCEPT ![c] = NoNumber]
  /\ UNCHANGED <<syscallHandlers, syscallIds>>

Next ==
  \/ \E p \in Providers : registerSyscallHandler(p) \/ Quit(p)
  \/ \E c \in Clients : Close(c) \/ \E name \in Names : Start(c, name)

Spec == Init /\ [][Next]_vars

-----------------------------------------------------------------------------
TypeOK ==
  /\ syscallHandlers \in [Numbers -> Providers \cup {Free}]
  /\ syscallIds \in Seq([name : Names, id : Numbers])
  /\ syscall \in [Providers \cup Clients -> Numbers \cup {NoNumber}]
  /\ windows \in [Providers -> SUBSET Clients]
  /\ \A p, q \in Providers : p # q => windows[p] \cap windows[q] = {}

(* The list says of the table what is in it: each number once, under the   *)
(* name of the program whose handler is there and which holds that number. *)
ListMatches ==
  /\ \A i, j \in DOMAIN syscallIds : syscallIds[i].id = syscallIds[j].id => i = j
  /\ ToSet(syscallIds) =
       {[name |-> NameOf[p], id |-> syscall[p]] :
          p \in {q \in Providers : syscall[q] # NoNumber}}
  /\ \A p \in Providers, n \in Numbers : syscall[p] = n <=> syscallHandlers[n] = p

(* The number that a client has kept since it started leads, when it       *)
(* closes its window, to the provider that has the window, whatever was    *)
(* registered under the same name or under the same number meanwhile.      *)
KeptNumberLeadsBack ==
  \A c \in Clients : syscall[c] # NoNumber =>
    \A p \in Providers : c \in windows[p] <=> syscallHandlers[syscall[c]] = p

(* A client has a window as long as it keeps a number, and the number is   *)
(* not free meanwhile: whoever came next would get it, and the window's    *)
(* last call.                                                              *)
NumberInUse ==
  \A c \in Clients :
    IF syscall[c] = NoNumber THEN \A p \in Providers : c \notin windows[p]
    ELSE syscallHandlers[syscall[c]] # Free

(* The table, its list of names and the numbers that are kept agree.       *)
Inv == TypeOK /\ ListMatches /\ KeptNumberLeadsBack /\ NumberInUse
=============================================================================
