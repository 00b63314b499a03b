# A verification development for KorbyOS

KorbyOS is a hobby operating system for x86-64 UEFI machines: one kernel
(`src/src/main.c`, `main.h`, `shared.h`), a trampoline for the other processors
(`src/src/system/smp.asm`) and a few programs (`src/src/programs/`). This
directory holds TLA+ models of it, the TLC configurations that check them and
proofs that the TLA+ proof system checks. The vendored UEFI library
(`src/gnu-efi`) is not part of the subject.

## How the system runs

Core 0, the bootstrap processor, runs everything: boot, the main loop of
`start()` (`main.c:718`), every program's callbacks and every system call. It
is compiled without optimisation (`run.sh`), so a global read in a loop
condition is read from memory each time. The other cores run
only what `splitTask` hands them. Interrupt handlers run on core 0 through
interrupt gates: they do not nest, they cannot interrupt a system call (`int
0x80` is an interrupt gate too), and they can interrupt the main loop anywhere.
There are no threads, no preemption and no locks. The hard part of this system
is therefore in four places: the mailboxes shared with the other cores, the
arrays shared with the interrupt handlers, the rings shared with the network
card, and long sequences of calls against structures that several programs
share (the heap, the lists, the tables of programs, system calls and terminals).

## Inventory

| Component | State | Operations | What makes it correct |
|---|---|---|---|
| SMP work sharing (`shared.h` 266-291, `smp.asm` 56-65) | a mailbox per core, the task's global arguments | `splitTask`, `waitForCores`, the cores' polling loop | a fork-join: each core runs each task once; arguments are stable while a core works; every call returns |
| SMP bring-up (`main.h` 1237-1268, `smp.asm` 1-54) | core counter, mailboxes holding stack pointers, `hpetCounter` | prepare, start, wait | distinct numbers, mailboxes and stacks; `start()` only when all cores are up |
| Memory allocator (`main.h` 3-12, 263-312; `main.c` 427-442) | the table of entries, `allocations` | `allocate`, `unallocate`, `getUsedRam` | disjoint blocks, table in step with the callers, termination |
| Input events (`main.h` 83-100, 815-869; `main.c` 796-882) | three arrays with 8-bit counters, mouse packet assembly, last button state | keyboard, mouse and timer handlers; the main loop's drains | in order, no duplicates, losses only where they cannot be avoided, the consumer's button state agrees with the mouse |
| Programs (`main.c` 185-236, 342-425, 1171-1190) | `running`, `waitingPrograms`, `terminals`, `currentProgram` | `execute`, `quit`, `waitForProgram`, `cancelWait`, terminals, the update loop | unique pids, every waiter told once, no call through a missing terminal |
| System calls (`main.c` 286-340, 484-583) | `syscallHandlers`, `syscallIds` | register, look up, unregister, dispatch | a name finds its own handler or none |
| Timer (`main.h` 815-818; `main.c` 1171-1196) | `hpetCounter`, `ticks` | count, copy and reset, hand to `update` | a program is told of every tick since it started |
| Callback lists (`main.c` 238-284) | `keyCalls`, `moveCalls`, `clickCalls` | add, remove, call in order | a removed callback is not called again |
| List library (`shared.h` 195-264) | singly linked lists in heap blocks | `addItem`, `addItemFirst`, `removeItem`, `iterateList`, `moveItemEnd`, `unallocateList` | no node is used after it was freed and reused |
| Network cards (`main.h` 895-972, 1066-1234) | descriptor rings, `ethernetPackets` | receive interrupts, send | every frame once and in order, no overrun |
| Network stack (`main.c` 117-183, 455-482, 676-795, 883-1057) | connections, addresses | ARP, UDP, DHCP client | a datagram reaches the connections on its port; an address is obtained |
| Main terminal (`main.c` 597-639, 796-857, 1058-1170) | cursor, typing buffer, directory | print, line editor, commands | the line handed to a command is the line typed |
| File store (`main.h` 175-261, 443-450, 469-579) | `files` | write, read, check, delete, list | names are unique; data belongs to its file |
| Desktop (`programs/desktop/program.c`) | windows, focus, dragging, taskbar | windows, input routing, compositing | one taskbar item per window, focus on a live window |
| Desktop terminal (`programs/desktop/taskbar/terminal/program.c`) | scrollback, line editor, directory | a client of the desktop | as the main terminal |
| Work of the cores (`shared.h` 323-354; `main.c` 585-595) | the screen's words, `blitSize` | `coreBlit`, `coreFill`, `coreDrop` | each pixel belongs to one core, and is read before it is overwritten |
| Rendering game (`programs/desktop/taskbar/rendering/program.c`) | positions | `update` | nobody passes a wall |
| Test client (`programs/test/program.c`) | its connection | ask for a name's address, then for the time | one answer for one question |
| Drawing, sound, clock, PCI probing, interrupt tables, panic screen | | | output, or run once and straight through |

## Modules

Each module has a header that says what it models. Operators named *Broken* in
a comment are deliberately wrong variants of the definition that follows them;
no specification uses them. They are there so that each property can be shown
to fail when the code is changed in a way it should notice (the `mutants` of
`PROJECT.json`).

| Module | Models | State and actions against the code |
|---|---|---|
| `ForkJoin` | what `splitTask` promises | a round is forked on all cores, each runs it once, the next one starts when all have |
| `SplitTask` | `splitTask`, `waitForCores`, the polling loop | `slot[c]` is the mailbox at 0x1005 + 8 * (c - 1); core 0 is `Call`, `ScanSlot`, `ScanAgain`, `WaitDone`, `Post`, `PostDone`, `RunOwn`, `Return`; a core is `BootClear`, `Poll`, `Fetch`, `Work`, `Clear`. One access to a mailbox per step |
| `SmpBoot` | `completed()` 1245-1268 and the 64-bit entry of `smp.asm` | the unlocked `inc` is `IncLoad` and `IncStore`; the timer is `Tick`; `timely` says whether cores are as fast as the code assumes. `HandsOver` composes it with `SplitTask`: the state in which `start()` is called is an initial state of that module |
| `CoreBlit`, `CoreDrop` | `coreBlit` and `coreDrop`, as the cores run them | one word, or one row of a column, per step of a core |
| `MemoryPool` | what the allocator promises | a set of live blocks; a new one is at the lowest address where it fits |
| `Heap` | `allocate`, `unallocate`, `getUsedRam` | the table as a function of slots; one action per iteration of each loop; a fresh slot holds garbage, as the code never clears one |
| `InputEvents` | `keyboard`, `mouse`, the three drains of the main loop | one action per handler and per test, body and reset of a drain; a handler can run between any two |
| `Ticks` | `hpet`, the main loop's copy of its counter | the copy and the reset are two actions; `execute` starts a program before or during the updates; `elapsed`, `since`, `early` and `late` are the account that the property is about |
| `LinkedList` | `addItem`, `addItemFirst`, `removeItem`, `iterateList`, `moveItemEnd`, `listLength`, `unallocateList` | operators on the first words of blocks; a list is named by the variable that holds it, as in the code |
| `Callbacks` | the lists of key, movement and click calls | `Start` and `Quit` of a program that takes events, which keeps the addresses of its items; `Event`, `Call`, `WalkEnds` are the main loop's walk |
| `Programs` | `execute`, `quit`, `waitForProgram`, `cancelWait`, the terminals, the update loop | a system call is one step, except `execute`, which is split where it calls `start()`; `stack` holds the calls of `start()` and `update()` under way |
| `Services` | `registerSyscallHandler`, `getRegisteredSyscall`, `unregisterSyscallHandler`, the dispatch | two desktops and another provider; a client looks a number up once, in `Start`, and calls it, in `Close`, much later |
| `FrameBuffer` | what a card's driver promises | each accepted frame is held until it is handed on, once; in order with `fifo` |
| `E1000`, `Rtl8169` | the receive rings and interrupt handlers | the card is the environment: `Receive` at any moment, `Overrun` when the ring is full. A handler is split where it reads and clears a register and, for the rtl8169, at each descriptor |
| `SendRing` | `e1000Send`, `rtl8169Send` | the card's `Transmit` sends one descriptor |
| `NetworkStack` | the main loop from the DHCP answer to the closed connection, `main.c` 676-795 and 883-1057, and the test program | `batch` is `ethernetPackets`; each phase of the pass is a sequence of actions, and `Arrive`, the interrupt, can come between any two. One action per frame. `open` is the list of connections; `taken`, `sent` and `replies` are histories, per port, per owner, and for ARP |
| `Pointer` | `mouseMove`, the start and end of a drag, where a window opens | positions as numbers, on both axes |
| `Desktop` | windows, focus, taskbar, clicks, keys, exit, the clients' events | one action per click or key of a pass and per update; a place on the screen is what lies under it |
| `LineEditor` | `putCharacter`, the key handling of a terminal, its `update` | buffer and screen are both state; `meant` and `owed` are what the user typed and entered |
| `FileStore` | what boot reads from the disk, `writeFile`, `deleteFile`, `checkFile`, `checkFolder`, `getFiles`, the terminal's change of directory | names are sequences of characters, because folders are beginnings of names; a folder of the disk is also an entry of size 0, behind the entries of what is in it |
| `Game` | the movement of player and enemy | `move` is the test and step of one axis; `update` does both figures |
| `MCHeap`, `MCInputEvents`, `MCLinkedList`, `MCNetworkStack`, `MCPrograms` | | symmetry and values for TLC; `MCLinkedList` also calls the list operators in any order |
| `MCKernelTables`, `MCNetworkCards`, `MCDesktopPrograms` | | see below |
| `SplitTaskProofs`, `SmpBootProofs`, `HeapProofs`, `InputEventsProofs`, `ProgramsProofs` | | theorems about the module they are named after |
| `KernelTablesProofs` | | theorems about `Ticks`, `Services`, `LinkedList` with `MCLinkedList`, and `Callbacks` |
| `NetworkProofs` | | theorems about `E1000`, `Rtl8169`, `SendRing` and `NetworkStack` |
| `DesktopProofs` | | theorems about `Desktop` and about what `MCDesktopPrograms` puts together: `CoreBlit`, `CoreDrop`, `Pointer`, `LineEditor`, `FileStore` and `Game` |

`SplitTask` implements `ForkJoin`, `Heap` implements `MemoryPool`, and `E1000`
and `Rtl8169` implement `FrameBuffer`, each with the abstract specification as
a property of a run, each also as a theorem. `SmpBoot` instantiates
`SplitTask`; `Programs` and `Callbacks` are built on `LinkedList`.

`MCKernelTables`, `MCNetworkCards` and `MCDesktopPrograms` put together
components that share no state: the timer, callbacks, services, lists and
programs; the rings; the cores' work, the line editor, files, pointer and game. A
variable that never changes says whose behaviour it is, so that a run has the
sum of their states and not the product.

What passes between components that are modelled apart:

- `InputEvents` hands events to the walks of `Callbacks`, which call the
  handlers of `Desktop` and `Pointer`. `Desktop` therefore takes any number of
  keys and movements and up to `MaxClicks` clicks in a pass, in the order of
  the drains.
- `E1000` and `Rtl8169` append to the array that `NetworkStack` reads; its
  `Arrive` is their `HandOn`. `NetworkStack` sends one packet per step to the
  ring of `SendRing`.
- `Programs` starts and updates the programs that `Ticks` counts time for, that
  register in `Services` and `Callbacks`, and that `Desktop` has windows of.
- Everything that copies or moves pixels calls `SplitTask`; the task's share is
  `CoreBlit` or `CoreDrop`. All lists take their items from `Heap`, which
  `LinkedList` and its users see as a set of free blocks.

### What the abstractions leave out

- `SplitTask`: the task's code is one number, the number of the call; the work
  is one step. A mailbox is one atomic word. x86 keeps stores in order and the
  code is compiled without optimisation, so mailbox accesses are sequentially
  consistent here.
- `SmpBoot`: mode switches, page tables and the APIC's handshake.
- `Heap`: addresses are small numbers, block contents and the end of memory are
  left out. `K` bounds the table.
- `InputEvents`: scancodes and distances. A handler is not run when an array is
  full: the code would store past the array. The order between two kinds is
  not kept by the code and no property claims it.
- `Programs`: what a program does between its calls, its file and memory.
  `terminalIds` is represented by the entries of `terminals` in use. The programs
  keep to the protocol of those in the repository, which the module's header
  states; in particular each waits only for a program it has just executed and
  cancels its wait before it quits.
- `Callbacks`: a callback does not add or remove one while its list is walked;
  in the repository only `start()` and `update()` do, and the desktop's
  callbacks, which execute programs, start none that takes events.
- `Services`: a client that starts without a service would call number 0,
  which is `execute`; `Start` needs one to be there. A provider goes only when
  its own windows are closed, as the desktop does.
- `E1000`, `Rtl8169`: a frame is its number. What the card does when the ring
  is full is from the way the driver sets it up; the rest of the card is not
  under `src/` and is modelled as its driver uses it.
- `NetworkStack`: a datagram is its addresses, port and one value; formats,
  checksums and the contents of DNS and NTP are left out. A hardware address is a
  name, but for the byte that the ARP filter looks at with a wrong index
  (`main.c:902`); from the seventh frame of a batch on, that index leaves the
  array, and any byte may be compared. The connections are a set: the order in
  which the loops visit them decides only how packets of different connections
  interleave, which nothing here is about. Nobody else has the broadcast
  address.
- `Desktop`: what is drawn and where; a place is the window and the part of it
  that lie there. `Pointer` has the positions, of windows that fit the screen:
  820 by 569 pixels are enough for those of the repository.
- `LineEditor`: two characters, with and without shift. A prompt of `n`
  characters is printed in one step, to where `n` single ones would have led,
  and what the screen kept above it is not told apart any more. Nothing stops the line
  at the end of its buffer, so the model does. Programs print only while no
  line is typed.
- `FileStore`: what a file holds is whether it is empty and whether its block
  came from the allocator. `deleteFile` and a `writeFile` over a file of the
  disk give back a block that did not: outside the model.
- `Game`: a cell has two positions on each axis, and a step is shorter than a
  wall is thick.

## Runs

| Run | Instance | Properties |
|---|---|---|
| `split_task` | five application processors, two calls, some cores still in boot | `ArgumentsStable`: nobody changes the task's globals under a working core. `NoOverwrite`: a mailbox is written only when empty. `ForkJoinSafe`: the refinement. `CallsReturn` |
| `smp_boot` | three cores, timely or not | `Inv`: when timely, each core has its own number, mailbox and stack. `HandsOver`: `start()` never runs before every core is counted, and when they are timely it runs in an initial state of `SplitTask`. `ComesUp`: when timely, it runs. When not, a lost increment leaves core 0 waiting, so deadlock is not an error in this run |
| `heap` | three blocks of 1 or 2 bytes | `NoWildRead`: no loop relies on an entry never written. `UsedRamExact`: the `usage` command is right. `PoolSpec`: the refinement, and with it that live blocks are disjoint. `OperationsReturn` |
| `heap_zero` | two blocks of 0 or 1 byte, the former given back at once | `UsedRamExact` is violated: see Findings |
| `input_events` | a key, a movement, one button pressed, released and pressed again and the other one pressed; arrays of two entries | `Inv`: order of arrival, no duplicates, and a lost click is made good by the next one. `OnlyLateEventsAreLost`: a loss needs an arrival between the failed test and the reset. `ArraysDrain` |
| `programs` | three programs started, five list items, terminals 0 to 2 | `Inv`: pids are unique, `currentProgram` is who runs, terminals belong to running programs. `WaitsTruthful`: who waits is told when, and only when, the program waited for quits. `EachUpdatedOnce` |
| `kernel_tables` | two programs and five ticks; two listeners on three lists of six blocks; two desktops, another provider and three clients; two lists over the same five blocks; two programs in three items | `OnlyLateTicksAreLost`: a program learns of each tick since it started, except those between the copy and the reset (and is told of those of the pass before it started). `CallbacksInv`: the address a program keeps is that of its own item, and every event goes once to each program. `ServicesInv`: names, table and kept numbers agree. `ListsAreSequences`. `EveryProgramUpdated` |
| `network_cards` | e1000 with 4 descriptors, 12 frames, two of them faulty; rtl8169 with 3 and 7; send rings of 4 with 30 packets | `FramesOnce`: the refinements. `LagOnlyGrows`: once the e1000's handler is behind, it stays behind. `NothingLeft`: on a network that waits for each interrupt no frame waits for the next, and packets get out. `CardsInv`: no scan of the rtl8169 leaves a frame behind that was there when it began; what is sent is what was given, in order, until the ring breaks; and exactly when that is |
| `network_stack` | three frames out of six kinds, two clients, batches of up to three | `Inv`: each packet is sent once, to the sender of the first datagram taken; a question for another machine is answered only when it asks about the byte of `mac` at its place in the batch, which one does here; a client uses an answer once. `ReceivedInOrder`: a connection has the latest datagrams for its port without a gap. `FirstAnswerDecides`: the address is that of the first answer. `AnswerIsTaken` |
| `desktop` | three windows, two clicks in a pass | `Inv`: the taskbar has the windows there are, what is dragged is open, the desktop leaves nothing behind. `FocusOnTop`: keys go to the window on top. `QuitAnswered`: who is told to close is gone before the next pass. `ExitHeard` |
| `desktop_programs` | 14 words on three cores; 7 by 5 pixels on three cores; a terminal of two by four characters; two files of the disk in two folders with names that begin alike, and three more names; a screen a little larger than a window, and movements that reach and miss its edges; a room of ten cells | `SharesCopied`: when all cores are done, all of their words are copied. `MovedUp`: scrolling in place reads no pixel that has been overwritten. `EditorInv`: the line shown, the line typed and the line executed are one, and it is executed once. `StaysInFolders`: no command leads to a folder that does not exist, listings show each file once, and `..` leads up by one. `PointerInv`: pointer and window stay on the screen, and the pointer on the title it drags. `StaysInRoom` |

Deadlock is checked in every run but `smp_boot`, `network_cards` and
`network_stack`: there a lost increment, a card whose ring is full, and a
network that has sent its last frame really stop.

Why the bounds are enough to be interesting:

- `split_task`: with two calls, the second one's posts meet cores at every
  stage of the first, and cores that leave boot late meet the first.
- `heap`: three blocks are enough for a block to be freed below and between two
  others, for its slot to be taken again by an entry at another address, and
  for the address search to be bumped by an entry it had passed. Two sizes make
  a hole that only the smaller one fits.
- `input_events`: an array of two entries fills up, drains, and takes an
  event between the last test and the reset; three changes of one button let a
  click be lost and made good.
- `programs`: three programs give a nested `execute`, a waiting program that is
  itself waited for, a pid that is used again, and a program that quits in
  the middle of a pass. Five items are enough for all of them and every
  possible record of a wait, so no step is blocked for want of an item.
- `kernel_tables`: five ticks fall before, between and after the copies of two
  passes; six blocks are all that two listeners need, so one that starts takes
  the blocks that another has freed, for any of the three lists; five blocks pass
  between two lists of the library; with two desktops, one registers after the
  other, and its client outlives the first.
- `network_cards`: the receive rings wrap with frames left over, the e1000's
  ring fills up with old frames; 30 packets go round a ring of 4 seven times.
- `network_stack`: three frames hold an offer behind an answer without one,
  and behind a neighbour's datagram; two of them are left over from a batch or
  arrive during it; two clients have the same port.
- `desktop`: three windows are needed for one that is neither on top nor the
  one that gets the focus next; two clicks for a press and a release, or two
  windows closed, in one pass.
- `desktop_programs`: 14 words and 7 columns leave a remainder on three cores;
  a line of three characters wraps and scrolls a terminal two wide.

`MaxCalls`, `K`, `Cap`, `MaxRaised`, `MaxTicks`, `MaxExecs`, `MaxTerminal`,
`LastNumber`, `MaxFrames`, `MaxSends`, `MaxWire`, `MaxClicks` and `BufferSize`
are the only bounds. The items of `programs` are symmetric: no property or
action names one. The runs with liveness use no symmetry.

## Fairness

- `SplitTask`, `SmpBoot`: each processor keeps executing, so each core's next
  step and core 0's are weakly fair, and so is the timer. A caller need not
  call `splitTask` again.
- `Heap`: a loop that is under way goes on. Callers need not call.
- `InputEvents`, `NetworkStack`: the main loop's next step is weakly fair,
  because handlers return. The handlers are not fair: nobody has to type or
  send. That a drain ends although new events extend it rests on the bounds
  `MaxRaised` and `MaxFrames`; the code relies on devices being slower than
  the loop.
- `E1000`, `Rtl8169`: a handler that has begun goes on, and a pending interrupt
  is taken. `SendRing`: the card sends. No frame need arrive.
- `Desktop`: the pass goes on. Nobody has to click.
- `Programs`: `start()` and `update()` return, so some step is always taken. A
  pass ends because a program can only start finitely many others.

What is said only of a fast environment has the assumption in the property:
`timely` (a core counts itself within a tick of its startup IPI) and `paced`
(no frame arrives while an interrupt is pending or handled) are variables that
the initial state chooses and nothing changes.

## What is proved

`SplitTaskProofs`, for every number of processors and calls:

- `SpecInv`: `Inv` is an invariant. The wanted properties are not inductive:
  that a pass of `waitForCores` which read only empty mailboxes means all are
  empty needs to know that nobody but core 0 fills one (`ScanInv`), and that
  each core is in one of four situations (`CoreInv`: still booting, idle,
  handed the job of this call, or done with it and about to clear the
  mailbox). `CallInv` ties the counters to core 0's position.
- `SpecTypeOK`, `SpecArgumentsStable`, `SpecJoinComplete`, `SpecNoOverwrite`
  follow, and `SpecForkJoin`: every behaviour is one of `ForkJoin`.

`HeapProofs`, for every set of blocks, pool address and room for the table, and
every set of sizes without 0:

- `SpecInv`: `Inv` is an invariant. It says that the table holds exactly
  the callers' blocks (`TableInv`, `HeldInv`), and for each loop what it has
  learnt so far: the search for an address has passed `count` entries, none of
  which overlaps the candidate (`SearchInv`), the search for a slot has passed
  only entries in use (`SlotInv`), and the free loop has not yet passed the
  entry it looks for (`FreeInv`). The cardinality of what a loop has passed is
  what makes `count == allocations` mean that it has seen everything.
- `SpecTypeOK`, `SpecLiveDisjoint`, `SpecNoWildRead` and `SpecPool`: the
  allocator is a lowest-fit pool. That no size is 0 is a hypothesis of each
  theorem: with blocks of 0 bytes they are false.
- `SpecUsedRamExact`: what `getUsedRam` adds up, in the order of the table, is
  what the blocks that are out take. Both sides are sums over finite sets, one
  of slots and one of blocks. That such a sum exists and does not depend on
  which element is taken first comes from well-founded induction on subsets
  (`SumsExist`, `AnyFirst`), that it is kept when the elements are renamed is
  `RenamedSum`, and the renaming is the one that `TableInv` gives: each slot in
  use holds one block, and each block is in one slot (`EntriesAreBlocks`).

`KernelTablesProofs`:

- `TicksSpecInv` and `KernelOnlyLateTicksAreLost`, for any programs and any
  number of ticks. The account of a program balances at every step only if the
  copy and the counter stand for different ticks, except between the copy and
  the reset (`CountInv`), and if a program that does not run has been told
  nothing (`StartInv`).
- `KernelServices`, for any providers, clients and names and a table of any
  size: `ServicesInv`. That a client's number leads to the desktop that has its
  window is not inductive: the number has to be in use all that time
  (`NumberInUse`), or the next provider would get it, and the list has to say
  of the table exactly what is in it (`ListMatches`), or the search by name
  would find another number. Assumed: no program is both provider and client.
- `KernelListsAreSequences`, for any blocks and any number of lists that take
  their items from them. `Items` is a recursion along the links, which ends
  because it is bounded by the number of blocks; that it computes the list
  (`ItemsOfList`) follows from the least place at which it would not. A list is
  then a sequence of distinct blocks, each the link of the one before and the
  last without a link (`IsList`), and of each operation it is shown which
  sequence it makes of it and which links it leaves alone (`AddItemList`,
  `AddFirstList`, `RemoveItemList`, `OneListChanges`). That no block is on two
  lists (`AreLists`) makes it inductive: what is done to one list changes no
  link of another, although a freed block keeps the link it had.
- `KernelCallbacks`, for any programs and blocks: `CallbacksInv`. The three lists
  hold at each place the items of the same program, the one that started in
  that place (`ItemsOf`, `ItemsPoint`), and the walk is at the item of the program
  that it has called last (`WalkInv`). From an item on a list is a list again
  (`ListTail`), which gives what is left to call.

`SmpBootProofs`, for every number of cores up to 255, the number that the byte
which counts them can hold:

- `BootInv`: `Inv` is an invariant. `OwnMailbox` follows from the order in which
  timely cores come up: those before `next` have counted themselves and only
  `next` may be in the trampoline (`OneByOne`). Whatever the timing, a core's
  loaded copy of the counter is at most the number of cores that have counted
  themselves (`NeverOvercounted`), which is what makes the wait safe although
  increments are lost.
- `BootHandsOver`: `start()` runs only when all have counted themselves; when
  they are timely, in an initial state of `SplitTask`.

`InputEventsProofs`, for arrays of any size and any number of events:

- `EventsInv`: `InOrder` and `ButtonsAgree`. The proof is about what a kind's
  log and the rest of its array hold together: a handler appends to it, a drain
  moves on in it, and only a reset takes something away.
- `EventsLateOnly`: a reset drops only events that came after the failed test
  (`DropsOnlyLate`), so nothing else is lost.

`NetworkProofs`, for rings of any size and any number of frames and packets:

- `NetworkCardsFramesOnce`: `E1000` and `Rtl8169` implement `FrameBuffer`. For
  the e1000 this rests on the frames lying in the ring in the order of arrival
  from the handler's tail on, and on a pending interrupt meaning that there is
  one (`InRingOrder`): the handler looks at no done bit. For the rtl8169 a
  frame is nowhere twice (`NoneTwice`), and on a paced network at most one is
  anywhere (`OneAtATime`), so that order is kept there although scans do not.
- `NetworkCardsInv`: `Swept` of the rtl8169 and `WireInOrder` and `BreaksWhen` of
  the send rings, by where the packets not yet sent are (`InRingOrder`).
- `NetworkCardsLag`: `LagOnlyGrows`.

and, for any frames, any test programs and batches of any length
(`NetworkAssumption`, which the run evaluates: no frame has the broadcast
address as its sender, and no program is called like the DHCP client):

- `NetworkStackReceivedInOrder`: a connection has the latest datagrams for its
  port, in the order of arrival. Interrupts add to a batch that the loop is in,
  and a reset drops what they added too late; what keeps the order is that
  everything taken is older than everything that still waits, and that after
  the loop nothing in the batch waits (`Numbered`, `Waiting`).
- `NetworkStackInv`: `SentOnce` needs that the lists are empty when a connection
  is closed or a program goes, which holds because `Send` comes before both in
  the pass (`ListsSent`). What an owner was given is what it has sent followed
  by what is in its list, so `Send` and the freeing change nothing of it.
  `RouterIsFirstSender` compares the numbers of the first datagrams of all
  ports; that nobody has the broadcast address is what makes `router` tell
  whether one has been taken. `OnePacketOneAnswer` uses `ReceivedInOrder`: a
  program that finds a packet has one that was taken after its last.
- `NetworkStackFirstAnswerDecides`: while the DHCP connection is open it holds
  everything that was ever taken for its port, so its first packet is the first
  of all, and the address it offers is requested once.

`DesktopProofs`, for any windows and any number of clicks in a pass:
`DesktopInv`, `DesktopFocusOnTop` and `DesktopQuitAnswered`. Neither of the
wanted facts is inductive by itself. That the window being dragged is open
needs that a click which closes one finds the pointer on nothing that is
dragged (`PointerStays`); that a window told to close has closed before the
next pass needs that it is open, still to be updated, and not dragged
(`ToldInTime`). The lemmas are about the lists: what removing, appending and
moving to the end do to a list without duplicates.

and, in the same module, about what its programs do by themselves:

- `WordsWrittenOnce`, that no word is written by two cores, and `ScreenCopied`,
  for any screen and any number of cores. The lemmas are about the division of
  the words: the shares are disjoint, lie within the screen, and leave fewer
  words than there are cores.
- `ScreenMovedUp`, for the same: `coreDrop` copies each row of a column from the
  one a line below it, while the others do so in theirs. The invariant gives
  every pixel of a share its value by how far its core has come (`DropInv`):
  the rows above have moved, the others are as they were.
- `PointerHolds`, for any screen, any movements and any windows that fit it
  (`WindowsFit`, the assumption the code makes). While a window is dragged only
  its position is kept within bounds; that the pointer is on the screen then
  follows from its distance to the window, which is what `DragHolds` keeps.
- `EditorHolds`, for any terminal with room for the buffer and a line more
  (`LineEditorAssumption`): the line shown, the line typed and the line
  executed are one. `LineShown` is about the place of the cursor, from which
  the code tells whether there is anything to erase; when the screen moves up,
  the line is short enough for its start to be below the first row, so that
  taking a row's width from the unsigned `typingStart` does not wrap. `enter`
  ends the buffer where the line ends, and what it holds before that is the
  line, so what was erased behind it is never executed. `RunsOnce` says for
  each state of `running` and `done` whether a line is owed.
- `EveryoneStaysInRoom`, for any map with a wall all around and any steps of at
  most a cell on each axis (`GameAssumption`): nobody leaves the room, and no
  position becomes NaN. A room is what every set of cells has that has the
  player's first cell and, with a cell, those beside it; so no induction along
  a path is needed. A step on one axis leads to the same cell or to one beside
  it, if that is open (`NextCell`, `AlongX`, `AlongY`), and the second axis is
  tried from where the first one led; NaN stands for field 0, which is a wall.

- `EveryoneStaysInFolders`, for any names that begin with a slash and do not end
  in one, and any lines (`FileStoreAssumption`): each file is listed by itself
  in exactly one folder, `..` leads to the folder with one name less, and no line
  leads from a folder that has files to one that has none. A folder's name is
  what a file's name begins with, up to a slash (`FolderOf`, `FolderBegins`);
  the folder above ends at the last slash but one, which exists because a
  folder other than the root has two (`FolderIs`, `ParentIs`), and it has files
  because it begins whatever the folder below begins (`PrefixOfPrefix`). A file is
  listed in the folder that ends at its name's last slash and in no other
  (`ListedIn`, `ListedOnce`). That names stay unique when files are
  written and deleted is part of the invariant (`WriteKeeps`, `DeleteKeeps`).

`ProgramsProofs`, for any number of programs and terminals and any blocks:

- `ProgramsInvariant`: `ProgramsInv` is an invariant. `execute` is two steps
  with any number of others between them, and every system call can happen
  inside `start()` or `update()`, so what is true is said of the calls under way
  (`StackInv`): a program whose call is under way runs and has the pid that its
  starter is about to get, unless it has quit in that call, in which case the
  pid may not have been given to another yet (`FrameInv`); whoever started it was in
  control, and does not wait yet if it is going to wait for it (`CallerInv`).
  `WaitsInv` ties the list of records to the programs' flags in both directions,
  `TargetsInv` says that nobody is the target of two programs, and `MainInv` what the
  main terminal knows of the program it started last. `ListsInv` is about the
  list of programs as a sequence: those who started last come first
  (`Newest`), which an `execute` keeps by adding in front and a `quit` by
  closing the gap.
- `ProgramsRecords` (`Inv`: unique pids, `CurrentIsInControl`, `TerminalsOwned`) and
  `ProgramsWaitTruthfully` follow.
- `ProgramsUpdatedOnce`: a pass updates those who ran when it began, each once.
  The walk reads the link of an item that may have been freed since, so the
  invariant says what that link still leads to: the program that started last
  of those that started before it (`Follows`). Who has been updated is then
  told by the order in which they started (`AtItem`). The link is still good because a
  program that has quit in its own update calls nothing before it returns, so
  its item is not handed out again: any program that it started earlier in that
  update has returned by then.

Only model-checked:

- All liveness properties, which are out of the prover's reach: `CallsReturn`,
  `ComesUp`, `OperationsReturn`, `ArraysDrain`, `EveryProgramUpdated`, `NothingLeft`,
  `AnswerIsTaken` and `ExitHeard`.

Every other property of the passing runs is stated by a theorem.

## Findings

`heap_zero`: `unallocate` clears the first entry with the block's start, and a
block of 0 bytes has the start of the block at the bottom of the pool. The
desktop asks for one in every click outside the taskbar while no window is open
(`programs/desktop/program.c:337`) and frees it at line 416, with no other call
between, which is what `ClickSpec` of `MCHeap` says of callers. In the run's
trace a block of one byte is at the bottom, in entry 1; the block of 0 bytes
gets the same address and entry 2; freeing it clears entry 1. `getUsedRam` is
then 0 while a byte is held, so the `usage` command (`main.c:1126-1135`) leaves
out a block that is in use. What the trace ends before: entry 2 stays, is empty
and in nobody's way, and so the next block that fits below the second block
gets the address that is still in use. On a machine the block at the bottom is
the list item of the first file (`main.h:446`), which has entry 1 and is never
freed. With the block of 0 bytes in the earlier entry, freeing the other block would
clear the wrong entry as well, and the counter would show too much; but nothing
in the repository frees another block while it holds an empty one.

The repository has no documentation and no tests that state what the rest of
the code should do, so the following are told here and in the properties that
delimit them, and are not runs that fail:

- The remainder of the division of the screen's words among the cores is never
  copied (`shared.h:325`): `SharesCopied` is about the others.
- A frame that arrives before the e1000's handler has cleared the cause of an
  earlier one leaves the driver a frame behind for good (`LagOnlyGrows`), and
  when the ring is full of old frames nothing is received any more.
- The rtl8169's handler hands frames on in ring order, and leaves one that
  arrives behind its scan to the next interrupt.
- `rtl8169Send` fails with the packet after the last descriptor of the ring,
  `e1000Send` when the ring is full (`CardsInv` says exactly when).
- The ARP filter compares with the byte of the hardware address that has the
  frame's number in its batch (`main.c:902`), so that a question for another
  machine, which asks about the address 0, is answered where that byte is 0
  (`NoStrayReplies`: of the
  first six places, only there).
- The DHCP client asks once, takes the first datagram for its port, and never
  looks at an acknowledgement; after one that offers nothing it requests the
  same in every pass and never looks further.
- Events, frames and ticks between the last test, or the copy, and the reset are
  lost.
- Removing the last file of a folder leaves terminals in it.

## Hazards without a property

`PROJECT.json` lists the hazards that properties are about. These are real as
well and have none, because the code has no behaviour to state a property of
once they bite, or because the model that would show them adds nothing to the
reading of the line:

- The mailbox of the eighth application processor straddles two cache lines
  (`shared.h:287`).
- A full pool hands out memory that overlaps the table (`main.h:297`), and
  `unallocate` of a pointer that is not in the table walks on without an end
  (`main.h:306`), which `writeFile` and `deleteFile` do with files of the disk
  (`main.h:478`, `main.h:550`).
- The 256th event or frame of a pass wraps an 8-bit counter, and the one before
  is stored past the array (`main.h:831`, `main.h:950`).
- All movements of a pass are handled before all of its clicks (`main.c:865`).
- A program whose terminal is gone prints through address 0 or to the terminal
  that has taken the number (`main.c:365`); one that prints while a line is
  typed moves the cursor under it (`main.c:639`).
- With 256 terminals or system calls the search for a free number never ends
  (`main.c:290`, `main.c:346`).
- `execute` does not check that its file exists (`main.c:205`), and a client
  that is started without a desktop calls `execute` (`main.c:322`).
- Without a network card the first packet is a call to address 0
  (`main.h:166`).
- The typing buffer has no end check (`programs/desktop/taskbar/terminal/program.c:209`).
- After a long pass the game's step can be longer than a wall is thick
  (`rendering/program.c:322`), and a key released while another window has the
  focus stays down (`rendering/program.c:237`).
- A processor that the firmware lists as disabled is waited for (`main.h:385`).
- The hour is read before the minute (`shared.h:151`).

## Not modelled

`program.h` is one stub per system call. Drawing of text, rectangles and
bitmaps, sound and the clock are output. PCI probing, interrupt set-up, loading
from the disk and the panic screen run once and straight through. Of the game,
keys, music and rendering are left out. The UEFI library `src/gnu-efi` is
vendored and makes up most of the lines of the repository: the definitions here
stand for a little under half of the kernel's and the programs' own 4,700 lines.

## What could come next

1. `Programs` together with `Callbacks` and `Services`, so that what a program
   registers in its `start()` is part of the same behaviour as its `quit`.
2. `Desktop` with the positions of `Pointer`, in place of what lies at a spot.
3. The network cards with `NetworkStack`, whose `Arrive` is their `HandOn`.
