--------------------------- MODULE DesktopProofs ---------------------------
(***************************************************************************)
(* Proofs about Desktop, for any windows and any number of clicks in a     *)
(* pass: the lists stay those of the windows there are, the window with    *)
(* the focus is on top, and a window that is told to close has closed      *)
(* before the next pass begins. And about what its programs do by          *)
(* themselves: copying and scrolling, the line editor, the pointer, the    *)
(* files and the game, for any number of cores, any screen and any names.  *)
(***************************************************************************)
EXTENDS Desktop, MCDesktopPrograms, SequenceTheorems, FiniteSetTheorems,
        WellFoundedInduction, TLAPS

-----------------------------------------------------------------------------
(* Lists of windows.                                                       *)

(* q lists the windows of S, each once.                                    *)
ListOf(q, S) == q \in Seq(Windows) /\ IsInjective(q) /\ ToSet(q) = S

LEMMA LeastOf ==
  ASSUME NEW S, S \subseteq Nat, S # {}
  PROVE  Min(S) \in S /\ \A m \in S : Min(S) <= m
<1> DEFINE Below == OpToRel(<, Nat)
<1>1. IsWellFoundedOn(Below, Nat)
  BY NatLessThanWellFounded, Zenon
<1>2. \A m, n \in Nat : <<n, m>> \in Below <=> n < m
  BY DEF OpToRel
<1> HIDE DEF Below
<1>3. PICK m \in S : \A n \in S : ~(<<n, m>> \in Below)
  BY <1>1, WFMin
<1>4. ASSUME NEW n \in S PROVE m <= n
  <2>1. m \in Nat /\ n \in Nat /\ ~(n < m)
    BY <1>2, <1>3
  <2> QED
    BY <2>1
<1> QED
  BY <1>4 DEF Min

LEMMA RemovedAt ==
  ASSUME NEW S, NEW q \in Seq(S), NEW n \in 1 .. Len(q)
  PROVE  /\ RemoveAt(q, n) \in Seq(S)
         /\ Len(RemoveAt(q, n)) = Len(q) - 1
         /\ \A k \in 1 .. Len(q) - 1 :
              RemoveAt(q, n)[k] = IF k < n THEN q[k] ELSE q[k + 1]
<1> DEFINE a == SubSeq(q, 1, n - 1)
           b == SubSeq(q, n + 1, Len(q))
<1>1. Len(q) \in Nat /\ n \in Nat /\ 1 <= n /\ n <= Len(q)
  BY LenProperties
<1>2. /\ a \in Seq(S) /\ Len(a) = n - 1
      /\ \A k \in 1 .. n - 1 : a[k] = q[k]
  <2>1. n - 1 <= Len(q) /\ n - 1 \in Int
    BY <1>1
  <2> QED
    BY <1>1, <2>1, SubSeqProperties
<1>3. /\ b \in Seq(S) /\ Len(b) = Len(q) - n
      /\ \A k \in 1 .. Len(q) - n : b[k] = q[n + k]
  BY <1>1, SubSeqProperties
<1> HIDE DEF a, b
<1>4. /\ a \o b \in Seq(S) /\ Len(a \o b) = Len(a) + Len(b)
      /\ \A k \in 1 .. Len(a) + Len(b) :
           (a \o b)[k] = IF k <= Len(a) THEN a[k] ELSE b[k - Len(a)]
  BY <1>2, <1>3, ConcatProperties
<1>5. RemoveAt(q, n) = a \o b
  BY DEF RemoveAt, a, b
<1>6. ASSUME NEW k \in 1 .. Len(q) - 1
      PROVE  (a \o b)[k] = IF k < n THEN q[k] ELSE q[k + 1]
  <2>1. k \in 1 .. Len(a) + Len(b)
    BY <1>1, <1>2, <1>3
  <2>2. CASE k < n
    BY <1>1, <1>2, <1>4, <2>1, <2>2
  <2>3. CASE ~(k < n)
    <3>1. k - Len(a) \in 1 .. Len(q) - n /\ n + (k - Len(a)) = k + 1 /\ ~(k <= Len(a))
      BY <1>1, <1>2, <2>3
    <3> QED
      BY <1>3, <1>4, <2>1, <2>3, <3>1
  <2> QED
    BY <2>2, <2>3
<1> QED
  <2>1. a \o b \in Seq(S) /\ Len(a \o b) = Len(q) - 1
    BY <1>1, <1>2, <1>3, <1>4
  <2> QED
    BY <1>5, <1>6, <2>1

(* A list and its entries.                                                 *)
LEMMA Entries ==
  ASSUME NEW S, NEW q, ListOf(q, S)
  PROVE  /\ Len(q) \in Nat /\ DOMAIN q = 1 .. Len(q)
         /\ S \subseteq Windows
         /\ \A n \in 1 .. Len(q) : q[n] \in S
         /\ \A w \in S : \E n \in 1 .. Len(q) : q[n] = w
         /\ \A m, n \in 1 .. Len(q) : q[m] = q[n] => m = n
<1>1. Len(q) \in Nat /\ DOMAIN q = 1 .. Len(q) /\ \A n \in 1 .. Len(q) : q[n] \in Windows
  BY LenProperties, ElementOfSeq DEF ListOf
<1>2. S = {q[n] : n \in 1 .. Len(q)}
  BY <1>1 DEF ListOf, ToSet
<1> QED
  BY <1>1, <1>2 DEF ListOf, IsInjective

(* And back.                                                               *)
LEMMA FromEntries ==
  ASSUME NEW S, NEW q \in Seq(Windows),
         \A n \in 1 .. Len(q) : q[n] \in S,
         \A w \in S : \E n \in 1 .. Len(q) : q[n] = w,
         \A m, n \in 1 .. Len(q) : q[m] = q[n] => m = n
  PROVE  ListOf(q, S)
<1>1. DOMAIN q = 1 .. Len(q)
  BY LenProperties
<1> QED
  BY <1>1 DEF ListOf, ToSet, IsInjective

(* A window that is not in the list is put at its end.                     *)
LEMMA Appended ==
  ASSUME NEW S, NEW q, ListOf(q, S), NEW w \in Windows, w \notin S
  PROVE  /\ ListOf(Append(q, w), S \cup {w})
         /\ Last(Append(q, w)) = w
         /\ Len(Append(q, w)) = Len(q) + 1
<1> DEFINE r == Append(q, w)
<1>1. /\ r \in Seq(Windows) /\ Len(r) = Len(q) + 1
      /\ \A n \in 1 .. Len(q) : r[n] = q[n]
      /\ r[Len(q) + 1] = w
  BY AppendProperties DEF ListOf
<1> HIDE DEF r
<1>2. Len(q) \in Nat /\ \A n \in 1 .. Len(r) : n \in 1 .. Len(q) \/ n = Len(q) + 1
  BY <1>1, Entries
<1>3. \A n \in 1 .. Len(r) : r[n] \in S \cup {w}
  BY <1>1, <1>2, Entries
<1>4. \A v \in S \cup {w} : \E n \in 1 .. Len(r) : r[n] = v
  <2> SUFFICES ASSUME NEW v \in S \cup {w} PROVE \E n \in 1 .. Len(r) : r[n] = v
    OBVIOUS
  <2>1. CASE v = w
    BY <1>1, <1>2, <2>1
  <2>2. CASE v \in S
    <3>1. PICK n \in 1 .. Len(q) : q[n] = v
      BY <2>2, Entries
    <3>2. n \in 1 .. Len(r)
      BY <1>1, <1>2
    <3> QED
      BY <1>1, <3>1, <3>2
  <2> QED
    BY <2>1, <2>2
<1>5. ASSUME NEW m \in 1 .. Len(r), NEW n \in 1 .. Len(r), r[m] = r[n] PROVE m = n
  BY <1>1, <1>2, <1>5, Entries
<1>6. ListOf(r, S \cup {w})
  BY <1>1, <1>3, <1>4, <1>5, FromEntries
<1> QED
  BY <1>1, <1>6 DEF r, Last

(* A window is taken out of the list, and the others stay in their order.  *)
LEMMA Removed ==
  ASSUME NEW S, NEW q, ListOf(q, S), NEW w \in S
  PROVE  /\ ListOf(RemoveFirst(q, w), S \ {w})
         /\ Len(RemoveFirst(q, w)) = Len(q) - 1
         /\ Last(q) # w => Last(RemoveFirst(q, w)) = Last(q)
<1> DEFINE I == {n \in 1 .. Len(q) : q[n] = w}
           cut == Min(I)
           r == RemoveAt(q, cut)
<1>1. I \subseteq Nat /\ I # {}
  BY Entries
<1>2. cut \in I
  BY <1>1, LeastOf
<1>3. RemoveFirst(q, w) = r
  BY <1>1 DEF RemoveFirst, SelectInSeq
<1> HIDE DEF r
<1>4. cut \in 1 .. Len(q) /\ q[cut] = w /\ Len(q) \in Nat
  BY <1>2, Entries
<1> HIDE DEF cut, I
<1>5. /\ r \in Seq(Windows) /\ Len(r) = Len(q) - 1
      /\ \A k \in 1 .. Len(q) - 1 : r[k] = IF k < cut THEN q[k] ELSE q[k + 1]
  BY <1>4, RemovedAt DEF r, ListOf
<1>6. ASSUME NEW n \in 1 .. Len(r) PROVE r[n] \in S \ {w}
  <2> DEFINE m == IF n < cut THEN n ELSE n + 1
  <2>1. m \in 1 .. Len(q) /\ m # cut /\ r[n] = q[m]
    BY <1>4, <1>5
  <2> HIDE DEF m
  <2> QED
    BY <1>4, <2>1, Entries
<1>7. ASSUME NEW v \in S \ {w} PROVE \E n \in 1 .. Len(r) : r[n] = v
  <2>1. PICK m \in 1 .. Len(q) : q[m] = v
    BY Entries
  <2> DEFINE n == IF m < cut THEN m ELSE m - 1
  <2>2. m # cut
    BY <1>4, <2>1
  <2>3. n \in 1 .. Len(r) /\ r[n] = q[m]
    BY <1>4, <1>5, <2>2
  <2> QED
    BY <2>1, <2>3
<1>8. ASSUME NEW m \in 1 .. Len(r), NEW n \in 1 .. Len(r), r[m] = r[n] PROVE m = n
  <2> DEFINE a == IF m < cut THEN m ELSE m + 1
             b == IF n < cut THEN n ELSE n + 1
  <2>1. a \in 1 .. Len(q) /\ r[m] = q[a] /\ b \in 1 .. Len(q) /\ r[n] = q[b]
    BY <1>4, <1>5
  <2>2. a = b
    <3> HIDE DEF a, b
    <3>1. \A k, l \in 1 .. Len(q) : q[k] = q[l] => k = l
      BY Entries
    <3> QED
      BY <1>8, <2>1, <3>1
  <2> QED
    BY <1>4, <2>2
<1>9. ListOf(r, S \ {w})
  BY <1>5, <1>6, <1>7, <1>8, FromEntries
<1>10. ASSUME q[Len(q)] # w PROVE r[Len(r)] = q[Len(q)]
  <2>1. cut # Len(q)
    BY <1>4, <1>10
  <2> QED
    BY <1>4, <1>5, <2>1
<1> QED
  BY <1>3, <1>5, <1>9, <1>10 DEF Last

(* MoveItemEnd keeps the windows of the list.                              *)
LEMMA MovedToEnd ==
  ASSUME NEW S, NEW q, ListOf(q, S), NEW w \in S
  PROVE  ListOf(MoveItemEnd(q, w), S) /\ Last(MoveItemEnd(q, w)) = w
<1> DEFINE r == RemoveFirst(q, w)
<1>1. ListOf(r, S \ {w})
  BY Removed
<1> HIDE DEF r
<1>2. w \in Windows /\ (S \ {w}) \cup {w} = S
  BY Entries
<1>3. ListOf(Append(r, w), S) /\ Last(Append(r, w)) = w
  BY <1>1, <1>2, Appended
<1> QED
  BY <1>3 DEF MoveItemEnd, r

(* A list of no windows is empty.                                          *)
LEMMA NoWindows ==
  ASSUME NEW S, NEW q, ListOf(q, S)
  PROVE  q = <<>> <=> S = {}
<1>1. CASE S = {}
  <2>1. Len(q) \in Nat /\ \A n \in 1 .. Len(q) : FALSE
    BY <1>1, Entries
  <2>2. Len(q) = 0
    BY <2>1
  <2> QED
    BY <1>1, <2>2, EmptySeq DEF ListOf
<1>2. CASE S # {}
  <2>1. PICK n \in 1 .. Len(q) : TRUE
    BY <1>2, Entries
  <2>2. Len(q) # 0
    BY <2>1, Entries
  <2> QED
    BY <1>2, <2>2, EmptySeq DEF ListOf
<1> QED
  BY <1>1, <1>2

-----------------------------------------------------------------------------
(* The invariant, in the three parts that actions change separately: the   *)
(* lists, where the main loop is, and the events.                          *)
Lists ==
  /\ ListOf(windows, Open) /\ ListOf(taskbar, Open)
  /\ fullscreen \subseteq Open /\ minimised \subseteq Open
  /\ focus \in Open \cup {Null} /\ dragging \in Open \cup {Null}
  /\ FocusOnTop

Loop ==
  /\ phase \in {"keys", "clicks", "updates"} /\ clicks \in 0 .. MaxClicks
  /\ spot \in [row : Rows, item : 0 .. Len(taskbar), zone : [Windows -> Zones]]
  /\ due \subseteq Open \cup {Desk} /\ (phase # "updates" => due = {})
  /\ exiting \in BOOLEAN /\ left \in BOOLEAN /\ late \in BOOLEAN
  /\ PointerStays

Events == events \in [Windows -> SUBSET {"quit", "input"}] /\ ToldInTime

Agreement == Lists /\ Loop /\ Events /\ LeavesEmpty

LEMMA InvParts == Inv /\ FocusOnTop <=> Agreement
BY DEF Inv, Agreement, Lists, Loop, Events, TypeOK, TaskbarComplete, DraggingIsOpen, ListOf, Open

LEMMA WindowNames ==
  /\ Null \notin Windows /\ Desk \notin Windows /\ MaxClicks \in Nat
  /\ Nowhere \in [row : Rows, item : {0}, zone : [Windows -> Zones]]
BY DesktopAssumption DEF Nowhere, Rows, Zones

(* As long as a window is open the desktop has not quit, and an empty      *)
(* desktop has nothing in its taskbar.                                     *)
LEMMA Empties ==
  ASSUME Agreement
  PROVE  /\ Open \subseteq Windows
         /\ left => Open = {}
         /\ Open = {} => windows = <<>> /\ taskbar = <<>> /\ focus = Null
BY NoWindows, Entries DEF Agreement, Lists, LeavesEmpty

LEMMA InitParts == Init => Agreement
<1> SUFFICES ASSUME Init PROVE Agreement
  OBVIOUS
<1>1. windows = <<>> /\ taskbar = <<>> /\ Open = {} /\ Len(taskbar) = 0
  BY DEF Init, Open, ToSet
<1>2. ListOf(<<>>, {})
  <2>1. <<>> \in Seq(Windows) /\ Len(<<>>) = 0
    BY EmptySeq
  <2> QED
    BY <2>1 DEF ListOf, ToSet, IsInjective
<1>3. Lists
  BY <1>1, <1>2 DEF Init, Lists, FocusOnTop
<1>4. Loop
  <2>1. spot \in [row : Rows, item : 0 .. Len(taskbar), zone : [Windows -> Zones]]
    BY <1>1, WindowNames DEF Init
  <2>2. clicks \in 0 .. MaxClicks
    BY WindowNames DEF Init
  <2> QED
    BY <2>1, <2>2 DEF Init, Loop, PointerStays
<1>5. Events
  BY DEF Init, Events, ToldInTime
<1> QED
  BY <1>1, <1>3, <1>4, <1>5 DEF Init, Agreement, LeavesEmpty

-----------------------------------------------------------------------------
(* What the actions share.                                                 *)

(* Nothing but the place in the loop or the events changes.                *)
LEMMA ListsKept ==
  ASSUME Agreement, UNCHANGED <<lists, minimised, focus>>, dragging' \in {dragging, Null}
  PROVE  Lists' /\ Open' = Open
BY DEF Agreement, Lists, lists, Open, FocusOnTop

(* allocateWindow puts a new window on top of the others.                  *)
LEMMA AllocatePreserves ==
  ASSUME Agreement, NEW w \in Windows, NEW full \in BOOLEAN, allocateWindow(w, full),
         UNCHANGED <<phase, spot, due, dragging>>, clicks' \in 0 .. MaxClicks,
         w \notin due, ~left
  PROVE  Agreement'
<1>1. w \notin Open /\ ListOf(windows, Open) /\ ListOf(taskbar, Open)
  BY DEF allocateWindow, Agreement, Lists
<1>2. /\ ListOf(windows', Open \cup {w}) /\ Last(windows') = w
      /\ ListOf(taskbar', Open \cup {w}) /\ Len(taskbar') = Len(taskbar) + 1
  BY <1>1, Appended DEF allocateWindow
<1>3. Open' = Open \cup {w}
  BY <1>2 DEF Open, ListOf
<1>4. Lists'
  BY <1>1, <1>2, <1>3 DEF allocateWindow, Agreement, Lists, FocusOnTop
<1>5. Loop'
  <2>1. Len(taskbar) \in Nat
    BY <1>1, Entries
  <2>2. spot' \in [row : Rows, item : 0 .. Len(taskbar'), zone : [Windows -> Zones]]
    BY <1>2, <2>1 DEF Agreement, Loop
  <2> QED
    BY <1>3, <2>2 DEF allocateWindow, Agreement, Loop, PointerStays, Nowhere
<1>6. Events'
  BY <1>3 DEF allocateWindow, Agreement, Events, ToldInTime
<1> QED
  BY <1>4, <1>5, <1>6 DEF allocateWindow, Agreement, LeavesEmpty

(* A window that is drawn last, or is not, and has the focus.              *)
LEMMA RaisePreserves ==
  ASSUME Agreement, NEW w \in Open, Raise(w), UNCHANGED <<taskbar, fullscreen>>,
         minimised' \subseteq minimised, w \notin minimised',
         dragging' \in {dragging, Null, w}
  PROVE  Lists' /\ Open' = Open
<1>1. ListOf(windows', Open) /\ Last(windows') = w
  BY MovedToEnd DEF Raise, Agreement, Lists
<1>2. Open' = Open
  BY <1>1 DEF Open, ListOf
<1> QED
  BY <1>1, <1>2 DEF Raise, Agreement, Lists, FocusOnTop

(* A click that leaves the lists' windows and the taskbar's length alone   *)
(* leaves what the loop keeps, if what is taken hold of is under the       *)
(* pointer.                                                                *)
LEMMA ClickKeepsLoop ==
  ASSUME Agreement, phase = "clicks", clicks < MaxClicks, clicks' = clicks + 1,
         UNCHANGED <<phase, spot, due, taskbar, left, late>>, exiting' \in BOOLEAN,
         Open' = Open,
         dragging' # Null => dragging' = dragging \/ spot.zone[dragging'] = "title"
  PROVE  Loop'
<1>1. clicks' \in 0 .. MaxClicks
  BY WindowNames DEF Agreement, Loop
<1> QED
  BY <1>1 DEF Agreement, Loop, PointerStays

-----------------------------------------------------------------------------
(* Keys, and the end of the movements.                                     *)
LEMMA KeyPressPreserves == Agreement /\ keyPress => Agreement'
<1> SUFFICES ASSUME Agreement, keyPress PROVE Agreement'
  OBVIOUS
<1>1. UNCHANGED <<phase, spot, clicks, due, windows, taskbar, fullscreen, minimised>>
  BY DEF keyPress, loopVars, lists
<1>2. UNCHANGED <<exiting, left, late>> /\ ~left /\ phase = "keys"
  BY DEF keyPress, exitVars
<1>3. Open' = Open
  BY <1>1 DEF Open
<1>4. CASE dragging' = Null /\ focus' = Null /\ events' = events
  <2>1. Lists'
    BY <1>1, <1>3, <1>4 DEF Agreement, Lists, FocusOnTop
  <2>2. Loop'
    BY <1>1, <1>2, <1>3, <1>4 DEF Agreement, Loop, PointerStays, Nowhere
  <2>3. Events'
    BY <1>1, <1>2, <1>3, <1>4 DEF Agreement, Events, ToldInTime
  <2> QED
    BY <1>2, <2>1, <2>2, <2>3 DEF Agreement, LeavesEmpty
<1>5. CASE /\ focus # Null /\ UNCHANGED <<focus, dragging>>
           /\ events' = [events EXCEPT ![focus] = @ \cup {"input"}]
  <2>1. Lists'
    BY <1>1, <1>3, <1>5 DEF Agreement, Lists, FocusOnTop
  <2>2. Loop'
    BY <1>1, <1>2, <1>3, <1>5 DEF Agreement, Loop, PointerStays, Nowhere
  <2>3. focus \in Open /\ focus \in Windows
    BY <1>5, Empties DEF Agreement, Lists
  <2>4. /\ events' \in [Windows -> SUBSET {"quit", "input"}]
        /\ \A w \in Windows : "quit" \in events'[w] => "quit" \in events[w]
        /\ \A w \in Windows : w # focus => events'[w] = events[w]
    BY <1>5, <2>3 DEF Agreement, Events
  <2>5. Events'
    BY <1>1, <1>2, <1>3, <1>5, <2>3, <2>4 DEF Agreement, Events, ToldInTime
  <2> QED
    BY <1>2, <2>1, <2>2, <2>5 DEF Agreement, LeavesEmpty
<1> QED
  BY <1>4, <1>5 DEF keyPress

LEMMA MovedPreserves == Agreement /\ Moved => Agreement'
<1> SUFFICES ASSUME Agreement, Moved PROVE Agreement'
  OBVIOUS
<1>1. /\ UNCHANGED <<clicks, due, windows, taskbar, fullscreen, minimised>>
      /\ UNCHANGED <<focus, dragging, events, exiting, left, late>>
      /\ phase = "keys" /\ phase' = "clicks" /\ spot' \in Spots
  BY DEF Moved, lists, exitVars
<1>2. Lists' /\ Open' = Open
  BY <1>1, ListsKept DEF lists
<1>3. /\ spot' \in [row : Rows, item : 0 .. Len(taskbar), zone : [Windows -> Zones]]
      /\ spot'.row = "item" => spot'.item # 0
      /\ spot'.row # "above" => \A w \in Windows : spot'.zone[w] = "outside"
      /\ dragging \in Open => spot'.zone[dragging] = "title"
  BY <1>1 DEF Spots
<1>4. Loop'
  BY <1>1, <1>2, <1>3 DEF Agreement, Lists, Loop, PointerStays
<1>5. Events'
  BY <1>1, <1>2 DEF Agreement, Events, ToldInTime
<1> QED
  BY <1>1, <1>2, <1>4, <1>5 DEF Agreement, LeavesEmpty

-----------------------------------------------------------------------------
(* Updates.                                                                *)

(* A window that was told to close is not dragged: the pointer is on its   *)
(* close button, or on the taskbar.                                        *)
LEMMA ClickedPreserves == Agreement /\ Clicked => Agreement'
<1> SUFFICES ASSUME Agreement, Clicked PROVE Agreement'
  OBVIOUS
<1>1. /\ UNCHANGED <<windows, taskbar, fullscreen, minimised, focus, dragging>>
      /\ UNCHANGED <<events, exiting, left, late>>
      /\ phase = "clicks" /\ phase' = "updates" /\ spot' = Nowhere /\ clicks' = 0
      /\ due' = Open \cup (IF left THEN {} ELSE {Desk})
  BY DEF Clicked, lists, exitVars
<1>2. Lists' /\ Open' = Open
  BY <1>1, ListsKept DEF lists
<1>3. Loop'
  <2>1. Len(taskbar) \in Nat
    BY Entries DEF Agreement, Lists
  <2>2. spot' \in [row : Rows, item : 0 .. Len(taskbar'), zone : [Windows -> Zones]]
    BY <1>1, <2>1, WindowNames
  <2>3. clicks' \in 0 .. MaxClicks
    BY <1>1, WindowNames
  <2> QED
    BY <1>1, <1>2, <2>2, <2>3 DEF Agreement, Loop, PointerStays
<1>4. ASSUME NEW w \in Windows, "quit" \in events'[w] PROVE w \in due' /\ dragging' # w
  <2>1. "quit" \in events[w] /\ w \in Open /\ (spot.row # "above" \/ spot.zone[w] = "close")
    BY <1>1, <1>4 DEF Agreement, Events, ToldInTime
  <2>2. spot.zone[w] # "title"
    BY <1>1, <2>1 DEF Agreement, Loop, PointerStays
  <2>3. dragging # w
    BY <1>1, <2>2, WindowNames DEF Agreement, Loop, PointerStays
  <2> QED
    BY <1>1, <2>1, <2>3
<1>5. Events'
  BY <1>1, <1>2, <1>4 DEF Agreement, Events, ToldInTime
<1> QED
  BY <1>1, <1>2, <1>3, <1>5 DEF Agreement, LeavesEmpty

LEMMA LaunchPreserves == Agreement /\ Launch => Agreement'
<1> SUFFICES ASSUME Agreement, Launch PROVE Agreement'
  OBVIOUS
<1>1. PICK w \in Windows \ due, full \in BOOLEAN : allocateWindow(w, full)
  BY DEF Launch
<1>2. UNCHANGED <<phase, spot, clicks, due, dragging>> /\ clicks' \in 0 .. MaxClicks
  BY DEF Launch, loopVars, Agreement, Loop
<1>3. ~left
  BY Empties, WindowNames DEF Launch, Agreement, Loop
<1> QED
  BY <1>1, <1>2, <1>3, AllocatePreserves

(* A program closes its window, which nobody drags, or keeps it.           *)
LEMMA UpdatePreserves ==
  ASSUME Agreement, NEW w \in Windows, Update(w)
  PROVE  Agreement'
<1>1. /\ phase = "updates" /\ w \in due /\ due' = due \ {w}
      /\ UNCHANGED <<phase, spot, clicks, exiting, left, late>>
  BY DEF Update, exitVars
<1>2. w \in Open /\ ~left
  BY <1>1, WindowNames, Empties DEF Agreement, Loop
<1>3. CASE "quit" \in events[w] /\ unallocateWindow(w)
  <2>1. dragging # w
    BY <1>1, <1>3 DEF Agreement, Events, ToldInTime
  <2>2. /\ ListOf(windows', Open \ {w})
        /\ Last(windows) # w => Last(windows') = Last(windows)
        /\ ListOf(taskbar', Open \ {w})
    BY <1>2, <1>3, Removed DEF unallocateWindow, Agreement, Lists
  <2>3. Open' = Open \ {w}
    BY <2>2 DEF Open, ListOf
  <2>4. /\ dragging' = dragging /\ focus' = IF focus = w THEN Null ELSE focus
        /\ fullscreen' = fullscreen \ {w} /\ minimised' = minimised \ {w}
        /\ events' = [events EXCEPT ![w] = {}]
    BY <1>3 DEF unallocateWindow
  <2>5. Lists'
    BY <2>1, <2>2, <2>3, <2>4 DEF Agreement, Lists, FocusOnTop
  <2>6. Loop'
    <3>1. Len(taskbar') \in Nat /\ spot' = Nowhere
      BY <1>1, <2>2, Entries DEF Agreement, Loop, PointerStays
    <3>2. spot' \in [row : Rows, item : 0 .. Len(taskbar'), zone : [Windows -> Zones]]
      BY <3>1, WindowNames
    <3> QED
      BY <1>1, <2>3, <3>1, <3>2 DEF Agreement, Loop, PointerStays
  <2>7. Events'
    BY <1>1, <2>3, <2>4 DEF Agreement, Events, ToldInTime
  <2> QED
    BY <1>1, <1>2, <2>5, <2>6, <2>7 DEF Agreement, LeavesEmpty
<1>4. CASE /\ "quit" \notin events[w] /\ events' = [events EXCEPT ![w] = {}]
           /\ UNCHANGED <<lists, minimised, focus, dragging>>
  <2>1. Lists' /\ Open' = Open /\ taskbar' = taskbar /\ dragging' = dragging
    BY <1>4, ListsKept DEF lists
  <2>2. Loop'
    BY <1>1, <1>2, <2>1, WindowNames DEF Agreement, Loop, PointerStays
  <2>3. Events'
    BY <1>1, <1>4, <2>1 DEF Agreement, Events, ToldInTime
  <2> QED
    BY <1>1, <1>2, <2>1, <2>2, <2>3 DEF Agreement, LeavesEmpty
<1> QED
  BY <1>3, <1>4 DEF Update, TakeEvents

LEMMA DesktopUpdatePreserves == Agreement /\ DesktopUpdate => Agreement'
<1> SUFFICES ASSUME Agreement, DesktopUpdate PROVE Agreement'
  OBVIOUS
<1>1. /\ phase = "updates" /\ due' = due \ {Desk}
      /\ left' = (exiting /\ windows = <<>>)
      /\ UNCHANGED <<phase, spot, clicks, windows, taskbar, fullscreen, minimised>>
      /\ UNCHANGED <<focus, dragging, events, exiting, late>>
  BY DEF DesktopUpdate, Leave, lists
<1>2. Lists' /\ Open' = Open
  BY <1>1, ListsKept DEF lists
<1>3. Loop'
  BY <1>1, <1>2 DEF Agreement, Loop, PointerStays
<1>4. Events'
  BY <1>1, <1>2, WindowNames DEF Agreement, Events, ToldInTime
<1>5. LeavesEmpty'
  <2>1. windows = <<>> => Open = {}
    BY DEF Open, ToSet
  <2> QED
    BY <1>1, <2>1, Empties DEF LeavesEmpty
<1> QED
  BY <1>2, <1>3, <1>4, <1>5 DEF Agreement

LEMMA UpdatedPreserves == Agreement /\ Updated => Agreement'
<1> SUFFICES ASSUME Agreement, Updated PROVE Agreement'
  OBVIOUS
<1>1. /\ phase = "updates" /\ due = {} /\ phase' = "keys"
      /\ UNCHANGED <<spot, clicks, due, windows, taskbar, fullscreen, minimised>>
      /\ UNCHANGED <<focus, dragging, events, exiting, left, late>>
  BY DEF Updated, lists, exitVars
<1>2. Lists' /\ Open' = Open
  BY <1>1, ListsKept DEF lists
<1>3. Loop'
  BY <1>1, <1>2 DEF Agreement, Loop, PointerStays
<1>4. Events'
  BY <1>1, <1>2 DEF Agreement, Events, ToldInTime
<1> QED
  BY <1>1, <1>2, <1>3, <1>4 DEF Agreement, LeavesEmpty

-----------------------------------------------------------------------------
(* Clicks. Those on the taskbar find no window under the pointer.          *)
Clicking == phase = "clicks" /\ ~left /\ clicks < MaxClicks /\ clicks' = clicks + 1
            /\ UNCHANGED <<phase, spot, due>>

(* The events of a click: new ones go to windows that are open, and a      *)
(* window is told to close from the taskbar or by its close button.        *)
LEMMA ClickKeepsEvents ==
  ASSUME Agreement, Clicking, Open' = Open,
         events' \in [Windows -> SUBSET {"quit", "input"}],
         \A w \in Windows \ Open : events'[w] = events[w],
         \A w \in Windows : "quit" \in events'[w] =>
           "quit" \in events[w] \/ spot.row # "above" \/ spot.zone[w] = "close"
  PROVE  Events'
BY DEF Agreement, Events, ToldInTime, Clicking

(* A click after which the windows are the same.                           *)
LEMMA ClickPreserves ==
  ASSUME Agreement, Clicking, Lists', Open' = Open, Events',
         UNCHANGED <<taskbar, left, late>>, exiting' \in BOOLEAN,
         dragging' # Null => dragging' = dragging \/ spot.zone[dragging'] = "title"
  PROVE  Agreement'
<1>1. Loop'
  BY ClickKeepsLoop DEF Clicking
<1> QED
  BY <1>1 DEF Agreement, LeavesEmpty, Clicking

LEMMA QuitSent ==
  ASSUME Agreement, Clicking, NEW w \in Open, SendQuit(w), Open' = Open,
         spot.row # "above" \/ spot.zone[w] = "close"
  PROVE  Events'
<1>1. w \in Windows
  BY Empties
<1>2. /\ events' \in [Windows -> SUBSET {"quit", "input"}]
      /\ \A v \in Windows : v # w => events'[v] = events[v]
  BY <1>1 DEF SendQuit, Agreement, Events
<1> QED
  BY <1>2, ClickKeepsEvents

LEMMA TaskbarPressPreserves ==
  ASSUME Agreement, Clicking, NEW w \in Open, NEW isLeft \in BOOLEAN,
         spot.row = "item", TaskbarPress(w, isLeft)
  PROVE  Agreement'
<1>1. UNCHANGED <<taskbar, fullscreen, dragging, exiting, left, late>>
  BY DEF TaskbarPress, exitVars
<1>2. exiting' \in BOOLEAN
  BY <1>1 DEF Agreement, Loop
<1>3. CASE SendQuit(w) /\ UNCHANGED <<windows, minimised, focus>>
  <2>1. Lists' /\ Open' = Open
    BY <1>1, <1>3, ListsKept DEF lists
  <2> QED
    BY <1>1, <1>2, <1>3, <2>1, QuitSent, ClickPreserves
<1>4. CASE focus' = Null /\ minimised' = minimised \cup {w} /\ UNCHANGED <<windows, events>>
  <2>1. Open' = Open
    BY <1>4 DEF Open
  <2>2. Lists'
    BY <1>1, <1>4, <2>1 DEF Agreement, Lists, FocusOnTop
  <2>3. Events'
    BY <1>4, <2>1, ClickKeepsEvents DEF Agreement, Events
  <2> QED
    BY <1>1, <1>2, <2>1, <2>2, <2>3, ClickPreserves
<1>5. CASE minimised' = minimised \ {w} /\ Raise(w) /\ UNCHANGED events
  <2>1. Lists' /\ Open' = Open
    BY <1>1, <1>5, RaisePreserves
  <2>2. Events'
    BY <1>5, <2>1, ClickKeepsEvents DEF Agreement, Events
  <2> QED
    BY <1>1, <1>2, <2>1, <2>2, ClickPreserves
<1> QED
  BY <1>3, <1>4, <1>5 DEF TaskbarPress

LEMMA ExitPressPreserves ==
  ASSUME Agreement, Clicking, spot.row = "exit", ExitPress
  PROVE  Agreement'
<1>1. /\ UNCHANGED <<lists, minimised, focus, dragging, left, late>> /\ exiting' = TRUE
      /\ events' = [w \in Windows |->
                      IF w \in Open THEN events[w] \cup {"quit"} ELSE events[w]]
  BY DEF ExitPress
<1>2. Lists' /\ Open' = Open
  BY <1>1, ListsKept
<1>3. Events'
  <2>1. events' \in [Windows -> SUBSET {"quit", "input"}]
    BY <1>1 DEF Agreement, Events
  <2> QED
    BY <1>1, <1>2, <2>1, ClickKeepsEvents
<1> QED
  BY <1>1, <1>2, <1>3, ClickPreserves DEF lists

LEMMA StripClickPreserves ==
  ASSUME Agreement, Clicking, NEW isLeft \in BOOLEAN, NEW pressed \in BOOLEAN,
         StripClick(isLeft, pressed)
  PROVE  Agreement'
<1>1. CASE spot.row = "item" /\ TaskbarPress(taskbar[spot.item], isLeft)
  <2>1. spot.item \in 1 .. Len(taskbar)
    <3>1. spot.item \in 0 .. Len(taskbar) /\ spot.item # 0 /\ Len(taskbar) \in Nat
      BY <1>1, Entries DEF Agreement, Loop, Lists, PointerStays, Clicking
    <3> QED
      BY <3>1
  <2>2. taskbar[spot.item] \in Open
    BY <2>1, Entries DEF Agreement, Lists
  <2> QED
    BY <1>1, <2>2, TaskbarPressPreserves
<1>2. CASE spot.row = "exit" /\ ExitPress
  BY <1>2, ExitPressPreserves
<1>3. CASE ProgramPress
  <2>1. PICK w \in Windows, full \in BOOLEAN : allocateWindow(w, full) /\ UNCHANGED dragging
    BY <1>3 DEF ProgramPress
  <2>2. due = {} /\ clicks' \in 0 .. MaxClicks
    BY WindowNames DEF Clicking, Agreement, Loop
  <2> QED
    BY <2>1, <2>2, AllocatePreserves DEF Clicking
<1>4. CASE Kept /\ dragging' = Held(isLeft, pressed)
  <2>1. /\ UNCHANGED <<lists, minimised, focus, events, taskbar, exiting, left, late>>
        /\ dragging' \in {dragging, Null}
    BY <1>4 DEF Kept, Held, exitVars, lists
  <2>2. Lists' /\ Open' = Open
    BY <2>1, ListsKept
  <2>3. Events' /\ exiting' \in BOOLEAN
    BY <2>1, <2>2, ClickKeepsEvents DEF Agreement, Events, Loop
  <2> QED
    BY <2>1, <2>2, <2>3, ClickPreserves
<1> QED
  BY <1>1, <1>2, <1>3, <1>4 DEF StripClick

(* Clicks on a window: the inside, the buttons, the title.                 *)
LEMMA WindowClickPreserves ==
  ASSUME Agreement, Clicking, NEW w \in Open, NEW isLeft \in BOOLEAN, NEW pressed \in BOOLEAN,
         WindowClick(w, isLeft, pressed)
  PROVE  Agreement'
<1>1. UNCHANGED <<taskbar, fullscreen, exiting, left, late>> /\ exiting' \in BOOLEAN
  BY DEF WindowClick, exitVars, Agreement, Loop
<1>2. w \notin minimised /\ w \in Windows
  BY Empties DEF WindowClick, Hit, Takes
<1>3. CASE ContentClick(w, isLeft, pressed)
  <2>1. minimised' = minimised /\ dragging' \in {dragging, Null}
    BY <1>3 DEF ContentClick, Held
  <2>2. CASE /\ events' = [events EXCEPT ![w] = @ \cup {"input"}]
             /\ UNCHANGED <<windows, focus>>
    <3>1. Lists' /\ Open' = Open
      BY <1>1, <2>1, <2>2, ListsKept DEF lists
    <3>2. /\ events' \in [Windows -> SUBSET {"quit", "input"}]
          /\ \A v \in Windows : v # w => events'[v] = events[v]
          /\ "quit" \in events'[w] => "quit" \in events[w]
      BY <1>2, <2>2 DEF Agreement, Events
    <3>3. Events'
      BY <3>1, <3>2, ClickKeepsEvents
    <3> QED
      BY <1>1, <2>1, <3>1, <3>3, ClickPreserves
  <2>3. CASE Raise(w) /\ UNCHANGED events
    <3>1. Lists' /\ Open' = Open
      BY <1>1, <1>2, <2>1, <2>3, RaisePreserves
    <3>2. Events'
      BY <2>3, <3>1, ClickKeepsEvents DEF Agreement, Events
    <3> QED
      BY <1>1, <2>1, <3>1, <3>2, ClickPreserves
  <2>4. CASE UNCHANGED <<windows, focus, events>>
    <3>1. Lists' /\ Open' = Open
      BY <1>1, <2>1, <2>4, ListsKept DEF lists
    <3>2. Events'
      BY <2>4, <3>1, ClickKeepsEvents DEF Agreement, Events
    <3> QED
      BY <1>1, <2>1, <3>1, <3>2, ClickPreserves
  <2> QED
    BY <1>3, <2>2, <2>3, <2>4 DEF ContentClick
<1>4. CASE spot.zone[w] = "close" /\ ClosePress(w)
  <2>1. SendQuit(w) /\ UNCHANGED <<windows, minimised, focus, dragging>>
    BY <1>4 DEF ClosePress
  <2>2. Lists' /\ Open' = Open
    BY <1>1, <2>1, ListsKept DEF lists
  <2> QED
    BY <1>1, <1>4, <2>1, <2>2, QuitSent, ClickPreserves
<1>5. CASE MinimisePress(w)
  <2>1. /\ minimised' = minimised \cup {w} /\ focus' = IF focus = w THEN Null ELSE focus
        /\ UNCHANGED <<windows, events, dragging>>
    BY <1>5 DEF MinimisePress
  <2>2. Open' = Open
    BY <2>1 DEF Open
  <2>3. Lists'
    BY <1>1, <2>1, <2>2 DEF Agreement, Lists, FocusOnTop
  <2>4. Events'
    BY <2>1, <2>2, ClickKeepsEvents DEF Agreement, Events
  <2> QED
    BY <1>1, <2>1, <2>2, <2>3, <2>4, ClickPreserves
<1>6. CASE spot.zone[w] = "title" /\ TitlePress(w)
  <2>1. dragging' = w /\ UNCHANGED <<minimised, events>>
    BY <1>6 DEF TitlePress
  <2>2. Lists' /\ Open' = Open
    <3>1. CASE Raise(w)
      BY <1>1, <1>2, <2>1, <3>1, RaisePreserves
    <3>2. CASE UNCHANGED <<windows, focus>>
      <4>1. Open' = Open
        BY <3>2 DEF Open
      <4> QED
        BY <1>1, <2>1, <3>2, <4>1 DEF Agreement, Lists, FocusOnTop
    <3> QED
      BY <1>6, <3>1, <3>2 DEF TitlePress
  <2>3. Events'
    BY <2>1, <2>2, ClickKeepsEvents DEF Agreement, Events
  <2> QED
    BY <1>1, <1>6, <2>1, <2>2, <2>3, ClickPreserves
<1> QED
  BY <1>3, <1>4, <1>5, <1>6 DEF WindowClick

LEMMA MouseClickPreserves ==
  ASSUME Agreement, NEW isLeft \in BOOLEAN, NEW pressed \in BOOLEAN, mouseClick(isLeft, pressed)
  PROVE  Agreement'
<1>1. Clicking
  BY DEF mouseClick, Clicking
<1>2. CASE StripClick(isLeft, pressed)
  BY <1>1, <1>2, StripClickPreserves
<1>3. CASE \E w \in Open : WindowClick(w, isLeft, pressed)
  BY <1>1, <1>3, WindowClickPreserves
<1>4. CASE Kept /\ dragging' = Held(isLeft, pressed)
  <2>1. /\ UNCHANGED <<lists, minimised, focus, events, taskbar, exiting, left, late>>
        /\ dragging' \in {dragging, Null}
    BY <1>4 DEF Kept, Held, exitVars, lists
  <2>2. Lists' /\ Open' = Open
    BY <2>1, ListsKept
  <2>3. Events' /\ exiting' \in BOOLEAN
    BY <1>1, <2>1, <2>2, ClickKeepsEvents DEF Agreement, Events, Loop
  <2> QED
    BY <1>1, <2>1, <2>2, <2>3, ClickPreserves
<1> QED
  BY <1>2, <1>3, <1>4 DEF mouseClick

-----------------------------------------------------------------------------
LEMMA NextParts == Agreement /\ [Next]_vars => Agreement'
<1> SUFFICES ASSUME Agreement, [Next]_vars PROVE Agreement'
  OBVIOUS
<1>1. CASE keyPress
  BY <1>1, KeyPressPreserves
<1>2. CASE Launch
  BY <1>2, LaunchPreserves
<1>3. CASE Pass
  BY <1>3, MovedPreserves, ClickedPreserves, UpdatePreserves, DesktopUpdatePreserves,
     UpdatedPreserves
  DEF Pass
<1>4. CASE \E isLeft, pressed \in BOOLEAN : mouseClick(isLeft, pressed)
  BY <1>4, MouseClickPreserves
<1>5. CASE UNCHANGED vars
  <2>1. /\ UNCHANGED <<phase, spot, clicks, due, lists, windows, taskbar, minimised, focus>>
        /\ UNCHANGED <<dragging, events, exiting, left, late>>
    BY <1>5 DEF vars, loopVars, lists, exitVars
  <2>2. Lists' /\ Open' = Open
    BY <2>1, ListsKept
  <2>3. Loop' /\ Events' /\ LeavesEmpty'
    BY <2>1, <2>2 DEF Agreement, Loop, PointerStays, Events, ToldInTime, LeavesEmpty
  <2> QED
    BY <2>2, <2>3 DEF Agreement
<1> QED
  BY <1>1, <1>2, <1>3, <1>4, <1>5 DEF Next

LEMMA AlwaysParts == Spec => []Agreement
BY InitParts, NextParts, PTL DEF Spec

(* The windows listed, shown in the taskbar and dragged are those there    *)
(* are, and none is left when the desktop quits.                           *)
THEOREM DesktopInv == Spec => []Inv
BY AlwaysParts, InvParts, PTL

(* Keys go to the window that is drawn last, which is not hidden.          *)
THEOREM DesktopFocusOnTop == Spec => []FocusOnTop
BY AlwaysParts, InvParts, PTL

(* A window that has been told to close has closed before the next pass.   *)
THEOREM DesktopQuitAnswered == Spec => QuitAnswered
<1>1. Agreement /\ [Next]_vars =>
        [phase = "updates" /\ phase' = "keys" => \A w \in Windows : "quit" \notin events[w]]_vars
  <2> SUFFICES ASSUME Agreement, Next, phase = "updates", phase' = "keys", NEW w \in Windows
               PROVE  "quit" \notin events[w]
    OBVIOUS
  <2>1. due = {}
    BY DEF Next, keyPress, Launch, Pass, Moved, Clicked, Update, DesktopUpdate, Updated,
           mouseClick, loopVars
  <2> QED
    BY <2>1 DEF Agreement, Events, ToldInTime
<1> QED
  BY <1>1, AlwaysParts, PTL DEF Spec, QuitAnswered
-----------------------------------------------------------------------------
(* The shares that a task's cores have of n words or columns.              *)

(* What is assumed of a copy and of its cores.                             *)
LEMMA CoresAssumed == Words \in Nat /\ Cores \in Nat \ {0}
BY ProgramsAssumption DEF Blit!CoreBlitAssumption

(* Multiplication keeps an order.                                          *)
LEMMA Times ==
  ASSUME NEW a \in Nat, NEW b \in Nat, NEW k \in Nat, a <= b
  PROVE  k * a \in Nat /\ k * b \in Nat /\ k * a <= k * b
<1>1. PICK e \in Nat : b = a + e
  <2>1. b - a \in Nat /\ b = a + (b - a)
    OBVIOUS
  <2> QED
    BY <2>1
<1>2. k * b = k * a + k * e /\ k * e \in Nat /\ k * a \in Nat
  BY <1>1
<1> QED
  BY <1>1, <1>2

(* What the division among the cores leaves.                               *)
LEMMA Quotient ==
  ASSUME NEW n \in Nat
  PROVE  /\ n \div Cores \in Nat
         /\ (n \div Cores) * Cores \in Nat
         /\ (n \div Cores) * Cores <= n
         /\ n - (n \div Cores) * Cores < Cores
<1>1. Cores \in Nat /\ Cores > 0
  BY CoresAssumed
<1>2. \A a, b \in Nat : b > 0 =>
        /\ a \div b \in Nat
        /\ a = b * (a \div b) + (a % b)
        /\ 0 <= a % b /\ a % b < b
  OBVIOUS
<1>3. /\ n \div Cores \in Nat /\ n = Cores * (n \div Cores) + (n % Cores)
      /\ 0 <= n % Cores /\ n % Cores < Cores
  BY <1>1, <1>2
<1> DEFINE q == n \div Cores
<1> HIDE DEF q
<1>4. q \in Nat /\ n = Cores * q + (n % Cores) /\ 0 <= n % Cores /\ n % Cores < Cores
  BY <1>3 DEF q
<1>5. Cores * q = q * Cores /\ q * Cores \in Nat
  BY <1>1, <1>4
<1>6. q \in Nat /\ q * Cores \in Nat /\ q * Cores <= n /\ n - q * Cores < Cores
  BY <1>1, <1>4, <1>5
<1> QED
  BY <1>6 DEF q

(* A core's share lies within all of them.                                 *)
LEMMA ShareWithin ==
  ASSUME NEW s \in Nat, NEW id \in Blit!Ids
  PROVE  s * id \in Nat /\ s * id + s <= s * Cores /\ s * Cores \in Nat
<1>1. id \in Nat /\ id + 1 \in Nat /\ Cores \in Nat /\ id + 1 <= Cores
  BY CoresAssumed DEF Blit!Ids
<1>2. s * (id + 1) <= s * Cores /\ s * Cores \in Nat
  BY <1>1, Times
<1>3. s * (id + 1) = s * id + s /\ s * id \in Nat
  BY <1>1
<1> QED
  BY <1>2, <1>3

(* And ends where, or before, that of a later core begins.                 *)
LEMMA SharesApart ==
  ASSUME NEW s \in Nat, NEW c \in Blit!Ids, NEW d \in Blit!Ids, c < d
  PROVE  s * c + s <= s * d
<1>1. c \in Nat /\ d \in Nat /\ c + 1 \in Nat /\ c + 1 <= d
  BY CoresAssumed DEF Blit!Ids
<1>2. s * (c + 1) <= s * d
  BY <1>1, Times
<1>3. s * (c + 1) = s * c + s
  BY <1>1
<1> QED
  BY <1>2, <1>3

(* Everything below the rest is in some core's share.                      *)
LEMMA ShareOf ==
  ASSUME NEW s \in Nat, NEW w \in Nat, w < s * Cores
  PROVE  \E id \in Blit!Ids : s * id <= w /\ w < s * id + s
<1>1. Cores \in Nat
  BY CoresAssumed
<1>2. s > 0
  <2> SUFFICES ASSUME s = 0 PROVE FALSE
    OBVIOUS
  <2>1. s * Cores = 0
    BY <1>1
  <2> QED
    BY <2>1
<1> DEFINE id == w \div s
<1>3. \A n, m \in Nat : m > 0 =>
        /\ n \div m \in Nat
        /\ n = m * (n \div m) + (n % m)
        /\ 0 <= n % m /\ n % m < m /\ n % m \in Int
  OBVIOUS
<1>4. /\ id \in Nat /\ w = s * id + (w % s)
      /\ 0 <= w % s /\ w % s < s /\ w % s \in Int
  BY <1>1, <1>2, <1>3
<1> HIDE DEF id
<1>5. s * id \in Nat /\ s * id <= w /\ w < s * id + s
  BY <1>1, <1>4
<1>6. id < Cores
  <2> SUFFICES ASSUME Cores <= id PROVE FALSE
    BY <1>1, <1>4
  <2>1. s * Cores <= s * id /\ s * Cores \in Nat
    BY <1>1, <1>4, Times
  <2> QED
    BY <1>1, <1>5, <2>1
<1>7. id \in Blit!Ids
  BY <1>1, <1>4, <1>6 DEF Blit!Ids
<1> QED
  BY <1>5, <1>7

-----------------------------------------------------------------------------
(* CoreBlit.                                                               *)
LEMMA Division ==
  /\ Blit!blitSize \in Nat
  /\ Blit!blitSize * Cores \in Nat
  /\ Blit!blitSize * Cores <= Words
  /\ Words - Blit!blitSize * Cores < Cores
BY Quotient, CoresAssumed DEF Blit!blitSize

LEMMA Within ==
  ASSUME NEW id \in Blit!Ids
  PROVE  /\ Blit!blitSize * id \in Nat
         /\ Blit!blitSize * id + Blit!blitSize <= Blit!blitSize * Cores
BY ShareWithin, Division

LEMMA Apart ==
  ASSUME NEW c \in Blit!Ids, NEW d \in Blit!Ids, c < d
  PROVE  Blit!blitSize * c + Blit!blitSize <= Blit!blitSize * d
BY SharesApart, Division

LEMMA Covered ==
  ASSUME NEW w \in Nat, w < Blit!blitSize * Cores
  PROVE  \E id \in Blit!Ids : Blit!blitSize * id <= w /\ w < Blit!blitSize * id + Blit!blitSize
BY ShareOf, Division

(* Exactly what the cores have come past has been copied.                  *)
Exact ==
  \A w \in 0 .. Words - 1 :
    copied[w] <=> \E id \in Blit!Ids : Blit!blitSize * id <= w /\ w < Blit!blitSize * id + copying[id]

BlitInv ==
  /\ copying \in [Blit!Ids -> 0 .. Blit!blitSize]
  /\ copied \in [0 .. Words - 1 -> BOOLEAN]
  /\ Exact

LEMMA BlitInitInv == Blit!Init => BlitInv
<1> SUFFICES ASSUME Blit!Init PROVE BlitInv
  OBVIOUS
<1>1. copying = [id \in Blit!Ids |-> 0] /\ copied = [w \in 0 .. Words - 1 |-> FALSE]
  BY DEF Blit!Init
<1>2. copying \in [Blit!Ids -> 0 .. Blit!blitSize] /\ copied \in [0 .. Words - 1 -> BOOLEAN]
  BY <1>1, Division
<1>3. \A id \in Blit!Ids : Blit!blitSize * id \in Nat
  BY Within
<1>4. Exact
  BY <1>1, <1>3, CoresAssumed DEF Exact
<1> QED
  BY <1>2, <1>4 DEF BlitInv

LEMMA BlitNextInv == BlitInv /\ [Blit!Next]_(Blit!vars) => BlitInv'
<1> SUFFICES ASSUME BlitInv, [Blit!Next]_(Blit!vars) PROVE BlitInv'
  OBVIOUS
<1>1. CASE Blit!Again
  <2>1. copying' = [id \in Blit!Ids |-> 0] /\ copied' = [w \in 0 .. Words - 1 |-> FALSE]
    BY <1>1 DEF Blit!Again
  <2>2. copying' \in [Blit!Ids -> 0 .. Blit!blitSize] /\ copied' \in [0 .. Words - 1 -> BOOLEAN]
    BY <2>1, Division
  <2>3. \A id \in Blit!Ids : Blit!blitSize * id \in Nat
    BY Within
  <2>4. Exact'
    BY <2>1, <2>3, CoresAssumed DEF Exact
  <2> QED
    BY <2>2, <2>4 DEF BlitInv
<1>2. ASSUME NEW c \in Blit!Ids, Blit!coreBlit(c) PROVE BlitInv'
  <2> DEFINE here == Blit!blitSize * c + copying[c]
  <2>1. /\ copying[c] \in 0 .. Blit!blitSize /\ copying[c] < Blit!blitSize /\ Blit!blitSize \in Nat
        /\ copying' = [copying EXCEPT ![c] = copying[c] + 1]
        /\ copying'[c] = copying[c] + 1
        /\ \A d \in Blit!Ids : d # c => copying'[d] = copying[d]
    BY <1>2, Division DEF Blit!coreBlit, BlitInv
  <2>2. /\ Blit!blitSize * c \in Nat
        /\ Blit!blitSize * c + Blit!blitSize <= Blit!blitSize * Cores
        /\ Blit!blitSize * Cores <= Words
        /\ Blit!blitSize * Cores \in Nat
    BY Within, Division
  <2>3. here \in 0 .. Words - 1 /\ Blit!Word(c, copying[c]) = here
    BY <2>1, <2>2, CoresAssumed DEF Blit!Word
  <2>4. /\ copied' = [copied EXCEPT ![here] = TRUE]
        /\ copied' \in [0 .. Words - 1 -> BOOLEAN]
    BY <1>2, <2>3 DEF Blit!coreBlit, BlitInv
  <2>5. copying' \in [Blit!Ids -> 0 .. Blit!blitSize]
    BY <2>1 DEF BlitInv
  <2>6. ASSUME NEW w \in 0 .. Words - 1
        PROVE  copied'[w] <=> \E id \in Blit!Ids : Blit!blitSize * id <= w /\ w < Blit!blitSize * id + copying'[id]
    <3>1. CASE w = here
      <4>1. copied'[w] = TRUE
        BY <2>3, <2>4, <3>1 DEF BlitInv
      <4>2. Blit!blitSize * c <= w /\ w < Blit!blitSize * c + copying'[c]
        BY <2>1, <2>2, <3>1
      <4> QED
        BY <4>1, <4>2
    <3>2. CASE w # here
      <4>1. copied'[w] = copied[w]
        BY <2>4, <3>2 DEF BlitInv
      <4>2. \A id \in Blit!Ids :
              (Blit!blitSize * id <= w /\ w < Blit!blitSize * id + copying'[id])
                <=> (Blit!blitSize * id <= w /\ w < Blit!blitSize * id + copying[id])
        <5> SUFFICES ASSUME NEW id \in Blit!Ids
                     PROVE  (w < Blit!blitSize * id + copying'[id]) <=> (w < Blit!blitSize * id + copying[id])
          OBVIOUS
        <5>1. CASE id = c
          <6>1. w \in Int
            OBVIOUS
          <6> HIDE DEF here
          <6>2. w # here /\ here = Blit!blitSize * c + copying[c]
            BY <3>2 DEF here
          <6> QED
            BY <2>1, <2>2, <5>1, <6>1, <6>2
        <5>2. CASE id # c
          BY <2>1, <5>2
        <5> QED
          BY <5>1, <5>2
      <4> QED
        BY <4>1, <4>2 DEF BlitInv, Exact
    <3> QED
      BY <3>1, <3>2
  <2>7. Exact'
    BY <2>6 DEF Exact
  <2> QED
    BY <2>4, <2>5, <2>7 DEF BlitInv
<1>3. CASE UNCHANGED Blit!vars
  BY <1>3 DEF Blit!vars, BlitInv, Exact
<1> QED
  BY <1>1, <1>2, <1>3 DEF Blit!Next

LEMMA BlitInvTypeOK == BlitInv => Blit!TypeOK
<1> SUFFICES ASSUME BlitInv, NEW id \in Blit!Ids, copying[id] < Blit!blitSize
             PROVE  Blit!Word(id, copying[id]) \in 0 .. Words - 1
  BY DEF BlitInv, Blit!TypeOK
<1>1. /\ copying[id] \in 0 .. Blit!blitSize /\ Blit!blitSize \in Nat
      /\ Blit!blitSize * id \in Nat /\ Blit!blitSize * id + Blit!blitSize <= Blit!blitSize * Cores
      /\ Blit!blitSize * Cores <= Words /\ Blit!blitSize * Cores \in Nat
  BY Within, Division DEF BlitInv
<1> QED
  BY <1>1, CoresAssumed DEF Blit!Word

LEMMA BlitInvOwnWords == BlitInv => Blit!OwnWords
<1>1. ASSUME BlitInv, NEW c \in Blit!Ids, NEW d \in Blit!Ids, c < d,
             copying[c] < Blit!blitSize, copying[d] < Blit!blitSize
      PROVE  Blit!Word(c, copying[c]) # Blit!Word(d, copying[d])
  <2>1. /\ copying[c] \in 0 .. Blit!blitSize /\ copying[d] \in 0 .. Blit!blitSize /\ Blit!blitSize \in Nat
        /\ Blit!blitSize * c \in Nat /\ Blit!blitSize * d \in Nat
        /\ Blit!blitSize * c + Blit!blitSize <= Blit!blitSize * d
    BY <1>1, Within, Division, Apart DEF BlitInv
  <2> QED
    BY <1>1, <2>1 DEF Blit!Word
<1>2. \A c, d \in Blit!Ids : c # d => c < d \/ d < c
  BY CoresAssumed DEF Blit!Ids
<1> QED
  BY <1>1, <1>2 DEF Blit!OwnWords

LEMMA BlitInvSharesCopied == BlitInv => Blit!SharesCopied
<1> SUFFICES ASSUME BlitInv, Blit!Finished, NEW w \in 0 .. Words - 1
             PROVE  copied[w] <=> w < Blit!blitSize * Cores
  BY Division DEF Blit!SharesCopied
<1>1. copied[w] <=> \E id \in Blit!Ids : Blit!blitSize * id <= w /\ w < Blit!blitSize * id + Blit!blitSize
  BY DEF BlitInv, Exact, Blit!Finished
<1>2. (\E id \in Blit!Ids : Blit!blitSize * id <= w /\ w < Blit!blitSize * id + Blit!blitSize)
        => w < Blit!blitSize * Cores
  <2> SUFFICES ASSUME NEW id \in Blit!Ids, w < Blit!blitSize * id + Blit!blitSize
               PROVE  w < Blit!blitSize * Cores
    OBVIOUS
  <2> QED
    BY Within, Division, CoresAssumed
<1>3. w < Blit!blitSize * Cores
        => \E id \in Blit!Ids : Blit!blitSize * id <= w /\ w < Blit!blitSize * id + Blit!blitSize
  BY Covered, CoresAssumed
<1> QED
  BY <1>1, <1>2, <1>3

-----------------------------------------------------------------------------
(* The invariant holds in every state of a copy.                           *)
LEMMA BlitHolds == AllSpec => [](part = "blit" => BlitInv)
<1> DEFINE BlitPart == part = "blit" => BlitInv
<1>1. AllInit => BlitPart
  BY BlitInitInv DEF AllInit
<1>2. BlitPart /\ [AllNext]_allVars => BlitPart'
  <2> SUFFICES ASSUME part' = "blit", BlitInv, [Blit!Next]_(Blit!vars)
               PROVE  BlitInv'
    BY DEF AllNext, allVars, blitVars, Blit!vars
  <2> QED
    BY BlitNextInv
<1> HIDE DEF BlitPart
<1>3. AllSpec => []BlitPart
  BY <1>1, <1>2, PTL DEF AllSpec
<1> QED
  BY <1>3 DEF BlitPart

(* No core leaves the screen and no word is written by two cores, at       *)
(* whatever speeds they run and whatever their number.                     *)
THEOREM WordsWrittenOnce == AllSpec => [](part = "blit" => Blit!TypeOK /\ Blit!OwnWords)
<1>1. (part = "blit" => BlitInv) => (part = "blit" => Blit!TypeOK /\ Blit!OwnWords)
  BY BlitInvTypeOK, BlitInvOwnWords
<1> QED
  BY <1>1, BlitHolds, PTL

(* When the task is done all shares are copied, and what is left over is   *)
(* less than one word for each core.                                       *)
THEOREM ScreenCopied == AllSpec => []SharesCopied
<1>1. (part = "blit" => BlitInv) => SharesCopied
  BY BlitInvSharesCopied DEF SharesCopied
<1> QED
  BY <1>1, BlitHolds, PTL

-----------------------------------------------------------------------------
(* Pointer.                                                                *)

LEMMA PointerAssumed ==
  /\ Screen \in [Point!Axes -> Nat \ {0}]
  /\ Size \in [Frames -> [Point!Axes -> Nat]]
  /\ Steps \subseteq Int
  /\ None \notin Frames
  /\ \A w \in Frames, a \in Point!Axes : Size[w][a] + Point!Reserve(a) <= Screen[a]
BY ProgramsAssumption DEF Point!PointerAssumption, Point!WindowsFit

(* The number that both kinds of movement are cut to.                      *)
LEMMA ClampInRange ==
  ASSUME NEW n \in Int, NEW top \in Nat
  PROVE  Point!Clamp(n, top) \in Int /\ 0 <= Point!Clamp(n, top) /\ Point!Clamp(n, top) <= top
BY DEF Point!Clamp

(* What the assumptions say of a screen and of a window.                   *)
LEMMA Room ==
  ASSUME NEW w \in Frames, NEW a \in Point!Axes
  PROVE  /\ Screen[a] \in Nat /\ Screen[a] > 0
         /\ Size[w][a] \in Nat
         /\ Point!Frame(a) \in Nat /\ Point!Reserve(a) \in Nat /\ Point!Grip(w, a) \in Nat
         /\ Point!Grip(w, a) > 0
         /\ Point!Frame(a) <= Point!Reserve(a)
         /\ Screen[a] - Size[w][a] - Point!Reserve(a) \in Nat
         /\ Point!Grip(w, a) <= Size[w][a] + Point!Frame(a)
<1>1. Screen[a] \in Nat /\ Screen[a] > 0 /\ Size[w][a] \in Nat
  BY PointerAssumed
<1>2. Size[w][a] + Point!Reserve(a) <= Screen[a]
  BY PointerAssumed
<1> QED
  BY <1>1, <1>2 DEF Point!Frame, Point!Reserve, Point!Grip, Point!Axes

(* A window that has just been opened, in the middle of the screen.        *)
LEMMA Centred ==
  ASSUME NEW w \in Frames, NEW a \in Point!Axes,
         NEW p, p = (Screen[a] \div 2) - ((Size[w][a] + Point!Frame(a)) \div 2)
  PROVE  p \in Int /\ 0 <= p /\ p + Size[w][a] + Point!Frame(a) <= Screen[a]
<1>1. /\ Screen[a] \in Nat /\ Size[w][a] + Point!Frame(a) \in Nat
      /\ Size[w][a] + Point!Frame(a) <= Screen[a]
  BY Room
<1>2. \A s, k \in Nat : k <= s => /\ (s \div 2) - (k \div 2) \in Int
                                  /\ 0 <= (s \div 2) - (k \div 2)
                                  /\ (s \div 2) - (k \div 2) + k <= s
  OBVIOUS
<1>3. /\ p \in Int /\ 0 <= p
      /\ p + (Size[w][a] + Point!Frame(a)) <= Screen[a]
  BY <1>1, <1>2
<1>4. Size[w][a] \in Nat /\ Point!Frame(a) \in Nat
  BY Room
<1> QED
  BY <1>1, <1>3, <1>4

LEMMA PointerInit == Point!Init => Point!Inv
<1> SUFFICES ASSUME Point!Init PROVE Point!Inv
  OBVIOUS
<1>1. \A a \in Point!Axes : Screen[a] \in Nat /\ Screen[a] > 0
  BY PointerAssumed
<1>2. \A a \in Point!Axes : mouse[a] \in Int /\ 0 <= mouse[a] /\ mouse[a] < Screen[a]
  BY <1>1 DEF Point!Init
<1>3. Point!TypeOK
  BY <1>2 DEF Point!Init, Point!TypeOK
<1> QED
  BY <1>2, <1>3 DEF Point!Init, Point!Inv, Point!PointerOnScreen, Point!WindowsOnScreen,
                    Point!DragHolds

LEMMA OpenPreserves ==
  ASSUME Point!Inv, NEW w \in Frames, Point!allocateWindow(w)
  PROVE  Point!Inv'
<1>1. /\ mouse' = mouse /\ dragged' = dragged /\ grab' = grab
      /\ open' = open \cup {w} /\ w \notin open
  BY DEF Point!allocateWindow
<1>2. /\ place' \in [Frames -> [Point!Axes -> Int]]
      /\ \A a \in Point!Axes :
           0 <= place'[w][a] /\ place'[w][a] + Size[w][a] + Point!Frame(a) <= Screen[a]
  <2> DEFINE c == [a \in Point!Axes |-> (Screen[a] \div 2) - ((Size[w][a] + Point!Frame(a)) \div 2)]
  <2>1. \A a \in Point!Axes :
          c[a] \in Int /\ 0 <= c[a] /\ c[a] + Size[w][a] + Point!Frame(a) <= Screen[a]
    BY Centred
  <2>2. c \in [Point!Axes -> Int]
    BY <2>1
  <2>3. place' = [place EXCEPT ![w] = c] /\ place \in [Frames -> [Point!Axes -> Int]]
    BY DEF Point!allocateWindow, Point!Inv, Point!TypeOK
  <2> HIDE DEF c
  <2> QED
    BY <2>1, <2>2, <2>3
<1>3. \A v \in Frames : v # w => place'[v] = place[v]
  BY DEF Point!allocateWindow, Point!Inv, Point!TypeOK
<1>4. Point!TypeOK'
  BY <1>1, <1>2 DEF Point!Inv, Point!TypeOK
<1>5. Point!PointerOnScreen'
  BY <1>1 DEF Point!Inv, Point!PointerOnScreen
<1>6. Point!WindowsOnScreen'
  BY <1>1, <1>2, <1>3 DEF Point!Inv, Point!TypeOK, Point!WindowsOnScreen
<1>7. Point!DragHolds'
  <2>1. dragged # None => dragged \in Frames /\ place'[dragged] = place[dragged]
    BY <1>1, <1>3 DEF Point!Inv, Point!TypeOK
  <2> QED
    BY <1>1, <2>1 DEF Point!Inv, Point!DragHolds
<1> QED
  BY <1>4, <1>5, <1>6, <1>7 DEF Point!Inv

LEMMA MovePreserves ==
  ASSUME Point!Inv, NEW d \in [Point!Axes -> Steps], Point!MovePointer(d) \/ Point!MoveWindow(d)
  PROVE  Point!Inv'
<1>0. \A a \in Point!Axes : d[a] \in Int
  BY PointerAssumed
<1>1. CASE Point!MovePointer(d)
  <2>1. /\ dragged = None /\ dragged' = None
        /\ open' = open /\ place' = place /\ grab' = grab
    BY <1>1 DEF Point!MovePointer
  <2>2. \A a \in Point!Axes : mouse'[a] \in Int /\ 0 <= mouse'[a] /\ mouse'[a] < Screen[a]
    <3> SUFFICES ASSUME NEW a \in Point!Axes
                 PROVE  mouse'[a] \in Int /\ 0 <= mouse'[a] /\ mouse'[a] < Screen[a]
      OBVIOUS
    <3>1. Screen[a] - 1 \in Nat /\ mouse[a] + d[a] \in Int
      BY <1>0, PointerAssumed DEF Point!Inv, Point!TypeOK
    <3>2. mouse'[a] = Point!Clamp(mouse[a] + d[a], Screen[a] - 1)
      BY <1>1 DEF Point!MovePointer
    <3>3. /\ mouse'[a] \in Int /\ 0 <= mouse'[a] /\ mouse'[a] <= Screen[a] - 1
      BY <3>1, <3>2, ClampInRange
    <3>4. Screen[a] \in Nat
      BY PointerAssumed
    <3> QED
      BY <3>3, <3>4
  <2>3. mouse' \in [Point!Axes -> Int]
    BY <1>1, <2>2 DEF Point!MovePointer
  <2> QED
    BY <2>1, <2>2, <2>3
    DEF Point!Inv, Point!TypeOK, Point!PointerOnScreen,
        Point!WindowsOnScreen, Point!DragHolds
<1>2. CASE Point!MoveWindow(d)
  <2> DEFINE w == dragged
  <2>1. /\ w \in open /\ w \in Frames /\ w # None
        /\ open' = open /\ grab' = grab /\ dragged' = w
    BY <1>2 DEF Point!MoveWindow, Point!Inv, Point!TypeOK
  <2>2. \A v \in Frames : v # w => place'[v] = place[v]
    BY <1>2 DEF Point!MoveWindow, Point!Inv, Point!TypeOK
  <2>3. ASSUME NEW a \in Point!Axes
        PROVE  /\ place'[w][a] \in Int
               /\ 0 <= place'[w][a] /\ place'[w][a] + Size[w][a] + Point!Reserve(a) <= Screen[a]
               /\ mouse'[a] = place'[w][a] - grab[a]
               /\ place'[w][a] <= mouse'[a] /\ mouse'[a] < place'[w][a] + Point!Grip(w, a)
               /\ mouse'[a] \in Int
    <3>1. place'[w][a] = Point!Clamp(place[w][a] + d[a], Screen[a] - Size[w][a] - Point!Reserve(a))
      BY <1>2, <2>1 DEF Point!MoveWindow, Point!Inv, Point!TypeOK
    <3>2. place[w][a] + d[a] \in Int
      BY <1>0, <2>1 DEF Point!Inv, Point!TypeOK
    <3>3. Screen[a] - Size[w][a] - Point!Reserve(a) \in Nat
      BY <2>1, Room
    <3>4. /\ place'[w][a] \in Int /\ 0 <= place'[w][a]
          /\ place'[w][a] <= Screen[a] - Size[w][a] - Point!Reserve(a)
      BY <3>1, <3>2, <3>3, ClampInRange
    <3>5. mouse'[a] = place'[w][a] - grab[a]
      BY <1>2 DEF Point!MoveWindow
    <3>6. /\ mouse[a] \in Int /\ place[w][a] \in Int /\ grab[a] \in Int
          /\ mouse[a] = place[w][a] - grab[a]
          /\ place[w][a] <= mouse[a] /\ mouse[a] < place[w][a] + Point!Grip(w, a)
      BY <2>1 DEF Point!Inv, Point!TypeOK, Point!DragHolds
    <3> QED
      BY <2>1, <3>4, <3>5, <3>6, Room
  <2>4. place' \in [Frames -> [Point!Axes -> Int]] /\ mouse' \in [Point!Axes -> Int]
    <3>1. mouse' = [a \in Point!Axes |-> place'[w][a] - grab[a]]
      BY <1>2 DEF Point!MoveWindow
    <3>2. mouse' \in [Point!Axes -> Int]
      BY <2>3, <3>1
    <3> DEFINE p == [a \in Point!Axes |->
                       Point!Clamp(place[w][a] + d[a], Screen[a] - Size[w][a] - Point!Reserve(a))]
    <3>3. place' = [place EXCEPT ![w] = p] /\ place \in [Frames -> [Point!Axes -> Int]]
      BY <1>2 DEF Point!MoveWindow, Point!Inv, Point!TypeOK
    <3>4. p \in [Point!Axes -> Int]
      <4>1. p = place'[w]
        BY <2>1, <3>3
      <4> QED
        BY <2>3, <4>1
    <3> HIDE DEF p
    <3> QED
      BY <3>2, <3>3, <3>4
  <2>5. Point!TypeOK'
    BY <2>1, <2>4 DEF Point!Inv, Point!TypeOK
  <2>6. Point!DragHolds'
    BY <2>1, <2>3 DEF Point!DragHolds
  <2>7. Point!WindowsOnScreen'
    <3> SUFFICES ASSUME NEW v \in open, NEW a \in Point!Axes
                 PROVE  0 <= place'[v][a] /\ place'[v][a] + Size[v][a] + Point!Frame(a) <= Screen[a]
      BY <2>1 DEF Point!WindowsOnScreen
    <3>1. CASE v = w
      BY <2>1, <2>3, <3>1, Room
    <3>2. CASE v # w
      BY <2>2, <3>2 DEF Point!Inv, Point!TypeOK, Point!WindowsOnScreen
    <3> QED
      BY <3>1, <3>2
  <2>8. Point!PointerOnScreen'
    <3> SUFFICES ASSUME NEW a \in Point!Axes PROVE 0 <= mouse'[a] /\ mouse'[a] < Screen[a]
      BY DEF Point!PointerOnScreen
    <3> QED
      BY <2>1, <2>3, Room
  <2> QED
    BY <2>5, <2>6, <2>7, <2>8 DEF Point!Inv
<1> QED
  BY <1>1, <1>2

LEMMA PointerNext == Point!Inv /\ [Point!Next]_(Point!vars) => Point!Inv'
<1> SUFFICES ASSUME Point!Inv, [Point!Next]_(Point!vars) PROVE Point!Inv'
  OBVIOUS
<1>1. CASE Point!mouseMove
  BY <1>1, MovePreserves DEF Point!mouseMove
<1>2. CASE Point!Release
  BY <1>2
  DEF Point!Release, Point!Inv, Point!TypeOK, Point!PointerOnScreen,
      Point!WindowsOnScreen, Point!DragHolds
<1>3. ASSUME NEW w \in Frames, Point!allocateWindow(w) PROVE Point!Inv'
  BY <1>3, OpenPreserves
<1>4. ASSUME NEW w \in Frames, Point!unallocateWindow(w) PROVE Point!Inv'
  BY <1>4
  DEF Point!unallocateWindow, Point!Inv, Point!TypeOK, Point!PointerOnScreen,
      Point!WindowsOnScreen, Point!DragHolds
<1>5. ASSUME NEW w \in Frames, Point!Press(w) PROVE Point!Inv'
  <2>1. /\ mouse' = mouse /\ open' = open /\ place' = place
        /\ w \in open /\ dragged' = w
    BY <1>5 DEF Point!Press
  <2>2. \A a \in Point!Axes : /\ mouse[a] \in Int /\ place[w][a] \in Int
                        /\ grab'[a] = place[w][a] - mouse[a] /\ grab'[a] \in Int
    BY <1>5 DEF Point!Press, Point!Inv, Point!TypeOK
  <2>3. Point!TypeOK'
    BY <1>5, <2>1, <2>2 DEF Point!Press, Point!Inv, Point!TypeOK
  <2>4. Point!DragHolds'
    BY <1>5, <2>1, <2>2 DEF Point!Press, Point!OnTitle, Point!DragHolds
  <2> QED
    BY <2>1, <2>3, <2>4 DEF Point!Inv, Point!PointerOnScreen, Point!WindowsOnScreen
<1>6. CASE UNCHANGED Point!vars
  BY <1>6
  DEF Point!vars, Point!Inv, Point!TypeOK, Point!PointerOnScreen,
      Point!WindowsOnScreen, Point!DragHolds
<1> QED
  BY <1>1, <1>2, <1>3, <1>4, <1>5, <1>6 DEF Point!Next

(* The pointer's invariant holds in every state of the composition, which  *)
(* takes the pointer's steps or leaves its variables alone.                *)
THEOREM PointerHolds == AllSpec => []PointerInv
<1>1. AllInit => PointerInv
  BY PointerInit DEF AllInit, PointerInv
<1>2. PointerInv /\ [AllNext]_allVars => PointerInv'
  <2> SUFFICES ASSUME part' = "pointer", Point!Inv, [Point!Next]_(Point!vars)
               PROVE  Point!Inv'
    BY DEF PointerInv, AllNext, allVars, pointerVars, Point!vars
  <2> QED
    BY PointerNext
<1> QED
  BY <1>1, <1>2, PTL DEF AllSpec

-----------------------------------------------------------------------------
(* CoreDrop.                                                               *)

(* What a core has come past: the rows above the one it is in, and of that *)
(* one the columns before its own. Everything else is where it was.        *)
Past(id, k, y) == y < at[id].y \/ (y = at[id].y /\ k < at[id].x)

Place(id, k) == k + id * Drop!Share

DropInv ==
  /\ at \in [Blit!Ids -> [x : Nat, y : Nat]]
  /\ \A id \in Blit!Ids :
       /\ at[id].y <= DropHeight - Line
       /\ at[id].x # 0 => at[id].x < Drop!Share /\ at[id].y < DropHeight - Line
  /\ pixels \in [Drop!Columns \X Drop!Rows -> Drop!Rows]
  /\ \A id \in Blit!Ids, k \in 0 .. Drop!Share - 1, y \in Drop!Rows :
       pixels[<<Place(id, k), y>>] = IF Past(id, k, y) THEN y + Line ELSE y
  /\ \A x \in Drop!Columns, y \in Drop!Rows :
       x >= Drop!Share * Cores => pixels[<<x, y>>] = y

LEMMA DropAssumed ==
  /\ DropWidth \in Nat /\ DropHeight \in Nat /\ Line \in Nat /\ Line > 0
  /\ Line <= DropHeight /\ Cores \in Nat
  /\ Drop!Ids = Blit!Ids
  /\ Drop!Share \in Nat /\ Drop!Share * Cores \in Nat /\ Drop!Share * Cores <= DropWidth
  /\ \A x : x \in Drop!Columns <=> x \in Nat /\ x < DropWidth
  /\ \A y : y \in Drop!Rows <=> y \in Nat /\ y < DropHeight
<1>1. /\ DropWidth \in Nat /\ DropHeight \in Nat /\ Line \in Nat /\ Line > 0
      /\ Line <= DropHeight /\ Cores \in Nat
  BY ProgramsAssumption DEF Drop!CoreDropAssumption
<1>2. /\ Drop!Share \in Nat /\ Drop!Share * Cores \in Nat /\ Drop!Share * Cores <= DropWidth
  BY <1>1, Quotient DEF Drop!Share
<1> QED
  BY <1>1, <1>2 DEF Drop!Ids, Blit!Ids, Drop!Columns, Drop!Rows

(* A place belongs to one core and one of its columns.                     *)
LEMMA PlaceOfOne ==
  ASSUME NEW c \in Blit!Ids, NEW j \in 0 .. Drop!Share - 1
  PROVE  /\ Place(c, j) \in Drop!Columns /\ Place(c, j) < Drop!Share * Cores
         /\ \A d \in Blit!Ids, k \in 0 .. Drop!Share - 1 :
              Place(c, j) = Place(d, k) => c = d /\ j = k
<1> DEFINE s == Drop!Share
<1>1. s \in Nat /\ s * Cores \in Nat /\ s * Cores <= DropWidth
  BY DropAssumed
<1>2. \A d \in Blit!Ids, k \in 0 .. s - 1 :
        /\ Place(d, k) = s * d + k
        /\ s * d \in Nat /\ k \in Nat /\ k < s /\ s * d + s <= s * Cores
  <2> SUFFICES ASSUME NEW d \in Blit!Ids, NEW k \in 0 .. s - 1
               PROVE  /\ Place(d, k) = s * d + k
                      /\ s * d \in Nat /\ k \in Nat /\ k < s /\ s * d + s <= s * Cores
    OBVIOUS
  <2>1. d \in Nat /\ k \in Nat /\ k < s
    BY <1>1 DEF Blit!Ids
  <2>2. s * d \in Nat /\ s * d + s <= s * Cores
    BY <1>1, ShareWithin
  <2> HIDE DEF s
  <2>3. k + d * s = s * d + k
    BY <1>1, <2>1
  <2> QED
    BY <2>1, <2>2, <2>3 DEF Place, s
<1>3. \A d, e \in Blit!Ids : d < e => s * d + s <= s * e
  BY <1>1, SharesApart
<1>4. \A d, e \in Blit!Ids : d = e \/ d < e \/ e < d
  BY CoresAssumed DEF Blit!Ids
<1> HIDE DEF s
<1>5. Place(c, j) \in Nat /\ Place(c, j) < s * Cores
  BY <1>1, <1>2 DEF s
<1>6. ASSUME NEW d \in Blit!Ids, NEW k \in 0 .. s - 1, Place(c, j) = Place(d, k)
      PROVE  c = d /\ j = k
  <2>1. /\ s * c + j = s * d + k
        /\ s * c \in Nat /\ s * d \in Nat /\ j \in Nat /\ k \in Nat /\ j < s /\ k < s
    BY <1>2, <1>6 DEF s
  <2>2. ~(c < d) /\ ~(d < c)
    BY <1>1, <1>3, <2>1
  <2>3. c = d
    BY <1>4, <2>2
  <2> QED
    BY <2>1, <2>3
<1> QED
  BY <1>1, <1>5, <1>6, DropAssumed DEF s

LEMMA DropInit == Drop!Init => DropInv
<1> SUFFICES ASSUME Drop!Init PROVE DropInv
  OBVIOUS
<1>1. at = [id \in Blit!Ids |-> [x |-> 0, y |-> 0]]
  BY DropAssumed DEF Drop!Init
<1>2. /\ pixels \in [Drop!Columns \X Drop!Rows -> Drop!Rows]
      /\ \A x \in Drop!Columns, y \in Drop!Rows : pixels[<<x, y>>] = y
  BY DEF Drop!Init
<1>3. \A id \in Blit!Ids, k \in 0 .. Drop!Share - 1, y \in Drop!Rows :
        pixels[<<Place(id, k), y>>] = IF Past(id, k, y) THEN y + Line ELSE y
  <2> SUFFICES ASSUME NEW id \in Blit!Ids, NEW k \in 0 .. Drop!Share - 1, NEW y \in Drop!Rows
               PROVE  pixels[<<Place(id, k), y>>] = y /\ ~Past(id, k, y)
    OBVIOUS
  <2>1. Place(id, k) \in Drop!Columns
    BY PlaceOfOne
  <2>2. at[id].x = 0 /\ at[id].y = 0 /\ k \in Nat /\ y \in Nat
    BY <1>1, DropAssumed
  <2> QED
    BY <1>2, <2>1, <2>2 DEF Past
<1> QED
  BY <1>1, <1>2, <1>3, DropAssumed DEF DropInv

LEMMA DropNext == DropInv /\ [Drop!Next]_(Drop!vars) => DropInv'
<1> SUFFICES ASSUME DropInv, [Drop!Next]_(Drop!vars) PROVE DropInv'
  OBVIOUS
<1>1. CASE UNCHANGED Drop!vars
  BY <1>1 DEF Drop!vars, DropInv, Past
<1>2. ASSUME NEW c \in Blit!Ids, Drop!coreDrop(c) PROVE DropInv'
  <2> DEFINE s == Drop!Share
             x0 == at[c].x
             y0 == at[c].y
  <2>1. /\ x0 \in Nat /\ y0 \in Nat /\ s \in Nat /\ x0 < s /\ y0 < DropHeight - Line
    BY <1>2, DropAssumed DEF Drop!coreDrop, Drop!Working, DropInv
  <2>2. /\ x0 \in 0 .. s - 1 /\ y0 \in Drop!Rows /\ y0 + Line \in Drop!Rows
        /\ y0 < y0 + Line
    BY <2>1, DropAssumed
  <2>3. Place(c, x0) \in Drop!Columns /\ Place(c, x0) < s * Cores
    BY <2>2, PlaceOfOne
  <2>4. pixels[<<Place(c, x0), y0 + Line>>] = y0 + Line
    <3>1. ~Past(c, x0, y0 + Line)
      BY <2>1, <2>2, DropAssumed DEF Past
    <3> QED
      BY <2>2, <3>1 DEF DropInv
  <2>5. pixels' = [pixels EXCEPT ![<<Place(c, x0), y0>>] = y0 + Line]
    BY <1>2, <2>4 DEF Drop!coreDrop, Drop!Column, Drop!From, Place
  <2>6. at' = [at EXCEPT ![c] = Drop!Step(c)]
    BY <1>2 DEF Drop!coreDrop
  <2>7. /\ at'[c] = IF x0 + 1 < s THEN [x |-> x0 + 1, y |-> y0] ELSE [x |-> 0, y |-> y0 + 1]
        /\ \A d \in Blit!Ids : d # c => at'[d] = at[d]
        /\ at' \in [Blit!Ids -> [x : Nat, y : Nat]]
    BY <2>1, <2>6 DEF Drop!Step, DropInv
  <2>8. /\ pixels' \in [Drop!Columns \X Drop!Rows -> Drop!Rows]
        /\ pixels'[<<Place(c, x0), y0>>] = y0 + Line
        /\ \A x \in Drop!Columns, y \in Drop!Rows :
             x # Place(c, x0) \/ y # y0 => pixels'[<<x, y>>] = pixels[<<x, y>>]
    BY <2>2, <2>3, <2>5 DEF DropInv
  <2> HIDE DEF s, x0, y0
  <2>9. ASSUME NEW d \in Blit!Ids
        PROVE  /\ at'[d].y <= DropHeight - Line
               /\ at'[d].x # 0 => at'[d].x < s /\ at'[d].y < DropHeight - Line
    <3>1. CASE d = c
      BY <2>1, <2>7, <3>1, DropAssumed
    <3>2. CASE d # c
      BY <2>7, <3>2 DEF DropInv, s
    <3> QED
      BY <3>1, <3>2
  <2>10. ASSUME NEW d \in Blit!Ids, NEW k \in 0 .. s - 1, NEW y \in Drop!Rows
         PROVE  pixels'[<<Place(d, k), y>>] = IF Past(d, k, y)' THEN y + Line ELSE y
    <3>1. Place(d, k) \in Drop!Columns /\ k \in Nat /\ k < s /\ y \in Nat
      BY <2>1, PlaceOfOne, DropAssumed DEF s
    <3>2. CASE d = c /\ k = x0 /\ y = y0
      <4>1. Past(d, k, y)'
        BY <2>1, <2>7, <3>2 DEF Past
      <4> QED
        BY <2>8, <3>2, <4>1
    <3>3. CASE ~(d = c /\ k = x0 /\ y = y0)
      <4>1. Place(d, k) # Place(c, x0) \/ y # y0
        BY <2>2, <3>3, PlaceOfOne DEF s
      <4>2. pixels'[<<Place(d, k), y>>] = IF Past(d, k, y) THEN y + Line ELSE y
        BY <2>8, <3>1, <4>1 DEF DropInv, s
      <4>3. Past(d, k, y)' <=> Past(d, k, y)
        <5>1. CASE d # c
          BY <2>7, <5>1 DEF Past
        <5>2. CASE d = c
          <6>1. at[c].x = x0 /\ at[c].y = y0
            BY DEF x0, y0
          <6>2. CASE x0 + 1 < s
            BY <2>1, <2>7, <3>1, <3>3, <5>2, <6>1, <6>2 DEF Past
          <6>3. CASE ~(x0 + 1 < s)
            BY <2>1, <2>7, <3>1, <3>3, <5>2, <6>1, <6>3 DEF Past
          <6> QED
            BY <6>2, <6>3
        <5> QED
          BY <5>1, <5>2
      <4> QED
        BY <4>2, <4>3
    <3> QED
      BY <3>2, <3>3
  <2>11. ASSUME NEW x \in Drop!Columns, NEW y \in Drop!Rows, x >= s * Cores
         PROVE  pixels'[<<x, y>>] = y
    <3>1. x # Place(c, x0)
      BY <2>3, <2>11, DropAssumed DEF s
    <3> QED
      BY <2>8, <2>11, <3>1 DEF DropInv, s
  <2> QED
    BY <2>7, <2>8, <2>9, <2>10, <2>11 DEF DropInv, s
<1> QED
  BY <1>1, <1>2, DropAssumed DEF Drop!Next

LEMMA DropMoved == DropInv => Drop!TypeOK /\ Drop!MovedUp
<1> SUFFICES ASSUME DropInv PROVE Drop!TypeOK /\ Drop!MovedUp
  OBVIOUS
<1>1. Drop!TypeOK
  <2>1. ASSUME NEW id \in Blit!Ids
        PROVE  at[id] \in [x : {0} \cup 0 .. Drop!Share - 1, y : 0 .. DropHeight]
    <3>1. /\ at[id] \in [x : Nat, y : Nat] /\ at[id].y <= DropHeight - Line
          /\ at[id].x = 0 \/ at[id].x < Drop!Share
      BY DEF DropInv
    <3> QED
      BY <3>1, DropAssumed
  <2> QED
    BY <2>1, DropAssumed DEF DropInv, Drop!TypeOK
<1>2. Drop!MovedUp
  <2> SUFFICES ASSUME Drop!Finished, NEW x \in Drop!Columns, NEW y \in Drop!Rows
               PROVE  pixels[<<x, y>>] = IF x < Drop!Share * Cores /\ y < DropHeight - Line
                                        THEN y + Line ELSE y
    BY DEF Drop!MovedUp
  <2>1. x \in Nat /\ y \in Nat
    BY DropAssumed
  <2>2. CASE x >= Drop!Share * Cores
    BY <2>1, <2>2, DropAssumed DEF DropInv
  <2>3. CASE x < Drop!Share * Cores
    <3>1. PICK id \in Blit!Ids : Drop!Share * id <= x /\ x < Drop!Share * id + Drop!Share
      BY <2>1, <2>3, DropAssumed, ShareOf
    <3> DEFINE k == x - Drop!Share * id
    <3>2. k \in 0 .. Drop!Share - 1 /\ Place(id, k) = x
      <4> DEFINE s == Drop!Share
      <4>1. s \in Nat /\ s * id \in Nat /\ id \in Nat /\ s * id <= x /\ x < s * id + s
        BY <3>1, DropAssumed, ShareWithin DEF Blit!Ids
      <4> HIDE DEF s
      <4>2. s * id = id * s
        BY <4>1
      <4>3. x - s * id \in 0 .. s - 1 /\ (x - s * id) + id * s = x
        BY <2>1, <4>1, <4>2
      <4> QED
        BY <4>3 DEF Place, s
    <3>3. at[id].y = DropHeight - Line /\ at[id].x = 0
      <4>1. ~Drop!Working(id) /\ Drop!Share > 0
        BY <3>1, <3>2, DropAssumed DEF Drop!Finished
      <4>2. at[id].x \in Nat /\ at[id].y \in Nat
        BY DEF DropInv
      <4> QED
        BY <4>1, <4>2, DropAssumed DEF Drop!Working, DropInv
    <3> HIDE DEF k
    <3>4. pixels[<<x, y>>] = IF Past(id, k, y) THEN y + Line ELSE y
      BY <3>2 DEF DropInv
    <3>5. Past(id, k, y) <=> y < DropHeight - Line
      BY <2>1, <3>2, <3>3, DropAssumed DEF Past
    <3> QED
      BY <2>3, <3>4, <3>5
  <2> QED
    BY <2>1, <2>2, <2>3, DropAssumed
<1> QED
  BY <1>1, <1>2

(* However the cores take turns, and however many they are, the screen has *)
(* moved up by a line when they are done.                                  *)
THEOREM ScreenMovedUp == AllSpec => []MovedUp
<1> DEFINE DropPart == part = "drop" => DropInv
<1>1. AllInit => DropPart
  BY DropInit DEF AllInit
<1>2. DropPart /\ [AllNext]_allVars => DropPart'
  <2> SUFFICES ASSUME part' = "drop", DropInv, [Drop!Next]_(Drop!vars)
               PROVE  DropInv'
    BY DEF AllNext, allVars, dropVars, Drop!vars
  <2> QED
    BY DropNext
<1>3. DropPart => MovedUp
  BY DropMoved DEF MovedUp
<1> HIDE DEF DropPart
<1> QED
  BY <1>1, <1>2, <1>3, PTL DEF AllSpec

-----------------------------------------------------------------------------
(* The line that is typed at a terminal.                                   *)

(* What printing works on.                                                 *)
Terminals ==
  [x : 0 .. Width - 1, y : 0 .. Height - 1,
   cells : [Editor!Cells -> Editor!Chars \cup {Editor!Other}], start : 0 .. Modulus - 1]

(* The terminal t shows the line from where it starts to the cursor.       *)
Shows(t, line) ==
  /\ t.x + t.y * Width = t.start + Len(line)
  /\ \A k \in 1 .. Len(line) : t.cells[t.start + k - 1] = line[k]

LEMMA EditorAssumed ==
  /\ Width \in Nat /\ Width > 0 /\ Height \in Nat /\ Height > 0
  /\ BufferSize \in Nat /\ BufferSize > 0 /\ Modulus \in Nat /\ Modulus > 0
  /\ Width * Height \in Nat /\ Width * Height < Modulus
  /\ Width * (Height - 1) = Width * Height - Width
  /\ BufferSize + Width <= Width * Height - Width
  /\ Prompts \subseteq Nat \ {0}
<1>1. Editor!LineEditorAssumption
  BY ProgramsAssumption
<1>2. /\ Width \in Nat /\ Width > 0 /\ Height \in Nat /\ Height > 0
      /\ BufferSize \in Nat /\ BufferSize > 0 /\ Modulus \in Nat
      /\ Width * Height < Modulus /\ Prompts \subseteq Nat \ {0}
      /\ BufferSize + Width <= Width * (Height - 1)
  BY <1>1 DEF Editor!LineEditorAssumption
<1>3. Width * Height \in Nat /\ Width * (Height - 1) = Width * Height - Width
  BY <1>2
<1> QED
  BY <1>2, <1>3

(* Where the cells of a row are.                                           *)
LEMMA CellOf ==
  ASSUME NEW x \in 0 .. Width - 1, NEW y \in 0 .. Height - 1
  PROVE  /\ y * Width \in Nat /\ y * Width <= Width * Height - Width
         /\ (y + 1) * Width = y * Width + Width
         /\ (y - 1) * Width = y * Width - Width
         /\ x + y * Width \in 0 .. Width * Height - 1
         /\ x + y * Width \in 0 .. Modulus - 1
<1>1. /\ x \in Nat /\ y \in Nat /\ Height - 1 \in Nat /\ y <= Height - 1 /\ x <= Width - 1
      /\ Width \in Nat /\ Height \in Nat
  BY EditorAssumed
<1>2. Width * y \in Nat /\ Width * y <= Width * (Height - 1)
  BY <1>1, Times
<1>3. /\ Width * y = y * Width
      /\ (y + 1) * Width = y * Width + Width
      /\ (y - 1) * Width = y * Width - Width
  BY <1>1
<1> DEFINE r == y * Width
           area == Width * Height
<1>4. /\ r \in Nat /\ r <= area - Width /\ area \in Nat /\ area < Modulus
      /\ Modulus \in Nat
  BY <1>2, <1>3, EditorAssumed
<1> HIDE DEF r, area
<1>5. x + r \in 0 .. area - 1 /\ x + r \in 0 .. Modulus - 1
  BY <1>1, <1>4
<1> QED
  BY <1>3, <1>4, <1>5 DEF r, area

(* A terminal remains one, whatever is printed on it.                      *)
LEMMA ScrollKind ==
  ASSUME NEW t \in Terminals
  PROVE  Editor!Scroll(t) \in Terminals
<1> DEFINE cells == [c \in Editor!Cells |-> IF c + Width \in Editor!Cells THEN t.cells[c + Width]
                                            ELSE Editor!Other]
<1>1. /\ t.x \in 0 .. Width - 1 /\ t.y \in 0 .. Height - 1 /\ t.start \in 0 .. Modulus - 1
      /\ t.cells \in [Editor!Cells -> Editor!Chars \cup {Editor!Other}]
  BY DEF Terminals
<1>2. cells \in [Editor!Cells -> Editor!Chars \cup {Editor!Other}]
  BY <1>1
<1>3. (t.start - Width) % Modulus \in 0 .. Modulus - 1 /\ 0 \in 0 .. Width - 1
  BY <1>1, EditorAssumed
<1>4. Editor!Scroll(t) = [t EXCEPT !.x = 0, !.cells = cells, !.start = (t.start - Width) % Modulus]
  BY DEF Editor!Scroll
<1> HIDE DEF cells
<1> QED
  BY <1>1, <1>2, <1>3, <1>4 DEF Terminals

LEMMA NewlineKind ==
  ASSUME NEW t \in Terminals
  PROVE  Editor!Newline(t) \in Terminals
<1>1. CASE t.y + 1 # Height
  <2>1. t.y + 1 \in 0 .. Height - 1 /\ 0 \in 0 .. Width - 1
    BY <1>1, EditorAssumed DEF Terminals
  <2>2. Editor!Newline(t) = [t EXCEPT !.x = 0, !.y = t.y + 1]
    BY <1>1 DEF Editor!Newline
  <2> QED
    BY <2>1, <2>2 DEF Terminals
<1>2. CASE t.y + 1 = Height
  BY <1>2, ScrollKind DEF Editor!Newline
<1> QED
  BY <1>1, <1>2

(* What is drawn before the cursor goes on.                                *)
Drawn(t, c) == [t EXCEPT !.cells = [t.cells EXCEPT ![t.x + t.y * Width] = c]]

LEMMA DrawnKind ==
  ASSUME NEW t \in Terminals, NEW c \in Editor!Chars \cup {Editor!Other}
  PROVE  /\ Drawn(t, c) \in Terminals
         /\ Drawn(t, c).x = t.x /\ Drawn(t, c).y = t.y /\ Drawn(t, c).start = t.start
         /\ Drawn(t, c).cells = [t.cells EXCEPT ![t.x + t.y * Width] = c]
         /\ Editor!PutCharacter(t, c) =
              IF t.x + 1 = Width THEN Editor!Newline(Drawn(t, c))
              ELSE [Drawn(t, c) EXCEPT !.x = t.x + 1]
<1>1. t.cells \in [Editor!Cells -> Editor!Chars \cup {Editor!Other}]
  BY DEF Terminals
<1>2. [t.cells EXCEPT ![t.x + t.y * Width] = c]
        \in [Editor!Cells -> Editor!Chars \cup {Editor!Other}]
  BY <1>1
<1>3. Drawn(t, c) = [x |-> t.x, y |-> t.y, start |-> t.start,
                     cells |-> [t.cells EXCEPT ![t.x + t.y * Width] = c]]
  BY DEF Drawn, Terminals
<1>4. Editor!PutCharacter(t, c) =
        IF t.x + 1 = Width THEN Editor!Newline(Drawn(t, c))
        ELSE [Drawn(t, c) EXCEPT !.x = t.x + 1]
  BY DEF Editor!PutCharacter, Drawn
<1> QED
  BY <1>2, <1>3, <1>4 DEF Terminals

LEMMA PutKind ==
  ASSUME NEW t \in Terminals, NEW c \in Editor!Chars \cup {Editor!Other}
  PROVE  Editor!PutCharacter(t, c) \in Terminals
<1> DEFINE d == Drawn(t, c)
<1>1. /\ d \in Terminals /\ d.x = t.x
      /\ Editor!PutCharacter(t, c) = IF t.x + 1 = Width THEN Editor!Newline(d)
                                     ELSE [d EXCEPT !.x = t.x + 1]
  BY DrawnKind
<1> HIDE DEF d
<1>2. CASE t.x + 1 = Width
  BY <1>1, <1>2, NewlineKind
<1>3. CASE t.x + 1 # Width
  <2>1. t.x + 1 \in 0 .. Width - 1
    BY <1>3, EditorAssumed DEF Terminals
  <2> QED
    BY <1>1, <1>3, <2>1 DEF Terminals
<1> QED
  BY <1>2, <1>3

LEMMA PromptKind ==
  ASSUME NEW t \in Terminals, NEW n \in Prompts
  PROVE  /\ Editor!Prompt(t, n) \in Terminals
         /\ Shows(Editor!Prompt(t, n), <<>>)
<1> DEFINE x == (t.x + n) % Width
           down == t.y + (t.x + n) \div Width
           y == IF down < Height THEN down ELSE Height - 1
           cells == [c \in Editor!Cells |-> Editor!Other]
<1>1. t.x \in Nat /\ t.y \in Nat /\ n \in Nat
  BY EditorAssumed DEF Terminals
<1>2. x \in 0 .. Width - 1 /\ (t.x + n) \div Width \in Nat
  BY <1>1, EditorAssumed
<1>3. y \in 0 .. Height - 1
  BY <1>1, <1>2, EditorAssumed
<1>4. x + y * Width \in 0 .. Modulus - 1
  <2> HIDE DEF x, y
  <2> QED
    BY <1>2, <1>3, CellOf
<1>5. cells \in [Editor!Cells -> Editor!Chars \cup {Editor!Other}]
  OBVIOUS
<1>6. Editor!Prompt(t, n) = [x |-> x, y |-> y, cells |-> cells, start |-> x + y * Width]
  BY DEF Editor!Prompt
<1> HIDE DEF x, y, cells
<1>7. Len(<<>>) = 0 /\ 1 .. Len(<<>>) = {}
  OBVIOUS
<1> QED
  BY <1>2, <1>3, <1>4, <1>5, <1>6, <1>7 DEF Terminals, Shows

(* The sums that this takes: x and r are the cursor's column and its row's *)
(* first cell, s where the line starts, n its length.                      *)
Summed(x, r, s, n, w, area) ==
  /\ (x + 1) + r = s + (n + 1)
  /\ x + 1 = w => 0 + (r + w) = s + (n + 1)
  /\ r + w = area /\ x + 1 = w => s >= w /\ 0 + r = (s - w) + (n + 1)
  /\ \A k \in 1 .. n + 1 :
       /\ s + k - 1 \in 0 .. area - 1
       /\ k = n + 1 => s + k - 1 = x + r
       /\ k # n + 1 => k \in 1 .. n /\ s + k - 1 # x + r
       /\ s >= w => (s - w) + k - 1 \in 0 .. area - 1 /\ ((s - w) + k - 1) + w = s + k - 1

LEMMA Sums ==
  \A x, r, s, n, w, area, b \in Nat :
    x + r = s + n /\ x + r <= area - 1 /\ n < b - 1 /\ b + w <= area - w
      => Summed(x, r, s, n, w, area)
BY DEF Summed

(* A character that is typed is shown after the line, also where the line  *)
(* wraps, and where the screen moves up under it: the line is no longer    *)
(* than the buffer, so that its start is then below the first row.         *)
LEMMA PutShows ==
  ASSUME NEW t \in Terminals, NEW line \in Seq(Editor!Chars), NEW c \in Editor!Chars,
         Shows(t, line), Len(line) < BufferSize - 1
  PROVE  Shows(Editor!PutCharacter(t, c), Append(line, c))
<1> DEFINE d == Drawn(t, c)
           longer == Append(line, c)
           n == Len(line)
           area == Width * Height
           r == t.y * Width
           u == Editor!PutCharacter(t, c)
<1>1. /\ t.x \in 0 .. Width - 1 /\ t.y \in 0 .. Height - 1 /\ t.start \in 0 .. Modulus - 1
      /\ t.cells \in [Editor!Cells -> Editor!Chars \cup {Editor!Other}]
  BY DEF Terminals
<1>2. /\ r \in Nat /\ (t.y + 1) * Width = r + Width /\ t.x + r \in 0 .. area - 1
      /\ r <= area - Width
  BY <1>1, CellOf
<1>3. t.x + r = t.start + n /\ (\A k \in 1 .. n : t.cells[t.start + k - 1] = line[k])
  BY DEF Shows
<1>4. /\ d \in Terminals /\ d.x = t.x /\ d.y = t.y /\ d.start = t.start
      /\ d.cells = [t.cells EXCEPT ![t.x + r] = c]
      /\ u = IF t.x + 1 = Width THEN Editor!Newline(d) ELSE [d EXCEPT !.x = t.x + 1]
  BY DrawnKind
<1>5. /\ n \in Nat /\ Len(longer) = n + 1 /\ longer[n + 1] = c
      /\ \A k \in 1 .. n : longer[k] = line[k]
  BY AppendProperties
<1>6. /\ Width \in Nat /\ Width > 0 /\ area \in Nat /\ Editor!Cells = 0 .. area - 1
      /\ Height \in Nat /\ Modulus \in Nat /\ area < Modulus /\ BufferSize \in Nat
      /\ BufferSize + Width <= area - Width
  BY EditorAssumed DEF Editor!Cells
<1>7. n < BufferSize - 1
  OBVIOUS
<1> HIDE DEF d, longer, n, area, r, u
<1>8. /\ t.x \in Nat /\ t.y \in Nat /\ t.start \in Nat /\ t.start <= Modulus - 1
      /\ r \in Nat /\ n \in Nat /\ Len(longer) = n + 1
      /\ t.x + r = t.start + n /\ t.x + r <= area - 1 /\ n < BufferSize - 1
      /\ Width \in Nat /\ Width > 0 /\ Height \in Nat /\ area \in Nat /\ BufferSize \in Nat
      /\ Modulus \in Nat /\ BufferSize + Width <= area - Width
  <2>1. t.x \in Nat /\ t.y \in Nat /\ t.start \in Nat /\ t.start <= Modulus - 1
    BY <1>1, <1>6
  <2>2. t.x + r <= area - 1
    BY <1>2, <1>6, <2>1
  <2> QED
    BY <1>2, <1>3, <1>5, <1>6, <1>7, <2>1, <2>2
<1>9. Summed(t.x, r, t.start, n, Width, area)
  BY <1>8, Sums
<1>10. \A k \in 1 .. n + 1 : d.cells[t.start + k - 1] = longer[k]
  <2> SUFFICES ASSUME NEW k \in 1 .. n + 1
               PROVE  d.cells[t.start + k - 1] = longer[k]
    OBVIOUS
  <2>1. t.start \in Nat /\ t.start + k - 1 \in Editor!Cells /\ DOMAIN t.cells = Editor!Cells
    BY <1>1, <1>6, <1>8, <1>9 DEF Summed
  <2>2. CASE k = n + 1
    <3>1. t.start + k - 1 = t.x + r
      BY <1>9, <2>2 DEF Summed
    <3> QED
      BY <1>4, <1>5, <2>1, <2>2, <3>1
  <2>3. CASE k # n + 1
    <3>1. k \in 1 .. n /\ t.start + k - 1 # t.x + r
      BY <1>9, <2>3 DEF Summed
    <3> QED
      BY <1>3, <1>4, <1>5, <2>1, <3>1
  <2> QED
    BY <2>2, <2>3
<1>11. CASE t.x + 1 # Width
  <2>1. /\ u.x = t.x + 1 /\ u.y = t.y /\ u.start = t.start /\ u.cells = d.cells
    BY <1>4, <1>11 DEF Terminals
  <2>2. u.x + u.y * Width = u.start + Len(longer)
    <3>1. u.y * Width = r
      BY <2>1 DEF r
    <3> QED
      BY <1>8, <1>9, <2>1, <3>1 DEF Summed
  <2> QED
    BY <1>5, <1>10, <2>1, <2>2 DEF Shows, u, longer
<1>12. CASE t.x + 1 = Width /\ t.y + 1 # Height
  <2>1. u = [d EXCEPT !.x = 0, !.y = t.y + 1]
    BY <1>4, <1>12 DEF Editor!Newline
  <2>2. u.x = 0 /\ u.y = t.y + 1 /\ u.start = t.start /\ u.cells = d.cells
    BY <1>4, <2>1 DEF Terminals
  <2>3. u.x + u.y * Width = u.start + Len(longer)
    <3>1. u.y * Width = r + Width
      BY <1>2, <2>2
    <3> QED
      BY <1>8, <1>9, <1>12, <2>2, <3>1 DEF Summed
  <2> QED
    BY <1>5, <1>10, <2>2, <2>3 DEF Shows, u, longer
<1>13. CASE t.x + 1 = Width /\ t.y + 1 = Height
  <2> DEFINE up == [k \in Editor!Cells |-> IF k + Width \in Editor!Cells THEN d.cells[k + Width]
                                           ELSE Editor!Other]
  <2>1. u = [d EXCEPT !.x = 0, !.cells = up, !.start = (d.start - Width) % Modulus]
    BY <1>4, <1>13 DEF Editor!Newline, Editor!Scroll
  <2>2. \A k \in Editor!Cells : k + Width \in Editor!Cells => up[k] = d.cells[k + Width]
    OBVIOUS
  <2> HIDE DEF up
  <2>3. r + Width = area
    <3>1. (t.y + 1) * Width = area
      BY <1>6, <1>13 DEF area
    <3> QED
      BY <1>2, <3>1
  <2>4. t.start >= Width /\ t.start - Width \in 0 .. Modulus - 1
    <3>1. t.start >= Width
      BY <1>9, <1>13, <2>3 DEF Summed
    <3> QED
      BY <1>8, <3>1
  <2>5. (t.start - Width) % Modulus = t.start - Width
    <3>1. \A s \in 0 .. Modulus - 1 : s % Modulus = s
      BY <1>6
    <3> QED
      BY <2>4, <3>1
  <2>6. u.x = 0 /\ u.y = t.y /\ u.start = t.start - Width /\ u.cells = up
    BY <1>4, <2>1, <2>5 DEF Terminals
  <2>7. u.x + u.y * Width = u.start + Len(longer)
    <3>1. u.y * Width = r
      BY <2>6 DEF r
    <3> QED
      BY <1>8, <1>9, <1>13, <2>3, <2>6, <3>1 DEF Summed
  <2>8. ASSUME NEW k \in 1 .. n + 1
        PROVE  u.cells[u.start + k - 1] = longer[k]
    <3>1. /\ u.start + k - 1 \in Editor!Cells
          /\ (u.start + k - 1) + Width = t.start + k - 1
          /\ t.start + k - 1 \in Editor!Cells
      BY <1>6, <1>9, <2>4, <2>6 DEF Summed
    <3> QED
      BY <1>10, <2>2, <2>6, <3>1
  <2> QED
    BY <1>5, <2>7, <2>8 DEF Shows, u, longer
<1> QED
  BY <1>11, <1>12, <1>13 DEF u, longer

(* The line as the buffer's user sees it, when its end has been set.       *)
LEMMA CommandIs ==
  ASSUME NEW buffer \in [0 .. BufferSize - 1 -> Editor!Chars \cup {Editor!End}],
         NEW n \in 0 .. BufferSize - 1, buffer[n] = Editor!End,
         \A k \in 0 .. n - 1 : buffer[k] \in Editor!Chars
  PROVE  Editor!Min({k \in DOMAIN buffer : buffer[k] = Editor!End} \cup {BufferSize}) = n
<1> DEFINE ends == {k \in DOMAIN buffer : buffer[k] = Editor!End} \cup {BufferSize}
<1>1. BufferSize \in Nat
  BY EditorAssumed
<1>2. n \in ends
  OBVIOUS
<1>3. \A k \in ends : k \in Nat /\ n <= k
  <2> SUFFICES ASSUME NEW k \in ends
               PROVE  k \in Nat /\ n <= k
    OBVIOUS
  <2>1. CASE k = BufferSize
    BY <1>1, <2>1
  <2>2. CASE k # BufferSize
    <3>1. k \in 0 .. BufferSize - 1 /\ buffer[k] = Editor!End
      BY <2>2
    <3>2. Editor!End \notin Editor!Chars
      BY DEF Editor!End, Editor!Chars
    <3> QED
      BY <1>1, <3>1, <3>2
  <2> QED
    BY <2>1, <2>2
<1> HIDE DEF ends
<1>4. n \in Nat
  BY <1>2, <1>3
<1>5. Editor!Min(ends) = CHOOSE m \in ends : \A k \in ends : m <= k
  BY DEF Editor!Min
<1>6. Editor!Min(ends) \in ends /\ \A k \in ends : Editor!Min(ends) <= k
  BY <1>2, <1>3, <1>5
<1>7. Editor!Min(ends) \in Nat /\ Editor!Min(ends) <= n /\ n <= Editor!Min(ends)
  BY <1>2, <1>3, <1>6
<1> QED
  BY <1>4, <1>7 DEF ends

LEMMA NowIs ==
  Editor!TypeOK => /\ Editor!Now \in Terminals /\ Editor!Now.cells = screen
                   /\ Editor!Now.x = cursorX /\ Editor!Now.y = cursorY
                   /\ Editor!Now.start = typingStart
  BY DEF Editor!TypeOK, Editor!Now, Terminals

(* What is printed becomes what is shown.                                  *)
LEMMA NowBecomes ==
  ASSUME NEW t \in Terminals, Editor!Becomes(t)
  PROVE  /\ cursorX' \in 0 .. Width - 1 /\ cursorY' \in 0 .. Height - 1
         /\ screen' \in [Editor!Cells -> Editor!Chars \cup {Editor!Other}]
         /\ typingStart' \in 0 .. Modulus - 1
         /\ Editor!Now' = t
  BY DEF Editor!Becomes, Editor!Now, Terminals

LEMMA CommandKept == typingBuffer' = typingBuffer => Editor!Command' = Editor!Command
  BY DEF Editor!Command

(* The buffer begins with the line.                                        *)
Buffered(buffer, line) == \A k \in 1 .. Len(line) : buffer[k - 1] = line[k]

LEMMA ShownIs ==
  Editor!TypeOK =>
    (Editor!LineShown <=>
      (typing => /\ typingCurrent = Len(meant)
                 /\ Shows(Editor!Now, meant) /\ Buffered(typingBuffer, meant)))
<1> SUFFICES ASSUME Editor!TypeOK
             PROVE  Editor!LineShown <=>
                      (typing => /\ typingCurrent = Len(meant)
                                 /\ Shows(Editor!Now, meant) /\ Buffered(typingBuffer, meant))
  OBVIOUS
<1>1. /\ Editor!Now.cells = screen /\ Editor!Now.start = typingStart
      /\ Editor!Now.x = cursorX /\ Editor!Now.y = cursorY
  BY NowIs
<1> QED
  BY <1>1 DEF Editor!LineShown, Shows, Buffered, Editor!Cursor

LEMMA EditorInit == Editor!Init => Editor!Inv
<1> SUFFICES ASSUME Editor!Init
             PROVE  Editor!Inv
  OBVIOUS
<1>1. Editor!TypeOK
  <2>1. screen \in [Editor!Cells -> Editor!Chars \cup {Editor!Other}]
    BY DEF Editor!Init
  <2>2. typingBuffer \in [0 .. BufferSize - 1 -> Editor!Chars \cup {Editor!End}]
    BY DEF Editor!Init
  <2>3. 0 \in 0 .. Width - 1 /\ 0 \in 0 .. Height - 1 /\ 0 \in 0 .. Modulus - 1
        /\ 0 \in 0 .. BufferSize - 1
    BY EditorAssumed
  <2>4. meant \in Seq(Editor!Chars)
    BY DEF Editor!Init
  <2> QED
    BY <2>1, <2>2, <2>3, <2>4 DEF Editor!Init, Editor!TypeOK
<1>2. Editor!Command = <<>>
  <2>1. /\ typingBuffer \in [0 .. BufferSize - 1 -> Editor!Chars \cup {Editor!End}]
        /\ 0 \in 0 .. BufferSize - 1 /\ typingBuffer[0] = Editor!End
        /\ \A k \in 0 .. 0 - 1 : typingBuffer[k] \in Editor!Chars
    BY <1>1, EditorAssumed DEF Editor!Init, Editor!TypeOK
  <2>2. Editor!Min({k \in DOMAIN typingBuffer : typingBuffer[k] = Editor!End}
                     \cup {BufferSize}) = 0
    BY <2>1, CommandIs
  <2>3. Editor!Command = [k \in 1 .. 0 |-> typingBuffer[k - 1]]
    BY <2>2 DEF Editor!Command
  <2> QED
    BY <2>3
<1> QED
  BY <1>1, <1>2
  DEF Editor!Init, Editor!Inv, Editor!LineShown, Editor!RunsTheLine, Editor!RunsOnce,
      Editor!ShiftTracks

(* Backspace removes a character from the line, the buffer and the screen, *)
(* or from none of them.                                                   *)
LEMMA BackspacePreserves == Editor!Inv /\ Editor!Backspace => Editor!Inv'
<1> SUFFICES ASSUME Editor!Inv, Editor!Backspace
             PROVE  Editor!Inv'
  OBVIOUS
<1> USE DEF Editor!lineVars, Editor!cursorVars, Editor!shiftVars, Editor!runVars
<1> DEFINE n == Len(meant)
           r == cursorY * Width
<1>1. /\ Editor!TypeOK /\ typing /\ typingCurrent = n /\ Editor!Cursor = typingStart + n
      /\ \A k \in 1 .. n : typingBuffer[k - 1] = meant[k] /\ screen[typingStart + k - 1] = meant[k]
  BY DEF Editor!Inv, Editor!LineShown, Editor!Backspace
<1>2. /\ meant \in Seq(Editor!Chars) /\ n \in Nat /\ n \in 0 .. BufferSize - 1
      /\ cursorX \in 0 .. Width - 1 /\ cursorY \in 0 .. Height - 1
      /\ typingStart \in Nat /\ Width \in Nat /\ BufferSize \in Nat /\ Height \in Nat
      /\ screen \in [Editor!Cells -> Editor!Chars \cup {Editor!Other}]
  BY <1>1, EditorAssumed DEF Editor!TypeOK
<1>3. /\ r \in Nat /\ (cursorY - 1) * Width = r - Width /\ Editor!Cursor = cursorX + r
      /\ Editor!Cursor \in 0 .. Width * Height - 1
  BY <1>2, CellOf DEF Editor!Cursor
<1>4. ~(typing' /\ owed' > 0) /\ Editor!RunsOnce' /\ Editor!ShiftTracks' /\ typing'
  <2>1. typing' /\ UNCHANGED <<typingBuffer, running, done, owed, shifts, shift, missed, keysDown>>
    BY DEF Editor!Backspace
  <2> QED
    BY <1>1, <2>1, CommandKept DEF Editor!Inv, Editor!RunsOnce, Editor!ShiftTracks
<1>5. CASE meant = <<>>
  <2>1. ~(Editor!Cursor > typingStart)
    BY <1>1, <1>2, <1>5
  <2>2. UNCHANGED Editor!vars
    BY <1>5, <2>1 DEF Editor!Backspace, Editor!vars
  <2>3. Editor!TypeOK' /\ Editor!LineShown'
    BY <2>2 DEF Editor!Inv, Editor!vars, Editor!TypeOK, Editor!LineShown, Editor!Cursor
  <2> QED
    BY <1>4, <2>3 DEF Editor!Inv, Editor!RunsTheLine
<1>6. CASE meant # <<>>
  <2> DEFINE less == Editor!Front(meant)
  <2>1. n > 0
    BY <1>2, <1>6, EmptySeq
  <2>2. less \in Seq(Editor!Chars) /\ Len(less) = n - 1 /\ \A k \in 1 .. n - 1 : less[k] = meant[k]
    <3>1. n - 1 \in Int /\ \A k \in 1 .. n - 1 : meant[k] \in Editor!Chars
      BY <1>2, <2>1, ElementOfSeq
    <3>2. less = SubSeq(meant, 1, n - 1)
      BY DEF Editor!Front
    <3> HIDE DEF less
    <3>3. /\ less \in Seq(Editor!Chars)
          /\ Len(less) = IF 1 <= n - 1 THEN (n - 1) - 1 + 1 ELSE 0
          /\ \A k \in 1 .. (n - 1) - 1 + 1 : less[k] = meant[1 + k - 1]
      BY <3>1, <3>2, SubSeqProperties
    <3>4. (n - 1) - 1 + 1 = n - 1
      BY <1>2
    <3>5. Len(less) = n - 1
      <4>1. \A m \in Nat : m > 0 => (IF 1 <= m - 1 THEN (m - 1) - 1 + 1 ELSE 0) = m - 1
        OBVIOUS
      <4>2. Len(less) = IF 1 <= n - 1 THEN (n - 1) - 1 + 1 ELSE 0
        BY <3>3
      <4> HIDE DEF n
      <4> QED
        BY <1>2, <2>1, <4>1, <4>2
    <3>6. ASSUME NEW k \in 1 .. n - 1
          PROVE  less[k] = meant[k]
      <4>1. less[k] = meant[1 + k - 1]
        BY <3>3, <3>4
      <4>2. 1 + k - 1 = k
        BY <1>2
      <4> QED
        BY <4>1, <4>2
    <3> QED
      BY <3>3, <3>5, <3>6
  <2>3. Editor!Cursor > typingStart
    BY <1>1, <1>2, <2>1
  <2>4. /\ meant' = less /\ typingCurrent' = typingCurrent - 1
        /\ cursorX' = IF cursorX > 0 THEN cursorX - 1 ELSE Width - 1
        /\ cursorY' = IF cursorX > 0 THEN cursorY ELSE cursorY - 1
        /\ screen' = [screen EXCEPT ![Editor!Cursor - 1] = Editor!Other]
        /\ typingStart' = typingStart /\ typingBuffer' = typingBuffer
    BY <1>6, <2>3 DEF Editor!Backspace
  <2> HIDE DEF n, r, less
  <2>5. cursorX = 0 => cursorY > 0
    <3> SUFFICES ASSUME cursorX = 0, cursorY = 0
                 PROVE  FALSE
      BY <1>2
    <3>1. r = 0
      BY <1>2 DEF r
    <3> QED
      BY <1>1, <1>2, <1>3, <2>1, <3>1
  <2>6. cursorX' \in 0 .. Width - 1 /\ cursorY' \in 0 .. Height - 1
    BY <1>2, <2>4, <2>5
  <2>7. Editor!Cursor' = typingStart' + (n - 1)
    <3>1. cursorX' + cursorY' * Width = cursorX + r - 1
      <4>1. CASE cursorX > 0
        BY <1>2, <1>3, <2>4, <4>1 DEF r
      <4>2. CASE cursorX = 0
        BY <1>2, <1>3, <2>4, <4>2
      <4> QED
        BY <1>2, <4>1, <4>2
    <3> QED
      BY <1>1, <1>2, <1>3, <2>4, <3>1 DEF Editor!Cursor
  <2>8. screen' \in [Editor!Cells -> Editor!Chars \cup {Editor!Other}]
    BY <1>2, <2>4
  <2>9. Editor!TypeOK'
    <3>1. typingCurrent' \in 0 .. BufferSize - 1
      BY <1>1, <1>2, <2>1, <2>4
    <3>2. UNCHANGED <<typing, typingStart, typingBuffer, shifts, keysDown, shift, caps, missed,
                      running, done>>
      BY DEF Editor!Backspace
    <3> QED
      BY <1>1, <2>2, <2>4, <2>6, <2>8, <3>1, <3>2 DEF Editor!TypeOK
  <2>10. ASSUME NEW k \in 1 .. n - 1
         PROVE  typingBuffer'[k - 1] = less[k] /\ screen'[typingStart' + k - 1] = less[k]
    <3>1. /\ Editor!Cursor = typingStart + n /\ Editor!Cursor \in Nat
          /\ Editor!Cursor <= Width * Height - 1 /\ Width * Height \in Nat
      BY <1>1, <1>3, EditorAssumed
    <3>2. /\ k \in 1 .. n /\ typingStart + k - 1 # Editor!Cursor - 1
          /\ typingStart + k - 1 \in 0 .. Width * Height - 1
      <4> DEFINE area == Width * Height
      <4> HIDE DEF area
      <4>1. \A s, m, e \in Nat : s + m <= e - 1 =>
              \A j \in 1 .. m - 1 : /\ j \in 1 .. m /\ s + j - 1 # (s + m) - 1
                                    /\ s + j - 1 \in 0 .. e - 1
        OBVIOUS
      <4> QED
        BY <1>2, <3>1, <4>1
    <3>3. typingStart + k - 1 \in Editor!Cells
      BY <3>2 DEF Editor!Cells
    <3> QED
      BY <1>1, <1>2, <2>2, <2>4, <3>2, <3>3
  <2>11. Editor!LineShown'
    BY <1>1, <2>2, <2>4, <2>7, <2>10 DEF Editor!LineShown
  <2> QED
    BY <1>4, <2>9, <2>11 DEF Editor!Inv, Editor!RunsTheLine
<1> QED
  BY <1>5, <1>6

(* Enter ends the line in the buffer where the keys pressed have ended it, *)
(* whatever has been erased behind that.                                   *)
LEMMA EnterPreserves == Editor!Inv /\ Editor!Enter => Editor!Inv'
<1> SUFFICES ASSUME Editor!Inv, Editor!Enter
             PROVE  Editor!Inv'
  OBVIOUS
<1> DEFINE n == Len(meant)
<1>1. /\ Editor!TypeOK /\ typing /\ typingCurrent = n
      /\ \A k \in 1 .. n : typingBuffer[k - 1] = meant[k]
      /\ owed = 0 /\ ~running /\ done
  BY DEF Editor!Inv, Editor!LineShown, Editor!Enter, Editor!RunsOnce
<1>2. /\ meant \in Seq(Editor!Chars) /\ n \in Nat /\ n \in 0 .. BufferSize - 1
      /\ BufferSize \in Nat
      /\ typingBuffer \in [0 .. BufferSize - 1 -> Editor!Chars \cup {Editor!End}]
  BY <1>1, EditorAssumed DEF Editor!TypeOK
<1>3. /\ typing' = FALSE /\ typingBuffer' = [typingBuffer EXCEPT ![n] = Editor!End]
      /\ owed' = (IF meant = <<>> THEN owed ELSE owed + 1)
      /\ UNCHANGED <<typingCurrent, meant, shifts, shift, caps, keysDown, missed, running, done>>
  BY <1>1 DEF Editor!Enter, Editor!shiftVars
<1>4. Editor!Now \in Terminals
  BY <1>1, NowIs
<1>5. /\ cursorX' \in 0 .. Width - 1 /\ cursorY' \in 0 .. Height - 1
      /\ screen' \in [Editor!Cells -> Editor!Chars \cup {Editor!Other}]
      /\ typingStart' \in 0 .. Modulus - 1
  BY <1>4, NewlineKind, NowBecomes DEF Editor!Enter
<1>6. typingBuffer' \in [0 .. BufferSize - 1 -> Editor!Chars \cup {Editor!End}]
  BY <1>2, <1>3
<1>7. Editor!TypeOK'
  BY <1>1, <1>2, <1>3, <1>5, <1>6 DEF Editor!TypeOK
<1>8. Editor!Command' = meant
  <2>1. typingBuffer'[n] = Editor!End
    BY <1>2, <1>3
  <2>2. \A k \in 1 .. n : typingBuffer'[k - 1] = meant[k] /\ meant[k] \in Editor!Chars
    <3> SUFFICES ASSUME NEW k \in 1 .. n
                 PROVE  typingBuffer'[k - 1] = meant[k] /\ meant[k] \in Editor!Chars
      OBVIOUS
    <3>1. k - 1 \in 0 .. BufferSize - 1 /\ k - 1 # n
      BY <1>2
    <3>2. typingBuffer'[k - 1] = typingBuffer[k - 1]
      BY <1>2, <1>3, <3>1
    <3> QED
      BY <1>1, <1>2, <3>2, ElementOfSeq
  <2>3. \A k \in 0 .. n - 1 : typingBuffer'[k] \in Editor!Chars
    <3> SUFFICES ASSUME NEW k \in 0 .. n - 1
                 PROVE  typingBuffer'[k] \in Editor!Chars
      OBVIOUS
    <3>1. k + 1 \in 1 .. n /\ (k + 1) - 1 = k
      BY <1>2
    <3> QED
      BY <2>2, <3>1
  <2>4. Editor!Min({k \in DOMAIN typingBuffer' : typingBuffer'[k] = Editor!End}
                     \cup {BufferSize}) = n
    BY <1>2, <1>6, <2>1, <2>3, CommandIs
  <2>5. Editor!Command' = [k \in 1 .. n |-> typingBuffer'[k - 1]]
    BY <2>4 DEF Editor!Command
  <2>6. meant = [k \in 1 .. n |-> meant[k]]
    BY <1>2
  <2>7. [k \in 1 .. n |-> typingBuffer'[k - 1]] = [k \in 1 .. n |-> meant[k]]
    BY <2>2
  <2> QED
    BY <2>5, <2>6, <2>7
<1>9. Editor!RunsTheLine'
  BY <1>3, <1>8 DEF Editor!RunsTheLine
<1>10. Editor!RunsOnce'
  BY <1>1, <1>3, <1>8 DEF Editor!RunsOnce
<1>11. Editor!ShiftTracks' /\ Editor!LineShown'
  BY <1>3 DEF Editor!Inv, Editor!ShiftTracks, Editor!LineShown
<1> QED
  BY <1>7, <1>9, <1>10, <1>11 DEF Editor!Inv

(* The shift keys and caps lock leave the line alone.                      *)
LEMMA KeysPreserve ==
  ASSUME Editor!Inv,
         Editor!CapsLock \/ \E key \in Editor!Shifts, pressed \in BOOLEAN : Editor!Shift(key, pressed)
  PROVE  Editor!Inv'
<1> USE DEF Editor!lineVars, Editor!cursorVars, Editor!shiftVars, Editor!runVars
<1>1. UNCHANGED <<Editor!cursorVars, Editor!lineVars, Editor!runVars>>
  BY DEF Editor!CapsLock, Editor!Shift
<1>2. Editor!Command' = Editor!Command
  BY <1>1, CommandKept
<1>3. /\ shifts' \subseteq Editor!Shifts /\ keysDown' \subseteq Editor!Shifts
      /\ shift' \in BOOLEAN /\ caps' \in BOOLEAN /\ missed' \in BOOLEAN
      /\ Editor!ShiftTracks'
  <2>1. CASE Editor!CapsLock
    BY <2>1 DEF Editor!CapsLock, Editor!Inv, Editor!TypeOK, Editor!ShiftTracks
  <2>2. ASSUME NEW key \in Editor!Shifts, NEW pressed \in BOOLEAN, Editor!Shift(key, pressed)
        PROVE  /\ shifts' \subseteq Editor!Shifts /\ keysDown' \subseteq Editor!Shifts
               /\ shift' \in BOOLEAN /\ caps' \in BOOLEAN /\ missed' \in BOOLEAN
               /\ Editor!ShiftTracks'
    BY <2>2 DEF Editor!Shift, Editor!Combine, Editor!Inv, Editor!TypeOK, Editor!ShiftTracks
  <2> QED
    BY <2>1, <2>2
<1>4. Editor!TypeOK'
  BY <1>1, <1>3 DEF Editor!Inv, Editor!TypeOK
<1>5. Editor!LineShown'
  BY <1>1 DEF Editor!Inv, Editor!LineShown, Editor!Cursor
<1>6. Editor!RunsTheLine' /\ Editor!RunsOnce'
  BY <1>1, <1>2 DEF Editor!Inv, Editor!RunsTheLine, Editor!RunsOnce
<1> QED
  BY <1>3, <1>4, <1>5, <1>6 DEF Editor!Inv

LEMMA CharacterPreserves == Editor!Inv /\ Editor!Character => Editor!Inv'
<1> SUFFICES ASSUME Editor!Inv, Editor!Character
             PROVE  Editor!Inv'
  OBVIOUS
<1> DEFINE n == Len(meant)
           c == IF shift # caps THEN "A" ELSE "a"
           line == Append(meant, c)
           u == Editor!PutCharacter(Editor!Now, c)
<1>1. /\ Editor!TypeOK /\ typing /\ typingCurrent = n /\ Shows(Editor!Now, meant)
      /\ Buffered(typingBuffer, meant) /\ owed = 0 /\ ~running /\ done
  BY ShownIs DEF Editor!Inv, Editor!Character, Editor!RunsOnce
<1>2. /\ meant \in Seq(Editor!Chars) /\ n \in Nat /\ BufferSize \in Nat /\ c \in Editor!Chars
      /\ typingBuffer \in [0 .. BufferSize - 1 -> Editor!Chars \cup {Editor!End}]
  BY <1>1, EditorAssumed DEF Editor!TypeOK, Editor!Chars
<1>3. /\ n < BufferSize - 1 /\ typingBuffer' = [typingBuffer EXCEPT ![n] = c]
      /\ typingCurrent' = n + 1 /\ meant' = line /\ Editor!Becomes(u)
      /\ UNCHANGED <<typing, shifts, shift, caps, keysDown, missed, running, done, owed>>
  BY <1>1 DEF Editor!Character, Editor!shiftVars, Editor!runVars
<1>4. Editor!Now \in Terminals
  BY <1>1, NowIs
<1>5. line \in Seq(Editor!Chars) /\ Len(line) = n + 1 /\ line[n + 1] = c
      /\ \A k \in 1 .. n : line[k] = meant[k]
  BY <1>2, AppendProperties
<1> HIDE DEF c
<1>6. u \in Terminals /\ Shows(u, line)
  BY <1>1, <1>2, <1>3, <1>4, PutKind, PutShows
<1> HIDE DEF n, line, u
<1>7. /\ cursorX' \in 0 .. Width - 1 /\ cursorY' \in 0 .. Height - 1
      /\ screen' \in [Editor!Cells -> Editor!Chars \cup {Editor!Other}]
      /\ typingStart' \in 0 .. Modulus - 1 /\ Editor!Now' = u
  BY <1>3, <1>6, NowBecomes
<1>8. typingBuffer' \in [0 .. BufferSize - 1 -> Editor!Chars \cup {Editor!End}]
  BY <1>2, <1>3
<1>9. Editor!TypeOK'
  <2>1. typingCurrent' \in 0 .. BufferSize - 1
    BY <1>2, <1>3
  <2> QED
    BY <1>1, <1>3, <1>5, <1>7, <1>8, <2>1 DEF Editor!TypeOK
<1>10. Buffered(typingBuffer', line)
  <2> SUFFICES ASSUME NEW k \in 1 .. n + 1
               PROVE  typingBuffer'[k - 1] = line[k]
    BY <1>5 DEF Buffered
  <2>1. k - 1 \in 0 .. BufferSize - 1
    BY <1>2, <1>3
  <2>2. CASE k = n + 1
    <3>1. k - 1 = n
      BY <1>2, <2>2
    <3> QED
      BY <1>2, <1>3, <1>5, <2>1, <2>2, <3>1
  <2>3. CASE k # n + 1
    <3>1. k \in 1 .. n /\ k - 1 # n
      BY <1>2, <2>3
    <3>2. typingBuffer[k - 1] = meant[k]
      BY <1>1, <3>1 DEF Buffered, n
    <3> QED
      BY <1>2, <1>3, <1>5, <2>1, <3>1, <3>2
  <2> QED
    BY <2>2, <2>3
<1>11. Editor!LineShown'
  <2>1. /\ u.x = cursorX' /\ u.y = cursorY' /\ u.cells = screen' /\ u.start = typingStart'
    BY <1>7 DEF Editor!Now
  <2>2. /\ cursorX' + cursorY' * Width = typingStart' + typingCurrent'
        /\ typingCurrent' = Len(meant')
    BY <1>3, <1>5, <1>6, <2>1 DEF Shows
  <2>3. \A k \in 1 .. n + 1 : /\ typingBuffer'[k - 1] = line[k]
                              /\ screen'[typingStart' + k - 1] = line[k]
    BY <1>5, <1>6, <1>10, <2>1 DEF Shows, Buffered
  <2> QED
    BY <1>3, <1>5, <2>2, <2>3 DEF Editor!LineShown, Editor!Cursor
<1>12. Editor!RunsTheLine' /\ Editor!RunsOnce' /\ Editor!ShiftTracks'
  BY <1>1, <1>3 DEF Editor!Inv, Editor!RunsTheLine, Editor!RunsOnce, Editor!ShiftTracks
<1> QED
  BY <1>9, <1>11, <1>12 DEF Editor!Inv

(* What commands and programs print is out of the line's reach.            *)
LEMMA OutputPreserves == Editor!Inv /\ Editor!Output => Editor!Inv'
<1> SUFFICES ASSUME Editor!Inv, Editor!Output
             PROVE  Editor!Inv'
  OBVIOUS
<1> USE DEF Editor!lineVars, Editor!shiftVars, Editor!runVars
<1>1. Editor!TypeOK /\ Editor!Now \in Terminals
  BY NowIs DEF Editor!Inv
<1>2. Editor!Other \in Editor!Chars \cup {Editor!Other}
  OBVIOUS
<1>3. PICK u \in Terminals : Editor!Becomes(u)
  BY <1>1, <1>2, PutKind, NewlineKind DEF Editor!Output
<1>4. ~typing /\ UNCHANGED <<Editor!lineVars, Editor!shiftVars, Editor!runVars>>
  BY DEF Editor!Output
<1>5. Editor!TypeOK'
  BY <1>1, <1>3, <1>4, NowBecomes DEF Editor!TypeOK
<1>6. Editor!Command' = Editor!Command
  BY <1>4, CommandKept
<1>7. /\ Editor!LineShown' /\ Editor!RunsTheLine' /\ Editor!RunsOnce' /\ Editor!ShiftTracks'
  BY <1>4, <1>6
  DEF Editor!Inv, Editor!LineShown, Editor!RunsTheLine, Editor!RunsOnce, Editor!ShiftTracks
<1> QED
  BY <1>5, <1>7 DEF Editor!Inv

(* The line that has been entered is executed in the next update, which    *)
(* then waits for its program: owed says that no other update does it.     *)
LEMMA StepPreserves == Editor!Inv /\ Editor!Step => Editor!Inv'
<1> SUFFICES ASSUME Editor!Inv, Editor!Step
             PROVE  Editor!Inv'
  OBVIOUS
<1> USE DEF Editor!shiftVars
<1>1. Editor!TypeOK /\ Editor!Now \in Terminals
  BY NowIs DEF Editor!Inv
<1>2. PICK how :
        LET runs == ~typing /\ ~running /\ Editor!Command # <<>>
            isDone == done /\ ~(runs /\ how = "starts")
        IN \E printed \in IF runs THEN Editor!Printed(how) ELSE {Editor!Now} :
             /\ done' = isDone
             /\ owed' = IF runs THEN owed - 1 ELSE owed
             /\ IF ~typing /\ isDone
                THEN /\ running' = FALSE /\ typing' = TRUE
                     /\ \E n \in Prompts : Editor!Becomes(Editor!Prompt(printed, n))
                     /\ typingCurrent' = 0 /\ meant' = <<>>
                ELSE /\ running' = Editor!MarkRun(runs, how)
                     /\ Editor!Becomes(printed)
                     /\ UNCHANGED <<typing, typingCurrent, meant>>
             /\ UNCHANGED <<typingBuffer, Editor!shiftVars>>
  BY DEF Editor!Step
<1> DEFINE runs == ~typing /\ ~running /\ Editor!Command # <<>>
           isDone == done /\ ~(runs /\ how = "starts")
<1>3. PICK printed :
        /\ printed \in IF runs THEN Editor!Printed(how) ELSE {Editor!Now}
        /\ done' = isDone
        /\ owed' = IF runs THEN owed - 1 ELSE owed
        /\ IF ~typing /\ isDone
           THEN /\ running' = FALSE /\ typing' = TRUE
                /\ \E n \in Prompts : Editor!Becomes(Editor!Prompt(printed, n))
                /\ typingCurrent' = 0 /\ meant' = <<>>
           ELSE /\ running' = Editor!MarkRun(runs, how)
                /\ Editor!Becomes(printed)
                /\ UNCHANGED <<typing, typingCurrent, meant>>
        /\ UNCHANGED <<typingBuffer, Editor!shiftVars>>
  BY <1>2
<1>4. printed \in Terminals
  <2>1. [Editor!Now EXCEPT !.x = 0, !.y = 0] \in Terminals
    <3>1. 0 \in 0 .. Width - 1 /\ 0 \in 0 .. Height - 1
      BY EditorAssumed
    <3> QED
      BY <1>1, <3>1 DEF Terminals
  <2>2. Editor!PutCharacter(Editor!Now, Editor!Other) \in Terminals
    BY <1>1, PutKind
  <2> QED
    BY <1>1, <1>3, <2>1, <2>2 DEF Editor!Printed
<1>5. /\ owed \in {0, 1} /\ (typing \/ running => owed = 0) /\ (~done => running)
      /\ (running => ~typing) /\ (~typing /\ ~running => (owed = 1 <=> Editor!Command # <<>>))
      /\ typing \in BOOLEAN /\ running \in BOOLEAN /\ done \in BOOLEAN
  BY <1>1 DEF Editor!Inv, Editor!RunsOnce, Editor!TypeOK
<1>6. owed' = 0
  BY <1>3, <1>5
<1>7. Editor!ShiftTracks'
  BY <1>3 DEF Editor!Inv, Editor!ShiftTracks
<1>8. CASE ~typing /\ isDone
  <2>1. /\ running' = FALSE /\ typing' = TRUE /\ done' /\ typingCurrent' = 0 /\ meant' = <<>>
        /\ UNCHANGED <<typingBuffer, Editor!shiftVars>>
    BY <1>3, <1>8
  <2>2. PICK n \in Prompts : Editor!Becomes(Editor!Prompt(printed, n))
    BY <1>3, <1>8
  <2> DEFINE u == Editor!Prompt(printed, n)
  <2>3. u \in Terminals /\ Shows(u, <<>>)
    BY <1>4, PromptKind
  <2> HIDE DEF u
  <2>4. /\ cursorX' \in 0 .. Width - 1 /\ cursorY' \in 0 .. Height - 1
        /\ screen' \in [Editor!Cells -> Editor!Chars \cup {Editor!Other}]
        /\ typingStart' \in 0 .. Modulus - 1 /\ Editor!Now' = u
    BY <2>2, <2>3, NowBecomes DEF u
  <2>5. Editor!TypeOK'
    <3>1. 0 \in 0 .. BufferSize - 1 /\ <<>> \in Seq(Editor!Chars)
      BY EditorAssumed
    <3> QED
      BY <1>1, <1>3, <2>1, <2>4, <3>1 DEF Editor!TypeOK
  <2>6. Editor!LineShown'
    <3>1. u.x = cursorX' /\ u.y = cursorY' /\ u.start = typingStart'
      BY <2>4 DEF Editor!Now
    <3>2. Len(meant') = 0 /\ 1 .. Len(meant') = {}
      BY <2>1
    <3>3. cursorX' + cursorY' * Width = typingStart' + typingCurrent'
      BY <2>1, <2>3, <3>1 DEF Shows
    <3> QED
      BY <2>1, <3>2, <3>3 DEF Editor!LineShown, Editor!Cursor
  <2> QED
    BY <1>6, <1>7, <2>1, <2>5, <2>6 DEF Editor!Inv, Editor!RunsTheLine, Editor!RunsOnce
<1>9. CASE ~(~typing /\ isDone)
  <2>1. /\ running' = Editor!MarkRun(runs, how) /\ done' = isDone /\ Editor!Becomes(printed)
        /\ UNCHANGED <<typing, typingCurrent, meant, typingBuffer, Editor!shiftVars>>
    BY <1>3, <1>9
  <2>2. /\ cursorX' \in 0 .. Width - 1 /\ cursorY' \in 0 .. Height - 1
        /\ screen' \in [Editor!Cells -> Editor!Chars \cup {Editor!Other}]
        /\ typingStart' \in 0 .. Modulus - 1
    BY <1>4, <2>1, NowBecomes
  <2>3. running' \in BOOLEAN /\ done' \in BOOLEAN
    BY <1>5, <2>1 DEF Editor!MarkRun
  <2>4. Editor!TypeOK'
    BY <1>1, <2>1, <2>2, <2>3 DEF Editor!TypeOK
  <2>5. CASE typing
    <3>1. running' = running /\ done' = done
      BY <1>5, <2>1, <2>5 DEF Editor!MarkRun
    <3>2. printed = Editor!Now
      BY <1>3, <2>5
    <3>3. UNCHANGED <<cursorX, cursorY, screen, typingStart>>
      BY <1>1, <2>1, <3>2, NowIs DEF Editor!Becomes
    <3>4. Editor!LineShown'
      BY <2>1, <3>3 DEF Editor!Inv, Editor!LineShown, Editor!Cursor
    <3> QED
      BY <1>5, <1>6, <1>7, <2>1, <2>4, <2>5, <3>1, <3>4
      DEF Editor!Inv, Editor!RunsTheLine, Editor!RunsOnce
  <2>6. CASE ~typing
    <3>1. ~isDone
      BY <1>9, <2>6
    <3>2. running' = TRUE /\ ~typing'
      BY <1>5, <2>1, <2>6, <3>1 DEF Editor!MarkRun
    <3> QED
      BY <1>6, <1>7, <2>4, <3>2
      DEF Editor!Inv, Editor!RunsTheLine, Editor!RunsOnce, Editor!LineShown
  <2> QED
    BY <2>5, <2>6
<1> QED
  BY <1>8, <1>9

LEMMA QuitPreserves == Editor!Inv /\ Editor!ProgramQuits => Editor!Inv'
<1> SUFFICES ASSUME Editor!Inv, Editor!ProgramQuits
             PROVE  Editor!Inv'
  OBVIOUS
<1> USE DEF Editor!lineVars, Editor!cursorVars, Editor!shiftVars
<1>1. /\ running /\ done' = TRUE
      /\ UNCHANGED <<running, owed, Editor!cursorVars, Editor!lineVars, Editor!shiftVars>>
  BY DEF Editor!ProgramQuits
<1>2. Editor!Command' = Editor!Command
  BY <1>1, CommandKept
<1>3. Editor!TypeOK' /\ Editor!LineShown'
  BY <1>1 DEF Editor!Inv, Editor!TypeOK, Editor!LineShown, Editor!Cursor
<1> QED
  BY <1>1, <1>2, <1>3
  DEF Editor!Inv, Editor!RunsTheLine, Editor!RunsOnce, Editor!ShiftTracks

(* The line that is shown, the line that is typed and the line that is     *)
(* executed are one, and it is executed once: for any size of the screen   *)
(* and the buffer, any prompt, and any mixture of keys, output, programs   *)
(* that end and lines that wrap and scroll.                                *)
THEOREM EditorHolds == AllSpec => []EditorInv
<1> DEFINE EditorPart == part = "editor" => Editor!Inv
<1>1. AllInit => EditorPart
  BY EditorInit DEF AllInit
<1>2. EditorPart /\ [AllNext]_allVars => EditorPart'
  <2> SUFFICES ASSUME part' = "editor", Editor!Inv, [Editor!Next]_(Editor!vars)
               PROVE  Editor!Inv'
    BY DEF AllNext, allVars, editorVars, Editor!vars, Editor!cursorVars, Editor!lineVars,
           Editor!shiftVars, Editor!runVars
  <2>1. CASE Editor!Next
    <3>1. CASE Editor!CapsLock \/ \E key \in Editor!Shifts, pressed \in BOOLEAN :
                                     Editor!Shift(key, pressed)
      BY <3>1, KeysPreserve
    <3> QED
      BY <2>1, <3>1, BackspacePreserves, EnterPreserves, CharacterPreserves, OutputPreserves,
         StepPreserves, QuitPreserves DEF Editor!Next
  <2>2. CASE UNCHANGED Editor!vars
    <3> USE DEF Editor!vars, Editor!cursorVars, Editor!lineVars, Editor!shiftVars, Editor!runVars
    <3>1. Editor!Command' = Editor!Command
      BY <2>2, CommandKept
    <3>2. Editor!TypeOK' /\ Editor!LineShown'
      BY <2>2 DEF Editor!Inv, Editor!TypeOK, Editor!LineShown, Editor!Cursor
    <3> QED
      BY <2>2, <3>1, <3>2
      DEF Editor!Inv, Editor!RunsTheLine, Editor!RunsOnce, Editor!ShiftTracks
  <2> QED
    BY <2>1, <2>2
<1>3. EditorPart => EditorInv
  BY DEF EditorInv
<1> HIDE DEF EditorPart
<1> QED
  BY <1>1, <1>2, <1>3, PTL DEF AllSpec

-----------------------------------------------------------------------------
(* The player and the enemy of the game.                                   *)

Positions == [x : Int, y : Int]

LEMMA GameAssumed ==
  /\ Parts \in Nat /\ Parts > 0 /\ NaN \notin Int
  /\ Stride \in Nat /\ Stride <= Parts /\ EnemyStride \in Nat /\ EnemyStride <= Parts
  /\ \A y \in DOMAIN Fields : y \in Nat /\ y > 0 /\ \A x \in Fields[y] : x \in Nat /\ x > 0
  /\ Player \in Positions /\ World!InRoom(World!CellAt(Player))
  /\ Enemy \in Positions /\ World!InRoom(World!CellAt(Enemy))
<1>1. World!GameAssumption
  BY ProgramsAssumption
<1>2. /\ Parts \in Nat \ {0} /\ NaN \notin Int /\ Stride \in 0 .. Parts
      /\ EnemyStride \in 0 .. Parts
      /\ DOMAIN Fields \subseteq Nat \ {0} /\ \A y \in DOMAIN Fields : Fields[y] \subseteq Nat \ {0}
  BY <1>1 DEF World!GameAssumption
<1>3. \A p \in {Player, Enemy} : p \in [x : Int, y : Int] /\ World!InRoom(World!CellAt(p))
  BY <1>1 DEF World!GameAssumption
<1> QED
  BY <1>2, <1>3 DEF Positions

(* What a number of parts is in cells.                                     *)
LEMMA CellBounds ==
  ASSUME NEW n \in Int
  PROVE  /\ World!Cell(n) \in Int
         /\ Parts * World!Cell(n) <= n /\ n < Parts * World!Cell(n) + Parts
<1>1. World!Cell(n) = n \div Parts /\ Parts \in Nat /\ Parts > 0
  BY GameAssumed DEF World!Cell
<1>2. \A a \in Int, b \in Nat : b > 0 =>
        /\ a \div b \in Int
        /\ a = b * (a \div b) + (a % b)
        /\ a % b \in Int /\ 0 <= a % b /\ a % b < b
  OBVIOUS
<1>3. /\ n \div Parts \in Int /\ n = Parts * (n \div Parts) + (n % Parts)
      /\ n % Parts \in Int /\ 0 <= n % Parts /\ n % Parts < Parts
  BY <1>1, <1>2
<1> DEFINE q == n \div Parts
           r == n % Parts
           k == Parts * q
<1> HIDE DEF q, r
<1>4. /\ q \in Int /\ n = k + r /\ r \in Int /\ 0 <= r /\ r < Parts
  BY <1>3 DEF q, r
<1>5. k \in Int
  BY <1>1, <1>4
<1>6. k <= n /\ n < k + Parts
  <2> HIDE DEF k
  <2> QED
    BY <1>1, <1>4, <1>5
<1> QED
  BY <1>1, <1>4, <1>6 DEF q

(* An update that moves somebody by no more than a cell leads to the same  *)
(* cell or the next one.                                                   *)
LEMMA NextCell ==
  ASSUME NEW n \in Int, NEW b \in Int, -Parts <= b, b <= Parts
  PROVE  World!Cell(n + b) - World!Cell(n) \in {-1, 0, 1}
<1> DEFINE p == World!Cell(n)
           q == World!Cell(n + b)
<1>1. /\ p \in Int /\ Parts * p <= n /\ n < Parts * p + Parts
      /\ q \in Int /\ Parts * q <= n + b /\ n + b < Parts * q + Parts
      /\ Parts \in Nat /\ Parts > 0
  BY CellBounds, GameAssumed
<1> HIDE DEF p, q
<1>2. Parts * p \in Int /\ Parts * q \in Int
  BY <1>1
<1>3. ~(q - p >= 2)
  <2> SUFFICES ASSUME q - p >= 2
               PROVE  FALSE
    OBVIOUS
  <2>1. Parts * 2 <= Parts * (q - p)
    BY <1>1, Times
  <2>2. Parts * (q - p) = Parts * q - Parts * p /\ Parts * 2 = Parts + Parts
    BY <1>1
  <2> QED
    BY <1>1, <1>2, <2>1, <2>2
<1>4. ~(p - q >= 2)
  <2> SUFFICES ASSUME p - q >= 2
               PROVE  FALSE
    OBVIOUS
  <2>1. Parts * 2 <= Parts * (p - q)
    BY <1>1, Times
  <2>2. Parts * (p - q) = Parts * p - Parts * q /\ Parts * 2 = Parts + Parts
    BY <1>1
  <2> QED
    BY <1>1, <1>2, <2>1, <2>2
<1>5. q - p \in {-1, 0, 1}
  BY <1>1, <1>3, <1>4
<1> QED
  BY <1>5 DEF p, q

(* From a cell of the room, the cells beside it that are no walls are in   *)
(* the room.                                                               *)
LEMMA RoomGrows ==
  ASSUME NEW c, NEW d \in World!Cells, World!InRoom(c), c = d \/ World!Beside(c, d)
  PROVE  World!InRoom(d)
BY DEF World!InRoom, World!Closed

(* A field that is open is a cell, and nowhere near where NaN leads.       *)
LEMMA OpenIsCell ==
  ASSUME NEW p, World!Open(p)
  PROVE  World!CellAt(p) \in World!Cells /\ p.x # NaN /\ p.y # NaN
<1>1. World!Cell(p.y) \in DOMAIN Fields /\ World!Cell(p.x) \in Fields[World!Cell(p.y)]
  BY DEF World!Open
<1>2. World!CellAt(p) \in World!Cells
  BY <1>1 DEF World!CellAt, World!Cells
<1>3. World!Cell(p.y) > 0 /\ World!Cell(p.x) > 0
  BY <1>1, GameAssumed
<1> QED
  BY <1>2, <1>3 DEF World!Cell

(* What is added to a position on an axis.                                 *)
Adds == -Parts .. Parts \cup {NaN}

LEMMA AlongX ==
  ASSUME NEW p \in Positions, World!InRoom(World!CellAt(p)), NEW b \in Adds,
         World!Open([p EXCEPT !.x = World!Sum(p.x, b)])
  PROVE  /\ [p EXCEPT !.x = World!Sum(p.x, b)] \in Positions
         /\ World!InRoom(World!CellAt([p EXCEPT !.x = World!Sum(p.x, b)]))
<1> DEFINE s == World!Sum(p.x, b)
           q == [p EXCEPT !.x = s]
<1>1. q.x = s /\ q.y = p.y /\ p.x \in Int /\ p.y \in Int
  BY DEF Positions
<1>2. World!CellAt(q) \in World!Cells /\ s # NaN
  BY <1>1, OpenIsCell
<1>3. b \in Int /\ -Parts <= b /\ b <= Parts /\ s = p.x + b
  BY <1>2, GameAssumed DEF Adds, World!Sum
<1> HIDE DEF s
<1>4. World!Cell(s) - World!Cell(p.x) \in {-1, 0, 1} /\ World!Cell(s) \in Int
      /\ World!Cell(p.x) \in Int
  BY <1>1, <1>3, NextCell, CellBounds
<1>5. World!CellAt(p) = World!CellAt(q) \/ World!Beside(World!CellAt(p), World!CellAt(q))
  BY <1>1, <1>4 DEF World!CellAt, World!Beside
<1>6. World!InRoom(World!CellAt(q))
  BY <1>2, <1>5, RoomGrows
<1>7. q \in Positions
  BY <1>1, <1>3 DEF Positions
<1> QED
  BY <1>6, <1>7 DEF s

LEMMA AlongY ==
  ASSUME NEW p \in Positions, World!InRoom(World!CellAt(p)), NEW b \in Adds,
         World!Open([p EXCEPT !.y = World!Sum(p.y, b)])
  PROVE  /\ [p EXCEPT !.y = World!Sum(p.y, b)] \in Positions
         /\ World!InRoom(World!CellAt([p EXCEPT !.y = World!Sum(p.y, b)]))
<1> DEFINE s == World!Sum(p.y, b)
           q == [p EXCEPT !.y = s]
<1>1. q.y = s /\ q.x = p.x /\ p.x \in Int /\ p.y \in Int
  BY DEF Positions
<1>2. World!CellAt(q) \in World!Cells /\ s # NaN
  BY <1>1, OpenIsCell
<1>3. b \in Int /\ -Parts <= b /\ b <= Parts /\ s = p.y + b
  BY <1>2, GameAssumed DEF Adds, World!Sum
<1> HIDE DEF s
<1>4. World!Cell(s) - World!Cell(p.y) \in {-1, 0, 1} /\ World!Cell(s) \in Int
      /\ World!Cell(p.y) \in Int
  BY <1>1, <1>3, NextCell, CellBounds
<1>5. World!CellAt(p) = World!CellAt(q) \/ World!Beside(World!CellAt(p), World!CellAt(q))
  BY <1>1, <1>4 DEF World!CellAt, World!Beside
<1>6. World!InRoom(World!CellAt(q))
  BY <1>2, <1>5, RoomGrows
<1>7. q \in Positions
  BY <1>1, <1>3 DEF Positions
<1> QED
  BY <1>6, <1>7 DEF s

(* Neither axis by itself leads out of the room, and the second one starts *)
(* where the first one has led.                                            *)
LEMMA MoveStays ==
  ASSUME NEW p \in Positions, World!InRoom(World!CellAt(p)), NEW by, by.x \in Adds, by.y \in Adds
  PROVE  World!move(p, by) \in Positions /\ World!InRoom(World!CellAt(World!move(p, by)))
<1> DEFINE east == [p EXCEPT !.x = World!Sum(p.x, by.x)]
           along == IF World!Open(east) THEN east ELSE p
           south == [along EXCEPT !.y = World!Sum(p.y, by.y)]
<1>1. along \in Positions /\ World!InRoom(World!CellAt(along)) /\ along.y = p.y
  <2>1. CASE World!Open(east)
    BY <2>1, AlongX DEF Positions
  <2>2. CASE ~World!Open(east)
    BY <2>2
  <2> QED
    BY <2>1, <2>2
<1>2. World!move(p, by) = IF World!Open(south) THEN south ELSE along
  BY DEF World!move
<1> HIDE DEF along
<1>3. World!Open(south) => south \in Positions /\ World!InRoom(World!CellAt(south))
  BY <1>1, AlongY
<1> QED
  BY <1>1, <1>2, <1>3

GameInv ==
  /\ player \in Positions /\ World!InRoom(World!CellAt(player))
  /\ enemy \in Positions /\ World!InRoom(World!CellAt(enemy))

LEMMA GameNext == GameInv /\ [World!update]_(World!vars) => GameInv'
<1> SUFFICES ASSUME GameInv, World!update
             PROVE  GameInv'
  BY DEF World!vars, GameInv
<1>1. PICK by \in World!Walks \cup {World!Still} :
        /\ player' = World!move(player, by)
        /\ IF World!Far(player', enemy)
             THEN \E chase \in World!Chases(enemy, player') : enemy' = World!move(enemy, chase)
             ELSE UNCHANGED enemy
  BY DEF World!update
<1>2. by.x \in Adds /\ by.y \in Adds
  BY GameAssumed DEF World!Walks, World!Still, Adds
<1>3. player' \in Positions /\ World!InRoom(World!CellAt(player'))
  BY <1>1, <1>2, MoveStays DEF GameInv
<1>4. enemy' \in Positions /\ World!InRoom(World!CellAt(enemy'))
  <2>1. CASE World!Far(player', enemy)
    <3>1. PICK chase \in World!Chases(enemy, player') : enemy' = World!move(enemy, chase)
      BY <1>1, <2>1
    <3>2. chase.x \in Adds /\ chase.y \in Adds
      BY GameAssumed DEF World!Chases, Adds
    <3> QED
      BY <3>1, <3>2, MoveStays DEF GameInv
  <2>2. CASE ~World!Far(player', enemy)
    BY <1>1, <2>2 DEF GameInv
  <2> QED
    BY <2>1, <2>2
<1>5. World!InRoom(World!CellAt(player))' /\ World!InRoom(World!CellAt(enemy))'
  BY <1>3, <1>4 DEF World!InRoom, World!CellAt
<1> QED
  BY <1>3, <1>4, <1>5 DEF GameInv

(* On any map with a wall all around, nobody gets into a wall or another   *)
(* room, or anywhere that is not a number, as long as an update moves them *)
(* by no more than a cell.                                                 *)
THEOREM EveryoneStaysInRoom == AllSpec => []StaysInRoom
<1> DEFINE GamePart == part = "game" => GameInv
<1>1. AllInit => GamePart
  BY GameAssumed DEF AllInit, World!Init, GameInv, World!InRoom, World!CellAt
<1>2. GamePart /\ [AllNext]_allVars => GamePart'
  <2> SUFFICES ASSUME part' = "game", GameInv, [World!update]_(World!vars)
               PROVE  GameInv'
    BY DEF AllNext, allVars, gameVars, World!vars
  <2> QED
    BY GameNext
<1>3. GamePart => StaysInRoom
  BY DEF GameInv, StaysInRoom, World!TypeOK, World!StaysInRoom, Positions
<1> HIDE DEF GamePart
<1> QED
  BY <1>1, <1>2, <1>3, PTL DEF AllSpec
-----------------------------------------------------------------------------
(* The file store.                                                         *)
Texts == Seq(Letters) \ {<<>>}

(* The store's operators on sets are the library's.                        *)
LEMMA StoreSets ==
  \A S : /\ Store!IsFiniteSet(S) <=> IsFiniteSet(S)
         /\ Store!Cardinality(S) = Cardinality(S)
         /\ Store!Min(S) = Min(S)
<1>1. \A S : Store!IsFiniteSet(S) <=> IsFiniteSet(S)
  BY DEF IsFiniteSet, Store!IsFiniteSet
<1>2. \A S : Store!Cardinality(S) = Cardinality(S)
  BY DEF Cardinality, Store!Cardinality
<1>3. \A S : Store!Min(S) = Min(S)
  BY DEF Min, Store!Min
<1> QED
  BY <1>1, <1>2, <1>3

LEMMA StoreAssumed ==
  /\ BootFiles \subseteq Names /\ IsFiniteSet(BootFiles)
  /\ Lines \subseteq Seq(Letters) /\ "/" \in Letters
  /\ \A n \in Names : n \in Texts /\ n[1] = "/" /\ n[Len(n)] # "/"
<1>1. Store!FileStoreAssumption
  BY ProgramsAssumption
<1>2. /\ BootFiles \subseteq Names /\ IsFiniteSet(BootFiles)
      /\ Lines \subseteq Seq(Letters) /\ "/" \in Letters
      /\ Names \subseteq Seq(Letters) \ {<<>>}
      /\ \A n \in Names : n[1] = "/" /\ Store!Last(n) # "/"
  BY <1>1, StoreSets DEF Store!FileStoreAssumption
<1>3. Names \subseteq Texts
  BY <1>2 DEF Texts
<1>4. \A n \in Names : n[Len(n)] # "/"
  BY <1>2 DEF Store!Last
<1> QED
  BY <1>2, <1>3, <1>4

(* A text, and what it begins with.                                        *)
LEMMA TextIs ==
  ASSUME NEW s \in Texts
  PROVE  /\ s \in Seq(Letters) /\ Len(s) \in Nat /\ Len(s) > 0
         /\ DOMAIN s = 1 .. Len(s)
BY EmptySeq, LenProperties DEF Texts

LEMMA BeginningIs ==
  ASSUME NEW s \in Texts, NEW m \in 1 .. Len(s)
  PROVE  /\ SubSeq(s, 1, m) \in Texts /\ Len(SubSeq(s, 1, m)) = m
         /\ \A k \in 1 .. m : SubSeq(s, 1, m)[k] = s[k]
<1>1. s \in Seq(Letters) /\ Len(s) \in Nat /\ m \in Nat /\ 1 <= m /\ m <= Len(s)
  BY TextIs
<1>2. /\ SubSeq(s, 1, m) \in Seq(Letters) /\ Len(SubSeq(s, 1, m)) = m
      /\ \A k \in 1 .. m : SubSeq(s, 1, m)[k] = s[k]
  BY <1>1, SubSeqProperties
<1>3. SubSeq(s, 1, m) # <<>>
  BY <1>1, <1>2, EmptySeq
<1> QED
  BY <1>2, <1>3 DEF Texts

(* s is what t begins with.                                                *)
LEMMA PrefixIs ==
  ASSUME NEW s \in Texts, NEW t \in Texts
  PROVE  /\ Store!IsPrefix(s, t) <=> Len(s) <= Len(t) /\ \A k \in 1 .. Len(s) : s[k] = t[k]
         /\ Store!IsPrefix(s, t) => s = SubSeq(t, 1, Len(s))
<1>1. Len(s) \in 1 .. Len(s) /\ Len(s) \in Nat /\ Len(t) \in Nat /\ s \in Seq(Letters)
  BY TextIs
<1>2. SubSeq(s, 1, Len(s)) = s
  <2>1. /\ SubSeq(s, 1, Len(s)) \in Texts /\ Len(SubSeq(s, 1, Len(s))) = Len(s)
        /\ \A k \in 1 .. Len(s) : SubSeq(s, 1, Len(s))[k] = s[k]
    BY <1>1, BeginningIs
  <2> QED
    BY <1>1, <2>1, SeqEqual, TextIs
<1>3. ASSUME Len(s) <= Len(t)
      PROVE  /\ SubSeq(t, 1, Len(s)) \in Texts /\ Len(SubSeq(t, 1, Len(s))) = Len(s)
             /\ \A k \in 1 .. Len(s) : SubSeq(t, 1, Len(s))[k] = t[k]
  <2>1. Len(s) \in 1 .. Len(t)
    BY <1>1, <1>3
  <2> QED
    BY <2>1, BeginningIs
<1>4. ASSUME Len(s) <= Len(t), \A k \in 1 .. Len(s) : s[k] = t[k]
      PROVE  s = SubSeq(t, 1, Len(s))
  BY <1>1, <1>3, <1>4, SeqEqual, TextIs
<1>5. ASSUME Len(s) <= Len(t), s = SubSeq(t, 1, Len(s))
      PROVE  \A k \in 1 .. Len(s) : s[k] = t[k]
  BY <1>3, <1>5
<1> QED
  BY <1>2, <1>4, <1>5 DEF Store!IsPrefix

(* Typing a line makes a longer text.                                      *)
LEMMA PathIs ==
  ASSUME NEW s \in Texts, NEW l \in Seq(Letters)
  PROVE  s \o l \in Texts
<1>1. s \o l \in Seq(Letters) /\ Len(s \o l) = Len(s) + Len(l) /\ Len(l) \in Nat /\ Len(s) > 0
      /\ Len(s) \in Nat
  BY TextIs, ConcatProperties, LenProperties
<1>2. s \o l # <<>>
  BY <1>1, EmptySeq
<1> QED
  BY <1>1, <1>2 DEF Texts

(* Numbers below a bound have a greatest.                                  *)
LEMMA GreatestOf ==
  ASSUME NEW n \in Nat, NEW S, S \subseteq 1 .. n, S # {}
  PROVE  Store!Max(S) \in S /\ \A k \in S : k <= Store!Max(S)
<1> DEFINE T == {n - k : k \in S}
<1>1. T \subseteq Nat /\ T # {}
  <2>1. ASSUME NEW k \in S PROVE n - k \in Nat
    <3>1. k \in 1 .. n
      OBVIOUS
    <3> QED
      BY <3>1
  <2> QED
    BY <2>1
<1>2. Min(T) \in T /\ \A t \in T : Min(T) <= t
  <2> HIDE DEF T
  <2> QED
    BY <1>1, LeastOf
<1>3. PICK m \in S : Min(T) = n - m
  BY <1>2
<1>4. ASSUME NEW k \in S PROVE m >= k
  <2>1. n - k \in T
    OBVIOUS
  <2>2. n - m <= n - k /\ m \in 1 .. n /\ k \in 1 .. n
    BY <1>2, <1>3, <2>1
  <2> QED
    BY <2>2
<1>5. Store!Max(S) \in S /\ \A k \in S : Store!Max(S) >= k
  BY <1>4 DEF Store!Max
<1>6. \A k \in S : k \in Nat
  OBVIOUS
<1> QED
  BY <1>5, <1>6

(* A folder's name is a text between two slashes.                          *)
LEMMA FolderIs ==
  ASSUME NEW d \in Store!Folders
  PROVE  /\ d \in Texts /\ d[1] = "/" /\ d[Len(d)] = "/"
         /\ d # Store!Root => Len(d) > 1
<1>1. CASE d = Store!Root
  <2>1. d = <<"/">> /\ "/" \in Letters
    BY <1>1, StoreAssumed DEF Store!Root
  <2>2. d \in Seq(Letters) /\ Len(d) = 1 /\ d[1] = "/"
    BY <2>1
  <2>3. d # <<>>
    BY <2>1
  <2> QED
    BY <1>1, <2>2, <2>3 DEF Texts
<1>2. CASE d # Store!Root
  <2>1. PICK n \in Names : \E j \in Store!Slashes(n) : d = SubSeq(n, 1, j)
    BY <1>2 DEF Store!Folders
  <2>a. PICK i \in Store!Slashes(n) : d = SubSeq(n, 1, i)
    BY <2>1
  <2>2. n \in Texts /\ n[1] = "/" /\ i \in 1 .. Len(n) /\ n[i] = "/" /\ Len(n) \in Nat
    BY <2>a, StoreAssumed, TextIs DEF Store!Slashes
  <2>3. d \in Texts /\ Len(d) = i /\ \A k \in 1 .. i : d[k] = n[k]
    BY <2>a, <2>2, BeginningIs
  <2>4. d[1] = "/" /\ d[Len(d)] = "/"
    BY <2>2, <2>3
  <2>5. Len(d) # 1
    <3> SUFFICES ASSUME Len(d) = 1 PROVE FALSE
      OBVIOUS
    <3>1. "/" \in Letters /\ <<"/">> \in Seq(Letters) /\ Len(<<"/">>) = 1 /\ <<"/">>[1] = "/"
      BY StoreAssumed
    <3>2. d = <<"/">>
      <4>1. \A k \in 1 .. 1 : d[k] = <<"/">>[k]
        BY <2>4, <3>1
      <4> QED
        BY <2>3, <3>1, <4>1, SeqEqual, TextIs
    <3> QED
      BY <1>2, <3>2 DEF Store!Root
  <2> QED
    BY <2>2, <2>3, <2>4, <2>5
<1> QED
  BY <1>1, <1>2

(* What begins a file's name and ends in a slash is a folder.              *)
LEMMA FolderOf ==
  ASSUME NEW n \in Names, NEW s \in Texts, s[Len(s)] = "/", Store!IsPrefix(s, n)
  PROVE  s \in Store!Folders
<1>1. /\ n \in Texts /\ s = SubSeq(n, 1, Len(s)) /\ Len(s) <= Len(n)
      /\ \A k \in 1 .. Len(s) : s[k] = n[k]
  BY StoreAssumed, PrefixIs
<1>2. /\ Len(s) \in Nat /\ Len(s) > 0 /\ Len(n) \in Nat /\ DOMAIN n = 1 .. Len(n)
  BY <1>1, TextIs
<1>3. Len(s) \in Store!Slashes(n)
  BY <1>1, <1>2 DEF Store!Slashes
<1> QED
  BY <1>1, <1>3 DEF Store!Folders

LEMMA PrefixOfPrefix ==
  ASSUME NEW s \in Texts, NEW t \in Texts, NEW u \in Texts,
         Store!IsPrefix(s, t), Store!IsPrefix(t, u)
  PROVE  Store!IsPrefix(s, u)
<1>1. /\ Len(s) <= Len(t) /\ \A k \in 1 .. Len(s) : s[k] = t[k]
      /\ Len(t) <= Len(u) /\ \A k \in 1 .. Len(t) : t[k] = u[k]
  BY PrefixIs
<1>2. Len(s) \in Nat /\ Len(t) \in Nat /\ Len(u) \in Nat
  BY TextIs
<1>3. Len(s) <= Len(u) /\ \A k \in 1 .. Len(s) : s[k] = u[k]
  BY <1>1, <1>2
<1> QED
  BY <1>3, PrefixIs

(* A folder but the root is one that a name begins with.                   *)
LEMMA FolderBegins ==
  ASSUME NEW d \in Store!Folders, d # Store!Root
  PROVE  \E n \in Names : Store!IsPrefix(d, n)
<1>1. PICK n \in Names : \E j \in Store!Slashes(n) : d = SubSeq(n, 1, j)
  BY DEF Store!Folders
<1>2. PICK i \in Store!Slashes(n) : d = SubSeq(n, 1, i)
  BY <1>1
<1>3. n \in Texts /\ i \in 1 .. Len(n) /\ Len(n) \in Nat
  BY StoreAssumed, TextIs DEF Store!Slashes
<1>4. d \in Texts /\ Len(d) = i /\ \A k \in 1 .. i : d[k] = n[k]
  BY <1>2, <1>3, BeginningIs
<1>5. Store!IsPrefix(d, n)
  BY <1>3, <1>4, PrefixIs
<1> QED
  BY <1>5

(* Numbers up to a bound.                                                  *)
LEMMA UpTo ==
  /\ \A n, m \in Nat : m < n => \A i \in 1 .. m : i \in 1 .. n /\ i # n
  /\ \A n \in Nat : \A i \in 1 .. n : i # n => i \in 1 .. n - 1
  /\ \A n, m \in Nat : \A i \in 1 .. n : i <= m => i \in 1 .. m
OBVIOUS

(* The folder above.                                                       *)
LEMMA ParentIs ==
  ASSUME NEW d \in Store!Folders, d # Store!Root
  PROVE  /\ Store!Parent(d) \in Store!Folders /\ Store!IsPrefix(Store!Parent(d), d)
         /\ Store!Slashes(Store!Parent(d)) = Store!Slashes(d) \ {Len(d)}
<1> DEFINE I == {i \in 1 .. Len(d) - 1 : d[i] = "/"}
           m == Store!Max(I)
           up == SubSeq(d, 1, m)
<1>1. /\ d \in Texts /\ d[1] = "/" /\ d[Len(d)] = "/" /\ Len(d) > 1
      /\ Len(d) \in Nat /\ DOMAIN d = 1 .. Len(d)
  BY FolderIs, TextIs
<1>2. 1 \in I /\ I \subseteq 1 .. Len(d)
  BY <1>1
<1>3. m \in I /\ \A k \in I : k <= m
  <2> HIDE DEF I
  <2> QED
    BY <1>1, <1>2, GreatestOf
<1>4. Store!Parent(d) = up
  BY DEF Store!Parent
<1>5. m \in 1 .. Len(d) /\ m < Len(d) /\ d[m] = "/"
  BY <1>1, <1>3
<1> HIDE DEF m
<1>6. up \in Texts /\ Len(up) = m /\ \A k \in 1 .. m : up[k] = d[k]
  BY <1>1, <1>5, BeginningIs
<1> HIDE DEF up
<1>7. Store!IsPrefix(up, d)
  BY <1>1, <1>5, <1>6, PrefixIs
<1>8. up \in Store!Folders
  <2>1. PICK n \in Names : Store!IsPrefix(d, n)
    BY FolderBegins
  <2>2. Store!IsPrefix(up, n)
    BY <1>1, <1>6, <1>7, <2>1, PrefixOfPrefix, StoreAssumed
  <2>3. up[Len(up)] = "/"
    BY <1>5, <1>6
  <2> QED
    BY <1>6, <2>2, <2>3, FolderOf
<1>9. Store!Slashes(up) = Store!Slashes(d) \ {Len(d)}
  <2>0. m \in Nat /\ Len(d) \in Nat /\ m < Len(d)
    BY <1>1, <1>5
  <2>1. DOMAIN up = 1 .. m
    BY <1>6, TextIs
  <2>2. Store!Slashes(up) = {i \in 1 .. m : up[i] = "/"}
    BY <2>1 DEF Store!Slashes
  <2>3. Store!Slashes(d) = {i \in 1 .. Len(d) : d[i] = "/"}
    BY <1>1 DEF Store!Slashes
  <2>4. ASSUME NEW i \in 1 .. m, up[i] = "/"
        PROVE  i \in 1 .. Len(d) /\ i # Len(d) /\ d[i] = "/"
    <3>1. i \in 1 .. Len(d) /\ i # Len(d)
      BY <2>0, UpTo
    <3> QED
      BY <1>6, <2>4, <3>1
  <2>5. ASSUME NEW i \in 1 .. Len(d), d[i] = "/", i # Len(d)
        PROVE  i \in 1 .. m /\ up[i] = "/"
    <3>1. i \in 1 .. Len(d) - 1
      BY <2>0, <2>5, UpTo
    <3>2. i \in I
      BY <2>5, <3>1
    <3>3. i <= m
      BY <1>3, <3>2
    <3>4. i \in 1 .. m
      BY <2>0, <2>5, <3>3, UpTo
    <3> QED
      BY <1>6, <2>5, <3>4
  <2> QED
    BY <2>2, <2>3, <2>4, <2>5
<1> QED
  BY <1>4, <1>7, <1>8, <1>9

FileRecords == [name : Names, empty : BOOLEAN, owned : BOOLEAN]

(* The list's entries.                                                     *)
LEMMA FilesAre ==
  ASSUME Store!TypeOK
  PROVE  /\ files \in Seq(FileRecords) /\ Len(files) \in Nat /\ DOMAIN files = 1 .. Len(files)
         /\ \A i \in DOMAIN files : files[i] \in FileRecords
         /\ \A i \in DOMAIN files : files[i].name \in Names /\ files[i].name \in Texts
         /\ \A i, j \in DOMAIN files : files[i].name = files[j].name => i = j
         /\ terminalDirectory \in Store!Folders /\ terminalDirectory \in Texts
<1>1. /\ files \in Seq(FileRecords) /\ terminalDirectory \in Store!Folders
      /\ \A i, j \in DOMAIN files : files[i].name = files[j].name => i = j
  BY DEF Store!TypeOK, FileRecords
<1>2. /\ Len(files) \in Nat /\ DOMAIN files = 1 .. Len(files)
      /\ \A i \in DOMAIN files : files[i] \in FileRecords
  BY <1>1
<1>3. \A r \in FileRecords : r.name \in Names
  BY DEF FileRecords
<1>4. \A n \in Names : n \in Texts
  BY StoreAssumed
<1>5. terminalDirectory \in Texts
  BY <1>1, FolderIs
<1> QED
  BY <1>1, <1>2, <1>3, <1>4, <1>5

(* A folder that has files.                                                *)
LEMMA HasFiles ==
  ASSUME Store!TypeOK, NEW d \in Texts
  PROVE  Store!checkFolder(d) <=>
           d[Len(d)] = "/" /\ \E i \in DOMAIN files : Store!IsPrefix(d, files[i].name)
BY DEF Store!checkFolder, Store!Last

LEMMA TypeKeeps ==
  ASSUME Store!TypeOK, NEW line \in Lines, Store!Type(line)
  PROVE  /\ terminalDirectory' \in Store!Folders /\ files' = files
         /\ Store!checkFolder(terminalDirectory) => Store!checkFolder(terminalDirectory')
<1> DEFINE d == terminalDirectory
           path == d \o line
<1>1. files' = files
  BY DEF Store!Type
<1>2. d \in Store!Folders /\ d \in Texts
  BY FolderIs DEF Store!TypeOK
<1>3. path \in Texts
  <2>1. line \in Seq(Letters)
    BY StoreAssumed
  <2>2. terminalDirectory \o line \in Texts
    <3> HIDE DEF path
    <3> QED
      BY <1>2, <2>1, PathIs
  <2> QED
    BY <2>2
<1>4. \A i \in DOMAIN files : files[i].name \in Names /\ files[i].name \in Texts
  BY FilesAre
<1>5. \/ d' = d
      \/ d' = path /\ Store!checkFolder(path)
      \/ d # Store!Root /\ d' = Store!Parent(d)
  BY DEF Store!Type
<1> HIDE DEF path
<1>6. CASE d' = d
  BY <1>1, <1>2, <1>6
<1>7. CASE d' = path /\ Store!checkFolder(path)
  <2>1. path[Len(path)] = "/" /\ \E i \in DOMAIN files : Store!IsPrefix(path, files[i].name)
    BY <1>3, <1>7, HasFiles
  <2>2. path \in Store!Folders
    BY <1>3, <1>4, <2>1, FolderOf
  <2> QED
    BY <1>1, <1>7, <2>2
<1>8. CASE d # Store!Root /\ d' = Store!Parent(d)
  <2>1. d' \in Store!Folders /\ Store!IsPrefix(d', d) /\ d' \in Texts /\ d'[Len(d')] = "/"
    BY <1>2, <1>8, ParentIs, FolderIs
  <2>2. ASSUME Store!checkFolder(d) PROVE Store!checkFolder(d')
    <3>1. PICK i \in DOMAIN files : Store!IsPrefix(d, files[i].name)
      BY <1>2, <2>2, HasFiles
    <3>2. Store!IsPrefix(d', files[i].name)
      BY <1>2, <1>4, <2>1, <3>1, PrefixOfPrefix
    <3> QED
      BY <2>1, <3>2, HasFiles
  <2> QED
    BY <1>1, <2>1, <2>2
<1> QED
  BY <1>5, <1>6, <1>7, <1>8

(* Where a name is stored, if it is.                                       *)
LEMMA StoredIs ==
  ASSUME Store!TypeOK, NEW name \in Names
  PROVE  /\ Store!Stored(name) = {i \in 1 .. Len(files) : files[i].name = name}
         /\ Store!Stored(name) # {} =>
              /\ Store!Min(Store!Stored(name)) \in 1 .. Len(files)
              /\ files[Store!Min(Store!Stored(name))].name = name
<1>1. /\ Store!Stored(name) = {i \in 1 .. Len(files) : files[i].name = name}
      /\ Len(files) \in Nat
  BY FilesAre DEF Store!Stored
<1>2. ASSUME Store!Stored(name) # {} PROVE Store!Min(Store!Stored(name)) \in Store!Stored(name)
  <2>1. Store!Stored(name) \subseteq Nat
    BY <1>1
  <2>2. Min(Store!Stored(name)) \in Store!Stored(name)
    BY <1>2, <2>1, LeastOf
  <2> QED
    BY <2>2, StoreSets
<1> QED
  BY <1>1, <1>2

(* A list without two files of one name.                                   *)
Listed(list) ==
  /\ list \in Seq(FileRecords)
  /\ \A i, j \in DOMAIN list : list[i].name = list[j].name => i = j

LEMMA ListedIs ==
  ASSUME NEW list \in Seq(FileRecords)
  PROVE  /\ Len(list) \in Nat /\ DOMAIN list = 1 .. Len(list)
         /\ \A i \in 1 .. Len(list) : list[i] \in FileRecords
OBVIOUS

LEMMA WriteKeeps ==
  ASSUME Store!TypeOK, NEW name \in Names, NEW none \in BOOLEAN, Store!writeFile(name, none)
  PROVE  Listed(files') /\ terminalDirectory' = terminalDirectory
<1> DEFINE new == [name |-> name, empty |-> none, owned |-> TRUE]
           at0 == Store!Min(Store!Stored(name))
<1>1. /\ terminalDirectory' = terminalDirectory
      /\ files' = IF Store!Stored(name) = {} THEN Append(files, new)
                  ELSE [files EXCEPT ![at0] = new]
  BY DEF Store!writeFile
<1>2. new \in FileRecords /\ new.name = name
  BY DEF FileRecords
<1>3. /\ files \in Seq(FileRecords) /\ Len(files) \in Nat /\ DOMAIN files = 1 .. Len(files)
      /\ \A i, j \in 1 .. Len(files) : files[i].name = files[j].name => i = j
  BY FilesAre
<1>4. Store!Stored(name) = {i \in 1 .. Len(files) : files[i].name = name}
  BY StoredIs
<1>5. CASE Store!Stored(name) = {}
  <2> DEFINE list == Append(files, new)
  <2>1. \A i \in 1 .. Len(files) : files[i].name # name
    BY <1>4, <1>5
  <2> HIDE DEF new
  <2>2. /\ list \in Seq(FileRecords) /\ DOMAIN list = 1 .. Len(files) + 1
        /\ \A i \in 1 .. Len(files) : list[i] = files[i]
        /\ list[Len(files) + 1] = new
    BY <1>2, <1>3, AppendProperties
  <2> HIDE DEF list
  <2>3. ASSUME NEW i \in DOMAIN list, NEW j \in DOMAIN list, list[i].name = list[j].name
        PROVE  i = j
    <3>1. (i \in 1 .. Len(files) \/ i = Len(files) + 1) /\ (j \in 1 .. Len(files) \/ j = Len(files) + 1)
      BY <1>3, <2>2
    <3> QED
      BY <1>2, <1>3, <2>1, <2>2, <2>3, <3>1
  <2>4. files' = list
    BY <1>1, <1>5 DEF list
  <2> QED
    BY <1>1, <2>2, <2>3, <2>4 DEF Listed
<1>6. CASE Store!Stored(name) # {}
  <2> DEFINE list == [files EXCEPT ![at0] = new]
  <2>1. at0 \in 1 .. Len(files) /\ files[at0].name = name
    BY <1>6, StoredIs
  <2> HIDE DEF new, at0
  <2>2. /\ list \in Seq(FileRecords) /\ DOMAIN list = 1 .. Len(files)
        /\ \A i \in 1 .. Len(files) : list[i] = IF i = at0 THEN new ELSE files[i]
    BY <1>2, <1>3, <2>1, ExceptSeq
  <2> HIDE DEF list
  <2>3. \A i \in 1 .. Len(files) : list[i].name = files[i].name
    BY <1>2, <2>1, <2>2
  <2>4. files' = list
    BY <1>1, <1>6 DEF list
  <2>5. \A i, j \in DOMAIN list : list[i].name = list[j].name => i = j
    BY <1>3, <2>2, <2>3
  <2> QED
    BY <1>1, <2>2, <2>4, <2>5 DEF Listed
<1> QED
  BY <1>5, <1>6

LEMMA DeleteKeeps ==
  ASSUME Store!TypeOK, NEW name \in Names, Store!deleteFile(name)
  PROVE  Listed(files') /\ terminalDirectory' = terminalDirectory
<1> DEFINE n == Store!Min(Store!Stored(name))
<1>1. /\ terminalDirectory' = terminalDirectory
      /\ files' = IF Store!Stored(name) = {} THEN files ELSE RemoveAt(files, n)
  <2>1. \A q, k : Store!RemoveAt(q, k) = RemoveAt(q, k)
    BY DEF Store!RemoveAt, RemoveAt
  <2> QED
    BY <2>1 DEF Store!deleteFile
<1>3. /\ files \in Seq(FileRecords) /\ Len(files) \in Nat /\ DOMAIN files = 1 .. Len(files)
      /\ \A i, j \in 1 .. Len(files) : files[i].name = files[j].name => i = j
  BY FilesAre
<1>5. CASE Store!Stored(name) = {}
  BY <1>1, <1>3, <1>5 DEF Listed
<1>6. CASE Store!Stored(name) # {}
  <2> DEFINE list == RemoveAt(files, n)
  <2>1. n \in 1 .. Len(files)
    BY <1>6, StoredIs
  <2> HIDE DEF n
  <2>2. /\ list \in Seq(FileRecords) /\ Len(list) = Len(files) - 1
        /\ \A k \in 1 .. Len(files) - 1 : list[k] = IF k < n THEN files[k] ELSE files[k + 1]
    BY <1>3, <2>1, RemovedAt
  <2>4. files' = list
    BY <1>1, <1>6
  <2> HIDE DEF list
  <2>5. DOMAIN list = 1 .. Len(files) - 1
    BY <2>2, ListedIs
  <2>3. ASSUME NEW i \in DOMAIN list, NEW j \in DOMAIN list, list[i].name = list[j].name
        PROVE  i = j
    <3> DEFINE was(k) == IF k < n THEN k ELSE k + 1
    <3>1. ASSUME NEW k \in 1 .. Len(files) - 1
          PROVE  was(k) \in 1 .. Len(files) /\ list[k] = files[was(k)]
      BY <1>3, <2>1, <2>2
    <3>2. i \in 1 .. Len(files) - 1 /\ j \in 1 .. Len(files) - 1
      BY <2>5
    <3>3. was(i) = was(j)
      <4> HIDE DEF was
      <4> QED
        BY <1>3, <2>3, <3>1, <3>2
    <3> QED
      BY <1>3, <2>1, <3>2, <3>3
  <2> QED
    BY <1>1, <2>2, <2>3, <2>4 DEF Listed
<1> QED
  BY <1>5, <1>6

LEMMA StoreStarts == Store!Init => Store!TypeOK
<1> SUFFICES ASSUME Store!Init PROVE Store!TypeOK
  OBVIOUS
<1> DEFINE c == Cardinality(BootFiles)
<1>1. PICK order \in Store!SetToSeqs(BootFiles) :
        files = [i \in 1 .. Len(order) |->
                   [name |-> order[i], empty |-> order[i] \in BootFolders, owned |-> FALSE]]
  BY DEF Store!Init, Store!Orders, Store!addFiles
<1>2. /\ order \in [1 .. c -> BootFiles]
      /\ \A i, j \in 1 .. c : i # j => order[i] # order[j]
  BY StoreSets DEF Store!SetToSeqs
<1>3. c \in Nat
  BY StoreAssumed, FS_CardinalityType
<1> HIDE DEF c
<1>4. Len(order) = c
  BY <1>2, <1>3
<1>5. \A i \in 1 .. c : order[i] \in Names
  BY <1>2, StoreAssumed
<1>6. DOMAIN files = 1 .. c /\ \A i \in 1 .. c : files[i].name = order[i]
  BY <1>1, <1>4
<1>7. files \in Seq([name : Names, empty : BOOLEAN, owned : BOOLEAN])
  <2>1. files \in [1 .. c -> [name : Names, empty : BOOLEAN, owned : BOOLEAN]]
    BY <1>1, <1>4, <1>5
  <2>2. files \in [1 .. c -> FileRecords]
    BY <2>1 DEF FileRecords
  <2>3. files \in Seq(FileRecords)
    BY <1>3, <2>2
  <2> QED
    BY <2>3 DEF FileRecords
<1>8. terminalDirectory \in Store!Folders
  BY DEF Store!Init, Store!Folders
<1> QED
  BY <1>2, <1>6, <1>7, <1>8 DEF Store!TypeOK

(* What is shown in a folder: what is below it and in no folder below it.  *)
LEMMA ListedIn ==
  ASSUME NEW f \in Store!Folders, NEW n \in Names
  PROVE  Store!Shown(f, FALSE, n) <=>
           Store!IsPrefix(f, n) /\ \A k \in Store!Slashes(n) : k <= Len(f)
<1>1. /\ f \in Texts /\ n \in Texts /\ Len(f) \in Nat /\ Len(n) \in Nat /\ n \in Seq(Letters)
      /\ DOMAIN n = 1 .. Len(n) /\ Len(f) > 0
  BY FolderIs, StoreAssumed, TextIs
<1> DEFINE rest == SubSeq(n, Len(f) + 1, Len(n))
<1>2. ASSUME Store!IsPrefix(f, n)
      PROVE  Store!Contains(rest, "/") <=> \E k \in Store!Slashes(n) : k > Len(f)
  <2>1. Len(f) <= Len(n)
    BY <1>1, <1>2, PrefixIs
  <2>2. /\ Len(rest) = Len(n) - Len(f)
        /\ \A k \in 1 .. Len(n) - Len(f) : rest[k] = n[Len(f) + k]
    <3>1. \A k \in Len(f) + 1 .. Len(n) : k \in 1 .. Len(n)
      BY <1>1
    <3>2. /\ Len(rest) = IF Len(f) + 1 <= Len(n) THEN Len(n) - (Len(f) + 1) + 1 ELSE 0
          /\ \A k \in 1 .. Len(n) - (Len(f) + 1) + 1 : rest[k] = n[Len(f) + 1 + k - 1]
      <4>1. Len(f) + 1 \in Int /\ Len(n) \in Int
        BY <1>1
      <4> QED
        BY <1>1, <3>1, <4>1, SubSeqProperties
    <3> HIDE DEF rest
    <3>3. Len(rest) = Len(n) - Len(f)
      <4>1. \A a, b \in Nat : a <= b => (IF a + 1 <= b THEN b - (a + 1) + 1 ELSE 0) = b - a
        OBVIOUS
      <4>2. (IF Len(f) + 1 <= Len(n) THEN Len(n) - (Len(f) + 1) + 1 ELSE 0) = Len(n) - Len(f)
        BY <1>1, <2>1, <4>1
      <4> QED
        BY <3>2, <4>2
    <3>4. ASSUME NEW k \in 1 .. Len(n) - Len(f) PROVE rest[k] = n[Len(f) + k]
      <4>1. k \in 1 .. Len(n) - (Len(f) + 1) + 1 /\ Len(f) + 1 + k - 1 = Len(f) + k
        BY <1>1, <3>4
      <4> QED
        BY <3>2, <4>1
    <3> QED
      BY <3>3, <3>4
  <2> HIDE DEF rest
  <2>3. Store!Contains(rest, "/") <=> \E k \in 1 .. Len(n) - Len(f) : n[Len(f) + k] = "/"
    BY <2>2 DEF Store!Contains
  <2>4. ASSUME NEW k \in 1 .. Len(n) - Len(f), n[Len(f) + k] = "/"
        PROVE  \E j \in Store!Slashes(n) : j > Len(f)
    <3>1. Len(f) + k \in 1 .. Len(n) /\ Len(f) + k > Len(f)
      BY <1>1
    <3>2. Len(f) + k \in Store!Slashes(n)
      BY <1>1, <2>4, <3>1 DEF Store!Slashes
    <3> QED
      BY <3>1, <3>2
  <2>5. ASSUME NEW j \in Store!Slashes(n), j > Len(f)
        PROVE  \E k \in 1 .. Len(n) - Len(f) : n[Len(f) + k] = "/"
    <3>1. j \in 1 .. Len(n) /\ n[j] = "/"
      BY <1>1 DEF Store!Slashes
    <3>2. j - Len(f) \in 1 .. Len(n) - Len(f) /\ Len(f) + (j - Len(f)) = j
      BY <1>1, <2>5, <3>1
    <3> QED
      BY <3>1, <3>2
  <2> QED
    BY <2>3, <2>4, <2>5
<1>3. \A k \in Store!Slashes(n) : k \in Nat
  BY <1>1 DEF Store!Slashes
<1>4. Store!Shown(f, FALSE, n) <=> Store!IsPrefix(f, n) /\ ~Store!Contains(rest, "/")
  BY DEF Store!Shown
<1> HIDE DEF rest
<1>5. (\A k \in Store!Slashes(n) : k <= Len(f)) <=> ~\E k \in Store!Slashes(n) : k > Len(f)
  <2>1. \A k \in Store!Slashes(n) : k <= Len(f) <=> ~(k > Len(f))
    BY <1>1, <1>3
  <2> QED
    BY <2>1
<1> QED
  BY <1>2, <1>4, <1>5, Zenon

(* A file is listed in one folder, which ends at its name's last slash.    *)
LEMMA ListedOnce == Store!TypeOK => Store!ListingsShowAll
<1> SUFFICES ASSUME Store!TypeOK, NEW i \in DOMAIN files
             PROVE  \E home \in Store!Folders : \A f \in Store!Folders :
                      Store!checkFolder(f) /\ i \in Store!getFiles(f, FALSE) <=> f = home
  BY DEF Store!ListingsShowAll
<1> DEFINE n == files[i].name
           m == Store!Max(Store!Slashes(n))
           home == SubSeq(n, 1, m)
<1>1. n \in Names /\ n \in Texts
  BY FilesAre
<1> HIDE DEF n
<1>2. Len(n) \in Nat /\ DOMAIN n = 1 .. Len(n) /\ n[1] = "/" /\ Len(n) > 0
  BY <1>1, StoreAssumed, TextIs
<1>3. Store!Slashes(n) \subseteq 1 .. Len(n) /\ 1 \in Store!Slashes(n)
  BY <1>2 DEF Store!Slashes
<1>4. m \in Store!Slashes(n) /\ \A k \in Store!Slashes(n) : k <= m
  BY <1>2, <1>3, GreatestOf
<1> HIDE DEF m
<1>5. m \in 1 .. Len(n) /\ n[m] = "/" /\ m \in Nat
  BY <1>2, <1>3, <1>4 DEF Store!Slashes
<1>6. home \in Texts /\ Len(home) = m /\ \A k \in 1 .. m : home[k] = n[k]
  BY <1>1, <1>5, BeginningIs
<1> HIDE DEF home
<1>7. Store!IsPrefix(home, n) /\ home[Len(home)] = "/"
  BY <1>1, <1>2, <1>5, <1>6, PrefixIs
<1>8. home \in Store!Folders
  BY <1>1, <1>6, <1>7, FolderOf
<1>9. \A f \in Store!Folders : i \in Store!getFiles(f, FALSE) <=>
        Store!IsPrefix(f, n) /\ \A k \in Store!Slashes(n) : k <= Len(f)
  <2> TAKE f \in Store!Folders
  <2>1. i \in Store!getFiles(f, FALSE) <=> Store!Shown(f, FALSE, n)
    BY DEF Store!getFiles, n
  <2>2. Store!Shown(f, FALSE, n) <=>
          Store!IsPrefix(f, n) /\ \A k \in Store!Slashes(n) : k <= Len(f)
    BY <1>1, ListedIn
  <2> QED
    BY <2>1, <2>2
<1>10. Store!checkFolder(home) /\ i \in Store!getFiles(home, FALSE)
  <2>1. Store!checkFolder(home)
    BY <1>6, <1>7, HasFiles DEF n
  <2> QED
    BY <1>4, <1>6, <1>7, <1>8, <1>9, <2>1
<1>11. ASSUME NEW f \in Store!Folders, i \in Store!getFiles(f, FALSE)
       PROVE  f = home
  <2>1. f \in Texts /\ f[Len(f)] = "/" /\ Len(f) \in Nat /\ Len(f) > 0
    BY FolderIs, TextIs
  <2>2. /\ Store!IsPrefix(f, n) /\ f = SubSeq(n, 1, Len(f)) /\ m <= Len(f)
        /\ Len(f) <= Len(n) /\ \A k \in 1 .. Len(f) : f[k] = n[k]
    BY <1>1, <1>4, <1>9, <1>11, <2>1, PrefixIs
  <2>3. Len(f) \in 1 .. Len(n) /\ n[Len(f)] = "/"
    BY <1>2, <2>1, <2>2
  <2>4. Len(f) \in Store!Slashes(n)
    BY <1>2, <2>3 DEF Store!Slashes
  <2>5. Len(f) = m
    <3>1. Len(f) <= m
      BY <1>4, <2>4
    <3>2. m <= Len(f) /\ m \in Nat /\ Len(f) \in Nat
      BY <1>5, <2>1, <2>2
    <3>3. \A a, b \in Nat : a <= b /\ b <= a => a = b
      OBVIOUS
    <3> QED
      BY <3>1, <3>2, <3>3, Zenon
  <2> QED
    BY <2>2, <2>5 DEF home
<1> QED
  BY <1>8, <1>10, <1>11

LEMMA StoreInv == Store!TypeOK => Store!Inv
<1> SUFFICES ASSUME Store!TypeOK PROVE Store!Inv
  OBVIOUS
<1>1. Store!UpIsOneUp
  <2>1. terminalDirectory \in Store!Folders
    BY FilesAre
  <2> QED
    BY <2>1, ParentIs DEF Store!UpIsOneUp
<1> QED
  BY <1>1, ListedOnce DEF Store!Inv

LEMMA StoreKeeps ==
  ASSUME Store!TypeOK, [AllNext]_allVars
  PROVE  /\ Store!TypeOK'
         /\ files' = files /\ Store!checkFolder(terminalDirectory)
              => Store!checkFolder(terminalDirectory)'
<1>1. CASE storeVars' = storeVars
  <2>1. files' = files /\ terminalDirectory' = terminalDirectory
    BY <1>1 DEF storeVars
  <2> QED
    BY <2>1 DEF Store!TypeOK, Store!checkFolder
<1>2. CASE \E name \in Names : Store!deleteFile(name) \/ \E none \in BOOLEAN : Store!writeFile(name, none)
  <2>1. Listed(files') /\ terminalDirectory' = terminalDirectory
    BY <1>2, DeleteKeeps, WriteKeeps
  <2>2. terminalDirectory \in Store!Folders
    BY FilesAre
  <2>3. Store!TypeOK'
    BY <2>1, <2>2 DEF Listed, FileRecords, Store!TypeOK
  <2> QED
    BY <2>1, <2>3 DEF Store!checkFolder
<1>3. CASE \E line \in Lines : Store!Type(line)
  <2>1. /\ terminalDirectory' \in Store!Folders /\ files' = files
        /\ Store!checkFolder(terminalDirectory) => Store!checkFolder(terminalDirectory')
    BY <1>3, TypeKeeps
  <2>2. Store!TypeOK'
    BY <2>1 DEF Store!TypeOK
  <2> QED
    BY <2>1, <2>2 DEF Store!checkFolder
<1>4. Store!Next \/ storeVars' = storeVars
  BY DEF AllNext, allVars, storeVars
<1> QED
  BY <1>1, <1>2, <1>3, <1>4 DEF Store!Next

(* Every file is listed once, the folder above is the one with a name      *)
(* less, and no line leads out of the folders.                             *)
THEOREM EveryoneStaysInFolders == AllSpec => StaysInFolders
<1>1. AllInit => Store!TypeOK
  BY StoreStarts DEF AllInit
<1>2. Store!TypeOK /\ [AllNext]_allVars => Store!TypeOK'
  BY StoreKeeps
<1>3. Store!TypeOK /\ [AllNext]_allVars =>
        [files' = files /\ Store!checkFolder(terminalDirectory)
           => Store!checkFolder(terminalDirectory)']_(Store!vars)
  BY StoreKeeps
<1>4. Store!TypeOK => (part = "store" => Store!Inv)
  BY StoreInv
<1> QED
  BY <1>1, <1>2, <1>3, <1>4, PTL DEF AllSpec, StaysInFolders, Store!StaysInFolders
=============================================================================
