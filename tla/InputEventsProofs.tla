------------------------- MODULE InputEventsProofs -------------------------
(***************************************************************************)
(* Proofs about InputEvents for arrays of every size and every number of   *)
(* events: what the loops handle is what was raised, in order, and only    *)
(* an event that arrives between a loop's failed test and the reset of its *)
(* counter is lost.                                                        *)
(***************************************************************************)
EXTENDS InputEvents, SequenceTheorems, TLAPS

-----------------------------------------------------------------------------
(* Sequences.                                                              *)

(* The entries of a sequence from m on.                                    *)
LEMMA Suffix ==
  ASSUME NEW S, NEW q \in Seq(S), NEW m \in 1..(Len(q) + 1)
  PROVE  /\ SubSeq(q, m, Len(q)) \in Seq(S)
         /\ Len(SubSeq(q, m, Len(q))) = Len(q) - m + 1
         /\ \A n \in 1..(Len(q) - m + 1) : SubSeq(q, m, Len(q))[n] = q[m + n - 1]
<1>1. Len(q) \in Nat /\ \A n \in 1..Len(q) : q[n] \in S
  BY LenProperties, ElementOfSeq
<1>2. m \in Int /\ Len(q) \in Int /\ \A n \in m..Len(q) : q[n] \in S
  BY <1>1
<1>3. /\ SubSeq(q, m, Len(q)) \in Seq(S)
      /\ Len(SubSeq(q, m, Len(q))) = IF m <= Len(q) THEN Len(q) - m + 1 ELSE 0
      /\ \A n \in 1..(Len(q) - m + 1) : SubSeq(q, m, Len(q))[n] = q[m + n - 1]
  BY <1>2, SubSeqProperties
<1> QED
  BY <1>1, <1>3

(* What is appended to a sequence is appended to its entries from m on.    *)
LEMMA SuffixOfConcat ==
  ASSUME NEW S, NEW q \in Seq(S), NEW r \in Seq(S), NEW m \in 1..(Len(q) + 1)
  PROVE  SubSeq(q \o r, m, Len(q \o r)) = SubSeq(q, m, Len(q)) \o r
<1> DEFINE left == SubSeq(q \o r, m, Len(q \o r))
           right == SubSeq(q, m, Len(q)) \o r
<1>1. Len(q) \in Nat /\ Len(r) \in Nat
  BY LenProperties
<1>2. /\ q \o r \in Seq(S) /\ Len(q \o r) = Len(q) + Len(r)
      /\ \A n \in 1..(Len(q) + Len(r)) :
           (q \o r)[n] = IF n <= Len(q) THEN q[n] ELSE r[n - Len(q)]
  BY ConcatProperties
<1>3. m \in 1..(Len(q \o r) + 1)
  BY <1>1, <1>2
<1>4. /\ left \in Seq(S) /\ Len(left) = Len(q \o r) - m + 1
      /\ \A n \in 1..(Len(q \o r) - m + 1) : left[n] = (q \o r)[m + n - 1]
  BY <1>2, <1>3, Suffix
<1>5. /\ SubSeq(q, m, Len(q)) \in Seq(S)
      /\ Len(SubSeq(q, m, Len(q))) = Len(q) - m + 1
      /\ \A n \in 1..(Len(q) - m + 1) : SubSeq(q, m, Len(q))[n] = q[m + n - 1]
  BY Suffix
<1>6. /\ right \in Seq(S) /\ Len(right) = Len(q) - m + 1 + Len(r)
      /\ \A n \in 1..(Len(q) - m + 1 + Len(r)) :
           right[n] = IF n <= Len(q) - m + 1 THEN SubSeq(q, m, Len(q))[n]
                      ELSE r[n - (Len(q) - m + 1)]
  <2> DEFINE suffix == SubSeq(q, m, Len(q))
  <2>1. suffix \in Seq(S) /\ Len(suffix) = Len(q) - m + 1
    BY <1>5
  <2> HIDE DEF suffix
  <2>2. /\ suffix \o r \in Seq(S) /\ Len(suffix \o r) = Len(suffix) + Len(r)
        /\ \A n \in 1..(Len(suffix) + Len(r)) :
             (suffix \o r)[n] = IF n <= Len(suffix) THEN suffix[n] ELSE r[n - Len(suffix)]
    BY <2>1, ConcatProperties
  <2> QED
    BY <2>1, <2>2 DEF suffix
<1>7. ASSUME NEW n \in 1..Len(left) PROVE left[n] = right[n]
  <2>1. n \in 1..(Len(q) + Len(r) - m + 1) /\ m + n - 1 \in 1..(Len(q) + Len(r))
    BY <1>1, <1>2, <1>4
  <2>2. left[n] = IF m + n - 1 <= Len(q) THEN q[m + n - 1] ELSE r[m + n - 1 - Len(q)]
    BY <1>2, <1>4, <2>1
  <2>3. right[n] = IF n <= Len(q) - m + 1 THEN q[m + n - 1]
                   ELSE r[n - (Len(q) - m + 1)]
    BY <1>1, <1>5, <1>6, <2>1
  <2> QED
    BY <1>1, <2>1, <2>2, <2>3
<1> HIDE DEF left, right
<1>8. Len(left) = Len(right)
  BY <1>1, <1>2, <1>4, <1>6
<1>9. left = right
  BY <1>4, <1>6, <1>7, <1>8, SeqEqual
<1> QED
  BY <1>9 DEF left, right

(* A member of a concatenation is a member of one of its parts.            *)
LEMMA ToSetConcat ==
  ASSUME NEW S, NEW q \in Seq(S), NEW r \in Seq(S)
  PROVE  ToSet(q \o r) = ToSet(q) \cup ToSet(r)
<1>1. \A t : ToSet(t) = Range(t)
  BY DEF ToSet, Range
<1> QED
  BY <1>1, RangeConcatenation

-----------------------------------------------------------------------------
(* The index from which a kind's array is still to be handled.             *)
From(k) == (IF phase = k THEN i ELSE 0) + 1

LEMMA FromType ==
  ASSUME TypeOK, NEW k \in Kinds
  PROVE  /\ entries[k] \in Seq(Events) /\ log[k] \in Seq(Events)
         /\ current[k] = Len(entries[k]) /\ Len(entries[k]) \in Nat
         /\ From(k) \in 1..(Len(entries[k]) + 1)
         /\ PendingSeq(k) = SubSeq(entries[k], From(k), Len(entries[k]))
         /\ PendingSeq(k) \in Seq(Events)
         /\ Kept(k) \in Seq(Events)
<1>1. entries[k] \in Seq(Events) /\ log[k] \in Seq(Events)
  BY DEF TypeOK
<1>2. current[k] = Len(entries[k]) /\ Len(entries[k]) \in Nat
  BY <1>1, LenProperties DEF TypeOK
<1>3. i \in Nat /\ (phase = k => i <= current[k])
  BY InputAssumption DEF TypeOK
<1>4. From(k) \in 1..(Len(entries[k]) + 1)
  BY <1>2, <1>3 DEF From
<1>5. PendingSeq(k) = SubSeq(entries[k], From(k), Len(entries[k]))
  BY <1>2 DEF PendingSeq, From
<1>6. PendingSeq(k) \in Seq(Events)
  BY <1>1, <1>4, <1>5, Suffix
<1>7. Kept(k) \in Seq(Events)
  BY <1>1, <1>6, ConcatProperties DEF Kept
<1> QED
  BY <1>1, <1>2, <1>4, <1>5, <1>6, <1>7

-----------------------------------------------------------------------------
(* The interrupt handlers.                                                 *)

(* What one run of a handler may append: the next event of some sources,   *)
(* at most one of each, in the array of its kind.                          *)
Fresh(new) ==
  /\ new \in [Kinds -> Seq(Events)]
  /\ \A k \in Kinds : \A n \in 1..Len(new[k]) :
       /\ Array(new[k][n].source) = k
       /\ new[k][n].id = raised[new[k][n].source] + 1
       /\ new[k][n].late = (phase = k /\ step = "reset")
  /\ \A k \in Kinds : \A m, n \in 1..Len(new[k]) :
       m < n => new[k][m].source # new[k][n].source

LEMMA Regroup ==
  \A q, r, t \in Seq(Events) : (q \o r) \o t = q \o (r \o t)
BY ConcatAssociative

(* A handler appends to what is pending, and so to what is kept.           *)
LEMMA StoreAppends ==
  ASSUME TypeOK, NEW new \in [Kinds -> Seq(Events)], Store(new),
         UNCHANGED <<loopVars, log>>, NEW k \in Kinds
  PROVE  /\ entries'[k] = entries[k] \o new[k]
         /\ entries'[k] \in Seq(Events)
         /\ current'[k] = Len(entries'[k])
         /\ current[k] <= current'[k]
         /\ PendingSeq(k)' = PendingSeq(k) \o new[k]
         /\ Kept(k)' = Kept(k) \o new[k]
<1>1. new[k] \in Seq(Events)
  OBVIOUS
<1>2. /\ entries'[k] = entries[k] \o new[k]
      /\ current'[k] = current[k] + Len(new[k])
  BY DEF Store
<1>3. /\ entries[k] \o new[k] \in Seq(Events)
      /\ Len(entries[k] \o new[k]) = Len(entries[k]) + Len(new[k])
      /\ Len(new[k]) \in Nat
  BY <1>1, FromType, ConcatProperties, LenProperties
<1>4. current'[k] = Len(entries[k] \o new[k]) /\ current[k] <= current'[k]
  BY <1>2, <1>3, FromType
<1>5. PendingSeq(k)' = SubSeq(entries'[k], From(k), current'[k])
  BY DEF PendingSeq, From, loopVars
<1>6. PendingSeq(k)' = PendingSeq(k) \o new[k]
  BY <1>1, <1>2, <1>4, <1>5, FromType, SuffixOfConcat
<1>7. Kept(k)' = log[k] \o (PendingSeq(k) \o new[k])
  BY <1>6 DEF Kept
<1>8. Kept(k)' = Kept(k) \o new[k]
  <2>1. log[k] \in Seq(Events) /\ PendingSeq(k) \in Seq(Events)
    BY FromType
  <2>2. (log[k] \o PendingSeq(k)) \o new[k] = log[k] \o (PendingSeq(k) \o new[k])
    BY <1>1, <2>1, Regroup
  <2>3. Kept(k) = log[k] \o PendingSeq(k)
    BY DEF Kept
  <2> QED
    BY <1>7, <2>2, <2>3
<1> QED
  BY <1>2, <1>3, <1>4, <1>6, <1>8

(* The history counts the sources a handler has appended an event of.      *)
LEMMA StoreCounts ==
  ASSUME TypeOK, NEW new, Fresh(new), Store(new)
  PROVE  /\ raised' \in [Sources -> Nat]
         /\ \A s \in Sources : raised[s] <= raised'[s] /\ raised'[s] <= MaxRaised[s]
         /\ \A k \in Kinds : \A n \in 1..Len(new[k]) :
              raised'[new[k][n].source] = raised[new[k][n].source] + 1
         /\ \A s \in Sources :
              raised'[s] # raised[s] =>
                \E n \in 1..Len(new[Array(s)]) : new[Array(s)][n].source = s
<1> DEFINE Has(s) == \E e \in ToSet(new[Array(s)]) : e.source = s
<1>1. raised \in [Sources -> Nat] /\ \A s \in Sources : raised[s] <= MaxRaised[s]
  BY DEF TypeOK
<1>2. \A s \in Sources : Array(s) \in Kinds
  BY DEF Sources, Array, Kinds, Buttons
<1>3. \A k \in Kinds : /\ new[k] \in Seq(Events)
                       /\ Len(new[k]) \in Nat /\ DOMAIN new[k] = 1..Len(new[k])
                       /\ \A n \in 1..Len(new[k]) : new[k][n] \in Events
  BY LenProperties, ElementOfSeq DEF Fresh
<1>4. \A s \in Sources : raised'[s] = IF Has(s) THEN raised[s] + 1 ELSE raised[s]
  BY DEF Store, Count
<1>5. \A s \in Sources : Has(s) <=> \E n \in 1..Len(new[Array(s)]) : new[Array(s)][n].source = s
  BY <1>2, <1>3 DEF ToSet
<1>6. ASSUME NEW s \in Sources, Has(s) PROVE raised[s] + 1 <= MaxRaised[s]
  <2>1. PICK e \in ToSet(new[Array(s)]) : e.source = s
    BY <1>6
  <2>2. e.id <= MaxRaised[s]
    BY <1>2, <2>1 DEF Store, Room
  <2>3. e.id = raised[s] + 1
    BY <1>2, <1>3, <2>1 DEF Fresh, ToSet
  <2> QED BY <2>2, <2>3
<1>7. raised' \in [Sources -> Nat]
  <2>1. raised' = [s \in Sources |-> IF Has(s) THEN raised[s] + 1 ELSE raised[s]]
    BY DEF Store, Count
  <2> HIDE DEF Has
  <2> QED BY <1>1, <2>1
<1>8. ASSUME NEW k \in Kinds, NEW n \in 1..Len(new[k])
      PROVE  raised'[new[k][n].source] = raised[new[k][n].source] + 1
  <2>1. new[k][n].source \in Sources /\ Array(new[k][n].source) = k
    BY <1>3 DEF Fresh, Events
  <2>2. Has(new[k][n].source)
    BY <1>3, <2>1 DEF ToSet
  <2> HIDE DEF Has
  <2> QED BY <1>4, <2>1, <2>2
<1> HIDE DEF Has
<1> QED
  BY <1>1, <1>4, <1>5, <1>6, <1>7, <1>8

(* A handler keeps the order of what is kept.                              *)
LEMMA StoreInOrder ==
  ASSUME TypeOK, InOrder, NEW new, Fresh(new), Store(new), UNCHANGED <<loopVars, log>>
  PROVE  InOrder'
<1> SUFFICES ASSUME NEW k \in Kinds PROVE WereRaised(Kept(k))' /\ Increasing(Kept(k))'
  BY DEF InOrder
<1> DEFINE q == Kept(k)
           r == new[k]
<1>1. q \in Seq(Events) /\ r \in Seq(Events) /\ Kept(k)' = q \o r
  BY FromType, StoreAppends DEF Fresh
<1>2. WereRaised(q) /\ Increasing(q)
  BY DEF InOrder
<1>3. /\ \A n \in 1..Len(r) : r[n].id = raised[r[n].source] + 1
      /\ \A m, n \in 1..Len(r) : m < n => r[m].source # r[n].source
  BY DEF Fresh
<1>4. /\ \A s \in Sources : /\ raised[s] \in Nat /\ raised'[s] \in Nat
                            /\ raised[s] <= raised'[s]
      /\ \A n \in 1..Len(r) : raised'[r[n].source] = raised[r[n].source] + 1
  BY StoreCounts DEF TypeOK
<1> HIDE DEF q, r
<1>5. /\ Len(q) \in Nat /\ Len(r) \in Nat
      /\ \A n \in 1..Len(q) : q[n].source \in Sources /\ q[n].id \in Nat
      /\ \A n \in 1..Len(r) : r[n].source \in Sources /\ r[n].id \in Nat
  <2>1. /\ \A n \in 1..Len(q) : q[n] \in Events
        /\ \A n \in 1..Len(r) : r[n] \in Events
    BY <1>1, ElementOfSeq
  <2>2. Len(q) \in Nat /\ Len(r) \in Nat
    BY <1>1, LenProperties
  <2> QED BY <2>1, <2>2 DEF Events
<1>6. /\ Len(q \o r) = Len(q) + Len(r)
      /\ \A n \in 1..(Len(q) + Len(r)) :
           (q \o r)[n] = IF n <= Len(q) THEN q[n] ELSE r[n - Len(q)]
  BY <1>1, ConcatProperties
<1>7. \A n \in 1..Len(q \o r) : (q \o r)[n].id <= raised'[(q \o r)[n].source]
  <2> SUFFICES ASSUME NEW n \in 1..(Len(q) + Len(r))
               PROVE  (q \o r)[n].id <= raised'[(q \o r)[n].source]
    BY <1>6
  <2>1. CASE n <= Len(q)
    <3>1. n \in 1..Len(q) /\ (q \o r)[n] = q[n]
      BY <1>5, <1>6, <2>1
    <3> QED BY <1>2, <1>4, <1>5, <3>1 DEF WereRaised
  <2>2. CASE n > Len(q)
    <3>1. n - Len(q) \in 1..Len(r) /\ (q \o r)[n] = r[n - Len(q)]
      BY <1>5, <1>6, <2>2
    <3> QED BY <1>3, <1>4, <1>5, <3>1
  <2> QED BY <1>5, <2>1, <2>2
<1>8. Increasing(q \o r)
  <2> SUFFICES ASSUME NEW m \in 1..(Len(q) + Len(r)), NEW n \in 1..(Len(q) + Len(r)),
                      m < n, (q \o r)[m].source = (q \o r)[n].source
               PROVE  (q \o r)[m].id < (q \o r)[n].id
    BY <1>6 DEF Increasing
  <2>1. CASE n <= Len(q)
    <3>1. /\ m \in 1..Len(q) /\ (q \o r)[m] = q[m]
          /\ n \in 1..Len(q) /\ (q \o r)[n] = q[n]
      BY <1>5, <1>6, <2>1
    <3> QED BY <1>2, <3>1 DEF Increasing
  <2>2. CASE m <= Len(q) /\ n > Len(q)
    <3>1. /\ m \in 1..Len(q) /\ (q \o r)[m] = q[m]
          /\ n - Len(q) \in 1..Len(r) /\ (q \o r)[n] = r[n - Len(q)]
      BY <1>5, <1>6, <2>2
    <3>2. q[m].id <= raised[q[m].source]
      BY <1>2, <3>1 DEF WereRaised
    <3>3. r[n - Len(q)].id = raised[q[m].source] + 1
      BY <1>3, <3>1
    <3> QED BY <1>4, <1>5, <3>1, <3>2, <3>3
  <2>3. CASE m > Len(q)
    <3>1. /\ m - Len(q) \in 1..Len(r) /\ (q \o r)[m] = r[m - Len(q)]
          /\ n - Len(q) \in 1..Len(r) /\ (q \o r)[n] = r[n - Len(q)]
          /\ m - Len(q) < n - Len(q)
      BY <1>5, <1>6, <2>3
    <3> QED BY <1>3, <3>1
  <2> QED BY <1>5, <2>1, <2>2, <2>3
<1> QED
  BY <1>1, <1>7, <1>8 DEF WereRaised, Increasing

(* A handler that leaves the buttons alone, or reports each change of one, *)
(* keeps the agreement between the clicks and the buttons.                 *)
LEMMA StoreButtonsAgree ==
  ASSUME TypeOK, InOrder, ButtonsAgree, NEW new, Fresh(new), Store(new),
         UNCHANGED <<loopVars, log>>,
         \A n \in 1..Len(new["click"]) :
           new["click"][n].pressed <=> new["click"][n].source \in lastClick',
         \A b \in Buttons :
           (b \in lastClick' <=> b \in lastClick)
             \/ \E n \in 1..Len(new["click"]) : new["click"][n].source = b
  PROVE  ButtonsAgree'
<1> SUFFICES ASSUME NEW b \in Buttons
             PROVE  IF raised'[b] = 0 THEN b \notin lastClick'
                    ELSE LastClickTells(Kept("click"), b)'
  BY DEF ButtonsAgree
<1> DEFINE q == Kept("click")
           r == new["click"]
<1>1. /\ "click" \in Kinds /\ b \in Sources /\ Array(b) = "click"
  BY DEF Kinds, Sources, Array
<1>2. q \in Seq(Events) /\ r \in Seq(Events) /\ Kept("click")' = q \o r
  BY <1>1, FromType, StoreAppends DEF Fresh
<1>3. /\ Len(q \o r) = Len(q) + Len(r) /\ Len(q) \in Nat /\ Len(r) \in Nat
      /\ \A n \in 1..(Len(q) + Len(r)) :
           (q \o r)[n] = IF n <= Len(q) THEN q[n] ELSE r[n - Len(q)]
  BY <1>2, ConcatProperties, LenProperties
<1>4. /\ raised[b] \in Nat /\ raised'[b] \in Nat
      /\ \A n \in 1..Len(r) : r[n].source = b => raised'[b] = raised[b] + 1
      /\ raised'[b] # raised[b] => \E n \in 1..Len(r) : r[n].source = b
  <2>1. /\ raised' \in [Sources -> Nat] /\ raised \in [Sources -> Nat]
        /\ \A n \in 1..Len(new["click"]) :
             raised'[new["click"][n].source] = raised[new["click"][n].source] + 1
    BY <1>1, StoreCounts DEF TypeOK
  <2>2. raised'[b] # raised[b] =>
          \E n \in 1..Len(new[Array(b)]) : new[Array(b)][n].source = b
    BY <1>1, StoreCounts
  <2> QED
    BY <1>1, <2>1, <2>2
<1>5. \A n \in 1..Len(q) : q[n].source = b => q[n].id \in Nat /\ q[n].id <= raised[b]
  <2>1. \A n \in 1..Len(q) : q[n] \in Events
    BY <1>2, ElementOfSeq
  <2> QED
    BY <1>1, <2>1 DEF Events, InOrder, WereRaised
<1>6. IF raised[b] = 0 THEN b \notin lastClick ELSE LastClickTells(q, b)
  BY DEF ButtonsAgree
<1>7. \A n \in 1..Len(r) : r[n].pressed <=> r[n].source \in lastClick'
  OBVIOUS
<1>8. (b \in lastClick' <=> b \in lastClick) \/ \E n \in 1..Len(r) : r[n].source = b
  OBVIOUS
<1> HIDE DEF q, r
<1>9. CASE \E n \in 1..Len(r) : r[n].source = b
  <2>1. raised'[b] = raised[b] + 1
    BY <1>4, <1>9
  <2> raised'[b] # 0
    BY <1>4, <2>1
  <2> SUFFICES ASSUME NEW n \in 1..(Len(q) + Len(r)),
                      (q \o r)[n].source = b, (q \o r)[n].id = raised'[b]
               PROVE  (q \o r)[n].pressed <=> b \in lastClick'
    BY <1>2, <1>3 DEF LastClickTells
  <2>2. ~(n <= Len(q))
    <3> SUFFICES ASSUME n <= Len(q) PROVE FALSE
      OBVIOUS
    <3>1. n \in 1..Len(q) /\ (q \o r)[n] = q[n]
      BY <1>3
    <3> QED BY <1>4, <1>5, <2>1, <3>1
  <2>3. n - Len(q) \in 1..Len(r) /\ (q \o r)[n] = r[n - Len(q)]
    BY <1>3, <2>2
  <2> QED BY <1>7, <2>3
<1>10. CASE ~\E n \in 1..Len(r) : r[n].source = b
  <2>1. raised'[b] = raised[b] /\ (b \in lastClick' <=> b \in lastClick)
    BY <1>4, <1>8, <1>10
  <2>2. CASE raised[b] = 0
    BY <1>6, <2>1, <2>2
  <2>3. CASE raised[b] # 0
    <3> SUFFICES ASSUME NEW n \in 1..(Len(q) + Len(r)),
                        (q \o r)[n].source = b, (q \o r)[n].id = raised'[b]
                 PROVE  (q \o r)[n].pressed <=> b \in lastClick'
      BY <1>2, <1>3, <2>1, <2>3 DEF LastClickTells
    <3>1. n <= Len(q)
      <4> SUFFICES ASSUME ~(n <= Len(q)) PROVE FALSE
        OBVIOUS
      <4>1. n - Len(q) \in 1..Len(r) /\ (q \o r)[n] = r[n - Len(q)]
        BY <1>3
      <4> QED BY <1>10, <4>1
    <3>2. n \in 1..Len(q) /\ (q \o r)[n] = q[n]
      BY <1>3, <3>1
    <3> QED BY <1>6, <2>1, <2>3, <3>2 DEF LastClickTells
  <2> QED BY <2>2, <2>3
<1> QED
  BY <1>9, <1>10

(* What a handler appends to an array that is about to be reset is late.   *)
LEMMA StoreDropsOnlyLate ==
  ASSUME TypeOK, DropsOnlyLate, NEW new, Fresh(new), Store(new),
         UNCHANGED <<loopVars, log>>
  PROVE  DropsOnlyLate'
<1> SUFFICES ASSUME step = "reset", NEW e \in Pending(phase)' PROVE e.late
  BY DEF DropsOnlyLate, loopVars
<1>1. phase \in Kinds /\ phase' = phase
  BY DEF TypeOK, loopVars
<1>2. /\ PendingSeq(phase) \in Seq(Events) /\ new[phase] \in Seq(Events)
      /\ Pending(phase)' = ToSet(PendingSeq(phase) \o new[phase])
  BY <1>1, FromType, StoreAppends DEF Fresh, Pending
<1>3. CASE e \in Pending(phase)
  BY <1>3 DEF DropsOnlyLate
<1>4. CASE e \in ToSet(new[phase])
  <2>1. PICK n \in 1..Len(new[phase]) : e = new[phase][n]
    BY <1>2, <1>4, LenProperties DEF ToSet
  <2>2. e.late = (phase = phase /\ step = "reset")
    BY <1>1, <2>1 DEF Fresh
  <2> QED BY <2>2
<1> QED
  BY <1>2, <1>3, <1>4, ToSetConcat DEF Pending

(* A handler loses nothing of what is pending.                             *)
LEMMA StoreLosesNothing ==
  ASSUME TypeOK, NEW new, Fresh(new), Store(new), UNCHANGED <<loopVars, log>>,
         NEW k \in Kinds
  PROVE  Pending(k) \subseteq Pending(k)'
<1>1. /\ PendingSeq(k) \in Seq(Events) /\ new[k] \in Seq(Events)
      /\ PendingSeq(k)' = PendingSeq(k) \o new[k]
  BY FromType, StoreAppends DEF Fresh
<1> QED
  BY <1>1, ToSetConcat DEF Pending

(* Everything a handler's store has to keep, but the mouse's own state.    *)
LEMMA StoreInv ==
  ASSUME Inv, NEW new, Fresh(new), Store(new), UNCHANGED <<loopVars, log>>,
         mouseCycle' \in 0..2, mouseBytes' \in [buttons : SUBSET Buttons, x : BOOLEAN],
         lastClick' \in SUBSET Buttons,
         \A n \in 1..Len(new["click"]) :
           new["click"][n].pressed <=> new["click"][n].source \in lastClick',
         \A b \in Buttons :
           (b \in lastClick' <=> b \in lastClick)
             \/ \E n \in 1..Len(new["click"]) : new["click"][n].source = b
  PROVE  Inv'
<1>1. TypeOK /\ new \in [Kinds -> Seq(Events)]
  BY DEF Inv, Fresh
<1>2. TypeOK'
  <2>1. \A k \in Kinds : /\ entries'[k] \in Seq(Events)
                         /\ current'[k] = Len(entries'[k])
                         /\ current[k] <= current'[k] /\ current'[k] <= Cap
    BY <1>1, StoreAppends DEF Store, Room
  <2>2. entries' \in [Kinds -> Seq(Events)]
    <3>1. entries' = [k \in Kinds |-> entries[k] \o new[k]]
      BY DEF Store
    <3> QED BY <2>1, <3>1
  <2>3. current' = [k \in Kinds |-> Len(entries'[k])]
    <3>1. current' = [k \in Kinds |-> current[k] + Len(new[k])]
      BY DEF Store
    <3> QED BY <2>1, <3>1
  <2>4. raised' \in [Sources -> Nat] /\ \A x \in Sources : raised'[x] <= MaxRaised[x]
    BY <1>1, StoreCounts
  <2>5. IF phase \in Kinds THEN i <= current'[phase] ELSE i = 0 /\ step = "drain"
    <3>1. CASE phase \in Kinds
      <4>1. i <= current[phase] /\ i \in Nat /\ current[phase] \in Nat
        BY <1>1, <3>1, FromType, InputAssumption DEF TypeOK
      <4>2. current[phase] <= current'[phase] /\ current'[phase] \in Nat
        BY <2>1, <3>1, LenProperties
      <4> QED BY <3>1, <4>1, <4>2
    <3>2. CASE phase \notin Kinds
      BY <1>1, <3>2 DEF TypeOK
    <3> QED BY <3>1, <3>2
  <2> QED
    BY <1>1, <2>1, <2>2, <2>3, <2>4, <2>5 DEF TypeOK, loopVars
<1> QED
  BY <1>1, <1>2, StoreInOrder, StoreButtonsAgree, StoreDropsOnlyLate DEF Inv

LEMMA EventType ==
  ASSUME TypeOK, NEW s \in Sources, NEW pressed \in BOOLEAN
  PROVE  Event(s, pressed) \in Events
<1>1. raised[s] + 1 \in Nat \ {0}
  BY DEF TypeOK
<1>2. (phase = Array(s) /\ step = "reset") \in BOOLEAN
  OBVIOUS
<1> QED
  BY <1>1, <1>2 DEF Event, Events

(* The keyboard handler appends one event.                                 *)
LEMMA KeyboardFresh ==
  ASSUME TypeOK
  PROVE  Fresh([k \in Kinds |-> IF k = "key" THEN << Event("key", FALSE) >> ELSE <<>>])
<1> DEFINE e == Event("key", FALSE)
           new == [k \in Kinds |-> IF k = "key" THEN << e >> ELSE <<>>]
<1>1. "key" \in Sources /\ Array("key") = "key"
  BY DEF Sources, Array, Buttons
<1>2. e \in Events
  BY <1>1, EventType
<1>3. /\ e.source = "key" /\ e.id = raised["key"] + 1
      /\ e.late = (phase = Array("key") /\ step = "reset")
  BY DEF Event
<1> HIDE DEF e
<1>4. \A k \in Kinds : new[k] = IF k = "key" THEN << e >> ELSE <<>>
  OBVIOUS
<1>5. new \in [Kinds -> Seq(Events)]
  BY <1>2, EmptySeq
<1> HIDE DEF new
<1>6. ASSUME NEW k \in Kinds, NEW n \in 1..Len(new[k])
      PROVE  k = "key" /\ n = 1 /\ new[k][n] = e
  <2>1. CASE k = "key"
    <3>1. new[k] = << e >>
      BY <1>4, <2>1
    <3> QED BY <2>1, <3>1
  <2>2. CASE k # "key"
    <3>1. new[k] = <<>>
      BY <1>4, <2>2
    <3> QED BY <3>1
  <2> QED BY <2>1, <2>2
<1>7. Fresh(new)
  BY <1>1, <1>3, <1>5, <1>6 DEF Fresh
<1> QED
  BY <1>7 DEF new, e

(* The clicks of a packet: one of each button whose state it changes, with *)
(* the state that the button has now.                                      *)
LEMMA ClicksType ==
  ASSUME TypeOK, mouseCycle = 2
  PROVE  /\ Clicks \in Seq(Events)
         /\ \A n \in 1..Len(Clicks) :
              /\ Clicks[n].source \in Changed
              /\ Clicks[n].id = raised[Clicks[n].source] + 1
              /\ Clicks[n].late = (phase = "click" /\ step = "reset")
              /\ Clicks[n].pressed <=> Clicks[n].source \in mouseBytes.buttons
         /\ \A m, n \in 1..Len(Clicks) : m < n => Clicks[m].source # Clicks[n].source
         /\ \A b \in Changed : \E n \in 1..Len(Clicks) : Clicks[n].source = b
<1> DEFINE l == Event("left", "left" \notin lastClick)
           r == Event("right", "right" \notin lastClick)
<1>1. Changed \subseteq {"left", "right"}
  BY DEF TypeOK, Changed, Buttons
<1>2. \A b \in Changed : b \notin lastClick <=> b \in mouseBytes.buttons
  BY DEF Changed
<1>3. l \in Events /\ r \in Events
  <2>1. ("left" \notin lastClick) \in BOOLEAN /\ ("right" \notin lastClick) \in BOOLEAN
    OBVIOUS
  <2> QED
    BY <2>1, EventType DEF Sources, Buttons
<1>4. /\ l.source = "left" /\ l.id = raised["left"] + 1
      /\ l.late = (phase = "click" /\ step = "reset")
      /\ l.pressed = ("left" \notin lastClick)
      /\ r.source = "right" /\ r.id = raised["right"] + 1
      /\ r.late = (phase = "click" /\ step = "reset")
      /\ r.pressed = ("right" \notin lastClick)
  BY DEF Event, Array, Buttons
<1>5. Clicks = (IF "left" \in Changed THEN << l >> ELSE <<>>)
                 \o (IF "right" \in Changed THEN << r >> ELSE <<>>)
  BY DEF Clicks
<1> HIDE DEF l, r
<1>6. << l >> \in Seq(Events) /\ << r >> \in Seq(Events) /\ <<>> \in Seq(Events)
  BY <1>3, EmptySeq
<1>7. Clicks \in Seq(Events)
  BY <1>5, <1>6, ConcatProperties
<1> DEFINE Tells(e) ==
      e.source \in Changed =>
        /\ e.id = raised[e.source] + 1
        /\ e.late = (phase = "click" /\ step = "reset")
        /\ e.pressed <=> e.source \in mouseBytes.buttons
<1>8. Tells(l) /\ Tells(r)
  BY <1>2, <1>4
<1>9. l.source = "left" /\ r.source = "right"
  BY <1>4
<1> SUFFICES
      /\ \A n \in 1..Len(Clicks) : Tells(Clicks[n]) /\ Clicks[n].source \in Changed
      /\ \A m, n \in 1..Len(Clicks) : m < n => Clicks[m].source # Clicks[n].source
      /\ \A b \in Changed : \E n \in 1..Len(Clicks) : Clicks[n].source = b
  BY <1>7
<1> HIDE DEF Tells
<1>10. CASE "left" \in Changed /\ "right" \in Changed
  <2>1. Clicks = << l >> \o << r >>
    BY <1>5, <1>10
  <2>2. /\ Len(<< l >>) = 1 /\ Len(<< r >>) = 1
        /\ << l >>[1] = l /\ << r >>[1] = r
    OBVIOUS
  <2>3. Len(Clicks) = 2 /\ Clicks[1] = l /\ Clicks[2] = r
    BY <1>6, <2>1, <2>2, ConcatProperties
  <2>4. \A n \in 1..Len(Clicks) : n = 1 \/ n = 2
    BY <2>3
  <2> QED BY <1>1, <1>8, <1>9, <1>10, <2>3, <2>4
<1>11. CASE "left" \in Changed /\ "right" \notin Changed
  <2>1. Clicks = << l >>
    BY <1>5, <1>6, <1>11, ConcatEmptySeq
  <2>2. Len(Clicks) = 1 /\ Clicks[1] = l
    BY <2>1
  <2>3. \A n \in 1..Len(Clicks) : n = 1
    BY <2>2
  <2> QED BY <1>1, <1>8, <1>9, <1>11, <2>2, <2>3
<1>12. CASE "left" \notin Changed /\ "right" \in Changed
  <2>1. Clicks = << r >>
    BY <1>5, <1>6, <1>12, ConcatEmptySeq
  <2>2. Len(Clicks) = 1 /\ Clicks[1] = r
    BY <2>1
  <2>3. \A n \in 1..Len(Clicks) : n = 1
    BY <2>2
  <2> QED BY <1>1, <1>8, <1>9, <1>12, <2>2, <2>3
<1>13. CASE "left" \notin Changed /\ "right" \notin Changed
  <2>1. Clicks = <<>>
    BY <1>5, <1>6, <1>13, ConcatEmptySeq
  <2> QED BY <1>1, <1>13, <2>1
<1> QED
  BY <1>10, <1>11, <1>12, <1>13

(* A packet appends a movement if it tells of one, and its clicks.         *)
PacketEvents(y) ==
  [key |-> <<>>,
   move |-> IF mouseBytes.x \/ y THEN << Event("move", FALSE) >> ELSE <<>>,
   click |-> Clicks]

LEMMA PacketFresh ==
  ASSUME TypeOK, mouseCycle = 2, NEW y \in BOOLEAN
  PROVE  Fresh(PacketEvents(y)) /\ PacketEvents(y)["click"] = Clicks
<1> DEFINE e == Event("move", FALSE)
           new == PacketEvents(y)
<1>1. "move" \in Sources /\ Array("move") = "move"
  BY DEF Sources, Array, Buttons
<1>2. e \in Events /\ <<>> \in Seq(Events)
  BY <1>1, EventType, EmptySeq
<1>3. /\ e.source = "move" /\ e.id = raised["move"] + 1
      /\ e.late = (phase = "move" /\ step = "reset")
  BY <1>1 DEF Event
<1>4. /\ new["key"] = <<>> /\ new["click"] = Clicks
      /\ new["move"] = <<>> \/ new["move"] = << e >>
      /\ DOMAIN new = Kinds
      /\ new = [k \in Kinds |-> new[k]]
  BY DEF PacketEvents, Kinds
<1> HIDE DEF e, new
<1>5. new \in [Kinds -> Seq(Events)]
  <2>1. << e >> \in Seq(Events)
    BY <1>2
  <2>2. new["key"] \in Seq(Events) /\ new["move"] \in Seq(Events) /\ new["click"] \in Seq(Events)
    BY <1>2, <1>4, <2>1, ClicksType
  <2>3. \A k \in Kinds : new[k] \in Seq(Events)
    BY <2>2 DEF Kinds
  <2> QED BY <1>4, <2>3
<1>6. \A n \in 1..Len(Clicks) : Array(Clicks[n].source) = "click"
  BY ClicksType DEF Array, Changed, TypeOK
<1>7. ASSUME NEW k \in Kinds, NEW n \in 1..Len(new[k])
      PROVE  /\ Array(new[k][n].source) = k
             /\ new[k][n].id = raised[new[k][n].source] + 1
             /\ new[k][n].late = (phase = k /\ step = "reset")
             /\ \A m \in 1..Len(new[k]) : m < n => new[k][m].source # new[k][n].source
  <2>1. CASE k = "key"
    BY <1>4, <2>1
  <2>2. CASE k = "move"
    <3>1. new[k] = << e >>
      <4>1. new[k] # <<>>
        <5>1. Len(<<>>) = 0
          OBVIOUS
        <5> QED BY <5>1
      <4> QED BY <1>4, <2>2, <4>1
    <3>2. n = 1
      BY <3>1
    <3> QED BY <1>1, <1>3, <2>2, <3>1, <3>2
  <2>3. CASE k = "click"
    BY <1>4, <1>6, <2>3, ClicksType
  <2> QED BY <2>1, <2>2, <2>3 DEF Kinds
<1>8. Fresh(new)
  BY <1>5, <1>7 DEF Fresh
<1> QED
  BY <1>4, <1>8 DEF new

(* Every handler keeps the invariant.                                      *)
LEMMA InterruptInv == Inv /\ Interrupt => Inv'
<1> SUFFICES ASSUME Inv, Interrupt PROVE Inv'
  OBVIOUS
<1> TypeOK
  BY DEF Inv
<1>1. CASE Keyboard
  <2> DEFINE new == [k \in Kinds |-> IF k = "key" THEN << Event("key", FALSE) >> ELSE <<>>]
  <2>1. Fresh(new) /\ new["click"] = <<>>
    BY KeyboardFresh DEF Kinds
  <2>2. Store(new) /\ UNCHANGED <<loopVars, log>> /\ UNCHANGED mouseVars
    BY <1>1 DEF Keyboard
  <2> HIDE DEF new
  <2>3. \A n \in 1..Len(new["click"]) : FALSE
    BY <2>1
  <2> QED
    BY <2>1, <2>2, <2>3, StoreInv DEF mouseVars, TypeOK
<1>2. CASE MouseByte
  <2>1. mouseCycle' \in 0..2 /\ mouseBytes' \in [buttons : SUBSET Buttons, x : BOOLEAN]
    <3>1. mouseCycle \in 0..2 /\ mouseBytes \in [buttons : SUBSET Buttons, x : BOOLEAN]
      BY DEF TypeOK
    <3>2. CASE /\ mouseCycle = 0
               /\ \E down \in SUBSET Buttons :
                    mouseBytes' = [mouseBytes EXCEPT !.buttons = down]
      BY <1>2, <3>1, <3>2 DEF MouseByte
    <3>3. CASE /\ mouseCycle = 1
               /\ \E moved \in BOOLEAN : mouseBytes' = [mouseBytes EXCEPT !.x = moved]
      BY <1>2, <3>1, <3>3 DEF MouseByte
    <3> QED BY <1>2, <3>2, <3>3 DEF MouseByte
  <2>2. UNCHANGED <<entries, current, lastClick, loopVars, raised, log>>
    BY <1>2 DEF MouseByte
  <2>3. TypeOK'
    BY <2>1, <2>2 DEF TypeOK, loopVars
  <2>4. \A k \in Kinds : PendingSeq(k)' = PendingSeq(k) /\ Kept(k)' = Kept(k)
    BY <2>2 DEF PendingSeq, Kept, loopVars
  <2>5. InOrder'
    BY <2>2, <2>4 DEF Inv, InOrder, WereRaised, Increasing
  <2>6. ButtonsAgree'
    BY <2>2, <2>4 DEF Inv, ButtonsAgree, LastClickTells, Kinds
  <2>7. DropsOnlyLate'
    BY <2>2, <2>4 DEF Inv, DropsOnlyLate, Pending, TypeOK, loopVars
  <2> QED
    BY <2>3, <2>5, <2>6, <2>7 DEF Inv
<1>3. CASE MousePacket
  <2>1. PICK y \in BOOLEAN : Store(PacketEvents(y))
    BY <1>3 DEF MousePacket, PacketEvents
  <2>2. /\ mouseCycle = 2 /\ mouseCycle' = 0 /\ mouseBytes' = mouseBytes
        /\ lastClick' = mouseBytes.buttons /\ UNCHANGED <<loopVars, log>>
    BY <1>3 DEF MousePacket
  <2>3. Fresh(PacketEvents(y)) /\ PacketEvents(y)["click"] = Clicks
    BY <2>2, PacketFresh
  <2>4. \A n \in 1..Len(Clicks) : Clicks[n].pressed <=> Clicks[n].source \in lastClick'
    BY <2>2, ClicksType
  <2>5. ASSUME NEW b \in Buttons
        PROVE  \/ b \in lastClick' <=> b \in lastClick
               \/ \E n \in 1..Len(Clicks) : Clicks[n].source = b
    <3>1. CASE b \in Changed
      BY <2>2, <3>1, ClicksType
    <3>2. CASE b \notin Changed
      BY <2>2, <3>2 DEF Changed
    <3> QED BY <3>1, <3>2
  <2>6. /\ mouseCycle' \in 0..2 /\ lastClick' \in SUBSET Buttons
        /\ mouseBytes' \in [buttons : SUBSET Buttons, x : BOOLEAN]
    BY <2>2 DEF TypeOK
  <2> QED
    BY <2>1, <2>2, <2>3, <2>4, <2>5, <2>6, StoreInv
<1> QED
  BY <1>1, <1>2, <1>3 DEF Interrupt

-----------------------------------------------------------------------------
(* The main loop.                                                          *)

(* A step that raises nothing, and keeps a beginning of what was kept, is  *)
(* in order and agrees with the buttons.                                   *)
LEMMA PrefixInv ==
  ASSUME InOrder, ButtonsAgree, UNCHANGED <<raised, lastClick>>,
         \A k \in Kinds : /\ Len(Kept(k))' \in Nat /\ Len(Kept(k))' <= Len(Kept(k))
                          /\ \A n \in 1..Len(Kept(k)') : Kept(k)'[n] = Kept(k)[n]
  PROVE  InOrder' /\ ButtonsAgree'
<1>1. \A k \in Kinds : \A n \in 1..Len(Kept(k)') :
        n \in 1..Len(Kept(k)) /\ Kept(k)'[n] = Kept(k)[n]
  OBVIOUS
<1>2. InOrder'
  BY <1>1 DEF InOrder, WereRaised, Increasing
<1>3. ButtonsAgree'
  BY <1>1 DEF ButtonsAgree, LastClickTells, Kinds
<1> QED
  BY <1>2, <1>3

(* The entry handled goes from what is pending to the log.                 *)
LEMMA DeliverKeeps ==
  ASSUME TypeOK, Deliver
  PROVE  /\ TypeOK'
         /\ \A k \in Kinds : Kept(k)' = Kept(k)
         /\ \A k \in Kinds : \A e \in Pending(k) :
              e \in Pending(k)' \/ e \in ToSet(log'[k])
<1> DEFINE q == entries[phase]
           e1 == q[i + 1]
<1>1. /\ phase \in Kinds /\ i \in Nat /\ i + 1 \in 1..Len(q)
      /\ q \in Seq(Events) /\ Len(q) \in Nat /\ e1 \in Events
  <2>1. phase \in Kinds /\ i \in Nat /\ i < current[phase]
    BY InputAssumption DEF Deliver, TypeOK
  <2>2. q \in Seq(Events) /\ Len(q) \in Nat /\ current[phase] = Len(q)
    BY <2>1, FromType
  <2>3. i + 1 \in 1..Len(q)
    BY <2>1, <2>2
  <2> QED BY <2>1, <2>2, <2>3, ElementOfSeq
<1>2. /\ log' = [log EXCEPT ![phase] = Append(log[phase], e1)] /\ i' = i + 1
      /\ UNCHANGED <<entries, current, mouseVars, phase, step, raised>>
  BY DEF Deliver
<1>3. /\ log[phase] \in Seq(Events) /\ Append(log[phase], e1) \in Seq(Events)
      /\ Append(log[phase], e1) = log[phase] \o << e1 >>
  <2> DEFINE l == log[phase]
  <2>1. l \in Seq(Events) /\ e1 \in Events
    BY <1>1, FromType
  <2> HIDE DEF l, e1
  <2>2. Append(l, e1) \in Seq(Events) /\ Append(l, e1) = l \o << e1 >>
    BY <2>1, AppendProperties, AppendIsConcat
  <2> QED BY <2>1, <2>2 DEF l
<1>4. TypeOK'
  <2>1. log' \in [Kinds -> Seq(Events)]
    BY <1>1, <1>2, <1>3 DEF TypeOK
  <2>2. current[phase] = Len(q) /\ current[phase] <= Cap
    BY <1>1 DEF TypeOK
  <2>3. i' \in 0..Cap /\ i' <= current'[phase']
    BY <1>1, <1>2, <2>2, InputAssumption
  <2> QED
    BY <1>1, <1>2, <2>1, <2>3 DEF TypeOK, mouseVars
<1>5. ASSUME NEW k \in Kinds, k # phase
      PROVE  PendingSeq(k)' = PendingSeq(k) /\ Kept(k)' = Kept(k)
  <2>1. log'[k] = log[k]
    BY <1>2, <1>5 DEF TypeOK
  <2> QED
    BY <1>2, <1>5, <2>1 DEF PendingSeq, Kept
<1>6. /\ PendingSeq(phase) = << e1 >> \o PendingSeq(phase)'
      /\ PendingSeq(phase)' \in Seq(Events)
      /\ log'[phase] = log[phase] \o << e1 >>
  <2>1. PendingSeq(phase) = SubSeq(q, i + 1, Len(q))
    BY <1>1, FromType DEF From
  <2>2. PendingSeq(phase)' = SubSeq(q, i + 1 + 1, Len(q))
    BY <1>1, <1>2, FromType DEF PendingSeq
  <2>3. SubSeq(q, i + 1, Len(q)) = << e1 >> \o SubSeq(q, i + 1 + 1, Len(q))
    <3> DEFINE m == i + 1
    <3>1. m \in 1..Len(q) /\ Len(q) \in m..Len(q) /\ q \in Seq(Events)
      BY <1>1
    <3> HIDE DEF m, q
    <3>2. SubSeq(q, m, Len(q)) = << q[m] >> \o SubSeq(q, m + 1, Len(q))
      BY <3>1, SubSeqRecursiveFirst
    <3> QED BY <3>2 DEF m
  <2>4. SubSeq(q, i + 1 + 1, Len(q)) \in Seq(Events)
    <3>1. i + 1 + 1 \in 1..(Len(q) + 1)
      BY <1>1
    <3> QED BY <1>1, <3>1, Suffix
  <2>5. log'[phase] = log[phase] \o << e1 >>
    BY <1>1, <1>2, <1>3 DEF TypeOK
  <2> QED
    BY <2>1, <2>2, <2>3, <2>4, <2>5
<1>7. Kept(phase)' = Kept(phase)
  <2> DEFINE l == log[phase]  p == PendingSeq(phase)'  f == << e1 >>
  <2>1. l \in Seq(Events) /\ p \in Seq(Events) /\ f \in Seq(Events)
    BY <1>1, <1>3, <1>6
  <2>2. Kept(phase)' = (l \o f) \o p
    BY <1>2, <1>6 DEF Kept
  <2>3. Kept(phase) = l \o (f \o p)
    BY <1>6 DEF Kept
  <2> HIDE DEF l, p, f
  <2>4. (l \o f) \o p = l \o (f \o p)
    BY <2>1, ConcatAssociative
  <2> QED
    BY <2>2, <2>3, <2>4
<1>8. Pending(phase) \subseteq Pending(phase)' \cup ToSet(log'[phase])
  <2>1. << e1 >> \in Seq(Events)
    BY <1>1
  <2>2. ToSet(<< e1 >> \o PendingSeq(phase)') = ToSet(<< e1 >>) \cup ToSet(PendingSeq(phase)')
    <3> DEFINE f == << e1 >>  p == PendingSeq(phase)'
    <3>1. f \in Seq(Events) /\ p \in Seq(Events)
      BY <1>6, <2>1
    <3> HIDE DEF f, p
    <3>2. ToSet(f \o p) = ToSet(f) \cup ToSet(p)
      BY <3>1, ToSetConcat
    <3> QED BY <3>2 DEF f, p
  <2>3. ToSet(log'[phase]) = ToSet(log[phase]) \cup ToSet(<< e1 >>)
    <3> DEFINE l == log[phase]  f == << e1 >>
    <3>1. l \in Seq(Events) /\ f \in Seq(Events) /\ log'[phase] = l \o f
      BY <1>3, <1>6, <2>1
    <3> HIDE DEF l, f
    <3>2. ToSet(l \o f) = ToSet(l) \cup ToSet(f)
      BY <3>1, ToSetConcat
    <3> QED
      BY <3>1, <3>2 DEF l, f
  <2> QED
    BY <1>2, <1>6, <2>2, <2>3 DEF Pending
<1>9. \A k \in Kinds : k # phase => Pending(k)' = Pending(k)
  BY <1>5 DEF Pending
<1> QED
  BY <1>1, <1>2, <1>4, <1>5, <1>7, <1>8, <1>9

(* The test that ends a loop finds nothing pending in its array.           *)
LEMMA ExitTestKeeps ==
  ASSUME TypeOK, ExitTest
  PROVE  /\ TypeOK' /\ DropsOnlyLate'
         /\ \A k \in Kinds : PendingSeq(k)' = PendingSeq(k) /\ Kept(k)' = Kept(k)
<1>1. /\ phase \in Kinds /\ i >= current[phase] /\ step' = "reset"
      /\ UNCHANGED <<entries, current, mouseVars, phase, i, raised, log>>
  BY DEF ExitTest
<1>2. TypeOK'
  BY <1>1 DEF TypeOK, mouseVars
<1>3. \A k \in Kinds : PendingSeq(k)' = PendingSeq(k) /\ Kept(k)' = Kept(k)
  BY <1>1 DEF PendingSeq, Kept
<1>4. PendingSeq(phase) = <<>>
  <2>1. i \in Int /\ current[phase] \in Int
    BY <1>1, FromType, InputAssumption DEF TypeOK
  <2>2. PendingSeq(phase) = SubSeq(entries[phase], i + 1, current[phase])
    BY DEF PendingSeq
  <2> QED
    BY <1>1, <2>1, <2>2, SubSeqEmpty
<1>5. DropsOnlyLate'
  BY <1>1, <1>3, <1>4 DEF DropsOnlyLate, Pending, ToSet
<1> QED
  BY <1>2, <1>3, <1>5

(* The reset drops what is pending in its own array and nothing else.      *)
LEMMA ResetKeeps ==
  ASSUME TypeOK, Reset
  PROVE  /\ TypeOK' /\ DropsOnlyLate' /\ phase \in Kinds
         /\ \A k \in Kinds \ {phase} : PendingSeq(k)' = PendingSeq(k) /\ Kept(k)' = Kept(k)
         /\ \A k \in {phase} : /\ Kept(k) = log[k] \o PendingSeq(k)
                               /\ Kept(k)' = log[k]
<1>1. /\ phase \in Kinds /\ step' = "drain" /\ i' = 0 /\ phase' = After(phase)
      /\ current' = [current EXCEPT ![phase] = 0]
      /\ entries' = [entries EXCEPT ![phase] = <<>>]
      /\ UNCHANGED <<mouseVars, raised, log>>
  BY DEF Reset, TypeOK
<1>2. phase' \in Kinds \cup {"rest"} /\ phase' # phase
  BY <1>1 DEF After, Kinds
<1>3. TypeOK'
  <2>1. <<>> \in Seq(Events) /\ Len(<<>>) = 0
    BY EmptySeq
  <2>2. entries' \in [Kinds -> Seq(Events)]
    BY <1>1, <2>1 DEF TypeOK
  <2>3. current' = [k \in Kinds |-> Len(entries'[k])] /\ \A k \in Kinds : current'[k] <= Cap
    <3>1. ASSUME NEW k \in Kinds
          PROVE  current'[k] = Len(entries'[k]) /\ current'[k] <= Cap
      <4>1. CASE k = phase
        BY <1>1, <2>1, <4>1, InputAssumption DEF TypeOK
      <4>2. CASE k # phase
        BY <1>1, <4>2 DEF TypeOK
      <4> QED BY <4>1, <4>2
    <3>2. current' = [k \in Kinds |-> current'[k]]
      BY <1>1 DEF TypeOK
    <3> QED BY <3>1, <3>2
  <2>4. \A k \in Kinds : Len(entries'[k]) \in Nat
    BY <2>2, LenProperties
  <2>5. i' \in 0..Cap /\ IF phase' \in Kinds THEN i' <= current'[phase'] ELSE i' = 0 /\ step' = "drain"
    BY <1>1, <2>3, <2>4, InputAssumption
  <2> QED
    BY <1>1, <1>2, <2>2, <2>3, <2>5 DEF TypeOK, mouseVars
<1>4. DropsOnlyLate'
  BY <1>1 DEF DropsOnlyLate
<1>5. ASSUME NEW k \in Kinds \ {phase}
      PROVE  PendingSeq(k)' = PendingSeq(k) /\ Kept(k)' = Kept(k)
  <2>1. entries'[k] = entries[k] /\ current'[k] = current[k]
    BY <1>1 DEF TypeOK
  <2>2. /\ (IF phase' = k THEN i' ELSE 0) = 0
        /\ (IF phase = k THEN i ELSE 0) = 0
    BY <1>1
  <2>3. PendingSeq(k)' = PendingSeq(k)
    BY <2>1, <2>2 DEF PendingSeq
  <2> QED
    BY <1>1, <2>3 DEF Kept
<1>6. ASSUME NEW k \in {phase} PROVE Kept(k)' = log[k]
  <2>1. k \in Kinds /\ phase' # k /\ current'[k] = 0
    BY <1>1, <1>2 DEF TypeOK
  <2>2. PendingSeq(k)' = SubSeq(entries'[k], 1, 0)
    BY <2>1 DEF PendingSeq
  <2>3. PendingSeq(k)' = <<>>
    BY <2>2, SubSeqEmpty
  <2>4. Kept(k)' = log[k] \o <<>> /\ log[k] \in Seq(Events)
    BY <1>1, <2>1, <2>3, FromType DEF Kept
  <2> QED
    BY <2>4, ConcatEmptySeq
<1> QED
  BY <1>1, <1>3, <1>4, <1>5, <1>6 DEF Kept

(* The rest of the loop's body touches none of this.                       *)
LEMMA RestKeeps ==
  ASSUME TypeOK, Rest
  PROVE  /\ TypeOK' /\ DropsOnlyLate'
         /\ \A k \in Kinds : PendingSeq(k)' = PendingSeq(k) /\ Kept(k)' = Kept(k)
<1>1. /\ phase = "rest" /\ phase' = "key" /\ i = 0 /\ step = "drain"
      /\ UNCHANGED <<entries, current, mouseVars, step, i, raised, log>>
  BY DEF Rest, TypeOK, Kinds
<1>2. current["key"] \in Nat
  BY FromType DEF Kinds
<1>3. TypeOK'
  BY <1>1, <1>2 DEF TypeOK, mouseVars, Kinds
<1>4. DropsOnlyLate'
  BY <1>1 DEF DropsOnlyLate
<1>5. \A k \in Kinds : PendingSeq(k)' = PendingSeq(k) /\ Kept(k)' = Kept(k)
  BY <1>1 DEF PendingSeq, Kept
<1> QED
  BY <1>3, <1>4, <1>5

LEMMA MainLoopInv == Inv /\ MainLoop => Inv'
<1> SUFFICES ASSUME Inv, MainLoop PROVE Inv'
  OBVIOUS
<1> TypeOK /\ InOrder /\ ButtonsAgree /\ DropsOnlyLate
  BY DEF Inv
<1>1. \A k \in Kinds : Kept(k) \in Seq(Events) /\ Len(Kept(k)) \in Nat
  BY FromType, LenProperties
<1>2. UNCHANGED <<raised, lastClick>>
  BY DEF MainLoop, Deliver, ExitTest, Reset, Rest, mouseVars
<1>3. ASSUME \A k \in Kinds : Kept(k)' = Kept(k)
      PROVE  InOrder' /\ ButtonsAgree'
  BY <1>1, <1>2, <1>3, PrefixInv
<1>4. CASE Deliver
  <2>1. DropsOnlyLate'
    BY <1>4 DEF Deliver, DropsOnlyLate
  <2> QED
    BY <1>3, <1>4, <2>1, DeliverKeeps DEF Inv
<1>5. CASE ExitTest
  BY <1>3, <1>5, ExitTestKeeps DEF Inv
<1>6. CASE Reset
  <2>1. ASSUME NEW k \in Kinds
        PROVE  /\ Len(Kept(k))' \in Nat /\ Len(Kept(k))' <= Len(Kept(k))
               /\ \A n \in 1..Len(Kept(k)') : Kept(k)'[n] = Kept(k)[n]
    <3>1. CASE k # phase
      <4>1. Kept(k)' = Kept(k)
        BY <1>6, <3>1, ResetKeeps
      <4> QED BY <1>1, <4>1
    <3>2. CASE k = phase
      <4>1. /\ log[k] \in Seq(Events) /\ PendingSeq(k) \in Seq(Events)
            /\ Kept(k)' = log[k] /\ Kept(k) = log[k] \o PendingSeq(k)
        <5>1. log[k] \in Seq(Events) /\ PendingSeq(k) \in Seq(Events)
          BY FromType
        <5>2. Kept(k)' = log[k] /\ Kept(k) = log[k] \o PendingSeq(k)
          BY <1>6, <3>2, ResetKeeps
        <5> QED BY <5>1, <5>2
      <4> DEFINE l == log[k]  p == PendingSeq(k)
      <4>2. l \in Seq(Events) /\ p \in Seq(Events)
        BY <4>1
      <4> HIDE DEF l, p
      <4>3. /\ Len(l \o p) = Len(l) + Len(p) /\ Len(l) \in Nat /\ Len(p) \in Nat
            /\ \A n \in 1..(Len(l) + Len(p)) :
                 (l \o p)[n] = IF n <= Len(l) THEN l[n] ELSE p[n - Len(l)]
        BY <4>2, ConcatProperties, LenProperties
      <4>4. Kept(k)' = l /\ Kept(k) = l \o p
        BY <4>1 DEF l, p
      <4> QED BY <4>3, <4>4
    <3> QED BY <3>1, <3>2
  <2>2. InOrder' /\ ButtonsAgree'
    BY <1>2, <2>1, PrefixInv
  <2> QED
    BY <1>6, <2>2, ResetKeeps DEF Inv
<1>7. CASE Rest
  BY <1>3, <1>7, RestKeeps DEF Inv
<1> QED
  BY <1>4, <1>5, <1>6, <1>7 DEF MainLoop

-----------------------------------------------------------------------------
(* What holds from the start.                                              *)
LEMMA InitInv == Init => Inv
<1> SUFFICES ASSUME Init PROVE Inv
  OBVIOUS
<1>1. <<>> \in Seq(Events) /\ Len(<<>>) = 0
  BY EmptySeq
<1>2. TypeOK
  BY <1>1, InputAssumption DEF Init, TypeOK, Kinds
<1>3. \A k \in Kinds : Kept(k) = <<>>
  <2> TAKE k \in Kinds
  <2>1. PendingSeq(k) = SubSeq(entries[k], 1, 0)
    BY DEF Init, PendingSeq
  <2>2. PendingSeq(k) = <<>>
    BY <2>1, SubSeqEmpty
  <2> QED
    BY <1>1, <2>2, ConcatEmptySeq DEF Init, Kept
<1>4. InOrder
  BY <1>1, <1>3 DEF InOrder, WereRaised, Increasing
<1>5. ButtonsAgree
  BY DEF Init, ButtonsAgree, Sources
<1>6. DropsOnlyLate
  BY DEF Init, DropsOnlyLate
<1> QED
  BY <1>2, <1>4, <1>5, <1>6 DEF Inv

LEMMA StutterInv == Inv /\ UNCHANGED vars => Inv'
<1> SUFFICES ASSUME Inv, UNCHANGED vars PROVE Inv'
  OBVIOUS
<1>1. \A k \in Kinds : PendingSeq(k)' = PendingSeq(k) /\ Kept(k)' = Kept(k)
  BY DEF vars, loopVars, PendingSeq, Kept
<1>2. TypeOK'
  BY DEF Inv, TypeOK, vars, mouseVars, loopVars
<1>3. InOrder'
  BY <1>1 DEF Inv, InOrder, WereRaised, Increasing, vars
<1>4. ButtonsAgree'
  BY <1>1 DEF Inv, ButtonsAgree, LastClickTells, Kinds, vars, mouseVars
<1>5. DropsOnlyLate'
  BY <1>1 DEF Inv, TypeOK, DropsOnlyLate, Pending, vars, loopVars
<1> QED
  BY <1>2, <1>3, <1>4, <1>5 DEF Inv

LEMMA NextInv == Inv /\ [Next]_vars => Inv'
BY InterruptInv, MainLoopInv, StutterInv DEF Next

(* For arrays of every size, and however the handlers run between the      *)
(* steps of the loops: what is handled was raised, in the order it was     *)
(* raised and no event twice, and a button's last click tells its state.   *)
THEOREM EventsInv == Spec => []Inv
BY InitInv, NextInv, PTL DEF Spec

(* No event is lost that arrived before the test that ends its loop.       *)
THEOREM EventsLateOnly == Spec => OnlyLateEventsAreLost
<1> DEFINE Keeps == \A k \in Kinds : \A e \in Pending(k) :
                      e.late \/ e \in Pending(k)' \/ e \in ToSet(log'[k])
<1>1. Inv /\ [Next]_vars => [Keeps]_vars
  <2> SUFFICES ASSUME Inv, Next PROVE Keeps
    OBVIOUS
  <2> TypeOK
    BY DEF Inv
  <2> SUFFICES ASSUME NEW k \in Kinds, NEW e \in Pending(k)
               PROVE  e.late \/ e \in Pending(k)' \/ e \in ToSet(log'[k])
    OBVIOUS
  <2>1. CASE Keyboard
    <3>1. UNCHANGED <<loopVars, log>>
      BY <2>1 DEF Keyboard
    <3> QED
      BY <2>1, <3>1, KeyboardFresh, StoreLosesNothing DEF Keyboard
  <2>2. CASE MouseByte
    BY <2>2 DEF MouseByte, Pending, PendingSeq, loopVars
  <2>3. CASE MousePacket
    <3>1. PICK y \in BOOLEAN : Store(PacketEvents(y))
      BY <2>3 DEF MousePacket, PacketEvents
    <3>2. mouseCycle = 2 /\ UNCHANGED <<loopVars, log>>
      BY <2>3 DEF MousePacket
    <3> QED
      BY <3>1, <3>2, PacketFresh, StoreLosesNothing
  <2>4. CASE Deliver
    BY <2>4, DeliverKeeps
  <2>5. CASE ExitTest
    BY <2>5, ExitTestKeeps DEF Pending
  <2>6. CASE Reset
    <3>1. CASE k = phase
      BY <2>6, <3>1 DEF Inv, DropsOnlyLate, Reset
    <3>2. CASE k # phase
      BY <2>6, <3>2, ResetKeeps DEF Pending
    <3> QED BY <3>1, <3>2
  <2>7. CASE Rest
    BY <2>7, RestKeeps DEF Pending
  <2> QED
    BY <2>1, <2>2, <2>3, <2>4, <2>5, <2>6, <2>7 DEF Next, Interrupt, MainLoop
<1> QED
  BY EventsInv, <1>1, PTL DEF Spec, OnlyLateEventsAreLost

=============================================================================
