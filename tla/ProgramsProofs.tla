--------------------------- MODULE ProgramsProofs ---------------------------
(* Proofs about the list library and Programs, for any blocks, any number  *)
(* of programs and any number of terminals.                                *)
EXTENDS Programs, Integers, SequenceTheorems, FiniteSetTheorems,
        WellFoundedInduction, TLAPS

-----------------------------------------------------------------------------
(* Sequences and numbers.                                                  *)
LEMMA LeastOf ==
  ASSUME NEW S, S \subseteq Nat, S # {}
  PROVE  Min(S) \in S /\ \A m \in S : Min(S) <= m
<1> DEFINE Below == OpToRel(<, Nat)
<1>1. IsWellFoundedOn(Below, Nat)
  BY NatLessThanWellFounded, Zenon
<1>2. \A m, n \in Nat : <<n, m>> \in Below <=> n < m
  BY DEF OpToRel
<1> HIDE DEF Below
<1>3. PICK m \in S : \A n \in S : ~(<<n, m>> \in Below)
  BY Zenon, <1>1, WFMin
<1>4. ASSUME NEW n \in S PROVE m <= n
  <2>1. m \in Nat /\ n \in Nat /\ ~(n < m)
    BY Zenon, <1>2, <1>3
  <2> QED
    BY <2>1
<1> QED
  BY Zenon, <1>4 DEF Min

LEMMA RemovedAt ==
  ASSUME NEW S, NEW q \in Seq(S), NEW n \in 1 .. Len(q)
  PROVE  /\ RemoveAt(q, n) \in Seq(S)
         /\ Len(RemoveAt(q, n)) = Len(q) - 1
         /\ \A k \in 1 .. Len(q) - 1 :
              RemoveAt(q, n)[k] = IF k < n THEN q[k] ELSE q[k + 1]
<1> DEFINE a == SubSeq(q, 1, n - 1)
           b == SubSeq(q, n + 1, Len(q))
<1>1. Len(q) \in Nat /\ n \in Nat /\ 1 <= n /\ n <= Len(q)
  BY LenProperties
<1>2. /\ a \in Seq(S) /\ Len(a) = n - 1
      /\ \A k \in 1 .. n - 1 : a[k] = q[k]
  <2>1. n - 1 <= Len(q) /\ n - 1 \in Int
    BY <1>1
  <2> QED
    BY <1>1, <2>1, SubSeqProperties
<1>3. /\ b \in Seq(S) /\ Len(b) = Len(q) - n
      /\ \A k \in 1 .. Len(q) - n : b[k] = q[n + k]
  BY <1>1, SubSeqProperties
<1> HIDE DEF a, b
<1>4. /\ a \o b \in Seq(S) /\ Len(a \o b) = Len(a) + Len(b)
      /\ \A k \in 1 .. Len(a) + Len(b) :
           (a \o b)[k] = IF k <= Len(a) THEN a[k] ELSE b[k - Len(a)]
  BY Zenon, <1>2, <1>3, ConcatProperties
<1>5. RemoveAt(q, n) = a \o b
  BY DEF RemoveAt, a, b
<1>6. ASSUME NEW k \in 1 .. Len(q) - 1
      PROVE  (a \o b)[k] = IF k < n THEN q[k] ELSE q[k + 1]
  <2>1. k \in 1 .. Len(a) + Len(b)
    BY <1>1, <1>2, <1>3
  <2>2. CASE k < n
    BY <1>1, <1>2, <1>4, <2>1, <2>2
  <2>3. CASE ~(k < n)
    <3>1. k - Len(a) \in 1 .. Len(q) - n /\ n + (k - Len(a)) = k + 1 /\ ~(k <= Len(a))
      BY <1>1, <1>2, <2>3
    <3> QED
      BY Zenon, <1>3, <1>4, <2>1, <2>3, <3>1
  <2> QED
    BY Zenon, <2>2, <2>3
<1> QED
  <2>1. a \o b \in Seq(S) /\ Len(a \o b) = Len(q) - 1
    BY <1>1, <1>2, <1>3, <1>4
  <2> QED
    BY Zenon, <1>5, <1>6, <2>1

-----------------------------------------------------------------------------
(* The lists. A sequence s of blocks is the list at `from`.                *)
Node(from, s, k) == IF k = 0 THEN from ELSE s[k]

IsList(links, from, s) ==
  /\ \A j, k \in 1..Len(s) : s[j] = s[k] => j = k
  /\ links[Node(from, s, Len(s))] = Null
  /\ \A k \in 1..Len(s) : links[Node(from, s, k - 1)] = s[k]

(* The recursion that defines Items, which comes to an end.               *)
IsVisit(links, D, N, visit) ==
  visit = [k \in 0..N |-> [n \in D |->
             IF k = 0 \/ links[n] = Null THEN <<>> ELSE <<links[n]>> \o visit[k - 1][links[n]]]]

LEMMA VisitDefined ==
  ASSUME NEW D, NEW links \in [D -> D \cup {Null}], NEW N \in Nat
  PROVE  \E visit : IsVisit(links, D, N, visit)
<1> DEFINE P(K) == \E visit : visit = [k \in 0..K |-> [n \in D |->
           IF k = 0 \/ links[n] = Null THEN <<>> ELSE <<links[n]>> \o visit[k - 1][links[n]]]]
           Bad == {K \in Nat : ~P(K)}
<1>1. P(0)
  <2> DEFINE v == [k \in 0..0 |-> [n \in D |-> <<>>]]
  <2>1. v = [k \in 0..0 |-> [n \in D |->
           IF k = 0 \/ links[n] = Null THEN <<>> ELSE <<links[n]>> \o v[k - 1][links[n]]]]
    OBVIOUS
  <2> QED BY Zenon, <2>1
<1>2. ASSUME NEW K \in Nat, P(K) PROVE P(K + 1)
  <2>1. PICK v : v = [k \in 0..K |-> [n \in D |->
           IF k = 0 \/ links[n] = Null THEN <<>> ELSE <<links[n]>> \o v[k - 1][links[n]]]]
    BY <1>2
  <2> DEFINE w == [k \in 0..(K + 1) |-> IF k \in 0..K THEN v[k] ELSE [n \in D |->
                     IF links[n] = Null THEN <<>> ELSE <<links[n]>> \o v[K][links[n]]]]
             body == [k \in 0..(K + 1) |-> [n \in D |->
           IF k = 0 \/ links[n] = Null THEN <<>> ELSE <<links[n]>> \o w[k - 1][links[n]]]]
  <2>2. ASSUME NEW k \in 0..(K + 1) PROVE w[k] = body[k]
    <3>1. CASE k = K + 1
      <4>1. w[k] = [n \in D |->
              IF links[n] = Null THEN <<>> ELSE <<links[n]>> \o v[K][links[n]]]
        BY <3>1
      <4>2. w[k - 1] = v[K]
        BY <3>1
      <4>3. body[k] = [n \in D |->
              IF links[n] = Null THEN <<>> ELSE <<links[n]>> \o w[k - 1][links[n]]]
        BY <3>1
      <4> HIDE DEF w, body
      <4> QED BY <4>1, <4>2, <4>3
    <3>2. CASE k = 0
      <4>1. w[k] = v[k]
        BY <3>2
      <4>2. v[k] = [n \in D |-> <<>>]
        BY <2>1, <3>2
      <4>3. body[k] = [n \in D |-> <<>>]
        BY <3>2
      <4> HIDE DEF w, body
      <4> QED BY <4>1, <4>2, <4>3
    <3>3. CASE k \in 1..K
      <4>1. w[k] = v[k] /\ w[k - 1] = v[k - 1]
        BY <3>3
      <4>2. v[k] = [n \in D |->
              IF links[n] = Null THEN <<>> ELSE <<links[n]>> \o v[k - 1][links[n]]]
        <5>1. k \in 0..K /\ k # 0
          BY <3>3
        <5>2. v[k] = [n \in D |->
                IF k = 0 \/ links[n] = Null THEN <<>> ELSE <<links[n]>> \o v[k - 1][links[n]]]
          BY Zenon, <2>1, <5>1
        <5> QED BY <5>1, <5>2
      <4>3. body[k] = [n \in D |->
              IF links[n] = Null THEN <<>> ELSE <<links[n]>> \o w[k - 1][links[n]]]
        BY <3>3
      <4> HIDE DEF w, body
      <4> QED BY <4>1, <4>2, <4>3
    <3> QED BY <3>1, <3>2, <3>3
  <2>3. w = [k \in 0..(K + 1) |-> w[k]] /\ body = [k \in 0..(K + 1) |-> body[k]]
    OBVIOUS
  <2>4. w = body
    <3> HIDE DEF w, body
    <3> QED BY <2>2, <2>3
  <2> QED BY Zenon, <2>4
<1>3. Bad = {}
  <2> SUFFICES ASSUME Bad # {} PROVE FALSE
    OBVIOUS
  <2> HIDE DEF P
  <2>1. PICK m \in Bad : \A k \in Bad : m <= k
    BY Zenon, LeastOf
  <2>2. m # 0 /\ m \in Nat
    BY <1>1, <2>1
  <2>3. m - 1 \in Nat /\ P(m - 1)
    BY <2>1, <2>2
  <2>4. P(m - 1 + 1)
    BY <1>2, <2>3
  <2> QED BY <2>1, <2>2, <2>4
<1> QED
  BY Zenon, <1>3 DEF IsVisit

(* Items is the recursion that it is defined by.                           *)
LEMMA ItemsVisit ==
  ASSUME NEW D, IsFiniteSet(D), NEW links \in [D -> D \cup {Null}], NEW from \in D
  PROVE  \E visit :
           /\ \A k \in 0..Cardinality(D), n \in D : visit[k][n] =
                IF k = 0 \/ links[n] = Null THEN <<>>
                ELSE <<links[n]>> \o visit[k - 1][links[n]]
           /\ Items(links, from) = visit[Cardinality(D)][from]
<1> DEFINE N == Cardinality(D)
           v == CHOOSE visit : IsVisit(links, D, N, visit)
<1>1. N \in Nat /\ DOMAIN links = D
  BY FS_CardinalityType
<1>2. \E visit : IsVisit(links, D, N, visit)
  <2> HIDE DEF N
  <2> QED BY <1>1, VisitDefined
<1>3. IsVisit(links, D, N, v)
  BY <1>2
<1>4. Items(links, from) = v[N][from]
  BY Zenon, <1>1 DEF Items, IsVisit
<1> HIDE DEF v, N
<1>5. ASSUME NEW k \in 0..N, NEW n \in D
      PROVE  v[k][n] =
        IF k = 0 \/ links[n] = Null THEN <<>> ELSE <<links[n]>> \o v[k - 1][links[n]]
  <2>1. v[k] = [d \in D |->
           IF k = 0 \/ links[d] = Null THEN <<>> ELSE <<links[d]>> \o v[k - 1][links[d]]]
    BY Zenon, <1>3, <1>5 DEF IsVisit
  <2> QED BY <2>1
<1> QED
  BY <1>4, <1>5 DEF N

(* What Items makes of the links of a list is the list.                    *)
LEMMA ItemsOfList ==
  ASSUME NEW B, NEW L, IsFiniteSet(B), IsFiniteSet(L), Null \notin B,
         NEW links \in [B \cup L -> B \cup {Null}], NEW from \in B \cup L,
         NEW s \in Seq(B), IsList(links, from, s)
  PROVE  Items(links, from) = s
<1> DEFINE D == B \cup L
           N == Cardinality(D)
           n == Len(s)
<1>1. IsFiniteSet(D) /\ N \in Nat /\ links \in [D -> D \cup {Null}]
  <2>1. IsFiniteSet(D)
    BY Zenon, FS_Union
  <2> QED
    BY <2>1, FS_CardinalityType
<1>2. n \in Nat /\ n <= N
  <2>1. n \in Nat /\ s \in [1..n -> D]
    BY LenProperties, ElementOfSeq
  <2>2. s \in Injection(1..n, D)
    BY <2>1 DEF IsList, IsInjective, Injection
  <2>3. Cardinality(1..n) <= N
    BY <1>1, <2>2, FS_Injection
  <2>4. Cardinality(1..n) = n
    <3> HIDE DEF n
    <3>1. Cardinality(1..n) = IF 1 > n THEN 0 ELSE n - 1 + 1
      BY <2>1, FS_Interval
    <3> QED BY <2>1, <3>1
  <2> QED
    BY <2>1, <2>3, <2>4
<1>3. PICK v :
        /\ \A k \in 0..N, d \in D : v[k][d] =
             IF k = 0 \/ links[d] = Null THEN <<>> ELSE <<links[d]>> \o v[k - 1][links[d]]
        /\ Items(links, from) = v[N][from]
  <2> HIDE DEF D
  <2> QED BY <1>1, ItemsVisit
<1> DEFINE P(j) == v[N - n + j][Node(from, s, n - j)] = SubSeq(s, n - j + 1, n)
           Bad == {j \in 0..n : ~P(j)}
<1> HIDE DEF N
<1>4. \A k \in 0..n : Node(from, s, k) \in D
  BY ElementOfSeq DEF Node
<1>5. P(0)
  <2>1. SubSeq(s, n + 1, n) = <<>>
    BY <1>2, SubSeqEmpty
  <2>2. links[Node(from, s, n)] = Null /\ Node(from, s, n) \in D
    BY <1>2, <1>4 DEF IsList
  <2>3. N - n \in 0..N /\ n - 0 = n /\ N - n + 0 = N - n
    BY <1>1, <1>2
  <2>4. v[N - n][Node(from, s, n)] = <<>>
    BY Zenon, <1>3, <2>2, <2>3
  <2> QED BY Zenon, <2>1, <2>3, <2>4
<1>6. ASSUME NEW j \in 0..(n - 1), P(j) PROVE P(j + 1)
  <2> DEFINE d == Node(from, s, n - j - 1)
             e == Node(from, s, n - j)
  <2>1. d \in D /\ links[d] = e /\ e = s[n - j] /\ e \in B
    BY <1>2, <1>4, ElementOfSeq DEF IsList, Node
  <2>2. v[N - n + j + 1][d] = <<e>> \o v[N - n + j][e]
    <3> HIDE DEF d, e
    <3>1. N - n + j + 1 \in 0..N /\ N - n + j + 1 # 0 /\ N - n + j + 1 - 1 = N - n + j
      BY <1>1, <1>2
    <3>2. e # Null
      BY <2>1
    <3> DEFINE m == N - n + j + 1
    <3>3. m \in 0..N /\ m # 0 /\ m - 1 = N - n + j
      <4> HIDE DEF n
      <4>1. j \in Nat /\ j <= n - 1
        BY <1>2
      <4> QED BY <1>1, <1>2, <4>1
    <3> HIDE DEF m
    <3>4. v[m][d] = <<links[d]>> \o v[m - 1][links[d]]
      <4>1. links[d] # Null
        BY <2>1, <3>2
      <4>2. v[m][d] = IF m = 0 \/ links[d] = Null THEN <<>>
                      ELSE <<links[d]>> \o v[m - 1][links[d]]
        BY <1>3, <2>1, <3>3
      <4> QED BY <3>3, <4>1, <4>2
    <3> QED BY Zenon, <2>1, <3>3, <3>4 DEF m
  <2>3. v[N - n + j][e] = SubSeq(s, n - j + 1, n)
    BY <1>6
  <2>4. SubSeq(s, n - j, n) = <<s[n - j]>> \o SubSeq(s, n - j + 1, n)
    <3> DEFINE a == n - j
    <3>1. a \in 1..n
      BY <1>2
    <3> HIDE DEF a
    <3>2. SubSeq(s, a, n) = <<s[a]>> \o SubSeq(s, a + 1, n)
      BY <1>2, <3>1
    <3> QED BY <3>2 DEF a
  <2>5. n - (j + 1) = n - j - 1 /\ N - n + (j + 1) = N - n + j + 1 /\ n - (j + 1) + 1 = n - j
    BY <1>1, <1>2
  <2> QED BY Zenon, <2>1, <2>2, <2>3, <2>4, <2>5
<1>7. Bad = {}
  <2> HIDE DEF P
  <2> SUFFICES ASSUME Bad # {} PROVE FALSE
    OBVIOUS
  <2>0. Bad \subseteq Nat
    BY <1>2
  <2>1. PICK m \in Bad : \A k \in Bad : m <= k
    <3> HIDE DEF Bad
    <3> QED BY Zenon, <2>0, LeastOf
  <2>2. m # 0 /\ m \in 0..n
    BY <1>5, <2>1
  <2>3. m - 1 \in 0..(n - 1) /\ P(m - 1)
    BY <1>2, <2>1, <2>2
  <2>4. P(m - 1 + 1)
    BY <1>6, <2>3
  <2> QED BY <1>2, <2>1, <2>2, <2>4
<1>8. P(n)
  <2> HIDE DEF P
  <2> QED BY <1>2, <1>7
<1>9. N - n + n = N /\ n - n = 0 /\ n - n + 1 = 1
  BY <1>1, <1>2
<1>10. v[N][from] = SubSeq(s, 1, n)
  BY <1>8, <1>9 DEF Node
<1>11. SubSeq(s, 1, n) = s
  BY <1>2, SubSeqFull
<1> QED
  BY <1>3, <1>10, <1>11

(* The blocks B and list variables L with their links.                     *)
Memory(B, L, links) ==
  /\ IsFiniteSet(B) /\ IsFiniteSet(L) /\ Null \notin B \cup L /\ B \cap L = {}
  /\ links \in [B \cup L -> B \cup {Null}]

(* What a list consists of, and where it ends.                             *)
LEMMA ListNodes ==
  ASSUME NEW B, NEW L, NEW links, Memory(B, L, links),
         NEW from \in B \cup L, NEW s \in Seq(B), IsList(links, from, s)
  PROVE  /\ Items(links, from) = s
         /\ Len(s) \in Nat /\ DOMAIN s = 1..Len(s)
         /\ \A k \in 1..Len(s) : s[k] \in B /\ Node(from, s, k) = s[k]
         /\ Node(from, s, 0) = from
         /\ \A k \in 0..Len(s) : Node(from, s, k) \in B \cup L
         /\ End(links, from) = Node(from, s, Len(s))
         /\ links[Node(from, s, Len(s))] = Null
<1>1. Len(s) \in Nat /\ DOMAIN s = 1..Len(s) /\ \A k \in 1..Len(s) : s[k] \in B
  BY LenProperties, ElementOfSeq
<1>2. Items(links, from) = s
  BY Zenon, ItemsOfList DEF Memory
<1>3. End(links, from) = Node(from, s, Len(s))
  <2>1. CASE s = <<>>
    <3>1. Len(s) = 0
      BY <2>1, EmptySeq
    <3> QED BY <1>2, <2>1, <3>1 DEF End, Node
  <2>2. CASE s # <<>>
    <3>1. Len(s) # 0
      BY <2>2, EmptySeq
    <3> QED BY <1>2, <2>2, <3>1 DEF End, Node
  <2> QED BY <2>1, <2>2
<1>4. \A k \in 0..Len(s) : Node(from, s, k) \in B \cup L
  BY <1>1 DEF Node
<1>5. links[Node(from, s, Len(s))] = Null
  BY <1>1 DEF IsList
<1>6. Node(from, s, 0) = from /\ \A k \in 1..Len(s) : Node(from, s, k) = s[k]
  BY DEF Node
<1> QED
  BY <1>1, <1>2, <1>3, <1>4, <1>5, <1>6

LEMMA ListBefore ==
  ASSUME NEW B, NEW L, NEW links, Memory(B, L, links),
         NEW l \in L, NEW s \in Seq(B), IsList(links, l, s), NEW n \in 1..Len(s)
  PROVE  Before(links, l, s[n]) = Node(l, s, n - 1)
<1>1. Items(links, l) = s /\ Len(s) \in Nat /\ DOMAIN s = 1..Len(s)
  BY ListNodes
<1> DEFINE items == Items(links, l)
           k == CHOOSE m \in 1..Len(items) : items[m] = s[n]
<1>2. k \in 1..Len(s) /\ s[k] = s[n]
  BY <1>1
<1>4. Before(links, l, s[n]) = IF k = 1 THEN l ELSE items[k - 1]
  BY DEF Before
<1> HIDE DEF k
<1>3. k = n
  BY <1>1, <1>2 DEF IsList
<1> QED
  BY <1>1, <1>3, <1>4 DEF Node

(* A list is not changed by what is done elsewhere.                        *)
LEMMA ListKept ==
  ASSUME NEW links, NEW from, NEW s, IsList(links, from, s), NEW after,
         Len(s) \in Nat, \A k \in 0..Len(s) : after[Node(from, s, k)] = links[Node(from, s, k)]
  PROVE  IsList(after, from, s)
<1>1. \A k \in 1..Len(s) : k - 1 \in 0..Len(s)
  OBVIOUS
<1>2. Len(s) \in 0..Len(s)
  OBVIOUS
<1> QED
  BY <1>1, <1>2 DEF IsList

LEMMA AddItemList ==
  ASSUME NEW B, NEW L, NEW links, Memory(B, L, links),
         NEW l \in L, NEW s \in Seq(B), IsList(links, l, s),
         NEW b \in B, \A k \in 1..Len(s) : s[k] # b
  PROVE  /\ Memory(B, L, addItem(links, l, b))
         /\ Append(s, b) \in Seq(B)
         /\ IsList(addItem(links, l, b), l, Append(s, b))
         /\ \A n \in B \cup L : n # Node(l, s, Len(s)) /\ n # b
              => addItem(links, l, b)[n] = links[n]
<1> DEFINE after == addItem(links, l, b)
           t == Append(s, b)
           n == Len(s)
           e == Node(l, s, n)
<1>1. /\ n \in Nat /\ DOMAIN s = 1..n
      /\ \A k \in 1..n : s[k] \in B /\ Node(l, s, k) = s[k]
      /\ Node(l, s, 0) = l
      /\ End(links, l) = e /\ e \in B \cup L
  BY ListNodes
<1>2. after = [links EXCEPT ![e] = b, ![b] = Null]
  BY <1>1 DEF addItem
<1>3. b # l /\ b # Null /\ links \in [B \cup L -> B \cup {Null}]
  BY DEF Memory
<1>4. e # b
  BY <1>1, <1>3 DEF Node
<1>0. /\ n = Len(s) /\ links[e] = Null
      /\ \A j, k \in 1..n : s[j] = s[k] => j = k
      /\ \A k \in 1..n : links[Node(l, s, k - 1)] = s[k]
  BY DEF IsList
<1> HIDE DEF after, t, e, n
<1>5. after \in [B \cup L -> B \cup {Null}]
  BY <1>2, <1>3
<1>6. /\ t \in Seq(B) /\ Len(t) = n + 1
      /\ \A k \in 1..n : t[k] = s[k]
      /\ t[n + 1] = b /\ DOMAIN t = 1..(n + 1)
  BY <1>0, <1>1, AppendProperties, LenProperties DEF t
<1>7. \A j, k \in 1..Len(t) : t[j] = t[k] => j = k
  BY <1>0, <1>1, <1>6
<1>8. ASSUME NEW k \in 0..Len(t)
      PROVE  IF k = Len(t) THEN after[Node(l, t, k)] = Null ELSE after[Node(l, t, k)] = t[k + 1]
  <2>1. CASE k = Len(t)
    BY <1>1, <1>2, <1>3, <1>6, <2>1 DEF Node
  <2>2. CASE k = n
    <3>1. Node(l, t, k) = e
      BY <1>1, <1>6, <2>2 DEF Node, e
    <3>2. after[e] = b
      BY <1>1, <1>2, <1>3, <1>4
    <3>3. k # Len(t) /\ t[k + 1] = b
      BY <1>1, <1>6, <2>2
    <3> QED BY <3>1, <3>2, <3>3
  <2>3. CASE k \in 0..(n - 1)
    <3>1. Node(l, t, k) = Node(l, s, k) /\ t[k + 1] = s[k + 1] /\ k # Len(t) /\ k # n
      BY <1>1, <1>6, <2>3 DEF Node
    <3>2. Node(l, s, k) # b /\ Node(l, s, k) \in B \cup L
      BY <1>1, <1>3, <2>3 DEF Node
    <3>3. Node(l, s, k) # e
      <4>0. \A m \in 1..n : s[m] # l
        BY <1>1 DEF Memory
      <4>1. k # 0 => s[k] # l /\ s[k] # s[n]
        <5>1. k # 0 => k \in 1..n /\ n \in 1..n /\ k # n
          BY <1>1, <2>3
        <5> QED BY <1>0, <4>0, <5>1
      <4>2. n # 0 /\ s[n] # l
        BY <1>1, <2>3, <4>0
      <4> QED BY <4>1, <4>2 DEF e, Node
    <3> DEFINE m == Node(l, s, k)
    <3>4. after[m] = links[m]
      <4> HIDE DEF m
      <4> QED BY <1>2, <1>3, <3>2, <3>3 DEF m
    <3>5. links[m] = s[k + 1]
      <4>1. k + 1 \in 1..n /\ k + 1 - 1 = k
        BY <1>1, <2>3
      <4> QED BY <1>0, <4>1
    <3> QED BY <3>1, <3>4, <3>5
  <2> QED BY <1>1, <1>6, <2>1, <2>2, <2>3
<1>9. \A m \in B \cup L : m # e /\ m # b => after[m] = links[m]
  BY <1>2, <1>3
<1>10. Memory(B, L, after)
  BY <1>5 DEF Memory
<1>11. IsList(after, l, t)
  <2>1. Len(t) \in 0..Len(t) /\ Len(t) \in Nat
    BY <1>1, <1>6
  <2>2. ASSUME NEW k \in 1..Len(t) PROVE after[Node(l, t, k - 1)] = t[k]
    <3>1. k - 1 \in 0..Len(t) /\ k - 1 # Len(t) /\ k - 1 + 1 = k
      BY <2>1
    <3> QED BY <1>8, <3>1
  <2> QED BY <1>7, <1>8, <2>1, <2>2 DEF IsList
<1> QED
  BY <1>6, <1>9, <1>10, <1>11 DEF after, t, e, n

LEMMA RemoveItemList ==
  ASSUME NEW B, NEW L, NEW links, Memory(B, L, links),
         NEW l \in L, NEW s \in Seq(B), IsList(links, l, s), NEW n \in 1..Len(s)
  PROVE  /\ Memory(B, L, removeItem(links, l, s[n]))
         /\ RemoveAt(s, n) \in Seq(B)
         /\ IsList(removeItem(links, l, s[n]), l, RemoveAt(s, n))
         /\ \A m \in B \cup L : m # Node(l, s, n - 1)
              => removeItem(links, l, s[n])[m] = links[m]
<1> DEFINE after == removeItem(links, l, s[n])
           t == RemoveAt(s, n)
           e == Node(l, s, n - 1)
           N == Len(s)
<1>1. /\ N \in Nat /\ \A k \in 1..N : s[k] \in B
      /\ \A k \in 0..N : Node(l, s, k) = IF k = 0 THEN l ELSE s[k]
      /\ \A k \in 0..N : Node(l, s, k) \in B \cup L
      /\ links[Node(l, s, N)] = Null
      /\ \A j, k \in 1..N : s[j] = s[k] => j = k
      /\ \A k \in 1..N : links[Node(l, s, k - 1)] = s[k]
      /\ n \in 1..N
  <2>1. /\ N \in Nat /\ \A k \in 1..N : s[k] \in B
        /\ \A k \in 0..N : Node(l, s, k) \in B \cup L
    BY ListNodes
  <2>2. /\ links[Node(l, s, N)] = Null
        /\ \A j, k \in 1..N : s[j] = s[k] => j = k
        /\ \A k \in 1..N : links[Node(l, s, k - 1)] = s[k]
    BY DEF IsList
  <2>3. \A k \in 0..N : Node(l, s, k) = IF k = 0 THEN l ELSE s[k]
    BY DEF Node
  <2> QED BY <2>1, <2>2, <2>3
<1>2. after = [links EXCEPT ![e] = links[s[n]]]
  <2>1. Before(links, l, s[n]) = e
    BY ListBefore
  <2> QED BY <2>1 DEF removeItem
<1>3. links \in [B \cup L -> B \cup {Null}] /\ \A k \in 1..N : s[k] # l
  BY <1>1 DEF Memory
<1>4. /\ t \in Seq(B) /\ Len(t) = N - 1
      /\ \A k \in 1..(N - 1) : t[k] = IF k < n THEN s[k] ELSE s[k + 1]
  BY RemovedAt
<1> HIDE DEF after, t, N
<1>5. n - 1 \in 0..N /\ e \in B \cup L
  BY <1>1
<1>6. /\ after \in [B \cup L -> B \cup {Null}] /\ after[e] = links[s[n]]
      /\ \A m \in B \cup L : m # e => after[m] = links[m]
  BY <1>1, <1>2, <1>3, <1>5
<1>7. ASSUME NEW j \in 1..(N - 1), NEW k \in 1..(N - 1), t[j] = t[k] PROVE j = k
  <2> DEFINE a == IF j < n THEN j ELSE j + 1
             b == IF k < n THEN k ELSE k + 1
  <2>1. a \in 1..N /\ t[j] = s[a]
    BY <1>1, <1>4
  <2>3. b \in 1..N /\ t[k] = s[b]
    BY <1>1, <1>4
  <2>2. a = b
    <3> HIDE DEF a, b
    <3> QED BY Zenon, <1>1, <1>7, <2>1, <2>3
  <2> QED BY <1>1, <2>2
<1>8. \A j, k \in 0..N : Node(l, s, j) = Node(l, s, k) => j = k
  <2> TAKE j, k \in 0..N
  <2>1. j # 0 => j \in 1..N
    BY <1>1
  <2>2. k # 0 => k \in 1..N
    BY <1>1
  <2> QED BY <1>1, <1>3, <2>1, <2>2
<1>9. \A k \in 0..(N - 1) : Node(l, t, k) = Node(l, s, IF k < n THEN k ELSE k + 1)
  <2> TAKE k \in 0..(N - 1)
  <2>1. k # 0 => k \in 1..(N - 1)
    BY <1>1
  <2>2. n # 0
    BY <1>1
  <2> QED BY <1>1, <1>4, <2>1, <2>2 DEF Node
<1>10. after[Node(l, t, N - 1)] = Null
  <2>1. CASE n = N
    <3>1. N - 1 \in 0..(N - 1) /\ N - 1 < n
      BY <1>1, <2>1
    <3>2. Node(l, t, N - 1) = e
      BY <1>9, <2>1, <3>1
    <3>3. s[n] = Node(l, s, N)
      BY <1>1, <2>1
    <3> QED BY <1>1, <1>6, <3>2, <3>3
  <2>2. CASE n # N
    <3>1. N - 1 \in 0..(N - 1) /\ ~(N - 1 < n) /\ N \in 0..N /\ N # n - 1 /\ N - 1 + 1 = N
      BY <1>1, <2>2
    <3>2. Node(l, t, N - 1) = Node(l, s, N)
      BY <1>9, <3>1
    <3>3. Node(l, s, N) # e /\ Node(l, s, N) \in B \cup L
      BY <1>1, <1>5, <1>8, <3>1
    <3> QED BY <1>1, <1>6, <3>2, <3>3
  <2> QED BY <2>1, <2>2
<1>11. ASSUME NEW k \in 1..(N - 1) PROVE after[Node(l, t, k - 1)] = t[k]
  <2>0. k - 1 \in 0..(N - 1) /\ k \in 1..N /\ k \in Nat
    BY <1>1
  <2>1. CASE k < n
    <3>1. k - 1 < n /\ k - 1 \in 0..N /\ k - 1 # n - 1
      BY <1>1, <2>0, <2>1
    <3>2. Node(l, t, k - 1) = Node(l, s, k - 1) /\ t[k] = s[k]
      BY <1>4, <1>9, <2>0, <2>1, <3>1
    <3>3. Node(l, s, k - 1) # e /\ Node(l, s, k - 1) \in B \cup L
      BY <1>1, <1>5, <1>8, <3>1
    <3> QED BY <1>1, <1>6, <2>0, <3>2, <3>3
  <2>2. CASE k = n
    <3>1. k - 1 < n
      BY <2>0, <2>2
    <3>2. Node(l, t, k - 1) = e /\ t[k] = s[k + 1]
      BY <1>4, <1>9, <2>0, <2>2, <3>1
    <3>3. k + 1 \in 1..N /\ k + 1 - 1 = k /\ k \in 0..N /\ k # 0
      BY <1>1, <2>0
    <3>4. links[Node(l, s, k)] = s[k + 1] /\ Node(l, s, k) = s[k]
      BY <1>1, <3>3
    <3> QED BY <1>6, <2>2, <3>2, <3>4
  <2>3. CASE k > n
    <3>1. /\ ~(k - 1 < n) /\ ~(k < n) /\ k - 1 + 1 = k /\ k + 1 - 1 = k
          /\ k \in 0..N /\ k + 1 \in 1..N /\ k # n - 1
      BY <1>1, <2>0, <2>3
    <3>2. Node(l, t, k - 1) = Node(l, s, k) /\ t[k] = s[k + 1]
      BY <1>4, <1>9, <2>0, <3>1
    <3>3. Node(l, s, k) # e /\ Node(l, s, k) \in B \cup L
      BY <1>1, <1>5, <1>8, <3>1
    <3>4. links[Node(l, s, k)] = s[k + 1]
      BY <1>1, <3>1
    <3> QED BY <1>6, <3>2, <3>3, <3>4
  <2> QED BY <1>1, <2>0, <2>1, <2>2, <2>3
<1>12. IsList(after, l, t)
  BY <1>4, <1>7, <1>10, <1>11 DEF IsList
<1>13. Memory(B, L, after)
  BY <1>6 DEF Memory
<1> QED
  BY <1>4, <1>6, <1>12, <1>13 DEF after, t, N

LEMMA AddFirstList ==
  ASSUME NEW B, NEW L, NEW links, Memory(B, L, links),
         NEW l \in L, NEW s \in Seq(B), IsList(links, l, s),
         NEW b \in B, \A k \in 1..Len(s) : s[k] # b
  PROVE  /\ Memory(B, L, addItemFirst(links, l, b))
         /\ <<b>> \o s \in Seq(B)
         /\ IsList(addItemFirst(links, l, b), l, <<b>> \o s)
         /\ \A m \in B \cup L : m # l /\ m # b
              => addItemFirst(links, l, b)[m] = links[m]
<1> DEFINE after == addItemFirst(links, l, b)
           t == <<b>> \o s
           N == Len(s)
<1>1. /\ N \in Nat /\ \A k \in 1..N : s[k] \in B
      /\ \A k \in 0..N : Node(l, s, k) = IF k = 0 THEN l ELSE s[k]
      /\ links[Node(l, s, N)] = Null
      /\ \A j, k \in 1..N : s[j] = s[k] => j = k
      /\ \A k \in 1..N : links[Node(l, s, k - 1)] = s[k]
      /\ \A k \in 1..N : s[k] # b
  BY ListNodes DEF IsList, Node
<1>2. after = [links EXCEPT ![b] = links[l], ![l] = b]
  BY DEF addItemFirst
<1>3. /\ links \in [B \cup L -> B \cup {Null}] /\ b # l
      /\ \A k \in 1..N : s[k] # l /\ s[k] \in B \cup L
  BY <1>1 DEF Memory
<1>4. /\ t \in Seq(B) /\ Len(t) = N + 1
      /\ \A k \in 1..(N + 1) : t[k] = IF k = 1 THEN b ELSE s[k - 1]
  <2>1. <<b>> \in Seq(B) /\ Len(<<b>>) = 1 /\ <<b>>[1] = b
    OBVIOUS
  <2> HIDE DEF N
  <2> DEFINE u == <<b>>
  <2> HIDE DEF u
  <2>2. /\ u \o s \in Seq(B) /\ Len(u \o s) = Len(u) + Len(s)
        /\ \A k \in 1..(Len(u) + Len(s)) :
             (u \o s)[k] = IF k <= Len(u) THEN u[k] ELSE s[k - Len(u)]
    <3>1. u \in Seq(B)
      BY <2>1 DEF u
    <3> QED BY <3>1, ConcatProperties
  <2>3. Len(u) = 1 /\ u[1] = b
    BY <2>1 DEF u
  <2> QED BY <1>1, <2>2, <2>3 DEF u, N
<1> HIDE DEF after, t, N
<1>5. /\ after \in [B \cup L -> B \cup {Null}] /\ after[l] = b /\ after[b] = links[l]
      /\ \A m \in B \cup L : m # l /\ m # b => after[m] = links[m]
  BY <1>2, <1>3
<1>6. ASSUME NEW j \in 1..(N + 1), NEW k \in 1..(N + 1), t[j] = t[k] PROVE j = k
  <2>1. j # 1 => j - 1 \in 1..N
    BY <1>1
  <2>2. k # 1 => k - 1 \in 1..N
    BY <1>1
  <2> QED BY <1>1, <1>4, <1>6, <2>1, <2>2
<1>7. \A k \in 1..(N + 1) : Node(l, t, k) = IF k = 1 THEN b ELSE Node(l, s, k - 1)
  <2> TAKE k \in 1..(N + 1)
  <2>1. k # 0 /\ (k # 1 => k - 1 # 0)
    BY <1>1
  <2> QED BY <1>4, <2>1 DEF Node
<1>8. after[Node(l, t, N + 1)] = Null
  <2>1. N + 1 \in 1..(N + 1) /\ N + 1 - 1 = N
    BY <1>1
  <2>2. CASE N = 0
    BY <1>1, <1>5, <1>7, <2>1, <2>2
  <2>3. CASE N # 0
    <3>1. N + 1 # 1 /\ N \in 0..N /\ N \in 1..N
      BY <1>1, <2>3
    <3>2. Node(l, t, N + 1) = s[N] /\ Node(l, s, N) = s[N]
      BY <1>1, <1>7, <2>1, <2>3, <3>1
    <3> QED BY <1>1, <1>3, <1>5, <3>1, <3>2
  <2> QED BY <2>2, <2>3
<1>9. ASSUME NEW k \in 1..(N + 1) PROVE after[Node(l, t, k - 1)] = t[k]
  <2>1. CASE k = 1
    BY <1>1, <1>4, <1>5, <2>1 DEF Node
  <2>2. CASE k = 2
    <3>1. 1 \in 1..(N + 1) /\ 1 \in 1..N /\ k - 1 = 1
      BY <1>1, <2>2
    <3>2. Node(l, t, k - 1) = b /\ t[k] = s[1]
      BY <1>4, <1>7, <2>2, <3>1
    <3>3. links[l] = s[1]
      <4>1. links[Node(l, s, 1 - 1)] = s[1]
        BY <1>1, <3>1
      <4> QED BY <4>1 DEF Node
    <3> QED BY <1>5, <3>2, <3>3
  <2>3. CASE k # 1 /\ k # 2
    <3>1. /\ k - 1 \in 1..(N + 1) /\ k - 1 # 1 /\ k - 1 \in 1..N /\ k - 1 - 1 \in 1..N
          /\ k - 1 - 1 \in 0..N /\ k - 1 - 1 # 0
      BY <1>1, <2>3
    <3>2. /\ Node(l, t, k - 1) = s[k - 1 - 1] /\ t[k] = s[k - 1]
          /\ Node(l, s, k - 1 - 1) = s[k - 1 - 1]
      BY <1>1, <1>4, <1>7, <2>3, <3>1
    <3>3. links[s[k - 1 - 1]] = s[k - 1]
      BY <1>1, <3>1, <3>2
    <3> QED BY <1>1, <1>3, <1>5, <3>1, <3>2, <3>3
  <2> QED BY <2>1, <2>2, <2>3
<1>10. IsList(after, l, t)
  <2>1. N + 1 = Len(t)
    BY <1>4
  <2> QED BY <1>6, <1>8, <1>9, <2>1 DEF IsList
<1>11. Memory(B, L, after)
  BY <1>5 DEF Memory
<1> QED
  BY <1>4, <1>5, <1>10, <1>11 DEF after, t, N

(* Lists that take their items from the same blocks.                       *)
AreLists(B, L, links, c) ==
  /\ Memory(B, L, links)
  /\ c \in [L -> Seq(B)]
  /\ \A l \in L : IsList(links, l, c[l])
  /\ \A l, m \in L : \A j \in 1..Len(c[l]), k \in 1..Len(c[m]) :
       c[l][j] = c[m][k] => l = m

(* What is done to a list leaves the others alone.                         *)
LEMMA OneListChanges ==
  ASSUME NEW B, NEW L, NEW links, NEW c, AreLists(B, L, links, c),
         NEW l \in L, NEW t \in Seq(B), NEW after,
         Memory(B, L, after), IsList(after, l, t),
         \A n \in B \cup L :
           \/ n = l \/ after[n] = links[n]
           \/ \E k \in 1..Len(c[l]) : n = c[l][k]
           \/ \E k \in 1..Len(t) : n = t[k],
         \A j \in 1..Len(t), m \in L \ {l} : \A k \in 1..Len(c[m]) : t[j] # c[m][k]
  PROVE  AreLists(B, L, after, [c EXCEPT ![l] = t])
<1> DEFINE d == [c EXCEPT ![l] = t]
<1>1. /\ d \in [L -> Seq(B)] /\ d[l] = t /\ \A m \in L \ {l} : d[m] = c[m]
      /\ c \in [L -> Seq(B)]
  BY DEF AreLists
<1>2. ASSUME NEW m \in L, m # l PROVE IsList(after, m, c[m])
  <2>1. IsList(links, m, c[m]) /\ Memory(B, L, links) /\ c[m] \in Seq(B)
    BY <1>1 DEF AreLists
  <2>2. /\ Len(c[m]) \in Nat /\ \A k \in 0..Len(c[m]) : Node(m, c[m], k) \in B \cup L
        /\ \A k \in 1..Len(c[m]) : c[m][k] \in B
    BY <2>1, ListNodes
  <2>3. B \cap L = {}
    BY DEF Memory
  <2>4. ASSUME NEW k \in 0..Len(c[m])
        PROVE  after[Node(m, c[m], k)] = links[Node(m, c[m], k)]
    <3> DEFINE n == Node(m, c[m], k)
    <3>1. n \in B \cup L
      BY <2>2
    <3>2. n = m \/ \E i \in 1..Len(c[m]) : n = c[m][i]
      <4>1. k = 0 \/ k \in 1..Len(c[m])
        BY <2>2
      <4> QED BY <4>1 DEF Node
    <3> HIDE DEF n
    <3>3. n # l
      BY <1>2, <2>2, <2>3, <3>2
    <3>4. ~ \E i \in 1..Len(c[l]) : n = c[l][i]
      <4>1. \A i \in 1..Len(c[l]) : c[l][i] \in B
        BY <1>1, ElementOfSeq
      <4>2. \A i \in 1..Len(c[l]), j \in 1..Len(c[m]) : c[l][i] # c[m][j]
        BY <1>2 DEF AreLists
      <4> QED BY <2>3, <3>2, <4>1, <4>2
    <3>5. ~ \E i \in 1..Len(t) : n = t[i]
      <4>1. \A i \in 1..Len(t) : t[i] \in B
        BY ElementOfSeq
      <4> QED BY <1>2, <2>3, <3>2, <4>1
    <3> QED BY <3>1, <3>3, <3>4, <3>5 DEF n
  <2> QED BY <2>1, <2>2, <2>4, ListKept
<1>3. \A m \in L : IsList(after, m, d[m])
  BY <1>1, <1>2
<1>4. ASSUME NEW m \in L, NEW n \in L, NEW j \in 1..Len(d[m]), NEW k \in 1..Len(d[n]),
             d[m][j] = d[n][k]
      PROVE  m = n
  <2>1. CASE m # l /\ n # l
    BY <1>1, <1>4, <2>1 DEF AreLists
  <2>2. CASE m = l /\ n # l
    BY <1>1, <1>4, <2>2
  <2>3. CASE m # l /\ n = l
    BY <1>1, <1>4, <2>3
  <2> QED BY <2>1, <2>2, <2>3
<1> QED
  <2> HIDE DEF d
  <2>1. AreLists(B, L, after, d)
    BY <1>1, <1>3, <1>4 DEF AreLists
  <2> QED BY <2>1 DEF d

(* The operations, one list among several.                                 *)
LEMMA AddItemLists ==
  ASSUME NEW B, NEW L, NEW links, NEW c, AreLists(B, L, links, c), NEW l \in L,
         NEW b \in B, \A m \in L : \A k \in 1..Len(c[m]) : c[m][k] # b
  PROVE  AreLists(B, L, addItem(links, l, b), [c EXCEPT ![l] = Append(c[l], b)])
<1> DEFINE t == Append(c[l], b)
           after == addItem(links, l, b)
<1>1. Memory(B, L, links) /\ c[l] \in Seq(B) /\ IsList(links, l, c[l])
  BY DEF AreLists
<1>2. /\ Memory(B, L, after) /\ t \in Seq(B) /\ IsList(after, l, t)
      /\ \A n \in B \cup L : n # Node(l, c[l], Len(c[l])) /\ n # b => after[n] = links[n]
  BY <1>1, AddItemList
<1>3. /\ Len(c[l]) \in Nat /\ Len(t) = Len(c[l]) + 1 /\ t[Len(c[l]) + 1] = b
      /\ \A k \in 1..Len(c[l]) : t[k] = c[l][k]
  BY <1>1, AppendProperties, LenProperties
<1> HIDE DEF t, after
<1>4. Node(l, c[l], Len(c[l])) = l \/ \E k \in 1..Len(c[l]) : Node(l, c[l], Len(c[l])) = c[l][k]
  <2>1. Len(c[l]) = 0 \/ Len(c[l]) \in 1..Len(c[l])
    BY <1>3
  <2> QED BY <2>1 DEF Node
<1>5. /\ Len(c[l]) + 1 \in 1..Len(t)
      /\ \A k \in 1..Len(t) : k \in 1..Len(c[l]) \/ k = Len(c[l]) + 1
  BY <1>3
<1>6. \A n \in B \cup L :
           \/ n = l \/ after[n] = links[n]
           \/ \E k \in 1..Len(c[l]) : n = c[l][k]
           \/ \E k \in 1..Len(t) : n = t[k]
  BY <1>2, <1>3, <1>4, <1>5
<1>7. \A j \in 1..Len(t), m \in L \ {l} : \A k \in 1..Len(c[m]) : t[j] # c[m][k]
  BY <1>3, <1>5 DEF AreLists
<1>8. AreLists(B, L, after, [c EXCEPT ![l] = t])
  BY <1>2, <1>6, <1>7, OneListChanges
<1> QED
  BY <1>8 DEF t, after

LEMMA AddFirstLists ==
  ASSUME NEW B, NEW L, NEW links, NEW c, AreLists(B, L, links, c), NEW l \in L,
         NEW b \in B, \A m \in L : \A k \in 1..Len(c[m]) : c[m][k] # b
  PROVE  AreLists(B, L, addItemFirst(links, l, b), [c EXCEPT ![l] = <<b>> \o c[l]])
<1> DEFINE t == <<b>> \o c[l]
           after == addItemFirst(links, l, b)
<1>1. Memory(B, L, links) /\ c[l] \in Seq(B) /\ IsList(links, l, c[l])
  BY DEF AreLists
<1>2. /\ Memory(B, L, after) /\ t \in Seq(B) /\ IsList(after, l, t)
      /\ \A n \in B \cup L : n # l /\ n # b => after[n] = links[n]
  BY <1>1, AddFirstList
<1>3. /\ Len(c[l]) \in Nat /\ Len(t) = 1 + Len(c[l])
      /\ \A k \in 1..(1 + Len(c[l])) : t[k] = IF k <= 1 THEN b ELSE c[l][k - 1]
  <2>1. <<b>> \in Seq(B) /\ Len(<<b>>) = 1 /\ <<b>>[1] = b
    OBVIOUS
  <2>2. /\ Len(t) = Len(<<b>>) + Len(c[l])
        /\ \A k \in 1..(Len(<<b>>) + Len(c[l])) :
             t[k] = IF k <= Len(<<b>>) THEN <<b>>[k] ELSE c[l][k - Len(<<b>>)]
    BY <1>1, <2>1, ConcatProperties
  <2>3. \A k \in 1..(1 + Len(c[l])) : k <= 1 => k = 1
    OBVIOUS
  <2> HIDE DEF t
  <2> QED BY <1>1, <2>1, <2>2, <2>3, LenProperties
<1> HIDE DEF t, after
<1>4. 1 \in 1..Len(t) /\ t[1] = b
  <2>1. 1 \in 1..(1 + Len(c[l]))
    BY <1>3
  <2> QED BY <1>3, <2>1
<1>5. \A k \in 1..Len(t) : t[k] = b \/ \E i \in 1..Len(c[l]) : t[k] = c[l][i]
  <2> SUFFICES ASSUME NEW k \in 1..Len(t), k # 1 PROVE \E i \in 1..Len(c[l]) : t[k] = c[l][i]
    BY <1>4
  <2>1. k - 1 \in 1..Len(c[l]) /\ ~(k <= 1) /\ k \in 1..(1 + Len(c[l]))
    BY <1>3
  <2> QED BY <1>3, <2>1
<1>6. \A n \in B \cup L :
           \/ n = l \/ after[n] = links[n]
           \/ \E k \in 1..Len(c[l]) : n = c[l][k]
           \/ \E k \in 1..Len(t) : n = t[k]
  BY <1>2, <1>4
<1>7. \A j \in 1..Len(t), m \in L \ {l} : \A k \in 1..Len(c[m]) : t[j] # c[m][k]
  BY <1>5 DEF AreLists
<1>8. AreLists(B, L, after, [c EXCEPT ![l] = t])
  BY <1>2, <1>6, <1>7, OneListChanges
<1> QED
  BY <1>8 DEF t, after

LEMMA RemoveItemLists ==
  ASSUME NEW B, NEW L, NEW links, NEW c, AreLists(B, L, links, c), NEW l \in L,
         NEW n \in 1..Len(c[l])
  PROVE  AreLists(B, L, removeItem(links, l, c[l][n]),
                  [c EXCEPT ![l] = RemoveAt(c[l], n)])
<1> DEFINE t == RemoveAt(c[l], n)
           after == removeItem(links, l, c[l][n])
<1>1. Memory(B, L, links) /\ c[l] \in Seq(B) /\ IsList(links, l, c[l])
  BY DEF AreLists
<1>2. /\ Memory(B, L, after) /\ t \in Seq(B) /\ IsList(after, l, t)
      /\ \A m \in B \cup L : m # Node(l, c[l], n - 1) => after[m] = links[m]
  BY <1>1, RemoveItemList
<1>3. /\ Len(c[l]) \in Nat /\ Len(t) = Len(c[l]) - 1
      /\ \A k \in 1..Len(c[l]) - 1 : t[k] = IF k < n THEN c[l][k] ELSE c[l][k + 1]
  BY <1>1, RemovedAt, LenProperties
<1> HIDE DEF t, after
<1>4. Node(l, c[l], n - 1) = l \/ \E k \in 1..Len(c[l]) : Node(l, c[l], n - 1) = c[l][k]
  <2>1. n - 1 = 0 \/ n - 1 \in 1..Len(c[l])
    BY <1>3
  <2> QED BY <2>1 DEF Node
<1>5. \A k \in 1..Len(t) : \E i \in 1..Len(c[l]) : t[k] = c[l][i]
  <2> SUFFICES ASSUME NEW k \in 1..Len(t) PROVE \E i \in 1..Len(c[l]) : t[k] = c[l][i]
    OBVIOUS
  <2>1. k \in 1..Len(c[l]) /\ k + 1 \in 1..Len(c[l]) /\ k \in 1..Len(c[l]) - 1
    BY <1>3
  <2> QED BY <1>3, <2>1
<1>6. \A m \in B \cup L :
           \/ m = l \/ after[m] = links[m]
           \/ \E k \in 1..Len(c[l]) : m = c[l][k]
           \/ \E k \in 1..Len(t) : m = t[k]
  BY <1>2, <1>4
<1>7. \A j \in 1..Len(t), m \in L \ {l} : \A k \in 1..Len(c[m]) : t[j] # c[m][k]
  BY Zenon, <1>5 DEF AreLists
<1>8. AreLists(B, L, after, [c EXCEPT ![l] = t])
  BY Zenon, <1>2, <1>6, <1>7, OneListChanges
<1> QED
  BY <1>8 DEF t, after

-----------------------------------------------------------------------------
(* Programs: its two lists.                                                *)
ListVars == {Running, Waiting}
AreProgramLists(links) ==
  AreLists(Nodes, ListVars, links, [l \in ListVars |-> Items(links, l)])

On(links, l) == ToSet(Items(links, l))

LEMMA ListsOf ==
  ASSUME NEW links, NEW c, AreLists(Nodes, ListVars, links, c)
  PROVE  /\ AreProgramLists(links)
         /\ \A l \in ListVars : Items(links, l) = c[l]
<1>1. ASSUME NEW l \in ListVars PROVE Items(links, l) = c[l]
  <2>1. Memory(Nodes, ListVars, links) /\ c[l] \in Seq(Nodes) /\ IsList(links, l, c[l])
    BY DEF AreLists
  <2> QED BY <2>1, ListNodes
<1>2. c \in [ListVars -> Seq(Nodes)]
  BY DEF AreLists
<1>3. c = [l \in ListVars |-> Items(links, l)]
  BY <1>1, <1>2
<1> QED
  BY <1>1, <1>3, Zenon DEF AreProgramLists

LEMMA ListFacts ==
  ASSUME NEW links, AreProgramLists(links), NEW l \in ListVars
  PROVE  /\ Items(links, l) \in Seq(Nodes) /\ Len(Items(links, l)) \in Nat
         /\ IsList(links, l, Items(links, l))
         /\ \A j, k \in 1..Len(Items(links, l)) :
              Items(links, l)[j] = Items(links, l)[k] => j = k
         /\ On(links, l) = {Items(links, l)[k] : k \in 1..Len(Items(links, l))}
         /\ On(links, l) \subseteq Nodes
         /\ \A m \in ListVars : m # l => On(links, l) \cap On(links, m) = {}
         /\ links \in [Nodes \cup ListVars -> Nodes \cup {Null}]
<1> DEFINE c == [m \in ListVars |-> Items(links, m)]
<1>1. AreLists(Nodes, ListVars, links, c)
  BY DEF AreProgramLists
<1>2. c \in [ListVars -> Seq(Nodes)] /\ \A m \in ListVars : c[m] = Items(links, m)
  BY <1>1 DEF AreLists
<1>3. \A m \in ListVars : Items(links, m) \in Seq(Nodes)
  BY <1>2
<1>4. IsList(links, l, Items(links, l))
  <2> HIDE DEF c
  <2> QED BY <1>1, <1>2 DEF AreLists
<1>5. \A m \in ListVars :
        /\ Len(Items(links, m)) \in Nat /\ DOMAIN Items(links, m) = 1..Len(Items(links, m))
        /\ \A k \in 1..Len(Items(links, m)) : Items(links, m)[k] \in Nodes
  BY <1>3, LenProperties, ElementOfSeq
<1>6. \A m \in ListVars : On(links, m) = {Items(links, m)[k] : k \in 1..Len(Items(links, m))}
  BY <1>5 DEF On, ToSet
<1>7. \A m \in ListVars : m # l => On(links, l) \cap On(links, m) = {}
  <2>1. \A m \in ListVars : \A j \in 1..Len(c[l]), k \in 1..Len(c[m]) : c[l][j] = c[m][k] => l = m
    <3> HIDE DEF c
    <3> QED BY <1>1 DEF AreLists
  <2>2. \A m \in ListVars :
          \A j \in 1..Len(Items(links, l)), k \in 1..Len(Items(links, m)) :
             Items(links, l)[j] = Items(links, m)[k] => l = m
    <3> HIDE DEF c
    <3> QED BY <2>1, <1>2
  <2> QED BY <2>2, <1>6
<1>8. links \in [Nodes \cup ListVars -> Nodes \cup {Null}]
  BY <1>1 DEF AreLists, Memory
<1>9. \A j, k \in 1..Len(Items(links, l)) : Items(links, l)[j] = Items(links, l)[k] => j = k
  BY <1>4 DEF IsList
<1>10. On(links, l) \subseteq Nodes
  BY <1>5, <1>6
<1> QED
  BY Zenon, <1>3, <1>4, <1>5, <1>6, <1>7, <1>8, <1>9, <1>10

LEMMA EnterLists ==
  ASSUME NEW links, AreProgramLists(links),
         NEW n \in Nodes, \A l \in ListVars : n \notin On(links, l)
  PROVE  /\ AreProgramLists(addItemFirst(links, Running, n))
         /\ Items(addItemFirst(links, Running, n), Running) = <<n>> \o Items(links, Running)
         /\ Items(addItemFirst(links, Running, n), Waiting) = Items(links, Waiting)
<1> DEFINE c == [m \in ListVars |-> Items(links, m)]
           after == addItemFirst(links, Running, n)
<1>1. AreLists(Nodes, ListVars, links, c) /\ Running \in ListVars /\ Waiting \in ListVars
  BY DEF AreProgramLists, ListVars
<1>2. \A m \in ListVars : c[m] = Items(links, m)
  OBVIOUS
<1>3. \A m \in ListVars : \A k \in 1..Len(c[m]) : c[m][k] # n
  <2> HIDE DEF c
  <2> QED BY <1>2, ListFacts
<1>4. AreLists(Nodes, ListVars, after, [c EXCEPT ![Running] = <<n>> \o c[Running]])
  <2> HIDE DEF c
  <2> QED BY Zenon, <1>1, <1>3, AddFirstLists
<1>5. Running # Waiting
  BY DEF Running, Waiting
<1> HIDE DEF after
<1>6. /\ AreProgramLists(after)
      /\ \A l \in ListVars : Items(after, l) = [c EXCEPT ![Running] = <<n>> \o c[Running]][l]
  <2> HIDE DEF c
  <2> QED BY Zenon, <1>4, ListsOf
<1>7. Items(after, Running) = <<n>> \o c[Running] /\ Items(after, Waiting) = c[Waiting]
  BY <1>1, <1>5, <1>6
<1> QED
  BY <1>1, <1>2, <1>6, <1>7 DEF after

LEMMA AddWaitLists ==
  ASSUME NEW links, AreProgramLists(links),
         NEW n \in Nodes, \A l \in ListVars : n \notin On(links, l)
  PROVE  /\ AreProgramLists(addItem(links, Waiting, n))
         /\ Items(addItem(links, Waiting, n), Waiting) = Append(Items(links, Waiting), n)
         /\ Items(addItem(links, Waiting, n), Running) = Items(links, Running)
<1> DEFINE c == [m \in ListVars |-> Items(links, m)]
           after == addItem(links, Waiting, n)
<1>1. AreLists(Nodes, ListVars, links, c) /\ Running \in ListVars /\ Waiting \in ListVars
  BY DEF AreProgramLists, ListVars
<1>2. \A m \in ListVars : c[m] = Items(links, m)
  OBVIOUS
<1>3. \A m \in ListVars : \A k \in 1..Len(c[m]) : c[m][k] # n
  <2> HIDE DEF c
  <2> QED BY <1>2, ListFacts
<1>4. AreLists(Nodes, ListVars, after, [c EXCEPT ![Waiting] = Append(c[Waiting], n)])
  <2> HIDE DEF c
  <2> QED BY Zenon, <1>1, <1>3, AddItemLists
<1>5. Running # Waiting
  BY DEF Running, Waiting
<1> HIDE DEF after
<1>6. /\ AreProgramLists(after)
      /\ \A l \in ListVars : Items(after, l) = [c EXCEPT ![Waiting] = Append(c[Waiting], n)][l]
  <2> HIDE DEF c
  <2> QED BY Zenon, <1>4, ListsOf
<1>7. Items(after, Waiting) = Append(c[Waiting], n) /\ Items(after, Running) = c[Running]
  BY <1>1, <1>5, <1>6
<1> QED
  BY <1>1, <1>2, <1>6, <1>7 DEF after

LEMMA TakenFromLists ==
  ASSUME NEW links, AreProgramLists(links), NEW l \in ListVars, NEW n \in On(links, l)
  PROVE  \E k \in 1..Len(Items(links, l)) :
           /\ n = Items(links, l)[k]
           /\ AreProgramLists(removeItem(links, l, n))
           /\ Items(removeItem(links, l, n), l) = RemoveAt(Items(links, l), k)
           /\ On(removeItem(links, l, n), l) = On(links, l) \ {n}
           /\ \A m \in ListVars : m # l => Items(removeItem(links, l, n), m) = Items(links, m)
           /\ \A m \in ListVars : m # l => On(removeItem(links, l, n), m) = On(links, m)
           /\ \A m \in Nodes : m = n \/ m \notin On(links, l) => removeItem(links, l, n)[m] = links[m]
<1> DEFINE c == [m \in ListVars |-> Items(links, m)]
           s == Items(links, l)
           after == removeItem(links, l, n)
<1>1. AreLists(Nodes, ListVars, links, c) /\ c[l] = s
  BY DEF AreProgramLists
<1>2. /\ s \in Seq(Nodes) /\ Len(s) \in Nat /\ IsList(links, l, s)
      /\ \A j, k \in 1..Len(s) : s[j] = s[k] => j = k
      /\ On(links, l) = {s[k] : k \in 1..Len(s)} /\ On(links, l) \subseteq Nodes
  BY ListFacts
<1>3. PICK k \in 1..Len(s) : n = s[k]
  BY <1>2
<1>4. AreLists(Nodes, ListVars, after, [c EXCEPT ![l] = RemoveAt(s, k)])
  <2> HIDE DEF c, s
  <2> QED BY <1>1, <1>3, RemoveItemLists
<1>5. /\ RemoveAt(s, k) \in Seq(Nodes) /\ Len(RemoveAt(s, k)) = Len(s) - 1
      /\ \A j \in 1..Len(s) - 1 : RemoveAt(s, k)[j] = IF j < k THEN s[j] ELSE s[j + 1]
  <2> HIDE DEF s
  <2> QED BY Zenon, <1>2, <1>3, RemovedAt
<1>6. /\ AreProgramLists(after)
      /\ \A m \in ListVars : Items(after, m) = [c EXCEPT ![l] = RemoveAt(s, k)][m]
  <2> HIDE DEF c, s, after
  <2> QED BY Zenon, <1>4, ListsOf
<1>7. /\ Items(after, l) = RemoveAt(s, k)
      /\ \A m \in ListVars : m # l => Items(after, m) = Items(links, m)
  <2>1. \A m \in ListVars : [c EXCEPT ![l] = RemoveAt(s, k)][m]
                            = IF m = l THEN RemoveAt(s, k) ELSE Items(links, m)
    <3> HIDE DEF s
    <3> QED OBVIOUS
  <2> HIDE DEF c, s, after
  <2> QED BY <1>6, <2>1
<1>8. On(after, l) = On(links, l) \ {n}
  <2>1. On(after, l) = {RemoveAt(s, k)[j] : j \in 1..Len(s) - 1}
    <3> HIDE DEF after, s
    <3> QED BY <1>5, <1>6, <1>7, ListFacts
  <2> DEFINE t == RemoveAt(s, k)
  <2> HIDE DEF s, t, after
  <2>2. ASSUME NEW j \in 1..Len(s) - 1 PROVE t[j] \in On(links, l) \ {n}
    <3>1. j \in 1..Len(s) /\ j + 1 \in 1..Len(s)
      BY <1>2
    <3>2. t[j] = IF j < k THEN s[j] ELSE s[j + 1]
      BY Zenon, <1>5 DEF t
    <3>3. j < k => j # k
      BY <1>2
    <3>4. ~(j < k) => j + 1 # k
      BY <1>2
    <3> QED BY <1>2, <1>3, <3>1, <3>2, <3>3, <3>4
  <2>3. ASSUME NEW m \in On(links, l) \ {n}
        PROVE  \E j \in 1..Len(s) - 1 : t[j] = m
    <3>1. PICK i \in 1..Len(s) : m = s[i] /\ i # k
      BY <1>2, <1>3
    <3>2. CASE i < k
      <4>1. i \in 1..Len(s) - 1
        BY <1>2, <3>2
      <4> QED BY <1>5, <3>1, <3>2, <4>1 DEF t
    <3>3. CASE ~(i < k)
      <4>1. i - 1 \in 1..Len(s) - 1 /\ ~(i - 1 < k) /\ i - 1 + 1 = i
        BY <1>2, <3>1, <3>3
      <4>2. t[i - 1] = s[i - 1 + 1]
        BY Zenon, <1>5, <4>1 DEF t
      <4> QED BY <3>1, <4>1, <4>2
    <3> QED BY <3>2, <3>3
  <2> QED BY <2>1, <2>2, <2>3 DEF t
<1>9. \A m \in ListVars : m # l => On(after, m) = On(links, m)
  BY <1>7, Zenon DEF On
<1>10. \A m \in Nodes : m = n \/ m \notin On(links, l) => after[m] = links[m]
  <2> SUFFICES ASSUME NEW m \in Nodes, m = n \/ m \notin On(links, l) PROVE after[m] = links[m]
    OBVIOUS
  <2>1. Memory(Nodes, ListVars, links) /\ m \in Nodes \cup ListVars
    BY <1>1 DEF AreLists
  <2>2. m # l
    BY <2>1 DEF Memory
  <2>3. m # Node(l, s, k - 1)
    <3> HIDE DEF s
    <3>1. CASE k = 1
      BY <2>2, <3>1 DEF Node
    <3>2. CASE k # 1
      <4>1. k - 1 \in 1..Len(s) /\ k - 1 # k /\ k - 1 # 0
        BY <1>2, <3>2
      <4>2. Node(l, s, k - 1) = s[k - 1]
        BY <4>1 DEF Node
      <4>3. s[k - 1] # n /\ s[k - 1] \in On(links, l)
        BY <1>2, <1>3, <4>1
      <4> QED BY <4>2, <4>3
    <3> QED BY <3>1, <3>2
  <2>4. \A x \in Nodes \cup ListVars : x # Node(l, s, k - 1) => removeItem(links, l, s[k])[x] = links[x]
    <3> HIDE DEF s
    <3> QED BY <1>2, <2>1, RemoveItemList
  <2> HIDE DEF s
  <2> QED BY <1>3, <2>1, <2>3, <2>4 DEF after
<1> HIDE DEF after, c
<1> QED
  BY <1>3, <1>6, <1>7, <1>8, <1>9, <1>10 DEF after

RunningItems == On(next, Running)
WaitingItems == On(next, Waiting)

(* The list of programs is in the order they started, the last one first.  *)
Newest(links, of) ==
  LET items == Items(links, Running)
  IN  \A j, k \in 1..Len(items) : j < k => of[items[j]] > of[items[k]]

(* What follows an item, when it is on the list or was until just now, is  *)
(* the one that started last of those that started before it.              *)
Follows(n) ==
  IF next[n] = Null THEN \A x \in RunningItems : serial[x] >= serial[n]
  ELSE /\ next[n] \in RunningItems /\ serial[next[n]] < serial[n]
       /\ \A x \in RunningItems : serial[x] < serial[n] => serial[x] <= serial[next[n]]

LEMMA ItemFollows ==
  ASSUME AreProgramLists(next), Newest(next, serial), NEW n \in RunningItems,
         \A x \in RunningItems : serial[x] \in Nat
  PROVE  Follows(n)
<1> DEFINE r == Items(next, Running)
<1>1. /\ r \in Seq(Nodes) /\ Len(r) \in Nat /\ IsList(next, Running, r)
      /\ RunningItems = {r[k] : k \in 1..Len(r)}
      /\ RunningItems \subseteq Nodes
  BY ListFacts DEF ListVars, RunningItems
<1>2. \A j, k \in 1..Len(r) : j < k => serial[r[j]] > serial[r[k]]
  BY DEF Newest
<1>3. PICK m \in 1..Len(r) : r[m] = n
  BY <1>1
<1> HIDE DEF r
<1>4. Node(Running, r, m) = n
  BY <1>3 DEF Node
<1>5. Null \notin Nodes
  BY ProgramsAssumption
<1>6. CASE m = Len(r)
  <2>1. next[n] = Null
    BY <1>1, <1>4, <1>6 DEF IsList
  <2>2. ASSUME NEW k \in 1..Len(r) PROVE serial[r[k]] >= serial[n]
    <3>1. serial[r[k]] \in Nat /\ serial[n] \in Nat
      BY <1>1
    <3>2. k = m \/ k < m
      BY <1>1, <1>6
    <3> QED BY <1>2, <1>3, <3>1, <3>2
  <2> QED BY <1>1, <2>1, <2>2 DEF Follows
<1>7. CASE m # Len(r)
  <2>1. m + 1 \in 1..Len(r) /\ m + 1 - 1 = m
    BY <1>1, <1>7
  <2>2. next[n] = r[m + 1]
    BY <1>1, <1>4, <2>1 DEF IsList
  <2>3. r[m + 1] \in RunningItems /\ r[m + 1] # Null /\ serial[r[m + 1]] < serial[n]
    <3>1. serial[r[m + 1]] \in Nat /\ serial[n] \in Nat /\ r[m + 1] \in RunningItems
      BY <1>1, <2>1
    <3>2. m < m + 1
      BY <1>1
    <3> QED BY <1>1, <1>2, <1>3, <1>5, <2>1, <3>1, <3>2
  <2>4. ASSUME NEW k \in 1..Len(r), serial[r[k]] < serial[n]
        PROVE  serial[r[k]] <= serial[r[m + 1]]
    <3>1. serial[r[k]] \in Nat /\ serial[n] \in Nat /\ serial[r[m + 1]] \in Nat
      BY <1>1, <2>1
    <3>2. k = m + 1 \/ m + 1 < k \/ k < m \/ k = m
      BY <1>1
    <3> QED BY <1>2, <1>3, <2>1, <2>4, <3>1, <3>2
  <2> QED BY <1>1, <2>2, <2>3, <2>4 DEF Follows
<1> QED BY <1>6, <1>7

LEMMA FirstItem ==
  ASSUME AreProgramLists(next), Newest(next, serial),
         \A x \in RunningItems : serial[x] \in Nat
  PROVE  IF next[Running] = Null THEN RunningItems = {}
         ELSE /\ next[Running] \in RunningItems
              /\ \A x \in RunningItems : serial[x] <= serial[next[Running]]
<1> DEFINE r == Items(next, Running)
<1>1. /\ r \in Seq(Nodes) /\ Len(r) \in Nat /\ IsList(next, Running, r)
      /\ RunningItems = {r[k] : k \in 1..Len(r)}
      /\ RunningItems \subseteq Nodes
  BY ListFacts DEF ListVars, RunningItems
<1>2. \A j, k \in 1..Len(r) : j < k => serial[r[j]] > serial[r[k]]
  BY DEF Newest
<1> HIDE DEF r
<1>5. Null \notin Nodes
  BY ProgramsAssumption
<1>6. CASE Len(r) = 0
  <2>1. next[Running] = Null
    BY <1>1, <1>6 DEF IsList, Node
  <2> QED BY <1>1, <1>6, <2>1
<1>7. CASE Len(r) # 0
  <2>1. 1 \in 1..Len(r) /\ 1 - 1 = 0
    BY <1>1, <1>7
  <2>2. next[Running] = r[1]
    BY <1>1, <2>1 DEF IsList, Node
  <2>3. ASSUME NEW k \in 1..Len(r) PROVE serial[r[k]] <= serial[r[1]]
    <3>1. serial[r[k]] \in Nat /\ serial[r[1]] \in Nat
      BY <1>1, <2>1
    <3>2. k = 1 \/ 1 < k
      BY <1>1
    <3> QED BY <1>2, <2>1, <3>1, <3>2
  <2> QED BY <1>1, <1>5, <2>1, <2>2, <2>3
<1> QED BY <1>6, <1>7

LEMMA NewestEntered ==
  ASSUME NEW links, AreProgramLists(links), NEW of, NEW of2,
         NEW n, NEW after, Items(after, Running) = <<n>> \o Items(links, Running), n \in Nodes,
         Newest(links, of),
         \A x \in On(links, Running) : of[x] \in Nat /\ of2[x] = of[x] /\ of2[x] < of2[n]
  PROVE  Newest(after, of2)
<1> DEFINE r == Items(links, Running)
           t == Items(after, Running)
<1>1. /\ r \in Seq(Nodes) /\ Len(r) \in Nat
      /\ \A k \in 1..Len(r) : r[k] \in On(links, Running)
  <2>1. /\ r \in Seq(Nodes) /\ Len(r) \in Nat
        /\ On(links, Running) = {r[k] : k \in 1..Len(r)}
    BY ListFacts DEF ListVars
  <2> HIDE DEF r
  <2> QED BY <2>1
<1>2. \A j, k \in 1..Len(r) : j < k => of[r[j]] > of[r[k]]
  BY DEF Newest
<1>3. t = <<n>> \o r
  OBVIOUS
<1> HIDE DEF r, t
<1>4. /\ Len(t) = 1 + Len(r)
      /\ \A k \in 1..(1 + Len(r)) : t[k] = IF k <= 1 THEN n ELSE r[k - 1]
  <2>1. <<n>> \in Seq(Nodes) /\ Len(<<n>>) = 1 /\ <<n>>[1] = n
    OBVIOUS
  <2>2. /\ Len(t) = Len(<<n>>) + Len(r)
        /\ \A k \in 1..(Len(<<n>>) + Len(r)) :
             t[k] = IF k <= Len(<<n>>) THEN <<n>>[k] ELSE r[k - Len(<<n>>)]
    BY <1>1, <1>3, <2>1, ConcatProperties
  <2>3. \A k \in 1..(1 + Len(r)) : k <= 1 => k = 1
    OBVIOUS
  <2> QED BY <1>1, <2>1, <2>2, <2>3
<1>5. ASSUME NEW j \in 1..Len(t), NEW k \in 1..Len(t), j < k PROVE of2[t[j]] > of2[t[k]]
  <2>1. k - 1 \in 1..Len(r) /\ k \in 1..(1 + Len(r)) /\ ~(k <= 1) /\ j \in 1..(1 + Len(r))
    BY <1>1, <1>4, <1>5
  <2>2. t[k] = r[k - 1] /\ r[k - 1] \in On(links, Running)
    BY <1>1, <1>4, <2>1
  <2>3. CASE j <= 1
    <3>1. t[j] = n
      BY <1>4, <2>1, <2>3
    <3>2. of2[r[k - 1]] < of2[n]
      BY <2>2
    <3>3. t[k] = r[k - 1]
      BY <2>2
    <3> QED BY <3>1, <3>2, <3>3
  <2>4. CASE ~(j <= 1)
    <3>1. j - 1 \in 1..Len(r) /\ t[j] = r[j - 1] /\ j - 1 < k - 1
      BY <1>1, <1>4, <1>5, <2>1, <2>4
    <3>2. of[r[j - 1]] > of[r[k - 1]]
      BY <1>2, <2>1, <3>1
    <3>3. r[j - 1] \in On(links, Running)
      BY <1>1, <3>1
    <3> QED BY <2>2, <3>1, <3>2, <3>3
  <2> QED BY <2>3, <2>4
<1> QED BY <1>5 DEF Newest, t

LEMMA NewestTaken ==
  ASSUME NEW links, AreProgramLists(links), NEW of, Newest(links, of),
         NEW k \in 1..Len(Items(links, Running)),
         NEW after, Items(after, Running) = RemoveAt(Items(links, Running), k)
  PROVE  Newest(after, of)
<1> DEFINE r == Items(links, Running)
           t == Items(after, Running)
<1>1. r \in Seq(Nodes) /\ Len(r) \in Nat
  BY ListFacts DEF ListVars
<1>2. \A i, j \in 1..Len(r) : i < j => of[r[i]] > of[r[j]]
  BY DEF Newest
<1>3. t = RemoveAt(r, k) /\ k \in 1..Len(r)
  OBVIOUS
<1> HIDE DEF r, t
<1>4. /\ Len(t) = Len(r) - 1
      /\ \A j \in 1..Len(r) - 1 : t[j] = IF j < k THEN r[j] ELSE r[j + 1]
  BY Zenon, <1>1, <1>3, RemovedAt
<1>5. ASSUME NEW i \in 1..Len(t), NEW j \in 1..Len(t), i < j PROVE of[t[i]] > of[t[j]]
  <2>1. /\ i \in 1..Len(r) /\ i + 1 \in 1..Len(r) /\ j \in 1..Len(r) /\ j + 1 \in 1..Len(r)
        /\ i < j + 1 /\ i + 1 < j + 1 /\ i \in 1..Len(r) - 1 /\ j \in 1..Len(r) - 1
    BY <1>1, <1>4, <1>5
  <2>2. i < k \/ ~(j < k)
    BY <1>1, <1>5, <2>1
  <2> QED BY <1>2, <1>4, <1>5, <2>1, <2>2
<1> QED BY <1>5 DEF Newest, t

-----------------------------------------------------------------------------
(* Programs: the invariant.                                                *)
TypesInv ==
  /\ pid \in [Nodes -> 0..MaxExecs] /\ terminalId \in [Nodes -> Terminals]
  /\ done \in [Nodes -> 0..MaxExecs] /\ serial \in [Nodes -> 0..MaxExecs]
  /\ terminals \in [Terminals -> Serials \cup {MainTerminal, Null}]
  /\ flag \in [Serials -> {"idle", "waiting", "told"}]
  /\ target \in [Serials -> 0..MaxExecs]
  /\ currentProgram \in Nodes \cup {Null} /\ program \in Nodes \cup {Running, Null}
  /\ stack \in Seq(Frames)
  /\ phase \in {"callbacks", "terminal", "updates"}
  /\ found \in BOOLEAN /\ typing \in BOOLEAN
  /\ terminalPid \in 0..None /\ terminalTarget \in 0..MaxExecs /\ started \in 0..MaxExecs
  /\ due \subseteq Serials /\ updated \in Seq(Serials)

ListsInv ==
  /\ AreProgramLists(next)
  /\ live = RunningItems \cup WaitingItems
  /\ Newest(next, serial)

ItemsInv ==
  /\ \A x \in RunningItems : serial[x] \in 1..started
  /\ \A x, y \in RunningItems : serial[x] = serial[y] => x = y
  /\ \A x, y \in RunningItems : pid[x] = pid[y] => x = y

(* A call under way is one of a program that runs and has the pid that its *)
(* starter will get, or has quit in that call, its pid not yet used again. *)
OfItem(f, x) == serial[x] = f.serial /\ (f.then # "update" => pid[x] = f.pid)

FrameInv(f) ==
  /\ f.serial \in 1..started
  /\ ~f.quitted => \E x \in RunningItems : OfItem(f, x)
  /\ f.quitted => \A x \in RunningItems :
       serial[x] # f.serial /\ (f.then # "update" => pid[x] # f.pid)
  /\ f.then # "update" => \A s \in Serials : target[s] # f.serial

(* The call under way when another began is one of the program that was in *)
(* control, which does not wait if it is to wait for the new one.          *)
CallerInv(f, g) ==
  /\ g.then \in {"nothing", "wait"}
  /\ ~f.quitted /\ f.serial < g.serial
  /\ g.old \in RunningItems /\ serial[g.old] = f.serial
  /\ g.then = "wait" => flag[f.serial] # "waiting"

StackInv ==
  /\ \A i \in 1..Len(stack) : FrameInv(stack[i])
  /\ \A i \in 1..Len(stack) - 1 : CallerInv(stack[i], stack[i + 1])
  /\ Len(stack) > 0 =>
       /\ stack[1].old = Null /\ stack[1].then # "wait"
       /\ stack[1].then = "update" <=> phase = "updates"
       /\ stack[1].then = "terminal" => phase = "terminal"
  /\ InControl => currentProgram \in RunningItems /\ serial[currentProgram] = Self
  /\ stack = <<>> /\ phase # "updates" => currentProgram = Null

TargetsInv ==
  /\ \A s \in Serials : target[s] <= started
  /\ \A s, t \in Serials : target[s] = target[t] => s = t \/ target[s] = 0
  /\ \A s \in Serials : s > started => flag[s] = "idle"

WaitsInv ==
  /\ \A w \in WaitingItems :
       /\ done[w] \in Serials /\ flag[done[w]] = "waiting"
       /\ \E x \in RunningItems : serial[x] = target[done[w]] /\ pid[x] = pid[w]
  /\ \A v, w \in WaitingItems : done[v] = done[w] => v = w
  /\ \A s \in Serials :
       /\ flag[s] = "waiting" => /\ \E x \in RunningItems : serial[x] = s
                                 /\ \E w \in WaitingItems : done[w] = s
       /\ flag[s] = "told" => \A x \in RunningItems : serial[x] # target[s]

TerminalsInv ==
  /\ terminals[MainTerminal] = MainTerminal
  /\ \A t \in Terminals \ {0} : terminals[t] # Null =>
       \E x \in RunningItems : serial[x] = terminals[t] /\ terminalId[x] = t

TerminalStarts == Len(stack) > 0 /\ stack[1].then = "terminal"
TargetRuns == \E x \in RunningItems : serial[x] = terminalTarget

(* What the main terminal knows of the program that it started last.       *)
MainInv ==
  /\ terminalTarget <= started
  /\ typing => terminalPid = None
  /\ terminalPid = None /\ ~TerminalStarts => ~TargetRuns
  /\ TerminalStarts => ~typing /\ terminalPid = None /\ stack[1].serial = terminalTarget
  /\ terminalPid # None =>
       \A x \in RunningItems : serial[x] = terminalTarget => pid[x] = terminalPid
  /\ phase = "updates" /\ terminalPid # None /\ TargetRuns =>
       /\ terminalTarget \in due
       /\ found \/ \A k \in 1..Len(updated) : updated[k] # terminalTarget

(* What a pass has updated is what started no earlier than the program at  *)
(* which it is; those that started earlier still run, or never did.        *)
AtItem ==
  /\ Len(updated) > 0 /\ updated[Len(updated)] = serial[program]
  /\ \A j, k \in 1..Len(updated) : j < k => updated[j] > updated[k]
  /\ \A k \in 1..Len(updated) : updated[k] \in due
  /\ \A s \in due : s >= serial[program] => \E k \in 1..Len(updated) : updated[k] = s
  /\ \A x \in RunningItems : serial[x] < serial[program] => serial[x] \in due
  /\ \A s \in due : s < serial[program] => \E x \in RunningItems : serial[x] = s
  /\ Len(stack) > 0 => stack[1].serial = serial[program]
  /\ \/ program \in RunningItems
     \/ /\ program \notin live
        /\ Len(stack) = 0 \/ (Len(stack) = 1 /\ stack[1].quitted)
        /\ Follows(program)

PassInv ==
  /\ phase # "updates" => program = Null
  /\ phase = "updates" =>
       /\ due \subseteq 1..started
       /\ program = Running => /\ updated = <<>> /\ stack = <<>>
                               /\ due = {serial[x] : x \in RunningItems}
       /\ program # Running => program \in Nodes /\ AtItem

ProgramsInv ==
  /\ TypesInv /\ ListsInv /\ ItemsInv /\ StackInv /\ TargetsInv /\ WaitsInv
  /\ TerminalsInv /\ MainInv /\ PassInv

LEMMA ProgramsInit == Init => ProgramsInv
<1> SUFFICES ASSUME Init PROVE ProgramsInv
  OBVIOUS
<1> USE ProgramsAssumption
<1>1. /\ IsFiniteSet(ListVars) /\ Null \notin Nodes \cup ListVars /\ Nodes \cap ListVars = {}
      /\ next \in [Nodes \cup ListVars -> Nodes \cup {Null}]
  <2>1. IsFiniteSet(ListVars)
    <3>1. IsFiniteSet({Running}) /\ IsFiniteSet({Waiting})
      BY FS_Singleton
    <3>2. ListVars = {Running} \cup {Waiting}
      BY DEF ListVars
    <3> QED BY <3>1, <3>2, FS_Union, Zenon
  <2>2. Null \notin Nodes \cup ListVars /\ Nodes \cap ListVars = {}
    BY DEF ListVars
  <2>3. next = [n \in Nodes \cup ListVars |-> Null]
    BY DEF Init, ListVars
  <2> QED BY <2>1, <2>2, <2>3
<1>2. Memory(Nodes, ListVars, next)
  BY <1>1 DEF Memory
<1> DEFINE c == [l \in ListVars |-> <<>>]
<1>3. AreLists(Nodes, ListVars, next, c)
  <2>1. c \in [ListVars -> Seq(Nodes)] /\ \A l \in ListVars : Len(c[l]) = 0
    BY EmptySeq
  <2>2. \A l \in ListVars : next[l] = Null
    BY DEF Init, ListVars
  <2>3. \A l \in ListVars : IsList(next, l, c[l])
    <3> HIDE DEF c
    <3> QED BY <2>1, <2>2 DEF IsList, Node
  <2> HIDE DEF c
  <2> QED BY <1>2, <2>1, <2>3 DEF AreLists
<1>4. AreProgramLists(next) /\ \A l \in ListVars : Items(next, l) = c[l]
  <2> HIDE DEF c
  <2> QED BY Zenon, <1>3, ListsOf
<1>5. Items(next, Running) = <<>> /\ Items(next, Waiting) = <<>>
  BY <1>4 DEF ListVars
<1>6. RunningItems = {} /\ WaitingItems = {}
  BY <1>5, EmptySeq DEF RunningItems, WaitingItems, On, ToSet
<1>7. ListsInv
  <2>1. Newest(next, serial)
    BY <1>5 DEF Newest
  <2> QED BY <1>4, <1>6, <2>1 DEF ListsInv, Init
<1>8. stack = <<>> /\ updated = <<>> /\ phase = "callbacks"
  BY DEF Init
<1>9. TypesInv
  <2>1. stack \in Seq(Frames) /\ updated \in Seq(Serials)
    BY <1>8, EmptySeq
  <2>2. 0 \in Terminals /\ 0 \in 0..MaxExecs /\ None \in 0..None /\ MaxExecs \in Nat
    BY DEF Terminals, None
  <2>3. /\ pid = [n \in Nodes |-> 0] /\ terminalId = [n \in Nodes |-> 0]
        /\ done = [n \in Nodes |-> 0] /\ serial = [n \in Nodes |-> 0]
        /\ terminals = [t \in Terminals |-> IF t = 0 THEN MainTerminal ELSE Null]
        /\ flag = [s \in Serials |-> "idle"] /\ target = [s \in Serials |-> 0]
    BY DEF Init
  <2>4. /\ currentProgram = Null /\ phase = "callbacks" /\ program = Null /\ found = FALSE
        /\ due = {} /\ typing = TRUE /\ terminalPid = None /\ terminalTarget = 0 /\ started = 0
    BY DEF Init
  <2> QED BY <2>1, <2>2, <2>3, <2>4 DEF TypesInv
<1>10. StackInv
  BY <1>8 DEF StackInv, InControl, Init
<1>11. ItemsInv /\ TargetsInv /\ WaitsInv /\ TerminalsInv
  BY <1>6 DEF ItemsInv, TargetsInv, WaitsInv, TerminalsInv, Init, Terminals, Serials, MainTerminal
<1>12. MainInv /\ PassInv
  BY <1>6, <1>8 DEF MainInv, PassInv, TerminalStarts, TargetRuns, Init, None
<1> QED BY <1>7, <1>9, <1>10, <1>11, <1>12 DEF ProgramsInv

-----------------------------------------------------------------------------
LEMMA ProgramsFacts ==
  ASSUME ProgramsInv
  PROVE  /\ Running \in ListVars /\ Waiting \in ListVars /\ Running # Waiting
         /\ RunningItems \subseteq Nodes /\ WaitingItems \subseteq Nodes
         /\ RunningItems \cap WaitingItems = {}
         /\ live = RunningItems \cup WaitingItems
         /\ Running \notin Nodes /\ Waiting \notin Nodes /\ Null \notin Nodes
         /\ Null # Running
         /\ started \in Nat /\ Len(stack) \in Nat /\ Len(updated) \in Nat
         /\ \A i \in 1..Len(stack) : stack[i] \in Frames
         /\ \A i \in 1..Len(updated) : updated[i] \in Serials
         /\ stack = <<>> <=> Len(stack) = 0
         /\ updated = <<>> <=> Len(updated) = 0
         /\ RunningSerials = {serial[x] : x \in RunningItems}
         /\ \A x \in RunningItems : serial[x] \in Nat
<1>1. AreProgramLists(next) /\ live = RunningItems \cup WaitingItems
  BY DEF ProgramsInv, ListsInv
<1>2. Running \in ListVars /\ Waiting \in ListVars /\ Running # Waiting
  BY DEF ListVars, Running, Waiting
<1>3. /\ RunningItems \subseteq Nodes /\ WaitingItems \subseteq Nodes
      /\ RunningItems \cap WaitingItems = {}
  BY <1>1, <1>2, ListFacts DEF RunningItems, WaitingItems
<1>4. Running \notin Nodes /\ Waiting \notin Nodes /\ Null \notin Nodes /\ Null # Running
  BY ProgramsAssumption
<1>5. /\ started \in Nat /\ Len(stack) \in Nat /\ Len(updated) \in Nat
      /\ \A i \in 1..Len(stack) : stack[i] \in Frames
      /\ \A i \in 1..Len(updated) : updated[i] \in Serials
  <2>1. stack \in Seq(Frames) /\ updated \in Seq(Serials) /\ started \in 0..MaxExecs
    BY DEF ProgramsInv, TypesInv
  <2> QED BY <2>1, ProgramsAssumption, LenProperties, ElementOfSeq
<1>6. (stack = <<>> <=> Len(stack) = 0) /\ (updated = <<>> <=> Len(updated) = 0)
  BY EmptySeq DEF ProgramsInv, TypesInv
<1>7. RunningSerials = {serial[x] : x \in RunningItems}
  BY DEF RunningSerials, RunningItems, On
<1>8. \A x \in RunningItems : serial[x] \in Nat
  BY <1>5 DEF ProgramsInv, ItemsInv
<1> QED
  BY Zenon, <1>1, <1>2, <1>3, <1>4, <1>5, <1>6, <1>7, <1>8

LEMMA LastFrame ==
  ASSUME NEW S, NEW s \in Seq(S), s # <<>>
  PROVE  /\ Len(s) \in Nat /\ Len(s) > 0 /\ Last(s) = s[Len(s)] /\ Last(s) \in S
         /\ Front(s) \in Seq(S) /\ Len(Front(s)) = Len(s) - 1
         /\ \A k \in 1..Len(s) - 1 : Front(s)[k] = s[k]
<1>1. Len(s) \in Nat /\ Len(s) > 0
  BY LenProperties, EmptySeq
<1>2. Last(s) = s[Len(s)] /\ Last(s) \in S
  BY <1>1, ElementOfSeq DEF Last
<1>3. Front(s) = SubSeq(s, 1, Len(s) - 1)
  BY DEF Front
<1>4. /\ SubSeq(s, 1, Len(s) - 1) \in Seq(S) /\ Len(SubSeq(s, 1, Len(s) - 1)) = Len(s) - 1
      /\ \A k \in 1..Len(s) - 1 : SubSeq(s, 1, Len(s) - 1)[k] = s[k]
  <2>1. Len(s) - 1 \in 0..Len(s) /\ 1 \in 1..Len(s) + 1
    BY <1>1
  <2> DEFINE t == SubSeq(s, 1, Len(s) - 1)
  <2>2. t \in Seq(S) /\ Len(t) = (IF 1 <= Len(s) - 1 THEN Len(s) - 1 - 1 + 1 ELSE 0)
        /\ \A k \in 1..Len(s) - 1 - 1 + 1 : t[k] = s[1 + k - 1]
    BY <2>1, SubSeqProperties
  <2> HIDE DEF t
  <2>3. Len(s) - 1 - 1 + 1 = Len(s) - 1 /\ Len(t) = Len(s) - 1
    <3> DEFINE m == Len(s)
    <3>1. m \in Nat /\ m > 0 /\ Len(t) = (IF 1 <= m - 1 THEN m - 1 - 1 + 1 ELSE 0)
      BY <1>1, <2>2
    <3> HIDE DEF m
    <3>2. m - 1 - 1 + 1 = m - 1 /\ Len(t) = m - 1
      BY <3>1
    <3> QED BY <3>2 DEF m
  <2>4. \A k \in 1..Len(s) - 1 : 1 + k - 1 = k
    BY <1>1
  <2> QED BY <2>2, <2>3, <2>4 DEF t
<1> QED BY Zenon, <1>1, <1>2, <1>3, <1>4

LEMMA FreePidFree ==
  ASSUME ProgramsInv, started < MaxExecs
  PROVE  FreePid \in 0..MaxExecs /\ \A x \in RunningItems : pid[x] # FreePid
<1> DEFINE P == {p \in 0..MaxExecs : \A x \in RunningItems : pid[x] # p}
<1>1. FreePid = Min(P)
  BY DEF FreePid, RunningItems, On
<1>2. MaxExecs \in Nat
  BY ProgramsAssumption
<1>3. P # {}
  <2> SUFFICES ASSUME \A p \in 0..MaxExecs : \E x \in RunningItems : pid[x] = p PROVE FALSE
    OBVIOUS
  <2> DEFINE I == 0..MaxExecs
             g == [p \in I |-> serial[CHOOSE x \in RunningItems : pid[x] = p]]
  <2>1. \A p \in I : /\ g[p] \in 1..MaxExecs
                     /\ \E x \in RunningItems : g[p] = serial[x] /\ pid[x] = p
    <3> SUFFICES ASSUME NEW p \in I
                 PROVE  /\ g[p] \in 1..MaxExecs
                        /\ \E x \in RunningItems : g[p] = serial[x] /\ pid[x] = p
      OBVIOUS
    <3> DEFINE y == CHOOSE x \in RunningItems : pid[x] = p
    <3>1. y \in RunningItems /\ pid[y] = p
      OBVIOUS
    <3>2. g[p] = serial[y]
      OBVIOUS
    <3> HIDE DEF y, g
    <3>3. serial[y] \in 1..started /\ started \in 0..MaxExecs
      BY <3>1 DEF ProgramsInv, ItemsInv, TypesInv
    <3> QED BY <1>2, <3>1, <3>2, <3>3
  <2>2. g \in Injection(I, 1..MaxExecs)
    <3>1. g \in [I -> 1..MaxExecs]
      <4>1. g = [p \in I |-> g[p]]
        OBVIOUS
      <4> HIDE DEF g
      <4> QED BY <2>1, <4>1
    <3>2. \A p, q \in I : g[p] = g[q] => p = q
      <4> HIDE DEF g
      <4> QED BY <2>1 DEF ProgramsInv, ItemsInv
    <3> HIDE DEF g
    <3> QED BY <3>1, <3>2 DEF Injection, IsInjective
  <2>3. Cardinality(I) = MaxExecs + 1 /\ IsFiniteSet(1..MaxExecs) /\ Cardinality(1..MaxExecs) = MaxExecs
    BY <1>2, FS_Interval
  <2>4. Cardinality(I) <= Cardinality(1..MaxExecs)
    <3> HIDE DEF I, g
    <3> QED BY <2>2, <2>3, FS_Injection
  <2> QED BY <1>2, <2>3, <2>4
<1>4. P \subseteq Nat
  BY <1>2
<1> HIDE DEF P
<1>5. Min(P) \in P
  BY <1>3, <1>4, LeastOf
<1> QED BY <1>1, <1>5 DEF P

(* What execute has done when it calls start().                            *)
Frame(then) ==
  [serial |-> started + 1, pid |-> FreePid, then |-> then, old |-> currentProgram,
   quitted |-> FALSE]

LEMMA ExecuteEffect ==
  ASSUME ProgramsInv, NEW then, Execute(then)
  PROVE  \E n \in Nodes :
    /\ n \notin RunningItems /\ n \notin WaitingItems
    /\ started < MaxExecs /\ started' = started + 1
    /\ AreProgramLists(next') /\ Newest(next', serial')
    /\ RunningItems' = RunningItems \cup {n} /\ WaitingItems' = WaitingItems
    /\ live' = live \cup {n}
    /\ pid' = [pid EXCEPT ![n] = FreePid]
    /\ terminalId' = [terminalId EXCEPT ![n] =
            IF currentProgram = Null THEN 0 ELSE terminalId[currentProgram]]
    /\ serial' = [serial EXCEPT ![n] = started + 1]
    /\ currentProgram' = n
    /\ stack' = Append(stack, Frame(then))
    /\ UNCHANGED <<done, terminals, flag, target, phase, program, found, due, updated>>
<1>1. started < MaxExecs /\ started' = started + 1
  BY DEF Execute
<1>2. UNCHANGED <<done, terminals, flag, target, phase, program, found, due, updated>>
  BY DEF Execute, loopVars
<1>3. PICK n \in Nodes \ live :
       /\ next' = addItemFirst(next, Running, n)
       /\ live' = live \cup {n}
       /\ pid' = [pid EXCEPT ![n] = FreePid]
       /\ terminalId' = [terminalId EXCEPT ![n] =
            IF currentProgram = Null THEN 0 ELSE terminalId[currentProgram]]
       /\ serial' = [serial EXCEPT ![n] = started + 1]
       /\ stack' = Append(stack, Frame(then))
       /\ currentProgram' = n
  BY DEF Execute, Enter, Frame
<1>4. n \notin RunningItems /\ n \notin WaitingItems
  BY <1>3, ProgramsFacts
<1>5. AreProgramLists(next) /\ Newest(next, serial)
  BY DEF ProgramsInv, ListsInv
<1>6. \A l \in ListVars : n \notin On(next, l)
  BY <1>4 DEF RunningItems, WaitingItems, ListVars
<1>7. /\ AreProgramLists(next')
      /\ Items(next', Running) = <<n>> \o Items(next, Running)
      /\ Items(next', Waiting) = Items(next, Waiting)
  BY <1>3, <1>5, <1>6, EnterLists
<1>8. RunningItems' = RunningItems \cup {n}
  <2>1. Items(next, Running) \in Seq(Nodes)
    BY <1>5, ListFacts, ProgramsFacts
  <2> DEFINE r == Items(next, Running)
             t == <<n>> \o r
  <2>2. /\ Len(t) = 1 + Len(r) /\ Len(r) \in Nat
        /\ \A k \in 1..(1 + Len(r)) : t[k] = IF k <= 1 THEN n ELSE r[k - 1]
    <3> HIDE DEF r
    <3>1. <<n>> \in Seq(Nodes) /\ Len(<<n>>) = 1 /\ <<n>>[1] = n
      BY <1>3
    <3>2. /\ Len(t) = Len(<<n>>) + Len(r)
          /\ \A k \in 1..(Len(<<n>>) + Len(r)) :
               t[k] = IF k <= Len(<<n>>) THEN <<n>>[k] ELSE r[k - Len(<<n>>)]
      BY <2>1, <3>1, ConcatProperties DEF r
    <3>3. \A k \in 1..(1 + Len(r)) : k <= 1 => k = 1
      OBVIOUS
    <3> HIDE DEF t
    <3> QED BY <2>1, <3>1, <3>2, <3>3, LenProperties DEF r
  <2>3. RunningItems = {r[k] : k \in 1..Len(r)}
    BY <1>5, ListFacts, ProgramsFacts DEF RunningItems
  <2>4. RunningItems' = {t[k] : k \in 1..Len(t)}
    <3>1. On(next', Running) = {Items(next', Running)[k] : k \in 1..Len(Items(next', Running))}
      BY <1>7, ListFacts, ProgramsFacts
    <3> QED BY <1>7, <3>1 DEF RunningItems
  <2> HIDE DEF r, t
  <2>5. ASSUME NEW k \in 1..Len(t) PROVE t[k] \in RunningItems \cup {n}
    <3>1. k \in 1..(1 + Len(r)) /\ (k <= 1 \/ k - 1 \in 1..Len(r))
      BY <2>2
    <3> QED BY <2>2, <2>3, <3>1
  <2>6. ASSUME NEW k \in 1..Len(r) PROVE \E j \in 1..Len(t) : t[j] = r[k]
    <3> DEFINE j == k + 1
    <3>1. j \in 1..(1 + Len(r)) /\ ~(j <= 1) /\ j - 1 = k /\ j \in 1..Len(t)
      BY <2>2
    <3> HIDE DEF j
    <3>2. t[j] = r[j - 1]
      BY <2>2, <3>1
    <3> QED BY <3>1, <3>2
  <2>7. 1 \in 1..Len(t) /\ t[1] = n
    <3>1. 1 \in 1..(1 + Len(r))
      BY <2>2
    <3> QED BY <2>2, <3>1
  <2>8. RunningItems' \subseteq RunningItems \cup {n}
    BY <2>4, <2>5
  <2>9. RunningItems \subseteq RunningItems' /\ n \in RunningItems'
    BY <2>3, <2>4, <2>6, <2>7
  <2> QED BY <2>8, <2>9
<1>9. WaitingItems' = WaitingItems
  BY <1>7 DEF WaitingItems, On
<1>10. Newest(next', serial')
  <2>1. \A x \in On(next, Running) :
          serial[x] \in Nat /\ serial'[x] = serial[x] /\ serial'[x] < serial'[n]
    <3> SUFFICES ASSUME NEW x \in RunningItems
                 PROVE  serial[x] \in Nat /\ serial'[x] = serial[x] /\ serial'[x] < serial'[n]
      BY DEF RunningItems
    <3>1. serial[x] \in 1..started /\ started \in Nat /\ x \in Nodes /\ x # n
      BY <1>4, ProgramsFacts DEF ProgramsInv, ItemsInv
    <3>2. serial \in [Nodes -> 0..MaxExecs]
      BY DEF ProgramsInv, TypesInv
    <3> QED BY <1>3, <3>1, <3>2
  <2> QED BY Zenon, <1>3, <1>5, <1>7, <2>1, NewestEntered
<1> QED
  BY <1>1, <1>2, <1>3, <1>4, <1>7, <1>8, <1>9, <1>10

LEMMA PushedFrame ==
  ASSUME NEW S, NEW s \in Seq(S), NEW f \in S
  PROVE  /\ Append(s, f) \in Seq(S) /\ Len(Append(s, f)) = Len(s) + 1
         /\ Append(s, f)[Len(s) + 1] = f
         /\ \A k \in 1..Len(s) : Append(s, f)[k] = s[k]
         /\ Last(Append(s, f)) = f /\ Append(s, f) # <<>>
<1>1. /\ Append(s, f) \in Seq(S) /\ Len(Append(s, f)) = Len(s) + 1 /\ Len(s) \in Nat
      /\ Append(s, f)[Len(s) + 1] = f
      /\ \A k \in 1..Len(s) : Append(s, f)[k] = s[k]
  BY AppendProperties, LenProperties
<1>2. Append(s, f) # <<>>
  BY <1>1, EmptySeq
<1> QED BY <1>1, <1>2 DEF Last

(* Who may call execute, and for what.                                     *)
MayExecute(then) ==
  \/ /\ stack = <<>> /\ phase # "updates" /\ then \in {"nothing", "terminal"}
     /\ then = "terminal" => phase = "terminal"
  \/ /\ InControl /\ then \in {"nothing", "wait"}
     /\ then = "wait" => flag[Self] # "waiting"

LEMMA NoneQuitted ==
  ASSUME ProgramsInv, stack = <<>> \/ InControl
  PROVE  \A i \in 1..Len(stack) : ~stack[i].quitted
<1>1. ASSUME NEW i \in 1..Len(stack), i # Len(stack) PROVE ~stack[i].quitted
  <2>1. i \in 1..Len(stack) - 1
    BY <1>1, ProgramsFacts
  <2> QED BY <2>1 DEF ProgramsInv, StackInv, CallerInv
<1>2. Len(stack) > 0 => ~stack[Len(stack)].quitted
  BY ProgramsFacts DEF InControl, Last
<1> QED BY <1>1, <1>2, ProgramsFacts

LEMMA ExecuteKeeps ==
  ASSUME ProgramsInv, NEW then, Execute(then), MayExecute(then)
  PROVE  /\ ListsInv' /\ ItemsInv' /\ StackInv' /\ TargetsInv' /\ WaitsInv'
         /\ TerminalsInv' /\ PassInv'
         /\ stack' \in Seq(Frames)
<1>1. PICK n \in Nodes :
    /\ n \notin RunningItems /\ n \notin WaitingItems
    /\ started < MaxExecs /\ started' = started + 1
    /\ AreProgramLists(next') /\ Newest(next', serial')
    /\ RunningItems' = RunningItems \cup {n} /\ WaitingItems' = WaitingItems
    /\ live' = live \cup {n}
    /\ pid' = [pid EXCEPT ![n] = FreePid]
    /\ terminalId' = [terminalId EXCEPT ![n] =
            IF currentProgram = Null THEN 0 ELSE terminalId[currentProgram]]
    /\ serial' = [serial EXCEPT ![n] = started + 1]
    /\ currentProgram' = n
    /\ stack' = Append(stack, Frame(then))
    /\ UNCHANGED <<done, terminals, flag, target, phase, program, found, due, updated>>
  BY ExecuteEffect
<1>2. /\ pid \in [Nodes -> 0..MaxExecs] /\ serial \in [Nodes -> 0..MaxExecs]
      /\ terminalId \in [Nodes -> Terminals] /\ stack \in Seq(Frames)
      /\ target \in [Serials -> 0..MaxExecs] /\ flag \in [Serials -> {"idle", "waiting", "told"}]
      /\ currentProgram \in Nodes \cup {Null} /\ MaxExecs \in Nat
  BY ProgramsAssumption DEF ProgramsInv, TypesInv
<1>3. /\ FreePid \in 0..MaxExecs /\ \A x \in RunningItems : pid[x] # FreePid
  BY <1>1, FreePidFree
<1>4. /\ pid'[n] = FreePid /\ serial'[n] = started + 1
      /\ \A x \in Nodes : x # n =>
           pid'[x] = pid[x] /\ serial'[x] = serial[x] /\ terminalId'[x] = terminalId[x]
  BY <1>1, <1>2
<1>5. \A x \in RunningItems : x # n /\ x \in Nodes /\ x \in RunningItems'
        /\ pid'[x] = pid[x] /\ serial'[x] = serial[x] /\ terminalId'[x] = terminalId[x]
  BY <1>1, <1>4, ProgramsFacts
<1>6. n \in RunningItems' /\ \A x \in RunningItems' : x = n \/ x \in RunningItems
  BY <1>1
<1>7. /\ started \in Nat /\ \A x \in RunningItems : serial[x] \in 1..started
      /\ \A x \in RunningItems : serial'[x] \in 1..started
  BY <1>5, ProgramsFacts DEF ProgramsInv, ItemsInv
<1>8. Frame(then) \in Frames
  <2>1. started + 1 \in Serials
    BY <1>1, <1>2, <1>7 DEF Serials
  <2> QED BY <1>2, <1>3, <2>1 DEF Frame, Frames, MayExecute
<1>9. /\ stack' \in Seq(Frames) /\ Len(stack') = Len(stack) + 1
      /\ stack'[Len(stack) + 1] = Frame(then)
      /\ \A k \in 1..Len(stack) : stack'[k] = stack[k]
      /\ Last(stack') = Frame(then) /\ stack' # <<>>
  <2>1. stack' = Append(stack, Frame(then)) /\ stack \in Seq(Frames)
    BY <1>1, <1>2
  <2> QED BY <1>8, <2>1, PushedFrame
<1>10. /\ Frame(then).serial = started + 1 /\ Frame(then).pid = FreePid
       /\ Frame(then).then = then /\ Frame(then).old = currentProgram
       /\ Frame(then).quitted = FALSE
  BY DEF Frame
<1>11. Len(stack) \in Nat /\ (stack = <<>> <=> Len(stack) = 0)
  BY ProgramsFacts
<1>12. \A i \in 1..Len(stack) : ~stack[i].quitted
  BY NoneQuitted DEF MayExecute
<1>13. ListsInv'
  BY <1>1, ProgramsFacts DEF ListsInv
<1>14. ItemsInv'
  <2>1. \A x \in RunningItems' : serial'[x] \in 1..started'
    BY <1>1, <1>4, <1>6, <1>7
  <2>2. ASSUME NEW x \in RunningItems', NEW y \in RunningItems'
        PROVE  (serial'[x] = serial'[y] => x = y) /\ (pid'[x] = pid'[y] => x = y)
    <3>1. \A z \in RunningItems : serial'[z] # started + 1 /\ pid'[z] # FreePid
      BY <1>3, <1>5, <1>7
    <3>2. \A u, v \in RunningItems :
             (serial'[u] = serial'[v] => u = v) /\ (pid'[u] = pid'[v] => u = v)
      BY <1>5 DEF ProgramsInv, ItemsInv
    <3> QED BY <1>4, <1>6, <3>1, <3>2
  <2> QED BY <2>1, <2>2 DEF ItemsInv
<1>15. \A s \in Serials : target[s] <= started /\ target[s] \in Nat
  BY <1>2 DEF ProgramsInv, TargetsInv
<1>16. StackInv'
  <2>1. /\ \A i \in 1..Len(stack) : FrameInv(stack[i]) /\ stack[i] \in Frames
        /\ \A i \in 1..Len(stack) - 1 : CallerInv(stack[i], stack[i + 1])
    BY ProgramsFacts DEF ProgramsInv, StackInv
  <2>2. ASSUME NEW i \in 1..Len(stack) PROVE FrameInv(stack[i])'
    <3>1. stack'[i] = stack[i]
      BY <1>9
    <3> DEFINE f == stack[i]
    <3>2. /\ f.serial \in 1..started /\ ~f.quitted
          /\ f.then # "update" => \A s \in Serials : target[s] # f.serial
      BY <1>12, <2>1 DEF FrameInv
    <3>3. PICK x \in RunningItems : OfItem(f, x)
      BY <1>12, <2>1 DEF FrameInv
    <3> HIDE DEF f
    <3>4. x \in RunningItems' /\ serial'[x] = f.serial /\ (f.then # "update" => pid'[x] = f.pid)
      BY <1>5, <3>3 DEF OfItem
    <3>5. f.serial \in 1..started' /\ target' = target
      BY <1>1, <1>7, <3>2
    <3>6. stack'[i] = f
      BY <3>1 DEF f
    <3> QED BY <3>2, <3>4, <3>5, <3>6 DEF FrameInv, OfItem
  <2>3. PICK m \in Nat : m = Len(stack) + 1
    BY <1>11
  <2>4. PICK g \in Frames : g = Frame(then)
    BY <1>8
  <2>5. /\ stack'[m] = g /\ g.serial = started + 1 /\ g.pid = FreePid /\ g.then = then
        /\ g.old = currentProgram /\ g.quitted = FALSE
    BY <1>9, <1>10, <2>3, <2>4
  <2>6. FrameInv(stack[m])'
    <3>1. \A s \in Serials : target'[s] # g.serial
      BY <1>1, <1>7, <1>15, <2>5
    <3>2. n \in RunningItems' /\ serial'[n] = g.serial /\ pid'[n] = g.pid
      BY <1>4, <1>6, <2>5
    <3>3. g.serial \in 1..started'
      BY <1>1, <1>7, <2>5
    <3> QED BY <2>5, <3>1, <3>2, <3>3 DEF FrameInv, OfItem
  <2>7. ASSUME NEW i \in 1..Len(stack) - 1 PROVE CallerInv(stack[i], stack[i + 1])'
    <3>1. PICK j \in 1..Len(stack) : j = i + 1 /\ i \in 1..Len(stack)
      BY <1>11
    <3>2. CallerInv(stack[i], stack[j])
      BY <2>1, <3>1
    <3>3. stack'[i] = stack[i] /\ stack'[j] = stack[j]
      BY <1>9, <3>1
    <3>4. CallerInv(stack[i], stack[j])'
      BY <1>1, <1>5, <3>2, <3>3 DEF CallerInv
    <3> QED BY <3>1, <3>4
  <2>8. ASSUME NEW i \in 1..Len(stack), i = Len(stack) PROVE CallerInv(stack[i], stack[m])'
    <3>1. InControl /\ then \in {"nothing", "wait"} /\ (then = "wait" => flag[Self] # "waiting")
      BY <1>11, <2>8 DEF MayExecute
    <3>2. currentProgram \in RunningItems /\ serial[currentProgram] = Self /\ Self = stack[i].serial
      BY <2>8, <3>1 DEF ProgramsInv, StackInv, Self, Last
    <3>3. stack'[i] = stack[i]
      BY <1>9
    <3>4. ~stack[i].quitted /\ stack[i].serial \in 1..started
      BY <1>12, <2>1 DEF FrameInv
    <3>5. stack[i].serial < g.serial
      BY <1>7, <2>5, <3>4
    <3>6. currentProgram \in RunningItems' /\ serial'[currentProgram] = stack[i].serial
      BY <1>5, <3>2
    <3> QED BY <1>1, <2>5, <3>1, <3>2, <3>3, <3>4, <3>5, <3>6 DEF CallerInv
  <2>9. /\ \A i \in 1..Len(stack') : FrameInv(stack[i])'
        /\ \A i \in 1..Len(stack') - 1 : CallerInv(stack[i], stack[i + 1])'
    <3>1. ASSUME NEW i \in 1..Len(stack') PROVE FrameInv(stack[i])'
      <4>1. i \in 1..Len(stack) \/ i = m
        BY <1>9, <1>11, <2>3
      <4> QED BY <2>2, <2>6, <4>1
    <3>2. ASSUME NEW i \in 1..Len(stack') - 1 PROVE CallerInv(stack[i], stack[i + 1])'
      <4>1. i \in 1..Len(stack) - 1 \/ (i \in 1..Len(stack) /\ i = Len(stack) /\ m = i + 1)
        BY <1>9, <1>11, <2>3
      <4> QED BY <2>7, <2>8, <4>1
    <3> QED BY <3>1, <3>2
  <2>10. /\ stack'[1].old = Null /\ stack'[1].then # "wait"
         /\ stack'[1].then = "update" <=> phase' = "updates"
         /\ stack'[1].then = "terminal" => phase' = "terminal"
    <3>1. CASE Len(stack) > 0
      <4>1. 1 \in 1..Len(stack)
        BY <1>11, <3>1
      <4>2. stack'[1] = stack[1] /\ phase' = phase
        BY <1>1, <1>9, <4>1
      <4> QED BY <3>1, <4>2 DEF ProgramsInv, StackInv
    <3>2. CASE ~(Len(stack) > 0)
      <4>1. stack = <<>> /\ m = 1
        BY <1>11, <2>3, <3>2
      <4>2. phase # "updates" /\ then \in {"nothing", "terminal"}
            /\ (then = "terminal" => phase = "terminal")
        BY <4>1 DEF MayExecute, InControl
      <4>3. currentProgram = Null
        BY <4>1, <4>2 DEF ProgramsInv, StackInv
      <4> QED BY <1>1, <2>5, <4>1, <4>2, <4>3
    <3> QED BY <3>1, <3>2
  <2>11. currentProgram' \in RunningItems' /\ serial'[currentProgram'] = Self'
    BY <1>1, <1>4, <1>6, <1>9, <1>10 DEF Self
  <2>12. stack' # <<>>
    BY <1>9
  <2> QED BY Zenon, <2>9, <2>10, <2>11, <2>12 DEF StackInv
<1>17. TargetsInv'
  <2>1. \A s \in Serials : s \in Nat /\ (s > started + 1 => s > started)
    BY <1>2, <1>7 DEF Serials
  <2>2. \A s \in Serials : target[s] <= started + 1
    BY <1>7, <1>15
  <2> QED BY <1>1, <2>1, <2>2 DEF ProgramsInv, TargetsInv
<1>18. WaitsInv'
  <2>1. \A w \in WaitingItems' : w \in WaitingItems /\ w # n /\ w \in Nodes
    BY <1>1, ProgramsFacts
  <2>2. \A w \in WaitingItems' : pid'[w] = pid[w] /\ done'[w] = done[w]
    BY <1>1, <1>4, <2>1
  <2>3. ASSUME NEW w \in WaitingItems'
        PROVE  /\ done'[w] \in Serials /\ flag'[done'[w]] = "waiting"
               /\ \E x \in RunningItems' : serial'[x] = target'[done'[w]] /\ pid'[x] = pid'[w]
    BY <1>1, <1>5, <2>1, <2>2 DEF ProgramsInv, WaitsInv
  <2>4. \A v, w \in WaitingItems' : done'[v] = done'[w] => v = w
    BY <1>1, <2>1, <2>2 DEF ProgramsInv, WaitsInv
  <2>5. ASSUME NEW s \in Serials
        PROVE  /\ flag'[s] = "waiting" => /\ \E x \in RunningItems' : serial'[x] = s
                                          /\ \E w \in WaitingItems' : done'[w] = s
               /\ flag'[s] = "told" => \A x \in RunningItems' : serial'[x] # target'[s]
    <3>1. flag[s] = "waiting" => /\ \E x \in RunningItems : serial[x] = s
                                 /\ \E w \in WaitingItems : done[w] = s
      BY DEF ProgramsInv, WaitsInv
    <3>2. flag[s] = "told" => \A x \in RunningItems : serial[x] # target[s]
      BY DEF ProgramsInv, WaitsInv
    <3>3. target[s] # started + 1
      BY <1>7, <1>15
    <3> QED BY <1>1, <1>4, <1>5, <1>6, <3>1, <3>2, <3>3
  <2> QED BY <2>3, <2>4, <2>5 DEF WaitsInv
<1>19. TerminalsInv'
  BY <1>1, <1>5 DEF ProgramsInv, TerminalsInv
<1>20. PassInv'
  <2>1. CASE phase # "updates"
    BY <1>1, <2>1 DEF ProgramsInv, PassInv
  <2>2. CASE phase = "updates"
    <3>1. InControl /\ Len(stack) > 0
      BY <1>11, <2>2 DEF MayExecute, InControl
    <3>2. program # Running
      BY <1>11, <2>2, <3>1 DEF ProgramsInv, PassInv
    <3>3. program \in Nodes /\ AtItem /\ due \subseteq 1..started
      BY <2>2, <3>2 DEF ProgramsInv, PassInv
    <3>4. program \in RunningItems
      <4>1. ~stack[Len(stack)].quitted /\ Len(stack) \in 1..Len(stack)
        BY <1>11, <1>12, <3>1
      <4> QED BY <3>1, <3>3, <4>1 DEF AtItem
    <3>5. due \subseteq 1..started'
      BY <1>1, <1>7, <3>3
    <3>6. serial'[program] = serial[program] /\ program \in RunningItems' /\ serial[program] \in Nat
      BY <1>5, <1>7, <3>4
    <3>7. AtItem'
      <4>1. \A x \in RunningItems' : serial'[x] < serial'[program'] => serial'[x] \in due'
        <5> SUFFICES ASSUME NEW x \in RunningItems', serial'[x] < serial[program]
                     PROVE  serial'[x] \in due
          BY <1>1, <3>6
        <5>1. x # n
          BY <1>4, <1>7, <3>4
        <5> QED BY <1>5, <1>6, <3>3, <5>1 DEF AtItem
      <4>2. \A s \in due' : s < serial'[program'] => \E x \in RunningItems' : serial'[x] = s
        BY <1>1, <1>5, <3>3, <3>6 DEF AtItem
      <4>3. Len(stack') > 0 => stack'[1].serial = serial'[program']
        <5>1. 1 \in 1..Len(stack)
          BY <1>11, <3>1
        <5> QED BY <1>1, <1>9, <3>1, <3>3, <3>6, <5>1 DEF AtItem
      <4>4. UNCHANGED <<updated, due, program>>
        BY <1>1
      <4>5. /\ Len(updated) > 0 /\ updated[Len(updated)] = serial[program]
            /\ \A j, k \in 1..Len(updated) : j < k => updated[j] > updated[k]
            /\ \A k \in 1..Len(updated) : updated[k] \in due
            /\ \A s \in due : s >= serial[program] => \E k \in 1..Len(updated) : updated[k] = s
        BY <3>3 DEF AtItem
      <4> QED BY <3>6, <4>1, <4>2, <4>3, <4>4, <4>5 DEF AtItem
    <3> QED BY <1>1, <2>2, <3>2, <3>3, <3>5, <3>7 DEF PassInv
  <2> QED BY <2>1, <2>2
<1> QED
  BY <1>9, <1>13, <1>14, <1>16, <1>17, <1>18, <1>19, <1>20

LEMMA ExecuteKeepsTypes ==
  ASSUME ProgramsInv, NEW then, Execute(then), MayExecute(then),
         typing' = typing, terminalPid' = terminalPid,
         terminalTarget' \in {terminalTarget, started + 1}
  PROVE  TypesInv'
<1>1. PICK n \in Nodes :
    /\ started < MaxExecs /\ started' = started + 1
    /\ pid' = [pid EXCEPT ![n] = FreePid]
    /\ terminalId' = [terminalId EXCEPT ![n] =
            IF currentProgram = Null THEN 0 ELSE terminalId[currentProgram]]
    /\ serial' = [serial EXCEPT ![n] = started + 1]
    /\ currentProgram' = n
    /\ UNCHANGED <<done, terminals, flag, target, phase, program, found, due, updated>>
  BY ExecuteEffect
<1>2. TypesInv /\ MaxExecs \in Nat /\ 0 \in Terminals
  BY ProgramsAssumption DEF ProgramsInv, Terminals
<1>3. FreePid \in 0..MaxExecs /\ stack' \in Seq(Frames)
  BY <1>1, FreePidFree, ExecuteKeeps
<1>4. started + 1 \in 0..MaxExecs /\ started' \in 0..MaxExecs
  BY <1>1, <1>2 DEF TypesInv
<1>5. /\ pid' \in [Nodes -> 0..MaxExecs] /\ serial' \in [Nodes -> 0..MaxExecs]
      /\ terminalId' \in [Nodes -> Terminals]
  BY <1>1, <1>2, <1>3, <1>4 DEF TypesInv
<1>6. terminalTarget' \in 0..MaxExecs /\ terminalPid' \in 0..None /\ typing' \in BOOLEAN
  BY <1>2, <1>4 DEF TypesInv
<1> QED
  BY <1>1, <1>2, <1>3, <1>4, <1>5, <1>6 DEF TypesInv

(* Of a program that the terminal did not start.                           *)
LEMMA ExecuteKeepsMain ==
  ASSUME ProgramsInv, NEW then, Execute(then), MayExecute(then), then # "terminal",
         UNCHANGED terminalVars
  PROVE  MainInv'
<1>1. PICK n \in Nodes :
    /\ n \notin RunningItems
    /\ started < MaxExecs /\ started' = started + 1
    /\ RunningItems' = RunningItems \cup {n}
    /\ pid' = [pid EXCEPT ![n] = FreePid]
    /\ serial' = [serial EXCEPT ![n] = started + 1]
    /\ stack' = Append(stack, Frame(then))
    /\ UNCHANGED <<done, terminals, flag, target, phase, program, found, due, updated>>
  BY ExecuteEffect
<1>2. /\ TypesInv /\ MainInv /\ started \in Nat /\ terminalTarget \in Nat
      /\ Len(stack) \in Nat /\ stack \in Seq(Frames) /\ RunningItems \subseteq Nodes
  <2>1. TypesInv /\ MainInv
    BY DEF ProgramsInv
  <2>2. terminalTarget \in Nat /\ stack \in Seq(Frames)
    BY <2>1, ProgramsAssumption DEF TypesInv
  <2> QED BY <2>1, <2>2, ProgramsFacts
<1>3. typing' = typing /\ terminalPid' = terminalPid /\ terminalTarget' = terminalTarget
  BY DEF terminalVars
<1>4. /\ serial'[n] = started + 1 /\ terminalTarget <= started
      /\ \A x \in RunningItems : x # n /\ serial'[x] = serial[x] /\ pid'[x] = pid[x]
  BY <1>1, <1>2 DEF TypesInv, MainInv
<1>5. TargetRuns' <=> TargetRuns
  BY <1>1, <1>2, <1>3, <1>4 DEF TargetRuns
<1>6. (TerminalStarts' <=> TerminalStarts) /\ (TerminalStarts => stack'[1] = stack[1])
  <2>1. /\ Len(stack') = Len(stack) + 1 /\ stack'[Len(stack) + 1] = Frame(then)
        /\ \A k \in 1..Len(stack) : stack'[k] = stack[k]
    BY <1>1, <1>2, AppendProperties
  <2>2. Frame(then).then # "terminal"
    BY DEF Frame
  <2>3. CASE Len(stack) > 0
    <3>1. 1 \in 1..Len(stack)
      BY <1>2, <2>3
    <3> QED BY <1>2, <2>1, <2>3, <3>1 DEF TerminalStarts
  <2>4. CASE Len(stack) = 0
    BY <2>1, <2>2, <2>4 DEF TerminalStarts
  <2> QED BY <1>2, <2>3, <2>4
<1>7. \A x \in RunningItems' : serial'[x] = terminalTarget => x \in RunningItems
  BY <1>1, <1>2, <1>4
<1>8. terminalTarget <= started + 1
  BY <1>2, <1>4
<1> QED
  BY <1>1, <1>2, <1>3, <1>4, <1>5, <1>6, <1>7, <1>8 DEF MainInv

LEMMA CallbackExecuteKeeps == ProgramsInv /\ CallbackExecute => ProgramsInv'
<1> SUFFICES ASSUME ProgramsInv, CallbackExecute PROVE ProgramsInv'
  OBVIOUS
<1>1. Execute("nothing") /\ MayExecute("nothing") /\ UNCHANGED terminalVars
  BY DEF CallbackExecute, MayExecute
<1>2. TypesInv'
  BY <1>1, ExecuteKeepsTypes DEF terminalVars
<1>3. MainInv'
  BY <1>1, ExecuteKeepsMain
<1> QED
  BY <1>1, <1>2, <1>3, ExecuteKeeps DEF ProgramsInv

LEMMA ProgramExecuteKeeps == ProgramsInv /\ ProgramExecute => ProgramsInv'
<1> SUFFICES ASSUME ProgramsInv, ProgramExecute PROVE ProgramsInv'
  OBVIOUS
<1>1. PICK then \in {"nothing", "wait"} :
        Execute(then) /\ MayExecute(then) /\ UNCHANGED terminalVars
  BY DEF ProgramExecute, MayExecute
<1>2. TypesInv'
  BY <1>1, ExecuteKeepsTypes DEF terminalVars
<1>3. MainInv'
  BY <1>1, ExecuteKeepsMain
<1> QED
  BY <1>1, <1>2, <1>3, ExecuteKeeps DEF ProgramsInv

LEMMA TerminalExecuteKeeps == ProgramsInv /\ TerminalExecute => ProgramsInv'
<1> SUFFICES ASSUME ProgramsInv, TerminalExecute PROVE ProgramsInv'
  OBVIOUS
<1>1. /\ Execute("terminal") /\ MayExecute("terminal")
      /\ typing' = typing /\ terminalPid' = terminalPid /\ terminalTarget' = started + 1
      /\ stack = <<>> /\ ~typing /\ terminalPid = None
  BY DEF TerminalExecute, MayExecute
<1>2. TypesInv'
  BY <1>1, ExecuteKeepsTypes
<1>3. MainInv'
  <2>1. stack' = Append(stack, Frame("terminal")) /\ started' = started + 1
    BY <1>1, ExecuteEffect
  <2>2. /\ Len(stack') = Len(stack) + 1 /\ stack'[Len(stack) + 1] = Frame("terminal")
        /\ Len(stack) = 0 /\ started \in Nat
    BY <1>1, <2>1, AppendProperties, ProgramsFacts DEF ProgramsInv, TypesInv
  <2>3. Frame("terminal").then = "terminal" /\ Frame("terminal").serial = started + 1
    BY DEF Frame
  <2>4. TerminalStarts' /\ stack'[1].serial = terminalTarget'
    BY <1>1, <2>2, <2>3 DEF TerminalStarts
  <2> QED BY <1>1, <2>1, <2>2, <2>4 DEF MainInv
<1> QED
  BY <1>1, <1>2, <1>3, ExecuteKeeps DEF ProgramsInv

-----------------------------------------------------------------------------
(* The steps of the main loop.                                             *)
LEMMA SameItems ==
  ASSUME next' = next PROVE RunningItems' = RunningItems /\ WaitingItems' = WaitingItems
BY DEF RunningItems, WaitingItems, On

LEMMA SameLists ==
  ASSUME ProgramsInv, UNCHANGED itemVars, UNCHANGED <<flag, target, started>>
  PROVE  /\ ListsInv' /\ ItemsInv' /\ TargetsInv' /\ WaitsInv'
         /\ RunningItems' = RunningItems /\ WaitingItems' = WaitingItems
         /\ UNCHANGED <<next, live, pid, terminalId, done, serial>>
<1>1. RunningItems' = RunningItems /\ WaitingItems' = WaitingItems
      /\ UNCHANGED <<next, live, pid, terminalId, done, serial>>
  BY SameItems DEF itemVars
<1>2. ListsInv'
  BY <1>1 DEF ProgramsInv, ListsInv
<1>3. ItemsInv' /\ TargetsInv' /\ WaitsInv'
  BY <1>1 DEF ProgramsInv, ItemsInv, TargetsInv, WaitsInv
<1> QED BY <1>1, <1>2, <1>3

LEMMA TypeLineKeeps == ProgramsInv /\ TypeLine => ProgramsInv'
<1> SUFFICES ASSUME ProgramsInv, TypeLine PROVE ProgramsInv'
  OBVIOUS
<1>1. /\ ListsInv' /\ ItemsInv' /\ TargetsInv' /\ WaitsInv'
      /\ RunningItems' = RunningItems /\ WaitingItems' = WaitingItems
      /\ UNCHANGED <<next, live, pid, terminalId, done, serial>>
  BY SameLists DEF TypeLine
<1>2. /\ phase = "callbacks" /\ stack = <<>> /\ typing /\ typing' = FALSE
      /\ UNCHANGED <<terminals, flag, target, currentProgram, stack, phase, program, found, due,
                     updated, terminalPid, terminalTarget, started>>
  BY DEF TypeLine, loopVars
<1>3. TypesInv'
  BY <1>1, <1>2 DEF ProgramsInv, TypesInv
<1>4. StackInv' /\ PassInv'
  BY <1>1, <1>2, ProgramsFacts DEF ProgramsInv, StackInv, PassInv, InControl
<1>5. TerminalsInv'
  BY <1>1, <1>2 DEF ProgramsInv, TerminalsInv
<1>6. MainInv'
  BY <1>1, <1>2, ProgramsFacts DEF ProgramsInv, MainInv, TerminalStarts, TargetRuns
<1> QED BY <1>1, <1>3, <1>4, <1>5, <1>6 DEF ProgramsInv

LEMMA CallbacksDoneKeeps == ProgramsInv /\ CallbacksDone => ProgramsInv'
<1> SUFFICES ASSUME ProgramsInv, CallbacksDone PROVE ProgramsInv'
  OBVIOUS
<1>1. /\ ListsInv' /\ ItemsInv' /\ TargetsInv' /\ WaitsInv'
      /\ RunningItems' = RunningItems /\ WaitingItems' = WaitingItems
      /\ UNCHANGED <<next, live, pid, terminalId, done, serial>>
  BY SameLists DEF CallbacksDone
<1>2. /\ phase = "callbacks" /\ stack = <<>> /\ phase' = "terminal"
      /\ UNCHANGED <<terminals, flag, target, currentProgram, stack, program, found, due,
                     updated, typing, terminalPid, terminalTarget, started>>
  BY DEF CallbacksDone, terminalVars
<1>3. TypesInv'
  BY <1>1, <1>2 DEF ProgramsInv, TypesInv
<1>4. StackInv' /\ PassInv'
  BY <1>1, <1>2, ProgramsFacts DEF ProgramsInv, StackInv, PassInv, InControl
<1>5. TerminalsInv'
  BY <1>1, <1>2 DEF ProgramsInv, TerminalsInv
<1>6. MainInv'
  BY <1>1, <1>2, ProgramsFacts DEF ProgramsInv, MainInv, TerminalStarts, TargetRuns
<1> QED BY <1>1, <1>3, <1>4, <1>5, <1>6 DEF ProgramsInv

LEMMA BeginPassKeeps == ProgramsInv /\ BeginPass => ProgramsInv'
<1> SUFFICES ASSUME ProgramsInv, BeginPass PROVE ProgramsInv'
  OBVIOUS
<1>1. /\ ListsInv' /\ ItemsInv' /\ TargetsInv' /\ WaitsInv'
      /\ RunningItems' = RunningItems /\ WaitingItems' = WaitingItems
      /\ UNCHANGED <<next, live, pid, terminalId, done, serial>>
  BY SameLists DEF BeginPass
<1>2. /\ phase = "terminal" /\ stack = <<>> /\ phase' = "updates" /\ program' = Running
      /\ found' = FALSE /\ updated' = <<>> /\ due' = {serial[x] : x \in RunningItems}
      /\ UNCHANGED <<terminals, flag, target, currentProgram, stack, typing, terminalPid,
                     terminalTarget, started>>
  BY ProgramsFacts DEF BeginPass, BeforeFirst, terminalVars
<1>3. \A x \in RunningItems : serial[x] \in 1..started /\ serial[x] \in Serials
  <2>1. started \in 0..MaxExecs /\ MaxExecs \in Nat
    BY ProgramsAssumption DEF ProgramsInv, TypesInv
  <2> QED BY <2>1 DEF ProgramsInv, ItemsInv, Serials
<1>4. TypesInv'
  <2>1. updated' \in Seq(Serials)
    BY <1>2, EmptySeq
  <2>2. due' \subseteq Serials
    BY <1>2, <1>3
  <2> QED BY <1>1, <1>2, <2>1, <2>2 DEF ProgramsInv, TypesInv
<1>5. StackInv'
  BY <1>1, <1>2, ProgramsFacts DEF ProgramsInv, StackInv, InControl
<1>6. PassInv'
  BY <1>1, <1>2, <1>3 DEF PassInv
<1>7. TerminalsInv'
  BY <1>1, <1>2 DEF ProgramsInv, TerminalsInv
<1>8. MainInv'
  <2>1. Len(stack) = 0 /\ Len(updated') = 0
    BY <1>2, EmptySeq
  <2>2. TargetRuns => terminalTarget \in due'
    BY <1>2 DEF TargetRuns
  <2> QED BY <1>1, <1>2, <2>1, <2>2 DEF ProgramsInv, MainInv, TerminalStarts, TargetRuns
<1> QED BY <1>1, <1>4, <1>5, <1>6, <1>7, <1>8 DEF ProgramsInv

(* What comes next in the pass.                                            *)
LEMMA PassFollows ==
  ASSUME ProgramsInv, phase = "updates", stack = <<>>, program # Running
  PROVE  program \in Nodes /\ serial[program] \in Nat /\ AtItem /\ Follows(program)
<1>1. program \in Nodes /\ AtItem
  BY DEF ProgramsInv, PassInv
<1>2. serial[program] \in Nat
  BY <1>1, ProgramsAssumption DEF ProgramsInv, TypesInv
<1>3. CASE program \in RunningItems
  <2>1. AreProgramLists(next) /\ Newest(next, serial)
    BY DEF ProgramsInv, ListsInv
  <2>2. \A x \in RunningItems : serial[x] \in Nat
    BY ProgramsFacts
  <2>3. Follows(program)
    BY Zenon, <1>3, <2>1, <2>2, ItemFollows
  <2> QED BY <1>1, <1>2, <2>3
<1>4. CASE program \notin RunningItems
  BY <1>1, <1>2, <1>4 DEF AtItem
<1> QED BY <1>3, <1>4

LEMMA PassDone ==
  ASSUME ProgramsInv, phase = "updates", stack = <<>>, next[program] = Null, NEW s \in due
  PROVE  \E k \in 1..Len(updated) : updated[k] = s
<1>1. CASE program = Running
  <2>1. RunningItems = {}
    BY <1>1, FirstItem, ProgramsFacts DEF ProgramsInv, ListsInv
  <2> QED BY <1>1, <2>1 DEF ProgramsInv, PassInv
<1>2. CASE program # Running
  <2>1. AtItem /\ serial[program] \in Nat /\ \A x \in RunningItems : serial[x] >= serial[program]
    BY <1>2, PassFollows DEF Follows
  <2>2. s \in Nat /\ \A x \in RunningItems : serial[x] \in Nat
    BY ProgramsFacts DEF ProgramsInv, TypesInv, Serials
  <2>3. s >= serial[program]
    BY <2>1, <2>2 DEF AtItem
  <2> QED BY <2>1, <2>3 DEF AtItem
<1> QED BY <1>1, <1>2

LEMMA EndPassKeeps == ProgramsInv /\ EndPass => ProgramsInv'
<1> SUFFICES ASSUME ProgramsInv, EndPass PROVE ProgramsInv'
  OBVIOUS
<1>1. /\ ListsInv' /\ ItemsInv' /\ TargetsInv' /\ WaitsInv'
      /\ RunningItems' = RunningItems /\ WaitingItems' = WaitingItems
      /\ UNCHANGED <<next, live, pid, terminalId, done, serial>>
  BY SameLists DEF EndPass
<1>2. /\ phase = "updates" /\ stack = <<>> /\ next[program] = Null /\ phase' = "callbacks"
      /\ program' = Null /\ currentProgram' = Null
      /\ UNCHANGED <<terminals, flag, target, stack, found, due, updated, terminalTarget, started>>
  BY DEF EndPass
<1>3. \/ ~typing /\ ~found /\ typing' = TRUE /\ terminalPid' = None
      \/ typing' = typing /\ terminalPid' = terminalPid
  BY DEF EndPass
<1>4. TypesInv'
  <2>1. None \in 0..None
    BY ProgramsAssumption DEF None
  <2> QED BY <1>1, <1>2, <1>3, <2>1 DEF ProgramsInv, TypesInv
<1>5. StackInv' /\ PassInv'
  BY <1>1, <1>2, ProgramsFacts DEF ProgramsInv, StackInv, PassInv, InControl
<1>6. TerminalsInv'
  BY <1>1, <1>2 DEF ProgramsInv, TerminalsInv
<1>7. Len(stack) = 0
  BY <1>2, EmptySeq
<1>8. ~found => terminalPid = None \/ ~TargetRuns
  <2>1. terminalTarget \in due => \E k \in 1..Len(updated) : updated[k] = terminalTarget
    BY <1>2, PassDone
  <2> QED BY <1>2, <2>1 DEF ProgramsInv, MainInv
<1>9. MainInv'
  <2>1. terminalPid' = None => ~TargetRuns
    BY <1>3, <1>7, <1>8 DEF ProgramsInv, MainInv, TerminalStarts
  <2>2. typing' => terminalPid' = None
    BY <1>3 DEF ProgramsInv, MainInv
  <2>3. ~TerminalStarts' /\ (TargetRuns' <=> TargetRuns)
    BY <1>1, <1>2, <1>7 DEF TerminalStarts, TargetRuns
  <2>4. terminalPid' # None => terminalPid' = terminalPid
    BY <1>3
  <2> QED BY <1>1, <1>2, <2>1, <2>2, <2>3, <2>4 DEF ProgramsInv, MainInv
<1> QED BY <1>1, <1>4, <1>5, <1>6, <1>9 DEF ProgramsInv

LEMMA UpdateKeeps == ProgramsInv /\ Update => ProgramsInv'
<1> SUFFICES ASSUME ProgramsInv, Update PROVE ProgramsInv'
  OBVIOUS
<1>1. /\ ListsInv' /\ ItemsInv' /\ TargetsInv' /\ WaitsInv'
      /\ RunningItems' = RunningItems /\ WaitingItems' = WaitingItems
      /\ UNCHANGED <<next, live, pid, terminalId, done, serial>>
  BY SameLists DEF Update
<1> DEFINE n == next[program]
           f == [serial |-> serial[n], pid |-> 0, then |-> "update", old |-> Null,
                 quitted |-> FALSE]
<1>2. /\ phase = "updates" /\ stack = <<>> /\ n # Null
      /\ program' = n /\ currentProgram' = n /\ stack' = <<f>>
      /\ found' = (found \/ pid[n] = terminalPid)
      /\ updated' = Append(updated, serial[n])
      /\ UNCHANGED <<terminals, flag, target, phase, due, typing, terminalPid, terminalTarget,
                     started>>
  BY DEF Update, Found, terminalVars
<1> HIDE DEF n
<1>3. /\ Len(stack) = 0 /\ Len(updated) \in Nat /\ RunningItems \subseteq Nodes
      /\ Running \notin Nodes /\ RunningItems \subseteq live /\ started \in Nat
      /\ \A x \in RunningItems : serial[x] \in Nat
  BY <1>2, ProgramsFacts
<1>4. /\ updated \in Seq(Serials) /\ MaxExecs \in Nat /\ started \in 0..MaxExecs
      /\ \A s \in Serials : s \in Nat /\ serial \in [Nodes -> 0..MaxExecs]
  BY ProgramsAssumption DEF ProgramsInv, TypesInv, Serials
<1>5. /\ due \subseteq Serials /\ \A k \in 1..Len(updated) : updated[k] \in Serials
  BY ProgramsFacts DEF ProgramsInv, TypesInv
(* The next item runs, and is the one whose turn it is. *)
<1>6. /\ n \in RunningItems /\ serial[n] \in due
      /\ \A x \in RunningItems : serial[x] < serial[n] => serial[x] \in due
      /\ \A s \in due : s < serial[n] => \E x \in RunningItems : serial[x] = s
      /\ \A s \in due : s > serial[n] => \E k \in 1..Len(updated) : updated[k] = s
      /\ \A k \in 1..Len(updated) : updated[k] \in due /\ updated[k] > serial[n]
      /\ \A j, k \in 1..Len(updated) : j < k => updated[j] > updated[k]
  <2>1. CASE program = Running
    <3>1. /\ n \in RunningItems /\ \A x \in RunningItems : serial[x] <= serial[n]
      <4>1. AreProgramLists(next) /\ Newest(next, serial)
        BY DEF ProgramsInv, ListsInv
      <4> QED BY <1>2, <1>3, <2>1, <4>1, FirstItem DEF n
    <3>2. updated = <<>> /\ due = {serial[x] : x \in RunningItems} /\ Len(updated) = 0
      BY <1>2, <2>1, ProgramsFacts DEF ProgramsInv, PassInv
    <3>3. \A s \in due : s <= serial[n]
      BY <3>1, <3>2
    <3>4. \A s \in due : ~(s > serial[n])
      BY <1>3, <1>4, <1>5, <3>1, <3>3
    <3> QED BY <3>1, <3>2, <3>4
  <2>2. CASE program # Running
    <3>1. AtItem /\ serial[program] \in Nat /\ Follows(program)
      BY <1>2, <2>2, PassFollows
    <3>2. /\ n \in RunningItems /\ serial[n] < serial[program]
          /\ \A x \in RunningItems : serial[x] < serial[program] => serial[x] <= serial[n]
      BY <1>2, <3>1 DEF Follows, n
    <3>3. ASSUME NEW s \in due, s > serial[n] PROVE \E k \in 1..Len(updated) : updated[k] = s
      <4>1. s \in Nat /\ serial[n] \in Nat
        BY <1>3, <1>4, <1>5, <3>2
      <4>2. CASE s >= serial[program]
        BY <3>1, <4>2 DEF AtItem
      <4>3. CASE s < serial[program]
        <5>1. PICK x \in RunningItems : serial[x] = s
          BY <3>1, <4>3 DEF AtItem
        <5>2. s <= serial[n]
          BY <3>2, <4>3, <5>1
        <5> QED BY <3>3, <4>1, <5>2
      <4> QED BY <3>1, <4>1, <4>2, <4>3
    <3>4. ASSUME NEW k \in 1..Len(updated) PROVE updated[k] > serial[n]
      <4>1. updated[k] \in Nat /\ serial[n] \in Nat
        BY <1>3, <1>4, <1>5, <3>2
      <4>2. k = Len(updated) \/ (k < Len(updated) /\ Len(updated) \in 1..Len(updated))
        BY <1>3
      <4>3. updated[k] >= serial[program]
        <5>1. CASE k = Len(updated)
          BY <3>1, <5>1 DEF AtItem
        <5>2. CASE k < Len(updated) /\ Len(updated) \in 1..Len(updated)
          <6>1. updated[k] > updated[Len(updated)] /\ updated[Len(updated)] = serial[program]
            BY <3>1, <5>2 DEF AtItem
          <6> QED BY <3>1, <4>1, <6>1
        <5> QED BY <4>2, <5>1, <5>2
      <4> QED BY <3>1, <3>2, <4>1, <4>3
    <3>5. /\ \A x \in RunningItems : serial[x] < serial[program] => serial[x] \in due
          /\ \A s \in due : s < serial[program] => \E x \in RunningItems : serial[x] = s
          /\ \A k \in 1..Len(updated) : updated[k] \in due
          /\ \A j, k \in 1..Len(updated) : j < k => updated[j] > updated[k]
      BY <3>1 DEF AtItem
    <3>6. \A x \in RunningItems : serial[x] < serial[n] => serial[x] < serial[program]
      BY <1>3, <3>1, <3>2
    <3>7. \A s \in due : s < serial[n] => s < serial[program]
      BY <1>3, <1>4, <1>5, <3>1, <3>2
    <3> QED BY <3>2, <3>3, <3>4, <3>5, <3>6, <3>7
  <2> QED BY <2>1, <2>2
<1>7. serial[n] \in 1..started /\ serial[n] \in Serials /\ serial[n] \in Nat
  <2>1. serial[n] \in 1..started
    BY <1>6 DEF ProgramsInv, ItemsInv
  <2> QED BY <1>4, <2>1 DEF Serials
<1>8. /\ updated' \in Seq(Serials) /\ Len(updated') = Len(updated) + 1
      /\ updated'[Len(updated) + 1] = serial[n]
      /\ \A k \in 1..Len(updated) : updated'[k] = updated[k]
  BY <1>2, <1>4, <1>7, AppendProperties
<1>9. f \in Frames /\ stack' \in Seq(Frames) /\ Len(stack') = 1 /\ stack'[1] = f /\ stack' # <<>>
      /\ Last(stack') = f
  <2>1. f \in Frames
    BY <1>4, <1>7 DEF Frames
  <2>2. <<f>> \in Seq(Frames) /\ Len(<<f>>) = 1 /\ <<f>>[1] = f
    BY <2>1
  <2> HIDE DEF f
  <2>3. stack' # <<>>
    BY <1>2, <2>2, EmptySeq
  <2> QED BY <1>2, <2>1, <2>2, <2>3 DEF Last
<1>10. /\ f.serial = serial[n] /\ f.then = "update" /\ f.old = Null /\ f.quitted = FALSE
  OBVIOUS
<1> HIDE DEF f
<1>11. TypesInv'
  BY <1>1, <1>2, <1>3, <1>6, <1>8, <1>9 DEF ProgramsInv, TypesInv
<1>12. StackInv'
  <2>1. FrameInv(stack[1])'
    BY <1>1, <1>2, <1>6, <1>7, <1>9, <1>10 DEF FrameInv, OfItem
  <2>2. 1..Len(stack') = {1} /\ 1..Len(stack') - 1 = {}
    BY <1>9
  <2>3. currentProgram' \in RunningItems' /\ serial'[currentProgram'] = Self'
    BY <1>1, <1>2, <1>6, <1>9, <1>10 DEF Self
  <2> QED BY <1>2, <1>9, <1>10, <2>1, <2>2, <2>3 DEF StackInv
<1>13. AtItem'
  <2>1. \A j, k \in 1..Len(updated') : j < k => updated'[j] > updated'[k]
    <3> SUFFICES ASSUME NEW j \in 1..Len(updated'), NEW k \in 1..Len(updated'), j < k
                 PROVE  updated'[j] > updated'[k]
      OBVIOUS
    <3>1. j \in 1..Len(updated) /\ (k \in 1..Len(updated) \/ k = Len(updated) + 1)
      BY <1>3, <1>8
    <3> QED BY <1>6, <1>8, <3>1
  <2>2. \A k \in 1..Len(updated') : updated'[k] \in due
    <3> SUFFICES ASSUME NEW k \in 1..Len(updated') PROVE updated'[k] \in due
      OBVIOUS
    <3>1. k \in 1..Len(updated) \/ k = Len(updated) + 1
      BY <1>3, <1>8
    <3> QED BY <1>6, <1>8, <3>1
  <2>3. ASSUME NEW s \in due, s >= serial[n] PROVE \E k \in 1..Len(updated') : updated'[k] = s
    <3>1. s > serial[n] \/ s = serial[n]
      BY <1>4, <1>5, <1>7, <2>3
    <3>2. \A k \in 1..Len(updated) : k \in 1..Len(updated')
      BY <1>3, <1>8
    <3>3. Len(updated) + 1 \in 1..Len(updated')
      BY <1>3, <1>8
    <3> QED BY <1>6, <1>8, <3>1, <3>2, <3>3
  <2>4. Len(updated') > 0 /\ updated'[Len(updated')] = serial[n]
    BY <1>3, <1>8
  <2> QED BY <1>1, <1>2, <1>6, <1>9, <1>10, <2>1, <2>2, <2>3, <2>4 DEF AtItem
<1>14. PassInv'
  BY <1>1, <1>2, <1>3, <1>6, <1>13 DEF ProgramsInv, PassInv
<1>15. TerminalsInv'
  BY <1>1, <1>2 DEF ProgramsInv, TerminalsInv
<1>16. MainInv'
  <2>1. ~TerminalStarts /\ ~TerminalStarts' /\ (TargetRuns' <=> TargetRuns)
    BY <1>1, <1>2, <1>3, <1>9, <1>10 DEF TerminalStarts, TargetRuns
  <2>2. ASSUME terminalPid # None, TargetRuns
        PROVE  /\ terminalTarget \in due
               /\ found' \/ \A k \in 1..Len(updated') : updated'[k] # terminalTarget
    <3>1. /\ terminalTarget \in due
          /\ found \/ \A k \in 1..Len(updated) : updated[k] # terminalTarget
          /\ \A x \in RunningItems : serial[x] = terminalTarget => pid[x] = terminalPid
      BY <1>2, <2>2 DEF ProgramsInv, MainInv
    <3>2. \A k \in 1..Len(updated') : k \in 1..Len(updated) \/ k = Len(updated) + 1
      BY <1>3, <1>8
    <3>3. serial[n] = terminalTarget => pid[n] = terminalPid
      BY <1>6, <3>1
    <3> QED BY <1>2, <1>8, <3>1, <3>2, <3>3
  <2> QED BY <1>1, <1>2, <2>1, <2>2 DEF ProgramsInv, MainInv
<1> QED BY <1>1, <1>11, <1>12, <1>14, <1>15, <1>16 DEF ProgramsInv

LEMMA UpdateReturnsKeeps == ProgramsInv /\ UpdateReturns => ProgramsInv'
<1> SUFFICES ASSUME ProgramsInv, UpdateReturns PROVE ProgramsInv'
  OBVIOUS
<1>1. /\ ListsInv' /\ ItemsInv' /\ TargetsInv' /\ WaitsInv'
      /\ RunningItems' = RunningItems /\ WaitingItems' = WaitingItems
      /\ UNCHANGED <<next, live, pid, terminalId, done, serial>>
  BY SameLists DEF UpdateReturns
<1>2. /\ stack # <<>> /\ Last(stack).then = "update" /\ stack' = Front(stack)
      /\ UNCHANGED <<terminals, flag, target, currentProgram, phase, program, found, due,
                     updated, typing, terminalPid, terminalTarget, started>>
  BY DEF UpdateReturns, terminalVars, loopVars
<1>3. /\ Len(stack) \in Nat /\ Len(stack) > 0 /\ Last(stack) = stack[Len(stack)]
      /\ stack' \in Seq(Frames) /\ Len(stack') = Len(stack) - 1
  BY <1>2, LastFrame DEF ProgramsInv, TypesInv
<1>4. Len(stack) = 1
  <2> SUFFICES ASSUME Len(stack) # 1 PROVE FALSE
    OBVIOUS
  <2>1. PICK i \in 1..Len(stack) - 1 : i + 1 = Len(stack)
    <3>1. Len(stack) - 1 \in 1..Len(stack) - 1 /\ Len(stack) - 1 + 1 = Len(stack)
      BY <1>3
    <3> QED BY <3>1
  <2>2. CallerInv(stack[i], stack[Len(stack)])
    BY <2>1 DEF ProgramsInv, StackInv
  <2> QED BY <1>2, <1>3, <2>2 DEF CallerInv
<1>5. stack' = <<>> /\ Len(stack') = 0
  BY <1>3, <1>4, EmptySeq
<1>6. stack[1].then = "update" /\ phase = "updates"
  BY <1>2, <1>3, <1>4 DEF ProgramsInv, StackInv
<1>7. TypesInv'
  BY <1>1, <1>2, <1>3 DEF ProgramsInv, TypesInv
<1>8. StackInv'
  BY <1>2, <1>5, <1>6 DEF StackInv, InControl
<1>9. TerminalsInv'
  BY <1>1, <1>2 DEF ProgramsInv, TerminalsInv
<1>10. PassInv'
  <2>1. program # Running /\ program \in Nodes /\ AtItem /\ due \subseteq 1..started
    BY <1>2, <1>6 DEF ProgramsInv, PassInv
  <2>2. AtItem'
    BY <1>1, <1>2, <1>5, <2>1 DEF AtItem, Follows
  <2> QED BY <1>2, <1>6, <2>1, <2>2 DEF PassInv
<1>11. MainInv'
  <2>1. ~TerminalStarts /\ ~TerminalStarts' /\ (TargetRuns' <=> TargetRuns)
    BY <1>1, <1>2, <1>5, <1>6 DEF TerminalStarts, TargetRuns
  <2> QED BY <1>1, <1>2, <2>1 DEF ProgramsInv, MainInv
<1> QED BY <1>1, <1>7, <1>8, <1>9, <1>10, <1>11 DEF ProgramsInv

-----------------------------------------------------------------------------
(* The terminals.                                                          *)
LEMMA SelfRuns ==
  ASSUME ProgramsInv, InControl
  PROVE  /\ currentProgram \in RunningItems /\ serial[currentProgram] = Self
         /\ Self \in Serials /\ Self \in 1..started /\ Self \in Nat
         /\ Len(stack) \in Nat /\ Len(stack) > 0 /\ Last(stack) = stack[Len(stack)]
         /\ ~stack[Len(stack)].quitted /\ stack[Len(stack)].serial = Self
<1>1. currentProgram \in RunningItems /\ serial[currentProgram] = Self
  BY DEF ProgramsInv, StackInv
<1>2. started \in 0..MaxExecs /\ MaxExecs \in Nat /\ Self \in 1..started
  BY <1>1, ProgramsAssumption DEF ProgramsInv, ItemsInv, TypesInv
<1>3. /\ Len(stack) \in Nat /\ Len(stack) > 0 /\ Last(stack) = stack[Len(stack)]
      /\ ~stack[Len(stack)].quitted /\ stack[Len(stack)].serial = Self
  BY LastFrame DEF InControl, Self, ProgramsInv, TypesInv
<1> QED BY <1>1, <1>2, <1>3 DEF Serials

LEMMA RegisterTerminalKeeps == ProgramsInv /\ RegisterTerminal => ProgramsInv'
<1> SUFFICES ASSUME ProgramsInv, RegisterTerminal PROVE ProgramsInv'
  OBVIOUS
<1>1. PICK t \in Terminals :
        /\ terminals[t] = Null /\ terminals' = [terminals EXCEPT ![t] = Self]
        /\ terminalId' = [terminalId EXCEPT ![currentProgram] = t]
  BY DEF RegisterTerminal, Registered
<1>2. /\ InControl /\ Owned(Self) = {}
      /\ UNCHANGED <<next, live, pid, done, serial, flag, target, currentProgram, stack, phase,
                     program, found, due, updated, typing, terminalPid, terminalTarget, started>>
  BY DEF RegisterTerminal, terminalVars, loopVars
<1>3. RunningItems' = RunningItems /\ WaitingItems' = WaitingItems
  BY <1>2, SameItems
<1>4. /\ currentProgram \in RunningItems /\ currentProgram \in Nodes
      /\ serial[currentProgram] = Self /\ Self \in Serials
  BY <1>2, SelfRuns, ProgramsFacts
<1>5. terminals \in [Terminals -> Serials \cup {MainTerminal, Null}]
      /\ terminalId \in [Nodes -> Terminals]
  BY DEF ProgramsInv, TypesInv
<1>6. TypesInv'
  <2>1. terminals' \in [Terminals -> Serials \cup {MainTerminal, Null}]
        /\ terminalId' \in [Nodes -> Terminals]
    BY <1>1, <1>4, <1>5
  <2> QED BY <1>2, <2>1 DEF ProgramsInv, TypesInv
<1>7. ListsInv' /\ ItemsInv' /\ TargetsInv' /\ WaitsInv'
  BY <1>2, <1>3 DEF ProgramsInv, ListsInv, ItemsInv, TargetsInv, WaitsInv
<1>8. StackInv'
  BY <1>2, <1>3 DEF ProgramsInv, StackInv, FrameInv, OfItem, CallerInv, InControl, Self
<1>9. TerminalsInv'
  <2>1. t # 0
    BY <1>1, ProgramsAssumption DEF ProgramsInv, TerminalsInv, MainTerminal
  <2>2. terminals'[MainTerminal] = MainTerminal
    BY <1>1, <1>5, <2>1 DEF ProgramsInv, TerminalsInv, MainTerminal, Terminals
  <2>3. ASSUME NEW u \in Terminals \ {0}, terminals'[u] # Null
        PROVE  \E x \in RunningItems : serial[x] = terminals'[u] /\ terminalId'[x] = u
    <3>1. CASE u = t
      BY <1>1, <1>4, <1>5, <3>1
    <3>2. CASE u # t
      <4>1. terminals'[u] = terminals[u]
        BY <1>1, <1>5, <3>2
      <4>2. PICK x \in RunningItems : serial[x] = terminals[u] /\ terminalId[x] = u
        BY <2>3, <4>1 DEF ProgramsInv, TerminalsInv
      <4>3. x # currentProgram
        BY <1>2, <1>4, <4>2 DEF Owned
      <4> QED BY <1>1, <1>5, <4>1, <4>2, <4>3, ProgramsFacts
    <3> QED BY <3>1, <3>2
  <2> QED BY <1>2, <1>3, <2>2, <2>3 DEF TerminalsInv
<1>10. MainInv'
  BY <1>2, <1>3 DEF ProgramsInv, MainInv, TerminalStarts, TargetRuns
<1>11. PassInv'
  BY <1>2, <1>3 DEF ProgramsInv, PassInv, AtItem, Follows
<1> QED BY <1>6, <1>7, <1>8, <1>9, <1>10, <1>11 DEF ProgramsInv

LEMMA UnregisterTerminalKeeps == ProgramsInv /\ UnregisterTerminal => ProgramsInv'
<1> SUFFICES ASSUME ProgramsInv, UnregisterTerminal PROVE ProgramsInv'
  OBVIOUS
<1>1. /\ ListsInv' /\ ItemsInv' /\ TargetsInv' /\ WaitsInv'
      /\ RunningItems' = RunningItems /\ WaitingItems' = WaitingItems
      /\ UNCHANGED <<next, live, pid, terminalId, done, serial>>
  BY SameLists DEF UnregisterTerminal
<1> DEFINE t == terminalId[currentProgram]
<1>2. /\ InControl /\ Owned(Self) # {} /\ terminals' = [terminals EXCEPT ![t] = Null]
      /\ UNCHANGED <<flag, target, currentProgram, stack, phase,
                     program, found, due, updated, typing, terminalPid, terminalTarget, started>>
  BY DEF UnregisterTerminal, terminalVars, loopVars
<1>3. /\ currentProgram \in RunningItems /\ currentProgram \in Nodes
      /\ serial[currentProgram] = Self /\ Self \in Serials
  BY <1>2, SelfRuns, ProgramsFacts
<1>4. terminals \in [Terminals -> Serials \cup {MainTerminal, Null}]
      /\ terminalId \in [Nodes -> Terminals]
  BY DEF ProgramsInv, TypesInv
<1>5. t # 0 /\ t \in Terminals
  <2>1. PICK u \in Terminals : terminals[u] = Self
    BY <1>2 DEF Owned
  <2>2. u # 0 /\ Self # Null
    BY <1>3, <2>1, ProgramsAssumption DEF ProgramsInv, TerminalsInv, MainTerminal, Serials
  <2>3. PICK x \in RunningItems : serial[x] = Self /\ terminalId[x] = u
    BY <2>1, <2>2 DEF ProgramsInv, TerminalsInv
  <2>4. x = currentProgram
    BY <1>3, <2>3 DEF ProgramsInv, ItemsInv
  <2> QED BY <2>2, <2>3, <2>4
<1> HIDE DEF t
<1>6. TypesInv'
  <2>1. terminals' \in [Terminals -> Serials \cup {MainTerminal, Null}]
    BY <1>2, <1>4
  <2> QED BY <1>1, <1>2, <2>1 DEF ProgramsInv, TypesInv
<1>7. StackInv'
  BY <1>1, <1>2 DEF ProgramsInv, StackInv, FrameInv, OfItem, CallerInv, InControl, Self
<1>8. TerminalsInv'
  <2>1. terminals'[MainTerminal] = MainTerminal
    BY <1>2, <1>4, <1>5 DEF ProgramsInv, TerminalsInv, MainTerminal, Terminals
  <2>2. \A u \in Terminals \ {0} : terminals'[u] # Null => terminals'[u] = terminals[u]
    BY <1>2, <1>4
  <2> QED BY <1>1, <2>1, <2>2 DEF ProgramsInv, TerminalsInv
<1>9. MainInv'
  BY <1>1, <1>2 DEF ProgramsInv, MainInv, TerminalStarts, TargetRuns
<1>10. PassInv'
  BY <1>1, <1>2 DEF ProgramsInv, PassInv, AtItem, Follows
<1> QED BY <1>1, <1>6, <1>7, <1>8, <1>9, <1>10 DEF ProgramsInv

-----------------------------------------------------------------------------
(* Each call under way is of a program that started after its caller's.    *)
LEMMA FramesOlder ==
  ASSUME ProgramsInv
  PROVE  \A i, j \in 1..Len(stack) : i < j => stack[i].serial < stack[j].serial
<1>1. /\ Len(stack) \in Nat
      /\ \A i \in 1..Len(stack) : stack[i].serial \in Nat
      /\ \A i \in 1..Len(stack) - 1 : stack[i].serial < stack[i + 1].serial
  <2>1. \A i \in 1..Len(stack) : stack[i].serial \in 1..started
    BY DEF ProgramsInv, StackInv, FrameInv
  <2> QED BY <2>1, ProgramsFacts DEF ProgramsInv, StackInv, CallerInv
<1> SUFFICES ASSUME NEW j \in 1..Len(stack)
             PROVE  \A i \in 1..Len(stack) : i < j => stack[i].serial < stack[j].serial
  OBVIOUS
<1> DEFINE D == {d \in 1..j - 1 : ~(stack[j - d].serial < stack[j].serial)}
<1>2. D = {}
  <2> SUFFICES ASSUME D # {} PROVE FALSE
    OBVIOUS
  <2>1. D \subseteq Nat
    OBVIOUS
  <2>2. Min(D) \in D /\ \A d \in D : Min(D) <= d
    BY <2>1, LeastOf
  <2>3. PICK d \in 1..j - 1 : ~(stack[j - d].serial < stack[j].serial)
                              /\ \A e \in 1..j - 1 : e < d => stack[j - e].serial < stack[j].serial
    <3> DEFINE d == Min(D)
    <3>1. d \in 1..j - 1 /\ ~(stack[j - d].serial < stack[j].serial)
      BY <2>2
    <3>2. \A e \in D : d <= e
      BY <2>2
    <3> HIDE DEF d
    <3>3. \A e \in 1..j - 1 : e < d => e \notin D
      <4> HIDE DEF D
      <4> QED BY <1>1, <3>1, <3>2
    <3> QED BY <3>1, <3>3
  <2>4. PICK i \in 1..Len(stack) - 1 : i = j - d
    BY <1>1
  <2>5. i \in 1..Len(stack) /\ i + 1 \in 1..Len(stack)
    BY <1>1
  <2>6. stack[i].serial < stack[i + 1].serial
    BY <1>1
  <2>7. CASE d = 1
    <3>1. i + 1 = j
      BY <1>1, <2>4, <2>7
    <3> QED BY <2>3, <2>4, <2>6, <3>1
  <2>8. CASE d # 1
    <3>1. d - 1 \in 1..j - 1 /\ d - 1 < d /\ j - (d - 1) = i + 1
      BY <1>1, <2>4, <2>8
    <3>2. stack[j - (d - 1)].serial < stack[j].serial
      BY <2>3, <3>1
    <3>3. stack[i + 1].serial < stack[j].serial
      BY <3>1, <3>2
    <3>4. stack[i].serial < stack[j].serial
      BY <1>1, <2>5, <2>6, <3>3
    <3> QED BY <2>3, <2>4, <3>4
  <2> QED BY <2>7, <2>8
<1>3. ASSUME NEW i \in 1..Len(stack), i < j PROVE stack[i].serial < stack[j].serial
  <2>1. PICK d \in 1..j - 1 : i = j - d
    <3>1. j - i \in 1..j - 1 /\ i = j - (j - i)
      BY <1>1, <1>3
    <3> QED BY <3>1
  <2> QED BY <1>2, <2>1
<1> QED BY <1>3

(* cancelWait: the record of the program in control, and it only, is taken *)
(* from the list.                                                          *)
CancelStep(f) ==
  [k \in 0..Len(Items(next, Waiting)) |->
     IF k = 0 THEN next
     ELSE IF done[Items(next, Waiting)[k]] = Self
          THEN removeItem(f[k - 1], Waiting, Items(next, Waiting)[k])
     ELSE f[k - 1]]
CancelLinks == CHOOSE f : f = CancelStep(f)

LEMMA Cancelled ==
  ASSUME ProgramsInv, CancelWait
  PROVE  \E w \in WaitingItems :
           /\ done[w] = Self /\ \A v \in WaitingItems : done[v] = Self => v = w
           /\ next' = removeItem(next, Waiting, w) /\ live' = live \ {w}
<1>1. InControl /\ flag[Self] = "waiting" /\ Self \in Serials
  BY SelfRuns DEF CancelWait
<1>2. PICK w \in WaitingItems : done[w] = Self
  BY <1>1 DEF ProgramsInv, WaitsInv
<1>3. \A v \in WaitingItems : done[v] = Self => v = w
  BY <1>2 DEF ProgramsInv, WaitsInv
<1>4. next' = CancelLinks[Len(Items(next, Waiting))]
  BY DEF CancelWait, CancelLinks, CancelStep
<1>5. live' = live \ {v \in WaitingItems : done[v] = Self}
  BY DEF CancelWait, WaitingItems, On
<1> DEFINE waits == Items(next, Waiting)
<1>6. /\ Len(waits) \in Nat /\ WaitingItems = {waits[k] : k \in 1..Len(waits)}
      /\ \A j, k \in 1..Len(waits) : waits[j] = waits[k] => j = k
  BY ListFacts, ProgramsFacts DEF ProgramsInv, ListsInv, WaitingItems
<1>7. PICK j \in 1..Len(waits) : waits[j] = w
  BY <1>2, <1>6
<1>8. \A k \in 1..Len(waits) : done[waits[k]] = Self <=> k = j
  BY <1>2, <1>3, <1>6, <1>7
<1> DEFINE after == removeItem(next, Waiting, w)
           g == [k \in 0..Len(waits) |-> IF k < j THEN next ELSE after]
<1>9. CancelStep(g) = g
  <2>1. ASSUME NEW k \in 0..Len(waits) PROVE CancelStep(g)[k] = g[k]
    <3>1. CASE k = 0
      <4>1. CancelStep(g)[k] = next
        BY <3>1 DEF CancelStep
      <4>2. k < j
        BY <3>1, <1>7
      <4> HIDE DEF after
      <4> QED BY <4>1, <4>2
    <3>2. CASE k # 0
      <4>1. k \in 1..Len(waits) /\ k - 1 \in 0..Len(waits)
        BY <3>2, <1>6
      <4>2. CancelStep(g)[k] = IF k = j THEN removeItem(g[k - 1], Waiting, waits[k]) ELSE g[k - 1]
        <5> HIDE DEF g
        <5> QED BY <1>8, <3>2, <4>1 DEF CancelStep
      <4>3. g[k - 1] = (IF k - 1 < j THEN next ELSE after) /\ g[k] = (IF k < j THEN next ELSE after)
        <5> HIDE DEF after, waits
        <5> QED BY <4>1
      <4>4. k = j => k - 1 < j /\ ~(k < j)
        BY <4>1
      <4>5. k # j => (k - 1 < j <=> k < j)
        BY <4>1, <1>7
      <4>6. k = j => waits[k] = w
        BY <1>7
      <4> HIDE DEF g, waits
      <4> QED BY <4>2, <4>3, <4>4, <4>5, <4>6 DEF after
    <3> QED BY <3>1, <3>2
  <2>2. CancelStep(g) = [k \in 0..Len(waits) |-> CancelStep(g)[k]]
    <3> HIDE DEF g
    <3> QED BY DEF CancelStep
  <2>3. g = [k \in 0..Len(waits) |-> g[k]]
    <3> HIDE DEF after, waits
    <3> QED OBVIOUS
  <2> HIDE DEF g, waits
  <2> QED BY <2>1, <2>2, <2>3
<1>10. CancelLinks = CancelStep(CancelLinks)
  <2> HIDE DEF g
  <2> QED BY <1>9, Zenon DEF CancelLinks
<1>11. \A k \in 0..Len(waits) : CancelLinks[k] = g[k]
  <2> DEFINE D == {k \in 0..Len(waits) : CancelLinks[k] # g[k]}
  <2> SUFFICES ASSUME D # {} PROVE FALSE
    OBVIOUS
  <2>1. D \subseteq Nat
    BY <1>6
  <2>2. Min(D) \in D /\ \A d \in D : Min(D) <= d
    <3> HIDE DEF D
    <3> QED BY <2>1, LeastOf
  <2>3. PICK k \in 0..Len(waits) : /\ CancelLinks[k] # g[k]
                                   /\ \A i \in 0..Len(waits) : i < k => CancelLinks[i] = g[i]
    <3> DEFINE k == Min(D)
    <3>1. k \in 0..Len(waits) /\ CancelLinks[k] # g[k] /\ \A e \in D : k <= e
      BY <2>2
    <3> HIDE DEF k
    <3>2. \A i \in 0..Len(waits) : i < k => i \notin D
      <4> HIDE DEF D
      <4> QED BY <1>6, <3>1
    <3> HIDE DEF g, waits
    <3> QED BY <3>1, <3>2
  <2>4. CancelLinks[k] = CancelStep(CancelLinks)[k] /\ g[k] = CancelStep(g)[k]
    <3> HIDE DEF g
    <3> QED BY <1>9, <1>10
  <2>5. k # 0 => CancelLinks[k - 1] = g[k - 1]
    <3>1. k # 0 => k - 1 \in 0..Len(waits) /\ k - 1 < k
      BY <1>6
    <3> HIDE DEF g, waits
    <3> QED BY <2>3, <3>1
  <2> HIDE DEF g
  <2>6. CancelStep(CancelLinks)[k] = CancelStep(g)[k]
    BY <2>5 DEF CancelStep
  <2> QED BY <2>3, <2>4, <2>6
<1>12. CancelLinks[Len(waits)] = after
  <2>1. Len(waits) \in 0..Len(waits) /\ ~(Len(waits) < j)
    BY <1>6
  <2>2. g[Len(waits)] = after
    <3> HIDE DEF after, waits
    <3> QED BY <2>1
  <2> HIDE DEF g, after
  <2> QED BY <1>11, <2>1, <2>2
<1>13. live' = live \ {w}
  BY <1>2, <1>3, <1>5
<1> QED BY <1>2, <1>3, <1>4, <1>12, <1>13

LEMMA CancelWaitKeeps == ProgramsInv /\ CancelWait => ProgramsInv'
<1> SUFFICES ASSUME ProgramsInv, CancelWait PROVE ProgramsInv'
  OBVIOUS
<1>1. PICK w \in WaitingItems :
        /\ done[w] = Self /\ \A v \in WaitingItems : done[v] = Self => v = w
        /\ next' = removeItem(next, Waiting, w) /\ live' = live \ {w}
  BY Cancelled
<1>2. /\ InControl /\ flag[Self] = "waiting" /\ flag' = [flag EXCEPT ![Self] = "idle"]
      /\ UNCHANGED <<pid, terminalId, done, serial, terminals, target, currentProgram, stack,
                     phase, program, found, due, updated, typing, terminalPid, terminalTarget,
                     started>>
  BY DEF CancelWait, loopVars, terminalVars
<1>3. /\ AreProgramLists(next) /\ w \in On(next, Waiting) /\ Waiting \in ListVars
      /\ Running \in ListVars /\ Running # Waiting
  BY ProgramsFacts DEF ProgramsInv, ListsInv, WaitingItems
<1>4. /\ AreProgramLists(next') /\ WaitingItems' = WaitingItems \ {w}
      /\ RunningItems' = RunningItems /\ Items(next', Running) = Items(next, Running)
      /\ \A m \in Nodes : m \notin WaitingItems => next'[m] = next[m]
  <2>1. /\ AreProgramLists(removeItem(next, Waiting, w))
        /\ On(removeItem(next, Waiting, w), Waiting) = On(next, Waiting) \ {w}
        /\ Items(removeItem(next, Waiting, w), Running) = Items(next, Running)
        /\ On(removeItem(next, Waiting, w), Running) = On(next, Running)
        /\ \A m \in Nodes : m \notin On(next, Waiting) => removeItem(next, Waiting, w)[m] = next[m]
    BY <1>3, TakenFromLists
  <2> QED BY <1>1, <2>1 DEF WaitingItems, RunningItems
<1>5. /\ Self \in Serials /\ flag \in [Serials -> {"idle", "waiting", "told"}]
      /\ RunningItems \cap WaitingItems = {} /\ live = RunningItems \cup WaitingItems
  BY <1>2, SelfRuns, ProgramsFacts DEF ProgramsInv, TypesInv
<1>6. /\ flag'[Self] = "idle" /\ flag' \in [Serials -> {"idle", "waiting", "told"}]
      /\ \A s \in Serials : s # Self => flag'[s] = flag[s]
  BY <1>2, <1>5
<1>7. TypesInv'
  BY <1>2, <1>6 DEF ProgramsInv, TypesInv
<1>8. ListsInv'
  <2>1. Newest(next', serial')
    BY <1>2, <1>4 DEF ProgramsInv, ListsInv, Newest
  <2>2. live' = RunningItems' \cup WaitingItems'
    BY <1>1, <1>4, <1>5
  <2> QED BY <1>4, <2>1, <2>2 DEF ListsInv
<1>9. ItemsInv' /\ TerminalsInv'
  BY <1>2, <1>4 DEF ProgramsInv, ItemsInv, TerminalsInv
<1>10. StackInv'
  <2>1. \A i \in 1..Len(stack) : FrameInv(stack[i])'
    BY <1>2, <1>4 DEF ProgramsInv, StackInv, FrameInv, OfItem
  <2>2. ASSUME NEW i \in 1..Len(stack) - 1 PROVE CallerInv(stack[i], stack[i + 1])'
    <3>1. CallerInv(stack[i], stack[i + 1])
      BY DEF ProgramsInv, StackInv
    <3>2. stack[i].serial \in Serials
      <4>1. i \in 1..Len(stack)
        BY ProgramsFacts
      <4> QED BY <4>1, ProgramsFacts DEF Frames
    <3>3. flag[stack[i].serial] # "waiting" => flag'[stack[i].serial] # "waiting"
      BY <1>6, <3>2
    <3> QED BY <1>2, <1>4, <3>1, <3>3 DEF CallerInv
  <2> QED BY <1>2, <1>4, <2>1, <2>2 DEF ProgramsInv, StackInv, InControl, Self
<1>11. TargetsInv'
  BY <1>2, <1>6 DEF ProgramsInv, TargetsInv
<1>12. WaitsInv'
  <2>1. ASSUME NEW v \in WaitingItems'
        PROVE  /\ done'[v] \in Serials /\ flag'[done'[v]] = "waiting"
               /\ \E x \in RunningItems' : serial'[x] = target'[done'[v]] /\ pid'[x] = pid'[v]
    <3>1. v \in WaitingItems /\ done[v] # Self
      BY <1>1, <1>4
    <3> QED BY <1>2, <1>4, <1>6, <3>1 DEF ProgramsInv, WaitsInv
  <2>2. \A u, v \in WaitingItems' : done'[u] = done'[v] => u = v
    BY <1>2, <1>4 DEF ProgramsInv, WaitsInv
  <2>3. ASSUME NEW s \in Serials
        PROVE  /\ flag'[s] = "waiting" => /\ \E x \in RunningItems' : serial'[x] = s
                                          /\ \E v \in WaitingItems' : done'[v] = s
               /\ flag'[s] = "told" => \A x \in RunningItems' : serial'[x] # target'[s]
    <3>1. CASE s = Self
      BY <1>6, <3>1
    <3>2. CASE s # Self
      <4>1. flag[s] = "waiting" => /\ \E x \in RunningItems : serial[x] = s
                                   /\ \E v \in WaitingItems : done[v] = s
        BY DEF ProgramsInv, WaitsInv
      <4>2. flag[s] = "told" => \A x \in RunningItems : serial[x] # target[s]
        BY DEF ProgramsInv, WaitsInv
      <4> QED BY <1>1, <1>2, <1>4, <1>6, <3>2, <4>1, <4>2
    <3> QED BY <3>1, <3>2
  <2> QED BY <2>1, <2>2, <2>3 DEF WaitsInv
<1>13. MainInv'
  BY <1>2, <1>4 DEF ProgramsInv, MainInv, TerminalStarts, TargetRuns
<1>14. PassInv'
  <2>1. CASE phase # "updates"
    BY <1>2, <2>1 DEF ProgramsInv, PassInv
  <2>2. CASE phase = "updates" /\ program = Running
    BY <1>2, <1>4, <2>2 DEF ProgramsInv, PassInv
  <2>3. CASE phase = "updates" /\ program # Running
    <3>1. program \in Nodes /\ AtItem /\ due \subseteq 1..started
      BY <2>3 DEF ProgramsInv, PassInv
    <3>2. program \in live \/ (Follows(program) /\ next'[program] = next[program])
      BY <1>4, <1>5, <3>1 DEF AtItem
    <3>3. AtItem'
      <4>1. \/ program \in RunningItems
            \/ /\ program \notin live
               /\ Len(stack) = 0 \/ (Len(stack) = 1 /\ stack[1].quitted)
               /\ Follows(program)
        BY <3>1 DEF AtItem
      <4>2. \/ program' \in RunningItems'
            \/ /\ program' \notin live'
               /\ Len(stack') = 0 \/ (Len(stack') = 1 /\ stack'[1].quitted)
               /\ Follows(program)'
        <5>1. CASE program \in RunningItems
          BY <1>2, <1>4, <5>1
        <5>2. CASE program \notin RunningItems
          BY <1>1, <1>2, <1>4, <3>2, <4>1, <5>2 DEF Follows
        <5> QED BY <5>1, <5>2
      <4> QED BY <1>2, <1>4, <3>1, <4>2 DEF AtItem
    <3> QED BY <1>2, <2>3, <3>1, <3>3 DEF PassInv
  <2> QED BY <2>1, <2>2, <2>3
<1> QED BY <1>7, <1>8, <1>9, <1>10, <1>11, <1>12, <1>13, <1>14 DEF ProgramsInv

-----------------------------------------------------------------------------
(* quit: the program's item leaves its list, and the one record that has   *)
(* its pid, if there is one, the other.                                    *)
LEMMA QuitEffect ==
  ASSUME ProgramsInv, Quit
  PROVE  /\ AreProgramLists(next') /\ Newest(next', serial)
         /\ RunningItems' = RunningItems \ {currentProgram}
         /\ live' = RunningItems' \cup WaitingItems'
         /\ \A m \in Nodes : m = currentProgram \/ m \notin live => next'[m] = next[m]
         /\ \/ /\ WaitingItems' = WaitingItems /\ flag' = flag
               /\ \A v \in WaitingItems : pid[v] # pid[currentProgram]
            \/ \E w \in WaitingItems :
                 /\ WaitingItems' = WaitingItems \ {w} /\ pid[w] = pid[currentProgram]
                 /\ flag' = [flag EXCEPT ![done[w]] = "told"]
                 /\ \A v \in WaitingItems : pid[v] = pid[currentProgram] => v = w
<1>1. InControl
  BY DEF Quit
<1> DEFINE c == currentProgram
           waits == Items(next, Waiting)
           awaiters == Awaiters(pid[c])
           left == removeItem(next, Running, c)
           w == waits[Min(awaiters)]
<1>2. /\ c \in RunningItems /\ c \in Nodes /\ Running \in ListVars /\ Waiting \in ListVars
      /\ Running # Waiting /\ RunningItems \cap WaitingItems = {}
      /\ live = RunningItems \cup WaitingItems /\ AreProgramLists(next) /\ Newest(next, serial)
      /\ WaitingItems \subseteq Nodes
  BY <1>1, SelfRuns, ProgramsFacts DEF ProgramsInv, ListsInv
<1>3. PICK k \in 1..Len(Items(next, Running)) :
        /\ AreProgramLists(left)
        /\ Items(left, Running) = RemoveAt(Items(next, Running), k)
        /\ On(left, Running) = RunningItems \ {c}
        /\ Items(left, Waiting) = waits /\ On(left, Waiting) = WaitingItems
        /\ \A m \in Nodes : m = c \/ m \notin RunningItems => left[m] = next[m]
  BY <1>2, TakenFromLists DEF RunningItems, WaitingItems
<1> HIDE DEF left
<1>4. Newest(left, serial)
  BY <1>2, <1>3, NewestTaken
<1>5. CASE awaiters = {}
  <2>1. next' = left /\ live' = live \ {c} /\ flag' = flag
    BY <1>5 DEF Quit, left
  <2>2. RunningItems' = RunningItems \ {c} /\ WaitingItems' = WaitingItems
    BY <1>3, <2>1 DEF RunningItems, WaitingItems
  <2>3. \A v \in WaitingItems : pid[v] # pid[c]
    <3>1. WaitingItems = {waits[j] : j \in 1..Len(waits)}
      BY <1>2, ListFacts DEF WaitingItems
    <3> QED BY <1>5, <3>1 DEF Awaiters
  <2>4. live' = RunningItems' \cup WaitingItems'
    BY <1>2, <2>1, <2>2
  <2> QED BY <1>2, <1>3, <1>4, <2>1, <2>2, <2>3, <2>4
<1>6. CASE awaiters # {}
  <2>1. next' = removeItem(left, Waiting, w) /\ live' = live \ {c, w}
        /\ flag' = [flag EXCEPT ![done[w]] = "told"]
    BY <1>6 DEF Quit, left
  <2>2. w \in WaitingItems /\ pid[w] = pid[c]
    <3>1. /\ WaitingItems = {waits[j] : j \in 1..Len(waits)} /\ Len(waits) \in Nat
      BY <1>2, ListFacts DEF WaitingItems
    <3>2. awaiters = {j \in 1..Len(waits) : pid[waits[j]] = pid[c]}
      BY DEF Awaiters
    <3> HIDE DEF awaiters
    <3>3. awaiters \subseteq Nat
      BY <3>1, <3>2
    <3>4. Min(awaiters) \in awaiters
      BY <1>6, <3>3, LeastOf
    <3> QED BY <3>1, <3>2, <3>4
  <2> HIDE DEF w
  <2>3. /\ AreProgramLists(next') /\ WaitingItems' = WaitingItems \ {w}
        /\ Items(next', Running) = Items(left, Running)
        /\ RunningItems' = RunningItems \ {c}
        /\ \A m \in Nodes : m \notin WaitingItems => next'[m] = left[m]
    <3>1. w \in On(left, Waiting)
      BY <1>3, <2>2
    <3>2. /\ AreProgramLists(removeItem(left, Waiting, w))
          /\ On(removeItem(left, Waiting, w), Waiting) = On(left, Waiting) \ {w}
          /\ Items(removeItem(left, Waiting, w), Running) = Items(left, Running)
          /\ On(removeItem(left, Waiting, w), Running) = On(left, Running)
          /\ \A m \in Nodes : m \notin On(left, Waiting) => removeItem(left, Waiting, w)[m] = left[m]
      BY <1>2, <1>3, <3>1, TakenFromLists
    <3> QED BY <1>3, <2>1, <3>2 DEF RunningItems, WaitingItems
  <2>4. Newest(next', serial)
    BY <1>4, <2>3 DEF Newest
  <2>5. live' = RunningItems' \cup WaitingItems'
    BY <1>2, <2>1, <2>2, <2>3
  <2>6. \A m \in Nodes : m = c \/ m \notin live => next'[m] = next[m]
    BY <1>2, <1>3, <2>3
  <2>7. ASSUME NEW v \in WaitingItems, pid[v] = pid[c] PROVE v = w
    <3>1. /\ done[v] \in Serials /\ done[w] \in Serials
      BY <2>2 DEF ProgramsInv, WaitsInv
    <3>2. PICK x \in RunningItems : serial[x] = target[done[v]] /\ pid[x] = pid[v]
      BY DEF ProgramsInv, WaitsInv
    <3>3. PICK y \in RunningItems : serial[y] = target[done[w]] /\ pid[y] = pid[w]
      BY <2>2 DEF ProgramsInv, WaitsInv
    <3>4. x = c /\ y = c
      BY <1>2, <2>2, <2>7, <3>2, <3>3 DEF ProgramsInv, ItemsInv
    <3>5. serial[c] \in 1..started
      BY <1>2 DEF ProgramsInv, ItemsInv
    <3>6. target[done[v]] = target[done[w]] /\ target[done[v]] # 0
      BY <3>2, <3>3, <3>4, <3>5
    <3>7. done[v] = done[w]
      BY <3>1, <3>6 DEF ProgramsInv, TargetsInv
    <3> QED BY <2>2, <3>7 DEF ProgramsInv, WaitsInv
  <2> HIDE DEF awaiters, waits
  <2> QED BY <2>1, <2>2, <2>3, <2>4, <2>5, <2>6, <2>7
<1> QED BY <1>5, <1>6

LEMMA QuitKeeps == ProgramsInv /\ Quit => ProgramsInv'
<1> SUFFICES ASSUME ProgramsInv, Quit PROVE ProgramsInv'
  OBVIOUS
<1> DEFINE c == currentProgram
<1>1. /\ AreProgramLists(next') /\ Newest(next', serial)
      /\ RunningItems' = RunningItems \ {c}
      /\ live' = RunningItems' \cup WaitingItems'
      /\ \A m \in Nodes : m = c \/ m \notin live => next'[m] = next[m]
  BY QuitEffect
<1>2. /\ InControl /\ flag[Self] # "waiting" /\ Owned(Self) = {}
      /\ stack' = [stack EXCEPT ![Len(stack)].quitted = TRUE]
      /\ UNCHANGED <<pid, terminalId, done, serial, terminals, target, currentProgram,
                     phase, program, found, due, updated, typing, terminalPid, terminalTarget,
                     started>>
  BY DEF Quit, loopVars, terminalVars
<1>3. /\ c \in RunningItems /\ serial[c] = Self
      /\ Self \in Serials /\ Self \in 1..started /\ Self \in Nat
      /\ Len(stack) \in Nat /\ Len(stack) > 0 /\ Last(stack) = stack[Len(stack)]
      /\ ~stack[Len(stack)].quitted /\ stack[Len(stack)].serial = Self
  BY <1>2, SelfRuns
<1>4. /\ c \in Nodes /\ RunningItems \subseteq live /\ RunningItems \cap WaitingItems = {}
      /\ live = RunningItems \cup WaitingItems
      /\ \A x \in RunningItems : serial[x] \in Nat
  BY <1>3, ProgramsFacts
<1>5. \A x \in RunningItems : (serial[x] = Self => x = c) /\ (pid[x] = pid[c] => x = c)
  BY <1>3 DEF ProgramsInv, ItemsInv
(* Who is told, and who still waits. *)
<1>6. /\ WaitingItems' \subseteq WaitingItems
      /\ \A v \in WaitingItems' : pid[v] # pid[c] /\ flag'[done[v]] = "waiting"
      /\ flag' \in [Serials -> {"idle", "waiting", "told"}]
      /\ \A s \in Serials :
           \/ flag'[s] = flag[s] /\ \A v \in WaitingItems : done[v] = s => v \in WaitingItems'
           \/ flag'[s] = "told" /\ flag[s] = "waiting" /\ target[s] = Self
  <2>1. /\ flag \in [Serials -> {"idle", "waiting", "told"}]
        /\ \A v \in WaitingItems : done[v] \in Serials /\ flag[done[v]] = "waiting"
        /\ \A u, v \in WaitingItems : done[u] = done[v] => u = v
    BY DEF ProgramsInv, TypesInv, WaitsInv
  <2>2. CASE /\ WaitingItems' = WaitingItems /\ flag' = flag
             /\ \A v \in WaitingItems : pid[v] # pid[c]
    BY <2>1, <2>2
  <2>3. ASSUME NEW w \in WaitingItems,
               WaitingItems' = WaitingItems \ {w}, pid[w] = pid[c],
               flag' = [flag EXCEPT ![done[w]] = "told"],
               \A v \in WaitingItems : pid[v] = pid[c] => v = w
        PROVE  /\ WaitingItems' \subseteq WaitingItems
               /\ \A v \in WaitingItems' : pid[v] # pid[c] /\ flag'[done[v]] = "waiting"
               /\ flag' \in [Serials -> {"idle", "waiting", "told"}]
               /\ \A s \in Serials :
                    \/ flag'[s] = flag[s] /\ \A v \in WaitingItems : done[v] = s => v \in WaitingItems'
                    \/ flag'[s] = "told" /\ flag[s] = "waiting" /\ target[s] = Self
    <3>1. flag' \in [Serials -> {"idle", "waiting", "told"}]
      BY <2>1, <2>3
    <3>2. /\ flag'[done[w]] = "told"
          /\ \A s \in Serials : s # done[w] => flag'[s] = flag[s]
      BY <2>1, <2>3
    <3>3. target[done[w]] = Self
      <4>1. PICK x \in RunningItems : serial[x] = target[done[w]] /\ pid[x] = pid[w]
        BY DEF ProgramsInv, WaitsInv
      <4> QED BY <1>3, <1>5, <2>3, <4>1
    <3>4. \A v \in WaitingItems' : pid[v] # pid[c] /\ flag'[done[v]] = "waiting"
      BY <2>1, <2>3, <3>2
    <3>5. \A s \in Serials :
           \/ flag'[s] = flag[s] /\ \A v \in WaitingItems : done[v] = s => v \in WaitingItems'
           \/ flag'[s] = "told" /\ flag[s] = "waiting" /\ target[s] = Self
      <4> SUFFICES ASSUME NEW s \in Serials
                   PROVE  \/ flag'[s] = flag[s]
                             /\ \A v \in WaitingItems : done[v] = s => v \in WaitingItems'
                          \/ flag'[s] = "told" /\ flag[s] = "waiting" /\ target[s] = Self
        OBVIOUS
      <4>1. CASE s = done[w]
        BY <2>1, <3>2, <3>3, <4>1
      <4>2. CASE s # done[w]
        BY <2>3, <3>2, <4>2
      <4> QED BY <4>1, <4>2
    <3>6. WaitingItems' \subseteq WaitingItems
      BY <2>3
    <3> QED BY <3>1, <3>4, <3>5, <3>6
  <2> QED BY <2>2, <2>3, QuitEffect
(* The frame of the program that quits. *)
<1>7. /\ stack' \in Seq(Frames) /\ Len(stack') = Len(stack) /\ stack' # <<>>
      /\ \A i \in 1..Len(stack) :
           /\ stack'[i].serial = stack[i].serial /\ stack'[i].pid = stack[i].pid
           /\ stack'[i].then = stack[i].then /\ stack'[i].old = stack[i].old
           /\ i # Len(stack) => stack'[i].quitted = stack[i].quitted
           /\ i = Len(stack) => stack'[i].quitted
      /\ Last(stack') = stack'[Len(stack)]
  <2>1. stack \in Seq(Frames) /\ DOMAIN stack = 1..Len(stack)
    BY DEF ProgramsInv, TypesInv
  <2>2. \A i \in 1..Len(stack) : stack[i] \in Frames
    BY ProgramsFacts
  <2> DEFINE f == [stack[Len(stack)] EXCEPT !.quitted = TRUE]
  <2>3. /\ f \in Frames /\ f.serial = stack[Len(stack)].serial /\ f.pid = stack[Len(stack)].pid
        /\ f.then = stack[Len(stack)].then /\ f.old = stack[Len(stack)].old /\ f.quitted
    <3>1. stack[Len(stack)] \in Frames
      BY <1>3, <2>2
    <3> QED BY <3>1 DEF Frames
  <2>4. stack' = [stack EXCEPT ![Len(stack)] = f]
    BY <1>2
  <2> HIDE DEF f
  <2>5. stack' = [i \in 1..Len(stack) |-> IF i = Len(stack) THEN f ELSE stack[i]]
    BY <2>1, <2>4
  <2>6. \A i \in 1..Len(stack) : stack'[i] = IF i = Len(stack) THEN f ELSE stack[i]
    BY <2>5
  <2>7. stack' \in Seq(Frames) /\ Len(stack') = Len(stack)
    <3>1. stack' \in [1..Len(stack) -> Frames]
      BY <2>2, <2>3, <2>5
    <3> QED BY <1>3, <3>1
  <2>8. stack' # <<>>
    BY <1>3, <2>7, EmptySeq
  <2> QED BY <2>3, <2>6, <2>7, <2>8 DEF Last
<1>8. TypesInv'
  BY <1>2, <1>6, <1>7 DEF ProgramsInv, TypesInv
<1>9. ListsInv'
  BY <1>1, <1>2 DEF ListsInv
<1>10. ItemsInv'
  BY <1>1, <1>2 DEF ProgramsInv, ItemsInv
<1>11. StackInv'
  <2>1. \A i \in 1..Len(stack) : ~stack[i].quitted
    BY <1>2, NoneQuitted
  <2>2. ASSUME NEW i \in 1..Len(stack) PROVE FrameInv(stack[i])'
    <3>1. /\ stack[i].serial \in 1..started
          /\ \E x \in RunningItems : OfItem(stack[i], x)
          /\ stack[i].then # "update" => \A s \in Serials : target[s] # stack[i].serial
      BY <2>1 DEF ProgramsInv, StackInv, FrameInv
    <3>2. PICK x \in RunningItems :
            serial[x] = stack[i].serial /\ (stack[i].then # "update" => pid[x] = stack[i].pid)
      BY <3>1 DEF OfItem
    <3>3. CASE i = Len(stack)
      <4>1. x = c
        BY <1>3, <1>5, <3>2, <3>3
      <4>2. \A y \in RunningItems' : serial[y] # stack[i].serial
                                  /\ (stack[i].then # "update" => pid[y] # stack[i].pid)
        BY <1>1, <1>3, <1>5, <3>2, <4>1
      <4> QED BY <1>2, <1>7, <3>1, <3>3, <4>2 DEF FrameInv
    <3>4. CASE i # Len(stack)
      <4>1. stack[i].serial < Self
        <5>1. i < Len(stack) /\ Len(stack) \in 1..Len(stack)
          BY <1>3, <3>4
        <5> QED BY <1>3, <5>1, FramesOlder
      <4>2. x # c
        BY <1>3, <1>4, <3>2, <4>1
      <4>3. x \in RunningItems' /\ ~stack'[i].quitted
        BY <1>1, <1>7, <2>1, <3>4, <4>2
      <4> QED BY <1>2, <1>7, <3>1, <3>2, <4>3 DEF FrameInv, OfItem
    <3> QED BY <3>3, <3>4
  <2>3. ASSUME NEW i \in 1..Len(stack) - 1 PROVE CallerInv(stack[i], stack[i + 1])'
    <3>1. PICK j \in 1..Len(stack) : j = i + 1 /\ i \in 1..Len(stack) /\ i # Len(stack)
      BY <1>3
    <3>2. CallerInv(stack[i], stack[j])
      BY <3>1 DEF ProgramsInv, StackInv
    <3>3. stack[j].old # c
      <4>1. stack[i].serial < Self
        <5>1. i < Len(stack) /\ Len(stack) \in 1..Len(stack)
          BY <1>3
        <5> QED BY <1>3, <3>1, <5>1, FramesOlder
      <4>2. serial[stack[j].old] = stack[i].serial /\ serial[stack[j].old] \in Nat
        BY <1>4, <3>2 DEF CallerInv
      <4> QED BY <1>3, <4>1, <4>2
    <3>4. stack[i].serial \in Serials
      BY <3>1, ProgramsFacts DEF Frames
    <3>5. flag[stack[i].serial] # "waiting" => flag'[stack[i].serial] # "waiting"
      BY <1>6, <3>4
    <3>6. /\ stack'[i].serial = stack[i].serial /\ stack'[i].quitted = stack[i].quitted
          /\ stack'[j].serial = stack[j].serial /\ stack'[j].then = stack[j].then
          /\ stack'[j].old = stack[j].old
      BY <1>7, <3>1
    <3>7. CallerInv(stack[i], stack[j])'
      BY <1>1, <1>2, <3>2, <3>3, <3>5, <3>6 DEF CallerInv
    <3> QED BY <3>1, <3>7
  <2>4. /\ stack'[1].old = Null /\ stack'[1].then # "wait"
        /\ stack'[1].then = "update" <=> phase' = "updates"
        /\ stack'[1].then = "terminal" => phase' = "terminal"
    <3>1. 1 \in 1..Len(stack)
      BY <1>3
    <3> QED BY <1>2, <1>3, <1>7, <3>1 DEF ProgramsInv, StackInv
  <2>5. ~InControl'
    <3>1. Len(stack) \in 1..Len(stack)
      BY <1>3
    <3> QED BY <1>7, <3>1 DEF InControl
  <2>6. /\ \A i \in 1..Len(stack') : FrameInv(stack[i])'
        /\ \A i \in 1..Len(stack') - 1 : CallerInv(stack[i], stack[i + 1])'
    BY <1>7, <2>2, <2>3
  <2>7. stack' # <<>>
    BY <1>7
  <2> QED BY Zenon, <2>4, <2>5, <2>6, <2>7 DEF StackInv
<1>12. TargetsInv'
  <2>1. \A s \in Serials : s > started => flag'[s] = "idle"
    <3> SUFFICES ASSUME NEW s \in Serials, s > started PROVE flag'[s] = "idle"
      OBVIOUS
    <3>1. flag[s] = "idle"
      BY DEF ProgramsInv, TargetsInv
    <3> QED BY <1>6, <3>1
  <2> QED BY <1>2, <2>1 DEF ProgramsInv, TargetsInv
<1>13. WaitsInv'
  <2>1. ASSUME NEW v \in WaitingItems'
        PROVE  /\ done'[v] \in Serials /\ flag'[done'[v]] = "waiting"
               /\ \E x \in RunningItems' : serial'[x] = target'[done'[v]] /\ pid'[x] = pid'[v]
    <3>1. v \in WaitingItems /\ pid[v] # pid[c] /\ flag'[done[v]] = "waiting"
      BY <1>6
    <3>2. done[v] \in Serials /\ \E x \in RunningItems : serial[x] = target[done[v]] /\ pid[x] = pid[v]
      BY <3>1 DEF ProgramsInv, WaitsInv
    <3> QED BY <1>1, <1>2, <3>1, <3>2
  <2>2. \A u, v \in WaitingItems' : done'[u] = done'[v] => u = v
    BY <1>2, <1>6 DEF ProgramsInv, WaitsInv
  <2>3. ASSUME NEW s \in Serials
        PROVE  /\ flag'[s] = "waiting" => /\ \E x \in RunningItems' : serial'[x] = s
                                          /\ \E v \in WaitingItems' : done'[v] = s
               /\ flag'[s] = "told" => \A x \in RunningItems' : serial'[x] # target'[s]
    <3>1. flag[s] = "waiting" => /\ \E x \in RunningItems : serial[x] = s
                                 /\ \E v \in WaitingItems : done[v] = s
      BY DEF ProgramsInv, WaitsInv
    <3>2. flag[s] = "told" => \A x \in RunningItems : serial[x] # target[s]
      BY DEF ProgramsInv, WaitsInv
    <3>3. CASE flag'[s] = flag[s] /\ \A v \in WaitingItems : done[v] = s => v \in WaitingItems'
      <4>1. flag'[s] = "waiting" => s # Self
        BY <1>2, <3>3
      <4> QED BY <1>1, <1>2, <1>3, <3>1, <3>2, <3>3, <4>1
    <3>4. CASE flag'[s] = "told" /\ flag[s] = "waiting" /\ target[s] = Self
      BY <1>1, <1>2, <1>5, <3>4
    <3> QED BY <1>6, <3>3, <3>4
  <2> QED BY <2>1, <2>2, <2>3 DEF WaitsInv
<1>14. TerminalsInv'
  <2>1. ASSUME NEW t \in Terminals \ {0}, terminals[t] # Null
        PROVE  \E x \in RunningItems' : serial[x] = terminals[t] /\ terminalId[x] = t
    <3>1. PICK x \in RunningItems : serial[x] = terminals[t] /\ terminalId[x] = t
      BY <2>1 DEF ProgramsInv, TerminalsInv
    <3>2. x # c
      BY <1>2, <1>3, <3>1 DEF Owned
    <3> QED BY <1>1, <3>1, <3>2
  <2> QED BY <1>2, <2>1 DEF ProgramsInv, TerminalsInv
<1>15. MainInv'
  <2>1. TerminalStarts' <=> TerminalStarts
    <3>1. 1 \in 1..Len(stack)
      BY <1>3
    <3> QED BY <1>7, <3>1 DEF TerminalStarts
  <2>2. TerminalStarts => stack'[1].serial = stack[1].serial
    <3>1. 1 \in 1..Len(stack)
      BY <1>3
    <3> QED BY <1>7, <3>1
  <2>3. TargetRuns' => TargetRuns
    BY <1>1, <1>2 DEF TargetRuns
  <2> QED BY <1>1, <1>2, <2>1, <2>2, <2>3 DEF ProgramsInv, MainInv
<1>16. PassInv'
  <2>1. CASE phase # "updates"
    BY <1>2, <2>1 DEF ProgramsInv, PassInv
  <2>2. CASE phase = "updates"
    <3>1. program # Running
      BY <1>3, <2>2, ProgramsFacts DEF ProgramsInv, PassInv
    <3>2. program \in Nodes /\ AtItem /\ due \subseteq 1..started
      BY <2>2, <3>1 DEF ProgramsInv, PassInv
    <3>3. program \in RunningItems /\ stack[1].serial = serial[program]
      <4>1. ~(Len(stack) = 1 /\ stack[1].quitted)
        BY <1>3
      <4> QED BY <1>3, <3>2, <4>1 DEF AtItem
    <3>4. /\ serial[program] <= Self /\ (program = c => Len(stack) = 1)
      <4>1. CASE Len(stack) = 1
        BY <1>3, <3>3, <4>1
      <4>2. CASE Len(stack) # 1
        <5>1. 1 \in 1..Len(stack) /\ Len(stack) \in 1..Len(stack) /\ 1 < Len(stack)
          BY <1>3, <4>2
        <5>2. serial[program] < Self
          BY <1>3, <3>3, <5>1, FramesOlder
        <5> QED BY <1>3, <1>4, <3>3, <5>2
      <4> QED BY <4>1, <4>2
    <3>5. AtItem'
      <4>1. \A s \in due : s < serial[program] => \E x \in RunningItems' : serial[x] = s
        <5> SUFFICES ASSUME NEW s \in due, s < serial[program]
                     PROVE  \E x \in RunningItems' : serial[x] = s
          OBVIOUS
        <5>1. PICK x \in RunningItems : serial[x] = s
          BY <3>2 DEF AtItem
        <5>2. x # c
          BY <1>3, <1>4, <3>3, <3>4, <5>1
        <5> QED BY <1>1, <5>1, <5>2
      <4>2. \/ program' \in RunningItems'
            \/ /\ program' \notin live'
               /\ Len(stack') = 0 \/ (Len(stack') = 1 /\ stack'[1].quitted)
               /\ Follows(program)'
        <5>1. CASE program # c
          BY <1>1, <1>2, <3>3, <5>1
        <5>2. CASE program = c
          <6>1. program \notin live'
            BY <1>1, <1>4, <1>6, <3>3, <5>2
          <6>2. Len(stack') = 1 /\ stack'[1].quitted
            <7>1. 1 \in 1..Len(stack) /\ Len(stack) = 1
              BY <1>3, <3>4, <5>2
            <7> QED BY <1>7, <7>1
          <6>3. Follows(c)
            <7>1. AreProgramLists(next) /\ Newest(next, serial)
              BY DEF ProgramsInv, ListsInv
            <7> QED BY Zenon, <1>3, <1>4, <7>1, ItemFollows
          <6>4. next'[program] = next[program] /\ program' = program /\ serial' = serial
            BY <1>1, <1>2, <3>2, <5>2
          <6>5. Follows(program)'
            <7>1. next[c] # Null => next[c] # c
              BY <1>4, <6>3, <1>3 DEF Follows
            <7> QED BY <1>1, <5>2, <6>3, <6>4, <7>1 DEF Follows
          <6> QED BY <1>2, <6>1, <6>2, <6>5
        <5> QED BY <5>1, <5>2
      <4>3. Len(stack') > 0 => stack'[1].serial = serial[program]
        <5>1. 1 \in 1..Len(stack)
          BY <1>3
        <5> QED BY <1>7, <3>3, <5>1
      <4>4. \A x \in RunningItems' : x \in RunningItems
        BY <1>1
      <4> HIDE DEF c
      <4> QED BY <1>2, <3>2, <4>1, <4>2, <4>3, <4>4 DEF AtItem
    <3> QED BY <1>2, <2>2, <3>1, <3>2, <3>5 DEF PassInv
  <2> QED BY <2>1, <2>2
<1> QED BY <1>8, <1>9, <1>10, <1>11, <1>12, <1>13, <1>14, <1>15, <1>16 DEF ProgramsInv

-----------------------------------------------------------------------------
(* start() returns.                                                        *)

(* What is left of the invariant's parts about calls, lists and the pass   *)
(* when nothing but the last call goes.                                    *)
LEMMA ReturnFacts ==
  ASSUME ProgramsInv, StartReturns
  PROVE  /\ Len(stack) \in Nat /\ Len(stack) > 0 /\ Len(stack) \in 1..Len(stack)
         /\ Last(stack) = stack[Len(stack)] /\ Last(stack) \in Frames
         /\ stack' \in Seq(Frames) /\ Len(stack') = Len(stack) - 1
         /\ \A i \in 1..Len(stack) - 1 : stack'[i] = stack[i] /\ i \in 1..Len(stack)
         /\ stack' = <<>> <=> Len(stack) = 1
         /\ Len(stack) = 1 => phase # "updates" /\ Last(stack).then # "wait"
                              /\ Last(stack).old = Null
         /\ Len(stack) # 1 =>
              /\ CallerInv(stack[Len(stack) - 1], Last(stack))
              /\ Len(stack) - 1 \in 1..Len(stack) /\ Last(stack').serial = stack[Len(stack) - 1].serial
              /\ Last(Front(stack)).serial = stack[Len(stack) - 1].serial
         /\ FrameInv(Last(stack)) /\ Last(stack).then # "update"
         /\ currentProgram' = Last(stack).old
         /\ UNCHANGED <<terminalId, serial, terminals, phase, program, found, due, updated, typing,
                        terminalTarget, started>>
         /\ \A i \in 1..Len(stack) - 1 : stack[i].serial < Last(stack).serial
<1>1. /\ stack # <<>> /\ Last(stack).then # "update" /\ stack' = Front(stack)
      /\ currentProgram' = Last(stack).old
      /\ UNCHANGED <<terminalId, serial, terminals, phase, program, found, due, updated, typing,
                     terminalTarget, started>>
  BY DEF StartReturns, Restored, loopVars
<1>2. /\ Len(stack) \in Nat /\ Len(stack) > 0 /\ Last(stack) = stack[Len(stack)]
      /\ Last(stack) \in Frames
      /\ stack' \in Seq(Frames) /\ Len(stack') = Len(stack) - 1
      /\ \A i \in 1..Len(stack) - 1 : stack'[i] = stack[i]
  BY <1>1, LastFrame DEF ProgramsInv, TypesInv
<1>3. /\ Len(stack) \in 1..Len(stack) /\ \A i \in 1..Len(stack) - 1 : i \in 1..Len(stack) /\ i < Len(stack)
  BY <1>2
<1>4. stack' = <<>> <=> Len(stack) = 1
  BY <1>2, EmptySeq
<1>5. Len(stack) = 1 => phase # "updates" /\ Last(stack).then # "wait" /\ Last(stack).old = Null
  BY <1>1, <1>2 DEF ProgramsInv, StackInv
<1>6. ASSUME Len(stack) # 1
      PROVE  /\ CallerInv(stack[Len(stack) - 1], Last(stack))
             /\ Len(stack) - 1 \in 1..Len(stack)
             /\ Last(stack').serial = stack[Len(stack) - 1].serial
             /\ Last(Front(stack)).serial = stack[Len(stack) - 1].serial
  <2>1. PICK i \in 1..Len(stack) - 1 : i = Len(stack) - 1 /\ i + 1 = Len(stack)
    <3>1. Len(stack) - 1 \in 1..Len(stack) - 1 /\ Len(stack) - 1 + 1 = Len(stack)
      BY <1>2, <1>6
    <3> QED BY <3>1
  <2>2. CallerInv(stack[i], stack[i + 1])
    BY DEF ProgramsInv, StackInv
  <2>3. stack'[i] = stack[i] /\ i \in 1..Len(stack)
    BY <1>2, <1>3
  <2>4. Last(stack') = stack'[i] /\ Last(Front(stack)) = stack'[i]
    BY <1>1, <1>2, <2>1 DEF Last
  <2> QED BY <1>2, <2>1, <2>2, <2>3, <2>4
<1>7. FrameInv(Last(stack))
  BY <1>2, <1>3 DEF ProgramsInv, StackInv
<1>8. \A i \in 1..Len(stack) - 1 : stack[i].serial < Last(stack).serial
  BY <1>2, <1>3, FramesOlder
<1> QED
  BY Zenon, <1>1, <1>2, <1>3, <1>4, <1>5, <1>6, <1>7, <1>8

(* The record of a caller that waits for the program it started, or the    *)
(* news that this one has quit.                                            *)
LEMMA WaitEffect ==
  ASSUME ProgramsInv, StartReturns, Last(stack).then = "wait",
         NEW s \in Serials, s = stack[Len(stack) - 1].serial
  PROVE  /\ target' = [target EXCEPT ![s] = Last(stack).serial]
         /\ terminalPid' = terminalPid
         /\ \/ \E w \in Nodes :
                 /\ w \notin RunningItems /\ w \notin WaitingItems
                 /\ AreProgramLists(next') /\ Items(next', Running) = Items(next, Running)
                 /\ RunningItems' = RunningItems /\ WaitingItems' = WaitingItems \cup {w}
                 /\ live' = live \cup {w}
                 /\ pid' = [pid EXCEPT ![w] = Last(stack).pid]
                 /\ done' = [done EXCEPT ![w] = s]
                 /\ flag' = [flag EXCEPT ![s] = "waiting"]
                 /\ \E x \in RunningItems : pid[x] = Last(stack).pid /\ serial[x] = Last(stack).serial
            \/ /\ UNCHANGED <<next, live, pid, done>>
               /\ flag' = [flag EXCEPT ![s] = "told"]
               /\ \A x \in RunningItems : serial[x] # Last(stack).serial
<1> DEFINE p == Last(stack).pid
           f == Last(stack)
<1>1. /\ Len(stack) # 1 /\ Last(Front(stack)).serial = s /\ FrameInv(f)
  BY ReturnFacts
<1>2. /\ waitForProgram(s, p, f.serial) /\ terminalPid' = terminalPid
  BY <1>1 DEF StartReturns
<1>3. target' = [target EXCEPT ![s] = f.serial]
  BY <1>2 DEF waitForProgram
<1>4. CASE \E x \in RunningItems : pid[x] = p
  <2>1. PICK w \in Nodes \ live :
            /\ next' = addItem(next, Waiting, w)
            /\ live' = live \cup {w}
            /\ pid' = [pid EXCEPT ![w] = p]
            /\ done' = [done EXCEPT ![w] = s]
            /\ flag' = [flag EXCEPT ![s] = "waiting"]
    BY <1>2, <1>4 DEF waitForProgram, RunningItems, On
  <2>2. w \notin RunningItems /\ w \notin WaitingItems
    BY <2>1, ProgramsFacts
  <2>3. \A l \in ListVars : w \notin On(next, l)
    BY <2>2 DEF RunningItems, WaitingItems, ListVars
  <2>4. /\ AreProgramLists(next') /\ Items(next', Running) = Items(next, Running)
        /\ Items(next', Waiting) = Append(Items(next, Waiting), w)
    BY <2>1, <2>3, AddWaitLists DEF ProgramsInv, ListsInv
  <2>5. RunningItems' = RunningItems
    BY <2>4 DEF RunningItems, On
  <2>6. WaitingItems' = WaitingItems \cup {w}
    <3> DEFINE a == Items(next, Waiting)
               b == Items(next', Waiting)
    <3>1. /\ a \in Seq(Nodes) /\ Len(a) \in Nat /\ WaitingItems = {a[k] : k \in 1..Len(a)}
          /\ WaitingItems' = {b[k] : k \in 1..Len(b)}
      BY <2>4, ListFacts, ProgramsFacts DEF WaitingItems, ProgramsInv, ListsInv
    <3>2. b = Append(a, w) /\ w \in Nodes
      BY <2>4
    <3> HIDE DEF a, b
    <3>3. /\ Len(b) = Len(a) + 1 /\ b[Len(a) + 1] = w
          /\ \A k \in 1..Len(a) : b[k] = a[k]
      BY <3>1, <3>2, AppendProperties
    <3>4. \A k \in 1..Len(b) : k \in 1..Len(a) \/ k = Len(a) + 1
      BY <3>1, <3>3
    <3>5. Len(a) + 1 \in 1..Len(b) /\ \A k \in 1..Len(a) : k \in 1..Len(b)
      BY <3>1, <3>3
    <3> QED BY <3>1, <3>3, <3>4, <3>5
  <2>7. \E x \in RunningItems : pid[x] = p /\ serial[x] = f.serial
    <3>1. PICK y \in RunningItems : pid[y] = p
      BY <1>4
    <3>2. ~f.quitted /\ f.then # "update"
      BY <1>1, <3>1 DEF FrameInv
    <3> QED BY <1>1, <3>2 DEF FrameInv, OfItem
  <2> QED BY <1>2, <1>3, <2>1, <2>2, <2>4, <2>5, <2>6, <2>7
<1>5. CASE ~\E x \in RunningItems : pid[x] = p
  <2>1. UNCHANGED <<next, live, pid, done>> /\ flag' = [flag EXCEPT ![s] = "told"]
    BY <1>2, <1>5 DEF waitForProgram, RunningItems, On
  <2>2. f.quitted
    BY <1>1, <1>5 DEF FrameInv, OfItem
  <2>3. \A x \in RunningItems : serial[x] # f.serial
    BY <1>1, <2>2 DEF FrameInv
  <2> QED BY <1>2, <1>3, <2>1, <2>3
<1> QED BY <1>4, <1>5

LEMMA ReturnStack ==
  ASSUME ProgramsInv, StartReturns, RunningItems' = RunningItems,
         \A i \in 1..Len(stack) - 1 : FrameInv(stack[i])',
         \A i \in 1..Len(stack) - 1 - 1 : CallerInv(stack[i], stack[i + 1])'
  PROVE  StackInv'
<1>1. /\ Len(stack) \in Nat /\ Len(stack) > 0 /\ Len(stack') = Len(stack) - 1
      /\ \A i \in 1..Len(stack) - 1 : stack'[i] = stack[i] /\ i \in 1..Len(stack)
      /\ stack' = <<>> <=> Len(stack) = 1
      /\ Len(stack) = 1 => phase # "updates" /\ Last(stack).old = Null
      /\ currentProgram' = Last(stack).old /\ serial' = serial /\ phase' = phase
  BY ReturnFacts
<1>2. /\ \A i \in 1..Len(stack') : FrameInv(stack[i])'
      /\ \A i \in 1..Len(stack') - 1 : CallerInv(stack[i], stack[i + 1])'
  BY <1>1
<1>3. Len(stack') > 0 =>
        /\ stack'[1].old = Null /\ stack'[1].then # "wait"
        /\ stack'[1].then = "update" <=> phase' = "updates"
        /\ stack'[1].then = "terminal" => phase' = "terminal"
  <2> SUFFICES ASSUME Len(stack') > 0
               PROVE  /\ stack'[1].old = Null /\ stack'[1].then # "wait"
                      /\ stack'[1].then = "update" <=> phase' = "updates"
                      /\ stack'[1].then = "terminal" => phase' = "terminal"
    OBVIOUS
  <2>1. 1 \in 1..Len(stack) - 1
    BY <1>1
  <2> QED BY <1>1, <2>1 DEF ProgramsInv, StackInv
<1>4. InControl' => currentProgram' \in RunningItems' /\ serial'[currentProgram'] = Self'
  <2> SUFFICES ASSUME InControl'
               PROVE  currentProgram' \in RunningItems' /\ serial'[currentProgram'] = Self'
    OBVIOUS
  <2>1. Len(stack) # 1
    BY <1>1 DEF InControl
  <2>2. CallerInv(stack[Len(stack) - 1], Last(stack)) /\ Last(stack').serial = stack[Len(stack) - 1].serial
    BY <2>1, ReturnFacts
  <2> QED BY <1>1, <2>2 DEF CallerInv, Self
<1>5. stack' = <<>> /\ phase' # "updates" => currentProgram' = Null
  BY <1>1
<1> QED
  BY Zenon, <1>2, <1>3, <1>4, <1>5 DEF StackInv

LEMMA ReturnPass ==
  ASSUME ProgramsInv, StartReturns, RunningItems' = RunningItems
  PROVE  PassInv'
<1>1. /\ Len(stack) \in Nat /\ Len(stack) > 0 /\ Len(stack') = Len(stack) - 1
      /\ \A i \in 1..Len(stack) - 1 : stack'[i] = stack[i]
      /\ Len(stack) = 1 => phase # "updates"
      /\ UNCHANGED <<serial, phase, program, due, updated, started>>
  BY ReturnFacts
<1>2. CASE phase # "updates"
  BY <1>1, <1>2 DEF ProgramsInv, PassInv
<1>3. CASE phase = "updates"
  <2>1. program # Running
    BY <1>1, <1>3, ProgramsFacts DEF ProgramsInv, PassInv
  <2>2. program \in Nodes /\ AtItem /\ due \subseteq 1..started
    BY <1>3, <2>1 DEF ProgramsInv, PassInv
  <2>3. Len(stack) # 0 /\ Len(stack) # 1 /\ 1 \in 1..Len(stack) - 1
    BY <1>1, <1>3
  <2>4. program \in RunningItems
    BY <2>2, <2>3 DEF AtItem
  <2>5. AtItem'
    BY <1>1, <2>2, <2>3, <2>4 DEF AtItem
  <2> QED BY <1>1, <1>3, <2>1, <2>2, <2>5 DEF PassInv
<1> QED BY <1>2, <1>3

(* When execute's caller does not wait.                                    *)
LEMMA ReturnAlone ==
  ASSUME ProgramsInv, StartReturns, Last(stack).then # "wait"
  PROVE  ProgramsInv'
<1>1. /\ Len(stack) \in Nat /\ Len(stack) > 0 /\ Last(stack) = stack[Len(stack)] /\ Last(stack) \in Frames
      /\ stack' \in Seq(Frames) /\ Len(stack') = Len(stack) - 1
      /\ \A i \in 1..Len(stack) - 1 : stack'[i] = stack[i] /\ i \in 1..Len(stack)
      /\ Len(stack) = 1 => phase # "updates"
      /\ Len(stack) # 1 => CallerInv(stack[Len(stack) - 1], Last(stack))
      /\ FrameInv(Last(stack)) /\ Last(stack).then # "update"
      /\ currentProgram' = Last(stack).old
      /\ UNCHANGED <<terminalId, serial, terminals, phase, program, found, due, updated, typing,
                     terminalTarget, started>>
  BY ReturnFacts
<1>2. /\ UNCHANGED <<next, live, pid, done, flag, target>>
      /\ \/ Last(stack).then = "nothing" /\ terminalPid' = terminalPid
         \/ Last(stack).then = "terminal" /\ terminalPid' = Last(stack).pid
  <2>1. Last(stack).then \in {"nothing", "terminal"}
    BY <1>1 DEF Frames
  <2> QED BY <2>1 DEF StartReturns
<1>3. /\ ListsInv' /\ ItemsInv' /\ TargetsInv' /\ WaitsInv'
      /\ RunningItems' = RunningItems /\ WaitingItems' = WaitingItems
  BY <1>1, <1>2, SameLists DEF itemVars
<1>4. MaxExecs \in Nat /\ Last(stack).pid \in 0..MaxExecs /\ Last(stack).old \in Nodes \cup {Null}
  BY <1>1, ProgramsAssumption DEF Frames
<1>5. TypesInv'
  <2>1. terminalPid' \in 0..None
    BY <1>2, <1>4 DEF ProgramsInv, TypesInv, None
  <2> QED BY <1>1, <1>2, <1>4, <2>1 DEF ProgramsInv, TypesInv
<1>6. StackInv'
  <2>1. ASSUME NEW i \in 1..Len(stack) - 1 PROVE FrameInv(stack[i])'
    <3>1. FrameInv(stack[i])
      BY <1>1 DEF ProgramsInv, StackInv
    <3> QED BY <1>1, <1>2, <1>3, <3>1 DEF FrameInv, OfItem
  <2>2. ASSUME NEW i \in 1..Len(stack) - 1 - 1 PROVE CallerInv(stack[i], stack[i + 1])'
    <3>1. i \in 1..Len(stack) - 1 /\ i + 1 \in 1..Len(stack) - 1
      BY <1>1
    <3>2. CallerInv(stack[i], stack[i + 1])
      BY <3>1 DEF ProgramsInv, StackInv
    <3> QED BY <1>1, <1>2, <1>3, <3>1, <3>2 DEF CallerInv
  <2> QED BY <1>3, <2>1, <2>2, ReturnStack
<1>7. PassInv'
  BY <1>3, ReturnPass
<1>8. TerminalsInv'
  BY <1>1, <1>3 DEF ProgramsInv, TerminalsInv
<1>9. MainInv'
  <2>1. TargetRuns' <=> TargetRuns
    BY <1>1, <1>3 DEF TargetRuns
  <2>2. CASE Len(stack) # 1
    <3>1. Last(stack).then # "terminal"
      BY <1>1, <2>2 DEF CallerInv
    <3>2. 1 \in 1..Len(stack) - 1
      BY <1>1, <2>2
    <3>3. (TerminalStarts' <=> TerminalStarts) /\ stack'[1] = stack[1]
      BY <1>1, <3>2 DEF TerminalStarts
    <3> QED BY <1>1, <1>2, <1>3, <2>1, <3>1, <3>3 DEF ProgramsInv, MainInv
  <2>3. CASE Len(stack) = 1 /\ Last(stack).then = "nothing"
    <3>1. ~TerminalStarts /\ ~TerminalStarts'
      BY <1>1, <2>3 DEF TerminalStarts
    <3> QED BY <1>1, <1>2, <1>3, <2>1, <2>3, <3>1 DEF ProgramsInv, MainInv
  <2>4. CASE Len(stack) = 1 /\ Last(stack).then = "terminal"
    <3>1. TerminalStarts /\ ~TerminalStarts' /\ terminalPid' = Last(stack).pid
      BY <1>1, <1>2, <2>4 DEF TerminalStarts
    <3>2. ~typing /\ Last(stack).serial = terminalTarget /\ terminalTarget <= started
      BY <1>1, <2>4, <3>1 DEF ProgramsInv, MainInv
    <3>3. terminalPid' # None
      BY <1>4, <3>1 DEF None
    <3>4. \A x \in RunningItems : serial[x] = terminalTarget => pid[x] = Last(stack).pid
      <4>1. CASE Last(stack).quitted
        BY <1>1, <3>2, <4>1 DEF FrameInv
      <4>2. CASE ~Last(stack).quitted
        <5>1. PICK y \in RunningItems : serial[y] = Last(stack).serial /\ pid[y] = Last(stack).pid
          BY <1>1, <4>2 DEF FrameInv, OfItem
        <5> QED BY <3>2, <5>1 DEF ProgramsInv, ItemsInv
      <4> QED BY <4>1, <4>2
    <3> QED BY <1>1, <1>2, <1>3, <2>4, <3>1, <3>2, <3>3, <3>4 DEF MainInv
  <2> QED BY <1>2, <2>2, <2>3, <2>4
<1> QED BY <1>3, <1>5, <1>6, <1>7, <1>8, <1>9 DEF ProgramsInv

LEMMA ReturnWait ==
  ASSUME ProgramsInv, StartReturns, Last(stack).then = "wait"
  PROVE  ProgramsInv'
<1> DEFINE f == Last(stack)
<1>1. /\ Len(stack) \in Nat /\ Len(stack) > 0 /\ Len(stack) # 1
      /\ f \in Frames
      /\ stack' \in Seq(Frames) /\ Len(stack') = Len(stack) - 1
      /\ \A i \in 1..Len(stack) - 1 : stack'[i] = stack[i] /\ i \in 1..Len(stack)
      /\ CallerInv(stack[Len(stack) - 1], f) /\ Len(stack) - 1 \in 1..Len(stack)
      /\ FrameInv(f) /\ currentProgram' = f.old
      /\ UNCHANGED <<terminalId, serial, terminals, phase, program, found, due, updated, typing,
                     terminalTarget, started>>
      /\ \A i \in 1..Len(stack) - 1 : stack[i].serial < f.serial
  BY ReturnFacts
<1>2. PICK s \in Serials : s = stack[Len(stack) - 1].serial
  <2>1. stack[Len(stack) - 1] \in Frames
    BY <1>1, ProgramsFacts
  <2> QED BY <2>1 DEF Frames
<1>3. /\ s < f.serial /\ flag[s] # "waiting" /\ s \in 1..started /\ f.serial \in 1..started
      /\ \E x \in RunningItems : serial[x] = s
      /\ \A t \in Serials : target[t] # f.serial
      /\ started \in Nat /\ s \in Nat /\ f.serial \in Nat /\ f.serial # 0
  <2>1. FrameInv(stack[Len(stack) - 1])
    BY <1>1 DEF ProgramsInv, StackInv
  <2>2. s \in 1..started /\ f.serial \in 1..started
    BY <1>1, <1>2, <2>1 DEF FrameInv
  <2>3. s < f.serial /\ flag[s] # "waiting" /\ \E x \in RunningItems : serial[x] = s
    BY <1>1, <1>2 DEF CallerInv
  <2>4. \A t \in Serials : target[t] # f.serial
    BY <1>1 DEF FrameInv
  <2> QED BY <2>2, <2>3, <2>4, ProgramsFacts
<1>4. /\ target' = [target EXCEPT ![s] = f.serial] /\ terminalPid' = terminalPid
      /\ \/ \E w \in Nodes :
                 /\ w \notin RunningItems /\ w \notin WaitingItems
                 /\ AreProgramLists(next') /\ Items(next', Running) = Items(next, Running)
                 /\ RunningItems' = RunningItems /\ WaitingItems' = WaitingItems \cup {w}
                 /\ live' = live \cup {w}
                 /\ pid' = [pid EXCEPT ![w] = f.pid]
                 /\ done' = [done EXCEPT ![w] = s]
                 /\ flag' = [flag EXCEPT ![s] = "waiting"]
                 /\ \E x \in RunningItems : pid[x] = f.pid /\ serial[x] = f.serial
         \/ /\ UNCHANGED <<next, live, pid, done>>
            /\ flag' = [flag EXCEPT ![s] = "told"]
            /\ \A x \in RunningItems : serial[x] # f.serial
  BY <1>2, WaitEffect
<1> HIDE DEF f
<1>5. /\ MaxExecs \in Nat /\ f.pid \in 0..MaxExecs /\ f.old \in Nodes \cup {Null}
      /\ f.serial \in 0..MaxExecs
      /\ pid \in [Nodes -> 0..MaxExecs] /\ done \in [Nodes -> 0..MaxExecs]
      /\ target \in [Serials -> 0..MaxExecs]
      /\ flag \in [Serials -> {"idle", "waiting", "told"}]
      /\ s \in 0..MaxExecs
  <2>1. MaxExecs \in Nat /\ Serials = 1..MaxExecs
    BY ProgramsAssumption DEF Serials
  <2>2. /\ f.pid \in 0..MaxExecs /\ f.old \in Nodes \cup {Null} /\ f.serial \in Serials
    BY <1>1 DEF Frames
  <2>3. /\ pid \in [Nodes -> 0..MaxExecs] /\ done \in [Nodes -> 0..MaxExecs]
        /\ target \in [Serials -> 0..MaxExecs]
        /\ flag \in [Serials -> {"idle", "waiting", "told"}]
    BY DEF ProgramsInv, TypesInv
  <2>4. s \in 0..MaxExecs /\ f.serial \in 0..MaxExecs
    BY <2>1, <2>2
  <2> QED BY <2>1, <2>2, <2>3, <2>4
<1>6. /\ RunningItems' = RunningItems
      /\ pid' \in [Nodes -> 0..MaxExecs] /\ done' \in [Nodes -> 0..MaxExecs]
      /\ \A x \in RunningItems : pid'[x] = pid[x]
      /\ flag' \in [Serials -> {"idle", "waiting", "told"}]
      /\ \A t \in Serials : t # s => flag'[t] = flag[t]
      /\ target'[s] = f.serial /\ \A t \in Serials : t # s => target'[t] = target[t]
      /\ target' \in [Serials -> 0..MaxExecs]
  <2>1. /\ target'[s] = f.serial /\ \A t \in Serials : t # s => target'[t] = target[t]
        /\ target' \in [Serials -> 0..MaxExecs]
    BY <1>4, <1>5
  <2>2. RunningItems' = RunningItems
    BY <1>4, SameItems
  <2>3. RunningItems \subseteq Nodes
    BY ProgramsFacts
  <2> QED BY <1>4, <1>5, <2>1, <2>2, <2>3
<1>7. TypesInv'
  BY <1>1, <1>4, <1>5, <1>6 DEF ProgramsInv, TypesInv
<1>8. ListsInv'
  <2>1. CASE UNCHANGED <<next, live, pid, done>>
    BY <1>1, <2>1, SameItems DEF ProgramsInv, ListsInv
  <2>2. ASSUME NEW w \in Nodes, AreProgramLists(next'), Items(next', Running) = Items(next, Running),
               RunningItems' = RunningItems, WaitingItems' = WaitingItems \cup {w},
               live' = live \cup {w}
        PROVE  ListsInv'
    <3>1. Newest(next', serial')
      BY <1>1, <2>2 DEF ProgramsInv, ListsInv, Newest
    <3>2. live' = RunningItems' \cup WaitingItems'
      BY <2>2, ProgramsFacts
    <3> QED BY <2>2, <3>1, <3>2 DEF ListsInv
  <2> QED BY <1>4, <2>1, <2>2
<1>9. ItemsInv' /\ TerminalsInv'
  BY <1>1, <1>6 DEF ProgramsInv, ItemsInv, TerminalsInv
<1>10. StackInv'
  <2>1. ASSUME NEW i \in 1..Len(stack) - 1 PROVE FrameInv(stack[i])'
    <3>1. FrameInv(stack[i]) /\ stack'[i] = stack[i] /\ stack[i].serial < f.serial
      BY <1>1 DEF ProgramsInv, StackInv
    <3>2. stack[i].then # "update" => \A t \in Serials : target'[t] # stack[i].serial
      <4>1. stack[i].serial # f.serial
        BY <1>3, <3>1
      <4> QED BY <1>6, <3>1, <4>1 DEF FrameInv
    <3>3. ~stack[i].quitted => \E x \in RunningItems : OfItem(stack[i], x)'
      BY <1>1, <1>6, <3>1 DEF FrameInv, OfItem
    <3>4. stack[i].quitted => \A x \in RunningItems :
             serial'[x] # stack[i].serial /\ (stack[i].then # "update" => pid'[x] # stack[i].pid)
      BY <1>1, <1>6, <3>1 DEF FrameInv
    <3>5. stack[i].serial \in 1..started'
      BY <1>1, <3>1 DEF FrameInv
    <3> QED BY <1>6, <3>1, <3>2, <3>3, <3>4, <3>5 DEF FrameInv
  <2>2. ASSUME NEW i \in 1..Len(stack) - 1 - 1 PROVE CallerInv(stack[i], stack[i + 1])'
    <3>1. PICK j \in 1..Len(stack) - 1 : j = i + 1 /\ i \in 1..Len(stack) - 1
      BY <1>1
    <3>2. CallerInv(stack[i], stack[j]) /\ stack'[i] = stack[i] /\ stack'[j] = stack[j]
      BY <1>1, <3>1 DEF ProgramsInv, StackInv
    <3>3. stack[i].serial # s /\ stack[i].serial \in Serials
      <4>1. i < Len(stack) - 1 /\ i \in 1..Len(stack)
        BY <1>1
      <4>2. stack[i].serial < s
        BY <1>1, <1>2, <4>1, FramesOlder
      <4>3. stack[i].serial \in Serials
        BY <4>1, ProgramsFacts DEF Frames
      <4> QED BY <1>3, <4>2, <4>3
    <3>4. flag'[stack[i].serial] = flag[stack[i].serial]
      BY <1>6, <3>3
    <3>5. CallerInv(stack[i], stack[j])'
      BY <1>1, <1>6, <3>2, <3>4 DEF CallerInv
    <3> QED BY <3>1, <3>5
  <2> QED BY <1>6, <2>1, <2>2, ReturnStack
<1>11. TargetsInv'
  <2>1. \A t \in Serials : target[t] <= started
    BY DEF ProgramsInv, TargetsInv
  <2>2. \A t \in Serials : target'[t] <= started
    <3>1. f.serial <= started
      BY <1>3
    <3> QED BY <1>6, <2>1, <3>1
  <2>3. ASSUME NEW t \in Serials, NEW u \in Serials, target'[t] = target'[u]
        PROVE  t = u \/ target'[t] = 0
    <3>1. target[t] = target[u] => t = u \/ target[t] = 0
      BY DEF ProgramsInv, TargetsInv
    <3> QED BY <1>3, <1>6, <2>3, <3>1
  <2>4. ASSUME NEW t \in Serials, t > started PROVE flag'[t] = "idle"
    <3>1. t # s
      BY <1>3, <2>4
    <3> QED BY <1>6, <2>4, <3>1 DEF ProgramsInv, TargetsInv
  <2> QED BY <1>1, <2>2, <2>3, <2>4 DEF TargetsInv
<1>12. WaitsInv'
  <2>1. /\ \A v \in WaitingItems :
             /\ done[v] \in Serials /\ flag[done[v]] = "waiting" /\ done[v] # s
             /\ \E x \in RunningItems : serial[x] = target[done[v]] /\ pid[x] = pid[v]
        /\ \A u, v \in WaitingItems : done[u] = done[v] => u = v
        /\ \A t \in Serials :
             /\ flag[t] = "waiting" => /\ \E x \in RunningItems : serial[x] = t
                                       /\ \E v \in WaitingItems : done[v] = t
             /\ flag[t] = "told" => \A x \in RunningItems : serial[x] # target[t]
    BY <1>3 DEF ProgramsInv, WaitsInv
  <2>2. ASSUME UNCHANGED <<next, live, pid, done>>, flag' = [flag EXCEPT ![s] = "told"],
               \A x \in RunningItems : serial[x] # f.serial
        PROVE  WaitsInv'
    <3>1. WaitingItems' = WaitingItems /\ flag'[s] = "told"
      BY <1>5, <2>2, SameItems
    <3>2. ASSUME NEW t \in Serials
          PROVE  /\ flag'[t] = "waiting" => /\ \E x \in RunningItems : serial[x] = t
                                            /\ \E v \in WaitingItems : done[v] = t
                 /\ flag'[t] = "told" => \A x \in RunningItems : serial[x] # target'[t]
      <4>1. CASE t = s
        BY <1>6, <2>2, <3>1, <4>1
      <4>2. CASE t # s
        BY <1>6, <2>1, <4>2
      <4> QED BY <4>1, <4>2
    <3>3. \A v \in WaitingItems :
             /\ done[v] \in Serials /\ flag'[done[v]] = "waiting"
             /\ \E x \in RunningItems : serial[x] = target'[done[v]] /\ pid[x] = pid[v]
      BY <1>6, <2>1
    <3> QED BY <1>1, <1>6, <2>1, <2>2, <3>1, <3>2, <3>3 DEF WaitsInv
  <2>3. ASSUME NEW w \in Nodes,
               w \notin RunningItems, w \notin WaitingItems,
               WaitingItems' = WaitingItems \cup {w},
               pid' = [pid EXCEPT ![w] = f.pid],
               done' = [done EXCEPT ![w] = s],
               flag' = [flag EXCEPT ![s] = "waiting"],
               \E x \in RunningItems : pid[x] = f.pid /\ serial[x] = f.serial
        PROVE  WaitsInv'
    <3>1. /\ pid'[w] = f.pid /\ done'[w] = s /\ flag'[s] = "waiting"
          /\ \A v \in WaitingItems : v # w /\ pid'[v] = pid[v] /\ done'[v] = done[v]
      BY <1>5, <2>3, ProgramsFacts
    <3>2. ASSUME NEW v \in WaitingItems'
          PROVE  /\ done'[v] \in Serials /\ flag'[done'[v]] = "waiting"
                 /\ \E x \in RunningItems : serial[x] = target'[done'[v]] /\ pid'[x] = pid'[v]
      <4>1. CASE v = w
        BY <1>6, <2>3, <3>1, <4>1
      <4>2. CASE v # w
        <5>1. v \in WaitingItems
          BY <2>3, <4>2
        <5> QED BY <1>6, <2>1, <3>1, <5>1
      <4> QED BY <4>1, <4>2
    <3>3. ASSUME NEW u \in WaitingItems', NEW v \in WaitingItems', done'[u] = done'[v]
          PROVE  u = v
      <4>1. \A x \in WaitingItems' : x = w \/ x \in WaitingItems
        BY <2>3
      <4> QED BY <2>1, <3>1, <3>3, <4>1
    <3>4. ASSUME NEW t \in Serials
          PROVE  /\ flag'[t] = "waiting" => /\ \E x \in RunningItems : serial[x] = t
                                            /\ \E v \in WaitingItems' : done'[v] = t
                 /\ flag'[t] = "told" => \A x \in RunningItems : serial[x] # target'[t]
      <4>1. CASE t = s
        BY <1>3, <2>3, <3>1, <4>1
      <4>2. CASE t # s
        BY <1>6, <2>1, <2>3, <3>1, <4>2
      <4> QED BY <4>1, <4>2
    <3> QED BY <1>1, <1>6, <3>2, <3>3, <3>4 DEF WaitsInv
  <2> QED BY <1>4, <2>2, <2>3
<1>13. MainInv'
  <2>1. 1 \in 1..Len(stack) - 1
    BY <1>1
  <2>2. stack'[1] = stack[1] /\ (TerminalStarts' <=> TerminalStarts) /\ (TargetRuns' <=> TargetRuns)
    BY <1>1, <1>6, <2>1 DEF TerminalStarts, TargetRuns
  <2> QED BY <1>1, <1>4, <1>6, <2>2 DEF ProgramsInv, MainInv
<1>14. PassInv'
  BY <1>6, ReturnPass
<1> QED BY <1>7, <1>8, <1>9, <1>10, <1>11, <1>12, <1>13, <1>14 DEF ProgramsInv

LEMMA StartReturnsKeeps == ProgramsInv /\ StartReturns => ProgramsInv'
BY ReturnAlone, ReturnWait

-----------------------------------------------------------------------------
LEMMA ProgramsStutter == ProgramsInv /\ UNCHANGED vars => ProgramsInv'
<1> SUFFICES ASSUME ProgramsInv, UNCHANGED vars PROVE ProgramsInv'
  OBVIOUS
<1>1. UNCHANGED <<next, live, pid, terminalId, done, serial, terminals, flag, target,
                  currentProgram, stack, phase, program, found, due, updated, typing,
                  terminalPid, terminalTarget, started>>
  BY DEF vars, itemVars, loopVars, terminalVars
<1>2. /\ ListsInv' /\ ItemsInv' /\ TargetsInv' /\ WaitsInv'
      /\ RunningItems' = RunningItems /\ WaitingItems' = WaitingItems
  BY <1>1, SameLists DEF itemVars
<1>3. TypesInv' /\ TerminalsInv'
  BY <1>1, <1>2 DEF ProgramsInv, TypesInv, TerminalsInv
<1>4. StackInv'
  BY <1>1, <1>2 DEF ProgramsInv, StackInv, FrameInv, OfItem, CallerInv, InControl, Self
<1>5. MainInv'
  BY <1>1, <1>2 DEF ProgramsInv, MainInv, TerminalStarts, TargetRuns
<1>6. PassInv'
  BY <1>1, <1>2 DEF ProgramsInv, PassInv, AtItem, Follows
<1> QED BY <1>2, <1>3, <1>4, <1>5, <1>6 DEF ProgramsInv

LEMMA ProgramsNext == ProgramsInv /\ [Next]_vars => ProgramsInv'
<1> SUFFICES ASSUME ProgramsInv, [Next]_vars PROVE ProgramsInv'
  OBVIOUS
<1>1. CASE CallbackExecute \/ ProgramExecute \/ TerminalExecute \/ StartReturns
  BY <1>1, CallbackExecuteKeeps, ProgramExecuteKeeps, TerminalExecuteKeeps, StartReturnsKeeps
<1>2. CASE CancelWait \/ RegisterTerminal \/ UnregisterTerminal \/ Quit
  BY <1>2, CancelWaitKeeps, RegisterTerminalKeeps, UnregisterTerminalKeeps, QuitKeeps
<1>3. CASE TypeLine \/ CallbacksDone \/ BeginPass \/ Update \/ UpdateReturns \/ EndPass
  BY <1>3, TypeLineKeeps, CallbacksDoneKeeps, BeginPassKeeps, UpdateKeeps, UpdateReturnsKeeps,
     EndPassKeeps
<1>4. CASE UNCHANGED vars
  BY <1>4, ProgramsStutter
<1> QED BY <1>1, <1>2, <1>3, <1>4 DEF Next

(* The invariant holds of every number of programs, terminals and blocks.  *)
THEOREM ProgramsInvariant == Spec => []ProgramsInv
<1>1. Init => ProgramsInv
  BY ProgramsInit
<1>2. ProgramsInv /\ [Next]_vars => ProgramsInv'
  BY ProgramsNext
<1> QED BY <1>1, <1>2, PTL DEF Spec

(* Records name whom they should: the types, the blocks in use, pids that  *)
(* belong to one running program, currentProgram and the terminals.        *)
THEOREM ProgramsRecords == Spec => []Inv
<1>1. ProgramsInv => Inv
  <2> SUFFICES ASSUME ProgramsInv PROVE Inv
    OBVIOUS
  <2>1. TypeOK
    <3>1. next \in [Nodes \cup {Running, Waiting} -> Nodes \cup {Null}]
      BY ListFacts, ProgramsFacts DEF ProgramsInv, ListsInv, ListVars
    <3>2. live = ToSet(Items(next, Running)) \cup ToSet(Items(next, Waiting))
      BY DEF ProgramsInv, ListsInv, RunningItems, WaitingItems, On
    <3>3. ToSet(stack) \subseteq Frames /\ ToSet(updated) \subseteq Serials
      <4>1. stack \in Seq(Frames) /\ updated \in Seq(Serials)
        BY DEF ProgramsInv, TypesInv
      <4>2. DOMAIN stack = 1..Len(stack) /\ DOMAIN updated = 1..Len(updated)
        BY <4>1
      <4> QED BY <4>2, ProgramsFacts DEF ToSet
    <3> QED BY <3>1, <3>2, <3>3 DEF TypeOK, ProgramsInv, TypesInv
  <2>2. PidsUnique
    <3> DEFINE r == Items(next, Running)
    <3>1. /\ RunningItems = {r[k] : k \in 1..Len(r)}
          /\ \A j, k \in 1..Len(r) : r[j] = r[k] => j = k
      BY ListFacts, ProgramsFacts DEF ProgramsInv, ListsInv, RunningItems
    <3>2. \A x, y \in RunningItems : pid[x] = pid[y] => x = y
      BY DEF ProgramsInv, ItemsInv
    <3> HIDE DEF r
    <3>3. \A m, n \in 1..Len(r) : m # n => pid[r[m]] # pid[r[n]]
      BY <3>1, <3>2
    <3> QED BY <3>3 DEF PidsUnique, r
  <2>3. CurrentIsInControl
    BY DEF ProgramsInv, StackInv, CurrentIsInControl, RunningItems, On
  <2>4. TerminalsOwned
    BY DEF ProgramsInv, TerminalsInv, TerminalsOwned, RunningItems, On
  <2> QED BY <2>1, <2>2, <2>3, <2>4 DEF Inv
<1> QED BY <1>1, ProgramsInvariant, PTL

(* A program that waits has one record, of the program that it started and *)
(* that still runs; one that is told is told the truth; and the main       *)
(* terminal takes a new line only when its program has quit.               *)
THEOREM ProgramsWaitTruthfully == Spec => []WaitsTruthful
<1>1. ProgramsInv => WaitsTruthful
  <2> SUFFICES ASSUME ProgramsInv PROVE WaitsTruthful
    OBVIOUS
  <2> DEFINE Records(s) == { w \in WaitingItems : done[w] = s }
  <2>1. typing => terminalTarget \notin RunningSerials
    <3>1. TerminalStarts => ~typing
      BY DEF ProgramsInv, MainInv
    <3> QED BY <3>1, ProgramsFacts DEF ProgramsInv, MainInv, TargetRuns
  <2>2. ASSUME NEW s \in Serials, flag[s] = "waiting"
        PROVE  /\ s \in RunningSerials
               /\ Cardinality(Records(s)) = 1
               /\ \A w \in Records(s) : \E n \in RunningItems : serial[n] = target[s] /\ pid[n] = pid[w]
    <3>1. s \in RunningSerials
      BY <2>2, ProgramsFacts DEF ProgramsInv, WaitsInv
    <3>2. PICK w \in WaitingItems : done[w] = s
      BY <2>2 DEF ProgramsInv, WaitsInv
    <3>3. Records(s) = {w}
      BY <3>2 DEF ProgramsInv, WaitsInv
    <3>4. Cardinality(Records(s)) = 1
      BY <3>3, FS_Singleton
    <3>5. \E n \in RunningItems : serial[n] = target[s] /\ pid[n] = pid[w]
      BY <3>2 DEF ProgramsInv, WaitsInv
    <3> QED BY <3>1, <3>3, <3>4, <3>5
  <2>3. ASSUME NEW s \in Serials, flag[s] # "waiting" PROVE Records(s) = {}
    BY <2>3 DEF ProgramsInv, WaitsInv
  <2>4. ASSUME NEW s \in Serials, flag[s] = "told" PROVE target[s] \notin RunningSerials
    BY <2>4, ProgramsFacts DEF ProgramsInv, WaitsInv
  <2> QED BY Zenon, <2>1, <2>2, <2>3, <2>4 DEF WaitsTruthful, RunningItems, WaitingItems, On
<1> QED BY <1>1, ProgramsInvariant, PTL

(* A pass updates whoever ran when it began, each program once and no      *)
(* other, although programs quit and start while the list is walked.       *)
THEOREM ProgramsUpdatedOnce == Spec => []EachUpdatedOnce
<1>1. ProgramsInv => EachUpdatedOnce
  <2> SUFFICES ASSUME ProgramsInv, phase = "updates"
               PROVE  /\ IsInjective(updated) /\ ToSet(updated) \subseteq due
                      /\ stack = <<>> /\ next[program] = Null => ToSet(updated) = due
    BY DEF EachUpdatedOnce
  <2>1. /\ updated \in Seq(Serials) /\ DOMAIN updated = 1..Len(updated) /\ Len(updated) \in Nat
        /\ \A k \in 1..Len(updated) : updated[k] \in Nat
        /\ ToSet(updated) = {updated[k] : k \in 1..Len(updated)}
    <3>1. updated \in Seq(Serials) /\ DOMAIN updated = 1..Len(updated)
      BY DEF ProgramsInv, TypesInv
    <3> QED BY <3>1, ProgramsFacts DEF Serials, ToSet
  <2>2. /\ \A j, k \in 1..Len(updated) : j < k => updated[j] > updated[k]
        /\ \A k \in 1..Len(updated) : updated[k] \in due
    <3>1. CASE program = Running
      <4>1. Len(updated) = 0
        BY <3>1, ProgramsFacts DEF ProgramsInv, PassInv
      <4> QED BY <4>1
    <3>2. CASE program # Running
      BY <3>2 DEF ProgramsInv, PassInv, AtItem
    <3> QED BY <3>1, <3>2
  <2>3. IsInjective(updated)
    <3>1. ASSUME NEW j \in 1..Len(updated), NEW k \in 1..Len(updated), updated[j] = updated[k]
          PROVE  j = k
      <4>1. ~(j < k) /\ ~(k < j)
        BY <2>1, <2>2, <3>1
      <4> QED BY <2>1, <4>1
    <3> QED BY <2>1, <3>1 DEF IsInjective
  <2>4. stack = <<>> /\ next[program] = Null => \A s \in due : \E k \in 1..Len(updated) : updated[k] = s
    BY PassDone
  <2> QED BY <2>1, <2>2, <2>3, <2>4
<1> QED BY <1>1, ProgramsInvariant, PTL
=============================================================================
