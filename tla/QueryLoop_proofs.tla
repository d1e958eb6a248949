--------------------------- MODULE QueryLoop_proofs ---------------------------
(***************************************************************************)
(* The turn loop, the compressor and the session file, for any configuration  *)
(* and any number of calls, failures and crashes; and, at the end, the list    *)
(* functions of the compressor and the formats of the provider, for any list    *)
(* the loop can write (MessageLists).                                        *)
(***************************************************************************)
EXTENDS QueryLoopProperties, MessageLists, SequenceTheorems, FiniteSetTheorems, WellFoundedInduction, TLAPS

-----------------------------------------------------------------------------
(* Lists: joining them, taking off their front, selecting some elements.   *)

\* A set of positions has a first one.
LEMMA FirstPosition ==
  ASSUME NEW T \in SUBSET Nat, T # {}
  PROVE  \E k \in T : \A j \in T : k <= j
<1>1. PICK k \in T : \A j \in T : ~ (<<j, k>> \in OpToRel(<, Nat))
  BY WFMin, NatLessThanWellFounded
<1>2. \A j \in T : ~(j < k)
  BY <1>1 DEF OpToRel
<1> QED
  BY <1>2

\* The elements of a concatenation, by the lengths of its parts.
LEMMA Joined ==
  ASSUME NEW S, NEW f \in Seq(S), NEW b \in Seq(S), NEW n, NEW m, Len(f) = n, Len(b) = m
  PROVE  /\ f \o b \in Seq(S) /\ Len(f \o b) = n + m
         /\ \A i \in 1..n + m : (f \o b)[i] = IF i <= n THEN f[i] ELSE b[i - n]
BY ConcatProperties

\* Where the elements of a concatenation come from.
LEMMA JoinedParts ==
  ASSUME NEW S, NEW a \in Seq(S), NEW b \in Seq(S)
  PROVE  /\ a \o b \in Seq(S) /\ Len(a \o b) = Len(a) + Len(b)
         /\ DOMAIN (a \o b) = 1..Len(a) + Len(b)
         /\ \A i \in DOMAIN a : i \in DOMAIN (a \o b) /\ (a \o b)[i] = a[i]
         /\ \A j \in DOMAIN b : Len(a) + j \in DOMAIN (a \o b) /\ (a \o b)[Len(a) + j] = b[j]
         /\ \A k \in DOMAIN (a \o b) : k \in DOMAIN a \/ \E j \in DOMAIN b : k = Len(a) + j
<1>1. /\ DOMAIN a = 1..Len(a) /\ Len(a) \in Nat /\ DOMAIN b = 1..Len(b) /\ Len(b) \in Nat
  OBVIOUS
<1>2. /\ a \o b \in Seq(S) /\ Len(a \o b) = Len(a) + Len(b)
      /\ \A i \in 1..Len(a) + Len(b) : (a \o b)[i] = IF i <= Len(a) THEN a[i] ELSE b[i - Len(a)]
  BY ConcatProperties
<1> DEFINE c == a \o b
<1> HIDE DEF c
<1>3. c \in Seq(S) /\ Len(c) = Len(a) + Len(b) /\ DOMAIN c = 1..Len(a) + Len(b)
  BY <1>1, <1>2, LenProperties DEF c
<1>4. ASSUME NEW i \in DOMAIN a PROVE i \in DOMAIN c /\ c[i] = a[i]
  BY <1>1, <1>2, <1>3 DEF c
<1>5. ASSUME NEW j \in DOMAIN b PROVE Len(a) + j \in DOMAIN c /\ c[Len(a) + j] = b[j]
  <2>1. Len(a) + j \in 1..Len(a) + Len(b) /\ ~(Len(a) + j <= Len(a)) /\ (Len(a) + j) - Len(a) = j
    BY <1>1
  <2> QED
    BY <1>2, <1>3, <2>1 DEF c
<1>6. ASSUME NEW k \in DOMAIN c PROVE k \in DOMAIN a \/ \E j \in DOMAIN b : k = Len(a) + j
  <2>1. CASE k <= Len(a)
    BY <1>1, <1>3, <2>1
  <2>2. CASE ~(k <= Len(a))
    <3>1. k - Len(a) \in DOMAIN b /\ k = Len(a) + (k - Len(a))
      BY <1>1, <1>3, <2>2
    <3> QED
      BY <3>1
  <2> QED
    BY <2>1, <2>2
<1> QED
  BY <1>3, <1>4, <1>5, <1>6 DEF c

\* What is left of a sequence when k of its elements are taken off the front.
LEMMA Rest ==
  ASSUME NEW S, NEW s \in Seq(S), NEW k \in 0..Len(s)
  PROVE  LET r == SubSeq(s, k + 1, Len(s)) IN
         /\ r \in Seq(S) /\ DOMAIN r = 1..Len(s) - k
         /\ \A i \in 1..Len(s) - k : r[i] = s[k + i]
         /\ ToSet(r) = {s[i] : i \in k + 1..Len(s)}
<1> DEFINE r == SubSeq(s, k + 1, Len(s))
<1>0. Len(s) \in Nat /\ k \in Nat
  BY LenProperties
<1>1. \A i \in k + 1..Len(s) : s[i] \in S
  BY <1>0, ElementOfSeq
<1>2. /\ r \in Seq(S) /\ Len(r) = IF k + 1 <= Len(s) THEN Len(s) - (k + 1) + 1 ELSE 0
      /\ \A i \in 1..Len(s) - (k + 1) + 1 : r[i] = s[k + 1 + i - 1]
  BY <1>0, <1>1, SubSeqProperties
<1> HIDE DEF r
<1>3. DOMAIN r = 1..Len(s) - k /\ \A i \in 1..Len(s) - k : r[i] = s[k + i]
  BY <1>0, <1>2, LenProperties
<1>4. \A i \in k + 1..Len(s) : i - k \in 1..Len(s) - k /\ r[i - k] = s[i]
  BY <1>0, <1>3
<1>5. \A i \in 1..Len(s) - k : k + i \in k + 1..Len(s)
  BY <1>0
<1>6. ToSet(r) = {s[i] : i \in k + 1..Len(s)}
  <2>1. ASSUME NEW x \in ToSet(r)
        PROVE  \E i \in k + 1..Len(s) : s[i] = x
    <3>1. PICK i \in 1..Len(s) - k : r[i] = x
      BY <1>3 DEF ToSet
    <3> QED
      BY <1>3, <1>5, <3>1
  <2>2. ASSUME NEW i \in k + 1..Len(s)
        PROVE  s[i] \in ToSet(r)
    BY <1>3, <1>4 DEF ToSet
  <2> QED
    BY <2>1, <2>2
<1> QED
  BY <1>2, <1>3, <1>6 DEF r

\* The rank counts up by one at every selected position.
LEMMA Ranks ==
  ASSUME NEW n \in Nat, NEW P \in SUBSET (1..n)
  PROVE  /\ IsFiniteSet(P) /\ Cardinality(P) \in Nat /\ Rank(P, 0) = 0 /\ Rank(P, n) = Cardinality(P)
         /\ \A k \in Nat : Rank(P, k) \in Nat
         /\ \A k \in Nat : k + 1 \in P => Rank(P, k + 1) = Rank(P, k) + 1
         /\ \A k \in Nat : k + 1 \notin P => Rank(P, k + 1) = Rank(P, k)
         /\ \A k, l \in Nat : k <= l => Rank(P, k) <= Rank(P, l)
<1> DEFINE upTo(k) == {j \in P : j <= k}
<1>0. \A j \in P : j \in Nat /\ 1 <= j /\ j <= n
  OBVIOUS
<1>1. IsFiniteSet(P) /\ Cardinality(P) \in Nat
  <2>1. IsFiniteSet(1..n)
    BY FS_Interval
  <2>2. IsFiniteSet(P)
    BY <2>1, FS_Subset
  <2> QED
    BY <2>2, FS_CardinalityType
<1>2. \A k \in Nat : IsFiniteSet(upTo(k)) /\ Cardinality(upTo(k)) \in Nat
  <2> SUFFICES ASSUME NEW k \in Nat PROVE IsFiniteSet(upTo(k)) /\ Cardinality(upTo(k)) \in Nat
    OBVIOUS
  <2>1. upTo(k) \in SUBSET P
    OBVIOUS
  <2> QED
    BY <1>1, <2>1, FS_Subset, FS_CardinalityType
<1>3. upTo(0) = {} /\ upTo(n) = P
  <2>1. upTo(0) = {}
    <3>1. ASSUME NEW j \in P PROVE ~(j <= 0)
      BY <1>0
    <3> QED
      BY <3>1
  <2>2. upTo(n) = P
    BY <1>0
  <2> QED
    BY <2>1, <2>2
<1>4. \A k \in Nat : upTo(k + 1) = IF k + 1 \in P THEN upTo(k) \cup {k + 1} ELSE upTo(k)
  <2> SUFFICES ASSUME NEW k \in Nat
               PROVE  upTo(k + 1) = IF k + 1 \in P THEN upTo(k) \cup {k + 1} ELSE upTo(k)
    OBVIOUS
  <2>1. ASSUME NEW j \in P PROVE j <= k + 1 <=> j <= k \/ j = k + 1
    <3>1. j \in Nat
      BY <1>0
    <3> QED
      BY <3>1
  <2> QED
    BY <2>1
<1>5. \A k \in Nat : k + 1 \notin upTo(k)
  BY <1>0
<1>6. ASSUME NEW k \in Nat, NEW l \in Nat, k <= l PROVE upTo(k) \in SUBSET upTo(l)
  <2>1. ASSUME NEW j \in P, j <= k PROVE j <= l
    <3>1. j \in Nat
      BY <1>0
    <3> QED
      BY <1>6, <2>1, <3>1
  <2> QED
    BY <2>1
<1>7. \A k \in Nat : Rank(P, k) = Cardinality(upTo(k))
  BY DEF Rank
<1> HIDE DEF upTo
<1>8. ASSUME NEW k \in Nat
      PROVE  /\ k + 1 \in P => Rank(P, k + 1) = Rank(P, k) + 1
             /\ k + 1 \notin P => Rank(P, k + 1) = Rank(P, k)
  <2>1. Cardinality(upTo(k) \cup {k + 1}) = Cardinality(upTo(k)) + 1
    BY <1>2, <1>5, FS_AddElement
  <2> QED
    BY <1>4, <1>7, <2>1
<1>9. ASSUME NEW k \in Nat, NEW l \in Nat, k <= l PROVE Rank(P, k) <= Rank(P, l)
  <2>1. Cardinality(upTo(k)) <= Cardinality(upTo(l))
    BY <1>2, <1>6, <1>9, FS_Subset
  <2> QED
    BY <1>7, <2>1
<1>10. Rank(P, 0) = 0 /\ Rank(P, n) = Cardinality(P)
  BY <1>3, <1>7, FS_EmptySet
<1> QED
  BY <1>1, <1>2, <1>7, <1>8, <1>9, <1>10

\* Every rank from 1 on is that of exactly one selected position.
LEMMA Positions ==
  ASSUME NEW n \in Nat, NEW P \in SUBSET (1..n)
  PROVE  /\ \A i \in 1..Cardinality(P) : Position(P, i) \in P /\ Rank(P, Position(P, i)) = i
         /\ \A k \in P : Rank(P, k) \in 1..Cardinality(P) /\ Position(P, Rank(P, k)) = k
         /\ \A k, l \in P : k < l => Rank(P, k) < Rank(P, l)
         /\ \A i, j \in 1..Cardinality(P) : i < j => Position(P, i) < Position(P, j)
<1> DEFINE c == Cardinality(P)
<1>1. c \in Nat /\ Rank(P, 0) = 0 /\ Rank(P, n) = c /\ \A k \in Nat : Rank(P, k) \in Nat
  <2>1. Cardinality(P) \in Nat /\ Rank(P, 0) = 0 /\ Rank(P, n) = Cardinality(P)
    BY Ranks
  <2>2. \A k \in Nat : Rank(P, k) \in Nat
    BY Ranks
  <2> QED
    BY <2>1, <2>2
<1>2. ASSUME NEW k \in Nat
      PROVE  /\ k + 1 \in P => Rank(P, k + 1) = Rank(P, k) + 1
             /\ k + 1 \notin P => Rank(P, k + 1) = Rank(P, k)
  BY Ranks
<1>3. \A k, l \in Nat : k <= l => Rank(P, k) <= Rank(P, l)
  BY Ranks
<1> HIDE DEF c
<1>4. \A k \in P : k \in Nat /\ k - 1 \in Nat /\ k <= n /\ (k - 1) + 1 = k /\ Rank(P, k) = Rank(P, k - 1) + 1
  <2> SUFFICES ASSUME NEW k \in P
               PROVE  k \in Nat /\ k - 1 \in Nat /\ k <= n /\ (k - 1) + 1 = k /\ Rank(P, k) = Rank(P, k - 1) + 1
    OBVIOUS
  <2>1. k \in Nat /\ k - 1 \in Nat /\ k <= n /\ (k - 1) + 1 = k
    OBVIOUS
  <2> QED
    BY <1>2, <2>1
<1>5. \A k, l \in P : k < l => Rank(P, k) < Rank(P, l)
  <2> SUFFICES ASSUME NEW k \in P, NEW l \in P, k < l PROVE Rank(P, k) < Rank(P, l)
    OBVIOUS
  <2>1. k \in Nat /\ l \in Nat /\ l - 1 \in Nat /\ k <= l - 1
    BY <1>4
  <2> QED
    BY <1>1, <1>3, <1>4, <2>1
<1>6. \A k \in P : Rank(P, k) \in 1..c
  BY <1>1, <1>3, <1>4
<1>7. ASSUME NEW i \in 1..c PROVE \E k \in P : Rank(P, k) = i
  <2> DEFINE T == {k \in Nat : Rank(P, k) >= i}
  <2>1. n \in T
    BY <1>1
  <2>2. PICK k \in T : \A j \in T : k <= j
    BY <2>1, FirstPosition
  <2>3. k \in Nat /\ Rank(P, k) >= i /\ k # 0
    BY <1>1, <2>2
  <2>4. k - 1 \in Nat /\ (k - 1) + 1 = k /\ ~(k <= k - 1)
    BY <2>3
  <2>5. Rank(P, k - 1) < i
    <3>1. k - 1 \notin T
      BY <2>2, <2>4
    <3> QED
      BY <1>1, <2>4, <3>1
  <2>6. Rank(P, k) = IF k \in P THEN Rank(P, k - 1) + 1 ELSE Rank(P, k - 1)
    BY <1>2, <2>4
  <2> QED
    BY <1>1, <2>3, <2>4, <2>5, <2>6
<1>8. \A i \in 1..c : Position(P, i) \in P /\ Rank(P, Position(P, i)) = i
  BY <1>7 DEF Position
<1>9. ASSUME NEW k \in P, NEW l \in P, Rank(P, k) = Rank(P, l) PROVE k = l
  <2>1. k \in Nat /\ l \in Nat /\ Rank(P, k) \in Nat
    BY <1>1, <1>4
  <2>2. ~(k < l) /\ ~(l < k)
    BY <1>5, <1>9, <2>1
  <2> QED
    BY <2>1, <2>2
<1>10. \A k \in P : Position(P, Rank(P, k)) = k
  BY <1>6, <1>8, <1>9
<1>11. ASSUME NEW i \in 1..c, NEW j \in 1..c, i < j PROVE Position(P, i) < Position(P, j)
  <2>1. Position(P, i) \in Nat /\ Position(P, j) \in Nat
    BY <1>4, <1>8
  <2>2. ~(Position(P, j) <= Position(P, i))
    BY <1>3, <1>8, <1>11, <2>1
  <2> QED
    BY <2>1, <2>2
<1> QED
  BY <1>5, <1>6, <1>8, <1>10, <1>11 DEF c

\* Two selected positions with none between them follow each other in the selection.
LEMMA NextRank ==
  ASSUME NEW n \in Nat, NEW P \in SUBSET (1..n), NEW k \in P, NEW l \in P, k < l,
         \A j \in P : ~(k < j /\ j < l)
  PROVE  Rank(P, l) = Rank(P, k) + 1
<1> DEFINE i == Rank(P, k)
           j == Rank(P, l)
           p == Position(P, i + 1)
<1>1. Cardinality(P) \in Nat
  BY Ranks
<1>2. i \in 1..Cardinality(P) /\ j \in 1..Cardinality(P) /\ i < j
      /\ Position(P, i) = k /\ Position(P, j) = l
  BY Positions
<1>3. i + 1 \in 1..Cardinality(P)
  BY <1>1, <1>2
<1>4. p \in P /\ k < p /\ (i + 1 < j => p < l)
  <2>1. \A a \in 1..Cardinality(P) : Position(P, a) \in P
    BY Positions
  <2>2. \A a, b \in 1..Cardinality(P) : a < b => Position(P, a) < Position(P, b)
    BY Positions
  <2>3. i < i + 1
    BY <1>2
  <2> HIDE DEF i, j
  <2> QED
    BY <1>2, <1>3, <2>1, <2>2, <2>3
<1> HIDE DEF i, j, p
<1>5. ~(i + 1 < j)
  BY <1>4
<1> QED
  BY <1>1, <1>2, <1>5 DEF i, j

\* What a selection returns.
LEMMA Selected ==
  ASSUME NEW S, NEW s \in Seq(S), NEW P \in SUBSET DOMAIN s
  PROVE  /\ Among(s, P) \in Seq(S) /\ Len(Among(s, P)) = Cardinality(P)
         /\ DOMAIN Among(s, P) = 1..Cardinality(P)
         /\ \A i \in DOMAIN Among(s, P) : Position(P, i) \in P /\ Among(s, P)[i] = s[Position(P, i)]
         /\ \A i, j \in DOMAIN Among(s, P) : i < j => Position(P, i) < Position(P, j)
         /\ \A k \in P : /\ Rank(P, k) \in DOMAIN Among(s, P)
                         /\ Among(s, P)[Rank(P, k)] = s[k]
<1>1. DOMAIN s = 1..Len(s) /\ Len(s) \in Nat /\ \A k \in DOMAIN s : s[k] \in S
  OBVIOUS
<1>2. P \in SUBSET (1..Len(s))
  BY <1>1
<1>3. Cardinality(P) \in Nat
  BY <1>1, <1>2, Ranks
<1>4. /\ \A i \in 1..Cardinality(P) : Position(P, i) \in P /\ Rank(P, Position(P, i)) = i
      /\ \A k \in P : Rank(P, k) \in 1..Cardinality(P) /\ Position(P, Rank(P, k)) = k
      /\ \A i, j \in 1..Cardinality(P) : i < j => Position(P, i) < Position(P, j)
  BY <1>1, <1>2, Positions
<1>5. DOMAIN Among(s, P) = 1..Cardinality(P)
      /\ \A i \in 1..Cardinality(P) : Among(s, P)[i] = s[Position(P, i)]
  BY DEF Among
<1>6. Among(s, P) = [i \in 1..Cardinality(P) |-> s[Position(P, i)]]
  BY DEF Among
<1>7. \A i \in 1..Cardinality(P) : s[Position(P, i)] \in S
  BY <1>1, <1>4
<1>8. Among(s, P) \in Seq(S) /\ Len(Among(s, P)) = Cardinality(P)
  BY <1>3, <1>6, <1>7
<1> QED
  BY <1>4, <1>5, <1>8

\* The first elements are selected by their positions.
LEMMA SelectedFront ==
  ASSUME NEW S, NEW s \in Seq(S), NEW n \in 0..Len(s)
  PROVE  /\ Len(Among(s, 1..n)) = n /\ \A i \in 1..n : Among(s, 1..n)[i] = s[i]
<1>1. DOMAIN s = 1..Len(s) /\ Len(s) \in Nat /\ n \in Nat /\ 1..n \in SUBSET DOMAIN s
  OBVIOUS
<1>2. Cardinality(1..n) = n
  BY <1>1, FS_Interval
<1>3. \A i \in 1..n : Rank(1..n, i) = i
  <2> SUFFICES ASSUME NEW i \in 1..n PROVE Rank(1..n, i) = i
    OBVIOUS
  <2>1. {j \in 1..n : j <= i} = 1..i /\ i \in Nat
    BY <1>1
  <2>2. Cardinality(1..i) = i
    BY <2>1, FS_Interval
  <2> QED
    BY <2>1, <2>2 DEF Rank
<1> QED
  BY <1>1, <1>2, <1>3, Selected

\* And the last ones.
LEMMA SelectedBack ==
  ASSUME NEW S, NEW s \in Seq(S), NEW n \in 0..Len(s)
  PROVE  LET P == n + 1..Len(s) IN
         Len(Among(s, P)) = Len(s) - n /\ \A i \in 1..Len(s) - n : Among(s, P)[i] = s[n + i]
<1> DEFINE P == n + 1..Len(s)
<1>1. DOMAIN s = 1..Len(s) /\ Len(s) \in Nat /\ n \in Nat /\ P \in SUBSET DOMAIN s
  OBVIOUS
<1>2. Cardinality(P) = Len(s) - n
  <2>1. n + 1 \in Int /\ Len(s) \in Int
    BY <1>1
  <2>2. Cardinality(P) = IF n + 1 > Len(s) THEN 0 ELSE Len(s) - (n + 1) + 1
    BY <2>1, FS_Interval
  <2> QED
    BY <1>1, <2>2
<1>3. \A i \in 1..Len(s) - n : n + i \in P /\ Rank(P, n + i) = i
  <2> SUFFICES ASSUME NEW i \in 1..Len(s) - n PROVE n + i \in P /\ Rank(P, n + i) = i
    OBVIOUS
  <2>1. {j \in P : j <= n + i} = n + 1..n + i /\ i \in Nat /\ n + i \in P
    BY <1>1
  <2>2. Cardinality(n + 1..n + i) = i
    <3>1. n + 1 \in Int /\ n + i \in Int /\ ~(n + 1 > n + i) /\ (n + i) - (n + 1) + 1 = i
      BY <1>1, <2>1
    <3> QED
      BY <3>1, FS_Interval
  <2> QED
    BY <2>1, <2>2 DEF Rank
<1> HIDE DEF P
<1>4. \A i \in 1..Len(s) - n : Among(s, P)[i] = s[n + i]
  <2> SUFFICES ASSUME NEW i \in 1..Len(s) - n PROVE Among(s, P)[i] = s[n + i]
    OBVIOUS
  <2>1. n + i \in P /\ Rank(P, n + i) = i
    BY <1>3
  <2>2. Among(s, P)[Rank(P, n + i)] = s[n + i]
    BY <1>1, <2>1, Selected
  <2> QED
    BY <2>1, <2>2
<1>5. Len(Among(s, P)) = Len(s) - n
  BY <1>1, <1>2, Selected
<1> QED
  BY <1>4, <1>5 DEF P

-----------------------------------------------------------------------------
(* What the list functions of the compressor return.                       *)

LEMMA NewMessages ==
  ASSUME NEW id \in Nat, NEW turn \in Int, NEW body \in Nat, NEW text \in BOOLEAN,
         NEW uses \in SUBSET Int, NEW results \in SUBSET Nat
  PROVE  /\ UserInput(id, turn, body) \in Message
         /\ Reply(id, turn, text, uses, body) \in Message
         /\ ToolResults(id, turn, results, body) \in Message
BY DEF UserInput, Reply, ToolResults, Message

LEMMA MessageFields ==
  ASSUME NEW m \in Message
  PROVE  /\ m.id \in Nat /\ m.turn \in Int /\ m.role \in {"user", "assistant"} /\ m.str \in BOOLEAN
         /\ m.text \in BOOLEAN /\ m.uses \in SUBSET Int /\ m.results \in SUBSET Nat /\ m.body \in Nat
BY DEF Message

LEMMA SeqFacts ==
  ASSUME NEW msgs \in Seq(Message)
  PROVE  /\ DOMAIN msgs = 1..Len(msgs) /\ Len(msgs) \in Nat
         /\ \A i \in DOMAIN msgs : msgs[i] \in Message
OBVIOUS

\* What is older than the first message of a kept turn, and has a turn, is compressed.
Older(msgs) == {i \in 1..SplitIndex(msgs) : msgs[i].turn # NoTurn}

LEMMA SplitIndexIs ==
  ASSUME NEW msgs \in Seq(Message)
  PROVE  /\ SplitIndex(msgs) \in 0..Len(msgs)
         /\ \A i \in 1..SplitIndex(msgs) : msgs[i].turn \notin TurnsToKeep(msgs)
         /\ SplitIndex(msgs) # Len(msgs) => msgs[SplitIndex(msgs) + 1].turn \in TurnsToKeep(msgs)
<1> DEFINE K == {i \in 1..Len(msgs) : msgs[i].turn \in TurnsToKeep(msgs)}
           first == SelectInSeq(msgs, LAMBDA m : m.turn \in TurnsToKeep(msgs))
<1>0. Len(msgs) \in Nat
  BY SeqFacts
<1>1. first = IF K # {} THEN Min(K) ELSE 0
  BY DEF SelectInSeq
<1>2. SplitIndex(msgs) = IF first = 0 THEN Len(msgs) ELSE first - 1
  BY DEF SplitIndex
<1> HIDE DEF first
<1>3. CASE K = {}
  <2>1. SplitIndex(msgs) = Len(msgs)
    BY <1>1, <1>2, <1>3
  <2> QED
    BY <1>0, <1>3, <2>1
<1>4. CASE K # {}
  <2>1. K \in SUBSET Nat
    BY <1>0
  <2>2. \E k \in K : \A j \in K : k <= j
    BY <1>4, <2>1, FirstPosition
  <2>3. Min(K) \in K /\ \A j \in K : Min(K) <= j
    BY <2>2 DEF Min
  <2>4. first \in K /\ \A j \in K : first <= j
    BY <1>1, <1>4, <2>3
  <2>5. first \in 1..Len(msgs) /\ msgs[first].turn \in TurnsToKeep(msgs)
    BY <2>4
  <2>6. SplitIndex(msgs) = first - 1
    BY <1>2, <2>5
  <2>7. \A i \in 1..first - 1 : i \notin K /\ i \in 1..Len(msgs)
    BY <1>0, <2>4, <2>5
  <2>8. \A i \in 1..first - 1 : msgs[i].turn \notin TurnsToKeep(msgs)
    BY <2>7
  <2>9. first - 1 \in 0..Len(msgs) /\ (first - 1) + 1 = first
    BY <1>0, <2>5
  <2> QED
    BY <2>5, <2>6, <2>8, <2>9
<1> QED
  BY <1>3, <1>4

LEMMA SplitParts ==
  ASSUME NEW msgs \in Seq(Message), Split(msgs).compress # <<>>
  PROVE  /\ Split(msgs).compress = Among(msgs, Older(msgs))
         /\ Split(msgs).keep = Among(msgs, DOMAIN msgs \ Older(msgs))
         /\ ~(Len(UserTurns(msgs)) <= KeepTurns)
         /\ Older(msgs) \in SUBSET DOMAIN msgs
         /\ Split(msgs).compress \in Seq(Message) /\ Split(msgs).keep \in Seq(Message)
<1>1. ~(Len(UserTurns(msgs)) <= KeepTurns)
  BY DEF Split
<1>2. /\ Split(msgs).compress = Among(msgs, Older(msgs))
      /\ Split(msgs).keep = Among(msgs, DOMAIN msgs \ Older(msgs))
  BY <1>1 DEF Split, Older
<1>3. Older(msgs) \in SUBSET DOMAIN msgs
  BY SplitIndexIs, SeqFacts DEF Older
<1>4. DOMAIN msgs \ Older(msgs) \in SUBSET DOMAIN msgs
  OBVIOUS
<1> QED
  BY <1>1, <1>2, <1>3, <1>4, Selected

LEMMA PutManyParts ==
  ASSUME NEW held \in Seq(Message), NEW new \in Seq(Message)
  PROVE  LET P == {i \in DOMAIN new : new[i].id = NoId \/ new[i].id \notin Ids(held)} IN
         /\ Among(new, P) \in Seq(Message) /\ P \in SUBSET DOMAIN new
         /\ PutMany(held, new) = held \o Among(new, P)
         /\ PutMany(held, new) \in Seq(Message)
<1> DEFINE P == {i \in DOMAIN new : new[i].id = NoId \/ new[i].id \notin Ids(held)}
<1>1. P \in SUBSET DOMAIN new
  OBVIOUS
<1>2. Among(new, P) \in Seq(Message)
  BY <1>1, Selected
<1>3. PutMany(held, new) = held \o Among(new, P)
  BY DEF PutMany
<1> QED
  BY <1>1, <1>2, <1>3, ConcatProperties

-----------------------------------------------------------------------------
(* The legacy cuts.                                                        *)

\* A message the compressor has written itself.
Blank(m) ==
  /\ m.id = NoId /\ m.turn = NoTurn /\ m.str /\ m.uses = {} /\ m.results = {} /\ m.body = Synthetic
  /\ ~m.text

LEMMA Written ==
  /\ SummaryMessage \in Message /\ Blank(SummaryMessage)
  /\ \A role \in {"user", "assistant"} : Placeholder(role) \in Message /\ Blank(Placeholder(role))
<1>1. NoId \in Nat /\ NoTurn \in Int /\ Synthetic \in Nat
  BY DEF NoId, NoTurn, Synthetic
<1>2. SummaryMessage \in Message
  BY <1>1, NewMessages DEF SummaryMessage
<1>3. SummaryMessage = [id |-> NoId, turn |-> NoTurn, role |-> "user", str |-> TRUE, text |-> FALSE,
                        uses |-> {}, results |-> {}, body |-> Synthetic]
  BY DEF SummaryMessage, UserInput
<1>4. ASSUME NEW role \in {"user", "assistant"}
      PROVE  Placeholder(role) \in Message /\ Blank(Placeholder(role))
  BY <1>1, <1>3 DEF Placeholder, Blank, Message
<1> QED
  BY <1>2, <1>3, <1>4 DEF Blank

LEMMA CleanIs ==
  ASSUME NEW m \in Message, NEW matched \in SUBSET Nat
  PROVE  /\ Clean(m, matched) \in Message
         /\ m.str => Clean(m, matched) = m
         /\ Clean(m, matched).role = m.role /\ Clean(m, matched).str = m.str
         /\ Clean(m, matched).text = m.text /\ Clean(m, matched).body = m.body
         /\ ~m.str => /\ Clean(m, matched).id = NoId /\ Clean(m, matched).turn = NoTurn
                      /\ Clean(m, matched).uses = m.uses \cap matched
                      /\ Clean(m, matched).results = m.results \cap matched
<1>1. NoId \in Nat /\ NoTurn \in Int
  BY DEF NoId, NoTurn
<1>2. CASE m.str
  BY <1>2 DEF Clean
<1>3. CASE ~m.str
  <2>1. Clean(m, matched) = [m EXCEPT !.id = NoId, !.turn = NoTurn,
                                      !.uses = @ \cap matched, !.results = @ \cap matched]
    BY <1>3 DEF Clean
  <2>2. m = [id |-> m.id, turn |-> m.turn, role |-> m.role, str |-> m.str, text |-> m.text,
             uses |-> m.uses, results |-> m.results, body |-> m.body]
    BY DEF Message
  <2>3. Clean(m, matched) =
          [id |-> NoId, turn |-> NoTurn, role |-> m.role, str |-> m.str, text |-> m.text,
           uses |-> m.uses \cap matched, results |-> m.results \cap matched, body |-> m.body]
    BY <2>1, <2>2
  <2>4. m.uses \cap matched \in SUBSET Int /\ m.results \cap matched \in SUBSET Nat
    BY MessageFields
  <2> QED
    BY <1>1, <1>3, <2>3, <2>4, MessageFields DEF Message
<1> QED
  BY <1>2, <1>3

\* A list out has elements of src, in their order, and messages of the compressor;
\* from gives the position of an element in src, or 0.
Woven(out, src, from) ==
  /\ out \in Seq(Message) /\ from \in [DOMAIN out -> 0..Len(src)]
  /\ \A k \in DOMAIN out : from[k] = 0 => Blank(out[k])
  /\ \A k \in DOMAIN out : from[k] # 0 => out[k] = src[from[k]]
  /\ \A k, l \in DOMAIN out : k < l /\ from[k] # 0 /\ from[l] # 0 => from[k] < from[l]

\* Neighbours i and i + 1 of src are neighbours in out.
Together(out, from, i) ==
  \E k \in DOMAIN out : k + 1 \in DOMAIN out /\ from[k] = i /\ from[k + 1] = i + 1

LEMMA AlternateIs ==
  ASSUME NEW msgs \in Seq(Message)
  PROVE  \E from : /\ Woven(Alternate(msgs), msgs, from)
                   /\ \A i \in 1..Len(msgs) - 1 :
                        msgs[i].role # msgs[i + 1].role => Together(Alternate(msgs), from, i)
<1> DEFINE n == Len(msgs)
           other(role) == IF role = "assistant" THEN "user" ELSE "assistant"
           twins == {i \in 2..n : msgs[i - 1].role = msgs[i].role}
           spaced == [k \in 1..2 * n |->
                        IF k % 2 = 0 THEN msgs[k \div 2] ELSE Placeholder(other(msgs[(k + 1) \div 2].role))]
           P == {k \in DOMAIN spaced : k % 2 = 0 \/ (k + 1) \div 2 \in twins}
           out == Among(spaced, P)
           from == [k \in DOMAIN out |-> IF Position(P, k) % 2 = 0 THEN Position(P, k) \div 2 ELSE 0]
<1>0. n \in Nat /\ DOMAIN msgs = 1..n /\ \A i \in 1..n : msgs[i] \in Message
  BY SeqFacts
<1>1. Alternate(msgs) = out
  BY DEF Alternate
<1> HIDE DEF n
<1>2. 2 * n \in Nat /\ DOMAIN spaced = 1..2 * n
  BY <1>0
<1>3. ASSUME NEW k \in 1..2 * n
      PROVE  /\ k \in Nat
             /\ k % 2 = 0 => k \div 2 \in 1..n /\ k = 2 * (k \div 2) /\ spaced[k] = msgs[k \div 2]
             /\ k % 2 # 0 => spaced[k] \in Message /\ Blank(spaced[k])
  <2>1. k \in Nat /\ (k % 2 = 0 => k \div 2 \in 1..n /\ k = 2 * (k \div 2))
    BY <1>0
  <2>2. k % 2 = 0 => spaced[k] = msgs[k \div 2]
    OBVIOUS
  <2>3. \A role : other(role) \in {"user", "assistant"}
    OBVIOUS
  <2>4. k % 2 # 0 => spaced[k] = Placeholder(other(msgs[(k + 1) \div 2].role))
    OBVIOUS
  <2> HIDE DEF spaced, other
  <2> QED
    BY <2>1, <2>2, <2>3, <2>4, Written
<1>4. \A k \in 1..2 * n : spaced[k] \in Message
  BY <1>0, <1>3
<1>5. spaced \in Seq(Message)
  <2>1. spaced = [k \in 1..2 * n |-> spaced[k]]
    OBVIOUS
  <2> HIDE DEF spaced
  <2> QED
    BY <1>2, <1>4, <2>1
<1>6. P \in SUBSET DOMAIN spaced /\ \A k \in P : k \in 1..2 * n
  BY <1>2
<1>7. ASSUME NEW i \in 1..n
      PROVE  2 * i \in P /\ (2 * i) \div 2 = i /\ (2 * i) % 2 = 0
  BY <1>0, <1>2
<1>8. ASSUME NEW i \in 1..n - 1, msgs[i].role # msgs[i + 1].role
      PROVE  2 * i + 1 \notin P
  <2>1. (2 * i + 1) % 2 # 0 /\ (2 * i + 1 + 1) \div 2 = i + 1 /\ (i + 1) - 1 = i
    OBVIOUS
  <2>2. i + 1 \notin twins
    BY <1>8, <2>1
  <2> QED
    BY <2>1, <2>2
<1> HIDE DEF spaced, P, twins, other
<1>9. /\ out \in Seq(Message)
      /\ \A k \in DOMAIN out : Position(P, k) \in P /\ out[k] = spaced[Position(P, k)]
      /\ \A k, l \in DOMAIN out : k < l => Position(P, k) < Position(P, l)
      /\ \A k \in P : Rank(P, k) \in DOMAIN out /\ out[Rank(P, k)] = spaced[k]
  BY <1>5, <1>6, Selected
<1>10. \A k \in P : Position(P, Rank(P, k)) = k
  BY <1>2, <1>6, Positions
<1> HIDE DEF out
<1>11. \A k \in DOMAIN out : Position(P, k) \in 1..2 * n
  BY <1>6, <1>9
<1>12. ASSUME NEW k \in DOMAIN out
       PROVE  /\ from[k] \in 0..n
              /\ from[k] = 0 => Blank(out[k])
              /\ from[k] # 0 => out[k] = msgs[from[k]] /\ Position(P, k) = 2 * from[k]
  <2> DEFINE p == Position(P, k)
  <2>1. from[k] = IF p % 2 = 0 THEN p \div 2 ELSE 0
    OBVIOUS
  <2>2. p \in 1..2 * n /\ out[k] = spaced[p]
    BY <1>9, <1>11
  <2> HIDE DEF p, from
  <2> QED
    BY <1>0, <1>3, <2>1, <2>2 DEF p
<1>13. from \in [DOMAIN out -> 0..n]
  <2>1. from = [k \in DOMAIN out |-> from[k]]
    OBVIOUS
  <2> HIDE DEF from
  <2> QED
    BY <1>12, <2>1
<1>14. \A i \in 1..n : from[Rank(P, 2 * i)] = i
  BY <1>7, <1>9, <1>10
<1> HIDE DEF from
<1>15. ASSUME NEW k \in DOMAIN out, NEW l \in DOMAIN out, k < l, from[k] # 0, from[l] # 0
       PROVE  from[k] < from[l]
  <2>1. Position(P, k) < Position(P, l) /\ Position(P, k) = 2 * from[k] /\ Position(P, l) = 2 * from[l]
        /\ from[k] \in Nat /\ from[l] \in Nat
    BY <1>0, <1>9, <1>12, <1>15
  <2> QED
    BY <2>1
<1>16. Woven(out, msgs, from)
  BY <1>9, <1>12, <1>13, <1>15 DEF Woven, n
<1>17. ASSUME NEW i \in 1..n - 1, msgs[i].role # msgs[i + 1].role
       PROVE  Together(out, from, i)
  <2>1. i \in 1..n /\ i + 1 \in 1..n /\ 2 * (i + 1) = 2 * i + 2 /\ 2 * i < 2 * (i + 1)
    BY <1>0
  <2>2. 2 * i \in P /\ 2 * (i + 1) \in P
    BY <1>7, <2>1
  <2>3. ASSUME NEW j \in P, 2 * i < j, j < 2 * (i + 1) PROVE FALSE
    <3>1. j = 2 * i + 1
      BY <1>6, <2>1, <2>3
    <3> QED
      BY <1>8, <1>17, <2>3, <3>1
  <2>4. P \in SUBSET (1..2 * n)
    BY <1>6
  <2>5. Rank(P, 2 * (i + 1)) = Rank(P, 2 * i) + 1
    BY <1>2, <2>1, <2>2, <2>3, <2>4, NextRank
  <2> QED
    BY <1>9, <1>14, <2>1, <2>2, <2>5 DEF Together
<1> QED
  BY <1>1, <1>16, <1>17 DEF n

Cleaned(src) == [i \in DOMAIN src |-> Clean(src[i], Matched(src))]

LEMMA CleanedIs ==
  ASSUME NEW src \in Seq(Message)
  PROVE  /\ Cleaned(src) \in Seq(Message) /\ Len(Cleaned(src)) = Len(src)
         /\ Matched(src) \in SUBSET Nat
         /\ \A i \in DOMAIN src : Cleaned(src)[i] = Clean(src[i], Matched(src))
<1>1. Matched(src) \in SUBSET Nat
  <2>1. \A i \in DOMAIN src : src[i].results \in SUBSET Nat
    BY SeqFacts, MessageFields
  <2> QED
    BY <2>1 DEF Matched
<1>2. \A i \in DOMAIN src : Clean(src[i], Matched(src)) \in Message
  BY <1>1, SeqFacts, CleanIs
<1>3. Cleaned(src) = [i \in 1..Len(src) |-> Clean(src[i], Matched(src))]
  BY SeqFacts DEF Cleaned
<1>4. Len(src) \in Nat /\ DOMAIN src = 1..Len(src)
  BY SeqFacts
<1> DEFINE c(i) == Clean(src[i], Matched(src))
<1>5. \A i \in 1..Len(src) : c(i) \in Message
  BY <1>2, <1>4
<1> HIDE DEF c
<1>6. [i \in 1..Len(src) |-> c(i)] \in Seq(Message)
  BY <1>4, <1>5
<1> QED
  BY <1>1, <1>3, <1>4, <1>6 DEF c

\* The repair keeps some of the cleaned messages and parts no two that have content
\* and different roles.
LEMMA SanitizeIs ==
  ASSUME NEW src \in Seq(Message)
  PROVE  \E from :
           /\ Woven(Sanitize(src), Cleaned(src), from)
           /\ \A i \in 1..Len(src) - 1 :
                HasContent(Cleaned(src)[i]) /\ HasContent(Cleaned(src)[i + 1])
                /\ Cleaned(src)[i].role # Cleaned(src)[i + 1].role
                => Together(Sanitize(src), from, i)
<1> DEFINE c == Cleaned(src)
           P == {i \in DOMAIN c : HasContent(c[i])}
           mid == Among(c, P)
           out == Alternate(mid)
<1>1. Sanitize(src) = out
  BY DEF Sanitize, Cleaned
<1>2. c \in Seq(Message) /\ DOMAIN c = 1..Len(src) /\ Len(c) = Len(src) /\ Len(src) \in Nat
  BY CleanedIs, SeqFacts
<1> HIDE DEF c
<1>3. P \in SUBSET DOMAIN c /\ P \in SUBSET (1..Len(src))
  BY <1>2
<1>4. \A i \in P : i \in 1..Len(src)
  BY <1>3
<1> HIDE DEF P
<1>5. /\ mid \in Seq(Message) /\ DOMAIN mid = 1..Len(mid)
      /\ \A k \in DOMAIN mid : Position(P, k) \in P /\ mid[k] = c[Position(P, k)]
      /\ \A k, l \in DOMAIN mid : k < l => Position(P, k) < Position(P, l)
      /\ \A i \in P : Rank(P, i) \in DOMAIN mid /\ mid[Rank(P, i)] = c[i]
  BY <1>2, <1>3, Selected
<1>6. \A i \in P : Position(P, Rank(P, i)) = i
  BY <1>2, <1>3, Positions
<1> HIDE DEF mid
<1>7. PICK of : /\ Woven(out, mid, of)
                /\ \A i \in 1..Len(mid) - 1 : mid[i].role # mid[i + 1].role => Together(out, of, i)
  BY <1>5, AlternateIs
<1> HIDE DEF out
<1> DEFINE from == [k \in DOMAIN out |-> IF of[k] = 0 THEN 0 ELSE Position(P, of[k])]
<1>8. /\ out \in Seq(Message)
      /\ \A k \in DOMAIN out : of[k] \in 0..Len(mid)
      /\ \A k \in DOMAIN out : of[k] = 0 => Blank(out[k])
      /\ \A k \in DOMAIN out : of[k] # 0 => out[k] = mid[of[k]]
      /\ \A k, l \in DOMAIN out : k < l /\ of[k] # 0 /\ of[l] # 0 => of[k] < of[l]
  BY <1>7 DEF Woven
<1>9. ASSUME NEW k \in DOMAIN out
      PROVE  /\ from[k] \in 0..Len(c)
             /\ from[k] = 0 <=> of[k] = 0
             /\ from[k] # 0 => of[k] \in DOMAIN mid /\ from[k] = Position(P, of[k])
                               /\ out[k] = c[from[k]]
  <2>1. from[k] = IF of[k] = 0 THEN 0 ELSE Position(P, of[k])
    OBVIOUS
  <2>2. of[k] \in 0..Len(mid) /\ Len(mid) \in Nat
    BY <1>5, <1>8
  <2>3. of[k] # 0 => of[k] \in DOMAIN mid /\ out[k] = mid[of[k]]
    BY <1>5, <1>8, <2>2
  <2>4. of[k] # 0 => Position(P, of[k]) \in 1..Len(src) /\ out[k] = c[Position(P, of[k])]
    BY <1>4, <1>5, <2>3
  <2> HIDE DEF from
  <2> QED
    BY <1>2, <2>1, <2>2, <2>3, <2>4
<1>10. from \in [DOMAIN out -> 0..Len(c)]
  <2>1. from = [k \in DOMAIN out |-> from[k]]
    OBVIOUS
  <2> HIDE DEF from
  <2> QED
    BY <1>9, <2>1
<1>11. \A k \in DOMAIN out : of[k] # 0 => from[k] = Position(P, of[k])
  OBVIOUS
<1> HIDE DEF from
<1>12. ASSUME NEW k \in DOMAIN out, NEW l \in DOMAIN out, k < l, from[k] # 0, from[l] # 0
       PROVE  from[k] < from[l]
  <2>1. of[k] < of[l]
    BY <1>8, <1>9, <1>12
  <2> QED
    BY <1>5, <1>9, <1>12, <2>1
<1>13. Woven(out, c, from)
  BY <1>8, <1>9, <1>10, <1>12 DEF Woven
<1>14. ASSUME NEW i \in 1..Len(src) - 1, HasContent(c[i]), HasContent(c[i + 1]), c[i].role # c[i + 1].role
       PROVE  Together(out, from, i)
  <2>1. i \in 1..Len(src) /\ i + 1 \in 1..Len(src) /\ i < i + 1 /\ i \in Nat
        /\ \A j \in Nat : ~(i < j /\ j < i + 1)
    BY <1>2
  <2>2. i \in P /\ i + 1 \in P
    BY <1>2, <1>14, <2>1 DEF P
  <2>3. \A j \in P : ~(i < j /\ j < i + 1)
    BY <1>4, <2>1
  <2>4. Rank(P, i + 1) = Rank(P, i) + 1
    BY <1>2, <1>3, <2>1, <2>2, <2>3, NextRank
  <2> DEFINE a == Rank(P, i)
  <2>5. a \in 1..Len(mid) /\ a + 1 \in 1..Len(mid) /\ mid[a] = c[i] /\ mid[a + 1] = c[i + 1]
        /\ Position(P, a) = i /\ Position(P, a + 1) = i + 1
    BY <1>5, <1>6, <2>2, <2>4
  <2> HIDE DEF a
  <2>6. a \in 1..Len(mid) - 1 /\ a # 0 /\ a + 1 # 0
    BY <2>5, <1>5, SeqFacts
  <2>7. PICK k \in DOMAIN out : k + 1 \in DOMAIN out /\ of[k] = a /\ of[k + 1] = a + 1
    BY <1>7, <1>14, <2>5, <2>6 DEF Together
  <2> QED
    BY <1>11, <2>5, <2>6, <2>7 DEF Together
<1> QED
  BY <1>1, <1>13, <1>14 DEF c

\* Neighbours of msgs that are both in src are neighbours there.
Close(src, at) ==
  \A i, j \in DOMAIN src : at[i] # 0 /\ at[j] = at[i] + 1 => j = i + 1

LEMMA LastOnes ==
  ASSUME NEW msgs \in Seq(Message), NEW m \in Nat, m <= Len(msgs)
  PROVE  \E d \in m..Len(msgs) :
           LET r == LastN(msgs, Lesser(KeepRecent, Len(msgs) - m)) IN
           r \in Seq(Message) /\ Len(r) = Len(msgs) - d /\ \A i \in 1..Len(msgs) - d : r[i] = msgs[d + i]
<1> DEFINE n == Lesser(KeepRecent, Len(msgs) - m)
           d == Len(msgs) - n
           r == SubSeq(msgs, d + 1, Len(msgs))
<1>1. Len(msgs) \in Nat /\ KeepRecent \in Nat
  BY KeepAssumption, SeqFacts
<1>2. n \in 0..Len(msgs) - m
  BY <1>1 DEF Lesser
<1>3. LastN(msgs, n) = r
  BY DEF LastN
<1> HIDE DEF n
<1>4. d \in m..Len(msgs) /\ d \in 0..Len(msgs)
  BY <1>1, <1>2
<1> HIDE DEF d
<1>5. r \in Seq(Message) /\ DOMAIN r = 1..Len(msgs) - d /\ \A i \in 1..Len(msgs) - d : r[i] = msgs[d + i]
  BY <1>4, Rest
<1> HIDE DEF r
<1>6. Len(r) \in Nat /\ DOMAIN r = 1..Len(r) /\ Len(msgs) - d \in Nat
  BY <1>1, <1>4, <1>5, SeqFacts
<1>7. Len(r) = Len(msgs) - d
  BY <1>5, <1>6
<1> QED
  BY <1>3, <1>4, <1>5, <1>7 DEF n

LEMMA TruncateIs ==
  ASSUME NEW msgs \in Seq(Message), Len(msgs) >= 3
  PROVE  \E src, at : TruncateOldest(msgs) = Sanitize(src) /\ Woven(src, msgs, at) /\ Close(src, at)
<1> DEFINE r == LastN(msgs, Lesser(KeepRecent, Len(msgs) - 1))
           src == <<msgs[1]>> \o r
<1>1. Len(msgs) \in Nat /\ 1 <= Len(msgs) /\ \A i \in 1..Len(msgs) : msgs[i] \in Message
  BY SeqFacts
<1>2. PICK d \in 1..Len(msgs) :
        r \in Seq(Message) /\ Len(r) = Len(msgs) - d /\ \A i \in 1..Len(msgs) - d : r[i] = msgs[d + i]
  <2> HIDE DEF src
  <2>1. 1 \in Nat
    OBVIOUS
  <2> QED
    BY <1>1, <2>1, LastOnes
<1>3. TruncateOldest(msgs) = Sanitize(src)
  BY <1>1 DEF TruncateOldest
<1> HIDE DEF r
<1> DEFINE at == [i \in 1..Len(msgs) - d + 1 |-> IF i = 1 THEN 1 ELSE d + i - 1]
<1>4. <<msgs[1]>> \in Seq(Message) /\ Len(<<msgs[1]>>) = 1 /\ <<msgs[1]>>[1] = msgs[1]
  BY <1>1
<1>5. /\ src \in Seq(Message) /\ Len(src) = 1 + Len(r)
      /\ \A i \in 1..1 + Len(r) : src[i] = IF i <= 1 THEN <<msgs[1]>>[i] ELSE r[i - 1]
  <2> DEFINE f == <<msgs[1]>>
  <2> HIDE DEF f
  <2>1. Len(f) = 1 /\ f \in Seq(Message)
    BY <1>4 DEF f
  <2>2. /\ f \o r \in Seq(Message) /\ Len(f \o r) = Len(f) + Len(r)
        /\ \A i \in 1..Len(f) + Len(r) : (f \o r)[i] = IF i <= Len(f) THEN f[i] ELSE r[i - Len(f)]
    BY <1>2, <2>1, ConcatProperties
  <2> QED
    BY <2>1, <2>2 DEF f
<1> HIDE DEF src
<1>6. DOMAIN src = 1..Len(msgs) - d + 1 /\ d \in Nat /\ 1 <= d
  BY <1>1, <1>2, <1>5, SeqFacts
<1>7. ASSUME NEW i \in DOMAIN src
      PROVE  at[i] \in 1..Len(msgs) /\ src[i] = msgs[at[i]]
  <2>1. CASE i = 1
    BY <1>1, <1>2, <1>4, <1>5, <1>6, <2>1
  <2>2. CASE i # 1
    <3>1. i - 1 \in 1..Len(msgs) - d /\ i \in 1..1 + Len(r) /\ ~(i <= 1)
      BY <1>1, <1>2, <1>6, <2>2
    <3>2. src[i] = r[i - 1]
      BY <1>5, <3>1
    <3>3. r[i - 1] = msgs[d + (i - 1)]
      BY <1>2, <3>1
    <3>4. at[i] = d + i - 1 /\ d + i - 1 = d + (i - 1)
      BY <1>6, <2>2, <3>1
    <3> QED
      BY <1>1, <1>6, <3>1, <3>2, <3>3, <3>4
  <2> QED
    BY <2>1, <2>2
<1>8. at \in [DOMAIN src -> 0..Len(msgs)]
  <2>1. \A i \in DOMAIN src : at[i] \in 0..Len(msgs)
    BY <1>7
  <2>2. at = [i \in DOMAIN src |-> at[i]]
    BY <1>6
  <2> HIDE DEF at
  <2> QED
    BY <2>1, <2>2
<1>9. \A i \in DOMAIN src : i \in Nat /\ at[i] = IF i = 1 THEN 1 ELSE d + i - 1
  BY <1>6
<1> HIDE DEF at
<1>10. ASSUME NEW i \in DOMAIN src, NEW j \in DOMAIN src
       PROVE  (i < j => at[i] < at[j]) /\ (at[j] = at[i] + 1 => j = i + 1)
  <2>1. i \in Nat /\ j \in Nat /\ 1 <= i /\ 1 <= j
    BY <1>6
  <2>2. at[i] = (IF i = 1 THEN 1 ELSE d + i - 1) /\ at[j] = (IF j = 1 THEN 1 ELSE d + j - 1)
    BY <1>9
  <2>3. d \in Nat /\ 1 <= d
    BY <1>6
  <2> HIDE DEF src
  <2> QED
    BY <2>1, <2>2, <2>3
<1>11. Woven(src, msgs, at)
  BY <1>5, <1>7, <1>8, <1>10 DEF Woven
<1>12. Close(src, at)
  BY <1>10 DEF Close
<1> QED
  BY <1>3, <1>11, <1>12

LEMMA SummarizeIs ==
  ASSUME NEW msgs \in Seq(Message), Len(msgs) >= 3
  PROVE  \E src, at : Summarize(msgs) = Sanitize(src) /\ Woven(src, msgs, at) /\ Close(src, at)
<1> DEFINE r == LastN(msgs, Lesser(KeepRecent, Len(msgs) - 2))
           f == <<msgs[1], SummaryMessage>>
           src == f \o r
<1>1. Len(msgs) \in Nat /\ 2 <= Len(msgs) /\ \A i \in 1..Len(msgs) : msgs[i] \in Message
  BY SeqFacts
<1>2. PICK d \in 2..Len(msgs) :
        r \in Seq(Message) /\ Len(r) = Len(msgs) - d /\ \A i \in 1..Len(msgs) - d : r[i] = msgs[d + i]
  <2> HIDE DEF f, src
  <2>1. 2 \in Nat
    OBVIOUS
  <2> QED
    BY <1>1, <2>1, LastOnes
<1>3. Summarize(msgs) = Sanitize(src)
  BY <1>1 DEF Summarize
<1> HIDE DEF r
<1> DEFINE at == [i \in 1..Len(msgs) - d + 2 |-> IF i = 1 THEN 1 ELSE IF i = 2 THEN 0 ELSE d + i - 2]
<1>4. f \in Seq(Message) /\ Len(f) = 2 /\ f[1] = msgs[1] /\ f[2] = SummaryMessage
  BY <1>1, Written
<1> HIDE DEF f
<1>5. /\ src \in Seq(Message) /\ Len(src) = 2 + Len(r)
      /\ \A i \in 1..2 + Len(r) : src[i] = IF i <= 2 THEN f[i] ELSE r[i - 2]
  <2>1. /\ f \o r \in Seq(Message) /\ Len(f \o r) = Len(f) + Len(r)
        /\ \A i \in 1..Len(f) + Len(r) : (f \o r)[i] = IF i <= Len(f) THEN f[i] ELSE r[i - Len(f)]
    BY <1>2, <1>4, ConcatProperties
  <2> QED
    BY <1>4, <2>1
<1> HIDE DEF src
<1>6. DOMAIN src = 1..Len(msgs) - d + 2 /\ d \in Nat /\ 2 <= d
  BY <1>1, <1>2, <1>5, SeqFacts
<1>7. ASSUME NEW i \in DOMAIN src
      PROVE  /\ at[i] \in 0..Len(msgs)
             /\ at[i] = 0 => Blank(src[i])
             /\ at[i] # 0 => src[i] = msgs[at[i]]
  <2>1. CASE i = 1
    BY <1>1, <1>2, <1>4, <1>5, <1>6, <2>1
  <2>2. CASE i = 2
    <3>1. src[i] = SummaryMessage
      BY <1>1, <1>2, <1>4, <1>5, <1>6, <2>2, SMTT(30)
    <3>2. at[i] = 0
      BY <1>1, <1>2, <1>6, <2>2, SMTT(30)
    <3> QED
      BY <1>1, <3>1, <3>2, Written
  <2>3. CASE i # 1 /\ i # 2
    <3>1. i - 2 \in 1..Len(msgs) - d /\ i \in 1..2 + Len(r) /\ ~(i <= 2)
      BY <1>1, <1>2, <1>6, <2>3
    <3>2. src[i] = r[i - 2]
      BY <1>5, <3>1
    <3>3. r[i - 2] = msgs[d + (i - 2)]
      BY <1>2, <3>1
    <3>4. at[i] = d + i - 2 /\ d + i - 2 = d + (i - 2)
      BY <1>6, <2>3, <3>1
    <3> QED
      BY <1>1, <1>6, <3>1, <3>2, <3>3, <3>4, SMTT(30)
  <2> QED
    BY <2>1, <2>2, <2>3
<1>8. at \in [DOMAIN src -> 0..Len(msgs)]
  <2>1. \A i \in DOMAIN src : at[i] \in 0..Len(msgs)
    BY <1>7
  <2>2. at = [i \in DOMAIN src |-> at[i]]
    BY <1>6
  <2> HIDE DEF at
  <2> QED
    BY <2>1, <2>2
<1>9. \A i \in DOMAIN src : at[i] = IF i = 1 THEN 1 ELSE IF i = 2 THEN 0 ELSE d + i - 2
  BY <1>6
<1> HIDE DEF at
<1>10. ASSUME NEW i \in DOMAIN src, NEW j \in DOMAIN src, at[i] # 0
       PROVE  (i < j /\ at[j] # 0 => at[i] < at[j]) /\ (at[j] = at[i] + 1 => j = i + 1)
  <2>1. i \in Nat /\ j \in Nat /\ 1 <= i /\ 1 <= j
    BY <1>6
  <2>2. at[i] = IF i = 1 THEN 1 ELSE IF i = 2 THEN 0 ELSE d + i - 2
    BY <1>9
  <2>3. at[j] = IF j = 1 THEN 1 ELSE IF j = 2 THEN 0 ELSE d + j - 2
    BY <1>9
  <2>4. d \in Nat /\ 2 <= d
    BY <1>6
  <2> QED
    BY <1>10, <2>1, <2>2, <2>3, <2>4
<1>11. Woven(src, msgs, at)
  BY <1>5, <1>7, <1>8, <1>10 DEF Woven
<1>12. Close(src, at)
  BY <1>10 DEF Close
<1> QED
  BY <1>3, <1>11, <1>12

\* What the repair leaves of the message o.
Pruned(m, o) ==
  /\ m.role = o.role /\ m.body = o.body /\ m.str = o.str
  /\ o.str => m = o
  /\ ~o.str => m.id = NoId /\ m.turn = NoTurn /\ m.uses \subseteq o.uses /\ m.results \subseteq o.results

\* The list out holds the remains of messages of msgs, in their order, and messages of
\* the compressor.
Remains(out, msgs, of) ==
  /\ out \in Seq(Message) /\ of \in [DOMAIN out -> 0..Len(msgs)]
  /\ \A k \in DOMAIN out : of[k] = 0 => Blank(out[k])
  /\ \A k \in DOMAIN out : of[k] # 0 => Pruned(out[k], msgs[of[k]])
  /\ \A k, l \in DOMAIN out : k < l /\ of[k] # 0 /\ of[l] # 0 => of[k] < of[l]

\* Every tool request is the assistant's, its results are the user's and of the same
\* turn, right behind it; no call is made twice. Calls that ran go up to n, the others
\* down to -n.
Wholesome(msgs, n) ==
  /\ PairsIntact(msgs)
  /\ \A i \in DOMAIN msgs :
       /\ msgs[i].uses # {} => msgs[i].role = "assistant" /\ ~msgs[i].str
       /\ Ran(msgs[i]) # {} => msgs[i + 1].turn = msgs[i].turn
       /\ msgs[i].results # {} => msgs[i].role = "user" /\ ~msgs[i].str
       /\ msgs[i].uses \subseteq (-n)..n
  /\ \A i, j \in DOMAIN msgs : i # j => msgs[i].uses \cap msgs[j].uses = {}

\* A repaired list src that holds messages of msgs.
LEMMA RepairedRemains ==
  ASSUME NEW msgs \in Seq(Message), NEW src, NEW at, Woven(src, msgs, at),
         NEW out, NEW from, Woven(out, Cleaned(src), from)
  PROVE  \E of :
           /\ Remains(out, msgs, of)
           /\ \A k \in DOMAIN out : of[k] # 0 =>
                /\ from[k] \in DOMAIN src /\ at[from[k]] = of[k] /\ src[from[k]] = msgs[of[k]]
                /\ out[k] = Clean(src[from[k]], Matched(src))
<1> DEFINE of == [k \in DOMAIN out |-> IF from[k] = 0 THEN 0 ELSE at[from[k]]]
<1>1. /\ src \in Seq(Message) /\ DOMAIN src = 1..Len(src) /\ Len(src) \in Nat
      /\ \A i \in DOMAIN src : src[i] \in Message
      /\ \A i \in DOMAIN src : at[i] \in 0..Len(msgs)
      /\ \A i \in DOMAIN src : at[i] = 0 => Blank(src[i])
      /\ \A i \in DOMAIN src : at[i] # 0 => src[i] = msgs[at[i]]
      /\ \A i, j \in DOMAIN src : i < j /\ at[i] # 0 /\ at[j] # 0 => at[i] < at[j]
  <2>1. src \in Seq(Message)
    BY DEF Woven
  <2> QED
    BY <2>1, SeqFacts DEF Woven
<1>2. Len(Cleaned(src)) = Len(src) /\ Matched(src) \in SUBSET Nat
      /\ \A i \in DOMAIN src : Cleaned(src)[i] = Clean(src[i], Matched(src))
  BY <1>1, CleanedIs
<1>3. /\ out \in Seq(Message)
      /\ \A k \in DOMAIN out : from[k] \in 0..Len(src)
      /\ \A k \in DOMAIN out : from[k] = 0 => Blank(out[k])
      /\ \A k \in DOMAIN out : from[k] # 0 => out[k] = Cleaned(src)[from[k]]
      /\ \A k, l \in DOMAIN out : k < l /\ from[k] # 0 /\ from[l] # 0 => from[k] < from[l]
  BY <1>2 DEF Woven
<1>4. \A k \in DOMAIN out : of[k] = IF from[k] = 0 THEN 0 ELSE at[from[k]]
  OBVIOUS
<1>5. DOMAIN of = DOMAIN out /\ of = [k \in DOMAIN out |-> of[k]]
  OBVIOUS
<1> HIDE DEF of
<1>6. \A k \in DOMAIN out : from[k] # 0 => from[k] \in DOMAIN src
  BY <1>1, <1>3
<1>7. ASSUME NEW k \in DOMAIN out
      PROVE  /\ of[k] \in 0..Len(msgs)
             /\ of[k] = 0 => Blank(out[k])
             /\ of[k] # 0 => /\ Pruned(out[k], msgs[of[k]]) /\ from[k] # 0
                             /\ from[k] \in DOMAIN src /\ at[from[k]] = of[k] /\ src[from[k]] = msgs[of[k]]
                             /\ out[k] = Clean(src[from[k]], Matched(src))
  <2>1. CASE from[k] = 0
    <3>1. of[k] = 0
      BY <1>4, <2>1
    <3> QED
      BY <1>3, <2>1, <3>1, SeqFacts
  <2>2. CASE from[k] # 0
    <3> DEFINE i == from[k]
    <3>1. i \in DOMAIN src /\ of[k] = at[i] /\ out[k] = Clean(src[i], Matched(src))
      BY <1>2, <1>3, <1>4, <1>6, <2>2
    <3> HIDE DEF i
    <3>2. CASE at[i] = 0
      <4>1. Blank(src[i])
        BY <1>1, <3>1, <3>2
      <4>2. out[k] = src[i]
        BY <1>1, <1>2, <3>1, <4>1, CleanIs DEF Blank
      <4> QED
        BY <1>1, <3>1, <3>2, <4>1, <4>2
    <3>3. CASE at[i] # 0
      <4>1. src[i] = msgs[at[i]] /\ src[i] \in Message
        BY <1>1, <3>1, <3>3
      <4>2. Pruned(out[k], src[i])
        BY <1>2, <3>1, <4>1, CleanIs DEF Pruned
      <4> QED
        BY <1>1, <2>2, <3>1, <3>3, <4>1, <4>2 DEF i
    <3> QED
      BY <3>2, <3>3
  <2> QED
    BY <2>1, <2>2
<1>8. of \in [DOMAIN out -> 0..Len(msgs)]
  BY <1>5, <1>7
<1>9. ASSUME NEW k \in DOMAIN out, NEW l \in DOMAIN out, k < l, of[k] # 0, of[l] # 0
      PROVE  of[k] < of[l]
  <2>1. from[k] < from[l] /\ from[k] \in DOMAIN src /\ from[l] \in DOMAIN src
        /\ of[k] = at[from[k]] /\ of[l] = at[from[l]]
    BY <1>3, <1>7, <1>9
  <2> QED
    BY <1>1, <1>9, <2>1
<1>10. Remains(out, msgs, of)
  BY <1>3, <1>7, <1>8, <1>9 DEF Remains
<1> QED
  BY <1>7, <1>10

\* Of a request and its results the repair keeps both or neither, and of calls that
\* were left unanswered nothing.
LEMMA RepairedWholesome ==
  ASSUME NEW msgs \in Seq(Message), NEW n, Wholesome(msgs, n),
         NEW src, NEW at, Woven(src, msgs, at), Close(src, at),
         NEW out, NEW from, Woven(out, Cleaned(src), from),
         \A i \in 1..Len(src) - 1 :
            HasContent(Cleaned(src)[i]) /\ HasContent(Cleaned(src)[i + 1])
            /\ Cleaned(src)[i].role # Cleaned(src)[i + 1].role
            => Together(out, from, i)
  PROVE  Wholesome(out, n) /\ PairsAdjacent(out)
<1>1. PICK of :
        /\ Remains(out, msgs, of)
        /\ \A k \in DOMAIN out : of[k] # 0 =>
             /\ from[k] \in DOMAIN src /\ at[from[k]] = of[k] /\ src[from[k]] = msgs[of[k]]
             /\ out[k] = Clean(src[from[k]], Matched(src))
  BY RepairedRemains
<1> DEFINE matched == Matched(src)
           c == Cleaned(src)
<1>2. src \in Seq(Message) /\ matched \in SUBSET Nat
      /\ Len(c) = Len(src) /\ \A i \in DOMAIN src : c[i] = Clean(src[i], matched)
  <2>1. src \in Seq(Message)
    BY DEF Woven
  <2> QED
    BY <2>1, CleanedIs
<1>3. /\ DOMAIN src = 1..Len(src) /\ Len(src) \in Nat /\ \A i \in DOMAIN src : src[i] \in Message
      /\ DOMAIN out = 1..Len(out) /\ Len(out) \in Nat
      /\ DOMAIN msgs = 1..Len(msgs) /\ Len(msgs) \in Nat
  <2>1. out \in Seq(Message)
    BY DEF Woven
  <2> QED
    BY <1>2, <2>1, SeqFacts
<1>4. ASSUME NEW i \in DOMAIN src, src[i].uses # {} \/ src[i].results # {}
      PROVE  at[i] \in DOMAIN msgs /\ at[i] # 0 /\ src[i] = msgs[at[i]]
  <2>1. at[i] \in 0..Len(msgs) /\ (at[i] = 0 => Blank(src[i])) /\ (at[i] # 0 => src[i] = msgs[at[i]])
    BY DEF Woven
  <2>2. at[i] # 0
    BY <1>4, <2>1 DEF Blank
  <2> QED
    BY <1>3, <2>1, <2>2
<1>5. \A i \in DOMAIN src : \A x \in src[i].uses : x \in matched <=> \E j \in DOMAIN src : x \in src[j].results
  BY DEF Matched
<1>6. \A j \in DOMAIN src : \A x \in src[j].results : x \in matched <=> \E i \in DOMAIN src : x \in src[i].uses
  BY DEF Matched
<1> HIDE DEF matched, c
<1>7. ASSUME NEW i \in DOMAIN src, NEW j \in DOMAIN src, NEW x \in src[i].uses, x \in src[j].results
      PROVE  /\ j = i + 1 /\ src[j].results = src[i].uses
             /\ src[i].uses \subseteq matched
             /\ src[i].role = "assistant" /\ src[j].role = "user" /\ ~src[i].str /\ ~src[j].str
  <2> DEFINE p == at[i]
             q == at[j]
  <2>1. p \in DOMAIN msgs /\ p # 0 /\ src[i] = msgs[p] /\ q \in DOMAIN msgs /\ src[j] = msgs[q]
    BY <1>4, <1>7
  <2> HIDE DEF p, q
  <2>2. q > 1 /\ msgs[q - 1].uses = msgs[q].results
    BY <1>7, <2>1 DEF Wholesome, PairsIntact
  <2>3. q - 1 \in DOMAIN msgs
    BY <1>3, <2>1, <2>2
  <2>4. q - 1 = p
    BY <1>7, <2>1, <2>2, <2>3 DEF Wholesome
  <2>5. q = p + 1
    BY <1>3, <2>1, <2>4
  <2>6. j = i + 1
    BY <2>1, <2>5 DEF Close, p, q
  <2>7. src[j].results = src[i].uses
    BY <2>1, <2>2, <2>4
  <2>8. src[i].uses \subseteq matched
    BY <1>5, <2>7
  <2>9. src[i].role = "assistant" /\ src[j].role = "user" /\ ~src[i].str /\ ~src[j].str
    BY <1>7, <2>1 DEF Wholesome
  <2> QED
    BY <2>6, <2>7, <2>8, <2>9
<1>8. ASSUME NEW k \in DOMAIN out, NEW l \in DOMAIN out, from[k] = from[l], from[k] # 0
      PROVE  k = l
  <2>1. ~(k < l) /\ ~(l < k)
    <3>1. from[k] \in Nat /\ from[l] \in Nat
      BY CleanedIs, <1>2, <1>3 DEF Woven
    <3> QED
      BY <1>8, <3>1 DEF Woven
  <2> QED
    BY <1>3, <2>1
<1>9. ASSUME NEW k \in DOMAIN out, out[k].uses # {} \/ out[k].results # {}
      PROVE  /\ from[k] \in DOMAIN src /\ of[k] # 0 /\ ~src[from[k]].str
             /\ out[k] = Clean(src[from[k]], matched)
             /\ out[k].uses = src[from[k]].uses \cap matched
             /\ out[k].results = src[from[k]].results \cap matched
             /\ out[k].turn = NoTurn
  <2>1. of[k] # 0
    BY <1>1, <1>9 DEF Remains, Blank
  <2>2. from[k] \in DOMAIN src /\ out[k] = Clean(src[from[k]], matched) /\ src[from[k]] = msgs[of[k]]
    BY <1>1, <2>1 DEF matched
  <2>3. of[k] \in DOMAIN msgs
    BY <1>1, <1>3, <2>1 DEF Remains
  <2>4. src[from[k]] \in Message
    BY <1>3, <2>2
  <2>5. ~src[from[k]].str
    <3>1. src[from[k]].str => out[k] = src[from[k]]
      BY <1>2, <2>2, <2>4, CleanIs
    <3>2. src[from[k]].uses # {} \/ src[from[k]].results # {} => ~src[from[k]].str
      BY <2>2, <2>3 DEF Wholesome
    <3> QED
      BY <1>9, <3>1, <3>2
  <2> QED
    BY <1>2, <2>1, <2>2, <2>4, <2>5, CleanIs
\* A request and the results that follow it stay together.
<1>10. ASSUME NEW i \in DOMAIN src, NEW x \in src[i].uses, i + 1 \in DOMAIN src, x \in src[i + 1].results
       PROVE  \E k \in DOMAIN out : /\ k + 1 \in DOMAIN out /\ from[k] = i /\ from[k + 1] = i + 1
                                    /\ out[k + 1].results = src[i].uses /\ out[k].uses = src[i].uses
                                    /\ out[k].turn = NoTurn /\ out[k + 1].turn = NoTurn
  <2>1. /\ src[i + 1].results = src[i].uses /\ src[i].uses \subseteq matched
        /\ src[i].role = "assistant" /\ src[i + 1].role = "user" /\ ~src[i].str /\ ~src[i + 1].str
    BY <1>7, <1>10
  <2>2. src[i] \in Message /\ src[i + 1] \in Message
    BY <1>3, <1>10
  <2>3. /\ c[i].uses = src[i].uses \cap matched /\ c[i + 1].results = src[i + 1].results \cap matched
        /\ c[i].role = "assistant" /\ c[i + 1].role = "user"
        /\ c[i].turn = NoTurn /\ c[i + 1].turn = NoTurn
    BY <1>2, <1>10, <2>1, <2>2, CleanIs
  <2>4. c[i].uses = src[i].uses /\ c[i + 1].results = src[i].uses
    BY <2>1, <2>3
  <2>5. HasContent(c[i]) /\ HasContent(c[i + 1]) /\ c[i].role # c[i + 1].role
    BY <1>10, <2>3, <2>4 DEF HasContent
  <2>6. i \in 1..Len(src) - 1
    BY <1>3, <1>10
  <2>7. PICK k \in DOMAIN out : k + 1 \in DOMAIN out /\ from[k] = i /\ from[k + 1] = i + 1
    BY <2>5, <2>6 DEF Together, c
  <2>8. from[k] # 0 /\ from[k + 1] # 0
    BY <2>6, <2>7
  <2>9. out[k] = c[i] /\ out[k + 1] = c[i + 1]
    BY <2>7, <2>8 DEF Woven, c
  <2> QED
    BY <2>3, <2>4, <2>7, <2>9
<1>11. ASSUME NEW k \in DOMAIN out, out[k].uses # {}
       PROVE  k + 1 \in DOMAIN out /\ out[k + 1].results = out[k].uses /\ out[k + 1].turn = out[k].turn
  <2> DEFINE i == from[k]
  <2>1. i \in DOMAIN src /\ out[k].uses = src[i].uses \cap matched
    BY <1>9, <1>11
  <2>2. PICK x \in src[i].uses : x \in matched
    BY <1>11, <2>1
  <2>3. PICK j \in DOMAIN src : x \in src[j].results
    BY <1>5, <2>1, <2>2
  <2>4. j = i + 1
    BY <1>7, <2>1, <2>2, <2>3
  <2>5. PICK l \in DOMAIN out : /\ l + 1 \in DOMAIN out /\ from[l] = i /\ out[l + 1].results = src[i].uses
                                /\ out[l].uses = src[i].uses /\ out[l].turn = NoTurn /\ out[l + 1].turn = NoTurn
    BY <1>10, <2>1, <2>2, <2>3, <2>4
  <2>6. i # 0
    BY <1>3, <2>1
  <2>7. l = k
    BY <1>8, <2>5, <2>6
  <2> QED
    BY <2>5, <2>7
<1>12. ASSUME NEW k \in DOMAIN out, out[k].results # {}
       PROVE  k > 1 /\ out[k - 1].uses = out[k].results
  <2> DEFINE j == from[k]
  <2>1. j \in DOMAIN src /\ out[k].results = src[j].results \cap matched
    BY <1>9, <1>12
  <2> HIDE DEF j
  <2>2. PICK x \in src[j].results : x \in matched
    BY <1>12, <2>1
  <2>3. PICK i \in DOMAIN src : x \in src[i].uses
    BY <1>6, <2>1, <2>2
  <2>4. j = i + 1
    BY <1>7, <2>1, <2>2, <2>3
  <2>5. PICK l \in DOMAIN out : /\ l + 1 \in DOMAIN out /\ from[l + 1] = i + 1
                                /\ out[l + 1].results = src[i].uses /\ out[l].uses = src[i].uses
    BY <1>10, <2>1, <2>2, <2>3, <2>4
  <2>6. i + 1 # 0
    BY <1>3, <2>3
  <2>7. l + 1 = k
    BY <1>8, <2>4, <2>5, <2>6 DEF j
  <2>8. l \in Nat /\ l >= 1
    BY <1>3
  <2>9. k > 1 /\ k - 1 = l
    BY <2>7, <2>8
  <2> QED
    BY <2>5, <2>7, <2>9
<1>13. PairsAdjacent(out)
  <2>1. ASSUME NEW k \in DOMAIN out, out[k].uses # {}
        PROVE  k < Len(out) /\ out[k + 1].results = out[k].uses
    <3>1. k + 1 \in DOMAIN out /\ out[k + 1].results = out[k].uses
      BY <1>11, <2>1
    <3> QED
      BY <1>3, <3>1
  <2> QED
    BY <1>12, <2>1 DEF PairsAdjacent
<1>14. ASSUME NEW k \in DOMAIN out
       PROVE  /\ out[k].uses # {} => out[k].role = "assistant" /\ ~out[k].str
              /\ out[k].results # {} => out[k].role = "user" /\ ~out[k].str
              /\ out[k].uses \subseteq (-n)..n
              /\ out[k].uses # {} => of[k] \in DOMAIN msgs /\ of[k] # 0 /\ out[k].uses \subseteq msgs[of[k]].uses
  <2>1. CASE of[k] = 0
    BY <1>1, <2>1 DEF Remains, Blank
  <2>2. CASE of[k] # 0
    <3>1. of[k] \in DOMAIN msgs /\ Pruned(out[k], msgs[of[k]])
      BY <1>1, <1>3, <2>2 DEF Remains
    <3> DEFINE o == msgs[of[k]]
    <3>2. /\ o.uses # {} => o.role = "assistant" /\ ~o.str
          /\ o.results # {} => o.role = "user" /\ ~o.str
          /\ o.uses \subseteq (-n)..n
      BY <3>1 DEF Wholesome
    <3> HIDE DEF o
    <3>3. Pruned(out[k], o)
      BY <3>1 DEF o
    <3>4. out[k].uses \subseteq o.uses /\ out[k].results \subseteq o.results
          /\ out[k].role = o.role /\ out[k].str = o.str
      BY <3>3 DEF Pruned
    <3> QED
      BY <2>2, <3>1, <3>2, <3>4 DEF o
  <2> QED
    BY <2>1, <2>2
<1>15. ASSUME NEW k \in DOMAIN out, NEW l \in DOMAIN out, k # l, out[k].uses # {}, out[l].uses # {}
       PROVE  out[k].uses \cap out[l].uses = {}
  <2>1. of[k] # of[l]
    <3>1. k < l \/ l < k
      BY <1>3, <1>15
    <3>2. of[k] # 0 /\ of[l] # 0 /\ of[k] \in DOMAIN msgs /\ of[l] \in DOMAIN msgs
      BY <1>14, <1>15
    <3>3. of[k] < of[l] \/ of[l] < of[k]
      BY <1>1, <3>1, <3>2 DEF Remains
    <3> QED
      BY <1>3, <3>2, <3>3
  <2>2. msgs[of[k]].uses \cap msgs[of[l]].uses = {}
    BY <1>14, <1>15, <2>1 DEF Wholesome
  <2> QED
    BY <1>14, <1>15, <2>2
<1>16. \A k, l \in DOMAIN out : k # l => out[k].uses \cap out[l].uses = {}
  BY <1>15
<1>17. \A k \in DOMAIN out : Ran(out[k]) # {} => out[k].uses # {}
  BY DEF Ran
<1>18. PairsIntact(out)
  BY <1>13, <1>17 DEF PairsAdjacent, PairsIntact
<1> QED
  BY <1>11, <1>13, <1>14, <1>16, <1>17, <1>18 DEF Wholesome

LEMMA LegacyCut ==
  ASSUME NEW msgs \in Seq(Message), NEW n, Len(msgs) >= 3,
         NEW out \in {TruncateOldest(msgs), Summarize(msgs)}
  PROVE  /\ \E of : Remains(out, msgs, of)
         /\ Wholesome(msgs, n) => Wholesome(out, n) /\ PairsAdjacent(out)
<1>1. PICK src, at : out = Sanitize(src) /\ Woven(src, msgs, at) /\ Close(src, at)
  BY TruncateIs, SummarizeIs
<1>2. src \in Seq(Message)
  BY <1>1 DEF Woven
<1>3. PICK from :
        /\ Woven(out, Cleaned(src), from)
        /\ \A i \in 1..Len(src) - 1 :
             HasContent(Cleaned(src)[i]) /\ HasContent(Cleaned(src)[i + 1])
             /\ Cleaned(src)[i].role # Cleaned(src)[i + 1].role
             => Together(out, from, i)
  BY <1>1, <1>2, SanitizeIs
<1>4. \E of : Remains(out, msgs, of)
  BY <1>1, <1>3, RepairedRemains
<1>5. ASSUME Wholesome(msgs, n) PROVE Wholesome(out, n) /\ PairsAdjacent(out)
  BY <1>1, <1>3, <1>5, RepairedWholesome
<1> QED
  BY <1>4, <1>5

-----------------------------------------------------------------------------
(* Types.                                                                  *)

Freed == UNION {[D -> Nat] : D \in SUBSET Nat}

SessionType ==
  [messages : Seq(Message), msgCounter : Nat, userTurn : Nat, since : Nat,
   failures : Nat, summary : BOOLEAN, batches : Seq(SUBSET Nat), bucket : Seq(Message),
   freed : Freed, recalled : SUBSET Nat, version : Nat]

Sessions ==
  {s \in SessionType : s.failures <= setup.failures /\ s.recalled \subseteq DOMAIN s.freed}

Awaiting == {"check", "compress", "request", "snapshot"}

Types ==
  /\ setup \in Setups /\ session \in Sessions
  /\ disk \in [file : {"none", "torn", "whole"}, saved : Sessions]
  /\ bound \in BOOLEAN /\ store \in Seq(Message)
  /\ snapshots \in Seq([version : Nat, reply : Int])
  /\ pc \in Awaiting \cup {"idle", "saving", "finish", "down"}
  /\ entry \in {"chat", "run"} /\ turnIdx \in 0..setup.turns
  /\ next \in {"idle", "check", "finish"}
  /\ outcome \in [how : {"none", "nothing", "refused", "moved", "summarized", "truncated"},
                  event : {"none", "failed", "batch", "done", "fallback", "denied", "max_tokens"}]
  /\ calls \in 0..setup.calls /\ bodies \in Nat /\ crashes \in 0..setup.crashes
  /\ pc = "saving" => disk = Torn

LEMMA SetupType ==
  ASSUME Types
  PROVE  /\ setup.turns \in Nat \ {0} /\ setup.calls \in Nat /\ setup.crashes \in Nat
         /\ setup.failures \in Nat \ {0} /\ setup.trigger \in Nat \ {0}
         /\ setup.compressor \in {"strategy", "legacy"} /\ setup.store \in {"bucket", "external"}
         /\ setup.bound \in BOOLEAN /\ setup.memory \in BOOLEAN
         /\ setup.entries \subseteq {"chat", "run"} /\ setup.tools \subseteq {"plain", "free", "recall"}
BY QueryLoopAssumption DEF Types

LEMMA Fields ==
  ASSUME NEW s \in SessionType
  PROVE  /\ s.messages \in Seq(Message) /\ s.bucket \in Seq(Message)
         /\ s.msgCounter \in Nat /\ s.userTurn \in Nat /\ s.since \in Nat /\ s.failures \in Nat
         /\ s.summary \in BOOLEAN /\ s.batches \in Seq(SUBSET Nat) /\ s.freed \in Freed
         /\ s.recalled \in SUBSET Nat /\ s.version \in Nat
BY DEF SessionType

LEMMA FreedFields ==
  ASSUME NEW f \in Freed
  PROVE  DOMAIN f \in SUBSET Nat /\ \A c \in DOMAIN f : f[c] \in Nat
BY DEF Freed

LEMMA SessionFields ==
  ASSUME Types, NEW s \in {session, disk.saved}
  PROVE  /\ s \in Sessions /\ s \in SessionType
         /\ s.messages \in Seq(Message) /\ s.bucket \in Seq(Message)
         /\ s.msgCounter \in Nat /\ s.userTurn \in Nat /\ s.since \in Nat /\ s.failures \in Nat
         /\ s.summary \in BOOLEAN /\ s.batches \in Seq(SUBSET Nat) /\ s.freed \in Freed
         /\ s.recalled \in SUBSET Nat /\ s.version \in Nat
         /\ s.recalled \subseteq DOMAIN s.freed /\ s.failures <= setup.failures
         /\ DOMAIN s.freed \in SUBSET Nat /\ \A c \in DOMAIN s.freed : s.freed[c] \in Nat
<1>1. s \in Sessions
  BY DEF Types
<1>2. s \in SessionType /\ s.recalled \subseteq DOMAIN s.freed /\ s.failures <= setup.failures
  BY <1>1 DEF Sessions
<1>3. s.freed \in Freed
  BY <1>2, Fields
<1> QED
  BY <1>1, <1>2, <1>3, Fields, FreedFields

LEMMA NewSessionType ==
  /\ NewSession \in SessionType /\ NewSession.failures = 0
  /\ NewSession.recalled = {} /\ NewSession.messages = <<>> /\ NewSession.bucket = <<>>
  /\ NewSession.batches = <<>> /\ NewSession.msgCounter = 0 /\ NewSession.freed = <<>>
  /\ DOMAIN NewSession.freed = {} /\ NewSession.version = 0
<1>1. <<>> \in Seq(Message) /\ <<>> \in Seq(SUBSET Nat)
  OBVIOUS
<1>2. <<>> \in [{} -> Nat] /\ DOMAIN <<>> = {}
  OBVIOUS
<1>3. <<>> \in Freed
  BY <1>2 DEF Freed
<1> QED
  BY <1>1, <1>2, <1>3 DEF NewSession, SessionType

\* Noting a freed result.
LEMMA NotingOne ==
  ASSUME NEW f \in Freed, NEW c \in Nat, NEW v \in Nat, c \notin DOMAIN f
  PROVE  /\ Noting(f, c, v) \in Freed /\ DOMAIN Noting(f, c, v) = DOMAIN f \cup {c}
         /\ Noting(f, c, v)[c] = v
         /\ \A x \in DOMAIN f : Noting(f, c, v)[x] = f[x]
<1> DEFINE g == Noting(f, c, v)
<1>1. g = [x \in DOMAIN f \cup {c} |-> IF x = c THEN v ELSE f[x]]
  BY DEF Noting
<1>2. DOMAIN f \in SUBSET Nat /\ \A x \in DOMAIN f : f[x] \in Nat
  BY FreedFields
<1> HIDE DEF g
<1>3. g \in [DOMAIN f \cup {c} -> Nat]
  BY <1>1, <1>2
<1>4. g \in Freed
  BY <1>2, <1>3 DEF Freed
<1> QED
  BY <1>1, <1>2, <1>4 DEF g

\* What the tools of a batch may make of the session: its freed results, and what is
\* recalled of them.
FreedMore(t) ==
  \/ t.freed = session.freed
  \/ \E c \in ResultsIn(session.messages) \ DOMAIN session.freed :
       t.freed = Noting(session.freed, c, ResultOf(session.messages, c))

LEMMA ResultOfIs ==
  ASSUME NEW msgs \in Seq(Message), NEW c \in ResultsIn(msgs)
  PROVE  c \in Nat /\ \E i \in DOMAIN msgs : c \in msgs[i].results /\ ResultOf(msgs, c) = msgs[i].body
                                             /\ ResultOf(msgs, c) \in Nat
<1> DEFINE i == CHOOSE i \in DOMAIN msgs : c \in msgs[i].results
<1>1. \E k \in DOMAIN msgs : c \in msgs[k].results
  BY DEF ResultsIn
<1>2. i \in DOMAIN msgs /\ c \in msgs[i].results
  BY <1>1
<1>3. ResultOf(msgs, c) = msgs[i].body
  BY DEF ResultOf
<1> HIDE DEF i
<1>4. msgs[i] \in Message
  BY <1>2
<1> QED
  BY <1>2, <1>3, <1>4, MessageFields

LEMMA ToolEffectsAre ==
  ASSUME Types, NEW t \in ToolEffects
  PROVE  /\ t \in Sessions /\ FreedMore(t)
         /\ t.messages = session.messages /\ t.bucket = session.bucket
         /\ t.msgCounter = session.msgCounter /\ t.batches = session.batches
         /\ t.version = session.version /\ t.failures = session.failures
         /\ t.userTurn = session.userTurn
<1>0. session \in Sessions /\ session \in SessionType /\ session.messages \in Seq(Message)
      /\ session.freed \in Freed /\ session.recalled \subseteq DOMAIN session.freed
      /\ session.failures <= setup.failures /\ DOMAIN session.freed \in SUBSET Nat
      /\ session.recalled \in SUBSET Nat
  BY SessionFields
<1>1. CASE t = session
  BY <1>0, <1>1 DEF FreedMore
<1>2. ASSUME NEW c \in ResultsIn(session.messages), t = Free(session, c)
      PROVE  /\ t \in Sessions /\ FreedMore(t)
             /\ t.messages = session.messages /\ t.bucket = session.bucket
             /\ t.msgCounter = session.msgCounter /\ t.batches = session.batches
             /\ t.version = session.version /\ t.failures = session.failures
             /\ t.userTurn = session.userTurn
  <2>1. CASE c \in DOMAIN session.freed
    BY <1>1, <1>2, <2>1 DEF Free
  <2>2. CASE c \notin DOMAIN session.freed
    <3> DEFINE f == Noting(session.freed, c, ResultOf(session.messages, c))
    <3>1. c \in Nat /\ ResultOf(session.messages, c) \in Nat
      BY <1>0, ResultOfIs
    <3>2. f \in Freed /\ DOMAIN f = DOMAIN session.freed \cup {c}
      BY <1>0, <2>2, <3>1, NotingOne
    <3>3. t = [session EXCEPT !.freed = f]
      BY <1>2, <2>2 DEF Free
    <3>4. t.freed = f => FreedMore(t)
      BY <2>2 DEF FreedMore
    <3> HIDE DEF f
    <3>5. t \in SessionType /\ t.freed = f /\ t.recalled = session.recalled
          /\ t.messages = session.messages /\ t.bucket = session.bucket
          /\ t.msgCounter = session.msgCounter /\ t.batches = session.batches
          /\ t.version = session.version /\ t.failures = session.failures
          /\ t.userTurn = session.userTurn
      BY <1>0, <3>2, <3>3 DEF SessionType
    <3>6. t.recalled \subseteq DOMAIN t.freed
      BY <1>0, <3>2, <3>5
    <3> QED
      BY <1>0, <3>4, <3>5, <3>6 DEF Sessions
  <2> QED
    BY <2>1, <2>2
<1>3. ASSUME NEW c \in DOMAIN session.freed, t = Recall(session, c)
      PROVE  /\ t \in Sessions /\ FreedMore(t)
             /\ t.messages = session.messages /\ t.bucket = session.bucket
             /\ t.msgCounter = session.msgCounter /\ t.batches = session.batches
             /\ t.version = session.version /\ t.failures = session.failures
             /\ t.userTurn = session.userTurn
  <2> DEFINE r == session.recalled \cup {c}
  <2>1. t = [session EXCEPT !.recalled = r]
    BY <1>3 DEF Recall
  <2>2. r \in SUBSET Nat /\ r \subseteq DOMAIN session.freed
    BY <1>0, <1>3
  <2> HIDE DEF r
  <2>3. t \in SessionType /\ t.freed = session.freed /\ t.recalled = r
        /\ t.messages = session.messages /\ t.bucket = session.bucket
        /\ t.msgCounter = session.msgCounter /\ t.batches = session.batches
        /\ t.version = session.version /\ t.failures = session.failures
        /\ t.userTurn = session.userTurn
    BY <1>0, <2>1, <2>2 DEF SessionType
  <2> QED
    BY <1>0, <2>2, <2>3 DEF Sessions, FreedMore
<1> QED
  BY <1>1, <1>2, <1>3 DEF ToolEffects

-----------------------------------------------------------------------------
(* What a step may do to the messages, the bodies and the batches.         *)

\* Nothing, though results may be freed and a save may begin.
Quiet ==
  /\ session'.messages = session.messages /\ session'.bucket = session.bucket
  /\ session'.msgCounter = session.msgCounter /\ session'.batches = session.batches
  /\ FreedMore(session') /\ session'.version \in {session.version, Bump(session.version)}
  /\ disk' \in {disk, Torn} /\ UNCHANGED <<store, bodies, crashes>>

\* One or two messages new to the session: a text, or an answer that may leave a call
\* unanswered, or a request with its results.
Fresh(new) ==
  /\ new \in Seq(Message) /\ Len(new) \in {1, 2}
  /\ \A i \in 1..Len(new) : /\ new[i].body = bodies + i
                            /\ new[i].id \in {NoId, session.msgCounter + i}
                            /\ new[i].turn # NoTurn => new[i].id = session.msgCounter + i
  /\ Len(new) = 1 => /\ new[1].uses \in {{}, {-(bodies + 1)}} /\ new[1].results = {}
                     /\ new[1].uses # {} => new[1].role = "assistant" /\ ~new[1].str
  /\ Len(new) = 2 => /\ new[1].uses = {bodies + 1} /\ new[1].results = {}
                     /\ new[1].role = "assistant" /\ ~new[1].str
                     /\ new[2].results = {bodies + 1} /\ new[2].uses = {}
                     /\ new[2].role = "user" /\ ~new[2].str /\ new[2].turn = new[1].turn

Grows(new) ==
  /\ Fresh(new) /\ session'.messages = session.messages \o new /\ session'.bucket = session.bucket
  /\ session'.msgCounter \in {session.msgCounter, session.msgCounter + Len(new)}
  /\ session'.msgCounter = session.msgCounter => \A i \in 1..Len(new) : new[i].id = NoId
  /\ session'.msgCounter # session.msgCounter =>
       \A i \in 1..Len(new) : new[i].id = session.msgCounter + i
  /\ session'.batches = session.batches /\ FreedMore(session') /\ session'.version = session.version
  /\ bodies' = bodies + Len(new)
  /\ disk' \in {disk, Torn} /\ UNCHANGED <<store, crashes>>

\* A store that raised may have put some of the bodies.
PutSome ==
  /\ setup.store = "external"
  /\ \E kept \in SUBSET DOMAIN Split(session.messages).compress :
       store' = PutMany(store, Among(Split(session.messages).compress, kept))

\* A strategy answered: its batch is recorded, and the bodies move, or do not.
Batched(members) ==
  /\ setup.compressor = "strategy" /\ Split(session.messages).compress # <<>>
  /\ members \in MemberChoices(Ids(Split(session.messages).compress)) /\ ~Orphan(members)
  /\ session'.batches = Append(session.batches, members)
  /\ session'.msgCounter = session.msgCounter /\ session'.freed = session.freed
  /\ session'.version = Bump(session.version)
  /\ \/ /\ session'.messages = session.messages /\ session'.bucket = session.bucket
        /\ store' = store \/ PutSome
     \/ /\ session'.messages = Split(session.messages).keep
        /\ session'.bucket = IF setup.store = "bucket"
                             THEN PutMany(session.bucket, Split(session.messages).compress)
                             ELSE session.bucket
        /\ store' = IF setup.store = "external"
                    THEN PutMany(store, Split(session.messages).compress) ELSE store
  /\ UNCHANGED <<disk, bodies, crashes>>

\* The legacy path cuts the window.
Cut ==
  /\ setup.compressor = "legacy" /\ Len(session.messages) >= 3
  /\ session'.messages \in {TruncateOldest(session.messages), Summarize(session.messages)}
  /\ session'.bucket = session.bucket /\ session'.msgCounter = session.msgCounter
  /\ session'.batches = session.batches /\ session'.freed = session.freed
  /\ session'.version = session.version
  /\ UNCHANGED <<disk, store, bodies, crashes>>

Step ==
  \/ Quiet \/ (\E new : Grows(new)) \/ (\E members : Batched(members)) \/ Cut
  \/ SaveWritten \/ Crash \/ Resume

LEMMA MsgTurnType ==
  ASSUME Types
  PROVE  MsgTurn \in Int
BY SessionFields, SetupType, SMTT(20) DEF Types, MsgTurn

LEMMA ChatStartStep ==
  ASSUME Types, ChatStart
  PROVE  session' \in Sessions /\ Step
<1> DEFINE m == UserInput(session.msgCounter + 1, session.userTurn + 1, bodies + 1)
           new == <<m>>
           msgs == session.messages \o new
<1>0. /\ session \in SessionType /\ session.messages \in Seq(Message) /\ session.msgCounter \in Nat
      /\ session.userTurn \in Nat /\ bodies \in Nat
      /\ session.recalled \subseteq DOMAIN session.freed /\ session.failures <= setup.failures
  BY SessionFields DEF Types
<1>a. session.msgCounter + 1 \in Nat /\ session.userTurn + 1 \in Nat /\ session.userTurn + 1 \in Int
      /\ bodies + 1 \in Nat
  BY <1>0
<1>1. m \in Message
  BY <1>a, NewMessages
<1>2. m.id = session.msgCounter + 1 /\ m.body = bodies + 1 /\ m.uses = {} /\ m.results = {}
  BY DEF UserInput
<1>3. session' = [session EXCEPT !.userTurn = @ + 1, !.msgCounter = @ + 1,
                                 !.messages = Append(@, m)]
  BY DEF ChatStart
<1> HIDE DEF m
<1>4. new \in Seq(Message) /\ Len(new) = 1 /\ new[1] = m
  BY <1>1
<1>5. msgs \in Seq(Message) /\ Append(session.messages, m) = msgs
  BY <1>0, <1>1, <1>4
<1> HIDE DEF msgs
<1>6. session' = [session EXCEPT !.userTurn = session.userTurn + 1,
                                 !.msgCounter = session.msgCounter + 1, !.messages = msgs]
  BY <1>3, <1>5
<1>7. /\ session' \in SessionType /\ session'.messages = msgs /\ session'.bucket = session.bucket
      /\ session'.msgCounter = session.msgCounter + 1 /\ session'.batches = session.batches
      /\ session'.freed = session.freed /\ session'.version = session.version
      /\ session'.recalled = session.recalled /\ session'.failures = session.failures
  BY <1>0, <1>a, <1>5, <1>6 DEF SessionType
<1>8. session' \in Sessions
  BY <1>0, <1>7 DEF Sessions
<1>9. Fresh(new)
  BY <1>0, <1>2, <1>4 DEF Fresh
<1>10. Grows(new)
  <2>1. bodies' = bodies + 1 /\ UNCHANGED <<disk, store, crashes>>
    BY DEF ChatStart
  <2>2. session.msgCounter + 1 # session.msgCounter
    BY <1>0
  <2> HIDE DEF new
  <2>3. session'.messages = session.messages \o new
    BY <1>7 DEF msgs
  <2>4. \A i \in 1..Len(new) : new[i].id = session.msgCounter + i
    BY <1>2, <1>4
  <2> QED
    BY <1>4, <1>7, <1>9, <2>1, <2>2, <2>3, <2>4 DEF Grows, FreedMore
<1> QED
  BY <1>8, <1>10 DEF Step

LEMMA RunStartStep ==
  ASSUME Types, RunStart
  PROVE  session' \in Sessions /\ Step
<1> DEFINE m == UserInput(NoId, NoTurn, bodies + 1)
           new == <<m>>
<1>0. /\ session \in SessionType /\ session.messages = <<>> /\ session.msgCounter \in Nat /\ bodies \in Nat
      /\ session.recalled \subseteq DOMAIN session.freed /\ session.failures <= setup.failures
  BY SessionFields DEF Types, RunStart
<1>1. m \in Message
  <2>1. NoId \in Nat /\ NoTurn \in Int /\ bodies + 1 \in Nat
    BY <1>0 DEF NoId, NoTurn
  <2> QED
    BY <2>1, NewMessages
<1>2. m.id = NoId /\ m.turn = NoTurn /\ m.body = bodies + 1 /\ m.uses = {} /\ m.results = {}
  BY DEF UserInput
<1>3. session' = [session EXCEPT !.messages = new]
  BY DEF RunStart
<1> HIDE DEF m
<1>4. new \in Seq(Message) /\ Len(new) = 1 /\ new[1] = m /\ session.messages \o new = new
  BY <1>0, <1>1
<1> HIDE DEF new
<1>5. /\ session' \in SessionType /\ session'.messages = new /\ session'.bucket = session.bucket
      /\ session'.msgCounter = session.msgCounter /\ session'.batches = session.batches
      /\ session'.freed = session.freed /\ session'.version = session.version
      /\ session'.recalled = session.recalled /\ session'.failures = session.failures
  BY <1>0, <1>3, <1>4 DEF SessionType
<1>6. session' \in Sessions
  BY <1>0, <1>5 DEF Sessions
<1>7. Fresh(new)
  BY <1>0, <1>2, <1>4 DEF Fresh
<1>8. bodies' = bodies + 1 /\ UNCHANGED <<disk, store, crashes>>
  BY DEF RunStart
<1>9. \A i \in 1..Len(new) : new[i].id = NoId
  BY <1>2, <1>4
<1>10. Grows(new)
  BY <1>4, <1>5, <1>7, <1>8, <1>9 DEF Grows, FreedMore
<1> QED
  BY <1>6, <1>10 DEF Step

LEMMA EndTurnStep ==
  ASSUME Types, EndTurn
  PROVE  session' \in Sessions /\ Step
<1>b. PICK text \in BOOLEAN, left \in {{}, {-(bodies + 1)}} :
        session' = [session EXCEPT !.msgCounter = @ + 1, !.recalled = {},
          !.messages = Append(@, Reply(session.msgCounter + 1, MsgTurn, text, left, bodies + 1))]
  BY DEF EndTurn
<1> DEFINE m == Reply(session.msgCounter + 1, MsgTurn, text, left, bodies + 1)
           new == <<m>>
           msgs == session.messages \o new
<1>0. /\ session \in SessionType /\ session.messages \in Seq(Message) /\ session.msgCounter \in Nat
      /\ bodies \in Nat /\ session.failures <= setup.failures
  BY SessionFields DEF Types
<1>a. session.msgCounter + 1 \in Nat /\ bodies + 1 \in Nat /\ left \in SUBSET Int
  BY <1>0
<1>1. m \in Message
  BY <1>a, NewMessages, MsgTurnType
<1>2. m.id = session.msgCounter + 1 /\ m.body = bodies + 1 /\ m.uses = left /\ m.results = {}
      /\ m.role = "assistant" /\ ~m.str
  BY DEF Reply
<1>3. session' = [session EXCEPT !.msgCounter = @ + 1, !.recalled = {}, !.messages = Append(@, m)]
  BY <1>b
<1> HIDE DEF m
<1>4. new \in Seq(Message) /\ Len(new) = 1 /\ new[1] = m
  BY <1>1
<1>5. msgs \in Seq(Message) /\ Append(session.messages, m) = msgs
  BY <1>0, <1>1, <1>4
<1> HIDE DEF msgs
<1>6. session' = [session EXCEPT !.msgCounter = session.msgCounter + 1, !.recalled = {}, !.messages = msgs]
  BY <1>3, <1>5
<1>7. /\ session' \in SessionType /\ session'.messages = msgs /\ session'.bucket = session.bucket
      /\ session'.msgCounter = session.msgCounter + 1 /\ session'.batches = session.batches
      /\ session'.freed = session.freed /\ session'.version = session.version
      /\ session'.recalled = {} /\ session'.failures = session.failures
  BY <1>0, <1>a, <1>5, <1>6 DEF SessionType
<1>8. session' \in Sessions
  BY <1>0, <1>7 DEF Sessions
<1>9. Fresh(new)
  BY <1>0, <1>2, <1>4 DEF Fresh
<1>10. Grows(new)
  <2>1. bodies' = bodies + 1 /\ disk' \in {disk, Torn} /\ UNCHANGED <<store, crashes>>
    BY DEF EndTurn, SaveThen
  <2>2. session.msgCounter + 1 # session.msgCounter
    BY <1>0
  <2> HIDE DEF new
  <2>3. session'.messages = session.messages \o new
    BY <1>7 DEF msgs
  <2>4. \A i \in 1..Len(new) : new[i].id = session.msgCounter + i
    BY <1>2, <1>4
  <2> QED
    BY <1>4, <1>7, <1>9, <2>1, <2>2, <2>3, <2>4 DEF Grows, FreedMore
<1> QED
  BY <1>8, <1>10 DEF Step

LEMMA ToolRoundStep ==
  ASSUME Types, ToolRound
  PROVE  session' \in Sessions /\ Step
<1>1. PICK s \in ToolEffects : session' = WithRound(s)
  BY DEF ToolRound
<1>2. /\ s \in Sessions /\ FreedMore(s)
      /\ s.messages = session.messages /\ s.bucket = session.bucket
      /\ s.msgCounter = session.msgCounter /\ s.batches = session.batches
      /\ s.version = session.version /\ s.failures = session.failures
  BY ToolEffectsAre
<1> DEFINE m == Reply(session.msgCounter + 1, MsgTurn, FALSE, {bodies + 1}, bodies + 1)
           r == ToolResults(session.msgCounter + 1 + 1, MsgTurn, {bodies + 1}, bodies + 2)
           new == <<m, r>>
           msgs == session.messages \o new
<1>3. /\ s \in SessionType /\ session.messages \in Seq(Message) /\ session.msgCounter \in Nat
      /\ bodies \in Nat /\ session.failures <= setup.failures
  BY <1>2, SessionFields DEF Types, Sessions
<1>4. /\ session.msgCounter + 1 \in Nat /\ session.msgCounter + 1 + 1 \in Nat /\ session.msgCounter + 2 \in Nat
      /\ session.msgCounter + 1 + 1 = session.msgCounter + 2 /\ session.msgCounter + 2 # session.msgCounter
      /\ bodies + 1 \in Nat /\ bodies + 2 \in Nat /\ {bodies + 1} \in SUBSET Nat
      /\ {bodies + 1} \in SUBSET Int
  BY <1>3
<1>5. m \in Message /\ r \in Message
  BY <1>4, NewMessages, MsgTurnType
<1>6. /\ m.id = session.msgCounter + 1 /\ m.body = bodies + 1 /\ m.uses = {bodies + 1} /\ m.results = {}
      /\ m.role = "assistant" /\ ~m.str /\ m.turn = MsgTurn
      /\ r.id = session.msgCounter + 2 /\ r.body = bodies + 2 /\ r.uses = {} /\ r.results = {bodies + 1}
      /\ r.role = "user" /\ ~r.str /\ r.turn = MsgTurn
  BY <1>4 DEF Reply, ToolResults
<1>7. session' = [s EXCEPT !.msgCounter = session.msgCounter + 2, !.recalled = {}, !.messages = msgs]
  BY <1>1, <1>2 DEF WithRound
<1> HIDE DEF m, r
<1>8. new \in Seq(Message) /\ Len(new) = 2 /\ new[1] = m /\ new[2] = r
  BY <1>5
<1>9. msgs \in Seq(Message)
  BY <1>3, <1>8
<1> HIDE DEF msgs, new
<1>10. /\ session' \in SessionType /\ session'.messages = msgs /\ session'.bucket = session.bucket
       /\ session'.msgCounter = session.msgCounter + 2 /\ session'.batches = session.batches
       /\ session'.freed = s.freed /\ session'.version = session.version
       /\ session'.recalled = {} /\ session'.failures = session.failures
  BY <1>2, <1>3, <1>4, <1>7, <1>9 DEF SessionType
<1>11. session' \in Sessions
  BY <1>3, <1>10 DEF Sessions
<1>12. Fresh(new)
  <2>1. \A i \in 1..2 : new[i].body = bodies + i /\ new[i].id = session.msgCounter + i
    BY <1>6, <1>8
  <2> QED
    BY <1>6, <1>8, <2>1 DEF Fresh
<1>13. Grows(new)
  <2>1. bodies' = bodies + 2 /\ disk' \in {disk, Torn} /\ UNCHANGED <<store, crashes>>
    BY DEF ToolRound, SaveThen
  <2>2. session'.messages = session.messages \o new
    BY <1>10 DEF msgs
  <2>3. FreedMore(session')
    BY <1>2, <1>10 DEF FreedMore
  <2>4. \A i \in 1..Len(new) : new[i].id = session.msgCounter + i
    BY <1>6, <1>8
  <2> QED
    BY <1>4, <1>8, <1>10, <1>12, <2>1, <2>2, <2>3, <2>4 DEF Grows
<1> QED
  BY <1>11, <1>13 DEF Step

\* The steps that leave the messages alone.
LEMMA QuietStep ==
  ASSUME Types, Abort \/ CheckCompress \/ StrategyRefused \/ NothingToCompress \/ Unanswered
                \/ Snapshot \/ CutBatch \/ SaveFails \/ Finish
  PROVE  session' \in Sessions /\ Quiet
<1>0. /\ session \in Sessions /\ session \in SessionType
      /\ session.recalled \subseteq DOMAIN session.freed /\ session.failures <= setup.failures
      /\ session.since \in Nat /\ session.version \in Nat
  BY SessionFields
<1>1. FreedMore(session)
  BY DEF FreedMore
<1>2. CASE UNCHANGED session /\ UNCHANGED <<disk, store, bodies, crashes>>
  BY <1>0, <1>1, <1>2 DEF Quiet
<1>3. ASSUME NEW n \in Nat, session' = [session EXCEPT !.since = n],
             disk' \in {disk, Torn}, UNCHANGED <<store, bodies, crashes>>
      PROVE  session' \in Sessions /\ Quiet
  <2>1. /\ session' \in SessionType /\ session'.messages = session.messages
        /\ session'.bucket = session.bucket /\ session'.msgCounter = session.msgCounter
        /\ session'.batches = session.batches /\ session'.freed = session.freed
        /\ session'.version = session.version /\ session'.recalled = session.recalled
        /\ session'.failures = session.failures
    BY <1>0, <1>3 DEF SessionType
  <2> QED
    BY <1>0, <1>3, <2>1 DEF Quiet, Sessions, FreedMore
<1>4. CASE Abort
  BY <1>2, <1>4 DEF Abort
<1>5. CASE CheckCompress
  BY <1>2, <1>5 DEF CheckCompress
<1>6. CASE StrategyRefused
  BY <1>2, <1>6 DEF StrategyRefused, Compressed
<1>7. CASE NothingToCompress
  BY <1>3, <1>7 DEF NothingToCompress, Compressed
<1>8. CASE Unanswered
  BY <1>2, <1>8 DEF Unanswered
<1>9. CASE Snapshot
  <2>1. session' = [session EXCEPT !.version = Bump(@)] /\ UNCHANGED <<disk, store, bodies, crashes>>
    BY <1>9 DEF Snapshot
  <2>2. Bump(session.version) \in Nat
    BY <1>0 DEF Bump
  <2> DEFINE v == Bump(session.version)
  <2>3. session' = [session EXCEPT !.version = v]
    BY <2>1
  <2> HIDE DEF v
  <2>4. /\ session' \in SessionType /\ session'.messages = session.messages
        /\ session'.bucket = session.bucket /\ session'.msgCounter = session.msgCounter
        /\ session'.batches = session.batches /\ session'.freed = session.freed
        /\ session'.version = v /\ session'.recalled = session.recalled
        /\ session'.failures = session.failures
    BY <1>0, <2>2, <2>3 DEF SessionType, v
  <2> QED
    BY <1>0, <2>1, <2>4 DEF Quiet, Sessions, FreedMore, v
<1>10. CASE CutBatch
  <2>1. session' \in ToolEffects /\ UNCHANGED <<disk, store, bodies, crashes>>
    BY <1>10 DEF CutBatch
  <2> QED
    BY <2>1, ToolEffectsAre DEF Quiet
<1>11. CASE SaveFails
  BY <1>2, <1>11 DEF SaveFails
<1>12. CASE Finish
  <2> DEFINE n == IF entry = "chat" THEN session.since + 1 ELSE session.since
  <2>1. n \in Nat
    BY <1>0
  <2>2. session' = [session EXCEPT !.since = n] /\ disk' \in {disk, Torn} /\ UNCHANGED <<store, bodies, crashes>>
    BY <1>12 DEF Finish, SaveThen
  <2> HIDE DEF n
  <2> QED
    BY <1>3, <2>1, <2>2
<1> QED
  BY <1>4, <1>5, <1>6, <1>7, <1>8, <1>9, <1>10, <1>11, <1>12

LEMMA BatchesType ==
  ASSUME NEW msgs \in Seq(Message), NEW members \in MemberChoices(Ids(msgs)),
         session.msgCounter \in Nat
  PROVE  Ids(msgs) \in SUBSET Nat /\ members \in SUBSET Nat
<1>1. \A i \in DOMAIN msgs : msgs[i].id \in Nat
  BY SeqFacts, MessageFields
<1>2. Ids(msgs) \in SUBSET Nat
  BY <1>1 DEF Ids
<1> QED
  BY <1>2 DEF MemberChoices

LEMMA BatchedStep ==
  ASSUME Types, StrategyApplied \/ StrategyStoreFails
  PROVE  session' \in Sessions /\ Step
<1> DEFINE msgs == session.messages
           split == Split(msgs)
           v == Bump(session.version)
<1>0. /\ session \in SessionType /\ msgs \in Seq(Message) /\ session.batches \in Seq(SUBSET Nat)
      /\ session.recalled \subseteq DOMAIN session.freed /\ session.failures <= setup.failures
      /\ session.version \in Nat /\ session.bucket \in Seq(Message) /\ store \in Seq(Message)
      /\ session.msgCounter \in Nat
  BY SessionFields DEF Types
<1>1. setup.compressor = "strategy" /\ split.compress # <<>>
  BY DEF StrategyApplied, StrategyStoreFails
<1>2. split.compress \in Seq(Message) /\ split.keep \in Seq(Message)
  BY <1>0, <1>1, SplitParts
<1>3. v \in Nat
  BY <1>0 DEF Bump
<1> HIDE DEF split, v
<1>4. ASSUME NEW members \in MemberChoices(Ids(split.compress))
      PROVE  /\ WithBatch(session, members) \in SessionType
             /\ WithBatch(session, members).messages = msgs
             /\ WithBatch(session, members).bucket = session.bucket
             /\ WithBatch(session, members).msgCounter = session.msgCounter
             /\ WithBatch(session, members).batches = Append(session.batches, members)
             /\ WithBatch(session, members).freed = session.freed
             /\ WithBatch(session, members).version = v
             /\ WithBatch(session, members).recalled = session.recalled
             /\ WithBatch(session, members).failures = session.failures
  <2> DEFINE b == Append(session.batches, members)
  <2>1. members \in SUBSET Nat
    BY <1>0, <1>2, <1>4, BatchesType
  <2>2. b \in Seq(SUBSET Nat)
    BY <1>0, <2>1
  <2>3. WithBatch(session, members) = [session EXCEPT !.batches = b, !.version = v]
    BY DEF WithBatch, v
  <2> HIDE DEF b
  <2>4. /\ WithBatch(session, members) \in SessionType
        /\ WithBatch(session, members).batches = b
        /\ WithBatch(session, members).version = v
    BY <1>0, <1>3, <2>2, <2>3 DEF SessionType
  <2> QED
    BY <1>0, <2>3, <2>4 DEF SessionType, b
<1>5. CASE StrategyStoreFails
  <2>1. PICK members \in MemberChoices(Ids(split.compress)) :
          ~Orphan(members) /\ session' = WithBatch(session, members)
    BY <1>5 DEF StrategyStoreFails, split
  <2>2. UNCHANGED <<disk, bodies, crashes>> /\ (store' = store \/ PutSome)
    BY <1>5 DEF StrategyStoreFails, PutSome
  <2>3. session' \in Sessions
    BY <1>0, <1>4, <2>1 DEF Sessions
  <2>4. Batched(members)
    BY <1>1, <1>4, <2>1, <2>2 DEF Batched, split, v
  <2> QED
    BY <2>3, <2>4 DEF Step
<1>6. CASE StrategyApplied
  <2> DEFINE bucket == IF setup.store = "bucket" THEN PutMany(session.bucket, split.compress) ELSE session.bucket
  <2>1. PICK members \in MemberChoices(Ids(split.compress)) :
          ~Orphan(members) /\
          session' = [WithBatch(session, members) EXCEPT
                        !.messages = split.keep,
                        !.bucket = IF setup.store = "bucket" THEN PutMany(@, split.compress) ELSE @,
                        !.since = 0]
    BY <1>6 DEF StrategyApplied, Compressed, split
  <2> DEFINE s == WithBatch(session, members)
  <2>2. s.bucket = session.bucket
    BY <1>4
  <2>3. session' = [s EXCEPT !.messages = split.keep, !.bucket = bucket, !.since = 0]
    BY <2>1, <2>2
  <2>4. bucket \in Seq(Message)
    BY <1>0, <1>2, PutManyParts
  <2>5. /\ store' = IF setup.store = "external" THEN PutMany(store, split.compress) ELSE store
        /\ UNCHANGED <<disk, bodies, crashes>>
    BY <1>6 DEF StrategyApplied, Compressed, split
  <2>6. /\ s \in SessionType /\ s.msgCounter = session.msgCounter
        /\ s.batches = Append(session.batches, members)
        /\ s.freed = session.freed /\ s.version = v
        /\ s.recalled = session.recalled /\ s.failures = session.failures
    BY <1>4
  <2> HIDE DEF s, bucket
  <2>7. /\ session' \in SessionType /\ session'.messages = split.keep /\ session'.bucket = bucket
        /\ session'.msgCounter = s.msgCounter /\ session'.batches = s.batches
        /\ session'.freed = s.freed /\ session'.version = s.version
        /\ session'.recalled = s.recalled /\ session'.failures = s.failures
    BY <1>2, <2>3, <2>4, <2>6 DEF SessionType
  <2>8. session' \in Sessions
    BY <1>0, <2>6, <2>7 DEF Sessions
  <2>9. Batched(members)
    BY <1>1, <2>1, <2>5, <2>6, <2>7 DEF Batched, bucket, split, v
  <2> QED
    BY <2>8, <2>9 DEF Step
<1> QED
  BY <1>5, <1>6

\* What CompressLegacy returns, and when.
LEMMA LegacyStep ==
  ASSUME Types, CompressLegacy
  PROVE  /\ session' \in Sessions /\ (Quiet \/ Cut)
         /\ \/ session'.messages = session.messages
            \/ session.failures = setup.failures
            \/ outcome'.event \in {"done", "fallback"}
<1> DEFINE msgs == session.messages
           asked == Len(msgs) >= 3
           sum == Summarize(msgs)
           short == TruncateOldest(msgs)
           said == session.summary \/ asked
           done == [session EXCEPT !.messages = sum, !.failures = 0, !.summary = said]
           cut == [session EXCEPT !.messages = short]
           f == session.failures + 1
           failed == [cut EXCEPT !.failures = f]
<1>0. /\ session \in Sessions /\ session \in SessionType /\ msgs \in Seq(Message)
      /\ session.recalled \subseteq DOMAIN session.freed /\ session.failures <= setup.failures
      /\ session.failures \in Nat /\ setup.failures \in Nat /\ session.summary \in BOOLEAN
      /\ Len(msgs) \in Nat
  BY SessionFields, SetupType, SeqFacts
<1>1. setup.compressor = "legacy" /\ UNCHANGED <<disk, store, bodies, crashes>>
  BY DEF CompressLegacy, Compressed
<1>2. /\ sum \in Seq(Message) /\ short \in Seq(Message)
      /\ ~asked => sum = msgs /\ short = msgs
  <2>1. CASE asked
    <3>1. \A out \in {short, sum} : \E of : Remains(out, msgs, of)
      BY <1>0, <2>1, LegacyCut
    <3>2. \A out \in {short, sum} : out \in Seq(Message)
      BY <3>1 DEF Remains
    <3> QED
      BY <2>1, <3>2
  <2>2. CASE ~asked
    <3>1. Len(msgs) < 3
      BY <1>0, <2>2
    <3>2. sum = msgs /\ short = msgs
      BY <3>1 DEF Summarize, TruncateOldest
    <3> QED
      BY <1>0, <2>2, <3>2
  <2> QED
    BY <2>1, <2>2
<1>3. said \in BOOLEAN /\ f \in Nat
  BY <1>0
<1>4. \/ session' = session
      \/ session' = cut /\ session.failures >= setup.failures
      \/ session' = done /\ outcome'.event = LegacyEvent(done)
      \/ session' = failed /\ asked /\ ~(session.failures >= setup.failures) /\ outcome'.event = LegacyEvent(failed)
  BY DEF CompressLegacy, Compressed
<1>5. CASE session' = session
  BY <1>0, <1>1, <1>5 DEF Quiet, FreedMore
<1> HIDE DEF sum, short, said, f
<1>6. /\ cut \in SessionType /\ cut.messages = short /\ cut.failures = session.failures
      /\ done \in SessionType /\ done.messages = sum /\ done.failures = 0 /\ done.summary = said
  BY <1>0, <1>2, <1>3 DEF SessionType
<1>7. /\ cut.bucket = session.bucket /\ cut.msgCounter = session.msgCounter
      /\ cut.batches = session.batches /\ cut.freed = session.freed
      /\ cut.version = session.version /\ cut.recalled = session.recalled
  BY <1>0 DEF SessionType
<1>8. /\ done.bucket = session.bucket /\ done.msgCounter = session.msgCounter
      /\ done.batches = session.batches /\ done.freed = session.freed
      /\ done.version = session.version /\ done.recalled = session.recalled
  BY <1>0 DEF SessionType
<1> HIDE DEF cut
<1>9. /\ failed \in SessionType /\ failed.messages = short /\ failed.failures = f
      /\ failed.bucket = session.bucket /\ failed.msgCounter = session.msgCounter
      /\ failed.batches = session.batches /\ failed.freed = session.freed
      /\ failed.version = session.version /\ failed.recalled = session.recalled
  BY <1>3, <1>6, <1>7 DEF SessionType
<1> HIDE DEF done, failed
<1>10. CASE session' = cut /\ session.failures >= setup.failures
  <2>1. session' \in Sessions
    BY <1>0, <1>6, <1>7, <1>10 DEF Sessions
  <2>2. CASE asked
    <3>1. Cut
      BY <1>1, <1>6, <1>7, <1>10, <2>2 DEF Cut, short
    <3> QED
      BY <1>0, <1>10, <2>1, <3>1
  <2>3. CASE ~asked
    <3>1. Quiet
      BY <1>1, <1>2, <1>6, <1>7, <1>10, <2>3 DEF Quiet, FreedMore
    <3> QED
      BY <1>0, <1>10, <2>1, <3>1
  <2> QED
    BY <2>2, <2>3
<1>11. CASE session' = done /\ outcome'.event = LegacyEvent(done)
  <2>1. session' \in Sessions
    BY <1>0, <1>6, <1>8, <1>11 DEF Sessions
  <2>2. CASE asked
    <3>1. Cut
      BY <1>1, <1>6, <1>8, <1>11, <2>2 DEF Cut, sum
    <3>2. LegacyEvent(done) = "done"
      <4>1. said
        BY <2>2 DEF said
      <4>2. ~(done.failures > session.failures)
        BY <1>0, <1>6
      <4>3. done.summary
        BY <1>6, <4>1
      <4> QED
        BY <4>2, <4>3 DEF LegacyEvent
    <3> QED
      BY <1>11, <2>1, <3>1, <3>2
  <2>3. CASE ~asked
    <3>1. Quiet
      BY <1>1, <1>2, <1>6, <1>8, <1>11, <2>3 DEF Quiet, FreedMore
    <3> QED
      BY <1>2, <1>6, <1>11, <2>1, <2>3, <3>1
  <2> QED
    BY <2>2, <2>3
<1>12. CASE /\ session' = failed /\ asked /\ ~(session.failures >= setup.failures)
            /\ outcome'.event = LegacyEvent(failed)
  <2>1. f <= setup.failures /\ f > session.failures
    BY <1>0, <1>12 DEF f
  <2>2. session' \in Sessions
    BY <1>0, <1>9, <1>12, <2>1 DEF Sessions
  <2>3. Cut
    BY <1>1, <1>9, <1>12 DEF Cut, short
  <2>4. LegacyEvent(failed) = "fallback"
    BY <1>9, <2>1 DEF LegacyEvent
  <2> QED
    BY <1>12, <2>2, <2>3, <2>4
<1> QED
  BY <1>4, <1>5, <1>10, <1>11, <1>12

LEMMA SavedStep ==
  ASSUME Types, SaveWritten
  PROVE  /\ session' \in Sessions
         /\ disk'.file = "whole" /\ disk'.saved \in Sessions
         /\ disk' \in [file : {"none", "torn", "whole"}, saved : Sessions]
         /\ disk'.saved.messages = session.messages /\ disk'.saved.bucket = session.bucket
         /\ disk'.saved.msgCounter = session.msgCounter /\ disk'.saved.batches = session.batches
         /\ disk'.saved.freed = session.freed /\ disk'.saved.version = session.version
         /\ disk'.saved.userTurn = session.userTurn
         /\ UNCHANGED <<session, store, bodies, crashes>>
<1>1. session \in Sessions /\ session \in SessionType /\ session.failures <= setup.failures
  BY SessionFields
<1> DEFINE s == [session EXCEPT !.recalled = {}]
<1>2. disk' = [file |-> "whole", saved |-> s] /\ UNCHANGED <<session, store, bodies, crashes>>
  BY DEF SaveWritten
<1>3. /\ s \in SessionType /\ s.recalled = {} /\ s.failures = session.failures
      /\ s.messages = session.messages /\ s.bucket = session.bucket
      /\ s.msgCounter = session.msgCounter /\ s.batches = session.batches
      /\ s.freed = session.freed /\ s.version = session.version /\ s.userTurn = session.userTurn
  BY <1>1 DEF SessionType
<1> HIDE DEF s
<1>4. s \in Sessions
  BY <1>1, <1>3 DEF Sessions
<1> QED
  BY <1>1, <1>2, <1>3, <1>4

LEMMA NextStep ==
  ASSUME Types, Next
  PROVE  session' \in Sessions /\ Step
<1>1. CASE ChatStart \/ RunStart \/ EndTurn \/ ToolRound
  BY <1>1, ChatStartStep, RunStartStep, EndTurnStep, ToolRoundStep
<1>2. CASE Abort \/ CheckCompress \/ StrategyRefused \/ NothingToCompress \/ Unanswered
           \/ Snapshot \/ CutBatch \/ SaveFails \/ Finish
  BY <1>2, QuietStep DEF Step
<1>3. CASE StrategyApplied \/ StrategyStoreFails
  BY <1>3, BatchedStep
<1>4. CASE CompressLegacy
  BY <1>4, LegacyStep DEF Step
<1>5. CASE SaveWritten
  BY <1>5, SavedStep DEF Step
<1>6. CASE Crash
  <2>1. session' = NewSession
    BY <1>6 DEF Crash
  <2>2. NewSession \in Sessions
    BY NewSessionType, SetupType DEF Sessions
  <2> QED
    BY <1>6, <2>1, <2>2 DEF Step
<1>7. CASE Resume
  BY <1>7, SessionFields DEF Resume, Step
<1> QED
  BY <1>1, <1>2, <1>3, <1>4, <1>5, <1>6, <1>7 DEF Next, Loop

-----------------------------------------------------------------------------
(* The types are kept.                                                     *)

\* The loop only goes on with an iteration to spare.
TurnsLeft ==
  pc \in Awaiting \/ (pc = "saving" /\ next = "check") => turnIdx < setup.turns

SnapshotRecord == [version : Nat, reply : Int]

\* The state of the call.
CallType ==
  /\ bound \in BOOLEAN /\ pc \in Awaiting \cup {"idle", "saving", "finish", "down"}
  /\ entry \in {"chat", "run"} /\ turnIdx \in 0..setup.turns
  /\ next \in {"idle", "check", "finish"}
  /\ outcome \in [how : {"none", "nothing", "refused", "moved", "summarized", "truncated"},
                  event : {"none", "failed", "batch", "done", "fallback", "denied", "max_tokens"}]
  /\ calls \in 0..setup.calls /\ crashes \in 0..setup.crashes

LEMMA SnapshotsNext ==
  ASSUME Types, Next
  PROVE  snapshots' \in Seq(SnapshotRecord)
<1>0. snapshots \in Seq(SnapshotRecord) /\ bodies \in Nat
  BY DEF Types, SnapshotRecord
<1>1. CASE UNCHANGED snapshots
  BY <1>0, <1>1
<1>2. CASE Snapshot
  <2>1. \/ UNCHANGED snapshots
        \/ snapshots' = Append(snapshots, [version |-> session'.version, reply |-> NoReply])
    BY <1>2 DEF Snapshot
  <2>2. session'.version \in Nat
    BY <1>2, QuietStep, Fields DEF Sessions
  <2>3. [version |-> session'.version, reply |-> NoReply] \in SnapshotRecord
    BY <2>2 DEF SnapshotRecord, NoReply
  <2> QED
    BY <1>0, <1>1, <2>1, <2>3, AppendProperties
<1>3. CASE EndTurn
  <2> DEFINE n == Len(snapshots)
             new == [snapshots EXCEPT ![n].reply = bodies + 1]
  <2>1. snapshots' = IF setup.memory THEN new ELSE snapshots
    BY <1>3 DEF EndTurn
  <2>2. new \in Seq(SnapshotRecord)
    <3>1. n \in Nat /\ DOMAIN snapshots = 1..n
      BY <1>0
    <3>2. CASE n = 0
      <4>1. new = snapshots
        BY <1>0, <3>1, <3>2
      <4> QED
        BY <1>0, <4>1
    <3>3. CASE n # 0
      <4>1. n \in 1..n /\ snapshots[n] \in SnapshotRecord
        BY <1>0, <3>1, <3>3
      <4>2. [snapshots[n] EXCEPT !.reply = bodies + 1] \in SnapshotRecord
        BY <1>0, <4>1 DEF SnapshotRecord
      <4> QED
        BY <1>0, <4>1, <4>2
    <3> QED
      BY <3>2, <3>3
  <2> QED
    BY <1>0, <2>1, <2>2
<1> QED
  BY <1>1, <1>2, <1>3
     DEF Next, Loop, ChatStart, RunStart, Abort, CheckCompress, StrategyRefused, NothingToCompress,
         StrategyApplied, StrategyStoreFails, CompressLegacy, Compressed, Unanswered, ToolRound, CutBatch,
         SaveWritten, SaveFails, Finish, Crash, Resume

LEMMA CallNext ==
  ASSUME Types, TurnsLeft, Next
  PROVE  CallType' /\ TurnsLeft' /\ setup' = setup
<1>0. /\ CallType /\ setup \in Setups /\ setup.turns \in Nat \ {0} /\ setup.calls \in Nat
      /\ setup.crashes \in Nat
  BY SetupType DEF Types, CallType
<1> USE DEF CallType, TurnsLeft, Awaiting
<1>1. CASE ChatStart
  BY <1>0, <1>1 DEF ChatStart
<1>2. CASE RunStart
  BY <1>0, <1>2 DEF RunStart
<1>3. CASE CheckCompress
  BY <1>0, <1>3 DEF CheckCompress, NoOutcome
<1>4. ASSUME NEW s, NEW how \in {"none", "nothing", "refused", "moved", "summarized", "truncated"},
             NEW event \in {"none", "failed", "batch", "done", "fallback", "denied", "max_tokens"},
             Compressed(s, how, event), pc = "compress"
      PROVE  CallType' /\ TurnsLeft' /\ setup' = setup
  BY <1>0, <1>4 DEF Compressed
<1>5. CASE StrategyRefused
  BY <1>4, <1>5 DEF StrategyRefused
<1>6. CASE NothingToCompress
  BY <1>4, <1>6 DEF NothingToCompress
<1>7. CASE StrategyApplied
  BY <1>4, <1>7 DEF StrategyApplied
<1>8. CASE CompressLegacy
  <2>1. \A s : LegacyEvent(s) \in {"fallback", "done", "none"}
    BY DEF LegacyEvent
  <2> HIDE DEF CallType, TurnsLeft, Awaiting
  <2>2. \E s : \E how \in {"nothing", "summarized", "truncated"} : Compressed(s, how, LegacyEvent(s))
    BY <1>8 DEF CompressLegacy
  <2>3. pc = "compress"
    BY <1>8 DEF CompressLegacy
  <2> QED
    BY <1>4, <2>1, <2>2, <2>3
<1>9. CASE StrategyStoreFails
  BY <1>0, <1>9 DEF StrategyStoreFails
<1>10. CASE Unanswered
  <2>1. outcome.how \in {"none", "nothing", "refused", "moved", "summarized", "truncated"}
    BY <1>0
  <2>2. outcome' \in [how : {"none", "nothing", "refused", "moved", "summarized", "truncated"},
                      event : {"none", "failed", "batch", "done", "fallback", "denied", "max_tokens"}]
    BY <1>0, <1>10, <2>1 DEF Unanswered
  <2> QED
    BY <1>0, <1>10, <2>2 DEF Unanswered
<1>11. CASE Snapshot
  BY <1>0, <1>11 DEF Snapshot
<1>12. CASE EndTurn
  BY <1>0, <1>12 DEF EndTurn, SaveThen
<1>13. CASE ToolRound
  <2>1. turnIdx < setup.turns /\ turnIdx + 1 \in 0..setup.turns
    BY <1>0, <1>13 DEF ToolRound
  <2> QED
    BY <1>0, <1>13, <2>1 DEF ToolRound, SaveThen
<1>14. CASE CutBatch
  BY <1>0, <1>14 DEF CutBatch
<1>15. CASE SaveWritten
  BY <1>0, <1>15 DEF SaveWritten
<1>16. CASE SaveFails
  BY <1>0, <1>16 DEF SaveFails
<1>17. CASE Finish
  BY <1>0, <1>17 DEF Finish, SaveThen
<1>18. CASE Abort
  BY <1>0, <1>18 DEF Abort
<1>19. CASE Crash
  BY <1>0, <1>19 DEF Crash, NoOutcome
<1>20. CASE Resume
  BY <1>0, <1>20 DEF Resume
<1> QED
  BY <1>1, <1>2, <1>3, <1>5, <1>6, <1>7, <1>8, <1>9, <1>10, <1>11, <1>12, <1>13, <1>14, <1>15, <1>16,
     <1>17, <1>18, <1>19, <1>20 DEF Next, Loop

\* What a step does to the file.
LEMMA DiskNext ==
  ASSUME Types, Next
  PROVE  /\ disk' \in [file : {"none", "torn", "whole"}, saved : Sessions]
         /\ disk' \in {disk, Torn} \/ SaveWritten
<1>1. Torn \in [file : {"none", "torn", "whole"}, saved : Sessions]
  <2>1. NewSession \in Sessions
    BY NewSessionType, SetupType DEF Sessions
  <2> QED
    BY <2>1 DEF Torn
<1>2. disk \in [file : {"none", "torn", "whole"}, saved : Sessions]
  BY DEF Types
<1>3. Step
  BY NextStep
<1> QED
  BY <1>1, <1>2, <1>3, SavedStep DEF Step, Quiet, Grows, Batched, Cut, Crash, Resume

LEMMA TypesNext ==
  ASSUME Types, TurnsLeft, Next
  PROVE  Types' /\ TurnsLeft'
<1>1. setup' = setup /\ setup \in Setups /\ CallType' /\ TurnsLeft'
  BY CallNext DEF Types
<1>2. Sessions' = Sessions
  BY <1>1 DEF Sessions
<1>3. session' \in Sessions /\ Step
  BY NextStep
<1>4. disk' \in [file : {"none", "torn", "whole"}, saved : Sessions]
  BY DiskNext
<1>5. snapshots' \in Seq(SnapshotRecord)
  BY SnapshotsNext
<1>6. store' \in Seq(Message)
  <2>1. CASE UNCHANGED store
    BY <2>1 DEF Types
  <2>2. ASSUME NEW members, Batched(members)
        PROVE  store' \in Seq(Message)
    <3>1. store' \in {store, PutMany(store, Split(session.messages).compress)} \/ PutSome
      BY <2>2 DEF Batched
    <3>2. Split(session.messages).compress \in Seq(Message) /\ store \in Seq(Message)
      BY <2>2, SplitParts, SessionFields DEF Batched, Types
    <3>3. CASE PutSome
      <4>1. PICK kept \in SUBSET DOMAIN Split(session.messages).compress :
              store' = PutMany(store, Among(Split(session.messages).compress, kept))
        BY <3>3 DEF PutSome
      <4> QED
        BY <3>2, <4>1, Selected, PutManyParts
    <3> QED
      BY <3>1, <3>2, <3>3, PutManyParts
  <2> QED
    BY <1>3, <2>1, <2>2, SavedStep DEF Step, Quiet, Grows, Cut, Crash, Resume
<1>7. bodies' \in Nat
  <2>1. bodies \in Nat
    BY DEF Types
  <2>2. bodies' \in {bodies, bodies + 1, bodies + 2}
    BY <1>3, SavedStep DEF Step, Quiet, Grows, Fresh, Batched, Cut, Crash, Resume
  <2> QED
    BY <2>1, <2>2
<1>8. pc' = "saving" => disk' = Torn
  BY DEF Types, Next, Loop, ChatStart, RunStart, Abort, CheckCompress, StrategyRefused, NothingToCompress,
         StrategyApplied, StrategyStoreFails, CompressLegacy, Compressed, Unanswered, Snapshot, EndTurn,
         ToolRound, CutBatch, SaveThen, SaveWritten, SaveFails, Finish, Crash, Resume
<1> QED
  BY <1>1, <1>2, <1>3, <1>4, <1>5, <1>6, <1>7, <1>8 DEF Types, CallType, SnapshotRecord

LEMMA TypesInit ==
  ASSUME Init
  PROVE  Types /\ TurnsLeft
<1>1. setup \in Setups /\ setup.failures \in Nat /\ setup.turns \in Nat \ {0} /\ setup.calls \in Nat
      /\ setup.crashes \in Nat /\ setup.bound \in BOOLEAN
  BY QueryLoopAssumption DEF Init
<1>2. NewSession \in Sessions
  BY <1>1, NewSessionType DEF Sessions
<1>3. <<>> \in Seq(Message) /\ <<>> \in Seq([version : Nat, reply : Int])
  OBVIOUS
<1> QED
  BY <1>1, <1>2, <1>3 DEF Init, Types, TurnsLeft, NoFile, NoOutcome, Awaiting

LEMMA Unchanged ==
  ASSUME Types, TurnsLeft, UNCHANGED vars
  PROVE  Types' /\ TurnsLeft'
BY DEF Types, TurnsLeft, Sessions, vars

LEMMA TypesHold == Spec => [](Types /\ TurnsLeft)
<1>1. Init => Types /\ TurnsLeft
  BY TypesInit
<1>2. Types /\ TurnsLeft /\ [Next]_vars => (Types /\ TurnsLeft)'
  BY TypesNext, Unchanged
<1> QED
  BY <1>1, <1>2, PTL DEF Spec

\* The variables stay in the states the fields of the code can be in; a file is only cut
\* short while a save runs or after one was interrupted.
THEOREM TypeCorrect == Spec => []TypeOK
<1>1. Types => TypeOK
  <2> SUFFICES ASSUME Types PROVE TypeOK
    OBVIOUS
  <2>1. ASSUME NEW s \in {session, disk.saved} PROVE SessionRecord(s)
    <3>1. s.failures \in 0..setup.failures
      <4>1. s.failures \in Nat /\ s.failures <= setup.failures /\ setup.failures \in Nat
        BY SessionFields, SetupType
      <4> QED
        BY <4>1
    <3> QED
      BY <3>1, SessionFields DEF SessionRecord
  <2> QED
    BY <2>1 DEF Types, TypeOK, Awaiting
<1> QED
  BY <1>1, TypesHold, PTL

-----------------------------------------------------------------------------
(* What a list holds.                                                      *)

\* The messages a session can still show.
Reach(held, msgs) == ToSet(held) \cup ToSet(msgs)

LEMMA JoinedElements ==
  ASSUME NEW a \in Seq(Message), NEW b \in Seq(Message), NEW m
  PROVE  m \in ToSet(a \o b) <=> (m \in ToSet(a) \/ m \in ToSet(b))
<1>1. /\ \A i \in DOMAIN a : i \in DOMAIN (a \o b) /\ (a \o b)[i] = a[i]
      /\ \A j \in DOMAIN b : Len(a) + j \in DOMAIN (a \o b) /\ (a \o b)[Len(a) + j] = b[j]
      /\ \A k \in DOMAIN (a \o b) : k \in DOMAIN a \/ \E j \in DOMAIN b : k = Len(a) + j
  BY JoinedParts
<1> DEFINE ab == a \o b
<1> HIDE DEF ab
<1>2. m \in ToSet(a) => m \in ToSet(ab)
  BY <1>1 DEF ToSet, ab
<1>3. m \in ToSet(b) => m \in ToSet(ab)
  BY <1>1 DEF ToSet, ab
<1>4. m \in ToSet(ab) => m \in ToSet(a) \/ m \in ToSet(b)
  <2> SUFFICES ASSUME NEW k \in DOMAIN ab, m = ab[k] PROVE m \in ToSet(a) \/ m \in ToSet(b)
    BY DEF ToSet
  <2>1. k \in DOMAIN a \/ \E j \in DOMAIN b : k = Len(a) + j
    BY <1>1 DEF ab
  <2> QED
    BY <1>1, <2>1 DEF ToSet, ab
<1> QED
  BY <1>2, <1>3, <1>4 DEF ab

LEMMA ChosenElements ==
  ASSUME NEW msgs \in Seq(Message), NEW P \in SUBSET DOMAIN msgs, NEW m \in ToSet(Among(msgs, P))
  PROVE  m \in ToSet(msgs)
<1>1. PICK k \in DOMAIN Among(msgs, P) : m = Among(msgs, P)[k]
  BY DEF ToSet
<1>2. Position(P, k) \in P /\ m = msgs[Position(P, k)]
  BY <1>1, Selected
<1> QED
  BY <1>2 DEF ToSet

LEMMA SplitElements ==
  ASSUME NEW msgs \in Seq(Message), Split(msgs).compress # <<>>, NEW m \in ToSet(msgs)
  PROVE  m \in ToSet(Split(msgs).compress) \/ m \in ToSet(Split(msgs).keep)
<1> DEFINE P == Older(msgs)
           Q == DOMAIN msgs \ P
<1>1. /\ Split(msgs).compress = Among(msgs, P) /\ Split(msgs).keep = Among(msgs, Q)
      /\ P \in SUBSET DOMAIN msgs /\ Q \in SUBSET DOMAIN msgs
  BY SplitParts
<1>2. PICK i \in DOMAIN msgs : m = msgs[i]
  BY DEF ToSet
<1>3. i \in P \/ i \in Q
  OBVIOUS
<1> HIDE DEF P, Q
<1>4. CASE i \in P
  <2>1. Rank(P, i) \in DOMAIN Among(msgs, P) /\ Among(msgs, P)[Rank(P, i)] = m
    BY <1>1, <1>2, <1>4, Selected
  <2> QED
    BY <1>1, <2>1 DEF ToSet
<1>5. CASE i \in Q
  <2>1. Rank(Q, i) \in DOMAIN Among(msgs, Q) /\ Among(msgs, Q)[Rank(Q, i)] = m
    BY <1>1, <1>2, <1>5, Selected
  <2> QED
    BY <1>1, <2>1 DEF ToSet
<1> QED
  BY <1>3, <1>4, <1>5

\* The split shares the messages out.
LEMMA SplitSets ==
  ASSUME NEW msgs \in Seq(Message), Split(msgs).compress # <<>>
  PROVE  /\ Split(msgs).compress \in Seq(Message) /\ Split(msgs).keep \in Seq(Message)
         /\ ToSet(Split(msgs).compress) \cup ToSet(Split(msgs).keep) = ToSet(msgs)
<1> DEFINE split == Split(msgs)
<1>1. split.compress \in Seq(Message) /\ split.keep \in Seq(Message)
  BY SplitParts
<1>2. ASSUME NEW m, m \in ToSet(split.compress) \/ m \in ToSet(split.keep)
      PROVE  m \in ToSet(msgs)
  <2>1. PICK P \in SUBSET DOMAIN msgs : m \in ToSet(Among(msgs, P))
    BY <1>2, SplitParts
  <2> QED
    BY <2>1, ChosenElements
<1>3. \A m \in ToSet(msgs) : m \in ToSet(split.compress) \/ m \in ToSet(split.keep)
  BY SplitElements
<1> HIDE DEF split
<1> QED
  BY <1>1, <1>2, <1>3 DEF split

-----------------------------------------------------------------------------
(* Ids.                                                                    *)

\* Without a strategy and an external store, what a session needs is in its record.
SelfContained == ~(setup.compressor = "strategy" /\ setup.store = "external")

\* An id names the same message in both lists.
Agree(held, msgs) ==
  \A a \in ToSet(held), b \in ToSet(msgs) : a.id = b.id /\ a.id # NoId => a = b

\* What a session and its archive hold: an id stands once in each and names one message,
\* all ids are issued, and within one record an id stands in one of the two only.
IdsSound(held, msgs, counter) ==
  /\ Distinct(held) /\ Distinct(msgs) /\ Agree(held, msgs)
  /\ SelfContained => Ids(held) \cap Ids(msgs) = {}
  /\ Ids(held) \cup Ids(msgs) \subseteq 1..counter

LEMMA IdsAre ==
  ASSUME NEW msgs, NEW x
  PROVE  x \in Ids(msgs) <=> x # NoId /\ \E i \in DOMAIN msgs : msgs[i].id = x
BY DEF Ids

LEMMA ElementIds ==
  ASSUME NEW msgs, NEW x
  PROVE  x \in Ids(msgs) <=> x # NoId /\ \E m \in ToSet(msgs) : m.id = x
BY DEF Ids, ToSet

LEMMA DistinctAgree ==
  ASSUME NEW msgs, Distinct(msgs)
  PROVE  Agree(msgs, msgs)
BY DEF Distinct, Agree, ToSet

LEMMA ApartAgree ==
  ASSUME NEW held, NEW msgs, Ids(held) \cap Ids(msgs) = {}
  PROVE  Agree(held, msgs)
BY ElementIds DEF Agree

LEMMA JoinedIds ==
  ASSUME NEW a \in Seq(Message), NEW b \in Seq(Message)
  PROVE  /\ Ids(a \o b) = Ids(a) \cup Ids(b)
         /\ Distinct(a) /\ Distinct(b) /\ Ids(a) \cap Ids(b) = {} => Distinct(a \o b)
<1> DEFINE c == a \o b
<1>1. /\ c \in Seq(Message)
      /\ \A i \in DOMAIN a : i \in DOMAIN c /\ c[i] = a[i]
      /\ \A j \in DOMAIN b : Len(a) + j \in DOMAIN c /\ c[Len(a) + j] = b[j]
      /\ \A k \in DOMAIN c : k \in DOMAIN a \/ \E j \in DOMAIN b : k = Len(a) + j
  BY JoinedParts
<1>2. Len(a) \in Nat /\ \A j \in DOMAIN b : j \in Nat
  OBVIOUS
<1> HIDE DEF c
<1>3. Ids(c) = Ids(a) \cup Ids(b)
  <2>1. \A x : (\E k \in DOMAIN c : c[k].id = x) <=>
               (\E i \in DOMAIN a : a[i].id = x) \/ (\E j \in DOMAIN b : b[j].id = x)
    BY <1>1
  <2>2. \A x : x \in Ids(c) <=> x \in Ids(a) \/ x \in Ids(b)
    BY <2>1, IdsAre
  <2> QED
    BY <2>2
<1>4. ASSUME Distinct(a), Distinct(b), Ids(a) \cap Ids(b) = {},
             NEW k \in DOMAIN c, NEW l \in DOMAIN c, k # l, c[k].id # NoId, c[k].id = c[l].id
      PROVE  FALSE
  <2>1. \A i \in DOMAIN a : a[i].id # NoId => a[i].id \in Ids(a)
    BY DEF Ids
  <2>2. \A j \in DOMAIN b : b[j].id # NoId => b[j].id \in Ids(b)
    BY DEF Ids
  <2>3. CASE k \in DOMAIN a /\ l \in DOMAIN a
    BY <1>1, <1>4, <2>3 DEF Distinct
  <2>4. CASE k \in DOMAIN a /\ l \notin DOMAIN a
    BY <1>1, <1>4, <2>1, <2>2, <2>4
  <2>5. CASE k \notin DOMAIN a /\ l \in DOMAIN a
    BY <1>1, <1>4, <2>1, <2>2, <2>5
  <2>6. CASE k \notin DOMAIN a /\ l \notin DOMAIN a
    <3>1. PICK j \in DOMAIN b : k = Len(a) + j
      BY <1>1, <2>6
    <3>2. PICK m \in DOMAIN b : l = Len(a) + m
      BY <1>1, <2>6
    <3>3. j # m /\ c[k] = b[j] /\ c[l] = b[m]
      BY <1>1, <1>4, <3>1, <3>2
    <3> QED
      BY <1>4, <3>3 DEF Distinct
  <2> QED
    BY <2>3, <2>4, <2>5, <2>6
<1>5. Distinct(a) /\ Distinct(b) /\ Ids(a) \cap Ids(b) = {} => Distinct(c)
  BY <1>4 DEF Distinct
<1> QED
  BY <1>3, <1>5 DEF c

LEMMA SelectedIds ==
  ASSUME NEW msgs \in Seq(Message), NEW P \in SUBSET DOMAIN msgs
  PROVE  /\ Ids(Among(msgs, P)) = {msgs[i].id : i \in P} \ {NoId}
         /\ Distinct(msgs) => Distinct(Among(msgs, P))
<1> DEFINE s == Among(msgs, P)
<1>1. /\ s \in Seq(Message)
      /\ \A i \in DOMAIN s : Position(P, i) \in P /\ s[i] = msgs[Position(P, i)]
      /\ \A i, j \in DOMAIN s : i < j => Position(P, i) < Position(P, j)
      /\ \A k \in P : Rank(P, k) \in DOMAIN s /\ s[Rank(P, k)] = msgs[k]
  BY Selected
<1> HIDE DEF s
<1>2. \A i \in DOMAIN s : i \in Nat
  BY <1>1
<1>3. \A k \in P : k \in DOMAIN msgs /\ k \in Nat
  OBVIOUS
<1>4. Ids(s) = {msgs[i].id : i \in P} \ {NoId}
  <2>1. \A x : (\E k \in DOMAIN s : s[k].id = x) <=> (\E i \in P : msgs[i].id = x)
    BY <1>1
  <2>2. \A x : x \in Ids(s) <=> x # NoId /\ \E i \in P : msgs[i].id = x
    BY <2>1, IdsAre
  <2>3. \A x : x \in {msgs[i].id : i \in P} \ {NoId} <=> x # NoId /\ \E i \in P : msgs[i].id = x
    OBVIOUS
  <2> QED
    BY <2>2, <2>3
<1>5. ASSUME Distinct(msgs), NEW i \in DOMAIN s, NEW j \in DOMAIN s, i # j, s[i].id # NoId
      PROVE  s[i].id # s[j].id
  <2>1. Position(P, i) # Position(P, j)
    <3>1. i < j \/ j < i
      BY <1>2, <1>5
    <3>2. Position(P, i) \in Nat /\ Position(P, j) \in Nat
      BY <1>1, <1>3
    <3> QED
      BY <1>1, <3>1, <3>2
  <2> DEFINE p == Position(P, i)
             q == Position(P, j)
  <2>2. p \in DOMAIN msgs /\ q \in DOMAIN msgs /\ s[i] = msgs[p] /\ s[j] = msgs[q]
    BY <1>1, <1>3
  <2>3. p # q
    BY <2>1
  <2> HIDE DEF p, q
  <2> QED
    BY <1>5, <2>2, <2>3 DEF Distinct
<1>6. Distinct(msgs) => Distinct(s)
  BY <1>5 DEF Distinct
<1> QED
  BY <1>4, <1>6 DEF s

LEMMA GrownIds ==
  ASSUME NEW held \in Seq(Message), NEW msgs \in Seq(Message), NEW new \in Seq(Message),
         NEW c \in Nat, NEW d \in {c, c + Len(new)}, IdsSound(held, msgs, c),
         \A i \in 1..Len(new) : new[i].id \in {NoId, c + i},
         d = c => \A i \in 1..Len(new) : new[i].id = NoId
  PROVE  IdsSound(held, msgs \o new, d)
<1>1. DOMAIN new = 1..Len(new) /\ Len(new) \in Nat /\ d \in Nat /\ c <= d
  OBVIOUS
<1>2. Ids(held) \subseteq 1..c /\ Ids(msgs) \subseteq 1..c
  BY DEF IdsSound
<1>3. ASSUME NEW x \in Ids(new) PROVE x \in Nat /\ c < x /\ x <= d
  <2>1. PICK i \in DOMAIN new : new[i].id = x /\ x # NoId
    BY <1>3, IdsAre
  <2>2. x = c + i /\ d # c /\ i \in 1..Len(new)
    BY <1>1, <2>1
  <2>3. d = c + Len(new)
    BY <2>2
  <2> QED
    BY <1>1, <2>2, <2>3
<1>4. ASSUME NEW x \in 1..c PROVE x \notin Ids(new)
  BY <1>3
<1>5. Ids(msgs) \cap Ids(new) = {} /\ Ids(held) \cap Ids(new) = {}
  BY <1>2, <1>4
<1>11. Agree(held, msgs \o new)
  <2> SUFFICES ASSUME NEW a \in ToSet(held), NEW b \in ToSet(msgs \o new), a.id = b.id, a.id # NoId
               PROVE  a = b
    BY DEF Agree
  <2>1. b \in ToSet(msgs) \/ b \in ToSet(new)
    BY JoinedElements
  <2>2. a.id \in Ids(held) /\ (b \in ToSet(new) => b.id \in Ids(new))
    BY ElementIds
  <2> QED
    BY <1>5, <2>1, <2>2 DEF IdsSound, Agree
<1>6. Distinct(new)
  <2>1. ASSUME NEW i \in DOMAIN new, NEW j \in DOMAIN new, i # j, new[i].id # NoId, new[i].id = new[j].id
        PROVE  FALSE
    <3>1. i \in 1..Len(new) /\ j \in 1..Len(new)
      BY <1>1
    <3>2. new[i].id = c + i /\ new[j].id = c + j
      BY <2>1, <3>1
    <3>3. c + i = c + j
      BY <2>1, <3>2
    <3>4. i = j
      BY <3>1, <3>3
    <3> QED
      BY <2>1, <3>4
  <2> QED
    BY <2>1 DEF Distinct
<1>7. Distinct(msgs \o new) /\ Ids(msgs \o new) = Ids(msgs) \cup Ids(new)
  BY <1>5, <1>6, JoinedIds DEF IdsSound
<1>8. \A x \in 1..c : x \in 1..d
  BY <1>1
<1>9. \A x \in Ids(new) : x \in 1..d
  <2>1. ASSUME NEW x \in Ids(new) PROVE x \in 1..d
    <3>1. x \in Nat /\ c < x /\ x <= d
      BY <1>3
    <3> QED
      BY <1>1, <3>1
  <2> QED
    BY <2>1
<1>10. Ids(held) \cup Ids(msgs \o new) \subseteq 1..d
  BY <1>2, <1>7, <1>8, <1>9
<1>12. SelfContained => Ids(held) \cap Ids(msgs \o new) = {}
  BY <1>5, <1>7 DEF IdsSound
<1> QED
  BY <1>7, <1>10, <1>11, <1>12 DEF IdsSound

LEMMA SplitIds ==
  ASSUME NEW msgs \in Seq(Message), Split(msgs).compress # <<>>
  PROVE  /\ Ids(Split(msgs).compress) \cup Ids(Split(msgs).keep) = Ids(msgs)
         /\ Distinct(msgs) => /\ Distinct(Split(msgs).compress) /\ Distinct(Split(msgs).keep)
                              /\ Ids(Split(msgs).compress) \cap Ids(Split(msgs).keep) = {}
<1> DEFINE P == Older(msgs)
           Q == DOMAIN msgs \ P
<1>1. P \in SUBSET DOMAIN msgs /\ Q \in SUBSET DOMAIN msgs
      /\ Split(msgs).compress = Among(msgs, P) /\ Split(msgs).keep = Among(msgs, Q)
  BY SplitParts
<1>2. P \cup Q = DOMAIN msgs /\ P \cap Q = {}
  BY <1>1
<1> HIDE DEF P, Q
<1>3. /\ Ids(Among(msgs, P)) = {msgs[i].id : i \in P} \ {NoId}
      /\ Ids(Among(msgs, Q)) = {msgs[i].id : i \in Q} \ {NoId}
      /\ Distinct(msgs) => Distinct(Among(msgs, P)) /\ Distinct(Among(msgs, Q))
  BY <1>1, SelectedIds
<1>4. Ids(Among(msgs, P)) \cup Ids(Among(msgs, Q)) = Ids(msgs)
  BY <1>2, <1>3 DEF Ids
<1>5. Distinct(msgs) => Ids(Among(msgs, P)) \cap Ids(Among(msgs, Q)) = {}
  <2> SUFFICES ASSUME Distinct(msgs), NEW x \in Ids(Among(msgs, P)), x \in Ids(Among(msgs, Q))
               PROVE  FALSE
    OBVIOUS
  <2>1. PICK i \in P : msgs[i].id = x
    BY <1>3
  <2>2. PICK j \in Q : msgs[j].id = x
    BY <1>3
  <2>3. x # NoId
    BY <1>3
  <2> QED
    BY <1>1, <1>2, <2>1, <2>2, <2>3 DEF Distinct
<1> QED
  BY <1>1, <1>3, <1>4, <1>5

LEMMA PutManyIds ==
  ASSUME NEW held \in Seq(Message), NEW new \in Seq(Message)
  PROVE  /\ Ids(PutMany(held, new)) = Ids(held) \cup Ids(new)
         /\ Distinct(held) /\ Distinct(new) => Distinct(PutMany(held, new))
         /\ Ids(held) \cap Ids(new) = {} => PutMany(held, new) = held \o new
<1> DEFINE P == {i \in DOMAIN new : new[i].id = NoId \/ new[i].id \notin Ids(held)}
           more == Among(new, P)
<1>1. more \in Seq(Message) /\ P \in SUBSET DOMAIN new /\ PutMany(held, new) = held \o more
  BY PutManyParts
<1>2. Ids(more) = {new[i].id : i \in P} \ {NoId} /\ (Distinct(new) => Distinct(more))
  BY <1>1, SelectedIds
<1> HIDE DEF more
<1>3. Ids(more) = Ids(new) \ Ids(held)
  <2>1. ASSUME NEW x PROVE x \in Ids(more) <=> x \in Ids(new) /\ x \notin Ids(held)
    <3>1. x \in Ids(more) <=> x # NoId /\ \E i \in P : new[i].id = x
      BY <1>2
    <3>2. (\E i \in P : new[i].id = x) /\ x # NoId <=> x # NoId /\ x \notin Ids(held) /\ \E i \in DOMAIN new : new[i].id = x
      OBVIOUS
    <3> QED
      BY <3>1, <3>2, IdsAre
  <2> QED
    BY <2>1
<1>4. Ids(held \o more) = Ids(held) \cup Ids(more)
      /\ (Distinct(held) /\ Distinct(more) /\ Ids(held) \cap Ids(more) = {} => Distinct(held \o more))
  BY <1>1, JoinedIds
<1>5. Ids(held) \cap Ids(new) = {} => more = new
  <2> SUFFICES ASSUME Ids(held) \cap Ids(new) = {} PROVE more = new
    OBVIOUS
  <2>1. ASSUME NEW i \in DOMAIN new, new[i].id # NoId PROVE new[i].id \in Ids(new)
    BY <2>1, IdsAre
  <2>2. P = DOMAIN new
    BY <2>1
  <2>3. DOMAIN new = 1..Len(new) /\ Len(new) \in Nat /\ Len(new) \in 0..Len(new)
    OBVIOUS
  <2>4. Len(Among(new, 1..Len(new))) = Len(new) /\ \A i \in 1..Len(new) : Among(new, 1..Len(new))[i] = new[i]
    BY <2>3, SelectedFront
  <2>5. Len(more) = Len(new) /\ \A i \in 1..Len(new) : more[i] = new[i]
    BY <2>2, <2>3, <2>4 DEF more
  <2> HIDE DEF P
  <2>6. Len(more) = Len(new) /\ \A i \in 1..Len(more) : more[i] = new[i]
    BY <2>5
  <2> QED
    BY <1>1, <2>6, SeqEqual
<1> QED
  BY <1>1, <1>2, <1>3, <1>4, <1>5

\* A body that is taken for known is the one that is held.
LEMMA PutManyElements ==
  ASSUME NEW held \in Seq(Message), NEW new \in Seq(Message), Agree(held, new), NEW m
  PROVE  m \in ToSet(PutMany(held, new)) <=> (m \in ToSet(held) \/ m \in ToSet(new))
<1> DEFINE P == {i \in DOMAIN new : new[i].id = NoId \/ new[i].id \notin Ids(held)}
           more == Among(new, P)
<1>1. more \in Seq(Message) /\ P \in SUBSET DOMAIN new /\ PutMany(held, new) = held \o more
  BY PutManyParts
<1>2. m \in ToSet(PutMany(held, new)) <=> (m \in ToSet(held) \/ m \in ToSet(more))
  BY <1>1, JoinedElements
<1>3. m \in ToSet(more) => m \in ToSet(new)
  BY <1>1, ChosenElements
<1>4. ASSUME m \in ToSet(new) PROVE m \in ToSet(held) \/ m \in ToSet(more)
  <2>1. PICK i \in DOMAIN new : m = new[i]
    BY <1>4 DEF ToSet
  <2>2. CASE i \in P
    <3>1. Rank(P, i) \in DOMAIN more /\ more[Rank(P, i)] = m
      BY <1>1, <2>1, <2>2, Selected
    <3> QED
      BY <3>1 DEF ToSet
  <2>3. CASE i \notin P
    <3>1. m.id # NoId /\ m.id \in Ids(held)
      BY <2>1, <2>3
    <3>2. PICK a \in ToSet(held) : a.id = m.id
      BY <3>1, ElementIds
    <3> QED
      BY <1>4, <3>1, <3>2 DEF Agree
  <2> QED
    BY <2>2, <2>3
<1> QED
  BY <1>2, <1>3, <1>4

\* Bodies of the list msgs are put to the archive, and keep stays of it.
LEMMA PutIds ==
  ASSUME NEW held \in Seq(Message), NEW msgs \in Seq(Message), NEW c, IdsSound(held, msgs, c),
         NEW new \in Seq(Message), Distinct(new), ToSet(new) \subseteq ToSet(msgs),
         NEW keep \in Seq(Message), Distinct(keep), ToSet(keep) \subseteq ToSet(msgs),
         SelfContained => Ids(new) \cap Ids(keep) = {}
  PROVE  /\ IdsSound(PutMany(held, new), keep, c)
         /\ ToSet(PutMany(held, new)) = ToSet(held) \cup ToSet(new)
         /\ SelfContained => PutMany(held, new) = held \o new
<1> DEFINE put == PutMany(held, new)
<1>0. /\ Distinct(held) /\ Distinct(msgs) /\ Agree(held, msgs)
      /\ SelfContained => Ids(held) \cap Ids(msgs) = {}
      /\ Ids(held) \cup Ids(msgs) \subseteq 1..c
  BY DEF IdsSound
<1>1. Ids(new) \subseteq Ids(msgs) /\ Ids(keep) \subseteq Ids(msgs)
  BY ElementIds
<1>2. Agree(held, new) /\ Agree(held, keep)
  BY <1>0 DEF Agree
<1>3. Agree(new, keep)
  BY <1>0, DistinctAgree DEF Agree
<1>4. \A m : m \in ToSet(put) <=> (m \in ToSet(held) \/ m \in ToSet(new))
  BY <1>2, PutManyElements
<1>5. Ids(put) = Ids(held) \cup Ids(new) /\ Distinct(put)
      /\ (Ids(held) \cap Ids(new) = {} => put = held \o new)
  BY <1>0, PutManyIds
<1> HIDE DEF put
<1>6. Agree(put, keep)
  BY <1>2, <1>3, <1>4 DEF Agree
<1>7. SelfContained => Ids(put) \cap Ids(keep) = {} /\ Ids(held) \cap Ids(new) = {}
  BY <1>0, <1>1, <1>5
<1>8. IdsSound(put, keep, c)
  BY <1>0, <1>1, <1>5, <1>6, <1>7 DEF IdsSound
<1> QED
  BY <1>4, <1>5, <1>7, <1>8 DEF put

LEMMA RemainsIds ==
  ASSUME NEW msgs \in Seq(Message), NEW out, NEW of, Remains(out, msgs, of)
  PROVE  Ids(out) \subseteq Ids(msgs) /\ (Distinct(msgs) => Distinct(out))
<1>1. ASSUME NEW k \in DOMAIN out, out[k].id # NoId
      PROVE  of[k] \in DOMAIN msgs /\ of[k] # 0 /\ out[k].id = msgs[of[k]].id
  <2>1. of[k] # 0
    BY <1>1 DEF Remains, Blank
  <2>2. of[k] \in DOMAIN msgs
    BY <2>1, SeqFacts DEF Remains
  <2>3. msgs[of[k]].str /\ out[k] = msgs[of[k]]
    BY <1>1, <2>1, <2>2, SeqFacts, MessageFields DEF Remains, Pruned
  <2> QED
    BY <2>1, <2>2, <2>3
<1>2. ASSUME NEW x \in Ids(out) PROVE x \in Ids(msgs)
  <2>1. PICK k \in DOMAIN out : out[k].id = x /\ x # NoId
    BY <1>2, IdsAre
  <2> QED
    BY <1>1, <2>1, IdsAre
<1>3. ASSUME Distinct(msgs), NEW k \in DOMAIN out, NEW l \in DOMAIN out, k # l,
             out[k].id # NoId, out[k].id = out[l].id
      PROVE  FALSE
  <2>1. k < l \/ l < k
    <3>1. out \in Seq(Message)
      BY DEF Remains
    <3> QED
      BY <1>3, <3>1
  <2>2. of[k] \in DOMAIN msgs /\ of[l] \in DOMAIN msgs /\ of[k] # 0 /\ of[l] # 0
        /\ msgs[of[k]].id = msgs[of[l]].id /\ msgs[of[k]].id # NoId
    BY <1>1, <1>3
  <2>3. of[k] < of[l] \/ of[l] < of[k]
    BY <2>1, <2>2 DEF Remains
  <2>4. of[k] # of[l]
    BY <2>2, <2>3, SeqFacts
  <2> QED
    BY <1>3, <2>2, <2>4 DEF Distinct
<1> QED
  BY <1>2, <1>3 DEF Distinct

\* Where bodies and batches can be: the legacy path has neither.
Filed(s) ==
  /\ setup.compressor = "legacy" \/ setup.store = "external" => s.bucket = <<>>
  /\ setup.compressor = "legacy" => s.batches = <<>>

Frame ==
  /\ Filed(session) /\ Filed(disk.saved)
  /\ setup.compressor = "legacy" \/ setup.store = "bucket" => store = <<>>
  /\ pc = "down" => crashes > 0

IdsInv ==
  /\ ~IdsReissued => IdsSound(Archive, session.messages, session.msgCounter)
  /\ SelfContained => IdsSound(disk.saved.bucket, disk.saved.messages, disk.saved.msgCounter)

LEMMA SetupStays ==
  ASSUME Next
  PROVE  setup' = setup
BY DEF Next, Loop, ChatStart, RunStart, Abort, CheckCompress, StrategyRefused, NothingToCompress,
       StrategyApplied, StrategyStoreFails, CompressLegacy, Compressed, Unanswered, Snapshot, EndTurn,
       ToolRound, CutBatch, SaveWritten, SaveFails, Finish, Crash, Resume

LEMMA CrashesCount ==
  ASSUME Types, Next
  PROVE  crashes \in Nat /\ crashes' \in Nat /\ crashes <= crashes'
<1>1. crashes \in Nat
  BY SetupType DEF Types
<1>2. crashes' = crashes \/ crashes' = crashes + 1
  BY NextStep, SavedStep DEF Step, Quiet, Grows, Batched, Cut, Crash, Resume
<1> QED
  BY <1>1, <1>2

LEMMA ArchiveType ==
  ASSUME Types
  PROVE  Archive \in Seq(Message)
BY SessionFields DEF Types, Archive

LEMMA FrameNext ==
  ASSUME Types, Frame, Next
  PROVE  Frame'
<1>0. setup' = setup /\ crashes \in Nat /\ crashes' \in Nat /\ crashes <= crashes'
  BY SetupStays, CrashesCount
<1>1. pc' = "down" => crashes' > 0
  <2>1. pc' = "down" => Crash
    BY DEF Next, Loop, ChatStart, RunStart, Abort, CheckCompress, StrategyRefused, NothingToCompress,
           StrategyApplied, StrategyStoreFails, CompressLegacy, Compressed, Unanswered, Snapshot, EndTurn,
           ToolRound, CutBatch, SaveThen, SaveWritten, SaveFails, Finish, Crash, Resume, Types, Awaiting
  <2>2. Crash => crashes' = crashes + 1
    BY DEF Crash
  <2> QED
    BY <1>0, <2>1, <2>2
<1>2. Filed(NewSession)
  BY NewSessionType DEF Filed
<1>3. Filed(Torn.saved)
  BY <1>2 DEF Torn
<1>4. Step
  BY NextStep
<1>5. ASSUME NEW s, NEW t, Filed(s), t.bucket = s.bucket, t.batches = s.batches
      PROVE  Filed(t)
  BY <1>5 DEF Filed
<1>6. Filed(disk.saved)
  BY DEF Frame
<1>7. Filed(session') /\ Filed(disk'.saved)
      /\ (setup.compressor = "legacy" \/ setup.store = "bucket" => store' = <<>>)
  <2>1. CASE Quiet \/ (\E new : Grows(new)) \/ Cut
    <3>1. session'.bucket = session.bucket /\ session'.batches = session.batches /\ store' = store
          /\ disk' \in {disk, Torn}
      BY <2>1 DEF Quiet, Grows, Cut
    <3> QED
      BY <1>3, <1>5, <3>1 DEF Frame
  <2>2. ASSUME NEW members, Batched(members)
        PROVE  Filed(session') /\ Filed(disk'.saved)
               /\ (setup.compressor = "legacy" \/ setup.store = "bucket" => store' = <<>>)
    <3>1. /\ setup.compressor = "strategy" /\ disk' = disk
          /\ setup.store = "external" => session'.bucket = session.bucket
          /\ setup.store = "bucket" => store' = store
      BY <2>2 DEF Batched, PutSome
    <3> QED
      BY <3>1 DEF Frame, Filed
  <2>3. CASE SaveWritten
    BY <1>5, <2>3, SavedStep DEF Frame
  <2>4. CASE Crash
    BY <1>2, <2>4 DEF Crash, Frame
  <2>5. CASE Resume
    BY <2>5 DEF Resume, Frame
  <2> QED
    BY <1>4, <2>1, <2>2, <2>3, <2>4, <2>5 DEF Step
<1> QED
  BY <1>0, <1>1, <1>7 DEF Frame, Filed

\* What a step does to the archive.
LEMMA ArchiveNext ==
  ASSUME Types, Frame, Next
  PROVE  /\ Quiet \/ (\E new : Grows(new)) \/ Cut \/ SaveWritten => Archive' = Archive
         /\ \A members : Batched(members) =>
              \/ session'.messages = session.messages /\ Archive' = Archive
              \/ /\ session'.messages = session.messages /\ ~SelfContained
                 /\ \E kept \in SUBSET DOMAIN Split(session.messages).compress :
                      Archive' = PutMany(Archive, Among(Split(session.messages).compress, kept))
              \/ /\ session'.messages = Split(session.messages).keep
                 /\ Archive' = PutMany(Archive, Split(session.messages).compress)
         /\ SelfContained => Archive = session.bucket /\ Archive' = session'.bucket
<1>1. setup' = setup /\ Frame' /\ setup.store \in {"bucket", "external"}
      /\ setup.compressor \in {"strategy", "legacy"}
  BY SetupStays, FrameNext, SetupType
<1>2. Archive = (IF setup.store = "external" THEN store ELSE session.bucket)
      /\ Archive' = (IF setup.store = "external" THEN store' ELSE session'.bucket)
  BY <1>1 DEF Archive
<1>3. SelfContained => Archive = session.bucket /\ Archive' = session'.bucket
  BY <1>1, <1>2 DEF Frame, Filed, SelfContained
<1>4. Quiet \/ (\E new : Grows(new)) \/ Cut \/ SaveWritten => Archive' = Archive
  BY <1>2, SavedStep DEF Quiet, Grows, Cut
<1>5. ASSUME NEW members, Batched(members)
      PROVE  \/ session'.messages = session.messages /\ Archive' = Archive
             \/ /\ session'.messages = session.messages /\ ~SelfContained
                /\ \E kept \in SUBSET DOMAIN Split(session.messages).compress :
                     Archive' = PutMany(Archive, Among(Split(session.messages).compress, kept))
             \/ /\ session'.messages = Split(session.messages).keep
                /\ Archive' = PutMany(Archive, Split(session.messages).compress)
  BY <1>1, <1>2, <1>5 DEF Batched, PutSome, SelfContained
<1> QED
  BY <1>3, <1>4, <1>5

\* A step of the strategy moves the bodies, or puts some of them: nothing gets out of reach,
\* because what is taken for known is what is held; within one record nothing is known.
LEMMA MovedAll ==
  ASSUME Types, Frame, IdsInv, Next, ~IdsReissued, NEW members, Batched(members)
  PROVE  /\ IdsSound(Archive', session'.messages, session.msgCounter)
         /\ Reach(Archive', session'.messages) = Reach(Archive, session.messages)
         /\ SelfContained =>
              \/ session'.messages = session.messages /\ Archive' = Archive
              \/ /\ session'.messages = Split(session.messages).keep
                 /\ Archive' = Archive \o Split(session.messages).compress
<1> DEFINE msgs == session.messages
           split == Split(msgs)
<1>1. msgs \in Seq(Message) /\ Archive \in Seq(Message) /\ split.compress # <<>>
  BY SessionFields, ArchiveType DEF Batched
<1>2. /\ split.compress \in Seq(Message) /\ split.keep \in Seq(Message)
      /\ ToSet(split.compress) \cup ToSet(split.keep) = ToSet(msgs)
  BY <1>1, SplitSets
<1>3. IdsSound(Archive, msgs, session.msgCounter)
  BY DEF IdsInv
<1>4. /\ Distinct(msgs) /\ Distinct(split.compress) /\ Distinct(split.keep)
      /\ Ids(split.compress) \cap Ids(split.keep) = {}
  BY <1>1, <1>3, SplitIds DEF IdsSound
<1> HIDE DEF split
<1>5. CASE session'.messages = split.keep /\ Archive' = PutMany(Archive, split.compress)
  <2>1. /\ IdsSound(PutMany(Archive, split.compress), split.keep, session.msgCounter)
        /\ ToSet(PutMany(Archive, split.compress)) = ToSet(Archive) \cup ToSet(split.compress)
        /\ SelfContained => PutMany(Archive, split.compress) = Archive \o split.compress
    BY <1>1, <1>2, <1>3, <1>4, PutIds
  <2> QED
    BY <1>2, <1>5, <2>1 DEF Reach, split
<1>6. ASSUME session'.messages = msgs, ~SelfContained, NEW kept \in SUBSET DOMAIN split.compress,
             Archive' = PutMany(Archive, Among(split.compress, kept))
      PROVE  /\ IdsSound(Archive', session'.messages, session.msgCounter)
             /\ Reach(Archive', session'.messages) = Reach(Archive, msgs)
  <2> DEFINE some == Among(split.compress, kept)
  <2>1. some \in Seq(Message) /\ Distinct(some)
    BY <1>2, <1>4, Selected, SelectedIds
  <2>2. ToSet(some) \subseteq ToSet(split.compress)
    BY <1>2, ChosenElements
  <2>3. ToSet(some) \subseteq ToSet(msgs)
    BY <1>2, <2>2
  <2> HIDE DEF some
  <2>4. /\ IdsSound(PutMany(Archive, some), msgs, session.msgCounter)
        /\ ToSet(PutMany(Archive, some)) = ToSet(Archive) \cup ToSet(some)
    BY <1>1, <1>3, <1>4, <1>6, <2>1, <2>3, PutIds
  <2> QED
    BY <1>6, <2>3, <2>4 DEF Reach, some
<1>7. CASE session'.messages = msgs /\ Archive' = Archive
  BY <1>3, <1>7
<1> QED
  BY <1>5, <1>6, <1>7, ArchiveNext DEF split

LEMMA IdsNext ==
  ASSUME Types, Frame, IdsInv, Next
  PROVE  IdsInv'
<1> DEFINE msgs == session.messages
           split == Split(msgs)
<1>0. /\ setup' = setup /\ crashes \in Nat /\ crashes' \in Nat /\ crashes <= crashes' /\ Step
      /\ msgs \in Seq(Message) /\ session.msgCounter \in Nat /\ Archive \in Seq(Message)
      /\ (SelfContained <=> SelfContained')
  BY SetupStays, CrashesCount, NextStep, SessionFields, ArchiveType DEF SelfContained
<1>1. IdsReissued => IdsReissued'
  BY <1>0 DEF IdsReissued
<1>2. SelfContained => ~IdsReissued
  BY DEF SelfContained, IdsReissued
<1>3. IdsSound(NewSession.bucket, NewSession.messages, NewSession.msgCounter)
  BY NewSessionType DEF IdsSound, Distinct, Ids, Agree, ToSet
<1>4. SelfContained => IdsSound(Torn.saved.bucket, Torn.saved.messages, Torn.saved.msgCounter)
  BY <1>3 DEF Torn
<1>5. SelfContained => IdsSound(disk'.saved.bucket, disk'.saved.messages, disk'.saved.msgCounter)
  <2>1. CASE disk' \in {disk, Torn}
    BY <1>4, <2>1 DEF IdsInv
  <2>2. CASE SaveWritten
    BY <1>2, <2>2, SavedStep, ArchiveNext DEF IdsInv
  <2> QED
    BY <2>1, <2>2, DiskNext
<1>6. ASSUME ~IdsReissued'
      PROVE  IdsSound(Archive', session'.messages, session'.msgCounter)
  <2>0. IdsSound(Archive, msgs, session.msgCounter)
    BY <1>1, <1>6 DEF IdsInv
  <2>1. CASE Quiet \/ SaveWritten
    BY <2>0, <2>1, ArchiveNext, SavedStep DEF Quiet
  <2>2. ASSUME NEW new, Grows(new)
        PROVE  IdsSound(Archive', session'.messages, session'.msgCounter)
    <3>1. Archive' = Archive /\ session'.messages = msgs \o new /\ new \in Seq(Message)
      BY <2>2, ArchiveNext DEF Grows, Fresh
    <3>2. /\ session'.msgCounter \in {session.msgCounter, session.msgCounter + Len(new)}
          /\ \A i \in 1..Len(new) : new[i].id \in {NoId, session.msgCounter + i}
          /\ session'.msgCounter = session.msgCounter => \A i \in 1..Len(new) : new[i].id = NoId
      BY <2>2 DEF Grows, Fresh
    <3> DEFINE held == Archive
               c == session.msgCounter
               d == session'.msgCounter
    <3>3. /\ held \in Seq(Message) /\ msgs \in Seq(Message) /\ new \in Seq(Message) /\ c \in Nat
          /\ d \in {c, c + Len(new)} /\ IdsSound(held, msgs, c)
          /\ \A i \in 1..Len(new) : new[i].id \in {NoId, c + i}
          /\ d = c => \A i \in 1..Len(new) : new[i].id = NoId
      BY <1>0, <2>0, <3>1, <3>2
    <3>4. Archive' = held /\ session'.messages = msgs \o new /\ session'.msgCounter = d
      BY <3>1
    <3> HIDE DEF msgs, held, c, d
    <3>5. IdsSound(held, msgs \o new, d)
      BY <3>3, GrownIds
    <3> QED
      BY <3>4, <3>5
  <2>3. ASSUME NEW members, Batched(members)
        PROVE  IdsSound(Archive', session'.messages, session'.msgCounter)
    <3>1. session'.msgCounter = session.msgCounter
      BY <2>3 DEF Batched
    <3> QED
      BY <1>1, <1>6, <2>3, <3>1, MovedAll
  <2>4. CASE Cut
    <3>1. Archive' = Archive /\ session'.msgCounter = session.msgCounter /\ Len(msgs) >= 3
          /\ session'.messages \in {TruncateOldest(msgs), Summarize(msgs)}
      BY <2>4, ArchiveNext DEF Cut
    <3>2. PICK of : Remains(session'.messages, msgs, of)
      BY <1>0, <3>1, LegacyCut
    <3>3. Ids(session'.messages) \subseteq Ids(msgs) /\ Distinct(session'.messages)
      BY <1>0, <2>0, <3>2, RemainsIds DEF IdsSound
    <3>4. SelfContained
      BY <2>4 DEF Cut, SelfContained
    <3>5. Ids(Archive) \cap Ids(session'.messages) = {}
      BY <2>0, <3>3, <3>4 DEF IdsSound
    <3>6. Agree(Archive, session'.messages)
      BY <3>5, ApartAgree
    <3> QED
      BY <2>0, <3>1, <3>3, <3>5, <3>6 DEF IdsSound
  <2>5. CASE Crash
    <3>1. SelfContained
      BY <1>0, <1>6, <2>5 DEF IdsReissued, SelfContained, Crash
    <3>2. Archive' = session'.bucket /\ session' = NewSession
      BY <2>5, <3>1, ArchiveNext DEF Crash
    <3> QED
      BY <1>3, <3>2
  <2>6. CASE Resume
    <3>1. SelfContained
      BY <1>0, <1>6, <2>6 DEF IdsReissued, SelfContained, Resume, Frame
    <3>2. Archive' = session'.bucket /\ session' = disk.saved
      BY <2>6, <3>1, ArchiveNext DEF Resume
    <3> QED
      BY <3>1, <3>2 DEF IdsInv
  <2> QED
    BY <1>0, <2>1, <2>2, <2>3, <2>4, <2>5, <2>6 DEF Step
<1>7. \A h, m, c : IdsSound(h, m, c)' <=> IdsSound(h, m, c)
  BY <1>0 DEF IdsSound
<1> QED
  BY <1>0, <1>5, <1>6, <1>7 DEF IdsInv

Core == Types /\ TurnsLeft /\ Frame /\ IdsInv

LEMMA CoreInit ==
  ASSUME Init
  PROVE  Core
<1>1. Types /\ TurnsLeft
  BY TypesInit
<1>2. session = NewSession /\ disk.saved = NewSession /\ store = <<>> /\ pc = "idle"
  BY DEF Init, NoFile
<1>3. Frame
  BY <1>2, NewSessionType DEF Frame, Filed
<1>4. IdsSound(<<>>, <<>>, 0)
  BY DEF IdsSound, Distinct, Ids, Agree, ToSet
<1>5. IdsInv
  BY <1>2, <1>4, NewSessionType DEF IdsInv, Archive
<1> QED
  BY <1>1, <1>3, <1>5 DEF Core

LEMMA CoreNext ==
  ASSUME Core, [Next]_vars
  PROVE  Core'
<1>1. CASE Next
  BY <1>1, TypesNext, FrameNext, IdsNext DEF Core
<1>2. CASE UNCHANGED vars
  <2>1. Types' /\ TurnsLeft'
    BY <1>2, Unchanged DEF Core
  <2>2. Frame'
    BY <1>2 DEF Core, Frame, Filed, vars
  <2>3. IdsInv'
    <3>1. (IdsReissued' <=> IdsReissued) /\ (SelfContained' <=> SelfContained) /\ Archive' = Archive
      BY <1>2 DEF IdsReissued, SelfContained, Archive, vars
    <3>2. \A h, m, c : IdsSound(h, m, c)' <=> IdsSound(h, m, c)
      BY <3>1 DEF IdsSound
    <3> QED
      BY <1>2, <3>1, <3>2 DEF Core, IdsInv, vars
  <2> QED
    BY <2>1, <2>2, <2>3 DEF Core
<1> QED
  BY <1>1, <1>2

LEMMA CoreHolds == Spec => []Core
BY CoreInit, CoreNext, PTL DEF Spec

\* An id names one message: no id stands twice in the window or in the archive, and what
\* stands in both is the same message, across failed stores, which may have kept some of the
\* bodies, crashes and resumption. The counter is ahead of every id in use, and the file takes
\* counter and messages back together (id_gen.py, agent.py resume, compress.py). Where an
\* external store outlives the file, ids are issued again: see IdsReissued.
THEOREM OneMessagePerId == Spec => []IdsUnique
<1>1. Core => IdsUnique
  <2> SUFFICES ASSUME Core, ~IdsReissued
               PROVE  /\ Distinct(session.messages) /\ Distinct(Archive)
                      /\ setup.store = "bucket" => Ids(Archive) \cap Ids(session.messages) = {}
                      /\ \A held \in ToSet(Archive), msg \in ToSet(session.messages) :
                           held.id = msg.id /\ held.id # NoId => held = msg
    BY DEF IdsUnique
  <2>1. IdsSound(Archive, session.messages, session.msgCounter)
    BY DEF Core, IdsInv
  <2> QED
    BY <2>1 DEF IdsSound, Agree, SelfContained
<1> QED
  BY <1>1, CoreHolds, PTL

-----------------------------------------------------------------------------
(* Batches.                                                                *)

Held(s) == IF setup.store = "external" THEN store ELSE s.bucket

\* The ids recall_turn finds for a session record.
Findable(s) == Ids(Held(s)) \cup Ids(s.messages)

\* Every id of a batch is in the archive or in the window: of the session, and of the
\* session that would be resumed from the file.
Covered(s) == \A k \in DOMAIN s.batches : s.batches[k] \subseteq Findable(s)

\* With a strategy, every id that was issued can be found, not only those a strategy was
\* shown; and a message that has a turn has used up an id.
Numbered(s) ==
  setup.compressor = "strategy" =>
    /\ 1..s.msgCounter \subseteq Findable(s)
    /\ s.msgCounter = 0 => \A m \in ToSet(s.messages) : m.turn = NoTurn

BatchesInv ==
  Covered(session) /\ Covered(disk.saved) /\ Numbered(session) /\ Numbered(disk.saved)

\* Ids found once stay findable.
LEMMA FindableStays ==
  ASSUME Core, Next
  PROVE  /\ Quiet \/ SaveWritten \/ (\E new : Grows(new)) \/ (\E members : Batched(members))
              => Findable(session) \subseteq Findable(session)'
         /\ disk' = disk => Findable(disk.saved) \subseteq Findable(disk.saved)'
         /\ Resume => Findable(session)' = Findable(disk.saved)
         /\ SaveWritten => Findable(disk.saved)' = Findable(session)'
<1> DEFINE msgs == session.messages
           split == Split(msgs)
           known == Ids(Archive) \cup Ids(msgs)
           after == Ids(Archive') \cup Ids(session'.messages)
<1>0. /\ setup' = setup /\ Step /\ Types /\ Frame /\ msgs \in Seq(Message)
      /\ Archive \in Seq(Message) /\ store \in Seq(Message)
  BY SetupStays, NextStep, SessionFields, ArchiveType DEF Core, Types
<1>1. Findable(session) = known /\ Findable(session)' = after
  BY <1>0 DEF Findable, Held, Archive
<1>2. ASSUME Quiet \/ SaveWritten PROVE known \subseteq after
  BY <1>0, <1>2, ArchiveNext, SavedStep DEF Quiet
<1>3. ASSUME NEW new, Grows(new) PROVE known \subseteq after
  <2>1. Archive' = Archive /\ session'.messages = msgs \o new /\ new \in Seq(Message)
    BY <1>0, <1>3, ArchiveNext DEF Grows, Fresh
  <2>2. Ids(msgs \o new) = Ids(msgs) \cup Ids(new)
    BY <1>0, <2>1, JoinedIds
  <2> QED
    BY <2>1, <2>2
<1>4. ASSUME NEW members, Batched(members)
      PROVE  /\ split.compress \in Seq(Message)
             /\ Ids(split.compress) \cup Ids(split.keep) = Ids(msgs)
             /\ \A P \in SUBSET DOMAIN split.compress : Among(split.compress, P) \in Seq(Message)
  <2>1. split.compress # <<>>
    BY <1>4 DEF Batched
  <2>2. split.compress \in Seq(Message) /\ Ids(split.compress) \cup Ids(split.keep) = Ids(msgs)
    BY <1>0, <2>1, SplitParts, SplitIds
  <2> HIDE DEF split
  <2> QED
    BY <2>2, Selected
<1>5. ASSUME NEW members, Batched(members) PROVE known \subseteq after
  <2>1. \/ session'.messages = msgs /\ Archive' = Archive
        \/ /\ session'.messages = msgs
           /\ \E P \in SUBSET DOMAIN split.compress :
                Archive' = PutMany(Archive, Among(split.compress, P))
        \/ session'.messages = split.keep /\ Archive' = PutMany(Archive, split.compress)
    BY <1>0, <1>5, ArchiveNext
  <2>2. Ids(PutMany(Archive, split.compress)) = Ids(Archive) \cup Ids(split.compress)
    BY <1>0, <1>4, <1>5, PutManyIds
  <2> HIDE DEF split
  <2>3. ASSUME NEW P \in SUBSET DOMAIN split.compress
        PROVE  Ids(Archive) \subseteq Ids(PutMany(Archive, Among(split.compress, P)))
    BY <1>0, <1>4, <1>5, PutManyIds
  <2> QED
    BY <1>4, <1>5, <2>1, <2>2, <2>3
<1>6. Ids(store) \subseteq Ids(store')
  <2>1. ASSUME NEW members, Batched(members) PROVE Ids(store) \subseteq Ids(store')
    <3>1. \/ store' = store
          \/ store' = PutMany(store, split.compress)
          \/ \E P \in SUBSET DOMAIN split.compress : store' = PutMany(store, Among(split.compress, P))
      BY <2>1 DEF Batched, PutSome
    <3> HIDE DEF split
    <3>2. Ids(store) \subseteq Ids(PutMany(store, split.compress))
      BY <1>0, <1>4, <2>1, PutManyIds
    <3>3. ASSUME NEW P \in SUBSET DOMAIN split.compress
          PROVE  Ids(store) \subseteq Ids(PutMany(store, Among(split.compress, P)))
      BY <1>0, <1>4, <2>1, PutManyIds
    <3> QED
      BY <3>1, <3>2, <3>3
  <2>2. UNCHANGED store \/ \E members : Batched(members)
    BY <1>0, SavedStep DEF Step, Quiet, Grows, Cut, Crash, Resume
  <2> QED
    BY <2>1, <2>2
<1>7. ASSUME disk' = disk PROVE Findable(disk.saved) \subseteq Findable(disk.saved)'
  BY <1>0, <1>6, <1>7 DEF Findable, Held
<1>8. ASSUME Resume PROVE Findable(session)' = Findable(disk.saved)
  <2>1. session' = disk.saved /\ UNCHANGED <<disk, store>>
    BY <1>8 DEF Resume
  <2> QED
    BY <1>0, <2>1 DEF Findable, Held
<1>9. ASSUME SaveWritten PROVE Findable(disk.saved)' = Findable(session)'
  <2>1. disk'.saved.messages = msgs /\ disk'.saved.bucket = session.bucket
        /\ session' = session /\ store' = store
    BY <1>0, <1>9, SavedStep
  <2> QED
    BY <1>0, <2>1 DEF Findable, Held
<1> HIDE DEF known, after
<1> QED
  BY <1>1, <1>2, <1>3, <1>5, <1>7, <1>8, <1>9

LEMMA NumberedNext ==
  ASSUME Core, Numbered(session), Numbered(disk.saved), Next
  PROVE  Numbered(session)' /\ Numbered(disk.saved)'
<1>0. /\ setup' = setup /\ Step /\ Types /\ session.messages \in Seq(Message)
      /\ session.msgCounter \in Nat
  BY SetupStays, NextStep, SessionFields DEF Core, Types
<1> SUFFICES ASSUME setup.compressor = "strategy" PROVE Numbered(session)' /\ Numbered(disk.saved)'
  BY <1>0 DEF Numbered
<1>1. /\ 1..session.msgCounter \subseteq Findable(session)
      /\ session.msgCounter = 0 => \A m \in ToSet(session.messages) : m.turn = NoTurn
      /\ 1..disk.saved.msgCounter \subseteq Findable(disk.saved)
      /\ disk.saved.msgCounter = 0 => \A m \in ToSet(disk.saved.messages) : m.turn = NoTurn
  BY DEF Numbered
<1>2. ASSUME Quiet \/ SaveWritten PROVE Numbered(session)'
  <2>1. session'.messages = session.messages /\ session'.msgCounter = session.msgCounter
    BY <1>0, <1>2, SavedStep DEF Quiet
  <2>2. Findable(session) \subseteq Findable(session)'
    BY <1>2, FindableStays
  <2> QED
    BY <1>0, <1>1, <2>1, <2>2 DEF Numbered
<1>3. ASSUME NEW new, Grows(new) PROVE Numbered(session)'
  <2> DEFINE c == session.msgCounter
             n == Len(new)
  <2>1. /\ new \in Seq(Message) /\ session'.messages = session.messages \o new
        /\ n \in {1, 2} /\ DOMAIN new = 1..n /\ session'.msgCounter \in {c, c + n}
        /\ \A i \in 1..n : new[i].turn # NoTurn => new[i].id = c + i
        /\ session'.msgCounter = c => \A i \in 1..n : new[i].id = NoId
        /\ session'.msgCounter # c => \A i \in 1..n : new[i].id = c + i
    BY <1>3 DEF Grows, Fresh
  <2>2. Findable(session) \subseteq Findable(session)'
    BY <1>3, FindableStays
  <2>3. Ids(new) \subseteq Findable(session)'
    <3>1. Ids(session'.messages) = Ids(session.messages) \cup Ids(new)
      BY <1>0, <2>1, JoinedIds
    <3> QED
      BY <3>1 DEF Findable
  <2>4. c \in Nat /\ n \in Nat /\ NoId = 0
    BY <1>0, <2>1 DEF NoId
  <2> HIDE DEF c, n
  <2>5. CASE session'.msgCounter = c
    <3>1. \A i \in DOMAIN new : new[i].turn = NoTurn
      <4>1. \A i \in 1..n : c + i # NoId
        BY <2>4
      <4> QED
        BY <2>1, <2>5, <4>1
    <3>2. \A m \in ToSet(new) : m.turn = NoTurn
      BY <3>1 DEF ToSet
    <3>3. c = 0 => \A m \in ToSet(session'.messages) : m.turn = NoTurn
      BY <1>0, <1>1, <2>1, <3>2, JoinedElements DEF c
    <3> QED
      BY <1>0, <1>1, <2>2, <2>5, <3>3 DEF Numbered, c
  <2>6. CASE session'.msgCounter # c
    <3>1. session'.msgCounter = c + n /\ c + n # 0
      BY <2>1, <2>4, <2>6
    <3>2. ASSUME NEW x \in 1..c + n PROVE x \in Findable(session)'
      <4>1. CASE x \in 1..c
        BY <1>1, <2>2, <4>1 DEF c
      <4>2. CASE x \notin 1..c
        <5>1. x - c \in 1..n /\ c + (x - c) = x /\ x # NoId
          BY <2>4, <4>2
        <5>2. x - c \in DOMAIN new /\ new[x - c].id = x
          BY <2>1, <2>6, <5>1
        <5>3. x \in Ids(new)
          BY <5>1, <5>2, IdsAre
        <5> QED
          BY <2>3, <5>3
      <4> QED
        BY <4>1, <4>2
    <3> QED
      BY <1>0, <3>1, <3>2 DEF Numbered
  <2> QED
    BY <2>5, <2>6
<1>4. ASSUME NEW members, Batched(members) PROVE Numbered(session)'
  <2>1. /\ session'.msgCounter = session.msgCounter
        /\ Split(session.messages).compress # <<>>
        /\ session'.messages \in {session.messages, Split(session.messages).keep}
    BY <1>4 DEF Batched
  <2>2. Findable(session) \subseteq Findable(session)'
    BY <1>4, FindableStays
  <2>3. ToSet(session'.messages) \subseteq ToSet(session.messages)
    BY <1>0, <2>1, SplitSets
  <2> QED
    BY <1>0, <1>1, <2>1, <2>2, <2>3 DEF Numbered
<1>5. ASSUME NEW s, s = NewSession PROVE s.msgCounter = 0 /\ 1..s.msgCounter = {} /\ ToSet(s.messages) = {}
  BY <1>5, NewSessionType DEF ToSet
<1>6. ASSUME Crash PROVE Numbered(session)'
  <2>1. session' = NewSession
    BY <1>6 DEF Crash
  <2> QED
    BY <1>5, <2>1 DEF Numbered
<1>7. ASSUME Resume PROVE Numbered(session)'
  <2>1. session' = disk.saved
    BY <1>7 DEF Resume
  <2> QED
    BY <1>0, <1>1, <1>7, <2>1, FindableStays DEF Numbered
<1>8. ~Cut
  BY DEF Cut
<1>9. Numbered(session)'
  BY <1>0, <1>2, <1>3, <1>4, <1>6, <1>7, <1>8 DEF Step
<1>10. CASE disk' = disk
  BY <1>0, <1>1, <1>9, <1>10, FindableStays DEF Numbered
<1>11. CASE disk' = Torn
  <2>1. disk'.saved = NewSession
    BY <1>11 DEF Torn
  <2> QED
    BY <1>5, <1>9, <2>1 DEF Numbered
<1>12. CASE SaveWritten
  <2>1. disk'.saved.msgCounter = session'.msgCounter /\ disk'.saved.messages = session'.messages
    BY <1>0, <1>12, SavedStep
  <2>2. Findable(disk.saved)' = Findable(session)'
    BY <1>12, FindableStays
  <2> QED
    BY <1>9, <2>1, <2>2 DEF Numbered
<1> QED
  BY <1>0, <1>9, <1>10, <1>11, <1>12, DiskNext

\* What a strategy may put in a batch can be found: what it was shown is in the window, and
\* an id it was not shown passes only if it was issued (_find_orphan_id).
LEMMA MembersFindable ==
  ASSUME Core, Numbered(session), NEW members, Batched(members)
  PROVE  members \subseteq Findable(session)
<1> DEFINE msgs == session.messages
           split == Split(msgs)
           c == session.msgCounter
<1>0. /\ Types /\ msgs \in Seq(Message) /\ c \in Nat /\ split.compress # <<>>
      /\ members \in MemberChoices(Ids(split.compress)) /\ ~Orphan(members)
      /\ 1..c \subseteq Findable(session)
      /\ c = 0 => \A m \in ToSet(msgs) : m.turn = NoTurn
  BY SessionFields DEF Core, Batched, Numbered
<1>1. Ids(split.compress) \subseteq Findable(session)
  BY <1>0, SplitIds DEF Findable
<1>2. c # 0
  <2>1. Older(msgs) \in SUBSET DOMAIN msgs /\ split.compress = Among(msgs, Older(msgs))
        /\ split.compress \in Seq(Message)
    BY <1>0, SplitParts
  <2>2. PICK k \in DOMAIN split.compress : TRUE
    <3> DEFINE z == split.compress
    <3>1. z \in Seq(Message) /\ z # <<>>
      BY <1>0, <2>1
    <3> HIDE DEF z
    <3>2. Len(z) \in Nat /\ DOMAIN z = 1..Len(z) /\ Len(z) # 0
      BY <3>1, SeqFacts
    <3>3. 1 \in DOMAIN z
      BY <3>2
    <3> QED
      BY <3>3 DEF z
  <2>3. Position(Older(msgs), k) \in Older(msgs)
    BY <1>0, <2>1, <2>2, Selected
  <2>4. PICK i \in Older(msgs) : TRUE
    BY <2>3
  <2>5. msgs[i].turn # NoTurn /\ i \in DOMAIN msgs
    BY <2>1, <2>4 DEF Older
  <2> QED
    BY <1>0, <2>5 DEF ToSet
<1>3. CASE members = {c}
  BY <1>0, <1>2, <1>3
<1>4. members # {c + 1}
  <2>1. c > 0 /\ c + 1 > c
    BY <1>0, <1>2
  <2>2. \A i \in members : ~(i > c)
    BY <1>0, <2>1 DEF Orphan
  <2> QED
    BY <2>1, <2>2
<1> HIDE DEF split, c
<1> QED
  BY <1>0, <1>1, <1>3, <1>4 DEF MemberChoices, c

LEMMA BatchesNext ==
  ASSUME Core, BatchesInv, Next
  PROVE  BatchesInv'
<1>0. /\ setup' = setup /\ Step /\ Types /\ Frame /\ Frame' /\ session.batches \in Seq(SUBSET Nat)
      /\ setup.compressor \in {"strategy", "legacy"} /\ session.messages \in Seq(Message)
      /\ session.msgCounter \in Nat
  BY SetupStays, NextStep, SessionFields, FrameNext, SetupType DEF Core, Types
<1>1. Numbered(session)' /\ Numbered(disk.saved)'
  BY NumberedNext DEF BatchesInv
<1>2. ASSUME Quiet \/ SaveWritten \/ \E new : Grows(new) PROVE Covered(session)'
  <2>1. session'.batches = session.batches
    BY <1>0, <1>2, SavedStep DEF Quiet, Grows
  <2> QED
    BY <1>2, <2>1, FindableStays DEF BatchesInv, Covered
<1>3. ASSUME NEW members, Batched(members) PROVE Covered(session)'
  <2>1. members \subseteq Findable(session) /\ Findable(session) \subseteq Findable(session)'
    BY <1>3, MembersFindable, FindableStays DEF BatchesInv
  <2>2. members \in SUBSET Nat /\ session'.batches = Append(session.batches, members)
    <3>1. /\ members \in MemberChoices(Ids(Split(session.messages).compress))
          /\ Split(session.messages).compress # <<>>
          /\ session'.batches = Append(session.batches, members)
      BY <1>3 DEF Batched
    <3> QED
      BY <1>0, <3>1, SplitParts, BatchesType
  <2> SUFFICES ASSUME NEW k \in DOMAIN session'.batches
               PROVE  session'.batches[k] \subseteq Findable(session)'
    BY DEF Covered
  <2>3. CASE k \in DOMAIN session.batches
    <3>1. session'.batches[k] = session.batches[k]
      BY <1>0, <2>2, <2>3
    <3> QED
      BY <2>1, <2>3, <3>1 DEF BatchesInv, Covered
  <2>4. CASE k \notin DOMAIN session.batches
    <3>1. session'.batches[k] = members
      BY <1>0, <2>2, <2>4
    <3> QED
      BY <2>1, <3>1
  <2> QED
    BY <2>3, <2>4
<1>4. ASSUME Cut \/ Crash PROVE Covered(session)'
  <2>1. session'.batches = <<>>
    BY <1>0, <1>4, NewSessionType DEF Frame, Filed, Cut, Crash
  <2> QED
    BY <2>1 DEF Covered
<1>5. ASSUME Resume PROVE Covered(session)'
  <2>1. session' = disk.saved
    BY <1>5 DEF Resume
  <2> QED
    BY <1>5, <2>1, FindableStays DEF BatchesInv, Covered
<1>6. Covered(session)'
  BY <1>0, <1>2, <1>3, <1>4, <1>5 DEF Step
\* The file.
<1>7. CASE disk' = disk
  BY <1>1, <1>6, <1>7, FindableStays DEF BatchesInv, Covered
<1>8. CASE disk' = Torn
  <2>1. disk'.saved.batches = <<>>
    BY <1>8, NewSessionType DEF Torn
  <2> QED
    BY <1>1, <1>6, <2>1 DEF BatchesInv, Covered
<1>9. CASE SaveWritten
  <2>1. disk'.saved.batches = session'.batches
    BY <1>0, <1>9, SavedStep
  <2>2. Findable(disk.saved)' = Findable(session)'
    BY <1>9, FindableStays
  <2> QED
    BY <1>1, <1>6, <2>1, <2>2 DEF BatchesInv, Covered
<1> QED
  BY <1>0, <1>7, <1>8, <1>9, DiskNext

\* Every id that a batch offers is found by recall_turn, also after a store failed between
\* the batch and its bodies, a crash, and a resumption: the batch is recorded first, but what
\* it names leaves the window only with the bodies stored; and every id a strategy may name
\* besides is one that was issued, all of which stay findable.
THEOREM BatchesStayRecoverable == Spec => []BatchesRecoverable
<1>1. Init => BatchesInv
  <2> SUFFICES ASSUME Init PROVE BatchesInv
    OBVIOUS
  <2>1. session = NewSession /\ disk.saved = NewSession
    BY DEF Init, NoFile
  <2>2. NewSession.batches = <<>> /\ 1..NewSession.msgCounter = {} /\ ToSet(NewSession.messages) = {}
    BY NewSessionType DEF ToSet
  <2> QED
    BY <2>1, <2>2 DEF BatchesInv, Covered, Numbered
<1>2. BatchesInv /\ Core /\ [Next]_vars => BatchesInv'
  <2>1. BatchesInv /\ UNCHANGED vars => BatchesInv'
    BY DEF BatchesInv, Covered, Numbered, Findable, Held, vars
  <2> QED
    BY <2>1, BatchesNext
<1>3. BatchesInv => BatchesRecoverable
  BY DEF BatchesInv, BatchesRecoverable, Covered, Findable, Recallable, Archive, Held
<1> QED
  BY <1>1, <1>2, <1>3, CoreHolds, PTL DEF Spec

-----------------------------------------------------------------------------
(* What compression takes away.                                            *)

\* What leaves the window is in the archive, or the loop has sent an event, or the legacy
\* path had reached its failure limit.
THEOREM NothingVanishes == Spec => NothingVanishesUnannounced
<1> DEFINE Kept == ToSet(session.messages) \subseteq ToSet(session'.messages \o Archive')
           Announced == \/ setup.compressor = "legacy" /\ outcome'.event \in {"done", "fallback"}
                        \/ session.failures = setup.failures
                        \/ IdsReissued
<1>1. ASSUME Core, Core', Next, pc = "compress", pc' # "down" PROVE Kept \/ Announced
  <2>0. /\ Types /\ session.messages \in Seq(Message) /\ session'.messages \in Seq(Message)
        /\ Archive \in Seq(Message) /\ Archive' \in Seq(Message)
    <3>1. session.messages \in Seq(Message) /\ Archive \in Seq(Message) /\ Types
      BY <1>1, SessionFields, ArchiveType DEF Core
    <3>2. (session.messages \in Seq(Message))' /\ (Archive \in Seq(Message))'
      <4>1. Types' /\ session' \in SessionType
        BY <1>1 DEF Core, Types, Sessions
      <4>2. session'.messages \in Seq(Message) /\ session'.bucket \in Seq(Message) /\ store' \in Seq(Message)
        BY <4>1, Fields DEF Types
      <4> QED
        BY <4>2 DEF Archive
    <3> QED
      BY <3>1, <3>2
  <2>1. CASE session'.messages = session.messages
    BY <2>0, <2>1, JoinedElements
  <2>2. CASE CompressLegacy
    BY <2>0, <2>1, <2>2, LegacyStep, SetupType DEF CompressLegacy
  <2>3. ASSUME NEW members, Batched(members) PROVE Kept \/ Announced
    <3> SUFFICES ASSUME ~IdsReissued PROVE Kept
      OBVIOUS
    <3>1. Reach(Archive', session'.messages) = Reach(Archive, session.messages)
      BY <1>1, <2>3, MovedAll DEF Core
    <3>2. ASSUME NEW m \in ToSet(session.messages) PROVE m \in ToSet(session'.messages \o Archive')
      <4>1. m \in ToSet(Archive') \/ m \in ToSet(session'.messages)
        BY <3>1 DEF Reach
      <4> QED
        BY <2>0, <4>1, JoinedElements
    <3> QED
      BY <3>2
  <2>4. CASE StrategyApplied \/ StrategyStoreFails
    <3>1. Step /\ setup.compressor = "strategy" /\ pc = "compress" /\ pc' # "down"
      BY <1>1, <2>0, <2>4, BatchedStep DEF StrategyApplied, StrategyStoreFails
    <3>2. CASE Quiet \/ SaveWritten \/ Crash \/ Resume
      BY <2>0, <2>1, <3>1, <3>2 DEF Quiet, SaveWritten, Crash, Resume
    <3>3. CASE \E new : Grows(new)
      <4> PICK new : Grows(new)
        BY <3>3
      <4>1. session'.messages = session.messages \o new /\ new \in Seq(Message)
        BY DEF Grows, Fresh
      <4>2. \A m \in ToSet(session.messages) : m \in ToSet(session'.messages)
        BY <2>0, <4>1, JoinedElements
      <4> QED
        BY <2>0, <4>2, JoinedElements
    <3> QED
      BY <2>3, <3>1, <3>2, <3>3 DEF Step, Cut
  <2>5. CASE Abort \/ StrategyRefused \/ NothingToCompress
    BY <2>0, <2>1, <2>5, QuietStep DEF Quiet
  <2> QED
    BY <1>1, <2>2, <2>4, <2>5 DEF Next, Loop, ChatStart, RunStart, CheckCompress, Unanswered, Snapshot,
       EndTurn, ToolRound, CutBatch, SaveWritten, SaveFails, Finish, Crash, Resume
<1>2. Core /\ Core' /\ [Next]_vars =>
        [pc = "compress" /\ pc' # "down" => Kept \/ Announced]_vars
  BY <1>1
<1>3. [][pc = "compress" /\ pc' # "down" => Kept \/ Announced]_vars => NothingVanishesUnannounced
  BY PTL DEF NothingVanishesUnannounced
<1> QED
  BY <1>2, <1>3, CoreHolds, PTL DEF Spec

-----------------------------------------------------------------------------
(* Freed results.                                                          *)

\* Messages M with calls up to n: a result has one content, what is noted in f is that
\* content, and with a strategy a noted result is still there.
Contents(M, f, n) ==
  /\ \A m \in M : m.results \subseteq 1..n
  /\ \A m, o \in M : m.results \cap o.results # {} => m.body = o.body
  /\ \A c \in DOMAIN f :
       /\ c \in 1..n
       /\ \A m \in M : c \in m.results => m.body = f[c]
       /\ setup.compressor = "strategy" => \E m \in M : c \in m.results

\* IdsReissued: a resumed session may lack what an external store took for known.
FreedInv ==
  /\ ~IdsReissued => Contents(Reach(Archive, session.messages), session.freed, bodies)
  /\ SelfContained =>
       Contents(Reach(disk.saved.bucket, disk.saved.messages), disk.saved.freed, bodies)

LEMMA ContentsOfNew ==
  ASSUME NEW n
  PROVE  Contents(Reach(NewSession.bucket, NewSession.messages), NewSession.freed, n)
<1>1. Reach(NewSession.bucket, NewSession.messages) = {}
  BY NewSessionType DEF Reach, ToSet
<1> QED
  BY <1>1, NewSessionType DEF Contents

\* One more result is freed.
LEMMA ContentsFreed ==
  ASSUME Types, FreedMore(session'), NEW M, ToSet(session.messages) \subseteq M,
         Contents(M, session.freed, bodies)
  PROVE  Contents(M, session'.freed, bodies)
<1>1. CASE session'.freed = session.freed
  BY <1>1 DEF Contents
<1>2. ASSUME NEW c \in ResultsIn(session.messages) \ DOMAIN session.freed,
             session'.freed = Noting(session.freed, c, ResultOf(session.messages, c))
      PROVE  Contents(M, session'.freed, bodies)
  <2>1. session.messages \in Seq(Message) /\ session.freed \in Freed
    BY SessionFields
  <2>2. PICK i \in DOMAIN session.messages :
          /\ c \in session.messages[i].results
          /\ ResultOf(session.messages, c) = session.messages[i].body
          /\ ResultOf(session.messages, c) \in Nat /\ c \in Nat
    BY <2>1, ResultOfIs
  <2> DEFINE o == session.messages[i]
             v == ResultOf(session.messages, c)
  <2>3. o \in M /\ v = o.body /\ c \in o.results /\ o.results \subseteq 1..bodies
    BY <2>2 DEF ToSet, Contents
  <2>4. /\ DOMAIN session'.freed = DOMAIN session.freed \cup {c} /\ session'.freed[c] = o.body
        /\ \A x \in DOMAIN session.freed : session'.freed[x] = session.freed[x]
    <3>1. session'.freed = Noting(session.freed, c, v) /\ v \in Nat /\ c \in Nat
          /\ c \notin DOMAIN session.freed
      BY <1>2, <2>2
    <3> HIDE DEF v, o
    <3> DEFINE noted == session.freed
    <3>2. noted \in Freed /\ c \notin DOMAIN noted
      BY <2>1, <3>1
    <3> HIDE DEF noted
    <3>3. /\ DOMAIN Noting(noted, c, v) = DOMAIN noted \cup {c} /\ Noting(noted, c, v)[c] = v
          /\ \A x \in DOMAIN noted : Noting(noted, c, v)[x] = noted[x]
      BY <3>2 DEF Noting
    <3>4. session'.freed = Noting(noted, c, v)
      BY <3>1 DEF noted
    <3> QED
      BY <2>3, <3>3, <3>4 DEF noted
  <2> HIDE DEF o
  <2>5. ASSUME NEW m \in M, c \in m.results PROVE m.body = o.body
    BY <2>3, <2>5 DEF Contents
  <2>6. /\ \A m \in M : m.results \subseteq 1..bodies
        /\ \A m, p \in M : m.results \cap p.results # {} => m.body = p.body
    BY DEF Contents
  <2>7. ASSUME NEW x \in DOMAIN session.freed
        PROVE  /\ x \in 1..bodies
               /\ \A m \in M : x \in m.results => m.body = session'.freed[x]
               /\ setup.compressor = "strategy" => \E m \in M : x \in m.results
    BY <2>4 DEF Contents
  <2> QED
    BY <2>3, <2>4, <2>5, <2>6, <2>7 DEF Contents
<1> QED
  BY <1>1, <1>2 DEF FreedMore

\* New messages; their call is new, too.
LEMMA ContentsGrow ==
  ASSUME Types, NEW new, Fresh(new), NEW M, \A m \in M : m \in Message,
         NEW f, Contents(M, f, bodies)
  PROVE  Contents(M \cup ToSet(new), f, bodies + Len(new))
<1> DEFINE n == bodies + Len(new)
           fresh == bodies + 1
<1>1. bodies \in Nat /\ Len(new) \in {1, 2} /\ DOMAIN new = 1..Len(new)
  BY SeqFacts DEF Types, Fresh
<1>2. 1..bodies \subseteq 1..n /\ fresh \in 1..n /\ fresh \notin 1..bodies
  BY <1>1
<1>3. ASSUME NEW m \in ToSet(new)
      PROVE  \/ m.results = {}
             \/ m.results = {fresh} /\ Len(new) = 2 /\ m = new[2]
  <2>1. PICK i \in 1..Len(new) : m = new[i]
    BY <1>1 DEF ToSet
  <2>2. i = 1 \/ (i = 2 /\ Len(new) = 2)
    <3>1. Len(new) = 1 \/ Len(new) = 2
      BY <1>1
    <3>2. i \in Nat /\ 1 <= i /\ i <= Len(new)
      BY <2>1, <3>1
    <3>3. CASE Len(new) = 1
      BY <3>2, <3>3
    <3>4. CASE Len(new) = 2
      BY <3>2, <3>4
    <3> QED
      BY <3>1, <3>3, <3>4
  <2> QED
    BY <1>1, <2>1, <2>2 DEF Fresh
<1> HIDE DEF n, fresh
<1>4. ASSUME NEW m \in M PROVE m.results \subseteq 1..bodies
  BY DEF Contents
<1>5. \A m \in M \cup ToSet(new) : m.results \subseteq 1..n
  BY <1>2, <1>3, <1>4
<1>6. ASSUME NEW m \in M \cup ToSet(new), NEW o \in M \cup ToSet(new), m.results \cap o.results # {}
      PROVE  m.body = o.body
  <2>1. CASE m \in M /\ o \in M
    BY <1>6, <2>1 DEF Contents
  <2>2. CASE m \in ToSet(new) /\ o \in ToSet(new)
    BY <1>3, <1>6, <2>2
  <2>3. CASE m \in M /\ o \in ToSet(new)
    BY <1>2, <1>3, <1>4, <1>6, <2>3
  <2>4. CASE m \in ToSet(new) /\ o \in M
    BY <1>2, <1>3, <1>4, <1>6, <2>4
  <2> QED
    BY <2>1, <2>2, <2>3, <2>4
<1>7. ASSUME NEW c \in DOMAIN f
      PROVE  /\ c \in 1..n
             /\ \A m \in M \cup ToSet(new) : c \in m.results => m.body = f[c]
             /\ setup.compressor = "strategy" => \E m \in M \cup ToSet(new) : c \in m.results
  <2>1. /\ c \in 1..bodies /\ \A m \in M : c \in m.results => m.body = f[c]
        /\ setup.compressor = "strategy" => \E m \in M : c \in m.results
    BY DEF Contents
  <2>2. \A m \in ToSet(new) : c \notin m.results
    BY <1>2, <1>3, <2>1
  <2> QED
    BY <1>2, <2>1, <2>2
<1> QED
  BY <1>5, <1>6, <1>7 DEF Contents, n

\* The legacy cuts prune messages and write some without results.
LEMMA ContentsCut ==
  ASSUME setup.compressor = "legacy", NEW held, NEW msgs \in Seq(Message), NEW out, NEW of,
         Remains(out, msgs, of), NEW f, NEW n, Contents(Reach(held, msgs), f, n)
  PROVE  Contents(Reach(held, out), f, n)
<1> DEFINE M == Reach(held, msgs)
           N == Reach(held, out)
<1>0. DOMAIN msgs = 1..Len(msgs) /\ Len(msgs) \in Nat
  BY SeqFacts
<1>1. ASSUME NEW m \in N
      PROVE  m.results = {} \/ \E o \in M : m.body = o.body /\ m.results \subseteq o.results
  <2>1. CASE m \in ToSet(held)
    BY <2>1 DEF Reach
  <2>2. ASSUME NEW k \in DOMAIN out, m = out[k]
        PROVE  m.results = {} \/ \E o \in M : m.body = o.body /\ m.results \subseteq o.results
    <3>1. CASE of[k] = 0
      BY <2>2, <3>1 DEF Remains, Blank
    <3>2. CASE of[k] # 0
      <4>1. of[k] \in DOMAIN msgs /\ Pruned(m, msgs[of[k]])
        BY <1>0, <2>2, <3>2 DEF Remains
      <4>2. msgs[of[k]] \in M
        BY <4>1 DEF Reach, ToSet
      <4>3. m.body = msgs[of[k]].body /\ m.results \subseteq msgs[of[k]].results
        BY <4>1 DEF Pruned
      <4> QED
        BY <4>2, <4>3
    <3> QED
      BY <3>1, <3>2
  <2> QED
    BY <2>1, <2>2 DEF Reach, ToSet
<1> HIDE DEF M, N
<1>2. Contents(M, f, n)
  BY DEF M
<1>3. \A m \in N : m.results \subseteq 1..n
  BY <1>1, <1>2 DEF Contents
<1>4. ASSUME NEW m \in N, NEW p \in N, m.results \cap p.results # {} PROVE m.body = p.body
  <2>1. PICK o \in M, q \in M : /\ m.body = o.body /\ m.results \subseteq o.results
                                /\ p.body = q.body /\ p.results \subseteq q.results
    BY <1>1, <1>4
  <2>2. o.results \cap q.results # {}
    BY <1>4, <2>1
  <2> QED
    BY <1>2, <2>1, <2>2 DEF Contents
<1>5. ASSUME NEW c \in DOMAIN f PROVE c \in 1..n /\ \A m \in N : c \in m.results => m.body = f[c]
  BY <1>1, <1>2 DEF Contents
<1> QED
  BY <1>3, <1>4, <1>5 DEF Contents, N

LEMMA FreedNext ==
  ASSUME Core, FreedInv, Next
  PROVE  FreedInv'
<1> DEFINE msgs == session.messages
           split == Split(msgs)
           reach == Reach(Archive, msgs)
<1>0. /\ Types /\ Frame /\ setup' = setup /\ crashes \in Nat /\ crashes' \in Nat /\ crashes <= crashes'
      /\ Step /\ msgs \in Seq(Message) /\ Archive \in Seq(Message) /\ bodies \in Nat
      /\ (SelfContained <=> SelfContained') /\ setup.compressor \in {"strategy", "legacy"}
  BY SetupStays, CrashesCount, NextStep, SessionFields, ArchiveType, SetupType
     DEF SelfContained, Core, Types
<1>1. IdsReissued => IdsReissued'
  BY <1>0 DEF IdsReissued
<1>2. SelfContained => ~IdsReissued
  BY DEF SelfContained, IdsReissued
<1>3. \A M, f, n : Contents(M, f, n)' <=> Contents(M, f, n)
  BY <1>0 DEF Contents
<1>4. ToSet(msgs) \subseteq reach /\ \A m \in reach : m \in Message
  <2>1. \A m \in ToSet(msgs) : m \in Message
    BY <1>0, SeqFacts DEF ToSet
  <2>2. \A m \in ToSet(Archive) : m \in Message
    BY <1>0, SeqFacts DEF ToSet
  <2> QED
    BY <2>1, <2>2 DEF Reach
<1>5. bodies' \in Nat /\ bodies <= bodies'
  <2>1. \A new : Grows(new) => bodies' = bodies + Len(new) /\ Len(new) \in {1, 2}
    BY DEF Grows, Fresh
  <2>2. bodies' = bodies \/ \E new : Grows(new)
    BY <1>0, SavedStep DEF Step, Quiet, Batched, Cut, Crash, Resume
  <2> QED
    BY <1>0, <2>1, <2>2
<1>6. ASSUME NEW M, NEW f, Contents(M, f, bodies) PROVE Contents(M, f, bodies')
  <2>1. 1..bodies \subseteq 1..bodies'
    BY <1>0, <1>5
  <2> QED
    BY <1>6, <2>1 DEF Contents
<1>7. SelfContained =>
        Contents(Reach(disk'.saved.bucket, disk'.saved.messages), disk'.saved.freed, bodies')
  <2>1. CASE disk' = disk
    BY <1>6, <2>1 DEF FreedInv
  <2>2. CASE disk' = Torn
    BY <2>2, ContentsOfNew DEF Torn
  <2>3. CASE SaveWritten
    BY <1>0, <1>2, <1>6, <2>3, SavedStep, ArchiveNext DEF FreedInv
  <2> QED
    BY <1>0, <2>1, <2>2, <2>3, DiskNext
<1>8. ASSUME ~IdsReissued'
      PROVE  Contents(Reach(Archive', session'.messages), session'.freed, bodies')
  <2>0. Contents(reach, session.freed, bodies)
    BY <1>1, <1>8 DEF FreedInv
  <2>1. CASE Quiet
    <3>1. Contents(reach, session'.freed, bodies)
      BY <1>0, <1>4, <2>0, <2>1, ContentsFreed DEF Quiet
    <3>2. Reach(Archive', session'.messages) = reach /\ bodies' = bodies
      BY <1>0, <2>1, ArchiveNext DEF Quiet
    <3> QED
      BY <3>1, <3>2
  <2>2. CASE SaveWritten
    BY <1>0, <2>0, <2>2, SavedStep, ArchiveNext
  <2>3. ASSUME NEW new, Grows(new)
        PROVE  Contents(Reach(Archive', session'.messages), session'.freed, bodies')
    <3>1. Archive' = Archive /\ session'.messages = msgs \o new /\ new \in Seq(Message) /\ Fresh(new)
          /\ FreedMore(session') /\ bodies' = bodies + Len(new)
      BY <1>0, <2>3, ArchiveNext DEF Grows, Fresh
    <3>2. Contents(reach, session'.freed, bodies)
      BY <1>0, <1>4, <2>0, <3>1, ContentsFreed
    <3>3. Contents(reach \cup ToSet(new), session'.freed, bodies + Len(new))
      BY <1>0, <1>4, <3>1, <3>2, ContentsGrow
    <3>4. \A m : m \in ToSet(msgs \o new) <=> (m \in ToSet(msgs) \/ m \in ToSet(new))
      BY <1>0, <3>1, JoinedElements
    <3>5. Reach(Archive', session'.messages) = reach \cup ToSet(new)
      BY <3>1, <3>4 DEF Reach
    <3> QED
      BY <3>1, <3>3, <3>5
  <2>4. ASSUME NEW members, Batched(members)
        PROVE  Contents(Reach(Archive', session'.messages), session'.freed, bodies')
    <3>1. split.compress # <<>> /\ session'.freed = session.freed /\ bodies' = bodies
      BY <2>4 DEF Batched
    <3>2. Reach(Archive', session'.messages) = reach
      BY <1>1, <1>8, <2>4, MovedAll DEF Core
    <3> QED
      BY <2>0, <3>1, <3>2
  <2>5. CASE Cut
    <3>1. Archive' = Archive /\ session'.freed = session.freed /\ bodies' = bodies /\ Len(msgs) >= 3
          /\ session'.messages \in {TruncateOldest(msgs), Summarize(msgs)} /\ setup.compressor = "legacy"
      BY <1>0, <2>5, ArchiveNext DEF Cut
    <3>2. PICK of : Remains(session'.messages, msgs, of)
      BY <1>0, <3>1, LegacyCut
    <3> QED
      BY <1>0, <2>0, <3>1, <3>2, ContentsCut
  <2>6. CASE Crash
    <3>1. SelfContained
      BY <1>0, <1>8, <2>6 DEF IdsReissued, SelfContained, Crash
    <3>2. Archive' = session'.bucket /\ session' = NewSession
      BY <1>0, <2>6, <3>1, ArchiveNext DEF Crash
    <3> QED
      BY <3>2, ContentsOfNew
  <2>7. CASE Resume
    <3>1. SelfContained
      BY <1>0, <1>8, <2>7 DEF IdsReissued, SelfContained, Resume, Frame
    <3>2. Archive' = session'.bucket /\ session' = disk.saved /\ bodies' = bodies
      BY <1>0, <2>7, <3>1, ArchiveNext DEF Resume
    <3> QED
      BY <3>1, <3>2 DEF FreedInv
  <2> QED
    BY <1>0, <2>1, <2>2, <2>3, <2>4, <2>5, <2>6, <2>7 DEF Step
<1> QED
  BY <1>0, <1>3, <1>7, <1>8 DEF FreedInv

\* A freed result stays recoverable: whatever is compressed, truncated, cut short or resumed,
\* recall_tool_result returns what the tool gave, and with a strategy recall_turn finds the
\* same. A result has one content wherever it stands, and what is noted is that content.
THEOREM FreedStaysRecallable == Spec => []FreedIsRecallable
<1>1. Init => FreedInv
  <2> SUFFICES ASSUME Init PROVE FreedInv
    OBVIOUS
  <2>1. session = NewSession /\ disk.saved = NewSession /\ store = <<>>
    BY DEF Init, NoFile
  <2>2. Reach(Archive, session.messages) = Reach(NewSession.bucket, NewSession.messages)
    BY <2>1, NewSessionType DEF Archive
  <2> QED
    BY <2>1, <2>2, ContentsOfNew DEF FreedInv
<1>2. FreedInv /\ Core /\ [Next]_vars => FreedInv'
  <2>1. FreedInv /\ UNCHANGED vars => FreedInv'
    BY DEF FreedInv, Contents, Reach, Archive, IdsReissued, SelfContained, vars
  <2> QED
    BY <2>1, FreedNext
<1>3. FreedInv /\ Core => FreedIsRecallable
  <2> DEFINE all == Archive \o session.messages
  <2> SUFFICES ASSUME FreedInv, Core, ~IdsReissued, NEW call \in DOMAIN session.freed
               PROVE  IF call \in ResultsIn(all) THEN session.freed[call] = ResultOf(all, call)
                      ELSE setup.compressor = "legacy"
    BY DEF FreedIsRecallable
  <2> DEFINE reach == Reach(Archive, session.messages)
  <2>1. Types /\ Archive \in Seq(Message) /\ session.messages \in Seq(Message)
    BY ArchiveType, SessionFields DEF Core
  <2>2. all \in Seq(Message) /\ \A m : m \in ToSet(all) <=> m \in reach
    BY <2>1, JoinedElements, JoinedParts DEF Reach
  <2>3. /\ \A m \in reach : call \in m.results => m.body = session.freed[call]
        /\ setup.compressor = "strategy" => \E m \in reach : call \in m.results
    BY DEF FreedInv, Contents
  <2> HIDE DEF all, reach
  <2>4. CASE call \in ResultsIn(all)
    <3>1. PICK i \in DOMAIN all : call \in all[i].results /\ ResultOf(all, call) = all[i].body
      BY <2>2, <2>4, ResultOfIs
    <3>2. all[i] \in reach
      BY <2>2, <3>1 DEF ToSet
    <3> QED
      BY <2>3, <2>4, <3>1, <3>2
  <2>5. CASE call \notin ResultsIn(all)
    <3>1. \A m \in ToSet(all) : call \notin m.results
      BY <2>5 DEF ResultsIn, ToSet
    <3> QED
      BY <2>1, <2>2, <2>3, <2>5, <3>1, SetupType
  <2> QED
    BY <2>4, <2>5
<1> QED
  BY <1>1, <1>2, <1>3, CoreHolds, PTL DEF Spec

-----------------------------------------------------------------------------
(* Versions of the working memory.                                         *)

\* The contents a session record accounts for.
Known(s) == {m.body : m \in Reach(s.bucket, s.messages)}

LEMMA KnownIsLog ==
  ASSUME NEW s \in SessionType
  PROVE  ToSet(LogOf(s)) = Known(s) /\ Known(s) \in SUBSET Nat
<1> DEFINE all == s.bucket \o s.messages
<1>1. s.bucket \in Seq(Message) /\ s.messages \in Seq(Message)
  BY Fields
<1>2. all \in Seq(Message) /\ \A m : m \in ToSet(all) <=> m \in Reach(s.bucket, s.messages)
  BY <1>1, JoinedParts, JoinedElements DEF Reach
<1> HIDE DEF all
<1>3. \A x : x \in ToSet(Bodies(all)) <=> \E m \in ToSet(all) : m.body = x
  BY DEF ToSet, Bodies
<1>4. \A m \in ToSet(all) : m.body \in Nat
  BY <1>2, SeqFacts, MessageFields DEF ToSet
<1>5. LogOf(s) = Bodies(all)
  BY DEF LogOf, all
<1> QED
  BY <1>2, <1>3, <1>4, <1>5 DEF Known

\* A step adds the contents it creates, and loses some; versions only grow.
LEMMA KnownNext ==
  ASSUME Core, Next, Quiet \/ (\E new : Grows(new)) \/ (\E members : Batched(members)) \/ Cut
  PROVE  /\ \A x \in Known(session') : x \in Known(session) \/ x = Synthetic \/ x \in bodies + 1..bodies'
         /\ session.version <= session'.version
         /\ session.version \in Nat /\ session'.version \in Nat
<1> DEFINE msgs == session.messages
           split == Split(msgs)
           before == Reach(session.bucket, msgs)
           after == Reach(session'.bucket, session'.messages)
<1>0. /\ Types /\ msgs \in Seq(Message) /\ session.bucket \in Seq(Message) /\ session.version \in Nat
      /\ session' \in SessionType /\ session'.version \in Nat /\ bodies \in Nat
      /\ setup.compressor \in {"strategy", "legacy"} /\ setup.store \in {"bucket", "external"}
  BY SessionFields, NextStep, Fields, SetupType DEF Core, Sessions, Types
<1>1. session.version <= session'.version
  <2>1. session'.version \in {session.version, Bump(session.version)}
    BY DEF Quiet, Grows, Batched, Cut
  <2>2. Bump(session.version) \in {session.version, session.version + 1}
    BY DEF Bump
  <2> QED
    BY <1>0, <2>1, <2>2
<1>2. ASSUME NEW m \in after
      PROVE  \/ m.body = Synthetic \/ m.body \in bodies + 1..bodies'
             \/ \E o \in before : m.body = o.body
  <2>1. CASE Quiet
    BY <2>1 DEF Quiet
  <2>2. ASSUME NEW new, Grows(new)
        PROVE  m \in before \/ m.body \in bodies + 1..bodies'
    <3>1. session'.messages = msgs \o new /\ session'.bucket = session.bucket /\ new \in Seq(Message)
          /\ bodies' = bodies + Len(new) /\ Len(new) \in {1, 2}
          /\ \A i \in 1..Len(new) : new[i].body = bodies + i
      BY <2>2 DEF Grows, Fresh
    <3>2. m \in before \/ m \in ToSet(new)
      BY <1>0, <3>1, JoinedElements DEF Reach
    <3>3. ASSUME NEW i \in DOMAIN new, m = new[i] PROVE m.body \in bodies + 1..bodies'
      <4>1. DOMAIN new = 1..Len(new) /\ i \in Nat /\ 1 <= i /\ i <= Len(new) /\ Len(new) \in Nat
        BY <3>1, <3>3
      <4>2. bodies + i \in bodies + 1..bodies + Len(new)
        BY <1>0, <4>1
      <4> QED
        BY <3>1, <3>3, <4>1, <4>2
    <3> QED
      BY <3>2, <3>3 DEF ToSet
  <2>3. ASSUME NEW members, Batched(members)
        PROVE  m \in before
    <3>1. split.compress # <<>>
          /\ \/ session'.messages = msgs /\ session'.bucket = session.bucket
             \/ /\ session'.messages = split.keep
                /\ session'.bucket \in {session.bucket, PutMany(session.bucket, split.compress)}
      BY <1>0, <2>3 DEF Batched
    <3>2. split.compress \in Seq(Message) /\ split.keep \in Seq(Message)
          /\ ToSet(split.compress) \cup ToSet(split.keep) = ToSet(msgs)
      BY <1>0, <3>1, SplitSets
    <3> HIDE DEF split
    <3>3. ASSUME NEW o \in ToSet(PutMany(session.bucket, split.compress))
          PROVE  o \in ToSet(session.bucket) \/ o \in ToSet(split.compress)
      <4>1. PICK P \in SUBSET DOMAIN split.compress :
              /\ Among(split.compress, P) \in Seq(Message)
              /\ PutMany(session.bucket, split.compress) = session.bucket \o Among(split.compress, P)
        BY <1>0, <3>2, PutManyParts
      <4>2. o \in ToSet(session.bucket) \/ o \in ToSet(Among(split.compress, P))
        BY <1>0, <3>3, <4>1, JoinedElements
      <4>3. ASSUME NEW k \in DOMAIN Among(split.compress, P), o = Among(split.compress, P)[k]
            PROVE  o \in ToSet(split.compress)
        BY <3>2, <4>3, Selected DEF ToSet
      <4> QED
        BY <4>2, <4>3 DEF ToSet
    <3> QED
      BY <3>1, <3>2, <3>3 DEF Reach
  <2>4. CASE Cut
    <3>1. session'.bucket = session.bucket /\ Len(msgs) >= 3
          /\ session'.messages \in {TruncateOldest(msgs), Summarize(msgs)}
      BY <2>4 DEF Cut
    <3>2. PICK of : Remains(session'.messages, msgs, of)
      BY <1>0, <3>1, LegacyCut
    <3>3. DOMAIN msgs = 1..Len(msgs) /\ Len(msgs) \in Nat
      BY <1>0, SeqFacts
    <3>4. ASSUME NEW k \in DOMAIN session'.messages, m = session'.messages[k]
          PROVE  m.body = Synthetic \/ \E o \in before : m.body = o.body
      <4>1. CASE of[k] = 0
        BY <3>2, <3>4, <4>1 DEF Remains, Blank
      <4>2. CASE of[k] # 0
        <5>1. of[k] \in DOMAIN msgs /\ Pruned(m, msgs[of[k]])
          BY <3>2, <3>3, <3>4, <4>2 DEF Remains
        <5>2. msgs[of[k]] \in before /\ m.body = msgs[of[k]].body
          BY <5>1 DEF Reach, ToSet, Pruned
        <5> QED
          BY <5>2
      <4> QED
        BY <4>1, <4>2
    <3>5. m \in before \/ m \in ToSet(session'.messages)
      BY <3>1 DEF Reach
    <3> HIDE DEF before, after
    <3> QED
      BY <3>4, <3>5 DEF ToSet
  <2> HIDE DEF before, after
  <2> QED
    BY <2>1, <2>2, <2>3, <2>4
<1>3. \A x \in Known(session') : x \in Known(session) \/ x = Synthetic \/ x \in bodies + 1..bodies'
  BY <1>2 DEF Known
<1> QED
  BY <1>0, <1>1, <1>3

\* The snapshots of the list noted whose reply a session accounts for: their versions differ,
\* and the session has seen them.
Told(noted, s) ==
  /\ \A i \in DOMAIN noted : noted[i].reply \in Known(s) => noted[i].version <= s.version
  /\ \A i, j \in DOMAIN noted :
       i # j /\ noted[i].reply \in Known(s) /\ noted[j].reply \in Known(s)
       => noted[i].version # noted[j].version

\* The snapshot just taken waits for its reply, under a version of its own.
Pending ==
  LET n == Len(snapshots) IN
  /\ n > 0 /\ snapshots[n].reply = NoReply /\ snapshots[n].version = session.version
  /\ \A i \in DOMAIN snapshots :
       snapshots[i].reply \in Known(session) => snapshots[i].version < session.version

SnapInv ==
  /\ \A i \in DOMAIN snapshots : snapshots[i].reply = NoReply \/ snapshots[i].reply \in 1..bodies
  /\ Known(session) \subseteq 0..bodies /\ Known(disk.saved) \subseteq 0..bodies
  /\ Told(snapshots, session) /\ Told(snapshots, disk.saved)
  /\ pc = "snapshot" => setup.memory /\ Pending

\* A session that accounts for no more of the snapshots, and is at least as far.
LEMMA ToldStill ==
  ASSUME NEW old \in Seq(SnapshotRecord), NEW noted \in Seq(SnapshotRecord), NEW s, NEW t,
         s.version \in Nat, t.version \in Nat, s.version <= t.version, Told(old, s),
         \A i \in DOMAIN noted : noted[i].reply \in Known(t) =>
           i \in DOMAIN old /\ old[i].reply \in Known(s) /\ old[i].version = noted[i].version
  PROVE  Told(noted, t)
<1>1. \A i \in DOMAIN noted : noted[i].version \in Nat
  <2>1. \A i \in DOMAIN noted : noted[i] \in SnapshotRecord
    OBVIOUS
  <2> QED
    BY <2>1 DEF SnapshotRecord
<1>2. ASSUME NEW i \in DOMAIN noted, noted[i].reply \in Known(t)
      PROVE  noted[i].version <= t.version
  <2>1. noted[i].version <= s.version
    BY <1>2 DEF Told
  <2> QED
    BY <1>1, <2>1
<1> QED
  BY <1>2 DEF Told

\* How snapshots are taken and completed.
LEMMA SnapshotsAre ==
  ASSUME Types, Next
  PROVE  /\ \/ snapshots' = snapshots
            \/ /\ Snapshot
               /\ snapshots' = Append(snapshots, [version |-> session'.version, reply |-> NoReply])
            \/ /\ EndTurn /\ setup.memory /\ pc = "snapshot"
               /\ snapshots' = [snapshots EXCEPT ![Len(snapshots)].reply = bodies + 1]
         /\ pc' = "snapshot" =>
              /\ Snapshot /\ setup.memory
              /\ snapshots' = Append(snapshots, [version |-> session'.version, reply |-> NoReply])
         /\ EndTurn => bodies' = bodies + 1
         /\ Snapshot => session'.version = session.version + 1 /\ bodies' = bodies
<1>1. next # "snapshot" /\ session \in SessionType /\ session.version \in Nat
  BY SessionFields DEF Types
<1>2. CASE Snapshot
  <2>1. /\ setup.memory /\ bodies' = bodies
        /\ \/ snapshots' = Append(snapshots, [version |-> session'.version, reply |-> NoReply])
           \/ snapshots' = snapshots /\ pc' = "idle"
    BY <1>2 DEF Snapshot
  <2>2. session'.version = Bump(session.version)
    <3>1. session' = [session EXCEPT !.version = Bump(@)]
      BY <1>2 DEF Snapshot
    <3> QED
      BY <1>1, <3>1 DEF SessionType
  <2>3. ~EndTurn
    BY <1>2, <2>1 DEF Snapshot, EndTurn
  <2> QED
    BY <1>2, <2>1, <2>2, <2>3 DEF Bump
<1>3. CASE EndTurn
  <2>1. pc' = "saving" /\ bodies' = bodies + 1 /\ (setup.memory => pc = "snapshot")
        /\ snapshots' = (IF setup.memory THEN [snapshots EXCEPT ![Len(snapshots)].reply = bodies + 1]
                         ELSE snapshots)
    BY <1>3 DEF EndTurn, SaveThen
  <2>2. ~Snapshot
    BY <2>1 DEF Snapshot
  <2> QED
    BY <1>3, <2>1, <2>2
<1>4. CASE ~Snapshot /\ ~EndTurn
  <2>1. snapshots' = snapshots /\ pc' # "snapshot"
    BY <1>1, <1>4 DEF Next, Loop, ChatStart, RunStart, Abort, CheckCompress, StrategyRefused,
       NothingToCompress, StrategyApplied, StrategyStoreFails, CompressLegacy, Compressed, Unanswered,
       ToolRound, CutBatch, SaveWritten, SaveFails, Finish, Crash, Resume, SaveThen
  <2> QED
    BY <1>4, <2>1
<1> QED
  BY <1>2, <1>3, <1>4

LEMMA SnapNext ==
  ASSUME Core, SnapInv, Next
  PROVE  SnapInv'
<1> DEFINE n == Len(snapshots)
           Kinds == Quiet \/ (\E new : Grows(new)) \/ (\E members : Batched(members)) \/ Cut
           taken == Append(snapshots, [version |-> session'.version, reply |-> NoReply])
           answered == [snapshots EXCEPT ![n].reply = bodies + 1]
<1>0. /\ Types /\ snapshots \in Seq(SnapshotRecord) /\ snapshots' \in Seq(SnapshotRecord)
      /\ bodies \in Nat /\ session \in SessionType /\ session' \in SessionType
      /\ disk.saved \in SessionType /\ session.version \in Nat /\ disk.saved.version \in Nat
      /\ Step /\ setup' = setup /\ n \in Nat /\ DOMAIN snapshots = 1..n
  <2>1. Types /\ snapshots \in Seq(SnapshotRecord) /\ bodies \in Nat
    BY DEF Core, Types, SnapshotRecord
  <2>2. /\ session \in SessionType /\ disk.saved \in SessionType
        /\ session.version \in Nat /\ disk.saved.version \in Nat
    BY <2>1, SessionFields
  <2>3. snapshots' \in Seq(SnapshotRecord) /\ session' \in SessionType /\ Step /\ setup' = setup
    BY <2>1, SnapshotsNext, NextStep, SetupStays DEF Sessions
  <2>4. n \in Nat /\ DOMAIN snapshots = 1..n
    BY <2>1
  <2> QED
    BY <2>1, <2>2, <2>3, <2>4
<1>1. NoReply \notin Nat /\ Synthetic \notin 1..bodies /\ bodies + 1 \notin 0..bodies
      /\ Synthetic \in 0..bodies /\ bodies + 1 # NoReply /\ NoReply \notin 0..bodies
  BY <1>0 DEF NoReply, Synthetic
<1>2. \/ snapshots' = snapshots
      \/ Snapshot /\ snapshots' = taken
      \/ EndTurn /\ setup.memory /\ pc = "snapshot" /\ snapshots' = answered
  BY <1>0, SnapshotsAre
<1>3. snapshots' = taken =>
        /\ DOMAIN snapshots' = 1..n + 1 /\ n + 1 \in DOMAIN snapshots' /\ Len(snapshots') = n + 1
        /\ snapshots'[n + 1].reply = NoReply /\ snapshots'[n + 1].version = session'.version
        /\ \A i \in DOMAIN snapshots' : i # n + 1 => i \in DOMAIN snapshots /\ snapshots'[i] = snapshots[i]
  <2> SUFFICES ASSUME snapshots' = taken
               PROVE  /\ DOMAIN snapshots' = 1..n + 1 /\ n + 1 \in DOMAIN snapshots' /\ Len(snapshots') = n + 1
                      /\ snapshots'[n + 1].reply = NoReply /\ snapshots'[n + 1].version = session'.version
                      /\ \A i \in DOMAIN snapshots' : i # n + 1 =>
                           i \in DOMAIN snapshots /\ snapshots'[i] = snapshots[i]
    OBVIOUS
  <2> DEFINE r == [version |-> session'.version, reply |-> NoReply]
  <2>1. r.version = session'.version /\ r.reply = NoReply /\ snapshots' = Append(snapshots, r)
    OBVIOUS
  <2> HIDE DEF r
  <2> QED
    BY <1>0, <2>1
<1>4. snapshots' = answered =>
        /\ DOMAIN snapshots' = DOMAIN snapshots
        /\ \A i \in DOMAIN snapshots : snapshots'[i].version = snapshots[i].version
        /\ \A i \in DOMAIN snapshots : i # n => snapshots'[i].reply = snapshots[i].reply
        /\ n \in DOMAIN snapshots => snapshots'[n].reply = bodies + 1
  <2>1. \A i \in DOMAIN snapshots : snapshots[i] \in SnapshotRecord
    BY <1>0
  <2> QED
    BY <1>0, <2>1 DEF SnapshotRecord
<1> HIDE DEF taken, answered
<1>5. bodies' \in Nat /\ bodies <= bodies'
  <2>1. \A new : Grows(new) => bodies' = bodies + Len(new) /\ Len(new) \in {1, 2}
    BY DEF Grows, Fresh
  <2>2. bodies' = bodies \/ \E new : Grows(new)
    BY <1>0, SavedStep DEF Step, Quiet, Batched, Cut, Crash, Resume
  <2> QED
    BY <1>0, <2>1, <2>2
<1>6. \A i \in DOMAIN snapshots' : snapshots'[i].reply = NoReply \/ snapshots'[i].reply \in 1..bodies'
  <2>0. \A i \in DOMAIN snapshots : snapshots[i].reply = NoReply \/ snapshots[i].reply \in 1..bodies'
    BY <1>0, <1>5 DEF SnapInv
  <2>1. CASE snapshots' = taken
    BY <1>3, <2>0, <2>1
  <2>2. CASE EndTurn /\ snapshots' = answered
    <3>1. bodies + 1 \in 1..bodies'
      BY <1>0, <2>2, SnapshotsAre
    <3> QED
      BY <1>4, <2>0, <2>2, <3>1
  <2> QED
    BY <1>2, <2>0, <2>1, <2>2
\* A session that keeps its record is not touched by the new snapshot or its reply.
<1>7. ASSUME NEW s \in SessionType, Known(s) \subseteq 0..bodies, Told(snapshots, s)
      PROVE  Told(snapshots', s)
  <2>1. s.version \in Nat
    BY Fields
  <2>2. ASSUME NEW i \in DOMAIN snapshots', snapshots'[i].reply \in Known(s)
        PROVE  /\ i \in DOMAIN snapshots /\ snapshots[i].reply \in Known(s)
               /\ snapshots[i].version = snapshots'[i].version
    BY <1>1, <1>2, <1>3, <1>4, <1>7, <2>2
  <2> QED
    BY <1>0, <1>7, <2>1, <2>2, ToldStill
<1>8. Known(NewSession) = {} /\ \A noted : Told(noted, NewSession)
  <2>1. Known(NewSession) = {}
    BY NewSessionType DEF Known, Reach, ToSet
  <2> QED
    BY <2>1 DEF Told
<1>9. Known(disk'.saved) \subseteq 0..bodies' /\ Told(snapshots', disk'.saved)
  <2>0. 0..bodies \subseteq 0..bodies'
    BY <1>0, <1>5
  <2>1. CASE disk' = disk
    BY <1>0, <1>7, <2>0, <2>1 DEF SnapInv
  <2>2. CASE disk' = Torn
    BY <1>8, <2>2 DEF Torn
  <2>3. CASE SaveWritten
    <3>1. Known(disk'.saved) = Known(session) /\ disk'.saved.version = session.version
      BY <1>0, <2>3, SavedStep DEF Known
    <3>2. Told(snapshots', session)
      BY <1>0, <1>7 DEF SnapInv
    <3> QED
      BY <2>0, <3>1, <3>2 DEF Told, SnapInv
  <2> QED
    BY <1>0, <2>1, <2>2, <2>3, DiskNext
\* The session.
<1>10. ASSUME Kinds
       PROVE  /\ \A x \in Known(session') :
                   x \in Known(session) \/ x = Synthetic \/ x \in bodies + 1..bodies'
              /\ session.version <= session'.version /\ session'.version \in Nat
              /\ Known(session') \subseteq 0..bodies'
              /\ \A i \in DOMAIN snapshots :
                   snapshots[i].reply \in Known(session') => snapshots[i].reply \in Known(session)
  <2>1. /\ \A x \in Known(session') : x \in Known(session) \/ x = Synthetic \/ x \in bodies + 1..bodies'
        /\ session.version <= session'.version /\ session'.version \in Nat
    BY <1>10, KnownNext
  <2>2. Known(session') \in SUBSET Nat
    BY <1>0, KnownIsLog
  <2>3. ASSUME NEW x \in Known(session') PROVE x \in 0..bodies'
    <3>1. x \in 0..bodies \/ x \in bodies + 1..bodies'
      BY <1>1, <2>1 DEF SnapInv
    <3> QED
      BY <1>0, <1>5, <2>2, <3>1
  <2>4. ASSUME NEW i \in DOMAIN snapshots, snapshots[i].reply \in Known(session')
        PROVE  snapshots[i].reply \in Known(session)
    <3>1. snapshots[i].reply \in 1..bodies
      BY <1>1, <2>2, <2>4 DEF SnapInv
    <3>2. snapshots[i].reply \notin bodies + 1..bodies'
      BY <1>0, <1>5, <3>1
    <3> QED
      BY <1>1, <2>1, <2>4, <3>1, <3>2
  <2> QED
    BY <2>1, <2>3, <2>4
<1>11. Known(session') \subseteq 0..bodies' /\ Told(snapshots', session')
  <2>1. CASE Kinds /\ snapshots' \in {snapshots, taken}
    <3>1. /\ session.version <= session'.version /\ session'.version \in Nat
          /\ Known(session') \subseteq 0..bodies' /\ NoReply \notin Known(session')
      <4>1. Known(session') \subseteq 0..bodies' /\ NoReply \notin 0..bodies'
        BY <1>5, <1>10, <2>1 DEF NoReply
      <4> QED
        BY <1>10, <2>1, <4>1
    <3>2. ASSUME NEW i \in DOMAIN snapshots', snapshots'[i].reply \in Known(session')
          PROVE  /\ i \in DOMAIN snapshots /\ snapshots[i].reply \in Known(session)
                 /\ snapshots[i].version = snapshots'[i].version
      <4>1. i \in DOMAIN snapshots /\ snapshots[i] = snapshots'[i]
        BY <1>2, <1>3, <2>1, <3>1, <3>2
      <4> QED
        BY <1>10, <2>1, <3>2, <4>1
    <3>3. Told(snapshots, session)
      BY DEF SnapInv
    <3> HIDE DEF n
    <3>4. Told(snapshots', session')
      BY <1>0, <3>1, <3>2, <3>3, ToldStill
    <3> QED
      BY <3>1, <3>4
  <2>2. CASE Kinds /\ EndTurn /\ pc = "snapshot" /\ snapshots' = answered
    <3>1. /\ n \in DOMAIN snapshots /\ snapshots[n].version = session.version
          /\ \A i \in DOMAIN snapshots :
               snapshots[i].reply \in Known(session) => snapshots[i].version < session.version
      BY <1>0, <2>2 DEF SnapInv, Pending
    <3>2. \A i \in DOMAIN snapshots : snapshots[i].version \in Nat
      <4>1. \A i \in DOMAIN snapshots : snapshots[i] \in SnapshotRecord
        BY <1>0
      <4> QED
        BY <4>1 DEF SnapshotRecord
    <3>3. \A i \in DOMAIN snapshots : i # n /\ snapshots'[i].reply \in Known(session') =>
            snapshots[i].reply \in Known(session)
      BY <1>4, <1>10, <2>2
    <3>4. ASSUME NEW i \in DOMAIN snapshots', snapshots'[i].reply \in Known(session')
          PROVE  snapshots'[i].version <= session'.version
      <4>1. i \in DOMAIN snapshots /\ snapshots'[i].version = snapshots[i].version
        BY <1>4, <2>2
      <4>2. snapshots[i].version <= session.version
        BY <1>0, <3>1, <3>2, <3>3, <3>4, <4>1
      <4>3. session.version <= session'.version /\ session'.version \in Nat
        BY <1>10, <2>2
      <4> QED
        BY <1>0, <3>2, <4>1, <4>2, <4>3
    <3>5. ASSUME NEW i \in DOMAIN snapshots', NEW j \in DOMAIN snapshots', i # j,
                 snapshots'[i].reply \in Known(session'), snapshots'[j].reply \in Known(session')
          PROVE  snapshots'[i].version # snapshots'[j].version
      <4>1. /\ i \in DOMAIN snapshots /\ snapshots'[i].version = snapshots[i].version
            /\ j \in DOMAIN snapshots /\ snapshots'[j].version = snapshots[j].version
        BY <1>4, <2>2
      <4>2. CASE i = n
        <5>1. snapshots[j].version < session.version
          BY <3>1, <3>3, <3>5, <4>1, <4>2
        <5> QED
          BY <1>0, <3>1, <3>2, <4>1, <4>2, <5>1
      <4>3. CASE j = n
        <5>1. snapshots[i].version < session.version
          BY <3>1, <3>3, <3>5, <4>1, <4>3
        <5> QED
          BY <1>0, <3>1, <3>2, <4>1, <4>3, <5>1
      <4>4. CASE i # n /\ j # n
        BY <3>3, <3>5, <4>1, <4>4 DEF SnapInv, Told
      <4> QED
        BY <4>2, <4>3, <4>4
    <3> QED
      BY <1>10, <2>2, <3>4, <3>5 DEF Told
  <2>3. CASE SaveWritten
    <3>1. session' = session /\ bodies' = bodies
      BY <1>0, <2>3, SavedStep
    <3> QED
      BY <1>0, <1>7, <3>1 DEF SnapInv
  <2>4. CASE Crash
    BY <1>8, <2>4 DEF Crash
  <2>5. CASE Resume
    <3>1. session' = disk.saved /\ bodies' = bodies
      BY <2>5 DEF Resume
    <3> QED
      BY <1>0, <1>7, <3>1 DEF SnapInv
  <2>6. \/ snapshots' \in {snapshots, taken}
        \/ /\ EndTurn /\ pc = "snapshot" /\ snapshots' = answered
           /\ ~Resume /\ ~Crash /\ ~SaveWritten
    BY <1>2 DEF EndTurn, SaveThen, Resume, Crash, SaveWritten
  <2> QED
    BY <1>0, <2>1, <2>2, <2>3, <2>4, <2>5, <2>6 DEF Step
<1>12. ASSUME pc' = "snapshot" PROVE setup.memory /\ Pending'
  <2>1. Snapshot /\ setup.memory /\ snapshots' = taken /\ session'.version = session.version + 1
    BY <1>0, <1>12, SnapshotsAre DEF taken
  <2>2. Kinds
    BY <1>0, <2>1, QuietStep
  <2>3. ASSUME NEW i \in DOMAIN snapshots', snapshots'[i].reply \in Known(session')
        PROVE  snapshots'[i].version < session'.version
    <3>1. NoReply \notin Known(session')
      <4>1. Known(session') \subseteq 0..bodies' /\ NoReply \notin 0..bodies'
        BY <1>5, <1>10, <2>2 DEF NoReply
      <4> QED
        BY <4>1
    <3>2. i \in DOMAIN snapshots /\ snapshots'[i] = snapshots[i]
      BY <1>3, <2>1, <2>3, <3>1
    <3>3. snapshots[i].version <= session.version
      BY <1>10, <2>2, <2>3, <3>2 DEF SnapInv, Told
    <3>4. snapshots[i].version \in Nat
      <4>1. snapshots[i] \in SnapshotRecord
        BY <1>0, <3>2
      <4> QED
        BY <4>1 DEF SnapshotRecord
    <3> QED
      BY <1>0, <2>1, <3>2, <3>3, <3>4
  <2>4. Len(snapshots') = n + 1 /\ n + 1 > 0
    BY <1>0, <1>3, <2>1
  <2> QED
    BY <1>3, <2>1, <2>3, <2>4 DEF Pending
<1> QED
  BY <1>0, <1>6, <1>9, <1>11, <1>12 DEF SnapInv, Told, Known, Reach

\* Two turns of the conversation never go under one version of the working memory, also after
\* a reply was lost between the snapshot and the log, a crash, or a resumption: the session
\* that resumes has seen the version of every snapshot whose reply it holds.
THEOREM VersionsNameTurns == Spec => []SnapshotsNameTurns
<1>1. Init => SnapInv
  <2> SUFFICES ASSUME Init PROVE SnapInv
    OBVIOUS
  <2>1. session = NewSession /\ disk.saved = NewSession /\ snapshots = <<>> /\ pc = "idle"
    BY DEF Init, NoFile
  <2>2. Known(NewSession) = {}
    BY NewSessionType DEF Known, Reach, ToSet
  <2> QED
    BY <2>1, <2>2 DEF SnapInv, Told
<1>2. SnapInv /\ Core /\ [Next]_vars => SnapInv'
  <2>1. SnapInv /\ UNCHANGED vars => SnapInv'
    BY DEF SnapInv, Told, Known, Reach, Pending, vars
  <2> QED
    BY <2>1, SnapNext
<1>3. SnapInv /\ Core => SnapshotsNameTurns
  <2> SUFFICES ASSUME SnapInv, Core PROVE SnapshotsNameTurns
    OBVIOUS
  <2>1. Conversation \in SessionType /\ Told(snapshots, Conversation)
    BY SessionFields DEF SnapInv, Core, Conversation
  <2>2. ToSet(LogOf(Conversation)) = Known(Conversation)
    BY <2>1, KnownIsLog
  <2> QED
    BY <2>1, <2>2 DEF SnapshotsNameTurns, Told
<1> QED
  BY <1>1, <1>2, <1>3, CoreHolds, PTL DEF Spec

-----------------------------------------------------------------------------
(* Requests.                                                               *)

\* What is added in one go: a text, an answer that leaves the calls C unanswered, or a
\* request of the calls C with its results.
Round(new, C) ==
  /\ new \in Seq(Message) /\ Len(new) \in {1, 2}
  /\ new[1].uses = C /\ new[1].results = {}
  /\ C # {} => new[1].role = "assistant" /\ ~new[1].str
  /\ Len(new) = 1 => Ran(new[1]) = {}
  /\ Len(new) = 2 => /\ new[2].results = C /\ new[2].uses = {}
                     /\ new[2].role = "user" /\ ~new[2].str /\ new[2].turn = new[1].turn

\* The names of calls up to n that none up to before has.
Unused(before, n) == ((-n)..n) \ ((-before)..before)

LEMMA NamesGrow ==
  ASSUME NEW n \in Nat, NEW more \in Nat, n <= more
  PROVE  (-n)..n \subseteq (-more)..more
OBVIOUS

LEMMA NamesUnused ==
  ASSUME NEW n \in Nat, NEW k \in {1, 2}
  PROVE  /\ n + k \in Nat /\ n <= n + k
         /\ {n + 1} \in SUBSET Unused(n, n + k) /\ {-(n + 1)} \in SUBSET Unused(n, n + k)
         /\ {} \in SUBSET Unused(n, n + k)
BY DEF Unused

LEMMA WholesomeGrows ==
  ASSUME NEW msgs \in Seq(Message), NEW before \in Nat, Wholesome(msgs, before),
         NEW n \in Nat, before <= n, NEW C \in SUBSET Unused(before, n), NEW new, Round(new, C)
  PROVE  Wholesome(msgs \o new, n)
<1> DEFINE all == msgs \o new
           L == Len(msgs)
<1>1. /\ new \in Seq(Message) /\ Len(new) \in {1, 2} /\ DOMAIN new = 1..Len(new)
      /\ L \in Nat /\ DOMAIN msgs = 1..L
  BY SeqFacts DEF Round
<1>2. /\ DOMAIN all = 1..L + Len(new)
      /\ \A i \in DOMAIN msgs : i \in DOMAIN all /\ all[i] = msgs[i]
      /\ \A j \in DOMAIN new : L + j \in DOMAIN all /\ all[L + j] = new[j]
      /\ \A i \in DOMAIN all : i \in DOMAIN msgs \/ \E j \in DOMAIN new : i = L + j
      /\ Len(all) = L + Len(new)
  <2>0. new \in Seq(Message)
    BY <1>1
  <2> HIDE DEF L
  <2>1. /\ DOMAIN all = 1..Len(msgs) + Len(new) /\ Len(all) = Len(msgs) + Len(new)
        /\ \A i \in DOMAIN msgs : i \in DOMAIN all /\ all[i] = msgs[i]
        /\ \A j \in DOMAIN new : Len(msgs) + j \in DOMAIN all /\ all[Len(msgs) + j] = new[j]
        /\ \A k \in DOMAIN all : k \in DOMAIN msgs \/ \E j \in DOMAIN new : k = Len(msgs) + j
    BY ONLY msgs \in Seq(Message), <2>0, JoinedParts
  <2> HIDE DEF all
  <2> QED
    BY <2>1 DEF L
<1>3. ASSUME NEW j \in DOMAIN new
      PROVE  /\ new[j].uses # {} =>
                  j = 1 /\ new[j].uses = C /\ new[j].role = "assistant" /\ ~new[j].str
             /\ Ran(new[j]) # {} =>
                  /\ j = 1 /\ Len(new) = 2 /\ new[j].uses = C /\ C # {}
                  /\ new[2].results = C /\ new[2].turn = new[j].turn
             /\ new[j].results # {} =>
                  /\ j = 2 /\ Len(new) = 2 /\ new[j].results = C
                  /\ new[j].role = "user" /\ ~new[j].str /\ new[1].uses = C
  <2>1. j \in Nat /\ 1 <= j /\ j <= Len(new)
    BY <1>1
  <2>2. new[j].uses = {} => Ran(new[j]) = {}
    BY DEF Ran
  <2>3. CASE Len(new) = 1
    <3>1. j = 1
      BY <2>1, <2>3
    <3> QED
      BY <2>2, <2>3, <3>1 DEF Round
  <2>4. CASE Len(new) = 2
    <3>1. j = 1 \/ j = 2
      BY <2>1, <2>4
    <3> QED
      BY <2>2, <2>4, <3>1 DEF Round
  <2> QED
    BY <1>1, <2>3, <2>4
<1>4. /\ C \subseteq (-n)..n /\ (-before)..before \subseteq (-n)..n /\ C \cap (-before)..before = {}
      /\ L + 2 = (L + 1) + 1 /\ L + 1 = (L + 2) - 1
      /\ (Len(new) = 2 => L + 1 < L + Len(new) /\ L + 2 > 1 /\ 1 \in DOMAIN new /\ 2 \in DOMAIN new)
  <2> DEFINE m == Len(new)
  <2>1. m \in Nat /\ 1 <= m /\ L \in Nat /\ DOMAIN new = 1..m
    BY <1>1
  <2> HIDE DEF m, L, all
  <2>2. /\ C \subseteq (-n)..n /\ (-before)..before \subseteq (-n)..n /\ C \cap (-before)..before = {}
    BY DEF Unused
  <2>3. /\ L + 2 = (L + 1) + 1 /\ L + 1 = (L + 2) - 1 /\ L + 2 > 1
    BY <2>1
  <2>4. m = 2 => L + 1 < L + m /\ 1 \in DOMAIN new /\ 2 \in DOMAIN new
    BY <2>1
  <2> QED
    BY <2>2, <2>3, <2>4 DEF m
<1> HIDE DEF all
\* The parts of Wholesome, for one message of the old list.
<1>5. ASSUME NEW i \in DOMAIN msgs
      PROVE  /\ msgs[i].uses # {} => msgs[i].role = "assistant" /\ ~msgs[i].str
             /\ Ran(msgs[i]) # {} =>
                  /\ i < L /\ i + 1 \in DOMAIN msgs /\ msgs[i + 1].results = msgs[i].uses
                  /\ msgs[i + 1].turn = msgs[i].turn
             /\ msgs[i].results # {} =>
                  /\ i > 1 /\ i - 1 \in DOMAIN msgs /\ msgs[i - 1].uses = msgs[i].results
                  /\ msgs[i].role = "user" /\ ~msgs[i].str
             /\ msgs[i].uses \subseteq (-before)..before
  <2>1. /\ PairsIntact(msgs)
        /\ msgs[i].uses # {} => msgs[i].role = "assistant" /\ ~msgs[i].str
        /\ Ran(msgs[i]) # {} => msgs[i + 1].turn = msgs[i].turn
        /\ msgs[i].results # {} => msgs[i].role = "user" /\ ~msgs[i].str
        /\ msgs[i].uses \subseteq (-before)..before
    BY DEF Wholesome
  <2>2. /\ Ran(msgs[i]) # {} => i < L /\ msgs[i + 1].results = msgs[i].uses
        /\ msgs[i].results # {} => i > 1 /\ msgs[i - 1].uses = msgs[i].results
    BY <2>1 DEF PairsIntact
  <2>3. (i < L => i + 1 \in DOMAIN msgs) /\ (i > 1 => i - 1 \in DOMAIN msgs)
    BY <1>1
  <2> QED
    BY <2>1, <2>2, <2>3
<1>6. ASSUME NEW i \in DOMAIN all
      PROVE  /\ all[i].uses # {} => all[i].role = "assistant" /\ ~all[i].str
             /\ Ran(all[i]) # {} =>
                  /\ i < Len(all) /\ all[i + 1].results = all[i].uses
                  /\ all[i + 1].turn = all[i].turn
             /\ all[i].results # {} =>
                  /\ i > 1 /\ all[i - 1].uses = all[i].results
                  /\ all[i].role = "user" /\ ~all[i].str
             /\ all[i].uses \subseteq (-n)..n
  <2>1. CASE i \in DOMAIN msgs
    <3>1. all[i] = msgs[i] /\ i < Len(all) + 1
      BY <1>1, <1>2, <2>1
    <3>2. Ran(msgs[i]) # {} => all[i + 1] = msgs[i + 1] /\ i < Len(all)
      BY <1>1, <1>2, <1>5, <2>1
    <3>3. msgs[i].results # {} => all[i - 1] = msgs[i - 1]
      BY <1>2, <1>5, <2>1
    <3> QED
      BY <1>4, <1>5, <2>1, <3>1, <3>2, <3>3
  <2>2. ASSUME NEW j \in DOMAIN new, i = L + j
        PROVE  /\ all[i].uses # {} => all[i].role = "assistant" /\ ~all[i].str
               /\ Ran(all[i]) # {} =>
                    /\ i < Len(all) /\ all[i + 1].results = all[i].uses
                    /\ all[i + 1].turn = all[i].turn
               /\ all[i].results # {} =>
                    /\ i > 1 /\ all[i - 1].uses = all[i].results
                    /\ all[i].role = "user" /\ ~all[i].str
               /\ all[i].uses \subseteq (-n)..n
    <3>1. all[i] = new[j]
      BY <1>2, <2>2
    <3>2. Len(new) = 2 => all[L + 1] = new[1] /\ all[L + 2] = new[2]
      BY <1>2, <1>4
    <3>3. new[j].uses \subseteq (-n)..n
      BY <1>3, <1>4
    <3>4. ASSUME Ran(new[j]) # {}
          PROVE  /\ i < Len(all) /\ all[i + 1].results = new[j].uses
                 /\ all[i + 1].turn = new[j].turn
      <4>1. /\ j = 1 /\ Len(new) = 2 /\ new[j].uses = C
            /\ new[2].results = C /\ new[2].turn = new[j].turn
        BY <1>3, <3>4
      <4>2. i = L + 1 /\ i + 1 = L + 2 /\ i < Len(all) /\ all[i + 1] = new[2]
        BY <1>2, <1>4, <2>2, <3>2, <4>1
      <4> QED
        BY <4>1, <4>2
    <3>5. ASSUME new[j].results # {}
          PROVE  i > 1 /\ all[i - 1].uses = new[j].results
      <4>1. j = 2 /\ Len(new) = 2 /\ new[j].results = C /\ new[1].uses = C
        BY <1>3, <3>5
      <4>2. i = L + 2 /\ i - 1 = L + 1 /\ i > 1 /\ all[i - 1] = new[1]
        BY <1>2, <1>4, <2>2, <3>2, <4>1
      <4> QED
        BY <4>1, <4>2
    <3> QED
      BY <1>3, <3>1, <3>3, <3>4, <3>5
  <2> QED
    BY <1>2, <2>1, <2>2
<1>7. ASSUME NEW i \in DOMAIN all, NEW j \in DOMAIN all, i # j PROVE all[i].uses \cap all[j].uses = {}
  <2>1. ASSUME NEW k \in DOMAIN all
        PROVE  \/ k \in DOMAIN msgs /\ all[k] = msgs[k] /\ all[k].uses \subseteq (-before)..before
               \/ all[k].uses = {}
               \/ all[k].uses = C /\ k = L + 1
    BY <1>2, <1>3, <1>5
  <2>2. CASE i \in DOMAIN msgs /\ j \in DOMAIN msgs
    BY <1>2, <1>7, <2>2 DEF Wholesome
  <2> QED
    BY <1>4, <1>7, <2>1, <2>2
<1> QED
  BY <1>6, <1>7 DEF Wholesome, PairsIntact, all

\* A selection that holds of every request that ran and its results both or neither.
LEMMA SelectedWholesome ==
  ASSUME NEW msgs \in Seq(Message), NEW n, Wholesome(msgs, n), NEW Q \in SUBSET DOMAIN msgs,
         \A i \in DOMAIN msgs : Ran(msgs[i]) # {} => (i \in Q <=> i + 1 \in Q)
  PROVE  Wholesome(Among(msgs, Q), n)
<1> DEFINE L == Len(msgs)
           keep == Among(msgs, Q)
<1>1. DOMAIN msgs = 1..L /\ L \in Nat
  BY SeqFacts
<1>4. ASSUME NEW i \in DOMAIN msgs, Ran(msgs[i]) # {}
      PROVE  /\ i + 1 \in DOMAIN msgs /\ msgs[i + 1].results = msgs[i].uses
             /\ i \in Q <=> i + 1 \in Q
             /\ i \in Nat /\ i < i + 1
  BY <1>1, <1>4 DEF Wholesome, PairsIntact
<1>5. /\ Q \in SUBSET DOMAIN msgs
      /\ keep \in Seq(Message) /\ DOMAIN keep = 1..Len(keep) /\ Len(keep) \in Nat
      /\ \A k \in DOMAIN keep : Position(Q, k) \in Q /\ keep[k] = msgs[Position(Q, k)]
      /\ \A k, l \in DOMAIN keep : k < l => Position(Q, k) < Position(Q, l)
      /\ \A i \in Q : Rank(Q, i) \in DOMAIN keep /\ keep[Rank(Q, i)] = msgs[i]
  BY Selected, SeqFacts
<1>6. \A k \in DOMAIN keep : Rank(Q, Position(Q, k)) = k
  <2>1. Len(keep) = Cardinality(Q)
    BY <1>5, Selected
  <2> QED
    <3>1. Q \in SUBSET (1..L) /\ \A k \in 1..Len(keep) : k \in 1..Cardinality(Q)
      BY <1>1, <1>5, <2>1
    <3> HIDE DEF L, keep
    <3>2. \A k \in 1..Cardinality(Q) : Rank(Q, Position(Q, k)) = k
      BY <1>1, <3>1, Positions
    <3> QED
      BY <1>5, <3>1, <3>2
<1> HIDE DEF keep
\* A request that is kept is followed by its results.
<1>7. ASSUME NEW i \in Q, Ran(msgs[i]) # {}
      PROVE  /\ Rank(Q, i) + 1 \in DOMAIN keep /\ keep[Rank(Q, i) + 1] = msgs[i + 1]
             /\ Rank(Q, i + 1) = Rank(Q, i) + 1
  <2>1. i \in DOMAIN msgs /\ i + 1 \in Q /\ i \in Nat /\ i < i + 1
    BY <1>4, <1>5, <1>7
  <2>2. \A j \in Q : ~(i < j /\ j < i + 1)
    <3>1. \A j \in Q : j \in Nat
      BY <1>1, <1>5
    <3> QED
      BY <2>1, <3>1
  <2>3. Q \in SUBSET (1..L)
    BY <1>1, <1>5
  <2>4. Rank(Q, i + 1) = Rank(Q, i) + 1
    BY <1>1, <2>1, <2>2, <2>3, NextRank
  <2> QED
    BY <1>5, <2>1, <2>4
<1>8. ASSUME NEW k \in DOMAIN keep, Ran(keep[k]) # {}
      PROVE  /\ k < Len(keep) /\ keep[k + 1].results = keep[k].uses
             /\ keep[k + 1].turn = keep[k].turn
  <2> DEFINE i == Position(Q, k)
  <2>1. i \in Q /\ i \in DOMAIN msgs /\ keep[k] = msgs[i] /\ Rank(Q, i) = k
    BY <1>5, <1>6
  <2> HIDE DEF i
  <2>2. k + 1 \in DOMAIN keep /\ keep[k + 1] = msgs[i + 1]
    BY <1>7, <1>8, <2>1
  <2>3. k < Len(keep)
    BY <1>5, <2>2
  <2> QED
    BY <1>4, <1>8, <2>1, <2>2, <2>3 DEF Wholesome
<1>9. ASSUME NEW k \in DOMAIN keep, keep[k].results # {}
      PROVE  k > 1 /\ keep[k - 1].uses = keep[k].results /\ keep[k].role = "user" /\ ~keep[k].str
  <2> DEFINE i == Position(Q, k)
  <2>1. i \in Q /\ i \in DOMAIN msgs /\ keep[k] = msgs[i] /\ Rank(Q, i) = k
    BY <1>5, <1>6
  <2> HIDE DEF i
  <2>2. i > 1 /\ msgs[i - 1].uses = msgs[i].results /\ i \in Nat
    BY <1>1, <1>9, <2>1 DEF Wholesome, PairsIntact
  <2>3. i - 1 \in DOMAIN msgs /\ (i - 1) + 1 = i /\ Ran(msgs[i - 1]) # {}
    <3>1. msgs[i].results \in SUBSET Nat
      BY <2>1, SeqFacts, MessageFields
    <3>2. \A c \in msgs[i].results : c >= 0
      BY <3>1
    <3>3. Ran(msgs[i - 1]) # {}
      BY <1>9, <2>1, <2>2, <3>2 DEF Ran
    <3> QED
      BY <1>1, <2>1, <2>2, <3>3
  <2>4. i - 1 \in Q
    BY <1>4, <2>1, <2>3
  <2>5. Rank(Q, i - 1) \in DOMAIN keep /\ keep[Rank(Q, i - 1)] = msgs[i - 1]
        /\ k = Rank(Q, i - 1) + 1
    BY <1>5, <1>7, <2>1, <2>3, <2>4
  <2>6. k > 1 /\ k - 1 = Rank(Q, i - 1)
    <3> DEFINE r == Rank(Q, i - 1)
    <3>1. r \in Nat /\ 1 <= r /\ k = r + 1
      BY <1>5, <2>5
    <3> HIDE DEF r
    <3>2. k > 1 /\ k - 1 = r
      BY <3>1
    <3> QED
      BY <3>2 DEF r
  <2> QED
    BY <1>9, <2>1, <2>2, <2>5, <2>6 DEF Wholesome
<1>10. \A k \in DOMAIN keep :
         /\ keep[k].uses \subseteq (-n)..n
         /\ keep[k].uses # {} => keep[k].role = "assistant" /\ ~keep[k].str
  BY <1>5 DEF Wholesome
<1>11. ASSUME NEW k \in DOMAIN keep, NEW l \in DOMAIN keep, k # l
       PROVE  keep[k].uses \cap keep[l].uses = {}
  <2>1. Position(Q, k) # Position(Q, l)
    BY <1>6, <1>11
  <2> QED
    BY <1>5, <2>1, SMTT(20) DEF Wholesome
<1>12. Wholesome(keep, n)
  <2>1. PairsIntact(keep)
    BY <1>8, <1>9 DEF PairsIntact
  <2>2. \A k, l \in DOMAIN keep : k # l => keep[k].uses \cap keep[l].uses = {}
    BY <1>11
  <2>3. ASSUME NEW i \in DOMAIN keep
        PROVE  /\ keep[i].uses # {} => keep[i].role = "assistant" /\ ~keep[i].str
               /\ Ran(keep[i]) # {} => keep[i + 1].turn = keep[i].turn
               /\ keep[i].results # {} => keep[i].role = "user" /\ ~keep[i].str
               /\ keep[i].uses \subseteq (-n)..n
    BY <1>8, <1>9, <1>10
  <2> QED
    BY <2>1, <2>2, <2>3 DEF Wholesome
<1> QED
  BY <1>12 DEF keep

\* The split never parts a request from its results: they have the same turn.
LEMMA SplitWholesome ==
  ASSUME NEW msgs \in Seq(Message), NEW n, Wholesome(msgs, n), Split(msgs).compress # <<>>
  PROVE  Wholesome(Split(msgs).keep, n) /\ Wholesome(Split(msgs).compress, n)
<1> DEFINE L == Len(msgs)
           s == SplitIndex(msgs)
           P == Older(msgs)
           Q == DOMAIN msgs \ Older(msgs)
<1>1. /\ Split(msgs).keep = Among(msgs, Q) /\ Split(msgs).compress = Among(msgs, P)
      /\ P \in SUBSET DOMAIN msgs /\ Q \in SUBSET DOMAIN msgs
      /\ DOMAIN msgs = 1..L /\ L \in Nat
  BY SplitParts, SeqFacts
<1>2. /\ s \in 0..L /\ \A i \in 1..s : msgs[i].turn \notin TurnsToKeep(msgs)
      /\ s # L => msgs[s + 1].turn \in TurnsToKeep(msgs)
  BY SplitIndexIs
<1>3. \A i \in DOMAIN msgs : i \in P <=> i <= s /\ msgs[i].turn # NoTurn
  BY <1>1, <1>2 DEF Older
<1> HIDE DEF s
<1>4. ASSUME NEW i \in DOMAIN msgs, Ran(msgs[i]) # {}
      PROVE  (i \in P <=> i + 1 \in P) /\ (i \in Q <=> i + 1 \in Q)
  <2>1. i < L /\ msgs[i + 1].turn = msgs[i].turn /\ i \in Nat /\ i + 1 \in DOMAIN msgs
    BY <1>1, <1>4 DEF Wholesome, PairsIntact
  <2>2. i # s
    <3>1. ASSUME i = s PROVE FALSE
      BY <1>1, <1>2, <2>1, <3>1
    <3> QED
      BY <3>1
  <2>3. i <= s <=> i + 1 <= s
    <3>1. s \in 0..L /\ L \in Nat /\ i \in Nat
      BY <1>1, <1>2, <2>1
    <3> HIDE DEF L
    <3>2. s \in Nat
      BY <3>1
    <3> QED
      BY <2>2, <3>1, <3>2
  <2>4. i \in P <=> i + 1 \in P
    BY <1>3, <2>1, <2>3
  <2> QED
    BY <2>1, <2>4
<1> HIDE DEF P, Q
<1> QED
  BY <1>1, <1>4, SelectedWholesome

\* The turn of the last message of a user is kept.
LEMMA LastTurnKept ==
  ASSUME NEW msgs \in Seq(Message), ~(Len(UserTurns(msgs)) <= KeepTurns),
         NEW p \in DOMAIN msgs, msgs[p].role = "user", msgs[p].turn # NoTurn,
         \A i \in p..Len(msgs) : msgs[i].turn = msgs[p].turn
  PROVE  SplitIndex(msgs) < p
<1> DEFINE asks(i) == msgs[i].role = "user" /\ msgs[i].turn # NoTurn
           F == {i \in DOMAIN msgs : asks(i) /\ \A j \in 1..i - 1 : asks(j) => msgs[j].turn # msgs[i].turn}
           turnOf == [i \in DOMAIN msgs |-> msgs[i].turn]
           turns == UserTurns(msgs)
           c == Len(turns)
           g == Position(F, c)
           m == Lesser(KeepTurns, c)
<1>1. /\ DOMAIN msgs = 1..Len(msgs) /\ Len(msgs) \in Nat /\ F \in SUBSET DOMAIN msgs
      /\ KeepTurns \in Nat \ {0}
  BY SeqFacts, KeepAssumption
<1>2. turnOf \in Seq(Int) /\ DOMAIN turnOf = DOMAIN msgs
  <2>1. \A i \in 1..Len(msgs) : msgs[i].turn \in Int
    BY SeqFacts, MessageFields
  <2> QED
    BY <1>1, <2>1
<1>3. turns = Among(turnOf, F)
  BY DEF UserTurns
<1> HIDE DEF F, turnOf, turns
<1>4. /\ turns \in Seq(Int) /\ DOMAIN turns = 1..c /\ c \in Nat
      /\ \A i \in DOMAIN turns : Position(F, i) \in F /\ turns[i] = turnOf[Position(F, i)]
  BY <1>1, <1>2, <1>3, Selected
<1>5. c \in DOMAIN turns /\ KeepTurns < c /\ m = KeepTurns
  <2>1. ~(c <= KeepTurns)
    BY DEF turns
  <2> HIDE DEF c
  <2> QED
    BY <1>1, <1>4, <2>1 DEF Lesser
<1>6. g \in F /\ turns[c] = msgs[g].turn
  <2>1. g \in F /\ turns[c] = turnOf[g]
    BY <1>4, <1>5
  <2> QED
    BY <1>1, <2>1 DEF turnOf
<1>7. turns[c] \in TurnsToKeep(msgs)
  <2>1. TurnsToKeep(msgs) = ToSet(SubSeq(turns, c - KeepTurns + 1, c))
    BY <1>5 DEF TurnsToKeep, LastN, turns
  <2> HIDE DEF c
  <2>2. c - KeepTurns \in 0..c
    BY <1>1, <1>4, <1>5
  <2>3. ToSet(SubSeq(turns, (c - KeepTurns) + 1, Len(turns))) = {turns[i] : i \in (c - KeepTurns) + 1..Len(turns)}
    <3> DEFINE k == c - KeepTurns
    <3>1. k \in 0..Len(turns) /\ turns \in Seq(Int)
      BY <1>4, <2>2 DEF c
    <3> HIDE DEF k
    <3>2. ToSet(SubSeq(turns, k + 1, Len(turns))) = {turns[i] : i \in k + 1..Len(turns)}
      BY <3>1, Rest
    <3> QED
      BY <3>2 DEF k
  <2>4. c \in (c - KeepTurns) + 1..c
    BY <1>1, <1>4, <1>5
  <2> QED
    BY <2>1, <2>3, <2>4 DEF c
<1> HIDE DEF g, c, m
<1>8. g \in DOMAIN msgs /\ g \in Nat /\ p \in Nat
      /\ \A j \in 1..g - 1 : asks(j) => msgs[j].turn # msgs[g].turn
  BY <1>1, <1>6 DEF F
<1>9. g <= p
  <2> SUFFICES ASSUME p < g PROVE FALSE
    BY <1>8
  <2>1. p \in 1..g - 1 /\ g \in p..Len(msgs)
    BY <1>1, <1>8
  <2>2. msgs[g].turn = msgs[p].turn /\ asks(p)
    BY <2>1
  <2> QED
    BY <1>8, <2>1, <2>2
<1>10. SplitIndex(msgs) \in Nat /\ g \notin 1..SplitIndex(msgs)
  <2>1. SplitIndex(msgs) \in 0..Len(msgs) /\ \A i \in 1..SplitIndex(msgs) : msgs[i].turn \notin TurnsToKeep(msgs)
    BY SplitIndexIs
  <2> QED
    BY <1>1, <1>6, <1>7, <2>1
<1>11. 1 <= g
  BY <1>1, <1>8
<1> QED
  BY <1>8, <1>9, <1>10, <1>11

\* The message the user has sent is in the list, and what follows belongs to its turn.
Sent(msgs, turn) ==
  \E p \in DOMAIN msgs :
    /\ msgs[p].str /\ msgs[p].role = "user"
    /\ \A i \in p..Len(msgs) : msgs[i].turn = turn

LEMMA SplitSent ==
  ASSUME NEW msgs \in Seq(Message), NEW turn \in Nat, Sent(msgs, turn), Split(msgs).compress # <<>>
  PROVE  Sent(Split(msgs).keep, turn)
<1> DEFINE Q == DOMAIN msgs \ Older(msgs)
           keep == Among(msgs, Q)
           r(i) == Rank(Q, i)
<1>1. PICK p \in DOMAIN msgs : /\ msgs[p].str /\ msgs[p].role = "user"
                               /\ \A i \in p..Len(msgs) : msgs[i].turn = turn
  BY DEF Sent
<1>2. DOMAIN msgs = 1..Len(msgs) /\ Len(msgs) \in Nat /\ p \in p..Len(msgs) /\ NoTurn \notin Nat
  BY SeqFacts DEF NoTurn
<1>3. /\ Split(msgs).keep = keep /\ ~(Len(UserTurns(msgs)) <= KeepTurns)
      /\ SplitIndex(msgs) < p /\ SplitIndex(msgs) \in 0..Len(msgs)
  <2>1. msgs[p].turn = turn /\ turn # NoTurn
    BY <1>1, <1>2
  <2> QED
    BY <1>1, <2>1, SplitParts, LastTurnKept, SplitIndexIs
<1>4. p \in Q
  BY <1>2, <1>3 DEF Older
<1>5. Q \in SUBSET DOMAIN msgs
  OBVIOUS
<1> HIDE DEF Q
<1>6. /\ keep \in Seq(Message) /\ DOMAIN keep = 1..Len(keep) /\ Len(keep) = Cardinality(Q)
      /\ \A k \in DOMAIN keep : Position(Q, k) \in Q /\ keep[k] = msgs[Position(Q, k)]
      /\ \A k, l \in DOMAIN keep : k < l => Position(Q, k) < Position(Q, l)
      /\ r(p) \in DOMAIN keep /\ keep[r(p)] = msgs[p]
  BY <1>4, <1>5, Selected, SeqFacts
<1>7. Position(Q, r(p)) = p
  BY <1>2, <1>4, <1>5, Positions
<1> HIDE DEF keep
<1>8. ASSUME NEW k \in r(p)..Len(keep) PROVE keep[k].turn = turn
  <2> DEFINE i == Position(Q, k)
             q == r(p)
  <2>1. q \in Nat /\ 1 <= q /\ Len(keep) \in Nat
    BY <1>6, SeqFacts
  <2>2. k \in DOMAIN keep /\ (k = q \/ q < k)
    <3>1. k \in q..Len(keep)
      BY <1>8
    <3> HIDE DEF q
    <3> QED
      BY <1>6, <2>1, <3>1
  <2>3. i \in DOMAIN msgs /\ keep[k] = msgs[i]
    BY <1>5, <1>6, <2>2
  <2>4. p <= i
    <3>1. CASE k = q
      BY <1>2, <1>7, <3>1
    <3>2. CASE q < k
      <4>1. p < i
        BY <1>6, <1>7, <2>2, <3>2
      <4> QED
        BY <1>2, <2>3, <4>1
    <3> QED
      BY <2>2, <3>1, <3>2
  <2> HIDE DEF i
  <2>5. i \in p..Len(msgs)
    BY <1>2, <2>3, <2>4
  <2> QED
    BY <1>1, <2>3, <2>5
<1> QED
  BY <1>1, <1>3, <1>6, <1>8 DEF Sent

\* The messages of the running turn.
LEMMA SentGrows ==
  ASSUME NEW msgs \in Seq(Message), NEW turn, Sent(msgs, turn), NEW new \in Seq(Message),
         \A i \in DOMAIN new : new[i].turn = turn
  PROVE  Sent(msgs \o new, turn)
<1> DEFINE all == msgs \o new
<1>1. /\ Len(all) = Len(msgs) + Len(new) /\ DOMAIN all = 1..Len(msgs) + Len(new)
      /\ \A i \in DOMAIN msgs : i \in DOMAIN all /\ all[i] = msgs[i]
      /\ \A j \in DOMAIN new : all[Len(msgs) + j] = new[j]
      /\ \A k \in DOMAIN all : k \in DOMAIN msgs \/ \E j \in DOMAIN new : k = Len(msgs) + j
  BY JoinedParts
<1>2. Len(msgs) \in Nat /\ Len(new) \in Nat /\ DOMAIN msgs = 1..Len(msgs)
  BY SeqFacts
<1> HIDE DEF all
<1>3. PICK p \in DOMAIN msgs : /\ msgs[p].str /\ msgs[p].role = "user"
                               /\ \A i \in p..Len(msgs) : msgs[i].turn = turn
  BY DEF Sent
<1>4. ASSUME NEW k \in p..Len(all) PROVE all[k].turn = turn
  <2>1. k \in DOMAIN all
    BY <1>1, <1>2
  <2>2. CASE k \in DOMAIN msgs
    <3>1. k \in p..Len(msgs)
      BY <1>2, <2>2
    <3> QED
      BY <1>1, <1>3, <2>2, <3>1
  <2> QED
    BY <1>1, <2>1, <2>2
<1> QED
  BY <1>1, <1>3, <1>4 DEF Sent, all

\* The call is in its loop, or about to go on with it.
Running == pc \in Awaiting \/ (pc = "saving" /\ next = "check")

SentInv ==
  Running /\ entry = "chat" /\ setup.compressor = "strategy" => Sent(session.messages, session.userTurn)

\* The messages of a tool round.
LEMMA RoundMessages ==
  ASSUME Types, ToolRound
  PROVE  \E new \in Seq(Message) :
           /\ \A i \in DOMAIN new : new[i].turn = MsgTurn
           /\ session'.messages = session.messages \o new /\ session'.userTurn = session.userTurn
<1> DEFINE m == Reply(session.msgCounter + 1, MsgTurn, FALSE, {bodies + 1}, bodies + 1)
           r == ToolResults(session.msgCounter + 1 + 1, MsgTurn, {bodies + 1}, bodies + 2)
           new == <<m, r>>
<1>1. PICK s \in ToolEffects : session' = WithRound(s)
  BY DEF ToolRound
<1>2. /\ s \in SessionType /\ s.messages = session.messages /\ s.userTurn = session.userTurn
      /\ s.msgCounter = session.msgCounter
  BY <1>1, ToolEffectsAre DEF Sessions
<1>3. m.turn = MsgTurn /\ r.turn = MsgTurn
  BY DEF Reply, ToolResults
<1>4. m \in Message /\ r \in Message
  <2>1. session.msgCounter \in Nat /\ bodies \in Nat
    BY SessionFields DEF Types
  <2>2. session.msgCounter + 1 \in Nat /\ session.msgCounter + 1 + 1 \in Nat /\ bodies + 1 \in Nat
        /\ bodies + 2 \in Nat /\ {bodies + 1} \in SUBSET Nat /\ {bodies + 1} \in SUBSET Int
    BY <2>1
  <2> QED
    BY <2>2, NewMessages, MsgTurnType
<1>5. session' = [s EXCEPT !.msgCounter = @ + 2, !.recalled = {}, !.messages = session.messages \o new]
  BY <1>1, <1>2 DEF WithRound
<1> HIDE DEF m, r
<1>6. new \in Seq(Message) /\ \A i \in DOMAIN new : new[i].turn = MsgTurn
  BY <1>3, <1>4
<1> HIDE DEF new
<1>7. session'.messages = session.messages \o new /\ session'.userTurn = session.userTurn
  BY <1>2, <1>5 DEF SessionType
<1> QED
  BY <1>6, <1>7

LEMMA SentNext ==
  ASSUME Types, SentInv, Next
  PROVE  SentInv'
<1> DEFINE msgs == session.messages
           turn == session.userTurn
           split == Split(msgs)
<1>0. /\ session \in SessionType /\ msgs \in Seq(Message) /\ turn \in Nat /\ turn + 1 \in Nat
      /\ session.msgCounter \in Nat /\ session.msgCounter + 1 \in Nat /\ bodies \in Nat
      /\ bodies + 1 \in Nat /\ setup' = setup /\ session.since \in Nat /\ session.version \in Nat
  <2>1. /\ session \in SessionType /\ msgs \in Seq(Message) /\ turn \in Nat /\ session.msgCounter \in Nat
        /\ bodies \in Nat /\ setup' = setup /\ session.since \in Nat /\ session.version \in Nat
    BY SessionFields, SetupStays DEF Types
  <2> QED
    BY <2>1
<1>1. CASE ChatStart
  <2> DEFINE m == UserInput(session.msgCounter + 1, turn + 1, bodies + 1)
             longer == Append(msgs, m)
  <2>1. m \in Message /\ m.str /\ m.role = "user" /\ m.turn = turn + 1
    <3>1. m.str /\ m.role = "user" /\ m.turn = turn + 1
      BY DEF UserInput
    <3>2. turn + 1 \in Int
      BY <1>0
    <3>3. m \in Message
      BY <1>0, <3>2, NewMessages
    <3> QED
      BY <3>1, <3>3
  <2>2. session' = [session EXCEPT !.userTurn = turn + 1, !.msgCounter = session.msgCounter + 1,
                                   !.messages = longer]
    BY <1>1 DEF ChatStart
  <2> HIDE DEF m
  <2>3. /\ Len(longer) = Len(msgs) + 1 /\ Len(msgs) \in Nat /\ DOMAIN longer = 1..Len(msgs) + 1
        /\ longer[Len(msgs) + 1] = m
    BY <1>0, <2>1
  <2> HIDE DEF longer
  <2>4. session'.messages = longer /\ session'.userTurn = turn + 1
    BY <1>0, <2>2 DEF SessionType
  <2> DEFINE p == Len(msgs) + 1
  <2>5. p \in DOMAIN longer /\ \A i \in p..Len(longer) : i = p
    BY <2>3
  <2>6. Sent(longer, turn + 1)
    BY <2>1, <2>3, <2>5 DEF Sent
  <2> QED
    BY <2>4, <2>6 DEF SentInv
<1>2. CASE RunStart
  BY <1>2 DEF RunStart, SentInv
\* The message and the turn stay.
<1>3. ASSUME session'.messages = msgs, session'.userTurn = turn, entry' = entry, Running' => Running
      PROVE  SentInv'
  BY <1>0, <1>3 DEF SentInv
<1>4. CASE CheckCompress \/ SaveWritten
  <2>1. next \in {"idle", "check", "finish"}
    BY DEF Types
  <2>2. Running' => Running
    BY <1>4, <2>1 DEF CheckCompress, SaveWritten, Running, Awaiting
  <2>3. session' = session /\ entry' = entry
    BY <1>4 DEF CheckCompress, SaveWritten
  <2> QED
    BY <1>3, <2>2, <2>3
<1>5. CASE StrategyRefused
  BY <1>3, <1>5 DEF StrategyRefused, Compressed, Running, Awaiting
<1>6. CASE NothingToCompress
  <2>1. session' = [session EXCEPT !.since = 0] /\ entry' = entry /\ pc = "compress"
    BY <1>6 DEF NothingToCompress, Compressed
  <2>2. session'.messages = msgs /\ session'.userTurn = turn
    BY <1>0, <2>1 DEF SessionType
  <2> QED
    BY <1>3, <2>1, <2>2 DEF Running, Awaiting
<1>7. CASE Snapshot
  <2>1. session' = [session EXCEPT !.version = Bump(@)] /\ entry' = entry /\ pc = "request"
    BY <1>7 DEF Snapshot
  <2>2. session'.messages = msgs /\ session'.userTurn = turn
    BY <1>0, <2>1 DEF SessionType
  <2> QED
    BY <1>3, <2>1, <2>2 DEF Running, Awaiting
<1>8. CASE StrategyApplied
  <2>1. PICK members \in MemberChoices(Ids(split.compress)) :
          session' = [WithBatch(session, members) EXCEPT
                        !.messages = split.keep,
                        !.bucket = IF setup.store = "bucket" THEN PutMany(@, split.compress) ELSE @,
                        !.since = 0]
    BY <1>8 DEF StrategyApplied, Compressed
  <2>2. split.compress # <<>> /\ pc = "compress" /\ entry' = entry
    BY <1>8 DEF StrategyApplied, Compressed
  <2> HIDE DEF split
  <2>3. session'.messages = split.keep /\ session'.userTurn = turn
    BY <1>0, <2>1 DEF SessionType, WithBatch
  <2>4. SentInv /\ entry = "chat" /\ setup.compressor = "strategy" => Sent(msgs, turn)
    BY <2>2 DEF SentInv, Running, Awaiting
  <2> QED
    BY <1>0, <2>2, <2>3, <2>4, SplitSent DEF SentInv, split
<1>9. CASE CompressLegacy
  BY <1>0, <1>9 DEF CompressLegacy, SentInv
<1>10. CASE ToolRound
  <2>1. PICK new \in Seq(Message) :
          /\ \A i \in DOMAIN new : new[i].turn = MsgTurn
          /\ session'.messages = msgs \o new /\ session'.userTurn = turn
    BY <1>10, RoundMessages
  <2>2. pc = "request" /\ entry' = entry
    BY <1>10 DEF ToolRound
  <2> SUFFICES ASSUME entry = "chat", setup.compressor = "strategy"
               PROVE  Sent(session'.messages, session'.userTurn)
    BY <1>0, <2>2 DEF SentInv
  <2>3. Sent(msgs, turn) /\ MsgTurn = turn
    BY <2>2 DEF SentInv, Running, Awaiting, MsgTurn
  <2> QED
    BY <1>0, <2>1, <2>3, SentGrows
\* The call has left its loop.
<1>11. CASE ~Running'
  BY <1>11 DEF SentInv
<1>12. CASE Abort \/ StrategyStoreFails \/ Unanswered \/ EndTurn \/ CutBatch \/ SaveFails \/ Finish
            \/ Crash \/ Resume
  <2>1. ~Running'
    BY <1>12 DEF Abort, StrategyStoreFails, Unanswered, EndTurn, CutBatch, SaveFails, Finish, Crash,
       Resume, SaveThen, Running, Awaiting
  <2> QED
    BY <1>11, <2>1
<1> QED
  BY <1>1, <1>2, <1>4, <1>5, <1>6, <1>7, <1>8, <1>9, <1>10, <1>12 DEF Next, Loop

\* The window, of the session and of what would be resumed, holds its pairs whole.
WholeInv ==
  /\ Wholesome(session.messages, bodies) /\ Wholesome(disk.saved.messages, bodies)

LEMMA WholeNext ==
  ASSUME Core, WholeInv, Next
  PROVE  WholeInv'
<1> DEFINE msgs == session.messages
           split == Split(msgs)
<1>0. Types /\ Step /\ msgs \in Seq(Message) /\ bodies \in Nat
  BY NextStep, SessionFields DEF Core, Types
<1>1. bodies' \in Nat /\ bodies <= bodies'
  <2>1. \A new : Grows(new) => bodies' = bodies + Len(new) /\ Len(new) \in {1, 2}
    BY DEF Grows, Fresh
  <2>2. bodies' = bodies \/ \E new : Grows(new)
    BY <1>0, SavedStep DEF Step, Quiet, Batched, Cut, Crash, Resume
  <2> QED
    BY <1>0, <2>1, <2>2
<1>2. ASSUME NEW held, Wholesome(held, bodies) PROVE Wholesome(held, bodies')
  <2>1. (-bodies)..bodies \subseteq (-bodies')..bodies'
    BY <1>0, <1>1, NamesGrow
  <2> QED
    BY <1>2, <2>1 DEF Wholesome
<1>3. NewSession.messages = <<>> /\ Wholesome(<<>>, bodies')
  BY NewSessionType DEF Wholesome, PairsIntact
<1>4. Wholesome(disk'.saved.messages, bodies')
  <2>1. CASE disk' = disk
    BY <1>2, <2>1 DEF WholeInv
  <2>2. CASE disk' = Torn
    BY <1>3, <2>2 DEF Torn
  <2>3. CASE SaveWritten
    BY <1>0, <1>2, <2>3, SavedStep DEF WholeInv
  <2> QED
    BY <1>0, <2>1, <2>2, <2>3, DiskNext DEF Core
<1>5. Wholesome(session'.messages, bodies')
  <2>0. Wholesome(msgs, bodies)
    BY DEF WholeInv
  <2>1. CASE session'.messages = msgs
    BY <1>2, <2>0, <2>1
  <2>2. ASSUME NEW new, Grows(new) PROVE Wholesome(session'.messages, bodies')
    <3>1. Fresh(new) /\ session'.messages = msgs \o new /\ bodies' = bodies + Len(new)
      BY <2>2 DEF Grows
    <3>2. bodies \in Nat
      BY <1>0 DEF Core, Types
    <3> DEFINE C == new[1].uses
    <3>3. Round(new, C) /\ Len(new) \in {1, 2} /\ C \in {{}, {bodies + 1}, {-(bodies + 1)}}
      <4>1. CASE Len(new) = 1
        <5>1. \A c \in C : ~(c >= 0)
          BY <3>1, <3>2, <4>1 DEF Fresh
        <5> QED
          BY <3>1, <4>1, <5>1 DEF Fresh, Round, Ran
      <4>2. CASE Len(new) = 2
        BY <3>1, <4>2 DEF Fresh, Round
      <4> QED
        BY <3>1, <4>1, <4>2 DEF Fresh
    <3> HIDE DEF C
    <3>4. /\ bodies + Len(new) \in Nat /\ bodies <= bodies + Len(new)
          /\ C \in SUBSET Unused(bodies, bodies + Len(new))
      BY <3>2, <3>3, NamesUnused
    <3> QED
      BY <1>0, <2>0, <3>1, <3>2, <3>3, <3>4, WholesomeGrows
  <2>3. ASSUME NEW members, Batched(members) PROVE Wholesome(session'.messages, bodies')
    <3>1. split.compress # <<>> /\ session'.messages \in {msgs, split.keep}
      BY <2>3 DEF Batched
    <3>2. Wholesome(split.keep, bodies)
      BY <1>0, <2>0, <3>1, SplitWholesome
    <3> HIDE DEF split
    <3> QED
      BY <1>2, <2>0, <3>1, <3>2
  <2>4. CASE Cut
    <3>1. Len(msgs) >= 3 /\ session'.messages \in {TruncateOldest(msgs), Summarize(msgs)}
      BY <2>4 DEF Cut
    <3> QED
      BY <1>0, <1>2, <2>0, <3>1, LegacyCut
  <2>5. CASE Crash
    BY <1>3, <2>5 DEF Crash
  <2>6. CASE Resume
    BY <1>2, <2>6 DEF Resume, WholeInv
  <2> QED
    BY <1>0, <2>1, <2>2, <2>3, <2>4, <2>5, <2>6, SavedStep DEF Step, Quiet
<1> QED
  BY <1>4, <1>5 DEF WholeInv

\* Whatever was compressed, aborted, denied or resumed before, a request that goes to the
\* provider holds every tool_use that ran with its tool_result right behind it, no other
\* result, and with a strategy the message the user has just sent. Unanswered calls are those
\* of answers that ended their turn. The cuts part no pair: the split falls between turns and
\* a pair has one turn, the legacy repair keeps or drops both halves; what the user has just
\* sent opens the last turn, which is always kept.
THEOREM RequestsAreWhole == Spec => []RequestIsWhole
<1>1. Init => WholeInv /\ SentInv
  <2> SUFFICES ASSUME Init PROVE WholeInv /\ SentInv
    OBVIOUS
  <2>1. session = NewSession /\ disk.saved = NewSession /\ pc = "idle"
    BY DEF Init, NoFile
  <2> QED
    BY <2>1, NewSessionType DEF WholeInv, Wholesome, PairsIntact, SentInv, Running, Awaiting
<1>2. WholeInv /\ SentInv /\ Core /\ [Next]_vars => WholeInv' /\ SentInv'
  <2>1. WholeInv /\ SentInv /\ UNCHANGED vars => WholeInv' /\ SentInv'
    BY DEF WholeInv, SentInv, Running, vars
  <2> QED
    BY <2>1, WholeNext, SentNext DEF Core
<1>3. WholeInv /\ SentInv /\ Core => RequestIsWhole
  <2>1. WholeInv => PairsIntact(session.messages)
    BY DEF WholeInv, Wholesome
  <2>2. Core /\ Sent(session.messages, session.userTurn) => UserSent(session.userTurn)
    <3> SUFFICES ASSUME Core, Sent(session.messages, session.userTurn)
                 PROVE  UserSent(session.userTurn)
      OBVIOUS
    <3>1. PICK p \in DOMAIN session.messages :
            /\ session.messages[p].str /\ session.messages[p].role = "user"
            /\ \A i \in p..Len(session.messages) : session.messages[i].turn = session.userTurn
      BY DEF Sent
    <3>2. p \in p..Len(session.messages)
      BY SessionFields, SeqFacts, SMTT(20) DEF Core
    <3> QED
      BY <3>1, <3>2 DEF UserSent
  <2>3. pc = "request" => Running
    BY DEF Running, Awaiting
  <2> QED
    BY <2>1, <2>2, <2>3 DEF SentInv, RequestIsWhole
<1> QED
  BY <1>1, <1>2, <1>3, CoreHolds, PTL DEF Spec

-----------------------------------------------------------------------------
(* The conversation as one log.                                            *)

\* Where every message has a turn, the split cuts the list in two.
LEMMA SplitWhole ==
  ASSUME NEW msgs \in Seq(Message), Stamped(msgs), Split(msgs).compress # <<>>
  PROVE  /\ Split(msgs).compress \in Seq(Message) /\ Split(msgs).keep \in Seq(Message)
         /\ Split(msgs).compress \o Split(msgs).keep = msgs
         /\ Stamped(Split(msgs).keep)
<1> DEFINE n == SplitIndex(msgs)
           L == Len(msgs)
           front == Split(msgs).compress
           back == Split(msgs).keep
           all == front \o back
<1>1. /\ front = Among(msgs, Older(msgs)) /\ back = Among(msgs, DOMAIN msgs \ Older(msgs))
      /\ front \in Seq(Message) /\ back \in Seq(Message) /\ n \in 0..L
      /\ L \in Nat /\ DOMAIN msgs = 1..L
  BY SplitParts, SplitIndexIs, SeqFacts
<1> HIDE DEF n, front, back
<1>2. Older(msgs) = 1..n
  <2>1. \A i \in 1..n : i \in DOMAIN msgs
    BY <1>1
  <2> QED
    BY <2>1 DEF Older, Stamped, n
<1>3. DOMAIN msgs \ Older(msgs) = n + 1..L
  BY <1>1, <1>2
<1>4. /\ Len(front) = n /\ \A i \in 1..n : front[i] = msgs[i]
      /\ Len(back) = L - n /\ \A i \in 1..L - n : back[i] = msgs[n + i]
  <2>1. front = Among(msgs, 1..n) /\ back = Among(msgs, n + 1..Len(msgs)) /\ n \in 0..Len(msgs)
    BY <1>1, <1>2, <1>3
  <2>2. Len(front) = n /\ \A i \in 1..n : front[i] = msgs[i]
    BY <2>1, SelectedFront
  <2>3. Len(back) = L - n /\ \A i \in 1..L - n : back[i] = msgs[n + i]
    BY <2>1, SelectedBack
  <2> QED
    BY <2>2, <2>3
<1> HIDE DEF L
<1>5. /\ n \in Nat /\ L - n \in Nat /\ n + (L - n) = L
      /\ \A i \in 1..L : ~(i <= n) => i - n \in 1..L - n /\ n + (i - n) = i
      /\ \A i \in 1..L : i <= n => i \in 1..n
  BY <1>1
<1>6. all \in Seq(Message) /\ Len(all) = L /\ \A i \in 1..L : all[i] = IF i <= n THEN front[i] ELSE back[i - n]
  <2>1. all \in Seq(Message) /\ Len(all) = n + (L - n)
        /\ \A i \in 1..n + (L - n) : all[i] = IF i <= n THEN front[i] ELSE back[i - n]
    <3> DEFINE m == L - n
    <3>1. Len(front) = n /\ Len(back) = m /\ front \in Seq(Message) /\ back \in Seq(Message)
      BY <1>1, <1>4
    <3> HIDE DEF m
    <3> QED
      BY <3>1, Joined DEF m
  <2> HIDE DEF all
  <2> QED
    BY <1>5, <2>1
<1> HIDE DEF all
<1>7. ASSUME NEW i \in 1..L PROVE all[i] = msgs[i]
  <2>1. CASE i <= n
    BY <1>4, <1>5, <1>6, <2>1
  <2>2. CASE ~(i <= n)
    <3>1. i - n \in 1..L - n /\ n + (i - n) = i
      BY <1>5, <2>2
    <3>2. all[i] = back[i - n] /\ back[i - n] = msgs[n + (i - n)]
      BY <1>4, <1>6, <2>2, <3>1
    <3> QED
      BY <3>1, <3>2
  <2> QED
    BY <2>1, <2>2
<1>8. all = msgs
  <2>1. Len(all) = Len(msgs) /\ \A i \in 1..Len(all) : all[i] = msgs[i]
    BY <1>6, <1>7 DEF L
  <2> QED
    BY <1>6, <2>1, SeqEqual
<1>9. Stamped(back)
  <2>1. DOMAIN back = 1..L - n
    BY <1>1, <1>4, SeqFacts
  <2>2. \A i \in 1..L - n : n + i \in DOMAIN msgs
    BY <1>1, <1>5
  <2> QED
    BY <1>4, <2>1, <2>2 DEF Stamped
<1> QED
  BY <1>1, <1>8, <1>9 DEF all, front, back

\* With a strategy and chats only, every message of the window has a turn.
StampedInv ==
  setup.compressor = "strategy" /\ setup.entries = {"chat"} =>
    Stamped(session.messages) /\ Stamped(disk.saved.messages)

LEMMA StampedNext ==
  ASSUME Core, StampedInv, Next
  PROVE  StampedInv'
<1> DEFINE msgs == session.messages
           split == Split(msgs)
<1>0. /\ Types /\ Step /\ setup' = setup /\ msgs \in Seq(Message) /\ session \in SessionType
      /\ bodies \in Nat /\ session.userTurn \in Nat /\ session.msgCounter \in Nat
  BY NextStep, SetupStays, SessionFields DEF Core, Types
<1> SUFFICES ASSUME setup.compressor = "strategy", setup.entries = {"chat"},
                    Stamped(msgs), Stamped(disk.saved.messages)
             PROVE  Stamped(session'.messages) /\ Stamped(disk'.saved.messages)
  BY <1>0 DEF StampedInv
<1>1. NewSession.messages = <<>> /\ Stamped(<<>>)
  BY NewSessionType DEF Stamped
<1>2. Stamped(disk'.saved.messages)
  BY <1>0, <1>1, DiskNext, SavedStep DEF Torn
<1> SUFFICES Stamped(session'.messages)
  BY <1>2
<1>3. NoTurn \notin Nat /\ MsgTurn \in Nat /\ session.userTurn + 1 \in Nat
  <2>1. turnIdx \in Nat
    BY <1>0, SetupType DEF Types
  <2> QED
    BY <1>0, <2>1 DEF NoTurn, MsgTurn
<1>4. ASSUME NEW new \in Seq(Message), \A i \in DOMAIN new : new[i].turn \in Nat,
             session'.messages = msgs \o new
      PROVE  Stamped(session'.messages)
  <2>1. /\ \A i \in DOMAIN msgs : (msgs \o new)[i] = msgs[i]
        /\ \A j \in DOMAIN new : (msgs \o new)[Len(msgs) + j] = new[j]
        /\ \A k \in DOMAIN (msgs \o new) : k \in DOMAIN msgs \/ \E j \in DOMAIN new : k = Len(msgs) + j
    <3>1. msgs \in Seq(Message)
      BY <1>0
    <3> HIDE DEF msgs
    <3> QED
      BY <3>1, JoinedParts
  <2> DEFINE all == msgs \o new
  <2> HIDE DEF all
  <2>2. ASSUME NEW k \in DOMAIN all PROVE all[k].turn # NoTurn
    <3>1. k \in DOMAIN msgs \/ \E j \in DOMAIN new : k = Len(msgs) + j
      BY <2>1 DEF all
    <3>2. CASE k \in DOMAIN msgs
      <4>1. all[k] = msgs[k]
        BY <2>1, <3>2 DEF all
      <4> QED
        BY <3>2, <4>1 DEF Stamped
    <3>3. ASSUME NEW j \in DOMAIN new, k = Len(msgs) + j PROVE all[k].turn # NoTurn
      <4>1. all[k] = new[j]
        BY <2>1, <3>3 DEF all
      <4> QED
        BY <1>3, <1>4, <4>1
    <3> QED
      BY <3>1, <3>2, <3>3
  <2> QED
    BY <1>4, <2>2 DEF Stamped, all
<1>5. ASSUME NEW m \in Message, m.turn \in Nat, session'.messages = Append(msgs, m)
      PROVE  Stamped(session'.messages)
  <2>1. Append(msgs, m) = msgs \o <<m>> /\ <<m>> \in Seq(Message)
    BY <1>0
  <2>2. \A i \in DOMAIN <<m>> : <<m>>[i].turn \in Nat
    BY <1>5
  <2> QED
    BY <1>4, <1>5, <2>1, <2>2
<1>6. CASE ChatStart
  <2> DEFINE m == UserInput(session.msgCounter + 1, session.userTurn + 1, bodies + 1)
  <2>1. m \in Message /\ m.turn \in Nat
    <3>1. session.msgCounter + 1 \in Nat /\ session.userTurn + 1 \in Int /\ bodies + 1 \in Nat
      BY <1>0
    <3>2. m \in Message
      BY <3>1, NewMessages
    <3> QED
      BY <1>3, <3>2 DEF UserInput
  <2>2. session' = [session EXCEPT !.userTurn = @ + 1, !.msgCounter = @ + 1,
                                   !.messages = Append(@, m)]
    BY <1>6 DEF ChatStart
  <2> HIDE DEF m
  <2>3. session'.messages = Append(msgs, m)
    BY <1>0, <2>2 DEF SessionType
  <2> QED
    BY <1>5, <2>1, <2>3
<1>7. CASE EndTurn
  <2>0. PICK text \in BOOLEAN, left \in {{}, {-(bodies + 1)}} :
          session' = [session EXCEPT !.msgCounter = @ + 1, !.recalled = {},
            !.messages = Append(@, Reply(session.msgCounter + 1, MsgTurn, text, left, bodies + 1))]
    BY <1>7 DEF EndTurn
  <2> DEFINE m == Reply(session.msgCounter + 1, MsgTurn, text, left, bodies + 1)
  <2>1. m \in Message /\ m.turn \in Nat
    <3>1. session.msgCounter + 1 \in Nat /\ MsgTurn \in Int /\ bodies + 1 \in Nat
          /\ left \in SUBSET Int
      BY <1>0, <1>3
    <3>2. m \in Message
      BY <3>1, NewMessages
    <3> QED
      BY <1>3, <3>2 DEF Reply
  <2>2. session' = [session EXCEPT !.msgCounter = @ + 1, !.recalled = {}, !.messages = Append(@, m)]
    BY <2>0
  <2> HIDE DEF m
  <2>3. session'.messages = Append(msgs, m)
    BY <1>0, <2>2 DEF SessionType
  <2> QED
    BY <1>5, <2>1, <2>3
<1>8. CASE ToolRound
  <2>1. PICK new \in Seq(Message) :
          (\A i \in DOMAIN new : new[i].turn = MsgTurn) /\ session'.messages = msgs \o new
    BY <1>0, <1>8, RoundMessages
  <2> QED
    BY <1>3, <1>4, <2>1
<1>9. CASE Resume \/ Crash \/ SaveWritten
  BY <1>1, <1>9 DEF Resume, Crash, SaveWritten
<1>10. CASE Abort \/ CheckCompress \/ StrategyRefused \/ NothingToCompress \/ Unanswered
            \/ Snapshot \/ CutBatch \/ SaveFails \/ Finish
  BY <1>0, <1>10, QuietStep DEF Quiet
<1>11. CASE StrategyStoreFails
  <2>1. PICK members : session' = WithBatch(session, members)
    BY <1>11 DEF StrategyStoreFails
  <2>2. session'.messages = msgs
    BY <1>0, <2>1 DEF WithBatch, SessionType
  <2> QED
    BY <2>2
<1>12. CASE StrategyApplied
  <2>1. PICK members :
          session' = [WithBatch(session, members) EXCEPT
                        !.messages = split.keep,
                        !.bucket = IF setup.store = "bucket" THEN PutMany(@, split.compress) ELSE @,
                        !.since = 0]
    BY <1>12 DEF StrategyApplied, Compressed
  <2>2. split.compress # <<>>
    BY <1>12 DEF StrategyApplied
  <2> HIDE DEF split
  <2>3. session'.messages = split.keep
    BY <1>0, <2>1 DEF SessionType, WithBatch
  <2> QED
    BY <1>0, <2>2, <2>3, SplitWhole DEF split
<1>13. ~RunStart /\ ~CompressLegacy
  BY DEF RunStart, CompressLegacy
<1> QED
  BY <1>6, <1>7, <1>8, <1>9, <1>10, <1>11, <1>12, <1>13 DEF Next, Loop

LEMMA JoinedBodies ==
  ASSUME NEW a \in Seq(Message), NEW b \in Seq(Message)
  PROVE  Bodies(a \o b) = Bodies(a) \o Bodies(b)
<1> DEFINE n == Len(a)
           m == Len(b)
           ab == a \o b
           left == Bodies(ab)
           fa == Bodies(a)
           fb == Bodies(b)
           right == fa \o fb
<1>1. \A msgs \in Seq(Message) :
        /\ Bodies(msgs) \in Seq(Nat) /\ Len(Bodies(msgs)) = Len(msgs)
        /\ \A i \in 1..Len(msgs) : Bodies(msgs)[i] = msgs[i].body
  <2> TAKE msgs \in Seq(Message)
  <2>1. DOMAIN msgs = 1..Len(msgs) /\ Len(msgs) \in Nat
    BY SeqFacts
  <2>2. \A i \in 1..Len(msgs) : msgs[i].body \in Nat
    BY <2>1, SeqFacts, MessageFields
  <2>3. Bodies(msgs) = [i \in 1..Len(msgs) |-> msgs[i].body]
    BY <2>1 DEF Bodies
  <2> QED
    BY <2>1, <2>2, <2>3
<1>2. n \in Nat /\ m \in Nat
  BY SeqFacts
<1>3. ab \in Seq(Message) /\ Len(ab) = n + m
      /\ \A i \in 1..n + m : ab[i] = IF i <= n THEN a[i] ELSE b[i - n]
  BY Joined
<1>4. fa \in Seq(Nat) /\ fb \in Seq(Nat) /\ Len(fa) = n /\ Len(fb) = m
  BY <1>1
<1> HIDE DEF ab, fa, fb
<1>5. right \in Seq(Nat) /\ Len(right) = n + m
      /\ \A i \in 1..n + m : right[i] = IF i <= n THEN fa[i] ELSE fb[i - n]
  <2> HIDE DEF n, m
  <2> QED
    BY <1>4, Joined
<1>6. left \in Seq(Nat) /\ Len(left) = n + m /\ \A i \in 1..n + m : left[i] = ab[i].body
  BY <1>1, <1>3
<1>7. \A i \in 1..n : fa[i] = a[i].body
  BY <1>1 DEF fa
<1>8. \A i \in 1..m : fb[i] = b[i].body
  BY <1>1 DEF fb
<1> HIDE DEF left, right, n, m
<1>9. ASSUME NEW i \in 1..n + m PROVE left[i] = right[i]
  <2>1. CASE i <= n
    <3>1. i \in 1..n
      BY <1>2, <2>1
    <3> QED
      BY <1>3, <1>5, <1>6, <1>7, <2>1, <3>1
  <2>2. CASE ~(i <= n)
    <3>1. i - n \in 1..m
      BY <1>2, <2>2
    <3> QED
      BY <1>3, <1>5, <1>6, <1>8, <2>2, <3>1
  <2> QED
    BY <2>1, <2>2
<1>10. left = right
  BY <1>5, <1>6, <1>9, SeqEqual
<1> QED
  BY <1>10 DEF left, right, ab, fa, fb

\* New messages are new numbers at the end of the log.
LEMMA LogGrows ==
  ASSUME Core, Next, NEW new, Grows(new)
  PROVE  LogOf(session') = LogOf(session) \o [i \in 1..Len(new) |-> bodies + i]
<1> DEFINE b == session.bucket
           msgs == session.messages
<1>1. b \in Seq(Message) /\ msgs \in Seq(Message) /\ new \in Seq(Message)
  BY SessionFields DEF Core, Grows, Fresh
<1>2. session'.bucket = b /\ session'.messages = msgs \o new
      /\ \A i \in 1..Len(new) : new[i].body = bodies + i
  BY DEF Grows, Fresh
<1> HIDE DEF b, msgs
<1>3. b \o (msgs \o new) = (b \o msgs) \o new /\ b \o msgs \in Seq(Message)
  <2>1. (b \o msgs) \o new = b \o (msgs \o new)
    BY <1>1, ConcatAssociative
  <2>2. b \o msgs \in Seq(Message)
    BY <1>1, ConcatProperties
  <2> QED
    BY <2>1, <2>2
<1>4. Bodies((b \o msgs) \o new) = Bodies(b \o msgs) \o Bodies(new)
  BY <1>1, <1>3, JoinedBodies
<1>5. Bodies(new) = [i \in 1..Len(new) |-> bodies + i]
  BY <1>1, <1>2, SeqFacts DEF Bodies
<1>6. LogOf(session') = Bodies((b \o msgs) \o new)
  BY <1>2, <1>3 DEF LogOf
<1> QED
  BY <1>4, <1>5, <1>6 DEF LogOf, b, msgs

\* What is moved to the bucket stands in front of the window, where it was.
LEMMA LogMoves ==
  ASSUME Core, StampedInv, KeepsLog, Next, NEW members, Batched(members)
  PROVE  LogOf(session') = LogOf(session)
<1> DEFINE msgs == session.messages
           split == Split(msgs)
<1>1. /\ msgs \in Seq(Message) /\ session.bucket \in Seq(Message) /\ Types /\ Frame
      /\ Stamped(msgs) /\ split.compress # <<>> /\ ~IdsReissued /\ SelfContained
  BY SessionFields DEF Core, StampedInv, KeepsLog, Batched, IdsReissued, SelfContained
<1>2. Archive = session.bucket /\ Archive' = session'.bucket
  BY <1>1, ArchiveNext
<1>3. /\ split.compress \in Seq(Message) /\ split.keep \in Seq(Message)
      /\ split.compress \o split.keep = msgs
  BY <1>1, SplitWhole
<1>4. \/ session'.messages = msgs /\ session'.bucket = session.bucket
      \/ session'.messages = split.keep /\ session'.bucket = session.bucket \o split.compress
  BY <1>1, <1>2, MovedAll DEF Core
<1> HIDE DEF split
<1>5. (session.bucket \o split.compress) \o split.keep = session.bucket \o (split.compress \o split.keep)
  <2> DEFINE front == split.compress
             back == split.keep
             held == session.bucket
  <2>1. front \in Seq(Message) /\ back \in Seq(Message) /\ held \in Seq(Message)
    BY <1>1, <1>3
  <2> HIDE DEF front, back, held
  <2>2. (held \o front) \o back = held \o (front \o back)
    BY <2>1, ConcatAssociative
  <2> QED
    BY <2>2 DEF front, back, held
<1> QED
  BY <1>3, <1>4, <1>5 DEF LogOf

\* Every step of the session is a step of the log or leaves it alone.
LEMMA StepKeepsLog ==
  ASSUME Core, StampedInv, Next
  PROVE  [Log!Next]_(Log!logVars)
<1>0. /\ Types /\ Step /\ setup' = setup /\ bodies \in Nat
  BY NextStep, SetupStays DEF Core, Types
<1>1. KeepsLog' <=> KeepsLog
  BY <1>0 DEF KeepsLog
<1>2. CASE ~KeepsLog
  BY <1>1, <1>2 DEF Mapped, Log!logVars
<1>3. CASE KeepsLog
  <2>0. /\ \A x, o : Mapped(x, o) = x
        /\ \A x, o : Mapped(x, o)' = x
    BY <1>1, <1>3 DEF Mapped
  <2>1. LogOf(NewSession) = <<>>
    BY NewSessionType DEF LogOf, Bodies
  <2>2. disk' = Torn => [whole |-> disk' # Torn, log |-> LogOf(disk'.saved)] = [whole |-> FALSE, log |-> <<>>]
    <3> SUFFICES ASSUME disk' = Torn PROVE LogOf(disk'.saved) = <<>>
      OBVIOUS
    <3>1. disk'.saved = NewSession
      BY DEF Torn
    <3> QED
      BY <2>1, <3>1
  <2>3. Crash \/ Resume \/ (pc # "down" /\ pc' # "down")
    BY <1>0 DEF Next, Loop, ChatStart, RunStart, Abort, CheckCompress, StrategyRefused, NothingToCompress,
       StrategyApplied, StrategyStoreFails, CompressLegacy, Compressed, Unanswered, Snapshot, EndTurn,
       ToolRound, CutBatch, SaveWritten, SaveFails, Finish, SaveThen, Types
  <2>4. CASE Crash
    <3>1. pc # "down" /\ pc' = "down" /\ LogOf(session') = <<>> /\ UNCHANGED <<disk, bodies>>
      BY <2>1, <2>4 DEF Crash
    <3> QED
      BY <1>1, <1>3, <3>1 DEF Mapped, Log!Crash, Log!Next
  <2>5. CASE Resume
    <3>1. pc = "down" /\ pc' # "down" /\ disk # Torn /\ session' = disk.saved /\ UNCHANGED <<disk, bodies>>
      BY <2>5 DEF Resume
    <3> QED
      BY <1>1, <1>3, <3>1 DEF Mapped, Log!Resume, Log!Next
  <2> SUFFICES ASSUME pc # "down", pc' # "down", ~Crash, ~Resume PROVE [Log!Next]_(Log!logVars)
    BY <2>3, <2>4, <2>5
  <2>6. ASSUME LogOf(session') = LogOf(session), bodies' = bodies, disk' \in {disk, Torn}
        PROVE  [Log!Next]_(Log!logVars)
    <3>1. CASE disk' = disk
      BY <1>1, <1>3, <2>6, <3>1 DEF Mapped, Log!logVars
    <3>2. CASE disk' = Torn
      BY <1>1, <1>3, <2>2, <2>6, <3>2 DEF Mapped, Log!BeginSave, Log!Writing, Log!Next
    <3> QED
      BY <2>6, <3>1, <3>2
  <2>7. CASE Quiet
    BY <2>6, <2>7 DEF Quiet, LogOf
  <2>8. ASSUME NEW members, Batched(members) PROVE [Log!Next]_(Log!logVars)
    BY <1>3, <2>6, <2>8, LogMoves DEF Batched
  <2>9. ASSUME NEW new, Grows(new) PROVE [Log!Next]_(Log!logVars)
    <3>1. /\ LogOf(session') = LogOf(session) \o [i \in 1..Len(new) |-> bodies + i]
          /\ bodies' = bodies + Len(new) /\ Len(new) \in {1, 2} /\ disk' \in {disk, Torn}
      BY <2>9, LogGrows DEF Grows, Fresh
    <3>2. Log!Extend(Len(new))
      BY <1>1, <1>3, <2>2, <3>1 DEF Mapped, Log!Extend, Log!Writing
    <3> QED
      BY <3>1, <3>2 DEF Log!Next
  <2>10. CASE SaveWritten
    <3>1. /\ disk = Torn /\ disk' # Torn /\ LogOf(disk'.saved) = LogOf(session)
          /\ session' = session /\ bodies' = bodies
      BY <1>0, <2>10, SavedStep DEF Types, SaveWritten, Torn, LogOf
    <3>2. LogOf(disk.saved) = <<>>
      BY <2>1, <3>1 DEF Torn
    <3> QED
      BY <1>1, <1>3, <3>1, <3>2 DEF Mapped, Log!EndSave, Log!Writing, Log!Next
  <2>11. ~Cut
    BY <1>3 DEF Cut, KeepsLog
  <2> QED
    BY <1>0, <2>7, <2>8, <2>9, <2>10, <2>11 DEF Step
<1> QED
  BY <1>2, <1>3

\* With a strategy and the bucket store a session of chats is one growing log: compression is
\* invisible in it, nothing is removed, reordered or repeated, a save makes the whole log
\* durable, and only a crash takes it back, to the durable copy (compress.py, session.py).
THEOREM SessionIsALog == Spec => ImplementsLog
<1>1. Init => StampedInv /\ Log!Init
  <2> SUFFICES ASSUME Init PROVE StampedInv /\ Log!Init
    OBVIOUS
  <2>1. session = NewSession /\ disk = NoFile /\ pc = "idle" /\ bodies = 0
    BY DEF Init
  <2>2. LogOf(NewSession) = <<>>
    BY NewSessionType DEF LogOf, Bodies
  <2>3. disk # Torn /\ disk.saved = NewSession
    BY <2>1 DEF NoFile, Torn
  <2>4. Log!Init
    BY <2>1, <2>2, <2>3 DEF Mapped, Log!Init
  <2>5. StampedInv
    BY <2>1, <2>3, NewSessionType DEF StampedInv, Stamped
  <2> QED
    BY <2>4, <2>5
<1>2. StampedInv /\ Core /\ [Next]_vars => StampedInv'
  <2>1. StampedInv /\ UNCHANGED vars => StampedInv'
    BY DEF StampedInv, Stamped, vars
  <2> QED
    BY <2>1, StampedNext
<1>3. StampedInv /\ Core /\ [Next]_vars => [Log!Next]_(Log!logVars)
  <2>1. UNCHANGED vars => UNCHANGED Log!logVars
    BY DEF vars, Log!logVars, Mapped, KeepsLog, LogOf
  <2> QED
    BY <2>1, StepKeepsLog
<1> QED
  BY <1>1, <1>2, <1>3, CoreHolds, PTL DEF Spec, ImplementsLog, Log!Spec

-----------------------------------------------------------------------------
(* The lists as chat() and run() grow them.                                *)

\* The placeholders part any two messages of the same role.
LEMMA AlternateAlternates ==
  ASSUME NEW msgs \in Seq(Message)
  PROVE  Alternates(Alternate(msgs))
<1> DEFINE n == Len(msgs)
           other(role) == IF role = "assistant" THEN "user" ELSE "assistant"
           twins == {i \in 2..n : msgs[i - 1].role = msgs[i].role}
           spaced == [k \in 1..2 * n |->
                        IF k % 2 = 0 THEN msgs[k \div 2] ELSE Placeholder(other(msgs[(k + 1) \div 2].role))]
           P == {k \in DOMAIN spaced : k % 2 = 0 \/ (k + 1) \div 2 \in twins}
           out == Among(spaced, P)
<1>0. n \in Nat /\ DOMAIN msgs = 1..n /\ \A i \in 1..n : msgs[i].role \in {"user", "assistant"}
  BY SeqFacts, MessageFields
<1>1. Alternate(msgs) = out
  BY DEF Alternate
<1> HIDE DEF n
<1>2. 2 * n \in Nat /\ DOMAIN spaced = 1..2 * n /\ P \in SUBSET (1..2 * n)
  BY <1>0
<1>3. \A i \in 1..n : 2 * i \in P /\ spaced[2 * i] = msgs[i]
  BY <1>0
<1>4. ASSUME NEW i \in 1..n, 2 * i - 1 \in P
      PROVE  i - 1 \in 1..n /\ msgs[i - 1].role = msgs[i].role
             /\ spaced[2 * i - 1].role = other(msgs[i].role)
  <2>1. (2 * i - 1) % 2 # 0 /\ ((2 * i - 1) + 1) \div 2 = i
    BY <1>0
  <2>2. i \in twins
    BY <1>4, <2>1
  <2>3. 2 * i - 1 \in 1..2 * n
    BY <1>2, <1>4
  <2>4. spaced[2 * i - 1] = Placeholder(other(msgs[i].role))
    BY <2>1, <2>3
  <2>5. \A role : Placeholder(role).role = role
    BY DEF Placeholder, SummaryMessage, UserInput
  <2>6. i \in 2..n /\ msgs[i - 1].role = msgs[i].role /\ i - 1 \in 1..n
    BY <1>0, <2>2
  <2> HIDE DEF spaced, other, twins, P
  <2> QED
    BY <2>4, <2>5, <2>6
<1>5. ASSUME NEW i \in 2..n, msgs[i - 1].role = msgs[i].role PROVE 2 * i - 1 \in P
  <2>1. ((2 * i - 1) + 1) \div 2 = i /\ 2 * i - 1 \in 1..2 * n
    BY <1>0
  <2> QED
    BY <1>2, <1>5, <2>1
<1>6. \A p \in P : \E i \in 1..n : p = 2 * i \/ p = 2 * i - 1
  <2> SUFFICES ASSUME NEW p \in P PROVE \E i \in 1..n : p = 2 * i \/ p = 2 * i - 1
    OBVIOUS
  <2>1. p \in 1..2 * n
    BY <1>2
  <2> HIDE DEF P, spaced
  <2>2. (p + 1) \div 2 \in 1..n /\ (p = 2 * ((p + 1) \div 2) \/ p = 2 * ((p + 1) \div 2) - 1)
    BY <1>0, <2>1
  <2> QED
    BY <2>2
<1> HIDE DEF spaced, P, twins
<1>7. /\ Len(out) = Cardinality(P) /\ Cardinality(P) \in Nat
      /\ \A k \in 1..Len(out) : Position(P, k) \in P /\ out[k] = spaced[Position(P, k)]
                                /\ Rank(P, Position(P, k)) = k
      /\ \A k \in P : Rank(P, k) \in 1..Len(out)
      /\ \A k, l \in P : k < l => Rank(P, k) < Rank(P, l)
  <2>1. IsFiniteSet(P) /\ Cardinality(P) \in Nat
    BY <1>2, Ranks
  <2>2. Len(out) = Cardinality(P) /\ \A k \in 1..Cardinality(P) : out[k] = spaced[Position(P, k)]
    BY <2>1 DEF Among
  <2> QED
    BY <1>2, <2>1, <2>2, Positions
<1> HIDE DEF out
<1> SUFFICES ASSUME NEW k \in 1..Len(out) - 1 PROVE out[k].role # out[k + 1].role
  BY <1>1 DEF Alternates
<1>8. k \in 1..Len(out) /\ k + 1 \in 1..Len(out) /\ k \in Nat
  BY <1>7
<1> DEFINE p == Position(P, k)
           q == Position(P, k + 1)
<1>9. /\ p \in P /\ q \in P /\ out[k] = spaced[p] /\ out[k + 1] = spaced[q]
      /\ Rank(P, p) = k /\ Rank(P, q) = k + 1
  BY <1>7, <1>8
<1> HIDE DEF p, q
<1>10. p \in Nat /\ q \in Nat /\ \A j \in P : j \in Nat
  BY <1>2, <1>9
<1>11. p < q
  <2>1. p # q
    BY <1>8, <1>9
  <2>2. ~(q < p)
    <3>1. q < p => k + 1 < k
      BY <1>7, <1>9
    <3> QED
      BY <1>8, <3>1
  <2> QED
    BY <1>10, <2>1, <2>2
<1>12. ASSUME NEW j \in P, p < j PROVE q <= j
  <2>1. k < Rank(P, j) /\ Rank(P, j) \in Nat
    BY <1>7, <1>9, <1>12
  <2>2. j < q => Rank(P, j) < k + 1
    BY <1>7, <1>9
  <2> QED
    BY <1>8, <1>10, <2>1, <2>2
<1>13. \A role \in {"user", "assistant"} : other(role) # role
  OBVIOUS
<1> HIDE DEF other
<1>14. PICK i \in 1..n : p = 2 * i \/ p = 2 * i - 1
  BY <1>6, <1>9
<1>15. CASE p = 2 * i - 1
  <2>1. q <= 2 * i
    <3>1. 2 * i \in P
      BY <1>3, <1>14
    <3>2. p < 2 * i
      BY <1>0, <1>14, <1>15
    <3> QED
      BY <1>12, <3>1, <3>2
  <2>2. q = 2 * i
    BY <1>0, <1>10, <1>11, <1>14, <1>15, <2>1
  <2>3. out[k + 1] = msgs[i] /\ out[k].role = other(msgs[i].role)
    BY <1>3, <1>4, <1>9, <1>14, <1>15, <2>2
  <2> QED
    BY <1>0, <1>13, <1>14, <2>3
<1>16. CASE p = 2 * i
  <2>1. PICK h \in 1..n : q = 2 * h \/ q = 2 * h - 1
    BY <1>6, <1>9
  <2>2. i + 1 \in 1..n /\ i + 1 \in 2..n /\ (i + 1) - 1 = i
    BY <1>0, <1>11, <1>14, <1>16, <2>1
  <2>3. q <= 2 * (i + 1)
    <3>1. 2 * (i + 1) \in P /\ p < 2 * (i + 1)
      BY <1>3, <1>14, <1>16, <2>2
    <3> QED
      BY <1>12, <3>1
  <2>4. q = 2 * (i + 1) \/ q = 2 * (i + 1) - 1
    BY <1>10, <1>11, <1>14, <1>16, <2>3
  <2>5. out[k] = msgs[i]
    BY <1>3, <1>9, <1>14, <1>16
  <2>6. CASE q = 2 * (i + 1) - 1
    <3>1. msgs[i].role = msgs[i + 1].role /\ out[k + 1].role = other(msgs[i + 1].role)
      BY <1>4, <1>9, <2>2, <2>6
    <3> QED
      BY <1>0, <1>13, <2>2, <2>5, <3>1
  <2>7. CASE q = 2 * (i + 1)
    <3>1. 2 * (i + 1) - 1 \notin P
      <4>1. p < 2 * (i + 1) - 1 /\ ~(q <= 2 * (i + 1) - 1)
        BY <1>14, <1>16, <2>7
      <4> QED
        BY <1>12, <4>1
    <3>2. msgs[i].role # msgs[i + 1].role
      BY <1>5, <2>2, <3>1
    <3> QED
      BY <1>3, <1>9, <2>2, <2>5, <2>7, <3>2
  <2> QED
    BY <2>4, <2>6, <2>7
<1> QED
  BY <1>14, <1>15, <1>16

\* The repair of a list alternates.
LEMMA SanitizeAlternates ==
  ASSUME NEW src \in Seq(Message)
  PROVE  Alternates(Sanitize(src))
<1> DEFINE clean == Cleaned(src)
           P == {i \in DOMAIN clean : HasContent(clean[i])}
<1>1. clean \in Seq(Message) /\ P \in SUBSET DOMAIN clean
  BY CleanedIs
<1>2. Among(clean, P) \in Seq(Message)
  BY <1>1, Selected
<1>3. Sanitize(src) = Alternate(Among(clean, P))
  BY DEF Sanitize, Cleaned
<1> QED
  BY <1>2, <1>3, AlternateAlternates

\* Both legacy cuts leave a list that a provider accepts.
LEMMA CutSendable ==
  ASSUME NEW msgs \in Seq(Message), NEW n, Wholesome(msgs, n),
         NEW out \in {TruncateOldest(msgs), Summarize(msgs)}
  PROVE  /\ out \in Seq(Message) /\ Wholesome(out, n)
         /\ Len(msgs) >= 3 => PairsAdjacent(out) /\ Alternates(out)
<1>0. Len(msgs) \in Nat
  BY SeqFacts
<1>1. CASE Len(msgs) >= 3
  <2>1. out \in Seq(Message) /\ Wholesome(out, n) /\ PairsAdjacent(out)
    BY <1>1, LegacyCut DEF Remains
  <2>2. PICK src, at : out = Sanitize(src) /\ Woven(src, msgs, at)
    BY <1>1, TruncateIs, SummarizeIs
  <2>3. Alternates(out)
    BY <2>2, SanitizeAlternates DEF Woven
  <2> QED
    BY <2>1, <2>3
<1>2. CASE ~(Len(msgs) >= 3)
  <2>1. out = msgs
    BY <1>0, <1>2 DEF TruncateOldest, Summarize
  <2> QED
    BY <1>2, <2>1
<1> QED
  BY <1>1, <1>2

\* The inductive invariant: the list is one whose requests are whole, and its calls are
\* numbered no higher than its messages.
ListsInv ==
  /\ list \in Seq(Message) /\ chats \in Nat /\ listTurn \in Nat /\ given \in Nat
  /\ Wholesome(list, given)

LEMMA Lengthened ==
  ASSUME ListsInv, NEW new, NEW C \in SUBSET Unused(given, given + Len(new)), Round(new, C),
         Lengthen(new)
  PROVE  list' \in Seq(Message) /\ given' \in Nat /\ Wholesome(list', given')
<1>1. new \in Seq(Message) /\ Len(new) \in Nat /\ given \in Nat /\ list \in Seq(Message)
  BY DEF Round, ListsInv
<1>2. given + Len(new) \in Nat /\ given <= given + Len(new)
  BY <1>1
<1>3. list \o new \in Seq(Message)
  BY <1>1, ConcatProperties
<1>4. Wholesome(list \o new, given + Len(new))
  BY <1>1, <1>2, WholesomeGrows DEF ListsInv
<1> QED
  BY <1>2, <1>3, <1>4 DEF Lengthen

LEMMA ListsNextInv ==
  ASSUME ListsInv, [ListsNext]_listVars
  PROVE  ListsInv'
<1>0. /\ list \in Seq(Message) /\ listTurn \in Nat /\ given \in Nat /\ Wholesome(list, given)
      /\ given + 1 \in Nat /\ given + 2 \in Nat /\ listTurn + 1 \in Nat
      /\ chats \in Nat /\ chats + 1 \in Nat /\ chats + 1 \in Int
      /\ listTurn \in Int /\ NoTurn \in Int /\ NoId \in Nat /\ 1 \in Nat
  BY DEF ListsInv, NoTurn, NoId
<1>1. ASSUME NEW m \in Message, m.uses = {}, m.results = {}, Lengthen(<<m>>)
      PROVE  list' \in Seq(Message) /\ given' \in Nat /\ Wholesome(list', given')
  <2>1. Round(<<m>>, {})
    BY <1>1 DEF Round, Ran
  <2> QED
    BY <1>1, <2>1, Lengthened
<1>7. \A id, t, b : UserInput(id, t, b).uses = {} /\ UserInput(id, t, b).results = {}
  BY DEF UserInput
<1>2. CASE AddUser
  <2>1. UserInput(given + 1, chats + 1, given + 1) \in Message
    BY <1>0, NewMessages
  <2>2. listTurn' \in Nat /\ chats' \in Nat
    BY <1>0, <1>2 DEF AddUser
  <2>3. list' \in Seq(Message) /\ given' \in Nat /\ Wholesome(list', given')
    BY <1>1, <1>2, <1>7, <2>1 DEF AddUser
  <2> QED
    BY <2>2, <2>3 DEF ListsInv
<1>8. CASE AddOpening
  <2>1. UserInput(NoId, NoTurn, 1) \in Message
    BY <1>0, NewMessages
  <2>2. listTurn' \in Nat /\ chats' \in Nat
    BY <1>0, <1>8 DEF AddOpening
  <2>3. list' \in Seq(Message) /\ given' \in Nat /\ Wholesome(list', given')
    BY <1>1, <1>7, <1>8, <2>1 DEF AddOpening
  <2> QED
    BY <2>2, <2>3 DEF ListsInv
<1>3. CASE AddReply
  <2>1. PICK text \in BOOLEAN, C \in {{}, {-(given + 1)}} :
          Lengthen(<<Reply(given + 1, listTurn, text, C, given + 1)>>)
    BY <1>3 DEF AddReply
  <2> DEFINE m == Reply(given + 1, listTurn, text, C, given + 1)
  <2>2. C \in SUBSET Int /\ C \in SUBSET Unused(given, given + 1) /\ \A call \in C : ~(call >= 0)
    BY <1>0 DEF Unused
  <2>3. m \in Message
    BY <1>0, <2>2, NewMessages
  <2>4. m.uses = C /\ m.results = {} /\ m.role = "assistant" /\ ~m.str
    BY DEF Reply
  <2> HIDE DEF m
  <2>5. Round(<<m>>, C) /\ Len(<<m>>) = 1
    <3>1. Ran(m) = {}
      BY <2>2, <2>4 DEF Ran
    <3>2. <<m>> \in Seq(Message) /\ Len(<<m>>) = 1 /\ <<m>>[1] = m
      BY <2>3
    <3> QED
      BY <2>4, <3>1, <3>2 DEF Round
  <2>6. Lengthen(<<m>>)
    BY <2>1 DEF m
  <2>7. list' \in Seq(Message) /\ given' \in Nat /\ Wholesome(list', given')
    BY <2>2, <2>5, <2>6, Lengthened
  <2>8. listTurn' \in Nat /\ chats' \in Nat
    BY <1>0, <1>3 DEF AddReply
  <2> QED
    BY <2>7, <2>8 DEF ListsInv
<1>4. CASE AddToolRound
  <2>1. PICK text \in BOOLEAN, C \in {{given + 1}, {given + 1, given + 2}} :
          Lengthen(<<Reply(given + 1, listTurn, text, C, given + 1),
                     ToolResults(given + 2, listTurn, C, given + 2)>>)
    BY <1>4 DEF AddToolRound
  <2> DEFINE call == Reply(given + 1, listTurn, text, C, given + 1)
             result == ToolResults(given + 2, listTurn, C, given + 2)
  <2>2. C \in SUBSET Nat /\ C \in SUBSET Int /\ C \in SUBSET Unused(given, given + 2)
    BY <1>0 DEF Unused
  <2>3. call \in Message /\ result \in Message
    BY <1>0, <2>2, NewMessages
  <2>4. /\ call.uses = C /\ call.results = {} /\ call.role = "assistant" /\ ~call.str
        /\ result.results = C /\ result.uses = {} /\ result.role = "user" /\ ~result.str
        /\ result.turn = call.turn
    BY DEF Reply, ToolResults
  <2> HIDE DEF call, result
  <2>5. Round(<<call, result>>, C) /\ Len(<<call, result>>) = 2
    BY <2>3, <2>4 DEF Round
  <2>6. Lengthen(<<call, result>>)
    BY <2>1 DEF call, result
  <2>7. list' \in Seq(Message) /\ given' \in Nat /\ Wholesome(list', given')
    BY <2>2, <2>5, <2>6, Lengthened
  <2>8. listTurn' \in Nat /\ chats' \in Nat
    BY <1>0, <1>4 DEF AddToolRound
  <2> QED
    BY <2>7, <2>8 DEF ListsInv
<1>5. CASE Shorten
  BY <1>0, <1>5, CutSendable DEF Shorten, ListsInv
<1>6. CASE Receive \/ UNCHANGED listVars
  BY <1>6 DEF Receive, ListsInv, listVars
<1> QED
  BY <1>2, <1>3, <1>4, <1>5, <1>6, <1>8 DEF ListsNext

LEMMA ListsInvHolds == ListsSpec => []ListsInv
<1>1. ListsInit => ListsInv
  <2> SUFFICES ASSUME ListsInit PROVE ListsInv
    OBVIOUS
  <2>1. list = <<>> /\ listTurn = 0 /\ given = 0 /\ chats = 0
    BY DEF ListsInit
  <2>2. list \in Seq(Message) /\ DOMAIN list = {}
    BY <2>1
  <2> QED
    BY <2>1, <2>2 DEF ListsInv, Wholesome, PairsIntact
<1> QED
  BY <1>1, ListsNextInv, PTL DEF ListsSpec

\* Whatever chat() and run() have written and cut before, a legacy cut leaves a request
\* the provider accepts: pairs complete and adjacent, no call of an end_turn answer left,
\* roles that alternate, for any length of the conversation and of its kept end.
THEOREM CutsStaySendable == ListsSpec => []CutsAreSendable
<1>1. ListsInv => CutsAreSendable
  BY CutSendable DEF ListsInv, CutsAreSendable
<1> QED
  BY <1>1, ListsInvHolds, PTL

\* A split that takes nothing out keeps the list.
LEMMA SplitNothing ==
  ASSUME NEW msgs \in Seq(Message), Split(msgs).compress = <<>>
  PROVE  Split(msgs).keep = msgs
<1>1. CASE Len(UserTurns(msgs)) <= KeepTurns
  BY <1>1 DEF Split
<1>2. CASE ~(Len(UserTurns(msgs)) <= KeepTurns)
  <2> DEFINE P == Older(msgs)
             L == Len(msgs)
  <2>0. DOMAIN msgs = 1..L /\ L \in Nat
    BY SeqFacts
  <2>1. Split(msgs).compress = Among(msgs, P) /\ Split(msgs).keep = Among(msgs, DOMAIN msgs \ P)
    BY <1>2 DEF Split, Older
  <2>2. P \in SUBSET DOMAIN msgs
    BY <2>0, SplitIndexIs DEF Older
  <2> HIDE DEF P, L
  <2>3. P = {}
    <3>1. IsFiniteSet(P) /\ Cardinality(P) = Len(Among(msgs, P))
      BY <2>0, <2>2, Ranks, Selected
    <3> QED
      BY <2>1, <3>1, FS_EmptySet
  <2>4. DOMAIN msgs \ P = 1..L /\ L \in 0..Len(msgs)
    BY <2>0, <2>3 DEF L
  <2>5. Len(Among(msgs, 1..L)) = L /\ \A i \in 1..L : Among(msgs, 1..L)[i] = msgs[i]
    BY <2>4, SelectedFront
  <2>6. Among(msgs, 1..L) \in Seq(Message)
    BY <2>0, Selected
  <2>7. Among(msgs, 1..L) = msgs
    BY <2>0, <2>5, <2>6
  <2> QED
    BY <2>1, <2>4, <2>7
<1> QED
  BY <1>1, <1>2

\* What the split promises of a list whose requests are whole.
LEMMA SplitSound ==
  ASSUME NEW msgs \in Seq(Message), NEW n, Wholesome(msgs, n)
  PROVE  LET s == Split(msgs)
             all == s.compress \o s.keep
         IN  /\ Len(all) = Len(msgs) /\ ToSet(all) = ToSet(msgs)
             /\ Stamped(msgs) => all = msgs
             /\ Stamped(s.compress)
             /\ Wholesome(s.compress, n) /\ Wholesome(s.keep, n)
<1> DEFINE front == Split(msgs).compress
           back == Split(msgs).keep
<1>0. DOMAIN msgs = 1..Len(msgs) /\ Len(msgs) \in Nat
  BY SeqFacts
<1>1. CASE front = <<>>
  <2>1. back = msgs
    BY <1>1, SplitNothing
  <2> HIDE DEF front, back
  <2>2. front \o back = msgs
    BY <1>1, <2>1, ConcatEmptySeq
  <2>3. Stamped(front) /\ Wholesome(front, n)
    BY <1>1 DEF Stamped, Wholesome, PairsIntact
  <2> QED
    BY <2>1, <2>2, <2>3 DEF front, back
<1>2. CASE front # <<>>
  <2> DEFINE P == Older(msgs)
             Q == DOMAIN msgs \ Older(msgs)
  <2>1. /\ front = Among(msgs, P) /\ back = Among(msgs, Q)
        /\ P \in SUBSET DOMAIN msgs /\ Q \in SUBSET DOMAIN msgs
        /\ front \in Seq(Message) /\ back \in Seq(Message)
    BY <1>2, SplitParts
  <2>2. Wholesome(front, n) /\ Wholesome(back, n)
    BY <1>2, SplitWholesome
  <2>3. Stamped(msgs) => front \o back = msgs
    BY <1>2, SplitWhole
  <2>4. \A m \in ToSet(msgs) : m \in ToSet(front) \/ m \in ToSet(back)
    BY <1>2, SplitElements
  <2>5. \A i \in P : msgs[i].turn # NoTurn
    BY DEF Older
  <2> HIDE DEF front, back
  <2>6. Stamped(front)
    BY <2>1, <2>5, Selected DEF Stamped
  <2>7. Len(front \o back) = Len(msgs)
    <3>1. Len(front) = Cardinality(P) /\ Len(back) = Cardinality(Q)
      BY <2>1, Selected
    <3>2. IsFiniteSet(DOMAIN msgs) /\ Cardinality(DOMAIN msgs) = Len(msgs)
      <4>1. 1 \in Int /\ Len(msgs) \in Int /\ (1 > Len(msgs) => Len(msgs) = 0)
        BY <1>0
      <4> QED
        BY <1>0, <4>1, FS_Interval
    <3>3. DOMAIN msgs \cap P = P
      BY <2>1
    <3>4. Cardinality(Q) = Len(msgs) - Cardinality(P)
      <4> DEFINE D == DOMAIN msgs
      <4>1. Q = D \ P /\ IsFiniteSet(D) /\ Cardinality(D) = Len(msgs) /\ D \cap P = P
        BY <3>2, <3>3
      <4> HIDE DEF P, Q, D
      <4>2. Cardinality(D \ P) = Cardinality(D) - Cardinality(D \cap P)
        BY <4>1, FS_Difference
      <4> QED
        BY <4>1, <4>2
    <3>5. Cardinality(P) \in Nat
      BY <1>0, <2>1, Ranks
    <3>6. Len(front \o back) = Len(front) + Len(back)
      BY <2>1, ConcatProperties
    <3> QED
      BY <1>0, <3>1, <3>4, <3>5, <3>6
  <2>8. ToSet(front \o back) = ToSet(msgs)
    <3>1. \A m : m \in ToSet(front \o back) <=> (m \in ToSet(front) \/ m \in ToSet(back))
      BY <2>1, JoinedElements
    <3>2. \A k \in DOMAIN front : \E i \in DOMAIN msgs : front[k] = msgs[i]
      BY <2>1, Selected
    <3>3. \A k \in DOMAIN back : \E i \in DOMAIN msgs : back[k] = msgs[i]
      BY <2>1, Selected
    <3>4. \A m : m \in ToSet(front) \/ m \in ToSet(back) => m \in ToSet(msgs)
      BY <3>2, <3>3 DEF ToSet
    <3> QED
      BY <2>4, <3>1, <3>4
  <2> QED
    BY <2>2, <2>3, <2>6, <2>7, <2>8 DEF front, back
<1> QED
  BY <1>1, <1>2

\* The split loses, invents and doubles no message and parts no call that ran from its
\* result, also where run() and earlier cuts have left messages without a turn, where the
\* rounds of run() carry turns that later chats use again, and where end_turn answers hold
\* calls; a stamped conversation it cuts in two.
THEOREM SplitsStaySound == ListsSpec => []SplitIsSound
<1>1. ListsInv => SplitIsSound
  <2> SUFFICES ASSUME ListsInv PROVE SplitIsSound
    OBVIOUS
  <2>1. list \in Seq(Message) /\ Wholesome(list, given)
    BY DEF ListsInv
  <2> QED
    BY <2>1, SplitSound DEF SplitIsSound, Wholesome
<1> QED
  BY <1>1, ListsInvHolds, PTL

-----------------------------------------------------------------------------
(* Requests on the wire.                                                   *)

Before(p, q) == p[1] < q[1] \/ (p[1] = q[1] /\ p[2] < q[2])

\* The places of a request are numbered in their order, without a gap.
LEMMA PlacesNumbered ==
  ASSUME NEW L \in Nat, NEW n \in Nat, NEW places \in SUBSET ((1..L) \X (0..n))
  PROVE  /\ Cardinality(places) \in Nat
         /\ \A k \in 1..Cardinality(places) : Place(places, k) \in places
         /\ \A p \in places : \E k \in 1..Cardinality(places) : Place(places, k) = p
         /\ \A k, l \in 1..Cardinality(places) :
              k < l <=> Before(Place(places, k), Place(places, l))
<1> DEFINE C == Cardinality(places)
           rank(p) == Cardinality(UpTo(places, p))
           f == [p \in places |-> rank(p)]
<1>1. IsFiniteSet(places) /\ C \in Nat
  <2>1. IsFiniteSet(1..L) /\ IsFiniteSet(0..n)
    BY FS_Interval
  <2>2. IsFiniteSet((1..L) \X (0..n))
    BY <2>1, FS_Product
  <2>3. IsFiniteSet(places)
    BY <2>2, FS_Subset
  <2> QED
    BY <2>3, FS_CardinalityType
<1>2. \A p \in places : p[1] \in Int /\ p[2] \in Int /\ p = <<p[1], p[2]>>
  OBVIOUS
<1>3. \A p, q \in places : p = q \/ Before(p, q) \/ Before(q, p)
  BY <1>2 DEF Before
<1>4. \A p, q \in places : Before(p, q) => p # q /\ ~Before(q, p)
  BY <1>2 DEF Before
<1>5. ASSUME NEW p \in places
      PROVE  IsFiniteSet(UpTo(places, p)) /\ rank(p) \in 1..C
  <2>1. UpTo(places, p) \in SUBSET places /\ p \in UpTo(places, p)
    BY <1>2 DEF UpTo
  <2>2. IsFiniteSet(UpTo(places, p)) /\ rank(p) <= C
    BY <1>1, <2>1, FS_Subset
  <2>3. rank(p) \in Nat /\ rank(p) # 0
    BY <2>1, <2>2, FS_CardinalityType, FS_EmptySet
  <2> QED
    BY <1>1, <2>2, <2>3
<1>6. ASSUME NEW p \in places, NEW q \in places, Before(p, q) PROVE rank(p) < rank(q)
  <2>1. UpTo(places, p) \in SUBSET UpTo(places, q)
    BY <1>2, <1>6 DEF UpTo, Before
  <2>2. q \in UpTo(places, q) /\ q \notin UpTo(places, p)
    BY <1>2, <1>6 DEF UpTo, Before
  <2>3. rank(p) <= rank(q) /\ rank(p) # rank(q)
    BY <1>5, <2>1, <2>2, FS_Subset
  <2> QED
    BY <1>5, <2>3
<1>7. \A p, q \in places : rank(p) = rank(q) => p = q
  <2> SUFFICES ASSUME NEW p \in places, NEW q \in places, rank(p) = rank(q) PROVE p = q
    OBVIOUS
  <2>1. ~Before(p, q)
    <3>1. Before(p, q) => rank(p) < rank(q)
      BY <1>6
    <3> QED
      BY <1>5, <3>1
  <2>2. ~Before(q, p)
    <3>1. Before(q, p) => rank(q) < rank(p)
      BY <1>6
    <3> QED
      BY <1>5, <3>1
  <2> QED
    BY <1>3, <2>1, <2>2
<1>8. \A k \in 1..C : \E p \in places : rank(p) = k
  <2>1. f \in Injection(places, 1..C)
    BY <1>5, <1>7 DEF Injection, IsInjective
  <2>2. IsFiniteSet(1..C) /\ Cardinality(1..C) = C
    <3>1. 1 \in Int /\ C \in Int /\ (1 > C => C = 0) /\ C - 1 + 1 = C
      BY <1>1
    <3> QED
      BY <3>1, FS_Interval
  <2> HIDE DEF f, C
  <2>3. f \in Surjection(places, 1..C)
    BY <2>1, <2>2, FS_Injection DEF C
  <2> QED
    BY <2>3 DEF Surjection, f
<1>9. \A k \in 1..C : Place(places, k) \in places /\ rank(Place(places, k)) = k
  <2> SUFFICES ASSUME NEW k \in 1..C
               PROVE  Place(places, k) \in places /\ rank(Place(places, k)) = k
    OBVIOUS
  <2>1. \E p \in places : Cardinality(UpTo(places, p)) = k
    BY <1>8
  <2> QED
    BY <2>1 DEF Place
<1> HIDE DEF C, rank, f
<1>10. ASSUME NEW p \in places PROVE \E k \in 1..C : Place(places, k) = p
  <2>1. rank(p) \in 1..C
    BY <1>5
  <2>2. Place(places, rank(p)) = p
    BY <1>7, <1>9, <2>1
  <2> QED
    BY <2>1, <2>2
<1>11. ASSUME NEW k \in 1..C, NEW l \in 1..C
       PROVE  k < l <=> Before(Place(places, k), Place(places, l))
  <2> DEFINE p == Place(places, k)
             q == Place(places, l)
  <2>1. p \in places /\ q \in places /\ rank(p) = k /\ rank(q) = l
    BY <1>9
  <2> HIDE DEF p, q
  <2>2. Before(p, q) => k < l
    BY <1>6, <2>1
  <2>3. Before(q, p) => l < k
    BY <1>6, <2>1
  <2>4. p = q => k = l
    BY <2>1
  <2> QED
    BY <1>1, <1>3, <2>1, <2>2, <2>3, <2>4 DEF p, q
<1> QED
  BY <1>1, <1>9, <1>10, <1>11 DEF C

\* A list of L messages whose requests and results are paired, each numbered up to n.
Paired(msgs, L, n) ==
  /\ L \in Nat /\ n \in Nat /\ DOMAIN msgs = 1..L /\ Len(msgs) = L
  /\ PairsIntact(msgs)
  /\ \A i \in 1..L :
       /\ msgs[i].role \in {"user", "assistant"}
       /\ msgs[i].uses \subseteq (-n)..n /\ msgs[i].results \subseteq Nat
       /\ msgs[i].uses # {} => msgs[i].role = "assistant"
       /\ msgs[i].results # {} => msgs[i].role = "user"

\* The size entries of wire stand for the places at of the L messages, in their order.
EntriesAt(msgs, wire, L, size, at) ==
  /\ size \in Nat /\ Len(wire) = size /\ DOMAIN wire = 1..size
  /\ \A k \in 1..size :
       /\ at[k][1] \in 1..L /\ at[k][2] \in Int /\ at[k][2] \in Parts(msgs[at[k][1]])
       /\ wire[k] = Serialized(msgs[at[k][1]], at[k][2])
  /\ \A m \in 1..L : \A part \in Parts(msgs[m]) :
       \E k \in 1..size : at[k][1] = m /\ at[k][2] = part
  /\ \A k, l \in 1..size : k < l <=> Before(at[k], at[l])

\* The entries of a request: one for each place, in their order.
LEMMA WireEntries ==
  ASSUME NEW msgs, NEW L, NEW n, Paired(msgs, L, n)
  PROVE  \E size, at : EntriesAt(msgs, Wire(msgs), L, size, at)
<1> DEFINE places == Places(msgs)
           size == Cardinality(places)
           at == [k \in 1..size |-> Place(places, k)]
<1>0. L \in Nat /\ n \in Nat /\ DOMAIN msgs = 1..L
  BY DEF Paired
<1>1. \A m \in 1..L : Parts(msgs[m]) \in SUBSET (0..n)
  <2> SUFFICES ASSUME NEW m \in 1..L PROVE Parts(msgs[m]) \in SUBSET (0..n)
    OBVIOUS
  <2>1. msgs[m].results # {} => m - 1 \in 1..L /\ msgs[m].results \subseteq (-n)..n
    BY <1>0 DEF Paired, PairsIntact
  <2>2. msgs[m].results \subseteq Nat
    BY DEF Paired
  <2>3. \A x \in (-n)..n : x \in Nat => x \in 0..n
    BY <1>0
  <2>4. msgs[m].results \subseteq 0..n
    BY <2>1, <2>2, <2>3
  <2> QED
    BY <1>0, <2>4 DEF Parts, NoCall
<1>2. \A p : p \in places <=> \E m \in 1..L : \E part \in Parts(msgs[m]) : p = <<m, part>>
  BY <1>0 DEF Places
<1>3. places \in SUBSET ((1..L) \X (0..n))
  BY <1>1, <1>2
<1> HIDE DEF places
<1>4. /\ size \in Nat
      /\ \A k \in 1..size : Place(places, k) \in places
      /\ \A p \in places : \E k \in 1..size : Place(places, k) = p
      /\ \A k, l \in 1..size : k < l <=> Before(Place(places, k), Place(places, l))
  BY <1>0, <1>3, PlacesNumbered
<1>5. Wire(msgs) = [k \in 1..size |-> Serialized(msgs[Place(places, k)[1]], Place(places, k)[2])]
  BY DEF Wire, places
<1> HIDE DEF size
<1>6. Len(Wire(msgs)) = size /\ DOMAIN Wire(msgs) = 1..size
  BY <1>4, <1>5
<1>7. ASSUME NEW k \in 1..size
      PROVE  /\ at[k][1] \in 1..L /\ at[k][2] \in Int /\ at[k][2] \in Parts(msgs[at[k][1]])
             /\ Wire(msgs)[k] = Serialized(msgs[at[k][1]], at[k][2])
  <2>1. PICK m \in 1..L : \E part \in Parts(msgs[m]) : Place(places, k) = <<m, part>>
    BY <1>2, <1>4
  <2>2. PICK part \in Parts(msgs[m]) : Place(places, k) = <<m, part>>
    BY <2>1
  <2>3. at[k][1] = m /\ at[k][2] = part /\ part \in Int
    BY <1>1, <2>2
  <2> QED
    BY <1>5, <2>3
<1>8. ASSUME NEW m \in 1..L, NEW part \in Parts(msgs[m])
      PROVE  \E k \in 1..size : at[k][1] = m /\ at[k][2] = part
  <2>1. PICK k \in 1..size : Place(places, k) = <<m, part>>
    BY <1>2, <1>4
  <2> QED
    BY <2>1
<1>9. \A k, l \in 1..size : k < l <=> Before(at[k], at[l])
  BY <1>4
<1> HIDE DEF at
<1> QED
  <2>1. size \in Nat
    BY <1>4
  <2>2. EntriesAt(msgs, Wire(msgs), L, size, at)
    BY <1>6, <1>7, <1>8, <1>9, <2>1 DEF EntriesAt
  <2> QED
    BY <2>2

\* What the provider reads: behind each message the answers to its calls.
LEMMA WirePaired ==
  ASSUME NEW msgs, NEW L, NEW n, Paired(msgs, L, n)
  PROVE  LET wire == Wire(msgs)
             behind(i) == {j \in i + 1..Len(wire) :
                             \A k \in i + 1..j : wire[k].role = "tool"}
         IN  \A i \in DOMAIN wire :
               /\ wire[i].role # "tool" =>
                    LET ran == {call \in wire[i].calls : call >= 0} IN
                    /\ UNION {wire[j].answers : j \in behind(i)} = ran
                    /\ Cardinality(behind(i)) = Cardinality(ran)
               /\ i = 1 => wire[i].role # "tool"
<1> DEFINE wire == Wire(msgs)
<1>0. L \in Nat /\ n \in Nat /\ DOMAIN msgs = 1..L /\ Len(msgs) = L
  BY DEF Paired
<1>1. PICK size, at : EntriesAt(msgs, wire, L, size, at)
  BY WireEntries
<1>2. /\ size \in Nat /\ Len(wire) = size /\ DOMAIN wire = 1..size
      /\ \A k \in 1..size :
           /\ at[k][1] \in 1..L /\ at[k][2] \in Int /\ at[k][2] \in Parts(msgs[at[k][1]])
           /\ wire[k] = Serialized(msgs[at[k][1]], at[k][2])
      /\ \A m \in 1..L : \A part \in Parts(msgs[m]) :
           \E k \in 1..size : at[k][1] = m /\ at[k][2] = part
      /\ \A k, l \in 1..size : k < l <=> Before(at[k], at[l])
  BY <1>1 DEF EntriesAt
<1> HIDE DEF wire
<1> DEFINE asks(m) == msgs[m].results = {}
<1>3. ASSUME NEW m \in 1..L
      PROVE  /\ asks(m) => Parts(msgs[m]) = {0} /\ msgs[m].role # "tool"
             /\ ~asks(m) => /\ Parts(msgs[m]) = msgs[m].results /\ msgs[m].uses = {}
                            /\ m - 1 \in 1..L /\ Ran(msgs[m - 1]) = msgs[m].results
                            /\ asks(m - 1)
             /\ Ran(msgs[m]) # {} => m + 1 \in 1..L /\ msgs[m + 1].results = Ran(msgs[m])
             /\ IsFiniteSet(Ran(msgs[m]))
  <2>0. /\ PairsIntact(msgs) /\ \A i \in 1..L : msgs[i].results \subseteq Nat
        /\ msgs[m].uses \subseteq (-n)..n
    BY DEF Paired
  <2>6. ASSUME NEW i \in 1..L, NEW S \in SUBSET Nat, msgs[i].uses = S PROVE Ran(msgs[i]) = S
    <3>1. \A x \in S : x >= 0
      OBVIOUS
    <3>2. Ran(msgs[i]) = {x \in S : x >= 0}
      BY <2>6 DEF Ran
    <3> QED
      BY <3>1, <3>2
  <2>1. /\ msgs[m].role \in {"user", "assistant"}
        /\ msgs[m].uses # {} => msgs[m].role = "assistant"
        /\ msgs[m].results # {} => msgs[m].role = "user"
    BY DEF Paired
  <2>2. asks(m) => Parts(msgs[m]) = {0} /\ msgs[m].role # "tool"
    BY <2>1 DEF Parts, Answering, NoCall
  <2>3. Ran(msgs[m]) # {} => m + 1 \in 1..L /\ msgs[m + 1].results = Ran(msgs[m])
    <3>1. Ran(msgs[m]) # {} => m + 1 \in 1..L /\ msgs[m + 1].results = msgs[m].uses
      BY <1>0, <2>0 DEF PairsIntact
    <3> QED
      BY <2>0, <2>6, <3>1
  <2>4. ASSUME ~asks(m)
        PROVE  /\ Parts(msgs[m]) = msgs[m].results /\ msgs[m].uses = {}
               /\ m - 1 \in 1..L /\ Ran(msgs[m - 1]) = msgs[m].results /\ asks(m - 1)
    <3>1. Parts(msgs[m]) = msgs[m].results /\ msgs[m].uses = {}
      BY <2>1, <2>4 DEF Parts, Answering
    <3>2. m - 1 \in 1..L /\ msgs[m - 1].uses = msgs[m].results
      <4>1. m > 1 /\ msgs[m - 1].uses = msgs[m].results
        BY <1>0, <2>0, <2>4 DEF PairsIntact
      <4> QED
        BY <1>0, <4>1
    <3>3. asks(m - 1)
      BY <2>4, <3>2 DEF Paired
    <3>4. Ran(msgs[m - 1]) = msgs[m].results
      BY <2>0, <2>6, <3>2
    <3> QED
      BY <3>1, <3>2, <3>3, <3>4
  <2>5. IsFiniteSet(Ran(msgs[m]))
    <3>1. IsFiniteSet((-n)..n)
      BY <1>0, FS_Interval
    <3>2. Ran(msgs[m]) \in SUBSET ((-n)..n)
      BY <2>0 DEF Ran
    <3> QED
      BY <3>1, <3>2, FS_Subset
  <2> QED
    BY <2>2, <2>3, <2>4, <2>5
<1>4. ASSUME NEW k \in 1..size
      PROVE  /\ at[k][1] \in 1..L /\ at[k][2] \in Int
             /\ asks(at[k][1]) => /\ at[k][2] = 0 /\ wire[k].role # "tool"
                                  /\ wire[k].calls = msgs[at[k][1]].uses
             /\ ~asks(at[k][1]) => /\ at[k][2] \in msgs[at[k][1]].results /\ wire[k].role = "tool"
                                   /\ wire[k].answers = {at[k][2]}
  <2> DEFINE m == at[k][1]
  <2>1. m \in 1..L /\ at[k][2] \in Int /\ at[k][2] \in Parts(msgs[m])
        /\ wire[k] = Serialized(msgs[m], at[k][2])
    BY <1>2
  <2> HIDE DEF m
  <2>2. CASE asks(m)
    <3>1. ~Answering(msgs[m])
      BY <2>2 DEF Answering
    <3> QED
      BY <1>3, <2>1, <2>2, <3>1 DEF Serialized, Entry, m
  <2>3. CASE ~asks(m)
    <3>1. Answering(msgs[m])
      BY <2>1, <2>3 DEF Answering, Paired
    <3> QED
      BY <1>3, <2>1, <2>3, <3>1 DEF Serialized, Entry, m
  <2> QED
    BY <2>1, <2>2, <2>3 DEF m
<1>5. \A k, l \in 1..size : k < l <=> Before(at[k], at[l])
  BY <1>2
<1>6. ASSUME NEW m \in 1..L, asks(m) PROVE \E k \in 1..size : at[k][1] = m /\ at[k][2] = 0
  <2>1. \A part \in Parts(msgs[m]) : \E k \in 1..size : at[k][1] = m /\ at[k][2] = part
    BY <1>2
  <2>2. 0 \in Parts(msgs[m])
    BY <1>3, <1>6
  <2> QED
    BY <2>1, <2>2
<1>7. \A k, l \in 1..size : at[k][1] = at[l][1] /\ at[k][2] = at[l][2] => k = l
  <2> SUFFICES ASSUME NEW k \in 1..size, NEW l \in 1..size,
                      at[k][1] = at[l][1], at[k][2] = at[l][2]
               PROVE  k = l
    OBVIOUS
  <2>1. ~Before(at[k], at[l]) /\ ~Before(at[l], at[k])
    BY <1>4 DEF Before
  <2>2. ~(k < l) /\ ~(l < k)
    BY <1>5, <2>1
  <2> QED
    BY <2>2
<1> HIDE DEF asks
<1>8. ASSUME 1 \in 1..size PROVE wire[1].role # "tool"
  <2> SUFFICES ASSUME wire[1].role = "tool" PROVE FALSE
    OBVIOUS
  <2> DEFINE m == at[1][1]
  <2>1. m \in 1..L /\ ~asks(m)
    BY <1>4, <1>8
  <2> HIDE DEF m
  <2>2. m - 1 \in 1..L /\ asks(m - 1)
    BY <1>3, <2>1
  <2>3. PICK k \in 1..size : at[k][1] = m - 1
    BY <1>6, <2>2
  <2>4. Before(at[k], at[1])
    BY <1>0, <2>1, <2>3 DEF Before, m
  <2> QED
    BY <1>5, <1>8, <2>4
<1>9. ASSUME NEW i \in 1..size, wire[i].role # "tool"
      PROVE  LET behind == {j \in i + 1..size : \A k \in i + 1..j : wire[k].role = "tool"}
                 ran == {call \in wire[i].calls : call >= 0}
             IN  /\ UNION {wire[j].answers : j \in behind} = ran
                 /\ Cardinality(behind) = Cardinality(ran)
  <2> DEFINE m == at[i][1]
             behind == {j \in i + 1..size : \A k \in i + 1..j : wire[k].role = "tool"}
             asked == Ran(msgs[m])
             f == [j \in behind |-> at[j][2]]
  <2>1. m \in 1..L /\ asks(m) /\ at[i][2] = 0 /\ {call \in wire[i].calls : call >= 0} = asked
    BY <1>4, <1>9 DEF Ran
  <2>2. ASSUME NEW j \in 1..size, at[j][1] = m PROVE j = i
    BY <1>4, <1>7, <2>1, <2>2
  <2> HIDE DEF m
  <2>3. ASSUME NEW j \in behind
        PROVE  j \in 1..size /\ at[j][1] = m + 1 /\ at[j][1] \in 1..L /\ ~asks(at[j][1])
    <3>1. j \in 1..size /\ i < j /\ \A k \in i + 1..j : wire[k].role = "tool"
      BY <2>3
    <3>2. Before(at[i], at[j])
      BY <1>5, <3>1
    <3>3. at[j][1] \in 1..L /\ ~asks(at[j][1])
      BY <1>4, <3>1
    <3>4. m < at[j][1]
      BY <2>1, <2>2, <3>1, <3>2, <3>3 DEF Before, m
    <3>5. ~(m + 1 < at[j][1])
      <4> SUFFICES ASSUME m + 1 < at[j][1] PROVE FALSE
        OBVIOUS
      <4>1. at[j][1] - 1 \in 1..L /\ asks(at[j][1] - 1)
        BY <1>3, <3>3
      <4>2. PICK k \in 1..size : at[k][1] = at[j][1] - 1
        BY <1>6, <4>1
      <4>3. Before(at[i], at[k]) /\ Before(at[k], at[j])
        BY <2>1, <3>3, <4>2 DEF Before, m
      <4>4. i < k /\ k < j
        BY <1>5, <3>1, <4>3
      <4>5. wire[k].role # "tool"
        BY <1>4, <4>1, <4>2
      <4>6. k \in i + 1..j
        BY <4>4
      <4> QED
        BY <3>1, <4>5, <4>6
    <3> QED
      BY <2>1, <3>1, <3>3, <3>4, <3>5
  <2>4. ASSUME NEW j \in 1..size, at[j][1] = m + 1, ~asks(m + 1) PROVE j \in behind
    <3>1. Before(at[i], at[j])
      BY <2>1, <2>4 DEF Before, m
    <3>2. i < j
      BY <1>5, <3>1
    <3>3. ASSUME NEW k \in i + 1..j PROVE wire[k].role = "tool"
      <4>1. k \in 1..size /\ i < k /\ (k = j \/ k < j)
        <5>1. size \in Nat
          BY <1>2
        <5> QED
          BY <3>2, <5>1
      <4>2. Before(at[i], at[k]) /\ (k = j \/ Before(at[k], at[j]))
        BY <1>5, <4>1
      <4>3. at[k][1] \in 1..L
        BY <1>4, <4>1
      <4>4. m <= at[k][1] /\ at[k][1] <= m + 1
        BY <2>1, <2>4, <4>2, <4>3 DEF Before, m
      <4>5. at[k][1] # m
        BY <2>2, <4>1
      <4>6. at[k][1] = m + 1
        BY <2>1, <4>3, <4>4, <4>5
      <4> QED
        BY <1>4, <2>4, <4>1, <4>6
    <3> QED
      BY <3>2, <3>3
  <2> HIDE DEF behind
  <2>5. \A j \in behind : at[j][2] \in asked /\ wire[j].answers = {at[j][2]}
    <3> SUFFICES ASSUME NEW j \in behind
                 PROVE  at[j][2] \in asked /\ wire[j].answers = {at[j][2]}
      OBVIOUS
    <3>1. j \in 1..size /\ at[j][1] = m + 1 /\ m + 1 \in 1..L /\ ~asks(m + 1)
      BY <2>3
    <3>2. at[j][2] \in msgs[m + 1].results /\ wire[j].answers = {at[j][2]}
      BY <1>4, <3>1
    <3>3. msgs[m + 1].results = Ran(msgs[m])
      <4>1. (m + 1) - 1 = m
        BY <2>1
      <4> QED
        BY <1>3, <3>1, <4>1
    <3> QED
      BY <3>2, <3>3
  <2>6. \A c \in asked : \E j \in behind : at[j][2] = c
    <3> SUFFICES ASSUME NEW c \in asked PROVE \E j \in behind : at[j][2] = c
      OBVIOUS
    <3>1. m + 1 \in 1..L /\ msgs[m + 1].results = asked
      BY <1>3, <2>1
    <3>2. ~asks(m + 1) /\ c \in Parts(msgs[m + 1])
      <4>1. ~asks(m + 1)
        BY <3>1 DEF asks
      <4> QED
        BY <1>3, <3>1, <4>1
    <3>3. PICK j \in 1..size : at[j][1] = m + 1 /\ at[j][2] = c
      <4>1. \A part \in Parts(msgs[m + 1]) : \E j \in 1..size : at[j][1] = m + 1 /\ at[j][2] = part
        BY <1>2, <3>1
      <4> QED
        BY <3>2, <4>1
    <3> QED
      BY <2>4, <3>2, <3>3
  <2>7. UNION {wire[j].answers : j \in behind} = asked
    BY <2>5, <2>6
  <2>8. Cardinality(behind) = Cardinality(asked)
    <3>1. \A j, k \in behind : f[j] = f[k] => j = k
      BY <1>7, <2>3
    <3>2. f \in [behind -> asked]
      BY <2>5
    <3>3. \A c \in asked : \E j \in behind : f[j] = c
      BY <2>6
    <3> HIDE DEF f, asked
    <3>4. f \in Injection(behind, asked) /\ f \in Surjection(behind, asked)
      BY <3>1, <3>2, <3>3 DEF Injection, IsInjective, Surjection
    <3>5. IsFiniteSet(asked)
      BY <1>3, <2>1 DEF asked
    <3> QED
      BY <3>4, <3>5, FS_Injection
  <2> QED
    BY <2>1, <2>7, <2>8 DEF behind
<1> QED
  BY <1>2, <1>8, <1>9 DEF wire

\* The view of a list keeps what its messages ask and answer.
LEMMA ViewPaired ==
  ASSUME NEW msgs \in Seq(Message), NEW n \in Nat, Wholesome(msgs, n), NEW freed
  PROVE  Paired(View(msgs, freed), Len(msgs), n)
<1> DEFINE view == View(msgs, freed)
           L == Len(msgs)
<1>1. DOMAIN msgs = 1..L /\ L \in Nat /\ \A i \in 1..L : msgs[i] \in Message
  BY SeqFacts
<1>2. DOMAIN view = 1..L /\ Len(view) = L
  BY <1>1 DEF View
<1>3. \A i \in 1..L : /\ view[i].role = msgs[i].role /\ view[i].uses = msgs[i].uses
                      /\ view[i].results = msgs[i].results
  BY <1>1 DEF View, Message
<1>4. \A i \in 1..L : msgs[i].role \in {"user", "assistant"}
  BY <1>1, MessageFields
<1> HIDE DEF view, L
<1>5. PairsIntact(view)
  <2> SUFFICES ASSUME NEW i \in 1..L
               PROVE  /\ Ran(view[i]) # {} => i < L /\ view[i + 1].results = view[i].uses
                      /\ view[i].results # {} => i > 1 /\ view[i - 1].uses = view[i].results
    BY <1>2 DEF PairsIntact
  <2>1. /\ Ran(msgs[i]) # {} => i < L /\ msgs[i + 1].results = msgs[i].uses
        /\ msgs[i].results # {} => i > 1 /\ msgs[i - 1].uses = msgs[i].results
    BY <1>1 DEF Wholesome, PairsIntact, L
  <2>3. Ran(view[i]) = Ran(msgs[i])
    BY <1>3 DEF Ran
  <2>2. (i < L => i + 1 \in 1..L) /\ (i > 1 => i - 1 \in 1..L)
    BY <1>1
  <2> QED
    BY <1>3, <2>1, <2>2, <2>3
<1>6. \A i \in 1..L : /\ msgs[i].uses \subseteq (-n)..n
                      /\ msgs[i].uses # {} => msgs[i].role = "assistant"
                      /\ msgs[i].results # {} => msgs[i].role = "user"
  BY <1>1 DEF Wholesome
<1>9. \A i \in 1..L : view[i].results \subseteq Nat
  BY <1>1, <1>3, MessageFields
<1>7. \A i \in 1..L : /\ view[i].role \in {"user", "assistant"}
                      /\ view[i].uses \subseteq (-n)..n
                      /\ view[i].uses # {} => view[i].role = "assistant"
                      /\ view[i].results # {} => view[i].role = "user"
  BY <1>3, <1>4, <1>6
<1>8. Paired(view, L, n)
  BY <1>1, <1>2, <1>5, <1>7, <1>9 DEF Paired
<1> QED
  BY <1>8 DEF view, L

\* Whichever results are freed and whatever was cut before, the request a provider gets
\* answers every tool call that ran right behind the message that makes it, each once, and
\* answers nothing else, for any number of messages and of calls in a message; only the
\* calls of end_turn answers stay unanswered.
THEOREM WireStaysPaired == ListsSpec => []WireIsPaired
<1>1. ListsInv => WireIsPaired
  <2> SUFFICES ASSUME ListsInv, NEW freed
               PROVE  LET wire == Wire(View(list, freed))
                          behind(i) == {j \in i + 1..Len(wire) :
                                          \A k \in i + 1..j : wire[k].role = "tool"}
                      IN  \A i \in DOMAIN wire :
                            /\ wire[i].role # "tool" =>
                                 LET ran == {call \in wire[i].calls : call >= 0} IN
                                 /\ UNION {wire[j].answers : j \in behind(i)} = ran
                                 /\ Cardinality(behind(i)) = Cardinality(ran)
                            /\ i = 1 => wire[i].role # "tool"
    BY DEF WireIsPaired
  <2>1. Paired(View(list, freed), Len(list), given)
    BY ViewPaired DEF ListsInv
  <2> HIDE DEF ListsInv
  <2> QED
    BY <2>1, WirePaired
<1> QED
  BY <1>1, ListsInvHolds, PTL

-----------------------------------------------------------------------------
(* Answers that arrive in pieces.                                          *)

Delta == [index : Nat, piece : Nat, stop : Stops \cup {"none"}]

\* The pieces of an answer are finitely many deltas without a reason to stop.
LEMMA PiecesAre ==
  ASSUME NEW a \in Answers
  PROVE  /\ IsFiniteSet(PiecesOf(a)) /\ a.stop \in Stops
         /\ a.calls \in SUBSET (Nat \ {0}) /\ IsFiniteSet(a.calls)
         /\ \A p \in PiecesOf(a) :
              p \in Delta /\ p.stop = "none" /\ p.index \in a.calls /\ p.piece \in 1..Pieces
              /\ p = Piece(p.index, p.piece)
         /\ \A c \in a.calls : \A k \in 1..Pieces : Piece(c, k) \in PiecesOf(a)
<1>0. Pieces \in Nat \ {0} /\ MaxCalls \in Nat
  BY FormatAssumption
<1>1. a.stop \in Stops /\ \E n \in 0..MaxCalls : a.calls = 1..n
  BY DEF Answers
<1>2. a.calls \in SUBSET (Nat \ {0}) /\ IsFiniteSet(a.calls)
  BY <1>0, <1>1, FS_Interval
<1>3. ASSUME NEW p \in PiecesOf(a)
      PROVE  p \in Delta /\ p.stop = "none" /\ p.index \in a.calls /\ p.piece \in 1..Pieces
             /\ p = Piece(p.index, p.piece)
  BY <1>0, <1>2 DEF PiecesOf, Piece, Delta
<1>4. \A c \in a.calls : \A k \in 1..Pieces : Piece(c, k) \in PiecesOf(a)
  BY DEF PiecesOf
<1>5. IsFiniteSet(PiecesOf(a))
  <2> DEFINE f == [p \in PiecesOf(a) |-> <<p.index, p.piece>>]
  <2>1. f \in [PiecesOf(a) -> a.calls \X (1..Pieces)]
    BY <1>3
  <2>2. ASSUME NEW p \in PiecesOf(a), NEW q \in PiecesOf(a), f[p] = f[q] PROVE p = q
    <3>1. p.index = q.index /\ p.piece = q.piece
      BY <2>2
    <3> QED
      BY <1>3, <3>1
  <2>3. f \in Injection(PiecesOf(a), a.calls \X (1..Pieces))
    BY <2>1, <2>2 DEF Injection, IsInjective
  <2>4. IsFiniteSet(a.calls \X (1..Pieces))
    <3>1. IsFiniteSet(1..Pieces)
      BY <1>0, FS_Interval
    <3> QED
      BY <1>2, <3>1, FS_Product
  <2> HIDE DEF f
  <2> QED
    BY <2>3, <2>4, FS_Injection
<1> QED
  BY <1>1, <1>2, <1>3, <1>4, <1>5

\* A stream holds every piece once and then the reason to stop.
LEMMA StreamIs ==
  ASSUME NEW a \in Answers, NEW stream \in Streams(a)
  PROVE  \E last \in Nat :
           /\ stream \in Seq(Delta) /\ Len(stream) = last + 1
           /\ stream[last + 1] = StopDelta(a.stop)
           /\ \A i \in 1..last : stream[i] \in PiecesOf(a)
           /\ \A i, j \in 1..last : stream[i] = stream[j] => i = j
           /\ \A p \in PiecesOf(a) : \E i \in 1..last : stream[i] = p
<1> DEFINE last == Cardinality(PiecesOf(a))
<1>1. PICK s \in SetToSeqs(PiecesOf(a)) : stream = Append(s, StopDelta(a.stop))
  BY DEF Streams
<1>2. last \in Nat /\ IsFiniteSet(PiecesOf(a))
  BY PiecesAre, FS_CardinalityType
<1>3. s \in [1..last -> PiecesOf(a)] /\ \A i, j \in 1..last : i # j => s[i] # s[j]
  BY DEF SetToSeqs
<1>4. \A p \in PiecesOf(a) : \E i \in 1..last : s[i] = p
  <2>1. s \in Injection(1..last, PiecesOf(a))
    BY <1>3 DEF Injection, IsInjective
  <2>2. Cardinality(1..last) = last
    BY <1>2, FS_Interval
  <2>3. s \in Surjection(1..last, PiecesOf(a))
    BY <1>2, <2>1, <2>2, FS_Injection
  <2> QED
    BY <2>3 DEF Surjection
<1> HIDE DEF last
<1>5. s \in Seq(Delta) /\ Len(s) = last /\ StopDelta(a.stop) \in Delta
  <2>1. \A i \in 1..last : s[i] \in Delta
    BY <1>3, PiecesAre
  <2>2. StopDelta(a.stop) \in Delta
    BY PiecesAre DEF StopDelta, Delta
  <2> QED
    BY <1>2, <1>3, <2>1, <2>2
<1>6. /\ stream \in Seq(Delta) /\ Len(stream) = last + 1 /\ stream[last + 1] = StopDelta(a.stop)
      /\ \A i \in 1..last : stream[i] = s[i]
  BY <1>1, <1>2, <1>5
<1>7. /\ \A i \in 1..last : stream[i] \in PiecesOf(a)
      /\ \A i, j \in 1..last : stream[i] = stream[j] => i = j
      /\ \A p \in PiecesOf(a) : \E i \in 1..last : stream[i] = p
  BY <1>3, <1>4, <1>6
<1>8. last \in Nat
  BY <1>2
<1> QED
  BY <1>6, <1>7, <1>8

\* Of each call of the answer every piece is in the stream once.
LEMMA CallArrives ==
  ASSUME NEW a \in Answers, NEW d \in Seq(Delta), NEW last \in Nat, Len(d) = last + 1,
         d[last + 1] = StopDelta(a.stop),
         \A i \in 1..last : d[i] \in PiecesOf(a),
         \A i, j \in 1..last : d[i] = d[j] => i = j,
         \A p \in PiecesOf(a) : \E i \in 1..last : d[i] = p,
         NEW c \in a.calls
  PROVE  Cardinality(Arrived(d, c)) = Pieces
<1> DEFINE A == Arrived(d, c)
           f == [i \in A |-> d[i].piece]
<1>0. Pieces \in Nat \ {0} /\ c # 0
  BY FormatAssumption, PiecesAre
<1>1. A = {i \in 1..last : d[i].index = c}
  <2>1. DOMAIN d = 1..last + 1 /\ \A i \in 1..last + 1 : i \in 1..last \/ i = last + 1
    OBVIOUS
  <2>2. d[last + 1].index # c
    BY <1>0 DEF StopDelta
  <2> QED
    BY <2>1, <2>2 DEF Arrived
<1>2. f \in [A -> 1..Pieces]
  BY <1>1, PiecesAre
<1> HIDE DEF A
<1>3. \A i, j \in A : f[i] = f[j] => i = j
  <2> SUFFICES ASSUME NEW i \in A, NEW j \in A, f[i] = f[j] PROVE i = j
    OBVIOUS
  <2>1. d[i].piece = d[j].piece /\ d[i].index = d[j].index /\ i \in 1..last /\ j \in 1..last
    BY <1>1
  <2>2. d[i] = Piece(d[i].index, d[i].piece) /\ d[j] = Piece(d[j].index, d[j].piece)
    BY <2>1, PiecesAre
  <2>3. d[i] = d[j]
    BY <2>1, <2>2
  <2> QED
    BY <2>1, <2>3
<1>4. \A k \in 1..Pieces : \E i \in A : f[i] = k
  <2> SUFFICES ASSUME NEW k \in 1..Pieces PROVE \E i \in A : f[i] = k
    OBVIOUS
  <2>1. PICK i \in 1..last : d[i] = Piece(c, k)
    BY PiecesAre
  <2>2. d[i].index = c /\ d[i].piece = k
    BY <2>1 DEF Piece
  <2> QED
    BY <1>1, <2>2
<1> HIDE DEF f
<1>5. f \in Injection(A, 1..Pieces) /\ f \in Surjection(A, 1..Pieces)
  BY <1>2, <1>3, <1>4 DEF Injection, IsInjective, Surjection
<1>6. IsFiniteSet(1..Pieces) /\ Cardinality(1..Pieces) = Pieces
  <2>1. 1 \in Int /\ Pieces \in Int /\ ~(1 > Pieces) /\ Pieces - 1 + 1 = Pieces
    BY <1>0
  <2> QED
    BY <2>1, FS_Interval
<1>7. Cardinality(A) = Cardinality(1..Pieces)
  BY <1>5, <1>6, FS_Injection
<1> QED
  BY <1>6, <1>7 DEF A

\* What has arrived of a stream is the answer or executes nothing.
LEMMA StreamRead ==
  ASSUME NEW a \in Answers, NEW stream \in Streams(a), NEW n \in DOMAIN stream
  PROVE  LET d == SubSeq(stream, 1, n) IN
         IF Last(d).stop # "none" THEN Assembled(d) = Parsed(a) ELSE Executed(Assembled(d)) = {}
<1> DEFINE d == SubSeq(stream, 1, n)
<1>1. PICK last \in Nat :
        /\ stream \in Seq(Delta) /\ Len(stream) = last + 1
        /\ stream[last + 1] = StopDelta(a.stop)
        /\ \A i \in 1..last : stream[i] \in PiecesOf(a)
        /\ \A i, j \in 1..last : stream[i] = stream[j] => i = j
        /\ \A p \in PiecesOf(a) : \E i \in 1..last : stream[i] = p
  BY StreamIs
<1>2. /\ n \in 1..last + 1 /\ d \in Seq(Delta) /\ Len(d) = n /\ DOMAIN d = 1..n
      /\ \A i \in 1..n : d[i] = stream[i]
  <2>1. n \in 1..last + 1 /\ \A i \in 1..n : stream[i] \in Delta
    BY <1>1
  <2> QED
    BY <1>1, <2>1, SubSeqProperties
<1> HIDE DEF d
<1>3. Last(d) = stream[n]
  BY <1>2 DEF Last
<1>4. \A i \in 1..last : stream[i].stop = "none" /\ stream[i].index \in a.calls
  BY <1>1, PiecesAre
<1>5. CASE n <= last
  <2>1. Last(d).stop = "none"
    BY <1>2, <1>3, <1>4, <1>5
  <2>2. \A i \in 1..n : i \in 1..last
    BY <1>2, <1>5
  <2>3. Reasons(d) = {}
    BY <1>2, <1>4, <2>2 DEF Reasons
  <2>4. Assembled(d).stop = "end_turn"
    BY <2>3 DEF Assembled, LastStop, StopReason
  <2>5. Executed(Assembled(d)) = {}
    BY <2>4 DEF Executed
  <2> QED
    BY <2>1, <2>5 DEF d
<1>6. CASE ~(n <= last)
  <2>1. n = last + 1
    BY <1>2, <1>6
  <2>2. /\ Len(d) = last + 1 /\ d[last + 1] = StopDelta(a.stop) /\ DOMAIN d = 1..last + 1
        /\ \A i \in 1..last : d[i] = stream[i]
    BY <1>1, <1>2, <2>1
  <2>3. /\ \A i \in 1..last : d[i] \in PiecesOf(a) /\ d[i].stop = "none" /\ d[i].index \in a.calls
        /\ \A i, j \in 1..last : d[i] = d[j] => i = j
        /\ \A p \in PiecesOf(a) : \E i \in 1..last : d[i] = p
    BY <1>1, <1>4, <2>2
  <2>4. a.stop \in Stops /\ a.stop # "none" /\ Last(d).stop = a.stop
    BY <1>1, <1>3, <2>1, PiecesAre DEF StopDelta, Stops
  <2>5. Reasons(d) = {last + 1}
    BY <2>2, <2>3, <2>4 DEF Reasons, StopDelta
  <2>6. LastStop(d) = a.stop
    <3>1. Max({last + 1}) = last + 1
      BY DEF Max
    <3> QED
      BY <2>2, <2>5, <3>1 DEF LastStop, StopDelta
  <2>7. {d[i].index : i \in DOMAIN d} \ {0} = a.calls
    <3>1. ASSUME NEW c \in a.calls PROVE c # 0 /\ \E i \in DOMAIN d : d[i].index = c
      <4>1. 1 \in 1..Pieces
        BY FormatAssumption
      <4>2. PICK i \in 1..last : d[i] = Piece(c, 1)
        BY <2>3, <4>1, PiecesAre
      <4>3. i \in DOMAIN d /\ d[i].index = c
        BY <2>2, <4>2 DEF Piece
      <4> QED
        BY <4>3, PiecesAre
    <3>2. ASSUME NEW i \in DOMAIN d PROVE d[i].index \in a.calls \/ d[i].index = 0
      <4>1. i \in 1..last \/ i = last + 1
        BY <2>2
      <4> QED
        BY <2>2, <2>3, <4>1 DEF StopDelta
    <3> QED
      BY <3>1, <3>2
  <2>8. \A c \in a.calls : Cardinality(Arrived(d, c)) = Pieces
    <3> SUFFICES ASSUME NEW c \in a.calls PROVE Cardinality(Arrived(d, c)) = Pieces
      OBVIOUS
    <3>1. \A i \in 1..last : d[i] \in PiecesOf(a)
      BY <2>3
    <3> QED
      BY <1>2, <2>2, <2>3, <3>1, CallArrives
  <2>9. Assembled(d) = Parsed(a)
    BY <2>6, <2>7, <2>8 DEF Assembled, Parsed
  <2> QED
    BY <2>4, <2>9 DEF d
<1> QED
  BY <1>1, <1>2, <1>5, <1>6

\* A streamed answer is read as the answer read in one piece, however the pieces of its
\* calls interleave, and a stream that breaks off before its end executes no call, for
\* any number of calls and of pieces.
THEOREM StreamsAreAnswers == ListsSpec => []StreamIsAnswer
<1>1. ListsInit => StreamIsAnswer
  BY DEF ListsInit, StreamIsAnswer
<1>2. StreamIsAnswer /\ [ListsNext]_listVars => StreamIsAnswer'
  <2> SUFFICES ASSUME StreamIsAnswer, [ListsNext]_listVars PROVE StreamIsAnswer'
    OBVIOUS
  <2>1. CASE Receive
    <3>1. PICK a \in Answers : \E stream \in Streams(a) : \E n \in DOMAIN stream :
            answer' = a /\ deltas' = SubSeq(stream, 1, n)
      BY <2>1 DEF Receive
    <3> QED
      BY <3>1, StreamRead DEF StreamIsAnswer
  <2>2. CASE UNCHANGED streamVars
    BY <2>2 DEF StreamIsAnswer, streamVars
  <2> QED
    BY <2>1, <2>2 DEF ListsNext, AddUser, AddOpening, AddToolRound, AddReply, Shorten, Lengthen,
       listVars, streamVars
<1> QED
  BY <1>1, <1>2, PTL DEF ListsSpec
=============================================================================
