-------------------------- MODULE SessionQueueProofs --------------------------
(***************************************************************************)
(* Invariants and theorems of SessionQueue, for any number of messages and *)
(* runtimes and any limit of the backlog.                                  *)
(*                                                                         *)
(* Most steps are about drains, timers and processes and move no message.  *)
(* What a step does to the messages is one of a few moves (Moves), and the *)
(* steps of the theorems about messages are proved from the moves alone.   *)
(***************************************************************************)
EXTENDS SessionQueue, TLAPS, FiniteSetTheorems, WellFoundedInduction

\* The hypothesis of two theorems: a session rotates or has its runtime replaced by
\* settings changes, not both.  Where both meet, a rotation that began before a
\* replacement ends after it and loses the messages queued on the replacement: the
\* run queue_stale_rotation shows one.
ModesApart == "both" \notin Modes

(***************************************************************************)
(* Lines of messages                                                       *)
(***************************************************************************)

Distinct(q) == \A i, j \in DOMAIN q : q[i] = q[j] => i = j
InBands(q)  == \A i, j \in DOMAIN q : i <= j => Rank(q[i]) <= Rank(q[j])

\* A set of naturals has a least element.
LEMMA MinFacts ==
  ASSUME NEW S \in SUBSET Nat, S # {}
  PROVE  Min(S) \in S /\ \A y \in S : Min(S) <= y
<1> DEFINE R == {ss \in Nat \X Nat : ss[1] < ss[2]}
<1>1. IsWellFoundedOn(R, Nat)
  BY NatLessThanWellFounded DEF OpToRel
<1> HIDE DEF R
<1>2. PICK x \in S : \A y \in S : ~(<<y, x>> \in R)
  BY <1>1, WFMin
<1>3. \A y \in S : ~(y < x)
  BY <1>2 DEF R
<1>4. \A y \in S : x <= y
  BY <1>3
<1>5. QED
  BY <1>4 DEF Min

\* There are two bands.
LEMMA RankType == \A m : Rank(m) \in {1, 2}
  BY DEF Rank

\* The positions of a queue.
LEMMA DomainFacts ==
  ASSUME NEW q \in Seq(Msg)
  PROVE  /\ DOMAIN q = 1..Len(q) /\ Len(q) \in Nat
         /\ IsFiniteSet(DOMAIN q) /\ Cardinality(DOMAIN q) = Len(q)
<1>1. DOMAIN q = 1..Len(q) /\ Len(q) \in Nat
  OBVIOUS
<1> DEFINE n == Len(q)
<1> HIDE DEF n
<1>2. n \in Nat
  BY <1>1 DEF n
<1>3. IsFiniteSet(1..n) /\ Cardinality(1..n) = IF 1 > n THEN 0 ELSE n - 1 + 1
  BY <1>2, FS_Interval
<1>4. Cardinality(1..n) = n
  BY <1>2, <1>3
<1>5. QED
  BY <1>1, <1>3, <1>4 DEF n

\* The entries of a concatenation.
LEMMA ConcatAt ==
  ASSUME NEW a \in Seq(Msg), NEW b \in Seq(Msg), NEW j \in 1..(Len(a) + Len(b))
  PROVE  (a \o b)[j] = IF j <= Len(a) THEN a[j] ELSE b[j - Len(a)]
  OBVIOUS

\* The length of a concatenation.
LEMMA ConcatType ==
  ASSUME NEW a \in Seq(Msg), NEW b \in Seq(Msg)
  PROVE  a \o b \in Seq(Msg) /\ Len(a \o b) = Len(a) + Len(b)
  OBVIOUS

\* Removing one position of a sequence.
LEMMA RemoveAtFacts ==
  ASSUME NEW q \in Seq(Msg), NEW i \in DOMAIN q
  PROVE  /\ RemoveAt(q, i) \in Seq(Msg) /\ Len(RemoveAt(q, i)) = Len(q) - 1
         /\ \A j \in 1..(Len(q) - 1) : RemoveAt(q, i)[j] = IF j < i THEN q[j] ELSE q[j + 1]
<1> DEFINE a == SubSeq(q, 1, i - 1)
           b == SubSeq(q, i + 1, Len(q))
<1>1. i \in 1..Len(q) /\ Len(q) \in Nat
  OBVIOUS
<1>2. a \in Seq(Msg) /\ Len(a) = i - 1 /\ \A j \in 1..(i - 1) : a[j] = q[j]
  BY <1>1
<1>3. b \in Seq(Msg) /\ Len(b) = Len(q) - i /\ \A j \in 1..(Len(q) - i) : b[j] = q[i + j]
  BY <1>1
<1>4. RemoveAt(q, i) = a \o b
  BY DEF RemoveAt
<1> HIDE DEF a, b
<1>5. a \o b \in Seq(Msg) /\ Len(a \o b) = Len(q) - 1
  BY <1>1, <1>2, <1>3
<1>6. ASSUME NEW j \in 1..(Len(q) - 1)
      PROVE  (a \o b)[j] = IF j < i THEN q[j] ELSE q[j + 1]
  <2>1. CASE j < i
    <3>1. j \in 1..Len(a) /\ a[j] = q[j]
      BY <1>1, <1>2, <2>1
    <3>2. QED
      BY <1>2, <1>3, <2>1, <3>1
  <2>2. CASE j >= i
    <3> DEFINE k == j - (i - 1)
    <3>1. k \in 1..(Len(q) - i) /\ i + k = j + 1 /\ k = j - Len(a)
      BY <1>1, <1>2, <2>2
    <3>2. b[k] = q[j + 1]
      BY <1>3, <3>1
    <3>3. j \in 1..(Len(a) + Len(b)) /\ j > Len(a)
      BY <1>1, <1>2, <1>3, <2>2
    <3>4. (a \o b)[j] = b[j - Len(a)]
      <4>1. (a \o b)[j] = IF j <= Len(a) THEN a[j] ELSE b[j - Len(a)]
        BY <1>2, <1>3, <3>3, ConcatAt
      <4>2. ~(j <= Len(a))
        BY <1>1, <1>2, <3>3
      <4>3. QED
        BY <4>1, <4>2
    <3>5. QED
      <4>1. (a \o b)[j] = q[j + 1]
        BY <3>1, <3>2, <3>4
      <4>2. ~(j < i)
        BY <1>1, <2>2
      <4>3. QED
        BY <4>1, <4>2
  <2>3. j < i \/ j >= i
    BY <1>1
  <2>4. QED
    BY <2>1, <2>2, <2>3
<1>7. QED
  BY <1>4, <1>5, <1>6

\* Putting a message at a position of a sequence.
LEMMA InsertAtFacts ==
  ASSUME NEW q \in Seq(Msg), NEW m \in Msg, NEW i \in 1..(Len(q) + 1)
  PROVE  /\ InsertAt(q, i, m) \in Seq(Msg) /\ Len(InsertAt(q, i, m)) = Len(q) + 1
         /\ \A j \in 1..(Len(q) + 1) :
              InsertAt(q, i, m)[j] = IF j < i THEN q[j] ELSE IF j = i THEN m ELSE q[j - 1]
<1> DEFINE a == SubSeq(q, 1, i - 1)
           b == SubSeq(q, i, Len(q))
           c == a \o <<m>>
<1>1. i \in Nat /\ 1 <= i /\ i <= Len(q) + 1 /\ Len(q) \in Nat
  OBVIOUS
<1>2. a \in Seq(Msg) /\ Len(a) = i - 1 /\ \A j \in 1..(i - 1) : a[j] = q[j]
  BY <1>1
<1>3. b \in Seq(Msg) /\ Len(b) = Len(q) + 1 - i /\ \A j \in 1..(Len(q) + 1 - i) : b[j] = q[i + j - 1]
  BY <1>1
<1> HIDE DEF a, b
<1>4. c \in Seq(Msg) /\ Len(c) = i /\ c[i] = m /\ \A j \in 1..(i - 1) : c[j] = q[j]
  BY <1>1, <1>2
<1>5. InsertAt(q, i, m) = c \o b
  BY DEF InsertAt, a, b
<1> HIDE DEF c
<1>6. c \o b \in Seq(Msg) /\ Len(c \o b) = Len(q) + 1
  BY <1>1, <1>3, <1>4
<1>7. ASSUME NEW j \in 1..(Len(q) + 1)
      PROVE  (c \o b)[j] = IF j < i THEN q[j] ELSE IF j = i THEN m ELSE q[j - 1]
  <2>1. CASE j <= i
    BY <1>1, <1>3, <1>4, <2>1
  <2>2. CASE j > i
    <3>1. j - i \in 1..Len(b) /\ b[j - i] = q[j - 1]
      BY <1>1, <1>3, <2>2
    <3>2. (c \o b)[j] = b[j - Len(c)]
      BY <1>1, <1>3, <1>4, <2>2
    <3>3. QED
      BY <1>1, <1>4, <2>2, <3>1, <3>2
  <2>3. j <= i \/ j > i
    BY <1>1
  <2>4. QED
    BY <2>1, <2>2, <2>3
<1>8. QED
  BY <1>5, <1>6, <1>7

\* remove takes one entry with the message out and keeps the order of the rest.
LEMMA RemoveFacts ==
  ASSUME NEW q \in Seq(Msg), NEW m \in ToSet(q)
  PROVE  LET r == RemoveFirst(q, m) IN
         /\ r \in Seq(Msg) /\ Len(r) = Len(q) - 1 /\ Len(q) > 0
         /\ ToSet(r) \subseteq ToSet(q) /\ ToSet(q) \subseteq ToSet(r) \cup {m}
         /\ Distinct(q) => Distinct(r) /\ m \notin ToSet(r)
         /\ InBands(q) => InBands(r)
         /\ m = Head(q) => r = Tail(q)
         /\ \E k \in DOMAIN q : q[k] = m /\ r = RemoveAt(q, k)
<1> DEFINE S == {k \in 1..Len(q) : q[k] = m}
           i == Min(S)
           r == RemoveAt(q, i)
<1>1. S \in SUBSET Nat /\ S # {}
  BY DEF ToSet
<1>2. i \in S /\ \A k \in S : i <= k
  BY <1>1, MinFacts
<1>3. RemoveFirst(q, m) = r
  <2>1. \E k \in 1..Len(q) : q[k] = m
    BY <1>1
  <2>2. S # {}
    BY <1>1
  <2>3. QED
    BY <2>1, <2>2 DEF RemoveFirst, SelectInSeq
<1> HIDE DEF i
<1>4. i \in 1..Len(q) /\ q[i] = m /\ \A k \in 1..Len(q) : q[k] = m => i <= k
  BY <1>2
<1>5. /\ r \in Seq(Msg) /\ Len(r) = Len(q) - 1 /\ Len(q) \in Nat
      /\ \A j \in 1..(Len(q) - 1) : r[j] = IF j < i THEN q[j] ELSE q[j + 1]
  BY <1>4, RemoveAtFacts
<1> HIDE DEF r, S
<1>6. ToSet(r) \subseteq ToSet(q)
  <2>1. ASSUME NEW j \in DOMAIN r PROVE r[j] \in ToSet(q)
    <3>1. j \in 1..(Len(q) - 1) /\ j \in DOMAIN q /\ j + 1 \in DOMAIN q
      BY <1>5
    <3>2. r[j] = q[j] \/ r[j] = q[j + 1]
      BY <1>5, <3>1
    <3>3. QED
      BY <3>1, <3>2 DEF ToSet
  <2>2. QED
    BY <2>1 DEF ToSet
<1>7. ToSet(q) \subseteq ToSet(r) \cup {m}
  <2>1. ASSUME NEW k \in DOMAIN q, k # i PROVE q[k] \in ToSet(r)
    <3>1. CASE k < i
      <4>1. k \in DOMAIN r /\ r[k] = q[k]
        BY <1>4, <1>5, <3>1
      <4>2. QED
        BY <4>1 DEF ToSet
    <3>2. CASE k > i
      <4>1. k - 1 \in DOMAIN r /\ r[k - 1] = q[k]
        BY <1>4, <1>5, <3>2
      <4>2. QED
        BY <4>1 DEF ToSet
    <3>3. QED
      BY <1>4, <2>1, <3>1, <3>2
  <2>2. QED
    BY <1>4, <2>1 DEF ToSet
<1> DEFINE at(j) == IF j < i THEN j ELSE j + 1
<1>8. \A j \in DOMAIN r : at(j) \in DOMAIN q /\ r[j] = q[at(j)] /\ at(j) # i
  BY <1>4, <1>5
<1>9. \A j, k \in DOMAIN r : (j <= k => at(j) <= at(k)) /\ (at(j) = at(k) => j = k)
  BY <1>4, <1>5
<1> HIDE DEF at
<1>10. Distinct(q) => Distinct(r) /\ m \notin ToSet(r)
  BY <1>4, <1>8, <1>9 DEF Distinct, ToSet
<1>11. InBands(q) => InBands(r)
  BY <1>8, <1>9 DEF InBands
<1>12. m = Head(q) => r = Tail(q)
  <2>1. ASSUME m = Head(q) PROVE r = Tail(q)
    <3>1. i = 1
      BY <1>4, <2>1
    <3>2. Len(Tail(q)) = Len(r) /\ Tail(q) \in Seq(Msg) /\ \A j \in 1..Len(r) : Tail(q)[j] = r[j]
      BY <1>4, <1>5, <3>1
    <3>3. QED
      BY <1>5, <3>2
  <2>2. QED
    BY <2>1
<1>13. \E k \in DOMAIN q : q[k] = m /\ r = RemoveAt(q, k)
  <2>1. i \in DOMAIN q /\ q[i] = m
    BY <1>4
  <2>2. QED
    BY <2>1 DEF r
<1>14. QED
  BY <1>3, <1>4, <1>5, <1>6, <1>7, <1>10, <1>11, <1>12, <1>13

\* enqueue puts a message behind all that is not less urgent, and leaves the rest.
LEMMA InsertFacts ==
  ASSUME NEW q \in Seq(Msg), NEW m \in Msg
  PROVE  LET r == Inserted(q, m) IN
         /\ r \in Seq(Msg) /\ Len(r) = Len(q) + 1 /\ ToSet(r) = ToSet(q) \cup {m}
         /\ Distinct(q) /\ m \notin ToSet(q) => Distinct(r)
         /\ InBands(q) =>
              /\ InBands(r)
              /\ \E i \in 1..(Len(q) + 1) :
                   /\ \A j \in 1..(i - 1) : Rank(q[j]) <= Rank(m)
                   /\ \A j \in i..Len(q) : Rank(q[j]) > Rank(m)
                   /\ r = InsertAt(q, i, m)
<1> DEFINE later == {i \in DOMAIN q : Rank(q[i]) > Rank(m)}
           i == IF later = {} THEN Len(q) + 1 ELSE Min(later)
           r == InsertAt(q, i, m)
<1>1. Len(q) \in Nat /\ DOMAIN q = 1..Len(q) /\ \A x : Rank(x) \in Nat
  BY RankType
<1>2. /\ i \in 1..(Len(q) + 1) /\ (i <= Len(q) => Rank(q[i]) > Rank(m))
      /\ \A j \in 1..(i - 1) : Rank(q[j]) <= Rank(m)
  <2>1. CASE later = {}
    <3>1. i = Len(q) + 1
      BY <2>1
    <3>2. \A j \in 1..Len(q) : ~(Rank(q[j]) > Rank(m))
      BY <1>1, <2>1
    <3> HIDE DEF i
    <3>3. QED
      BY <1>1, <3>1, <3>2
  <2>2. CASE later # {}
    <3>0. i = Min(later) /\ later \in SUBSET Nat
      BY <1>1, <2>2
    <3>1. i \in later /\ \A j \in later : i <= j
      <4> HIDE DEF later, i
      <4>1. QED
        BY <2>2, <3>0, MinFacts
    <3> HIDE DEF i
    <3>2. i \in 1..Len(q) /\ Rank(q[i]) > Rank(m)
      BY <1>1, <3>1
    <3>3. \A j \in 1..(i - 1) : j \in 1..Len(q) /\ ~(Rank(q[j]) > Rank(m))
      BY <1>1, <3>1, <3>2
    <3>4. QED
      BY <1>1, <3>2, <3>3
  <2>3. QED
    BY <2>1, <2>2
<1>3. Inserted(q, m) = r
  BY DEF Inserted
<1> HIDE DEF i
<1>4. /\ r \in Seq(Msg) /\ Len(r) = Len(q) + 1
      /\ \A j \in 1..(Len(q) + 1) :
           r[j] = IF j < i THEN q[j] ELSE IF j = i THEN m ELSE q[j - 1]
  BY <1>2, InsertAtFacts
<1> HIDE DEF r
<1> DEFINE at(j) == IF j < i THEN j ELSE j - 1
<1>5. DOMAIN r = 1..(Len(q) + 1) /\ i \in DOMAIN r /\ r[i] = m
  BY <1>1, <1>2, <1>4
<1>6. \A j \in DOMAIN r \ {i} : at(j) \in DOMAIN q /\ r[j] = q[at(j)]
  BY <1>1, <1>2, <1>4, <1>5
<1>7. \A j \in DOMAIN q : \E k \in DOMAIN r \ {i} : at(k) = j
  <2>1. ASSUME NEW j \in DOMAIN q PROVE \E k \in DOMAIN r \ {i} : at(k) = j
    <3>1. CASE j < i
      BY <1>1, <1>2, <1>5, <3>1
    <3>2. CASE j >= i
      <4>1. j + 1 \in DOMAIN r \ {i} /\ at(j + 1) = j
        BY <1>1, <1>2, <1>5, <3>2
      <4>2. QED
        BY <4>1
    <3>3. QED
      BY <1>1, <1>2, <3>1, <3>2
  <2>2. QED
    BY <2>1
<1>8. \A j, k \in DOMAIN r \ {i} : (j <= k => at(j) <= at(k)) /\ (at(j) = at(k) => j = k)
  BY <1>1, <1>2, <1>5
<1>9. \A j \in DOMAIN r \ {i} : (j < i => at(j) \in 1..(i - 1)) /\ (j > i => at(j) \in i..Len(q))
  BY <1>1, <1>2, <1>5
<1> HIDE DEF at
<1>10. ToSet(r) = ToSet(q) \cup {m}
  BY <1>5, <1>6, <1>7 DEF ToSet
<1>11. Distinct(q) /\ m \notin ToSet(q) => Distinct(r)
  BY <1>5, <1>6, <1>8 DEF Distinct, ToSet
<1>12. ASSUME InBands(q)
       PROVE  InBands(r) /\ \A j \in i..Len(q) : Rank(q[j]) > Rank(m)
  <2>1. \A j \in i..Len(q) : Rank(q[j]) > Rank(m)
    <3>1. ASSUME NEW j \in i..Len(q) PROVE Rank(q[j]) > Rank(m)
      <4>1. i \in DOMAIN q /\ j \in DOMAIN q /\ i <= j
        BY <1>1, <1>2
      <4>2. Rank(q[i]) <= Rank(q[j]) /\ Rank(q[i]) > Rank(m)
        BY <1>1, <1>2, <1>12, <4>1 DEF InBands
      <4>3. QED
        BY <1>1, <4>2
    <3>2. QED
      BY <3>1
  <2>2. ASSUME NEW j \in DOMAIN r, NEW k \in DOMAIN r, j <= k
        PROVE  Rank(r[j]) <= Rank(r[k])
    <3>1. CASE j # i /\ k # i
      BY <1>6, <1>8, <1>12, <2>2, <3>1 DEF InBands
    <3>2. CASE j = i /\ k # i
      <4>1. k > i
        BY <1>1, <1>2, <1>5, <2>2, <3>2
      <4>2. Rank(r[k]) > Rank(m)
        BY <1>6, <1>9, <2>1, <3>2, <4>1
      <4>3. QED
        BY <1>1, <1>5, <3>2, <4>2
    <3>3. CASE j # i /\ k = i
      <4>1. j < i
        BY <1>1, <1>2, <1>5, <2>2, <3>3
      <4>2. Rank(r[j]) <= Rank(m)
        BY <1>2, <1>6, <1>9, <3>3, <4>1
      <4>3. QED
        BY <1>1, <1>5, <3>3, <4>2
    <3>4. CASE j = i /\ k = i
      BY <1>1, <3>4
    <3>5. QED
      BY <3>1, <3>2, <3>3, <3>4
  <2>3. QED
    BY <2>1, <2>2 DEF InBands
<1>13. InBands(q) =>
         /\ InBands(r)
         /\ \E k \in 1..(Len(q) + 1) :
              /\ \A j \in 1..(k - 1) : Rank(q[j]) <= Rank(m)
              /\ \A j \in k..Len(q) : Rank(q[j]) > Rank(m)
              /\ r = InsertAt(q, k, m)
  BY <1>2, <1>12 DEF r
<1>14. QED
  BY <1>3, <1>4, <1>10, <1>11, <1>13

\* normalizeQueueState only moves entries: each position is the place of one.
LEMMA BandedFacts ==
  ASSUME NEW q \in Seq(Msg)
  PROVE  Banded(q) \in Seq(Msg) /\ Len(Banded(q)) = Len(q) /\ ToSet(Banded(q)) = ToSet(q)
<1> DEFINE D == DOMAIN q
           ahead(k) == {i \in D : Before(q, i, k)}
<1>1. D = 1..Len(q) /\ Len(q) \in Nat /\ IsFiniteSet(D) /\ Cardinality(D) = Len(q)
  BY DomainFacts
<1>2. \A x : Rank(x) \in Nat
  BY RankType
<1>3. ASSUME NEW k \in D
      PROVE  /\ IsFiniteSet(ahead(k)) /\ Cardinality(ahead(k)) \in 0..(Len(q) - 1)
             /\ Place(q, k) = Cardinality(ahead(k)) + 1 /\ Place(q, k) \in D
  <2>1. ahead(k) \in SUBSET D /\ k \notin ahead(k)
    BY <1>1, <1>2 DEF Before
  <2>2. /\ IsFiniteSet(ahead(k)) /\ Cardinality(ahead(k)) <= Cardinality(D)
        /\ Cardinality(ahead(k)) = Cardinality(D) => ahead(k) = D
    BY <1>1, <2>1, FS_Subset
  <2>3. Cardinality(ahead(k)) # Cardinality(D) /\ Cardinality(ahead(k)) \in Nat
    BY <2>1, <2>2, FS_CardinalityType
  <2>4. Place(q, k) = Cardinality(ahead(k)) + 1
    BY DEF Place
  <2> HIDE DEF ahead
  <2>5. QED
    BY <1>1, <2>2, <2>3, <2>4
<1>4. ASSUME NEW i \in D, NEW k \in D, Before(q, i, k) PROVE Place(q, i) < Place(q, k)
  <2>1. ahead(i) \subseteq ahead(k)
    BY <1>1, <1>2, <1>4 DEF Before
  <2>2. i \in ahead(k) /\ i \notin ahead(i)
    BY <1>1, <1>2, <1>4 DEF Before
  <2>3. /\ Cardinality(ahead(i)) <= Cardinality(ahead(k))
        /\ Cardinality(ahead(i)) = Cardinality(ahead(k)) => ahead(i) = ahead(k)
    BY <1>3, <2>1, FS_Subset
  <2>4. Cardinality(ahead(i)) # Cardinality(ahead(k))
    BY <2>2, <2>3
  <2> HIDE DEF ahead
  <2>5. Cardinality(ahead(i)) \in Nat /\ Cardinality(ahead(k)) \in Nat
    BY <1>1, <1>3
  <2>6. Place(q, i) = Cardinality(ahead(i)) + 1 /\ Place(q, k) = Cardinality(ahead(k)) + 1
    BY <1>3
  <2>7. QED
    BY <2>3, <2>4, <2>5, <2>6
<1>5. \A i, k \in D : i # k => Before(q, i, k) \/ Before(q, k, i)
  BY <1>1, <1>2 DEF Before
<1> HIDE DEF ahead
<1>6. \A i, k \in D : Place(q, i) = Place(q, k) => i = k
  <2>1. ASSUME NEW i \in D, NEW k \in D, i # k PROVE Place(q, i) # Place(q, k)
    <3>1. Place(q, i) < Place(q, k) \/ Place(q, k) < Place(q, i)
      BY <1>4, <1>5, <2>1
    <3>2. Place(q, i) \in Nat /\ Place(q, k) \in Nat
      BY <1>1, <1>3
    <3>3. QED
      BY <3>1, <3>2
  <2>2. QED
    BY <2>1
<1> DEFINE P == [k \in D |-> Place(q, k)]
<1>7. P \in [D -> D] /\ P \in Injection(D, D)
  BY <1>3, <1>6 DEF Injection, IsInjective
<1>8. P \in Surjection(D, D)
  BY <1>1, <1>7, FS_Injection DEF Bijection
<1>9. \A n \in D : \E k \in D : Place(q, k) = n
  BY <1>8 DEF Surjection
<1> DEFINE at(n) == CHOOSE k \in D : Place(q, k) = n
<1>10. \A n \in D : at(n) \in D /\ Place(q, at(n)) = n
  BY <1>9
<1>11. Banded(q) = [n \in D |-> q[at(n)]]
  BY DEF Banded
<1> HIDE DEF at, P
<1>12. \A k \in D : at(Place(q, k)) = k
  BY <1>3, <1>6, <1>10
<1>13. Banded(q) \in Seq(Msg) /\ Len(Banded(q)) = Len(q)
  BY <1>1, <1>10, <1>11
<1>14. ToSet(Banded(q)) \subseteq ToSet(q)
  BY <1>10, <1>11 DEF ToSet
<1>15. ToSet(q) \subseteq ToSet(Banded(q))
  <2>1. ASSUME NEW k \in D PROVE q[k] \in ToSet(Banded(q))
    <3>1. Place(q, k) \in DOMAIN Banded(q) /\ Banded(q)[Place(q, k)] = q[k]
      BY <1>3, <1>11, <1>12, <2>1
    <3>2. QED
      BY <3>1 DEF ToSet
  <2>2. QED
    BY <2>1 DEF ToSet
<1>16. QED
  BY <1>13, <1>14, <1>15

\* An order of all the messages of a queue, each once.
LEMMA ReorderFacts ==
  ASSUME NEW q \in Seq(Msg), NEW new \in SetToSeqs(ToSet(q))
  PROVE  /\ new \in Seq(Msg) /\ Len(new) <= Len(q) /\ ToSet(new) = ToSet(q) /\ Distinct(new)
         /\ Distinct(q) => Len(new) = Len(q)
<1> DEFINE T == ToSet(q)
           n == Cardinality(T)
<1>1. DOMAIN q = 1..Len(q) /\ Len(q) \in Nat /\ IsFiniteSet(DOMAIN q) /\ Cardinality(DOMAIN q) = Len(q)
  BY DomainFacts
<1>2. q \in Surjection(DOMAIN q, T) /\ T \subseteq Msg
  BY DEF Surjection, ToSet
<1>3. IsFiniteSet(T) /\ n <= Len(q) /\ (Distinct(q) => n = Len(q))
  <2>1. /\ IsFiniteSet(T) /\ n <= Cardinality(DOMAIN q)
        /\ n = Cardinality(DOMAIN q) <=> q \in Injection(DOMAIN q, T)
    BY <1>1, <1>2, FS_Surjection
  <2>2. Distinct(q) => q \in Injection(DOMAIN q, T)
    BY <1>2 DEF Distinct, Injection, IsInjective, Surjection
  <2>3. QED
    BY <1>1, <2>1, <2>2
<1>4. n \in Nat
  BY <1>3, FS_CardinalityType
<1> HIDE DEF n
<1>5. new \in [1..n -> T] /\ \A i, j \in 1..n : i # j => new[i] # new[j]
  BY DEF SetToSeqs, n
<1>6. IsFiniteSet(1..n) /\ Cardinality(1..n) = n
  BY <1>4, FS_Interval
<1>7. new \in Injection(1..n, T)
  BY <1>5 DEF Injection, IsInjective
<1>8. new \in Surjection(1..n, T)
  BY <1>3, <1>6, <1>7, FS_Injection DEF n, Bijection
<1> HIDE DEF T
<1>9. new \in Seq(Msg) /\ Len(new) = n /\ DOMAIN new = 1..n
  BY <1>2, <1>4, <1>5
<1>10. ToSet(new) = T
  BY <1>5, <1>8, <1>9 DEF Surjection, ToSet
<1>11. Distinct(new)
  BY <1>5, <1>9 DEF Distinct
<1>12. QED
  BY <1>3, <1>9, <1>10, <1>11 DEF T

(***************************************************************************)
(* Drains                                                                  *)
(***************************************************************************)

\* What a drain may be.
DrainType ==
  [at : {"none", "scheduled", "waiting", "rotating", "resumed"},
   force : BOOLEAN, again : BOOLEAN, againForce : BOOLEAN]
Drains == [Runtime -> DrainType]

\* A session without a drain, and one whose drain was just asked for.
LEMMA NoDrainFacts ==
  ASSUME NEW f \in BOOLEAN
  PROVE  /\ NoDrain \in DrainType /\ NoDrain.at = "none"
         /\ [NoDrain EXCEPT !.at = "scheduled", !.force = f] \in DrainType
         /\ [NoDrain EXCEPT !.at = "scheduled", !.force = f].at = "scheduled"
  BY DEF NoDrain, DrainType

\* A drain that is asked for is on its way; one that is under way stays where it is.
LEMMA ScheduledFacts ==
  ASSUME NEW d \in Drains, NEW s \in Runtime, NEW f \in BOOLEAN
  PROVE  LET e == Scheduled(d, s, f) IN
         /\ e \in Drains /\ e[s].at # "none"
         /\ e[s].at = d[s].at \/ (d[s].at = "none" /\ e[s].at = "scheduled")
         /\ \A r \in Runtime \ {s} : e[r] = d[r]
<1>1. CASE d[s].at = "none"
  <2> DEFINE v == [NoDrain EXCEPT !.at = "scheduled", !.force = f]
  <2>1. v \in DrainType /\ v.at = "scheduled"
    BY NoDrainFacts
  <2>2. Scheduled(d, s, f) = [d EXCEPT ![s] = v]
    BY <1>1 DEF Scheduled
  <2> HIDE DEF v
  <2>3. QED
    BY <1>1, <2>1, <2>2 DEF Drains
<1>2. CASE d[s].at # "none"
  <2> DEFINE v == [d[s] EXCEPT !.again = TRUE, !.againForce = @ \/ f]
  <2>1. d[s] \in DrainType
    BY DEF Drains
  <2>2. v \in DrainType /\ v.at = d[s].at
    BY <2>1 DEF DrainType
  <2>3. Scheduled(d, s, f) = [d EXCEPT ![s] = v]
    BY <1>2, <2>1 DEF Scheduled, Drains
  <2> HIDE DEF v
  <2>4. QED
    BY <1>2, <2>2, <2>3 DEF Drains
<1>3. QED
  BY <1>1, <1>2

\* A drain that ends is gone, or the one asked for meanwhile is on its way.
LEMMA FinishedFacts ==
  ASSUME NEW d \in Drains, NEW s \in Runtime
  PROVE  LET e == Finished(d, s) IN
         /\ e \in Drains /\ e[s].at \in {"none", "scheduled"}
         /\ \A r \in Runtime \ {s} : e[r] = d[r]
<1>1. d[s].againForce \in BOOLEAN
  BY DEF Drains, DrainType
<1> DEFINE v == IF d[s].again THEN [NoDrain EXCEPT !.at = "scheduled", !.force = d[s].againForce]
                              ELSE NoDrain
<1>2. v \in DrainType /\ v.at \in {"none", "scheduled"}
  BY <1>1, NoDrainFacts
<1>3. Finished(d, s) = [d EXCEPT ![s] = v]
  BY DEF Finished
<1> HIDE DEF v
<1>4. QED
  BY <1>2, <1>3 DEF Drains

\* Moving a drain on.
LEMMA MovedFacts ==
  ASSUME NEW d \in Drains, NEW s \in Runtime, NEW a \in {"waiting", "rotating", "resumed"}
  PROVE  LET e == [d EXCEPT ![s].at = a] IN
         /\ e \in Drains /\ e[s].at = a
         /\ \A r \in Runtime \ {s} : e[r] = d[r]
<1> DEFINE v == [d[s] EXCEPT !.at = a]
<1>1. v \in DrainType /\ v.at = a
  BY DEF Drains, DrainType
<1>2. [d EXCEPT ![s].at = a] = [d EXCEPT ![s] = v]
  OBVIOUS
<1> HIDE DEF v
<1>3. QED
  BY <1>1, <1>2 DEF Drains

\* Only the drains that waited for the rotation move on.
LEMMA ResumedFacts ==
  ASSUME drain \in Drains
  PROVE  /\ DrainsResumed \in Drains
         /\ \A s \in Runtime :
              \/ DrainsResumed[s] = drain[s] /\ drain[s].at # "waiting"
              \/ drain[s].at = "waiting" /\ DrainsResumed[s].at = "resumed"
<1>1. ASSUME NEW s \in Runtime
      PROVE  /\ DrainsResumed[s] \in DrainType
             /\ \/ DrainsResumed[s] = drain[s] /\ drain[s].at # "waiting"
                \/ drain[s].at = "waiting" /\ DrainsResumed[s].at = "resumed"
  <2>1. drain[s] \in DrainType
    BY DEF Drains
  <2>2. DrainsResumed[s] = IF drain[s].at = "waiting" THEN [drain[s] EXCEPT !.at = "resumed"]
                                                      ELSE drain[s]
    BY DEF DrainsResumed
  <2>3. QED
    BY <2>1, <2>2 DEF DrainType
<1>2. QED
  BY <1>1 DEF DrainsResumed, Drains

(***************************************************************************)
(* The inductive invariant                                                 *)
(***************************************************************************)

\* A settings change, a rotation and a held request remember a runtime; only a held
\* request uses a session it looked up before.
RefInv ==
  /\ swap # NoSwap => swap.of \in Runtime
  /\ \A m \in Msg :
       /\ req[m] \in {"holding", "rotating"} => ref[m] \in Runtime
       /\ req[m] = "holding" => m \in Held

\* A drain that waits for a rotation has found no current message and there is
\* none until it ends; a current message has been handed over; a runtime that
\* has not had the name has been given nothing.
CurInv ==
  \A s \in Runtime :
    /\ drain[s].at \in {"waiting", "rotating", "resumed"} => cur[s] = None
    /\ cur[s] \in handed \cup {None}
    /\ s > slot => cur[s] = None /\ ~rotate[s] /\ ~inbox[s] /\ ~turn[s]

Base == TypeOK /\ RefInv /\ CurInv

(***************************************************************************)
(* What a step does to the messages                                        *)
(***************************************************************************)

\* enqueue: m waits for runtime s.
Joins(m, s) ==
  /\ req[m] \in {"idle", "holding"} /\ (req[m] = "idle" => m \notin Held /\ s = slot)
  /\ s \in Runtime /\ Len(queue[s]) < Limit
  /\ queue' = [queue EXCEPT ![s] = Inserted(queue[s], m)]
  /\ req' = [req EXCEPT ![m] = "queued"]
  /\ UNCHANGED <<slot, cur, handed, served, removed>>

\* A drain hands the head of the queue over.
Hands(m) ==
  /\ queue[slot] # <<>> /\ m = Head(queue[slot]) /\ cur[slot] = None
  /\ queue' = [queue EXCEPT ![slot] = RemoveFirst(queue[slot], m)]
  /\ cur' = [cur EXCEPT ![slot] = m]
  /\ handed' = handed \cup {m}
  /\ UNCHANGED <<slot, req, served, removed>>

\* A direct send passes the queue.
Sends(m) ==
  /\ req[m] \in {"idle", "resumed"}
  /\ req' = [req EXCEPT ![m] = "sent"]
  /\ handed' = handed \cup {m}
  /\ UNCHANGED <<slot, queue, cur, served, removed>>

\* A reorder.
Sorts(new) ==
  /\ new \in SetToSeqs(ToSet(queue[slot]))
  /\ \A i \in DOMAIN new : Priority[new[i]] = Priority[queue[slot][i]]
  /\ queue' = [queue EXCEPT ![slot] = new]
  /\ UNCHANGED <<slot, cur, req, handed, served, removed>>

\* A removal.
Takes(m) ==
  /\ m \in ToSet(queue[slot])
  /\ queue' = [queue EXCEPT ![slot] = RemoveFirst(queue[slot], m)]
  /\ removed' = removed \cup {m}
  /\ UNCHANGED <<slot, cur, req, handed, served>>

\* The queue is cleared.
Empties ==
  /\ queue' = [queue EXCEPT ![slot] = <<>>]
  /\ removed' = removed \cup ToSet(queue[slot])
  /\ UNCHANGED <<slot, cur, req, handed, served>>

\* The turn of a runtime ends.
Ends(s) ==
  /\ cur' = [cur EXCEPT ![s] = None]
  /\ served' = served \cup ({cur[s]} \ {None})
  /\ UNCHANGED <<slot, queue, req, handed, removed>>

\* No request enters or leaves the queue or the provider.
ReqStays ==
  \A m \in Msg : \/ req'[m] = req[m]
                 \/ req[m] \notin {"queued", "sent"} /\ req'[m] \notin {"queued", "sent"}

\* A rotation puts a fresh runtime behind the name, with the queue of the old one.
Renews(old) ==
  /\ \/ rotating = old \/ drain[old].at = "rotating"
     \/ \E m \in Msg : req[m] = "rotating" /\ ref[m] = old
  /\ slot + 1 \in Runtime /\ slot' = slot + 1
  /\ queue' = [queue EXCEPT ![slot + 1] = queue[old]]
  /\ ReqStays
  /\ UNCHANGED <<cur, handed, served, removed>>

\* A settings change replaces the runtime; the current message waits again.
Swaps ==
  /\ swap # NoSwap /\ swap.of \in Runtime
  /\ slot + 1 \in Runtime /\ slot' = slot + 1
  /\ queue' = [queue EXCEPT ![slot + 1] = PutBack(swap.of)]
  /\ UNCHANGED <<cur, req, handed, served, removed>>

\* No message moves.
Stays ==
  ReqStays /\ UNCHANGED <<slot, queue, cur, handed, served, removed>>

Moves ==
  \/ \E m \in Msg : (\E s \in Runtime : Joins(m, s)) \/ Hands(m) \/ Sends(m) \/ Takes(m)
  \/ \E new \in SetToSeqs(ToSet(queue[slot])) : Sorts(new)
  \/ \E s \in Runtime : Ends(s) \/ Renews(s)
  \/ Empties \/ Swaps \/ Stays

\* The types the moves need.
LEMMA Facts ==
  ASSUME TypeOK
  PROVE  /\ slot \in Runtime /\ slot \in Nat /\ MaxRuntimes \in Nat
         /\ queue \in [Runtime -> Seq(Msg)] /\ cur \in [Runtime -> Msg \cup {None}]
         /\ drain \in Drains /\ req \in [Msg -> {"idle", "holding", "waiting", "rotating",
                                                "resumed", "queued", "sent", "refused"}]
         /\ handed \subseteq Msg /\ served \subseteq handed /\ removed \subseteq Msg
         /\ None \notin Msg /\ Limit \in Nat
  BY QueueAssumption DEF TypeOK, Drains, DrainType, Runtime

\* The head of a queue is a message of it.
LEMMA HeadFacts ==
  ASSUME NEW q \in Seq(Msg), q # <<>>
  PROVE  Head(q) \in ToSet(q) /\ ToSet(q) \subseteq Msg /\ Head(q) \in Msg
<1>1. 1 \in DOMAIN q /\ Head(q) = q[1]
  OBVIOUS
<1>2. ToSet(q) \subseteq Msg
  BY DEF ToSet
<1>3. QED
  BY <1>1, <1>2 DEF ToSet

\* The end of drainQueuedMessages hands the head over or moves no message.
LEMMA DrainHeadMoves ==
  ASSUME TypeOK, NEW s \in Runtime, s = slot, cur[s] = None, DrainHead(s),
         UNCHANGED <<slot, req, served, removed>>
  PROVE  Moves
<1> DEFINE m == Head(queue[s])
<1>1. CASE UNCHANGED <<queue, cur, handed>>
  BY <1>1 DEF Moves, Stays, ReqStays
<1>2. CASE Due(s) /\ Dispatch(s, m) /\ cur' = [cur EXCEPT ![s] = m]
           /\ queue' = [queue EXCEPT ![s] = RemoveFirst(@, m)]
  <2>1. queue[s] # <<>> /\ queue[s] \in Seq(Msg)
    BY <1>2, Facts DEF Due
  <2>2. m \in Msg
    BY <2>1, HeadFacts
  <2>3. handed' = handed \cup {m}
    BY <1>2 DEF Dispatch
  <2>4. Hands(m)
    BY <1>2, <2>1, <2>3 DEF Hands
  <2>5. QED
    BY <2>2, <2>4 DEF Moves
<1>3. QED
  BY <1>1, <1>2 DEF DrainHead

\* Every step is one of the moves.
LEMMA StepMoves == Base /\ [Next]_vars => Moves
<1> SUFFICES ASSUME Base, [Next]_vars PROVE Moves
  OBVIOUS
<1> USE DEF Base
<1>0. TypeOK
  BY DEF Base
<1>1. ASSUME NEW s \in Runtime, RunDrain(s) PROVE Moves
  <2>1. CASE slot = s /\ cur[s] = None /\ DrainHead(s)
    BY <1>0, <1>1, <2>1, DrainHeadMoves DEF RunDrain
  <2>2. CASE UNCHANGED <<queue, cur, handed>>
    BY <1>1, <2>2 DEF RunDrain, Moves, Stays, ReqStays
  <2>3. QED
    BY <1>1, <2>1, <2>2 DEF RunDrain
<1>2. ASSUME NEW s \in Runtime, ResumeDrain(s) PROVE Moves
  <2>1. CASE slot = s /\ DrainHead(s)
    <3>1. cur[s] = None
      BY <1>2 DEF ResumeDrain, CurInv
    <3>2. QED
      BY <1>0, <1>2, <2>1, <3>1, DrainHeadMoves DEF ResumeDrain
  <2>2. CASE UNCHANGED <<queue, cur, handed>>
    BY <1>2, <2>2 DEF ResumeDrain, Moves, Stays, ReqStays
  <2>3. QED
    BY <1>2, <2>1, <2>2 DEF ResumeDrain
<1>3. ASSUME NEW m \in Msg, NEW s \in Runtime, Enqueue(m, s),
             req[m] \in {"idle", "holding"}, req[m] = "idle" => m \notin Held /\ s = slot,
             UNCHANGED <<slot, cur, handed, served, removed>>
      PROVE  Moves
  <2>1. CASE HasRoom(s) /\ queue' = [queue EXCEPT ![s] = Inserted(@, m)]
             /\ req' = [req EXCEPT ![m] = "queued"]
    <3>1. Joins(m, s)
      BY <1>3, <2>1 DEF Joins, HasRoom
    <3>2. QED
      BY <3>1 DEF Moves
  <2>2. CASE req' = [req EXCEPT ![m] = "refused"] /\ UNCHANGED queue
    <3>1. ReqStays
      BY <1>0, <1>3, <2>2, Facts DEF ReqStays
    <3>2. QED
      BY <1>3, <2>2, <3>1 DEF Moves, Stays
  <2>3. QED
    BY <1>3, <2>1, <2>2 DEF Enqueue
<1>4. ASSUME NEW m \in Msg, QueueNow(m) PROVE Moves
  BY <1>0, <1>3, <1>4, Facts DEF QueueNow
<1>5. ASSUME NEW m \in Msg, QueueHeld(m) PROVE Moves
  BY <1>0, <1>3, <1>5, Facts DEF QueueHeld, RefInv
<1>6. ASSUME NEW m \in Msg, SendDirect(m), req[m] \in {"idle", "resumed"},
             UNCHANGED <<slot, queue, cur, served, removed>>
      PROVE  Moves
  <2>1. CASE handed' = handed \cup {m} /\ req' = [req EXCEPT ![m] = "sent"]
    BY <1>6, <2>1 DEF Moves, Sends
  <2>2. CASE handed' = handed /\ req' = [req EXCEPT ![m] = "refused"]
    <3>1. ReqStays
      BY <1>0, <1>6, <2>2, Facts DEF ReqStays
    <3>2. QED
      BY <1>6, <2>2, <3>1 DEF Moves, Stays
  <2>3. QED
    BY <1>6, <2>1, <2>2 DEF SendDirect, Dispatch
<1>7. ASSUME NEW m \in Msg, SendNow(m) PROVE Moves
  <2>1. CASE SendDirect(m)
    BY <1>6, <1>7, <2>1 DEF SendNow
  <2>2. CASE req' = [req EXCEPT ![m] = Waiting] /\ UNCHANGED handed
    <3>1. ReqStays
      BY <1>0, <1>7, <2>2, Facts DEF SendNow, ReqStays, Waiting
    <3>2. QED
      BY <1>7, <2>2, <3>1 DEF SendNow, Moves, Stays
  <2>3. QED
    BY <1>7, <2>1, <2>2 DEF SendNow
<1>8. ASSUME NEW m \in Msg, ResumeSend(m) PROVE Moves
  BY <1>6, <1>8 DEF ResumeSend
<1>9. ASSUME NEW m \in Msg, HoldSession(m) PROVE Moves
  <2>1. ReqStays
    BY <1>0, <1>9, Facts DEF HoldSession, ReqStays
  <2>2. QED
    BY <1>9, <2>1 DEF HoldSession, Moves, Stays
<1>10. ASSUME NEW m \in Msg, RemoveItem(m) PROVE Moves
  BY <1>10 DEF RemoveItem, Takes, Moves
<1>11. ASSUME NEW new \in SetToSeqs(ToSet(queue[slot])), Reorder(new) PROVE Moves
  BY <1>11 DEF Reorder, Sorts, Moves
<1>12. CASE Clear
  BY <1>12 DEF Clear, Empties, Moves
<1>13. ASSUME NEW s \in Runtime, TurnEnd(s) PROVE Moves
  BY <1>13 DEF TurnEnd, Ends, Moves
<1>14. ASSUME NEW old \in Runtime, NEW d, Rotated(old, d), ReqStays,
              \/ rotating = old \/ drain[old].at = "rotating"
              \/ \E m \in Msg : req[m] = "rotating" /\ ref[m] = old,
              UNCHANGED <<cur, handed, served, removed>>
       PROVE  Moves
  <2>1. slot + 1 \in Runtime
    BY <1>0, <1>14, Facts DEF Rotated, Runtime
  <2>2. Renews(old)
    BY <1>14, <2>1 DEF Rotated, CarriedOver, Renews
  <2>3. QED
    BY <2>2 DEF Moves
<1>15. CASE RotationEnds
  <2>1. CASE rotating # 0 /\ Rotated(rotating, DrainsResumed) /\ req' = SendsResumed
    <3>1. rotating \in Runtime
      BY <1>0, <2>1, Facts DEF TypeOK, Runtime
    <3>2. ReqStays
      BY <1>0, <2>1, Facts DEF SendsResumed, ReqStays
    <3>3. QED
      BY <1>14, <1>15, <2>1, <3>1, <3>2 DEF RotationEnds
  <2>2. ASSUME NEW s \in Runtime, drain[s].at = "rotating",
               Rotated(s, [drain EXCEPT ![s].at = "resumed"]), UNCHANGED req
        PROVE  Moves
    <3>1. ReqStays
      BY <2>2 DEF ReqStays
    <3>2. QED
      BY <1>14, <1>15, <2>2, <3>1 DEF RotationEnds
  <2>3. ASSUME NEW m \in Msg, req[m] = "rotating", Rotated(ref[m], drain),
               req' = [req EXCEPT ![m] = "resumed"]
        PROVE  Moves
    <3>1. ReqStays
      BY <1>0, <2>3, Facts DEF ReqStays
    <3>2. ref[m] \in Runtime
      BY <2>3 DEF RefInv
    <3>3. QED
      BY <1>14, <1>15, <2>3, <3>1, <3>2 DEF RotationEnds
  <2>4. QED
    BY <1>15, <2>1, <2>2, <2>3 DEF RotationEnds
<1>16. CASE RotationFails
  <2>1. ReqStays
    <3>1. CASE req' = SendsResumed
      BY <1>0, <3>1, Facts DEF SendsResumed, ReqStays
    <3>2. CASE UNCHANGED req
      BY <3>2 DEF ReqStays
    <3>3. ASSUME NEW m \in Msg, req[m] = "rotating", req' = [req EXCEPT ![m] = "resumed"]
          PROVE  ReqStays
      BY <1>0, <3>3, Facts DEF ReqStays
    <3>4. QED
      BY <1>16, <3>1, <3>2, <3>3 DEF RotationFails
  <2>2. QED
    BY <1>16, <2>1 DEF RotationFails, Moves, Stays
<1>17. CASE Swap
  <2>1. slot + 1 \in Runtime /\ swap.of \in Runtime
    BY <1>0, <1>17, Facts DEF Swap, Runtime, RefInv
  <2>2. Swaps
    BY <1>17, <2>1 DEF Swap, Swaps
  <2>3. QED
    BY <2>2 DEF Moves
<1>18. ASSUME UNCHANGED <<slot, queue, cur, req, handed, served, removed>> PROVE Moves
  BY <1>18 DEF Moves, Stays, ReqStays
<1>19. ASSUME NEW s \in Runtime, TimerFires(s) \/ TurnStart(s) \/ PipeDrains(s) PROVE Moves
  BY <1>18, <1>19 DEF TimerFires, TurnStart, PipeDrains
<1>20. ASSUME NEW idle \in BOOLEAN, StartSwap(idle) PROVE Moves
  BY <1>18, <1>20 DEF StartSwap
<1>21. CASE SwapFails \/ UNCHANGED vars
  BY <1>18, <1>21 DEF SwapFails, vars
<1>22. QED
  BY <1>1, <1>2, <1>4, <1>5, <1>7, <1>8, <1>9, <1>10, <1>11, <1>12, <1>13, <1>15, <1>16, <1>17,
     <1>19, <1>20, <1>21 DEF Next, Micro, Client

(***************************************************************************)
(* Types                                                                   *)
(***************************************************************************)

\* What a replacement takes over.
LEMMA PutBackFacts ==
  ASSUME TypeOK, NEW s \in Runtime
  PROVE  /\ PutBack(s) \in Seq(Msg)
         /\ Len(PutBack(s)) = Len(queue[s]) + (IF cur[s] = None THEN 0 ELSE 1)
         /\ ToSet(PutBack(s)) = ToSet(queue[s]) \cup ({cur[s]} \ {None})
<1>1. queue[s] \in Seq(Msg) /\ cur[s] \in Msg \cup {None}
  BY Facts
<1> DEFINE all == (IF cur[s] = None THEN <<>> ELSE <<cur[s]>>) \o queue[s]
<1>2. CASE cur[s] = None
  <2>1. all = queue[s]
    BY <1>1, <1>2
  <2> HIDE DEF all
  <2>2. PutBack(s) = Banded(all)
    BY DEF PutBack, all
  <2>3. QED
    BY <1>1, <1>2, <2>1, <2>2, BandedFacts
<1>3. CASE cur[s] # None
  <2> DEFINE one == <<cur[s]>>
  <2>1. all = one \o queue[s] /\ one \in Seq(Msg) /\ Len(one) = 1 /\ one[1] = cur[s]
    BY <1>1, <1>3
  <2> HIDE DEF one, all
  <2>2. all \in Seq(Msg) /\ Len(all) = Len(queue[s]) + 1 /\ Len(queue[s]) \in Nat
    <3> DEFINE q == queue[s]
    <3>1. q \in Seq(Msg)
      BY <1>1
    <3> HIDE DEF q
    <3>2. one \o q \in Seq(Msg) /\ Len(one \o q) = Len(one) + Len(q)
      BY <2>1, <3>1, ConcatType
    <3>3. Len(q) \in Nat
      BY <3>1
    <3>4. QED
      BY <2>1, <3>2, <3>3 DEF q
  <2>3. /\ \A j \in 1..(Len(queue[s]) + 1) :
             all[j] = IF j <= 1 THEN one[j] ELSE queue[s][j - 1]
    BY <1>1, <2>1, <2>2, ConcatAt
  <2>4. all[1] = cur[s] /\ \A j \in 1..Len(queue[s]) : all[j + 1] = queue[s][j]
    BY <2>1, <2>2, <2>3
  <2>5. ToSet(all) \subseteq ToSet(queue[s]) \cup {cur[s]}
    <3>1. ASSUME NEW j \in DOMAIN all PROVE all[j] \in ToSet(queue[s]) \cup {cur[s]}
      <4>1. CASE j = 1
        BY <2>4, <4>1
      <4>2. CASE j # 1
        <5>1. j - 1 \in DOMAIN queue[s] /\ all[j] = queue[s][j - 1]
          BY <1>1, <2>2, <2>3, <4>2
        <5>2. QED
          BY <5>1 DEF ToSet
      <4>3. QED
        BY <4>1, <4>2
    <3>2. QED
      BY <3>1 DEF ToSet
  <2>6. ToSet(queue[s]) \cup {cur[s]} \subseteq ToSet(all)
    <3>1. 1 \in DOMAIN all
      BY <2>2
    <3>2. \A j \in DOMAIN queue[s] : j + 1 \in DOMAIN all
      BY <1>1, <2>2
    <3>3. \A j \in DOMAIN queue[s] : j \in 1..Len(queue[s])
      BY <1>1
    <3>4. QED
      BY <2>4, <3>1, <3>2, <3>3 DEF ToSet
  <2>7. PutBack(s) = Banded(all)
    BY DEF PutBack, all
  <2>8. QED
    BY <1>3, <2>2, <2>5, <2>6, <2>7, BandedFacts
<1>4. QED
  BY <1>2, <1>3

\* The limit, counted with the message a replacement would put back.
Room == \A s \in Runtime : Len(queue[s]) + (IF cur[s] = None THEN 0 ELSE 1) <= Limit + 1

\* The queues keep their type and their limit, whatever runtime they move to.
LEMMA QueueTypes ==
  ASSUME Base, Moves
  PROVE  slot' \in Runtime /\ queue' \in [Runtime -> Seq(Msg)] /\ Room'
<1>0. TypeOK /\ CurInv /\ Room
  BY DEF Base, TypeOK, Room
<1>1. \A s \in Runtime : queue[s] \in Seq(Msg) /\ Len(queue[s]) \in Nat
  BY <1>0, Facts
<1>2. ASSUME slot' = slot, queue' = queue,
             \A s \in Runtime : cur'[s] = cur[s] \/ cur'[s] = None
      PROVE  slot' \in Runtime /\ queue' \in [Runtime -> Seq(Msg)] /\ Room'
  BY <1>0, <1>1, <1>2, Facts DEF Room
<1>3. ASSUME NEW s \in Runtime, NEW q \in Seq(Msg), queue' = [queue EXCEPT ![s] = q],
             slot' \in Runtime, \A r \in Runtime \ {s} : cur'[r] = cur[r],
             Len(q) + (IF cur'[s] = None THEN 0 ELSE 1) <= Limit + 1
      PROVE  slot' \in Runtime /\ queue' \in [Runtime -> Seq(Msg)] /\ Room'
  BY <1>0, <1>1, <1>3, Facts DEF Room
<1>4. ASSUME NEW m \in Msg, NEW s \in Runtime, Joins(m, s)
      PROVE  slot' \in Runtime /\ queue' \in [Runtime -> Seq(Msg)] /\ Room'
  <2> DEFINE q == Inserted(queue[s], m)
  <2>1. q \in Seq(Msg) /\ Len(q) = Len(queue[s]) + 1
    BY <1>1, InsertFacts
  <2> HIDE DEF q
  <2>2. queue' = [queue EXCEPT ![s] = q] /\ slot' = slot /\ cur' = cur /\ Len(queue[s]) < Limit
    BY <1>4 DEF Joins, q
  <2>3. Len(q) + (IF cur'[s] = None THEN 0 ELSE 1) <= Limit + 1
    BY <1>0, <1>1, <2>1, <2>2, Facts
  <2>4. QED
    BY <1>0, <1>3, <2>1, <2>2, <2>3, Facts
<1>5. ASSUME NEW m \in Msg, Hands(m)
      PROVE  slot' \in Runtime /\ queue' \in [Runtime -> Seq(Msg)] /\ Room'
  <2> DEFINE q == RemoveFirst(queue[slot], m)
  <2>1. slot \in Runtime /\ m \in ToSet(queue[slot])
    BY <1>0, <1>1, <1>5, Facts, HeadFacts DEF Hands
  <2>2. q \in Seq(Msg) /\ Len(q) = Len(queue[slot]) - 1
    BY <1>1, <2>1, RemoveFacts
  <2> HIDE DEF q
  <2>3. /\ queue' = [queue EXCEPT ![slot] = q] /\ slot' = slot
        /\ cur' = [cur EXCEPT ![slot] = m] /\ cur[slot] = None
    BY <1>5 DEF Hands, q
  <2>4. Len(queue[slot]) <= Limit + 1 /\ Len(queue[slot]) \in Nat
    BY <1>0, <1>1, <2>1, <2>3, Facts DEF Room
  <2>5. Len(q) + (IF cur'[slot] = None THEN 0 ELSE 1) <= Limit + 1
    BY <1>0, <2>2, <2>4, Facts
  <2>6. \A r \in Runtime \ {slot} : cur'[r] = cur[r]
    BY <1>0, <2>3, Facts
  <2>7. QED
    BY <1>3, <2>1, <2>2, <2>3, <2>5, <2>6
<1>6. ASSUME NEW q \in Seq(Msg), queue' = [queue EXCEPT ![slot] = q], Len(q) <= Len(queue[slot]),
             slot' = slot, cur' = cur
      PROVE  slot' \in Runtime /\ queue' \in [Runtime -> Seq(Msg)] /\ Room'
  <2>1. slot \in Runtime /\ Len(q) \in Nat
    BY <1>0, Facts
  <2>2. Len(q) + (IF cur'[slot] = None THEN 0 ELSE 1) <= Limit + 1
    BY <1>0, <1>1, <1>6, <2>1, Facts DEF Room
  <2>3. QED
    BY <1>3, <1>6, <2>1, <2>2
<1>7. ASSUME NEW m \in Msg, Takes(m)
      PROVE  slot' \in Runtime /\ queue' \in [Runtime -> Seq(Msg)] /\ Room'
  <2> DEFINE q == RemoveFirst(queue[slot], m)
  <2>1. slot \in Runtime /\ m \in ToSet(queue[slot])
    BY <1>0, <1>7, Facts DEF Takes
  <2>2. q \in Seq(Msg) /\ Len(q) = Len(queue[slot]) - 1 /\ Len(queue[slot]) \in Nat
    BY <1>1, <2>1, RemoveFacts
  <2> HIDE DEF q
  <2>3. Len(q) <= Len(queue[slot])
    BY <2>2
  <2>4. queue' = [queue EXCEPT ![slot] = q] /\ slot' = slot /\ cur' = cur
    BY <1>7 DEF Takes, q
  <2>5. QED
    BY <1>6, <2>2, <2>3, <2>4
<1>8. ASSUME NEW new \in SetToSeqs(ToSet(queue[slot])), Sorts(new)
      PROVE  slot' \in Runtime /\ queue' \in [Runtime -> Seq(Msg)] /\ Room'
  <2>1. slot \in Runtime
    BY <1>0, Facts
  <2>2. new \in Seq(Msg) /\ Len(new) <= Len(queue[slot])
    BY <1>1, <2>1, ReorderFacts
  <2>3. QED
    BY <1>6, <1>8, <2>2 DEF Sorts
<1>9. CASE Empties
  <2>1. slot \in Runtime /\ <<>> \in Seq(Msg) /\ Len(<<>>) = 0
    BY <1>0, Facts
  <2>2. Len(<<>>) <= Len(queue[slot])
    BY <1>1, <2>1
  <2>3. QED
    BY <1>6, <1>9, <2>1, <2>2 DEF Empties
<1>10. ASSUME NEW s \in Runtime, Ends(s)
       PROVE  slot' \in Runtime /\ queue' \in [Runtime -> Seq(Msg)] /\ Room'
  <2>1. \A r \in Runtime : cur'[r] = cur[r] \/ cur'[r] = None
    BY <1>0, <1>10, Facts DEF Ends
  <2>2. QED
    BY <1>2, <1>10, <2>1 DEF Ends
<1>11. ASSUME NEW q \in Seq(Msg), queue' = [queue EXCEPT ![slot + 1] = q], slot + 1 \in Runtime,
              slot' = slot + 1, cur' = cur, Len(q) <= Limit + 1
       PROVE  slot' \in Runtime /\ queue' \in [Runtime -> Seq(Msg)] /\ Room'
  <2>1. cur[slot + 1] = None
    BY <1>0, <1>11, Facts DEF CurInv
  <2>2. Len(q) \in Nat
    OBVIOUS
  <2>3. Len(q) + (IF cur'[slot + 1] = None THEN 0 ELSE 1) <= Limit + 1
    BY <1>11, <2>1, <2>2
  <2>4. slot' \in Runtime /\ \A r \in Runtime \ {slot + 1} : cur'[r] = cur[r]
    BY <1>11
  <2>5. QED
    BY <1>3, <1>11, <2>3, <2>4
<1>12. ASSUME NEW s \in Runtime, Renews(s)
       PROVE  slot' \in Runtime /\ queue' \in [Runtime -> Seq(Msg)] /\ Room'
  <2>1. Len(queue[s]) <= Limit + 1
    <3> DEFINE n == Len(queue[s])
               k == IF cur[s] = None THEN 0 ELSE 1
    <3>1. n \in Nat /\ k \in Nat
      BY <1>1
    <3>2. n + k <= Limit + 1
      BY <1>0 DEF Room
    <3>3. Limit \in Nat
      BY QueueAssumption
    <3> HIDE DEF n, k
    <3>4. n <= Limit + 1
      BY <3>1, <3>2, <3>3
    <3>5. QED
      BY <3>4 DEF n
  <2>2. QED
    BY <1>1, <1>11, <1>12, <2>1 DEF Renews
<1>13. CASE Swaps
  <2> DEFINE s == swap.of
  <2>1. s \in Runtime
    BY <1>13 DEF Swaps
  <2>2. PutBack(s) \in Seq(Msg) /\ Len(PutBack(s)) <= Limit + 1
    BY <1>0, <2>1, PutBackFacts DEF Room
  <2>3. QED
    BY <1>11, <1>13, <2>2 DEF Swaps
<1>14. CASE Stays \/ \E m \in Msg : Sends(m)
  BY <1>2, <1>14 DEF Stays, Sends
<1>15. QED
  BY <1>4, <1>5, <1>7, <1>8, <1>9, <1>10, <1>12, <1>13, <1>14 DEF Moves

\* The current messages and the history keep their types.
LEMMA MessageTypes ==
  ASSUME Base, Moves
  PROVE  /\ cur' \in [Runtime -> Msg \cup {None}]
         /\ handed' \subseteq Msg /\ served' \subseteq handed' /\ removed' \subseteq Msg
         /\ \A s \in Runtime : cur'[s] \in handed' \cup {None} /\ (s > slot' => cur'[s] = None)
         /\ \A s \in Runtime : \/ cur'[s] = cur[s] \/ cur'[s] = None
                               \/ s = slot /\ slot' = slot /\ cur[s] = None
<1>0. TypeOK /\ CurInv
  BY DEF Base
<1>1. /\ slot \in Runtime /\ slot \in Nat /\ cur \in [Runtime -> Msg \cup {None}]
      /\ handed \subseteq Msg /\ served \subseteq handed /\ removed \subseteq Msg
      /\ \A s \in Runtime : s \in Nat /\ queue[s] \in Seq(Msg)
      /\ \A s \in Runtime : cur[s] \in handed \cup {None} /\ (s > slot => cur[s] = None)
  <2>1. \A s \in Runtime : s \in Nat
    BY <1>0, Facts DEF Runtime
  <2>2. \A s \in Runtime : queue[s] \in Seq(Msg)
    BY <1>0, Facts
  <2>3. QED
    BY <1>0, <2>1, <2>2, Facts DEF CurInv
<1> DEFINE Goal ==
      /\ cur' \in [Runtime -> Msg \cup {None}]
      /\ handed' \subseteq Msg /\ served' \subseteq handed' /\ removed' \subseteq Msg
      /\ \A s \in Runtime : cur'[s] \in handed' \cup {None} /\ (s > slot' => cur'[s] = None)
      /\ \A s \in Runtime : \/ cur'[s] = cur[s] \/ cur'[s] = None
                            \/ s = slot /\ slot' = slot /\ cur[s] = None
<1>2. ASSUME slot' = slot \/ slot' = slot + 1, cur' = cur, served' = served,
             handed \subseteq handed', handed' \subseteq Msg, removed' \subseteq Msg
      PROVE  Goal
  BY <1>1, <1>2
<1>3. ASSUME NEW m \in Msg, Hands(m) PROVE Goal
  <2>1. /\ cur' = [cur EXCEPT ![slot] = m] /\ handed' = handed \cup {m} /\ cur[slot] = None
        /\ UNCHANGED <<slot, served, removed>>
    BY <1>3 DEF Hands
  <2>2. QED
    BY <1>1, <2>1
<1>4. ASSUME NEW s \in Runtime, Ends(s) PROVE Goal
  <2>1. /\ cur' = [cur EXCEPT ![s] = None] /\ served' = served \cup ({cur[s]} \ {None})
        /\ UNCHANGED <<slot, handed, removed>>
    BY <1>4 DEF Ends
  <2>2. QED
    BY <1>1, <2>1
<1>5. ASSUME NEW m \in Msg, Takes(m) PROVE Goal
  BY <1>1, <1>2, <1>5 DEF Takes
<1>6. CASE Empties
  <2>1. ToSet(queue[slot]) \subseteq Msg
    BY <1>1 DEF ToSet
  <2>2. QED
    BY <1>1, <1>2, <1>6, <2>1 DEF Empties
<1>7. ASSUME NEW m \in Msg, (\E s \in Runtime : Joins(m, s)) \/ Sends(m) PROVE Goal
  BY <1>1, <1>2, <1>7 DEF Joins, Sends
<1>8. CASE Swaps \/ Stays \/ \E s \in Runtime : Renews(s)
  BY <1>1, <1>2, <1>8 DEF Swaps, Stays, Renews
<1>9. ASSUME NEW new \in SetToSeqs(ToSet(queue[slot])), Sorts(new) PROVE Goal
  BY <1>1, <1>2, <1>9 DEF Sorts
<1>10. Goal
  BY <1>3, <1>4, <1>5, <1>6, <1>7, <1>8, <1>9 DEF Moves
<1>11. QED
  BY <1>10

\* A drain awaits nothing while its runtime has a current message.
Awaits(d) == d.at \in {"waiting", "rotating", "resumed"}

\* A drain that awaits a rotation has no current message, and none comes until it goes on:
\* only a drain that runs hands a message over, and one drain runs at a time.
LEMMA DrainStep ==
  ASSUME Base, [Next]_vars
  PROVE  drain' \in Drains /\ \A s \in Runtime : Awaits(drain'[s]) => cur'[s] = None
<1> DEFINE Goal == drain' \in Drains /\ \A s \in Runtime : Awaits(drain'[s]) => cur'[s] = None
<1>0. TypeOK /\ CurInv /\ RefInv
  BY DEF Base
<1>1. /\ drain \in Drains /\ slot \in Runtime /\ cur \in [Runtime -> Msg \cup {None}]
      /\ \A s \in Runtime : drain[s].force \in BOOLEAN /\ (Awaits(drain[s]) => cur[s] = None)
  BY <1>0, Facts DEF CurInv, Awaits, Drains, DrainType
<1>2. ASSUME NEW s \in Runtime, NEW d \in Drains, drain' = Finished(d, s),
             \A r \in Runtime \ {s} : /\ Awaits(d[r]) => Awaits(drain[r])
                                      /\ cur'[r] = cur[r]
      PROVE  Goal
  <2>1. /\ drain' \in Drains /\ drain'[s].at \in {"none", "scheduled"}
        /\ \A r \in Runtime \ {s} : drain'[r] = d[r]
    BY <1>2, FinishedFacts
  <2>2. QED
    BY <1>1, <1>2, <2>1 DEF Awaits
<1>3. ASSUME NEW d \in Drains, \A r \in Runtime : Awaits(d[r]) => cur[r] = None,
             drain' = d \/ \E s \in Runtime, f \in BOOLEAN : drain' = Scheduled(d, s, f),
             \A r \in Runtime : cur'[r] = cur[r] \/ cur'[r] = None
      PROVE  Goal
  <2>1. CASE drain' = d
    BY <1>3, <2>1
  <2>2. ASSUME NEW s \in Runtime, NEW f \in BOOLEAN, drain' = Scheduled(d, s, f) PROVE Goal
    <3>1. /\ drain' \in Drains
          /\ drain'[s].at = d[s].at \/ drain'[s].at = "scheduled"
          /\ \A r \in Runtime \ {s} : drain'[r] = d[r]
      BY <2>2, ScheduledFacts
    <3>2. QED
      BY <1>3, <3>1 DEF Awaits
  <2>3. QED
    BY <1>3, <2>1, <2>2
<1>4. ASSUME drain' = drain \/ \E s \in Runtime, f \in BOOLEAN : drain' = Scheduled(drain, s, f),
             \A r \in Runtime : cur'[r] = cur[r] \/ cur'[r] = None
      PROVE  Goal
  BY <1>1, <1>3, <1>4
<1>5. ASSUME NEW s \in Runtime, DrainHead(s) PROVE Goal
  <2>1. drain' = Finished(drain, s) /\ (cur' = cur \/ \E m : cur' = [cur EXCEPT ![s] = m])
    BY <1>5 DEF DrainHead
  <2>2. QED
    BY <1>1, <1>2, <2>1
<1>6. ASSUME NEW s \in Runtime, RunDrain(s) PROVE Goal
  <2>1. CASE drain' = Finished(drain, s) /\ cur' = cur
    BY <1>1, <1>2, <2>1
  <2>2. CASE cur[s] = None /\ cur' = cur /\ drain' = [drain EXCEPT ![s].at = Waiting]
    <3>1. drain \in Drains
      BY <1>1
    <3>2. CASE drain' = [drain EXCEPT ![s].at = "waiting"]
      <4> DEFINE d == [drain EXCEPT ![s].at = "waiting"]
      <4>1. d \in Drains /\ \A r \in Runtime \ {s} : d[r] = drain[r]
        BY <3>1, MovedFacts
      <4>2. drain' = d
        BY <3>2
      <4> HIDE DEF d
      <4>3. QED
        BY <1>1, <2>2, <4>1, <4>2 DEF Awaits
    <3>3. CASE drain' = [drain EXCEPT ![s].at = "rotating"]
      <4> DEFINE d == [drain EXCEPT ![s].at = "rotating"]
      <4>1. d \in Drains /\ \A r \in Runtime \ {s} : d[r] = drain[r]
        BY <3>1, MovedFacts
      <4>2. drain' = d
        BY <3>3
      <4> HIDE DEF d
      <4>3. QED
        BY <1>1, <2>2, <4>1, <4>2 DEF Awaits
    <3>4. QED
      BY <2>2, <3>2, <3>3 DEF Waiting
  <2>3. QED
    BY <1>5, <1>6, <2>1, <2>2 DEF RunDrain
<1>7. ASSUME NEW s \in Runtime, ResumeDrain(s) PROVE Goal
  <2>1. CASE slot # s /\ drain' = Finished(Scheduled(drain, slot, drain[s].force), s) /\ cur' = cur
    <3> DEFINE d == Scheduled(drain, slot, drain[s].force)
    <3>1. drain' = Finished(d, s)
      BY <2>1
    <3>2. /\ d \in Drains
          /\ d[slot].at = drain[slot].at \/ d[slot].at = "scheduled"
          /\ \A r \in Runtime \ {slot} : d[r] = drain[r]
      <4> DEFINE f == drain[s].force
      <4>1. f \in BOOLEAN
        BY <1>1
      <4>2. d = Scheduled(drain, slot, f)
        OBVIOUS
      <4>3. drain \in Drains /\ slot \in Runtime
        BY <1>1
      <4> HIDE DEF f, d
      <4>4. LET e == Scheduled(drain, slot, f) IN
            /\ e \in Drains
            /\ e[slot].at = drain[slot].at \/ e[slot].at = "scheduled"
            /\ \A r \in Runtime \ {slot} : e[r] = drain[r]
        BY <4>1, <4>3, ScheduledFacts
      <4>5. QED
        BY <4>2, <4>4
    <3> HIDE DEF d
    <3>3. \A r \in Runtime : d[r].at = drain[r].at \/ d[r].at = "scheduled"
      BY <3>2
    <3>4. QED
      BY <1>2, <2>1, <3>1, <3>2, <3>3 DEF Awaits
  <2>2. QED
    BY <1>5, <1>7, <2>1 DEF ResumeDrain
<1>8. ASSUME NEW s \in Runtime, TimerFires(s) PROVE Goal
  BY <1>4, <1>8 DEF TimerFires
<1>9. ASSUME NEW m \in Msg, NEW s \in Runtime, Enqueue(m, s), cur' = cur PROVE Goal
  BY <1>4, <1>9 DEF Enqueue
<1>10. ASSUME NEW m \in Msg, QueueNow(m) \/ QueueHeld(m) PROVE Goal
  <2>1. CASE QueueNow(m)
    BY <1>1, <1>9, <2>1 DEF QueueNow
  <2>2. CASE QueueHeld(m)
    BY <1>0, <1>9, <2>2 DEF QueueHeld, RefInv
  <2>3. QED
    BY <1>10, <2>1, <2>2
<1>11. ASSUME NEW m \in Msg, RemoveItem(m) PROVE Goal
  BY <1>1, <1>4, <1>11 DEF RemoveItem
<1>12. ASSUME NEW s \in Runtime, TurnEnd(s) PROVE Goal
  <2>1. drain' = drain \/ drain' = Scheduled(drain, s, FALSE)
    BY <1>12 DEF TurnEnd, AfterTurn
  <2>2. \A r \in Runtime : cur'[r] = cur[r] \/ cur'[r] = None
    BY <1>1, <1>12 DEF TurnEnd
  <2>3. QED
    BY <1>4, <2>1, <2>2
<1>13. ASSUME NEW old \in Runtime, NEW d \in Drains, Rotated(old, d), cur' = cur,
              \A r \in Runtime : Awaits(d[r]) => cur[r] = None
       PROVE  Goal
  <2>1. slot + 1 \in Runtime
    BY <1>0, <1>13, Facts DEF Rotated, Runtime
  <2>2. drain' = d \/ drain' = Scheduled(d, slot + 1, TRUE)
    BY <1>13 DEF Rotated
  <2>3. QED
    BY <1>3, <1>13, <2>1, <2>2
<1>14. DrainsResumed \in Drains /\ \A r \in Runtime : Awaits(DrainsResumed[r]) => cur[r] = None
  BY <1>1, ResumedFacts DEF Awaits
<1>15. ASSUME NEW s \in Runtime, drain[s].at = "rotating"
       PROVE  /\ [drain EXCEPT ![s].at = "resumed"] \in Drains
              /\ \A r \in Runtime : Awaits([drain EXCEPT ![s].at = "resumed"][r]) => cur[r] = None
  <2> DEFINE d == [drain EXCEPT ![s].at = "resumed"]
  <2>1. d \in Drains /\ \A r \in Runtime \ {s} : d[r] = drain[r]
    <3>1. drain \in Drains
      BY <1>1
    <3>2. QED
      BY <3>1, MovedFacts
  <2> HIDE DEF d
  <2>2. cur[s] = None
    BY <1>1, <1>15 DEF Awaits
  <2>3. d \in Drains /\ \A r \in Runtime : Awaits(d[r]) => cur[r] = None
    BY <1>1, <2>1, <2>2
  <2>4. QED
    BY <2>3 DEF d
<1>16. CASE RotationEnds
  <2>1. cur' = cur
    BY <1>16 DEF RotationEnds
  <2>2. CASE rotating # 0 /\ Rotated(rotating, DrainsResumed)
    <3>1. rotating \in Runtime
      BY <1>0, <2>2, Facts DEF TypeOK, Runtime
    <3>2. QED
      BY <1>13, <1>14, <2>1, <2>2, <3>1
  <2>3. ASSUME NEW s \in Runtime, drain[s].at = "rotating",
               Rotated(s, [drain EXCEPT ![s].at = "resumed"])
        PROVE  Goal
    BY <1>13, <1>15, <2>1, <2>3
  <2>4. ASSUME NEW m \in Msg, req[m] = "rotating", Rotated(ref[m], drain) PROVE Goal
    <3>1. ref[m] \in Runtime
      BY <1>0, <2>4 DEF RefInv
    <3>2. QED
      BY <1>1, <1>13, <2>1, <2>4, <3>1
  <2>5. QED
    BY <1>16, <2>2, <2>3, <2>4 DEF RotationEnds
<1>17. CASE RotationFails
  <2>1. cur' = cur
    BY <1>17 DEF RotationFails
  <2>2. CASE drain' = DrainsResumed
    BY <1>3, <1>14, <2>1, <2>2
  <2>3. ASSUME NEW s \in Runtime, drain[s].at = "rotating",
               drain' = [drain EXCEPT ![s].at = "resumed"]
        PROVE  Goal
    BY <1>3, <1>15, <2>1, <2>3
  <2>4. CASE drain' = drain
    BY <1>4, <2>1, <2>4
  <2>5. QED
    BY <1>17, <2>2, <2>3, <2>4 DEF RotationFails
<1>18. CASE Swap
  <2>1. slot + 1 \in Runtime /\ cur' = cur
    BY <1>0, <1>18, Facts DEF Swap, Runtime
  <2>2. drain' = drain \/ drain' = Scheduled(drain, slot + 1, TRUE)
    BY <1>18 DEF Swap
  <2>3. QED
    BY <1>4, <2>1, <2>2
<1>19. ASSUME UNCHANGED <<drain, cur>> PROVE Goal
  BY <1>4, <1>19
<1>20. ASSUME NEW m \in Msg, HoldSession(m) \/ SendNow(m) \/ ResumeSend(m) PROVE Goal
  BY <1>19, <1>20 DEF HoldSession, SendNow, ResumeSend
<1>21. ASSUME NEW new \in SetToSeqs(ToSet(queue[slot])), Reorder(new) PROVE Goal
  BY <1>19, <1>21 DEF Reorder
<1>22. ASSUME NEW s \in Runtime, TurnStart(s) \/ PipeDrains(s) PROVE Goal
  BY <1>19, <1>22 DEF TurnStart, PipeDrains
<1>23. ASSUME NEW idle \in BOOLEAN, StartSwap(idle) PROVE Goal
  BY <1>19, <1>23 DEF StartSwap
<1>24. CASE Clear \/ SwapFails \/ UNCHANGED vars
  BY <1>19, <1>24 DEF Clear, SwapFails, vars
<1>25. Goal
  BY <1>6, <1>7, <1>8, <1>10, <1>11, <1>12, <1>16, <1>17, <1>18, <1>20, <1>21, <1>22, <1>23,
     <1>24 DEF Next, Micro, Client
<1>26. QED
  BY <1>25

\* What a runtime and its provider process are like.
FlagTypes ==
  /\ retry \in [Runtime -> Msg \cup {None}]
  /\ done \in [Runtime -> BOOLEAN] /\ rotate \in [Runtime -> BOOLEAN]
  /\ full \in [Runtime -> BOOLEAN] /\ inbox \in [Runtime -> BOOLEAN]
  /\ turn \in [Runtime -> BOOLEAN]

\* A runtime that has not had the name is as new.
Fresh == \A s \in Runtime : s > slot => ~rotate[s] /\ ~inbox[s] /\ ~turn[s]

\* The name moves to the next runtime or stays.
LEMMA SlotMoves ==
  ASSUME Moves
  PROVE  slot' = slot \/ (slot' = slot + 1 /\ slot + 1 \in Runtime)
  BY DEF Moves, Joins, Hands, Sends, Takes, Sorts, Ends, Renews, Empties, Swaps, Stays

\* The state of the runtimes and their processes keeps its type; one that has not had the
\* name has no input, no turn and no rotation pending.
LEMMA FlagStep == Base /\ [Next]_vars => FlagTypes' /\ Fresh'
<1> SUFFICES ASSUME Base, [Next]_vars PROVE FlagTypes' /\ Fresh'
  OBVIOUS
<1>0. TypeOK /\ CurInv /\ RefInv
  BY DEF Base
<1>1. /\ FlagTypes /\ Fresh /\ slot \in Runtime /\ (\A s \in Runtime : s \in Nat)
      /\ slot' = slot \/ slot' = slot + 1
  <2>1. FlagTypes /\ Fresh
    BY <1>0 DEF TypeOK, FlagTypes, Fresh, CurInv
  <2>2. slot \in Runtime /\ \A s \in Runtime : s \in Nat
    BY <1>0, Facts DEF Runtime
  <2>3. QED
    BY <2>1, <2>2, StepMoves, SlotMoves
<1>2. ASSUME UNCHANGED <<done, rotate, provider>>, retry' \in [Runtime -> Msg \cup {None}]
      PROVE  FlagTypes' /\ Fresh'
  BY <1>1, <1>2 DEF FlagTypes, Fresh, provider
<1>3. ASSUME NEW m, Dispatch(slot, m), UNCHANGED <<rotate, slot>> PROVE FlagTypes' /\ Fresh'
  <2>1. /\ full' = full \/ full' = [full EXCEPT ![slot] = TRUE]
        /\ inbox' = [inbox EXCEPT ![slot] = TRUE]
        /\ done' = [done EXCEPT ![slot] = FALSE]
        /\ retry' = [retry EXCEPT ![slot] = None]
        /\ UNCHANGED <<turn, rotate, slot>>
    BY <1>3 DEF Dispatch
  <2>2. FlagTypes'
    BY <1>1, <2>1 DEF FlagTypes
  <2>3. Fresh'
    BY <1>1, <2>1 DEF FlagTypes, Fresh
  <2>4. QED
    BY <2>2, <2>3
<1>4. ASSUME NEW s \in Runtime, s = slot, DrainHead(s), UNCHANGED <<rotate, slot>>
      PROVE  FlagTypes' /\ Fresh'
  <2> DEFINE m == Head(queue[s])
  <2>1. CASE Dispatch(s, m)
    BY <1>3, <1>4, <2>1
  <2>2. CASE UNCHANGED <<done, retry, provider>>
    BY <1>1, <1>2, <1>4, <2>2 DEF FlagTypes
  <2>3. CASE Due(s) /\ retry' = [retry EXCEPT ![s] = m] /\ UNCHANGED <<done, provider>>
    <3>1. queue[s] # <<>> /\ queue[s] \in Seq(Msg)
      BY <1>0, <2>3, Facts DEF Due
    <3>2. m \in Msg
      BY <3>1, HeadFacts
    <3>3. retry' \in [Runtime -> Msg \cup {None}]
      BY <1>1, <2>3, <3>2 DEF FlagTypes
    <3>4. QED
      BY <1>2, <1>4, <2>3, <3>3
  <2>4. QED
    BY <1>4, <2>1, <2>2, <2>3 DEF DrainHead
<1>5. ASSUME NEW s \in Runtime, RunDrain(s) \/ ResumeDrain(s) PROVE FlagTypes' /\ Fresh'
  <2>1. UNCHANGED <<rotate, slot>> /\ ((slot = s /\ DrainHead(s)) \/ UNCHANGED <<done, retry, provider>>)
    BY <1>5 DEF RunDrain, ResumeDrain
  <2>2. CASE UNCHANGED <<done, retry, provider>>
    BY <1>1, <1>2, <2>1, <2>2 DEF FlagTypes
  <2>3. QED
    BY <1>4, <2>1, <2>2
<1>6. ASSUME NEW m \in Msg, SendNow(m) \/ ResumeSend(m) PROVE FlagTypes' /\ Fresh'
  <2>1. UNCHANGED <<rotate, slot>> /\ (Dispatch(slot, m) \/ UNCHANGED <<done, retry, provider>>)
    BY <1>6 DEF SendNow, ResumeSend, SendDirect
  <2>2. CASE UNCHANGED <<done, retry, provider>>
    BY <1>1, <1>2, <2>1, <2>2 DEF FlagTypes
  <2>3. QED
    BY <1>3, <2>1, <2>2
<1>7. ASSUME UNCHANGED <<done, rotate, provider>>,
             retry' = retry \/ \E s \in Runtime : retry' = [retry EXCEPT ![s] = None]
      PROVE  FlagTypes' /\ Fresh'
  <2>1. retry' \in [Runtime -> Msg \cup {None}]
    BY <1>1, <1>7 DEF FlagTypes
  <2>2. QED
    BY <1>2, <1>7, <2>1
<1>8. ASSUME NEW s \in Runtime, TimerFires(s) PROVE FlagTypes' /\ Fresh'
  BY <1>7, <1>8 DEF TimerFires
<1>9. ASSUME NEW m \in Msg, RemoveItem(m) \/ QueueNow(m) \/ QueueHeld(m) \/ HoldSession(m)
      PROVE  FlagTypes' /\ Fresh'
  BY <1>1, <1>7, <1>9 DEF RemoveItem, QueueNow, QueueHeld, HoldSession
<1>10. CASE Clear
  BY <1>1, <1>7, <1>10 DEF Clear
<1>11. ASSUME NEW s \in Runtime, TurnStart(s) PROVE FlagTypes' /\ Fresh'
  <2>1. /\ inbox[s] /\ inbox' = [inbox EXCEPT ![s] = FALSE]
        /\ turn' = [turn EXCEPT ![s] = TRUE] /\ done' = [done EXCEPT ![s] = FALSE]
        /\ UNCHANGED <<slot, rotate, retry, full>>
    BY <1>11 DEF TurnStart
  <2>2. FlagTypes'
    BY <1>1, <2>1 DEF FlagTypes
  <2>3. ~(s > slot)
    BY <1>1, <2>1 DEF Fresh
  <2>4. Fresh'
    BY <1>1, <2>1, <2>3 DEF FlagTypes, Fresh
  <2>5. QED
    BY <2>2, <2>4
<1>12. ASSUME NEW s \in Runtime, TurnEnd(s) PROVE FlagTypes' /\ Fresh'
  <2>1. /\ turn[s] /\ turn' = [turn EXCEPT ![s] = FALSE] /\ done' = [done EXCEPT ![s] = TRUE]
        /\ rotate' = rotate \/ rotate' = [rotate EXCEPT ![s] = TRUE]
        /\ retry' = retry \/ retry' = [retry EXCEPT ![s] = None]
        /\ UNCHANGED <<slot, full, inbox>>
    BY <1>12 DEF TurnEnd
  <2>2. FlagTypes'
    BY <1>1, <2>1 DEF FlagTypes
  <2>3. ~(s > slot)
    BY <1>1, <2>1 DEF Fresh
  <2>4. Fresh'
    BY <1>1, <2>1, <2>3 DEF FlagTypes, Fresh
  <2>5. QED
    BY <2>2, <2>4
<1>13. ASSUME NEW s \in Runtime, PipeDrains(s) PROVE FlagTypes' /\ Fresh'
  <2>1. full' = [full EXCEPT ![s] = FALSE] /\ UNCHANGED <<slot, done, rotate, retry, inbox, turn>>
    BY <1>13 DEF PipeDrains
  <2>2. QED
    BY <1>1, <2>1 DEF FlagTypes, Fresh
<1>14. ASSUME NEW s \in Runtime, TornDown(s), done' = done,
              retry' = retry \/ retry' = [retry EXCEPT ![s] = None],
              \/ rotate' = rotate
              \/ slot' = slot + 1 /\ \E b \in BOOLEAN : rotate' = [rotate EXCEPT ![slot + 1] = b]
       PROVE  FlagTypes' /\ Fresh'
  <2>1. /\ inbox' = [inbox EXCEPT ![s] = FALSE] /\ turn' = [turn EXCEPT ![s] = FALSE]
        /\ full' = [full EXCEPT ![s] = FALSE]
    BY <1>14 DEF TornDown
  <2>2. FlagTypes'
    BY <1>1, <1>14, <2>1 DEF FlagTypes
  <2>3. \A r \in Runtime : r > slot' => r > slot /\ (r # slot + 1 \/ slot' = slot)
    <3>1. \A r \in Runtime : r \in Nat /\ slot \in Nat
      BY <1>1
    <3>2. CASE slot' = slot
      BY <3>1, <3>2
    <3>3. CASE slot' = slot + 1
      BY <3>1, <3>3
    <3>4. QED
      BY <1>1, <3>2, <3>3
  <2>4. \A r \in Runtime : r > slot' => ~inbox'[r] /\ ~turn'[r]
    BY <1>1, <2>1, <2>3 DEF FlagTypes, Fresh
  <2>5. \A r \in Runtime : r > slot' => ~rotate'[r]
    BY <1>1, <1>14, <2>3 DEF FlagTypes, Fresh
  <2>6. QED
    BY <2>2, <2>4, <2>5 DEF Fresh
<1>15. ASSUME NEW s \in Runtime, NEW d, Rotated(s, d), UNCHANGED <<done, rotate>>
       PROVE  FlagTypes' /\ Fresh'
  BY <1>14, <1>15 DEF Rotated
<1>16. CASE RotationEnds
  <2>1. UNCHANGED <<done, rotate>>
    BY <1>16 DEF RotationEnds
  <2>2. CASE rotating # 0 /\ Rotated(rotating, DrainsResumed)
    <3>1. rotating \in Runtime
      BY <1>0, <2>2, Facts DEF TypeOK, Runtime
    <3>2. QED
      BY <1>15, <2>1, <2>2, <3>1
  <2>3. ASSUME NEW s \in Runtime, Rotated(s, [drain EXCEPT ![s].at = "resumed"])
        PROVE  FlagTypes' /\ Fresh'
    BY <1>15, <2>1, <2>3
  <2>4. ASSUME NEW m \in Msg, req[m] = "rotating", Rotated(ref[m], drain)
        PROVE  FlagTypes' /\ Fresh'
    <3>1. ref[m] \in Runtime
      BY <1>0, <2>4 DEF RefInv
    <3>2. QED
      BY <1>15, <2>1, <2>4, <3>1
  <2>5. QED
    BY <1>16, <2>2, <2>3, <2>4 DEF RotationEnds
<1>17. CASE Swap
  <2>1. swap.of \in Runtime /\ rotate[swap.of] \in BOOLEAN
    BY <1>0, <1>1, <1>17 DEF Swap, RefInv, FlagTypes
  <2>2. /\ TornDown(swap.of) /\ UNCHANGED <<done, retry>> /\ slot' = slot + 1
        /\ rotate' = [rotate EXCEPT ![slot + 1] = rotate[swap.of]]
    BY <1>17 DEF Swap
  <2>3. QED
    BY <1>14, <2>1, <2>2
<1>18. CASE RotationFails \/ SwapFails \/ UNCHANGED vars
  <2>1. UNCHANGED <<done, rotate, provider>> /\ retry' = retry
    BY <1>18 DEF RotationFails, SwapFails, vars, provider
  <2>2. QED
    BY <1>7, <2>1
<1>19. ASSUME NEW new \in SetToSeqs(ToSet(queue[slot])), Reorder(new) PROVE FlagTypes' /\ Fresh'
  BY <1>7, <1>19 DEF Reorder
<1>20. ASSUME NEW idle \in BOOLEAN, StartSwap(idle) PROVE FlagTypes' /\ Fresh'
  BY <1>7, <1>20 DEF StartSwap
<1>21. QED
  BY <1>5, <1>6, <1>8, <1>9, <1>10, <1>11, <1>12, <1>13, <1>16, <1>17, <1>18, <1>19, <1>20
  DEF Next, Micro, Client

\* Who registers a rotation or begins a settings change captures the runtime behind the
\* name.
LEMMA NameStep ==
  ASSUME [Next]_vars
  PROVE  /\ rotating' = rotating \/ rotating' \in {0, slot}
         /\ \/ swap' = swap \/ swap' = NoSwap
            \/ \E idle \in BOOLEAN : swap' = [of |-> slot, idle |-> idle]
<1>1. ASSUME NEW s \in Runtime,
             RunDrain(s) \/ ResumeDrain(s) \/ TimerFires(s) \/ TurnStart(s) \/ PipeDrains(s)
      PROVE  UNCHANGED <<rotating, swap>>
  BY <1>1 DEF RunDrain, ResumeDrain, TimerFires, TurnStart, PipeDrains
<1>2. ASSUME NEW m \in Msg,
             ResumeSend(m) \/ QueueNow(m) \/ HoldSession(m) \/ SendNow(m) \/ RemoveItem(m)
                \/ QueueHeld(m)
      PROVE  UNCHANGED <<rotating, swap>>
  BY <1>2 DEF ResumeSend, QueueNow, HoldSession, SendNow, RemoveItem, QueueHeld
<1>3. ASSUME NEW new \in SetToSeqs(ToSet(queue[slot])), Reorder(new)
      PROVE  UNCHANGED <<rotating, swap>>
  BY <1>3 DEF Reorder
<1>4. CASE Clear
  BY <1>4 DEF Clear
<1>5. ASSUME NEW idle \in BOOLEAN, StartSwap(idle)
      PROVE  rotating' = rotating /\ swap' = [of |-> slot, idle |-> idle]
  BY <1>5 DEF StartSwap
<1>6. ASSUME NEW s \in Runtime, TurnEnd(s)
      PROVE  swap' = swap /\ (rotating' = rotating \/ rotating' = slot)
  BY <1>6 DEF TurnEnd, RotationAfterTurn
<1>7. CASE RotationEnds
  BY <1>7 DEF RotationEnds
<1>8. CASE RotationFails
  BY <1>8 DEF RotationFails
<1>9. CASE SwapFails \/ Swap
  BY <1>9 DEF SwapFails, Swap
<1>10. CASE UNCHANGED vars
  BY <1>10 DEF vars
<1>11. QED
  BY <1>1, <1>2, <1>3, <1>4, <1>5, <1>6, <1>7, <1>8, <1>9, <1>10 DEF Next, Micro, Client

\* What a request may be.
ReqStates ==
  {"idle", "holding", "waiting", "rotating", "resumed", "queued", "sent", "refused"}

\* A request remembers a runtime while it needs one.
ReqOk ==
  /\ req \in [Msg -> ReqStates] /\ ref \in [Msg -> 0..MaxRuntimes]
  /\ \A m \in Msg : /\ req[m] \in {"holding", "rotating"} => ref[m] \in Runtime
                    /\ req[m] = "holding" => m \in Held

\* A request that holds a session, or rotates it, remembers a runtime.
LEMMA ReqStep == Base /\ [Next]_vars => ReqOk'
<1> SUFFICES ASSUME Base, [Next]_vars PROVE ReqOk'
  OBVIOUS
<1>1. /\ ReqOk /\ slot \in Runtime /\ slot \in 0..MaxRuntimes
  <2>1. TypeOK /\ RefInv
    BY DEF Base
  <2>2. slot \in Runtime /\ slot \in 0..MaxRuntimes
    BY <2>1, Facts DEF Runtime
  <2>3. QED
    BY <2>1, <2>2 DEF ReqOk, ReqStates, TypeOK, RefInv
<1>2. CASE UNCHANGED <<req, ref>>
  BY <1>1, <1>2 DEF ReqOk
<1>3. ASSUME NEW m \in Msg, NEW v \in ReqStates \ {"holding", "rotating"},
             req' = [req EXCEPT ![m] = v], ref' = ref
      PROVE  ReqOk'
  BY <1>1, <1>3 DEF ReqOk
<1>4. ASSUME NEW m \in Msg, NEW v \in ReqStates \ {"holding"}, req' = [req EXCEPT ![m] = v],
             ref' = [ref EXCEPT ![m] = slot]
      PROVE  ReqOk'
  BY <1>1, <1>4 DEF ReqOk
<1>5. CASE req' = SendsResumed /\ ref' = ref
  <2>1. \A m \in Msg : req'[m] = req[m] \/ req'[m] = "resumed"
    BY <1>5 DEF SendsResumed
  <2>2. req' \in [Msg -> ReqStates]
    BY <1>1, <1>5 DEF SendsResumed, ReqOk, ReqStates
  <2>3. QED
    BY <1>1, <1>5, <2>1, <2>2 DEF ReqOk
<1>6. ASSUME NEW m \in Msg, NEW s, Enqueue(m, s), ref' = ref PROVE ReqOk'
  <2>1. \/ req' = [req EXCEPT ![m] = "queued"] \/ req' = [req EXCEPT ![m] = "refused"]
    BY <1>6 DEF Enqueue
  <2>2. QED
    BY <1>3, <1>6, <2>1 DEF ReqStates
<1>7. ASSUME NEW m \in Msg, SendDirect(m), ref' = ref PROVE ReqOk'
  <2>1. \/ req' = [req EXCEPT ![m] = "sent"] \/ req' = [req EXCEPT ![m] = "refused"]
    BY <1>7 DEF SendDirect
  <2>2. QED
    BY <1>3, <1>7, <2>1 DEF ReqStates
<1>8. ASSUME NEW m \in Msg, QueueNow(m) \/ QueueHeld(m) PROVE ReqOk'
  BY <1>6, <1>8 DEF QueueNow, QueueHeld
<1>9. ASSUME NEW m \in Msg, HoldSession(m) PROVE ReqOk'
  <2>1. /\ m \in Held /\ req' = [req EXCEPT ![m] = "holding"]
        /\ ref' = [ref EXCEPT ![m] = slot]
    BY <1>9 DEF HoldSession
  <2>2. QED
    BY <1>1, <2>1 DEF ReqOk, ReqStates
<1>10. ASSUME NEW m \in Msg, SendNow(m) PROVE ReqOk'
  <2>1. CASE req' = [req EXCEPT ![m] = Waiting] /\ ref' = [ref EXCEPT ![m] = slot]
    <3>1. \/ req' = [req EXCEPT ![m] = "waiting"] \/ req' = [req EXCEPT ![m] = "rotating"]
      BY <2>1 DEF Waiting
    <3>2. {"waiting", "rotating"} \subseteq ReqStates \ {"holding"}
      BY DEF ReqStates
    <3>3. QED
      BY <1>4, <2>1, <3>1, <3>2
  <2>2. CASE SendDirect(m) /\ ref' = ref
    BY <1>7, <2>2
  <2>3. QED
    BY <1>10, <2>1, <2>2 DEF SendNow
<1>11. ASSUME NEW m \in Msg, ResumeSend(m) PROVE ReqOk'
  BY <1>7, <1>11 DEF ResumeSend
<1>12. CASE RotationEnds \/ RotationFails
  <2>1. /\ ref' = ref
        /\ \/ req' = SendsResumed \/ req' = req
           \/ \E m \in Msg : req' = [req EXCEPT ![m] = "resumed"]
    BY <1>12 DEF RotationEnds, RotationFails
  <2>2. "resumed" \in ReqStates \ {"holding", "rotating"}
    BY DEF ReqStates
  <2>3. QED
    BY <1>2, <1>3, <1>5, <2>1, <2>2
<1>13. ASSUME NEW s \in Runtime,
              \/ RunDrain(s) \/ ResumeDrain(s) \/ TimerFires(s) \/ TurnStart(s) \/ PipeDrains(s)
              \/ TurnEnd(s)
       PROVE  ReqOk'
  BY <1>2, <1>13 DEF RunDrain, ResumeDrain, TimerFires, TurnStart, PipeDrains, TurnEnd
<1>14. ASSUME NEW m \in Msg, RemoveItem(m) PROVE ReqOk'
  BY <1>2, <1>14 DEF RemoveItem
<1>15. ASSUME NEW new \in SetToSeqs(ToSet(queue[slot])), Reorder(new) PROVE ReqOk'
  BY <1>2, <1>15 DEF Reorder
<1>16. ASSUME NEW idle \in BOOLEAN, StartSwap(idle) PROVE ReqOk'
  BY <1>2, <1>16 DEF StartSwap
<1>17. CASE Clear \/ SwapFails \/ Swap \/ UNCHANGED vars
  BY <1>2, <1>17 DEF Clear, SwapFails, Swap, vars
<1>18. QED
  BY <1>8, <1>9, <1>10, <1>11, <1>12, <1>13, <1>14, <1>15, <1>16, <1>17 DEF Next, Micro, Client

(***************************************************************************)
(* The types, and who remembers which runtime                              *)
(***************************************************************************)

\* The types, the remembered runtimes and the current messages at the start.
LEMMA InitBase == Init => Base
<1> SUFFICES ASSUME Init PROVE Base
  OBVIOUS
<1>1. 1 \in Runtime /\ 0 \in 0..MaxRuntimes /\ Limit \in Nat
  BY QueueAssumption DEF Runtime
<1>2. /\ queue = [s \in Runtime |-> <<>>] /\ cur = [s \in Runtime |-> None]
      /\ \A s \in Runtime : queue[s] = <<>> /\ cur[s] = None /\ Len(queue[s]) = 0
    BY DEF Init
<1>3. Room
  BY <1>1, <1>2 DEF Room
<1>4. drain \in Drains /\ \A s \in Runtime : drain[s].at = "none"
  BY NoDrainFacts DEF Init, Drains
<1>5. queue \in [Runtime -> Seq(Msg)]
  BY <1>2
<1>6. swap = NoSwap /\ swap \in [of : 0..MaxRuntimes, idle : BOOLEAN]
  BY <1>1 DEF Init, NoSwap
<1>7. FlagTypes /\ cur \in [Runtime -> Msg \cup {None}]
  BY DEF Init, FlagTypes
<1>8. ReqOk
  BY <1>1 DEF Init, ReqOk, ReqStates
<1>9. TypeOK
  <2>1. mode \in Modes /\ slot \in Runtime /\ rotating \in 0..MaxRuntimes
    BY <1>1 DEF Init
  <2>2. handed \subseteq Msg /\ served \subseteq handed /\ removed \subseteq Msg
    BY DEF Init
  <2>3. QED
    BY <1>3, <1>4, <1>5, <1>6, <1>7, <1>8, <2>1, <2>2
    DEF TypeOK, Room, Drains, DrainType, FlagTypes, ReqOk, ReqStates
<1>10. RefInv
  BY <1>6, <1>8 DEF RefInv, ReqOk
<1>11. CurInv
  <2>1. \A s \in Runtime : ~rotate[s] /\ ~inbox[s] /\ ~turn[s]
    BY DEF Init
  <2>2. QED
    BY <1>2, <1>4, <2>1 DEF CurInv
<1>12. QED
  BY <1>9, <1>10, <1>11 DEF Base

\* Every step keeps them.
LEMMA BaseStep == Base /\ [Next /\ UNCHANGED mode]_<<vars, mode>> => Base'
<1> SUFFICES ASSUME Base, [Next /\ UNCHANGED mode]_<<vars, mode>> PROVE Base'
  OBVIOUS
<1>1. [Next]_vars /\ mode' = mode
  BY DEF vars
<1>2. Moves
  BY <1>1, StepMoves
<1>3. TypeOK /\ RefInv /\ CurInv
  BY DEF Base
<1>4. rotating' \in 0..MaxRuntimes
  <2>1. slot \in 0..MaxRuntimes /\ 0 \in 0..MaxRuntimes
    BY <1>3, Facts DEF Runtime
  <2>2. QED
    BY <1>1, <1>3, <2>1, NameStep DEF TypeOK
<1>5. swap' \in [of : 0..MaxRuntimes, idle : BOOLEAN] /\ (swap' # NoSwap => swap'.of \in Runtime)
  <2>1. slot \in Runtime /\ slot \in 0..MaxRuntimes /\ 0 \in 0..MaxRuntimes
    BY <1>3, Facts DEF Runtime
  <2>2. CASE swap' = swap
    BY <1>3, <2>2 DEF TypeOK, RefInv
  <2>3. CASE swap' = NoSwap
    BY <2>1, <2>3 DEF NoSwap
  <2>4. CASE \E idle \in BOOLEAN : swap' = [of |-> slot, idle |-> idle]
    BY <2>1, <2>4
  <2>5. QED
    BY <1>1, <2>2, <2>3, <2>4, NameStep
<1>6. slot' \in Runtime /\ queue' \in [Runtime -> Seq(Msg)] /\ Room'
  BY <1>2, QueueTypes
<1>7. /\ cur' \in [Runtime -> Msg \cup {None}]
      /\ handed' \subseteq Msg /\ served' \subseteq handed' /\ removed' \subseteq Msg
      /\ \A s \in Runtime : cur'[s] \in handed' \cup {None} /\ (s > slot' => cur'[s] = None)
  BY <1>2, MessageTypes
<1>8. drain' \in Drains /\ \A s \in Runtime : Awaits(drain'[s]) => cur'[s] = None
  BY <1>1, DrainStep
<1>9. FlagTypes' /\ Fresh'
  BY <1>1, FlagStep
<1>10. ReqOk'
  BY <1>1, ReqStep
<1>11. mode' \in Modes
  BY <1>1, <1>3 DEF TypeOK
<1>12. TypeOK'
  BY <1>4, <1>5, <1>6, <1>7, <1>8, <1>9, <1>10, <1>11
  DEF TypeOK, Room, Drains, DrainType, FlagTypes, ReqOk, ReqStates
<1>13. RefInv'
  BY <1>5, <1>10 DEF RefInv, ReqOk
<1>14. CurInv'
  BY <1>7, <1>8, <1>9 DEF CurInv, Awaits, Fresh
<1>15. QED
  BY <1>12, <1>13, <1>14 DEF Base

\* They hold in every state, with any number of messages and runtimes.
THEOREM Invariance == Spec => []Base
BY InitBase, BaseStep, PTL DEF Spec

\* Every state is well typed; a backlog exceeds the limit by at most the message that a
\* replacement has put back.
THEOREM TypeCorrect == Spec => []TypeOK
<1>1. Base => TypeOK
  BY DEF Base
<1>2. QED
  BY <1>1, Invariance, PTL

(***************************************************************************)
(* No lost wakeup                                                          *)
(***************************************************************************)

\* No step of a drain, a timer, a request, a turn, a rotation or a replacement leaves
\* waiting messages of an idle session without a drain on its way or a timer.
LEMMA WakeupStep == Base /\ NoLostWakeup /\ [Next]_vars => NoLostWakeup'
<1> SUFFICES ASSUME Base, NoLostWakeup, [Next]_vars PROVE NoLostWakeup'
  OBVIOUS
<1>0. TypeOK /\ CurInv /\ RefInv
  BY DEF Base
<1>1. /\ drain \in Drains /\ slot \in Runtime /\ slot \in Nat
      /\ cur \in [Runtime -> Msg \cup {None}]
      /\ queue \in [Runtime -> Seq(Msg)] /\ retry \in [Runtime -> Msg \cup {None}]
      /\ done \in [Runtime -> BOOLEAN] /\ None \notin Msg
  BY <1>0, Facts DEF TypeOK
<1>2. ASSUME slot' = slot, cur'[slot] = cur[slot], queue'[slot] # <<>> => queue[slot] # <<>>,
             done'[slot] = done[slot], retry'[slot] = retry[slot],
             drain'[slot].at = "none" => drain[slot].at = "none"
      PROVE  NoLostWakeup'
  BY <1>2 DEF NoLostWakeup
<1>3. ASSUME \/ drain'[slot'].at # "none" \/ ~done'[slot'] \/ queue'[slot'] = <<>>
             \/ cur'[slot'] # None \/ retry'[slot'] # None
      PROVE  NoLostWakeup'
  BY <1>3 DEF NoLostWakeup
<1>4. ASSUME NEW s \in Runtime, s # slot, drain' = Finished(drain, s),
             UNCHANGED <<slot, queue, cur, done, retry>>
      PROVE  NoLostWakeup'
  <2>1. drain'[slot] = drain[slot]
    BY <1>1, <1>4, FinishedFacts
  <2>2. QED
    BY <1>2, <1>4, <2>1
<1>5. ASSUME NEW d \in Drains, NEW f \in BOOLEAN, NEW s \in Runtime, drain' = Scheduled(d, s, f)
      PROVE  drain'[s].at # "none" /\ \A r \in Runtime \ {s} : drain'[r] = d[r]
  BY <1>5, ScheduledFacts
<1>6. ASSUME slot' = slot, DrainHead(slot) PROVE NoLostWakeup'
  <2>1. CASE ~Due(slot) /\ UNCHANGED <<queue, cur, done, retry>>
    BY <1>3, <1>6, <2>1 DEF Due
  <2>2. ASSUME NEW m, Dispatch(slot, m) PROVE NoLostWakeup'
    <3>1. ~done'[slot]
      BY <1>1, <2>2 DEF Dispatch
    <3>2. QED
      BY <1>3, <1>6, <3>1
  <2>3. CASE Due(slot) /\ retry' = [retry EXCEPT ![slot] = Head(queue[slot])]
    <3>1. queue[slot] # <<>> /\ queue[slot] \in Seq(Msg)
      BY <1>1, <2>3 DEF Due
    <3>2. Head(queue[slot]) \in Msg
      BY <3>1, HeadFacts
    <3>3. retry'[slot] # None
      BY <1>1, <2>3, <3>2
    <3>4. QED
      BY <1>3, <1>6, <3>3
  <2>4. QED
    BY <1>6, <2>1, <2>2, <2>3 DEF DrainHead
<1>7. ASSUME NEW s \in Runtime, RunDrain(s) PROVE NoLostWakeup'
  <2>1. CASE slot # s
    <3>1. drain' = Finished(drain, s) /\ UNCHANGED <<slot, queue, cur, done, retry>>
      BY <1>7, <2>1 DEF RunDrain
    <3>2. QED
      BY <1>4, <2>1, <3>1
  <2>2. CASE slot = s /\ cur[s] # None
    <3>1. cur'[slot'] # None
      BY <1>7, <2>2 DEF RunDrain
    <3>2. QED
      BY <1>3, <3>1
  <2>3. CASE slot = s /\ cur[s] = None /\ MustWait
    <3>1. drain' = [drain EXCEPT ![s].at = Waiting] /\ slot' = slot
      BY <1>7, <2>3 DEF RunDrain
    <3>2. drain[s] \in DrainType
      BY <1>1 DEF Drains
    <3>3. drain'[slot'].at # "none"
      BY <1>1, <2>3, <3>1, <3>2 DEF Drains, DrainType, Waiting
    <3>4. QED
      BY <1>3, <3>3
  <2>4. CASE slot = s /\ cur[s] = None /\ ~MustWait
    <3>1. DrainHead(slot) /\ slot' = slot
      BY <1>7, <2>4 DEF RunDrain
    <3>2. QED
      BY <1>6, <3>1
  <2>5. QED
    BY <2>1, <2>2, <2>3, <2>4
<1>8. ASSUME NEW s \in Runtime, ResumeDrain(s) PROVE NoLostWakeup'
  <2>1. CASE slot # s /\ drain' = Finished(Scheduled(drain, slot, drain[s].force), s) /\ slot' = slot
    <3> DEFINE f == drain[s].force
               d == Scheduled(drain, slot, f)
    <3>1. f \in BOOLEAN
      BY <1>1 DEF Drains, DrainType
    <3>2. drain' = Finished(d, s)
      BY <2>1
    <3>3. d = Scheduled(drain, slot, f)
      OBVIOUS
    <3> HIDE DEF d, f
    <3>4. d \in Drains /\ d[slot].at # "none"
      BY <1>1, <3>1, <3>3, ScheduledFacts
    <3>5. drain'[slot] = d[slot]
      BY <1>1, <2>1, <3>2, <3>4, FinishedFacts
    <3>6. QED
      BY <1>3, <2>1, <3>4, <3>5
  <2>2. CASE slot = s /\ DrainHead(s) /\ slot' = slot
    BY <1>6, <2>2
  <2>3. QED
    BY <1>8, <2>1, <2>2 DEF ResumeDrain
<1>9. ASSUME NEW s \in Runtime, NEW f \in BOOLEAN, drain' = Scheduled(drain, s, f), slot' = slot,
             s # slot => /\ cur'[slot] = cur[slot] /\ done'[slot] = done[slot]
                         /\ retry'[slot] = retry[slot] /\ queue'[slot] = queue[slot]
      PROVE  NoLostWakeup'
  <2>1. drain'[s].at # "none" /\ \A r \in Runtime \ {s} : drain'[r] = drain[r]
    BY <1>1, <1>5, <1>9
  <2>2. CASE s = slot
    BY <1>3, <1>9, <2>1, <2>2
  <2>3. CASE s # slot
    BY <1>1, <1>2, <1>9, <2>1, <2>3
  <2>4. QED
    BY <2>2, <2>3
<1>10. ASSUME NEW s \in Runtime, TimerFires(s) PROVE NoLostWakeup'
  <2>1. /\ drain' = Scheduled(drain, s, TRUE) /\ retry' = [retry EXCEPT ![s] = None]
        /\ UNCHANGED <<slot, queue, cur, done>>
    BY <1>10 DEF TimerFires
  <2>2. QED
    BY <1>1, <1>9, <2>1
<1>11. CASE UNCHANGED <<slot, queue, cur, done, retry, drain>>
  BY <1>2, <1>11
<1>12. ASSUME NEW m \in Msg, NEW s \in Runtime, Enqueue(m, s), UNCHANGED <<slot, cur, done, retry>>
       PROVE  NoLostWakeup'
  <2>1. CASE queue' = [queue EXCEPT ![s] = Inserted(@, m)] /\ drain' = Scheduled(drain, s, FALSE)
    BY <1>1, <1>9, <1>12, <2>1
  <2>2. CASE UNCHANGED <<queue, drain>>
    BY <1>11, <1>12, <2>2
  <2>3. QED
    BY <1>12, <2>1, <2>2 DEF Enqueue
<1>13. ASSUME NEW m \in Msg, QueueNow(m) PROVE NoLostWakeup'
  BY <1>1, <1>12, <1>13 DEF QueueNow
<1>14. ASSUME NEW m \in Msg, QueueHeld(m) PROVE NoLostWakeup'
  <2>1. ref[m] \in Runtime
    BY <1>0, <1>14 DEF QueueHeld, RefInv
  <2>2. QED
    BY <1>12, <1>14, <2>1 DEF QueueHeld
<1>15. ASSUME NEW m \in Msg, SendNow(m) \/ ResumeSend(m) PROVE NoLostWakeup'
  <2>1. CASE Dispatch(slot, m) /\ slot' = slot
    <3>1. ~done'[slot]
      BY <1>1, <2>1 DEF Dispatch
    <3>2. QED
      BY <1>3, <2>1, <3>1
  <2>2. CASE UNCHANGED <<slot, queue, cur, done, retry, drain>>
    BY <1>11, <2>2
  <2>3. QED
    BY <1>15, <2>1, <2>2 DEF SendNow, ResumeSend, SendDirect
<1>16. ASSUME NEW new \in SetToSeqs(ToSet(queue[slot])), Reorder(new) PROVE NoLostWakeup'
  <2>1. queue[slot] \in Seq(Msg)
    BY <1>1
  <2>2. new \in Seq(Msg) /\ Len(new) <= Len(queue[slot])
    BY <2>1, ReorderFacts
  <2>3. new # <<>> => queue[slot] # <<>>
    BY <2>1, <2>2
  <2>4. queue'[slot] = new /\ UNCHANGED <<slot, cur, done, retry, drain>>
    BY <1>1, <1>16 DEF Reorder
  <2>5. QED
    BY <1>2, <2>3, <2>4
<1>17. ASSUME NEW m \in Msg, RemoveItem(m) PROVE NoLostWakeup'
  <2> DEFINE q == queue[slot]
             r == RemoveFirst(q, m)
  <2>1. m \in ToSet(q) /\ queue' = [queue EXCEPT ![slot] = r]
        /\ UNCHANGED <<slot, cur, done>>
    BY <1>17 DEF RemoveItem
  <2>2. q \in Seq(Msg) /\ queue'[slot] = r
    BY <1>1, <2>1
  <2> HIDE DEF r, q
  <2>3. r \in Seq(Msg) /\ Len(r) = Len(q) - 1 /\ Len(q) > 0
    BY <2>1, <2>2, RemoveFacts DEF r
  <2>4. CASE retry[slot] = m /\ done[slot] /\ cur[slot] = None /\ Len(q) > 1
    <3>1. drain' = Scheduled(drain, slot, FALSE)
      BY <1>17, <2>4 DEF RemoveItem, q
    <3>2. QED
      BY <1>1, <1>9, <2>1, <3>1
  <2>5. CASE Len(q) <= 1
    <3>1. Len(r) = 0
      BY <2>2, <2>3, <2>5
    <3>2. r = <<>>
      BY <2>3, <3>1
    <3>3. QED
      BY <1>3, <2>1, <2>2, <3>2
  <2>6. CASE ~done[slot] \/ cur[slot] # None
    BY <1>3, <2>1, <2>6
  <2>7. CASE retry[slot] # m
    <3>1. UNCHANGED <<retry, drain>>
      BY <1>17, <2>7 DEF RemoveItem
    <3>2. q # <<>>
      BY <2>3
    <3>3. QED
      BY <1>2, <2>1, <3>1, <3>2 DEF q
  <2>8. Len(q) <= 1 \/ Len(q) > 1
    BY <2>2
  <2>9. QED
    BY <2>4, <2>5, <2>6, <2>7, <2>8
<1>18. CASE Clear
  <2>1. queue'[slot'] = <<>>
    BY <1>1, <1>18 DEF Clear
  <2>2. QED
    BY <1>3, <2>1
<1>19. ASSUME NEW s \in Runtime, TurnStart(s) PROVE NoLostWakeup'
  <2>1. done' = [done EXCEPT ![s] = FALSE] /\ UNCHANGED <<slot, queue, cur, retry, drain>>
    BY <1>19 DEF TurnStart
  <2>2. CASE s = slot
    BY <1>1, <1>3, <2>1, <2>2
  <2>3. CASE s # slot
    BY <1>1, <1>2, <2>1, <2>3
  <2>4. QED
    BY <2>2, <2>3
<1>20. ASSUME NEW s \in Runtime, TurnEnd(s) PROVE NoLostWakeup'
  <2>1. /\ done' = [done EXCEPT ![s] = TRUE] /\ cur' = [cur EXCEPT ![s] = None]
        /\ retry' = retry \/ retry' = [retry EXCEPT ![s] = None]
        /\ drain' = IF cur[s] # None \/ queue[s] # <<>> THEN Scheduled(drain, s, FALSE) ELSE drain
        /\ UNCHANGED <<slot, queue>>
    BY <1>20 DEF TurnEnd, AfterTurn
  <2>2. CASE drain' = Scheduled(drain, s, FALSE)
    BY <1>1, <1>9, <2>1, <2>2
  <2>3. CASE drain' = drain /\ queue[s] = <<>> /\ s = slot
    BY <1>3, <2>1, <2>3
  <2>4. CASE drain' = drain /\ s # slot
    BY <1>1, <1>2, <2>1, <2>4
  <2>5. QED
    BY <2>1, <2>2, <2>3, <2>4
<1>21. ASSUME NEW s \in Runtime, PipeDrains(s) PROVE NoLostWakeup'
  BY <1>11, <1>21 DEF PipeDrains
<1>22. ASSUME NEW q, NEW d \in Drains, slot' = slot + 1, slot + 1 \in Runtime,
              queue' = [queue EXCEPT ![slot + 1] = q],
              drain' = IF q # <<>> THEN Scheduled(d, slot + 1, TRUE) ELSE d
       PROVE  NoLostWakeup'
  <2>1. CASE q = <<>>
    BY <1>1, <1>3, <1>22, <2>1
  <2>2. CASE q # <<>>
    <3>1. drain'[slot + 1].at # "none"
      BY <1>5, <1>22, <2>2
    <3>2. QED
      BY <1>3, <1>22, <3>1
  <2>3. QED
    BY <2>1, <2>2
<1>23. ASSUME NEW old, NEW d \in Drains, Rotated(old, d) PROVE NoLostWakeup'
  <2>1. slot + 1 \in Runtime
    BY <1>0, <1>23, Facts DEF Rotated, Runtime
  <2> DEFINE q == queue[old]
  <2>2. /\ slot' = slot + 1 /\ queue' = [queue EXCEPT ![slot + 1] = q]
        /\ drain' = IF q # <<>> THEN Scheduled(d, slot + 1, TRUE) ELSE d
    BY <1>23 DEF Rotated, CarriedOver
  <2> HIDE DEF q
  <2>3. QED
    BY <1>22, <2>1, <2>2
<1>24. DrainsResumed \in Drains /\ (DrainsResumed[slot].at = "none" => drain[slot].at = "none")
  BY <1>1, ResumedFacts
<1>25. ASSUME NEW s \in Runtime
       PROVE  /\ [drain EXCEPT ![s].at = "resumed"] \in Drains
              /\ [drain EXCEPT ![s].at = "resumed"][slot].at = "none" => drain[slot].at = "none"
  <2> DEFINE d == [drain EXCEPT ![s].at = "resumed"]
  <2>1. d \in Drains /\ d[s].at = "resumed" /\ \A r \in Runtime \ {s} : d[r] = drain[r]
    <3>1. drain \in Drains
      BY <1>1
    <3>2. QED
      BY <3>1, MovedFacts
  <2> HIDE DEF d
  <2>2. d \in Drains /\ (d[slot].at = "none" => drain[slot].at = "none")
    BY <1>1, <2>1
  <2>3. QED
    BY <2>2 DEF d
<1>26. CASE RotationEnds
  <2>1. CASE Rotated(rotating, DrainsResumed)
    BY <1>23, <1>24, <2>1
  <2>2. ASSUME NEW s \in Runtime, Rotated(s, [drain EXCEPT ![s].at = "resumed"])
        PROVE  NoLostWakeup'
    BY <1>23, <1>25, <2>2
  <2>3. ASSUME NEW m \in Msg, Rotated(ref[m], drain) PROVE NoLostWakeup'
    BY <1>1, <1>23, <2>3
  <2>4. QED
    BY <1>26, <2>1, <2>2, <2>3 DEF RotationEnds
<1>27. CASE RotationFails
  <2>1. UNCHANGED <<slot, queue, cur, done, retry>>
    BY <1>27 DEF RotationFails
  <2>2. CASE drain' = DrainsResumed
    BY <1>2, <1>24, <2>1, <2>2
  <2>3. ASSUME NEW s \in Runtime, drain' = [drain EXCEPT ![s].at = "resumed"]
        PROVE  NoLostWakeup'
    BY <1>2, <1>25, <2>1, <2>3
  <2>4. CASE drain' = drain
    BY <1>11, <2>1, <2>4
  <2>5. QED
    BY <1>27, <2>2, <2>3, <2>4 DEF RotationFails
<1>28. CASE Swap
  <2> DEFINE q == PutBack(swap.of)
  <2>1. slot + 1 \in Runtime
    BY <1>0, <1>28, Facts DEF Swap, Runtime
  <2>2. /\ slot' = slot + 1 /\ queue' = [queue EXCEPT ![slot + 1] = q]
        /\ drain' = IF q # <<>> THEN Scheduled(drain, slot + 1, TRUE) ELSE drain
    BY <1>28 DEF Swap
  <2> HIDE DEF q
  <2>3. QED
    BY <1>1, <1>22, <2>1, <2>2
<1>29. ASSUME NEW m \in Msg, HoldSession(m) PROVE NoLostWakeup'
  BY <1>11, <1>29 DEF HoldSession
<1>30. ASSUME NEW idle \in BOOLEAN, StartSwap(idle) PROVE NoLostWakeup'
  BY <1>11, <1>30 DEF StartSwap
<1>31. CASE SwapFails \/ UNCHANGED vars
  BY <1>11, <1>31 DEF SwapFails, vars
<1>32. QED
  BY <1>7, <1>8, <1>10, <1>13, <1>14, <1>15, <1>16, <1>17, <1>18, <1>19, <1>20, <1>21, <1>26,
     <1>27, <1>28, <1>29, <1>30, <1>31 DEF Next, Micro, Client

\* No wakeup is lost, also where rotations and settings changes meet.
THEOREM NoWakeupIsLost == Spec => []NoLostWakeup
<1>1. Init => NoLostWakeup
  <2> SUFFICES ASSUME Init PROVE NoLostWakeup
    OBVIOUS
  <2>1. 1 \in Runtime
    BY QueueAssumption DEF Runtime
  <2>2. queue[slot] = <<>>
    BY <2>1 DEF Init
  <2>3. QED
    BY <2>2 DEF NoLostWakeup
<1>2. Base /\ NoLostWakeup /\ [Next /\ UNCHANGED mode]_<<vars, mode>> => NoLostWakeup'
  <2>1. [Next /\ UNCHANGED mode]_<<vars, mode>> => [Next]_vars
    BY DEF vars
  <2>2. QED
    BY <2>1, WakeupStep
<1>3. QED
  BY <1>1, <1>2, Invariance, PTL DEF Spec

(***************************************************************************)
(* Rotations                                                               *)
(***************************************************************************)

\* A rotation that is due is the registered one, which replaces the runtime behind
\* the name, so nobody runs a rotation of its own; nor does a settings change
\* meet a rotation.
NoOwn ==
  /\ \A s \in Runtime : drain[s].at # "rotating"
  /\ \A m \in Msg : req[m] # "rotating"

\* A rotation that is due is registered, for the runtime behind the name.
Registered ==
  /\ rotating \in {0, slot}
  /\ RotationDue => rotating = slot
  /\ ~Rotates => rotating = 0 /\ \A s \in Runtime : ~rotate[s]

\* A settings change only meets the runtime it captured.
OneChange ==
  /\ ~Replaces => swap = NoSwap
  /\ swap # NoSwap => swap.of = slot

RotationInv == NoOwn /\ Registered /\ OneChange

\* In every session that does not do both.
ApartInv == mode # "both" => RotationInv

\* Such a session rotates or is replaced.
LEMMA OneMode ==
  ASSUME mode # "both", TypeOK
  PROVE  (Rotates /\ ~Replaces) \/ (Replaces /\ ~Rotates)
<1>1. mode \in {"rotation", "replacement"}
  BY QueueAssumption DEF TypeOK
<1>2. QED
  BY <1>1 DEF Rotates, Replaces

\* While a rotation that is due is the registered one, nobody starts one of its own.
LEMMA NoOwnStep ==
  ASSUME Base, NoOwn, Registered, [Next]_vars
  PROVE  NoOwn'
<1> DEFINE P(d) == \A r \in Runtime : d[r].at # "rotating"
<1>0. TypeOK /\ CurInv /\ RefInv
  BY DEF Base
<1>1. drain \in Drains /\ P(drain) /\ slot \in Runtime /\ slot # 0 /\ RefInv
      /\ req \in [Msg -> ReqStates] /\ \A m \in Msg : req[m] # "rotating"
  BY <1>0, Facts DEF NoOwn, Runtime, ReqStates
<1>2. MustWait => Waiting = "waiting"
  BY <1>1 DEF MustWait, Waiting, Registered
<1>3. ASSUME NEW d \in Drains, P(d), NEW s \in Runtime, NEW f \in BOOLEAN
      PROVE  P(Scheduled(d, s, f)) /\ Scheduled(d, s, f) \in Drains
  <2> DEFINE e == Scheduled(d, s, f)
  <2>1. /\ e[s].at = d[s].at \/ e[s].at = "scheduled"
        /\ e \in Drains /\ \A r \in Runtime \ {s} : e[r] = d[r]
    BY ScheduledFacts
  <2> HIDE DEF e
  <2>2. P(e) /\ e \in Drains
    BY <1>3, <2>1
  <2>3. QED
    BY <2>2 DEF e
<1>4. ASSUME NEW d \in Drains, P(d), NEW s \in Runtime
      PROVE  P(Finished(d, s))
  <2> DEFINE e == Finished(d, s)
  <2>1. e[s].at \in {"none", "scheduled"} /\ \A r \in Runtime \ {s} : e[r] = d[r]
    BY FinishedFacts
  <2> HIDE DEF e
  <2>2. P(e)
    <3>1. e[s].at # "rotating"
      BY <2>1
    <3>2. \A r \in Runtime \ {s} : e[r].at # "rotating"
      BY <1>4, <2>1
    <3>3. QED
      BY <3>1, <3>2
  <2>3. QED
    BY <2>2 DEF e
<1>5. ASSUME NEW s \in Runtime PROVE P([drain EXCEPT ![s].at = "waiting"])
  <2> DEFINE e == [drain EXCEPT ![s].at = "waiting"]
  <2>1. e[s].at = "waiting" /\ \A r \in Runtime \ {s} : e[r] = drain[r]
    <3>1. drain \in Drains
      BY <1>1
    <3>2. QED
      BY <3>1, MovedFacts
  <2> HIDE DEF e
  <2>2. P(e)
    BY <1>1, <2>1
  <2>3. QED
    BY <2>2 DEF e
<1>6. P(DrainsResumed) /\ DrainsResumed \in Drains
  BY <1>1, ResumedFacts
<1>7. P(drain')
  <2>1. ASSUME NEW s \in Runtime, DrainHead(s) PROVE P(drain')
    BY <1>1, <1>4, <2>1 DEF DrainHead
  <2>2. ASSUME NEW s \in Runtime, RunDrain(s) PROVE P(drain')
    <3>1. CASE drain' = Finished(drain, s)
      BY <1>1, <1>4, <3>1
    <3>2. CASE MustWait /\ drain' = [drain EXCEPT ![s].at = Waiting]
      BY <1>2, <1>5, <3>2
    <3>3. QED
      BY <2>1, <2>2, <3>1, <3>2 DEF RunDrain
  <2>3. ASSUME NEW s \in Runtime, ResumeDrain(s) PROVE P(drain')
    <3>1. CASE drain' = Finished(Scheduled(drain, slot, drain[s].force), s)
      <4>1. drain[s].force \in BOOLEAN
        BY <1>1 DEF Drains, DrainType
      <4>2. QED
        BY <1>1, <1>3, <1>4, <3>1, <4>1
    <3>2. QED
      BY <2>1, <2>3, <3>1 DEF ResumeDrain
  <2>4. ASSUME NEW s \in Runtime, NEW f \in BOOLEAN, drain' = Scheduled(drain, s, f)
        PROVE  P(drain')
    BY <1>1, <1>3, <2>4
  <2>5. CASE drain' = drain
    BY <1>1, <2>5
  <2>6. ASSUME NEW s \in Runtime, TimerFires(s) \/ TurnEnd(s) PROVE P(drain')
    BY <2>4, <2>5, <2>6 DEF TimerFires, TurnEnd, AfterTurn
  <2>7. ASSUME NEW m \in Msg, QueueNow(m) \/ QueueHeld(m) \/ RemoveItem(m) PROVE P(drain')
    <3>1. CASE QueueNow(m)
      BY <1>1, <2>4, <2>5, <3>1 DEF QueueNow, Enqueue
    <3>2. CASE QueueHeld(m)
      <4>1. ref[m] \in Runtime
        BY <1>1, <3>2 DEF QueueHeld, RefInv
      <4>2. QED
        BY <2>4, <2>5, <3>2, <4>1 DEF QueueHeld, Enqueue
    <3>3. CASE RemoveItem(m)
      BY <1>1, <2>4, <2>5, <3>3 DEF RemoveItem
    <3>4. QED
      BY <2>7, <3>1, <3>2, <3>3
  <2>8. ASSUME NEW old, NEW d \in Drains, P(d), Rotated(old, d) PROVE P(drain')
    <3>1. slot + 1 \in Runtime
      BY <1>0, <2>8, Facts DEF Rotated, Runtime
    <3>2. drain' = d \/ drain' = Scheduled(d, slot + 1, TRUE)
      BY <2>8 DEF Rotated
    <3>3. QED
      BY <1>3, <2>8, <3>1, <3>2
  <2>9. CASE RotationEnds
    BY <1>1, <1>6, <2>8, <2>9 DEF RotationEnds
  <2>10. CASE RotationFails
    BY <1>1, <1>6, <2>5, <2>10 DEF RotationFails
  <2>11. CASE Swap
    <3>1. slot + 1 \in Runtime
      BY <1>0, <2>11, Facts DEF Swap, Runtime
    <3>2. drain' = drain \/ drain' = Scheduled(drain, slot + 1, TRUE)
      BY <2>11 DEF Swap
    <3>3. QED
      BY <2>4, <2>5, <3>1, <3>2
  <2>12. ASSUME NEW m \in Msg, HoldSession(m) \/ SendNow(m) \/ ResumeSend(m) PROVE P(drain')
    BY <2>5, <2>12 DEF HoldSession, SendNow, ResumeSend
  <2>13. ASSUME NEW new \in SetToSeqs(ToSet(queue[slot])), Reorder(new) PROVE P(drain')
    BY <2>5, <2>13 DEF Reorder
  <2>14. ASSUME NEW s \in Runtime, TurnStart(s) \/ PipeDrains(s) PROVE P(drain')
    BY <2>5, <2>14 DEF TurnStart, PipeDrains
  <2>15. ASSUME NEW idle \in BOOLEAN, StartSwap(idle) PROVE P(drain')
    BY <2>5, <2>15 DEF StartSwap
  <2>16. CASE Clear \/ SwapFails \/ UNCHANGED vars
    BY <2>5, <2>16 DEF Clear, SwapFails, vars
  <2>17. QED
    BY <2>2, <2>3, <2>6, <2>7, <2>9, <2>10, <2>11, <2>12, <2>13, <2>14, <2>15, <2>16
    DEF Next, Micro, Client
<1>8. \A m \in Msg : req'[m] # "rotating"
  <2> DEFINE R == \A m \in Msg : req'[m] # "rotating"
  <2>1. CASE req' = req \/ req' = SendsResumed
    BY <1>1, <2>1 DEF SendsResumed
  <2>2. ASSUME NEW m \in Msg, NEW v, req' = [req EXCEPT ![m] = v], v # "rotating"
        PROVE  R
    BY <1>1, <2>2
  <2>3. ASSUME NEW m \in Msg, NEW s, Enqueue(m, s) PROVE R
    BY <2>2, <2>3 DEF Enqueue
  <2>4. ASSUME NEW m \in Msg, SendDirect(m) PROVE R
    BY <2>2, <2>4 DEF SendDirect
  <2>5. ASSUME NEW m \in Msg, QueueNow(m) \/ QueueHeld(m) PROVE R
    BY <2>3, <2>5 DEF QueueNow, QueueHeld
  <2>6. ASSUME NEW m \in Msg, HoldSession(m) PROVE R
    BY <2>2, <2>6 DEF HoldSession
  <2>7. ASSUME NEW m \in Msg, SendNow(m) \/ ResumeSend(m) PROVE R
    <3>1. CASE MustWait /\ req' = [req EXCEPT ![m] = Waiting]
      BY <1>2, <2>2, <3>1
    <3>2. QED
      BY <2>4, <2>7, <3>1 DEF SendNow, ResumeSend
  <2>8. CASE RotationEnds \/ RotationFails
    BY <1>1, <2>1, <2>8 DEF RotationEnds, RotationFails
  <2>9. ASSUME NEW s \in Runtime,
               \/ RunDrain(s) \/ ResumeDrain(s) \/ TimerFires(s) \/ TurnStart(s) \/ PipeDrains(s)
               \/ TurnEnd(s)
        PROVE  R
    BY <2>1, <2>9 DEF RunDrain, ResumeDrain, TimerFires, TurnStart, PipeDrains, TurnEnd
  <2>10. ASSUME NEW m \in Msg, RemoveItem(m) PROVE R
    BY <2>1, <2>10 DEF RemoveItem
  <2>11. ASSUME NEW new \in SetToSeqs(ToSet(queue[slot])), Reorder(new) PROVE R
    BY <2>1, <2>11 DEF Reorder
  <2>12. ASSUME NEW idle \in BOOLEAN, StartSwap(idle) PROVE R
    BY <2>1, <2>12 DEF StartSwap
  <2>13. CASE Clear \/ SwapFails \/ Swap \/ UNCHANGED vars
    BY <2>1, <2>13 DEF Clear, SwapFails, Swap, vars
  <2>14. QED
    BY <2>5, <2>6, <2>7, <2>8, <2>9, <2>10, <2>11, <2>12, <2>13 DEF Next, Micro, Client
<1>9. QED
  BY <1>7, <1>8 DEF NoOwn

\* A rotation that becomes due is registered in the same step, by the turn end that made
\* it due or by the rotation that failed.
LEMMA RegisteredStep ==
  ASSUME mode # "both", Base, RotationInv, [Next]_vars, mode' = mode
  PROVE  Registered' /\ OneChange'
<1>0. TypeOK /\ CurInv /\ RefInv /\ NoOwn /\ Registered /\ OneChange
  BY DEF Base, RotationInv
<1>1. /\ slot \in Runtime /\ slot \in Nat /\ slot # 0
      /\ cur \in [Runtime -> Msg \cup {None}] /\ None \notin Msg
      /\ done \in [Runtime -> BOOLEAN] /\ rotate \in [Runtime -> BOOLEAN]
      /\ rotating \in {0, slot} /\ (RotationDue => rotating = slot)
      /\ ~Rotates => rotating = 0 /\ \A s \in Runtime : ~rotate[s]
      /\ ~Replaces => swap = NoSwap
      /\ swap # NoSwap => swap.of = slot
  BY <1>0, Facts DEF TypeOK, Runtime, Registered, OneChange
<1>2. Rotates' = Rotates /\ Replaces' = Replaces
  BY DEF Rotates, Replaces
<1>3. (Rotates /\ ~Replaces) \/ (Replaces /\ ~Rotates)
  BY <1>0, OneMode
<1> DEFINE Goal == Registered' /\ OneChange'
\* A change of the provider's or the queue's state.
<1>4. ASSUME UNCHANGED <<slot, rotate, rotating, swap>>,
             RotationDue' => RotationDue
      PROVE  Goal
  BY <1>1, <1>2, <1>4 DEF Registered, OneChange
<1>5. ASSUME UNCHANGED <<slot, rotate, rotating, swap, done, cur>> PROVE Goal
  BY <1>4, <1>5 DEF RotationDue
<1>6. ASSUME UNCHANGED <<slot, rotate, rotating, swap>>, NEW m, Dispatch(slot, m) PROVE Goal
  <2>1. ~done'[slot]
    BY <1>1, <1>6 DEF Dispatch
  <2>2. QED
    BY <1>4, <1>6, <2>1 DEF RotationDue
<1>7. ASSUME NEW s \in Runtime, RunDrain(s) \/ ResumeDrain(s) PROVE Goal
  <2>1. /\ UNCHANGED <<slot, rotate, rotating, swap>>
        /\ UNCHANGED <<done, cur>> \/ (s = slot /\ DrainHead(s))
    BY <1>7 DEF RunDrain, ResumeDrain
  <2>2. QED
    BY <1>5, <1>6, <2>1 DEF DrainHead
<1>8. ASSUME NEW m \in Msg, SendNow(m) \/ ResumeSend(m) PROVE Goal
  <2>1. /\ UNCHANGED <<slot, rotate, rotating, swap, cur>>
        /\ UNCHANGED done \/ Dispatch(slot, m)
    BY <1>8 DEF SendNow, ResumeSend, SendDirect
  <2>2. QED
    BY <1>5, <1>6, <2>1
<1>9. ASSUME NEW s \in Runtime, TurnStart(s) PROVE Goal
  <2>1. done' = [done EXCEPT ![s] = FALSE] /\ UNCHANGED <<slot, rotate, rotating, swap, cur>>
    BY <1>9 DEF TurnStart
  <2>2. RotationDue' => RotationDue
    BY <1>1, <2>1 DEF RotationDue
  <2>3. QED
    BY <1>4, <2>1, <2>2
<1>10. ASSUME NEW s \in Runtime, TurnEnd(s) PROVE Goal
  <2>1. /\ done' = [done EXCEPT ![s] = TRUE] /\ cur' = [cur EXCEPT ![s] = None]
        /\ rotate' = rotate \/ (Rotates /\ rotate' = [rotate EXCEPT ![s] = TRUE])
        /\ rotating' = IF rotate'[s] /\ rotating = 0 /\ RotationDue' THEN slot ELSE rotating
        /\ UNCHANGED <<slot, swap>>
    BY <1>10 DEF TurnEnd, RotationAfterTurn
  <2>2. rotating' \in {0, slot'}
    BY <1>1, <2>1
  <2>3. RotationDue' => rotating' = slot'
    <3>1. CASE s = slot
      <4>1. RotationDue' => rotate'[s]
        BY <2>1, <3>1 DEF RotationDue
      <4>2. QED
        BY <1>1, <2>1, <4>1
    <3>2. CASE s # slot
      <4>1. rotate'[slot] = rotate[slot] /\ done'[slot] = done[slot] /\ cur'[slot] = cur[slot]
        BY <1>1, <2>1, <3>2
      <4>2. RotationDue' => RotationDue
        BY <2>1, <4>1 DEF RotationDue
      <4>3. QED
        BY <1>1, <2>1, <4>2
    <3>3. QED
      BY <3>1, <3>2
  <2>4. ~Rotates => rotating' = 0 /\ \A r \in Runtime : ~rotate'[r]
    <3>1. ASSUME ~Rotates PROVE rotating' = 0 /\ \A r \in Runtime : ~rotate'[r]
      <4>1. rotate' = rotate /\ rotating = 0 /\ \A r \in Runtime : ~rotate[r]
        BY <1>1, <2>1, <3>1
      <4>2. QED
        BY <2>1, <4>1
    <3>2. QED
      BY <3>1
  <2>5. OneChange'
    BY <1>1, <1>2, <2>1 DEF OneChange
  <2>6. QED
    BY <1>2, <2>2, <2>3, <2>4, <2>5 DEF Registered
<1>11. CASE RotationEnds
  <2>1. rotating # 0 /\ Rotated(rotating, DrainsResumed) /\ rotating' = 0
        /\ UNCHANGED <<cur, done, rotate, swap>>
    <3>1. ~\E s \in Runtime : drain[s].at = "rotating"
      BY <1>0 DEF NoOwn
    <3>2. ~\E m \in Msg : req[m] = "rotating"
      BY <1>0 DEF NoOwn
    <3>3. QED
      BY <1>11, <3>1, <3>2 DEF RotationEnds
  <2>2. slot' = slot + 1 /\ slot + 1 \in Runtime
    BY <1>0, <2>1, Facts DEF Rotated, Runtime
  <2>3. ~rotate[slot + 1]
    BY <1>0, <1>1, <2>2 DEF CurInv
  <2>4. ~RotationDue'
    BY <2>1, <2>2, <2>3 DEF RotationDue
  <2>5. swap = NoSwap
    BY <1>1, <1>3, <2>1
  <2>6. Registered'
    BY <1>1, <1>2, <2>1, <2>4 DEF Registered
  <2>7. OneChange'
    BY <2>1, <2>5 DEF OneChange
  <2>8. QED
    BY <2>6, <2>7
<1>12. CASE RotationFails
  <2>1. /\ rotating # 0 /\ rotating' = IF RotationDue THEN slot ELSE 0
        /\ UNCHANGED <<slot, cur, done, rotate, swap>>
    <3>1. ~\E s \in Runtime : drain[s].at = "rotating"
      BY <1>0 DEF NoOwn
    <3>2. ~\E m \in Msg : req[m] = "rotating"
      BY <1>0 DEF NoOwn
    <3>3. QED
      BY <1>12, <3>1, <3>2 DEF RotationFails
  <2>2. RotationDue' <=> RotationDue
    BY <2>1 DEF RotationDue
  <2>3. Registered'
    BY <1>1, <1>2, <2>1, <2>2 DEF Registered
  <2>4. OneChange'
    BY <1>1, <1>2, <2>1 DEF OneChange
  <2>5. QED
    BY <2>3, <2>4
<1>13. CASE Swap
  <2>1. Replaces /\ ~Rotates
    BY <1>1, <1>3, <1>13 DEF Swap
  <2>2. slot' = slot + 1 /\ slot + 1 \in Runtime /\ swap.of = slot
    BY <1>0, <1>1, <1>13, Facts DEF Swap, Runtime
  <2>3. swap' = NoSwap /\ rotating' = rotating
        /\ rotate' = [rotate EXCEPT ![slot + 1] = rotate[slot]]
    BY <1>13, <2>2 DEF Swap
  <2>4. rotating = 0 /\ \A s \in Runtime : ~rotate[s]
    BY <1>1, <2>1
  <2>5. \A s \in Runtime : ~rotate'[s]
    BY <1>1, <2>2, <2>3, <2>4
  <2>6. ~RotationDue'
    BY <2>2, <2>5 DEF RotationDue
  <2>7. Registered'
    BY <2>3, <2>4, <2>5, <2>6 DEF Registered
  <2>8. OneChange'
    BY <2>3 DEF OneChange
  <2>9. QED
    BY <2>7, <2>8
<1>14. ASSUME NEW idle \in BOOLEAN, StartSwap(idle) PROVE Goal
  <2>1. /\ Replaces /\ swap' = [of |-> slot, idle |-> idle]
        /\ UNCHANGED <<slot, rotate, rotating, done, cur>>
    BY <1>14 DEF StartSwap
  <2>2. Registered'
    BY <1>1, <1>2, <2>1 DEF Registered, RotationDue
  <2>3. OneChange'
    BY <1>2, <2>1 DEF OneChange
  <2>4. QED
    BY <2>2, <2>3
<1>15. CASE SwapFails
  <2>1. swap' = NoSwap /\ UNCHANGED <<slot, rotate, rotating, done, cur>>
    BY <1>15 DEF SwapFails
  <2>2. Registered'
    BY <1>1, <1>2, <2>1 DEF Registered, RotationDue
  <2>3. OneChange'
    BY <2>1 DEF OneChange
  <2>4. QED
    BY <2>2, <2>3
<1>16. ASSUME NEW s \in Runtime, TimerFires(s) \/ PipeDrains(s) PROVE Goal
  BY <1>5, <1>16 DEF TimerFires, PipeDrains
<1>17. ASSUME NEW m \in Msg, QueueNow(m) \/ QueueHeld(m) \/ HoldSession(m) \/ RemoveItem(m)
       PROVE  Goal
  BY <1>5, <1>17 DEF QueueNow, QueueHeld, HoldSession, RemoveItem
<1>18. ASSUME NEW new \in SetToSeqs(ToSet(queue[slot])), Reorder(new) PROVE Goal
  BY <1>5, <1>18 DEF Reorder
<1>19. CASE Clear \/ UNCHANGED vars
  BY <1>5, <1>19 DEF Clear, vars
<1>20. Goal
  BY <1>7, <1>8, <1>9, <1>10, <1>11, <1>12, <1>13, <1>14, <1>15, <1>16, <1>17, <1>18, <1>19
  DEF Next, Micro, Client
<1>21. QED
  BY <1>20

\* The three parts hold together in every state of such a session.
LEMMA RotationInvariance == Spec => []ApartInv
<1>1. Init => ApartInv
  <2> SUFFICES ASSUME Init PROVE RotationInv
    BY DEF ApartInv
  <2>1. 1 \in Runtime
    BY QueueAssumption DEF Runtime
  <2>2. NoOwn
    BY NoDrainFacts DEF Init, NoOwn
  <2>3. Registered
    BY <2>1 DEF Init, Registered, RotationDue
  <2>4. OneChange
    BY DEF Init, OneChange
  <2>5. QED
    BY <2>2, <2>3, <2>4 DEF RotationInv
<1>2. Base /\ ApartInv /\ [Next /\ UNCHANGED mode]_<<vars, mode>> => ApartInv'
  <2> SUFFICES ASSUME Base, ApartInv, [Next /\ UNCHANGED mode]_<<vars, mode>>, mode # "both"
               PROVE  RotationInv'
    BY DEF ApartInv, vars
  <2>1. [Next]_vars /\ mode' = mode /\ RotationInv
    BY DEF vars, ApartInv
  <2>2. NoOwn'
    BY <2>1, NoOwnStep DEF RotationInv
  <2>3. Registered' /\ OneChange'
    BY <2>1, RegisteredStep
  <2>4. QED
    BY <2>2, <2>3 DEF RotationInv
<1>3. QED
  BY <1>1, <1>2, Invariance, PTL DEF Spec

\* Under the hypothesis this is every session.
LEMMA ApartEverywhere ==
  ASSUME ModesApart
  PROVE  Spec => []RotationInv
<1>1. Base /\ ApartInv => RotationInv
  BY QueueAssumption DEF ModesApart, Base, TypeOK, ApartInv
<1>2. QED
  BY <1>1, Invariance, RotationInvariance, PTL

\* Two rotations of a session never run side by side.
THEOREM RotationsAreSingle ==
  ASSUME ModesApart
  PROVE  Spec => []OneRotation
<1>1. RotationInv => OneRotation
  <2> SUFFICES ASSUME RotationInv PROVE OneRotation
    OBVIOUS
  <2> DEFINE A == {s \in Runtime : drain[s].at = "rotating"}
             B == {m \in Msg : req[m] = "rotating"}
  <2>1. A = {} /\ B = {}
    BY DEF RotationInv, NoOwn
  <2>2. Cardinality(A) = 0 /\ Cardinality(B) = 0
    BY <2>1, FS_EmptySet
  <2> HIDE DEF A, B
  <2>3. Cardinality(A) + Cardinality(B) + (IF rotating # 0 THEN 1 ELSE 0) <= 1
    BY <2>2
  <2>4. QED
    BY <2>3 DEF A, B, OneRotation
<1>2. Spec => []RotationInv
  BY ApartEverywhere
<1>3. QED
  BY <1>1, <1>2, PTL

(***************************************************************************)
(* Accepted messages                                                       *)
(***************************************************************************)

KeptAt(m) ==
  /\ Kept(m)
  /\ req[m] = "queued" /\ ~Rotates =>
       m \in served \cup removed \cup ToSet(queue[slot]) \cup {cur[slot]}

\* A move keeps an accepted message of a request that uses the session at once: it waits
\* behind the name, or was handed over or withdrawn.
LEMMA KeptStep ==
  ASSUME Base, RotationInv, Moves, mode' = mode, NEW m \in Msg \ Held, KeptAt(m)
  PROVE  KeptAt(m)'
<1> DEFINE W == ToSet(queue[slot])
           V == ToSet(queue'[slot'])
<1>0. TypeOK /\ CurInv /\ RefInv /\ NoOwn /\ Registered /\ OneChange
  BY DEF Base, RotationInv
<1>1. /\ slot \in Runtime /\ slot \in Nat /\ slot # 0
      /\ cur \in [Runtime -> Msg \cup {None}] /\ None \notin Msg
      /\ queue \in [Runtime -> Seq(Msg)] /\ queue[slot] \in Seq(Msg)
      /\ req \in [Msg -> ReqStates] /\ m \in Msg /\ m \notin Held
  BY <1>0, Facts DEF Runtime, ReqStates
<1>2. Rotates' = Rotates
  BY DEF Rotates
<1>3. /\ req[m] = "queued" => m \in handed \cup removed \cup W
      /\ req[m] = "queued" /\ ~Rotates => m \in served \cup removed \cup W \cup {cur[slot]}
  BY DEF KeptAt, Kept
<1> HIDE DEF W, V
<1>4. ASSUME req'[m] = "queued" =>
               /\ m \in handed' \cup removed' \cup V
               /\ ~Rotates => m \in served' \cup removed' \cup V \cup {cur'[slot']}
      PROVE  KeptAt(m)'
  <2>1. KeptAt(m)' = /\ req'[m] = "queued" => m \in handed' \cup removed' \cup V
                     /\ req'[m] = "queued" /\ ~Rotates' =>
                          m \in served' \cup removed' \cup V \cup {cur'[slot']}
    BY DEF KeptAt, Kept, V
  <2>2. QED
    BY <1>2, <1>4, <2>1
<1>5. ASSUME NEW j \in Msg, NEW s \in Runtime, Joins(j, s) PROVE KeptAt(m)'
  <2>1. /\ queue' = [queue EXCEPT ![s] = Inserted(queue[s], j)]
        /\ req' = [req EXCEPT ![j] = "queued"]
        /\ UNCHANGED <<slot, cur, handed, served, removed>>
    BY <1>5 DEF Joins
  <2>2. W \subseteq V /\ (s = slot => j \in V)
    <3>1. CASE s = slot
      <4>1. queue'[slot'] = Inserted(queue[slot], j)
        BY <1>1, <2>1, <3>1
      <4>2. ToSet(Inserted(queue[slot], j)) = ToSet(queue[slot]) \cup {j}
        BY <1>1, InsertFacts
      <4>3. QED
        BY <4>1, <4>2 DEF V, W
    <3>2. CASE s # slot
      BY <1>1, <2>1, <3>2 DEF V, W
    <3>3. QED
      BY <3>1, <3>2
  <2>3. j = m => s = slot
    <3>1. j = m => req[m] = "idle"
      BY <1>0, <1>1, <1>5 DEF Joins, RefInv
    <3>2. QED
      BY <1>5, <3>1 DEF Joins
  <2>4. j # m => req'[m] = req[m]
    BY <1>1, <2>1
  <2>5. QED
    BY <1>3, <1>4, <2>1, <2>2, <2>3, <2>4
<1>6. ASSUME NEW h \in Msg, Hands(h) PROVE KeptAt(m)'
  <2>1. /\ queue' = [queue EXCEPT ![slot] = RemoveFirst(queue[slot], h)]
        /\ cur' = [cur EXCEPT ![slot] = h] /\ handed' = handed \cup {h}
        /\ queue[slot] # <<>> /\ h = Head(queue[slot]) /\ cur[slot] = None
        /\ UNCHANGED <<slot, req, served, removed>>
    BY <1>6 DEF Hands
  <2>2. h \in ToSet(queue[slot])
    BY <1>1, <2>1, HeadFacts
  <2>3. ToSet(queue[slot]) \subseteq ToSet(RemoveFirst(queue[slot], h)) \cup {h}
    BY <1>1, <2>2, RemoveFacts
  <2>4. queue'[slot'] = RemoveFirst(queue[slot], h) /\ cur'[slot'] = h
    BY <1>1, <2>1
  <2>5. W \subseteq V \cup {h}
    BY <2>3, <2>4 DEF V, W
  <2>6. QED
    BY <1>1, <1>3, <1>4, <2>1, <2>4, <2>5
<1>7. ASSUME NEW x \in Msg, Sends(x) PROVE KeptAt(m)'
  <2>1. /\ req' = [req EXCEPT ![x] = "sent"] /\ handed' = handed \cup {x}
        /\ UNCHANGED <<slot, queue, cur, served, removed>>
    BY <1>7 DEF Sends
  <2>2. V = W
    BY <2>1 DEF V, W
  <2>3. req'[m] = "queued" => req[m] = "queued"
    BY <1>1, <2>1
  <2>4. QED
    BY <1>3, <1>4, <2>1, <2>2, <2>3
<1>8. ASSUME NEW x \in Msg, Takes(x) PROVE KeptAt(m)'
  <2>1. /\ x \in ToSet(queue[slot]) /\ removed' = removed \cup {x}
        /\ queue' = [queue EXCEPT ![slot] = RemoveFirst(queue[slot], x)]
        /\ UNCHANGED <<slot, cur, req, handed, served>>
    BY <1>8 DEF Takes
  <2>2. ToSet(queue[slot]) \subseteq ToSet(RemoveFirst(queue[slot], x)) \cup {x}
    BY <1>1, <2>1, RemoveFacts
  <2>3. queue'[slot'] = RemoveFirst(queue[slot], x)
    BY <1>1, <2>1
  <2>4. W \subseteq V \cup {x}
    BY <2>2, <2>3 DEF V, W
  <2>5. QED
    BY <1>3, <1>4, <2>1, <2>4
<1>9. CASE Empties
  <2>1. removed' = removed \cup W /\ UNCHANGED <<slot, cur, req, handed, served>>
    BY <1>9 DEF Empties, W
  <2>2. QED
    BY <1>3, <1>4, <2>1
<1>10. ASSUME NEW new \in SetToSeqs(ToSet(queue[slot])), Sorts(new) PROVE KeptAt(m)'
  <2>1. queue' = [queue EXCEPT ![slot] = new] /\ UNCHANGED <<slot, cur, req, handed, served, removed>>
    BY <1>10 DEF Sorts
  <2>2. ToSet(new) = ToSet(queue[slot])
    BY <1>1, ReorderFacts
  <2>3. queue'[slot'] = new
    BY <1>1, <2>1
  <2>4. V = W
    BY <2>2, <2>3 DEF V, W
  <2>5. QED
    BY <1>3, <1>4, <2>1, <2>4
<1>11. ASSUME NEW s \in Runtime, Ends(s) PROVE KeptAt(m)'
  <2>1. /\ cur' = [cur EXCEPT ![s] = None] /\ served' = served \cup ({cur[s]} \ {None})
        /\ UNCHANGED <<slot, queue, req, handed, removed>>
    BY <1>11 DEF Ends
  <2>2. V = W
    BY <2>1 DEF V, W
  <2>3. served \subseteq served' /\ (cur'[slot'] = cur[slot] \/ (m = cur[slot] => m \in served'))
    <3>1. CASE s = slot
      BY <1>1, <2>1, <3>1
    <3>2. CASE s # slot
      BY <1>1, <2>1, <3>2
    <3>3. QED
      BY <3>1, <3>2
  <2>4. QED
    BY <1>3, <1>4, <2>1, <2>2, <2>3
<1>12. ASSUME ReqStays PROVE req'[m] = "queued" => req[m] = "queued"
  BY <1>1, <1>12 DEF ReqStays
<1>13. ASSUME NEW old \in Runtime, Renews(old) PROVE KeptAt(m)'
  <2>1. /\ slot + 1 \in Runtime /\ slot' = slot + 1 /\ ReqStays
        /\ queue' = [queue EXCEPT ![slot + 1] = queue[old]]
        /\ UNCHANGED <<cur, handed, served, removed>>
    BY <1>13 DEF Renews
  <2>2. rotating = old
    BY <1>0, <1>13 DEF Renews, NoOwn
  <2>3. old = slot /\ Rotates
    <3>1. old # 0
      BY DEF Runtime
    <3>2. QED
      BY <1>0, <2>2, <3>1 DEF Registered
  <2>4. V = W
    BY <1>1, <2>1, <2>3 DEF V, W
  <2>5. QED
    BY <1>3, <1>4, <1>12, <2>1, <2>3, <2>4
<1>14. CASE Swaps
  <2>1. /\ slot + 1 \in Runtime /\ slot' = slot + 1
        /\ queue' = [queue EXCEPT ![slot + 1] = PutBack(swap.of)] /\ swap.of = slot
        /\ UNCHANGED <<cur, req, handed, served, removed>>
    BY <1>0, <1>14 DEF Swaps, OneChange
  <2>2. ToSet(PutBack(slot)) = ToSet(queue[slot]) \cup ({cur[slot]} \ {None})
    BY <1>0, <1>1, PutBackFacts
  <2>3. queue'[slot'] = PutBack(slot)
    BY <1>1, <2>1
  <2>4. V = W \cup ({cur[slot]} \ {None})
    BY <2>2, <2>3 DEF V, W
  <2>5. QED
    BY <1>1, <1>3, <1>4, <2>1, <2>4
<1>15. CASE Stays
  <2>1. ReqStays /\ UNCHANGED <<slot, queue, cur, handed, served, removed>>
    BY <1>15 DEF Stays
  <2>2. V = W
    BY <2>1 DEF V, W
  <2>3. QED
    BY <1>3, <1>4, <1>12, <2>1, <2>2
<1>16. QED
  BY <1>5, <1>6, <1>7, <1>8, <1>9, <1>10, <1>11, <1>13, <1>14, <1>15 DEF Moves

\* No such message is lost with a runtime that is rotated or replaced; after a replacement
\* in the middle of its turn it waits again.
THEOREM AcceptedAreKept ==
  ASSUME ModesApart
  PROVE  Spec => []KeptUnlessHeld
<1>1. KeptUnlessHeld <=> \A m \in Msg \ Held : KeptAt(m)
  BY DEF KeptUnlessHeld, KeptAt
<1>2. Init => KeptUnlessHeld
  <2>1. Init => \A m \in Msg \ Held : req[m] # "queued"
    BY DEF Init
  <2>2. QED
    BY <2>1 DEF KeptUnlessHeld, Kept
<1>3. Base /\ RotationInv /\ KeptUnlessHeld /\ [Next /\ UNCHANGED mode]_<<vars, mode>>
        => KeptUnlessHeld'
  <2> SUFFICES ASSUME Base, RotationInv, KeptUnlessHeld,
                      [Next /\ UNCHANGED mode]_<<vars, mode>>
               PROVE  KeptUnlessHeld'
    OBVIOUS
  <2>1. [Next]_vars /\ mode' = mode
    BY DEF vars
  <2>2. Moves
    BY <2>1, StepMoves
  <2>3. ASSUME NEW m \in Msg \ Held PROVE KeptAt(m)'
    <3>1. KeptAt(m)
      BY <1>1
    <3>2. QED
      BY <2>1, <2>2, <3>1, KeptStep
  <2>4. QED
    BY <2>3 DEF KeptUnlessHeld, KeptAt
<1>4. Spec => []RotationInv
  BY ApartEverywhere
<1>5. QED
  BY <1>2, <1>3, <1>4, Invariance, PTL DEF Spec

(***************************************************************************)
(* The line behind the name                                                *)
(***************************************************************************)

\* The line holds accepted messages, each once and in its band, none of them handed
\* over; what is handed over was accepted or sent.
InLine ==
  /\ Distinct(queue[slot]) /\ InBands(queue[slot])
  /\ \A m \in ToSet(queue[slot]) : req[m] = "queued" /\ m \notin handed
  /\ \A m \in handed : req[m] \in {"queued", "sent"}
LineInv == ~Replaces => InLine

\* The operators of the abstract line are those of the queue.
LEMMA SameOperators ==
  /\ \A q, i, m : Line!InsertAt(q, i, m) = InsertAt(q, i, m)
  /\ \A q, i : Line!RemoveAt(q, i) = RemoveAt(q, i)
  /\ \A q : Line!ToSet(q) = ToSet(q)
  /\ \A m : Line!Rank(m) = Rank(m)
<1>1. \A q, i, m : Line!InsertAt(q, i, m) = InsertAt(q, i, m)
  BY DEF Line!InsertAt, InsertAt
<1>2. \A q, i : Line!RemoveAt(q, i) = RemoveAt(q, i)
  BY DEF Line!RemoveAt, RemoveAt
<1>3. \A q : Line!ToSet(q) = ToSet(q)
  BY DEF Line!ToSet, ToSet
<1>4. \A m : Line!Rank(m) = Rank(m)
  BY DEF Line!Rank, Rank
<1>5. QED
  BY <1>1, <1>2, <1>3, <1>4

\* While only rotations change the runtime, every move is a step of the abstract line or
\* does not show.
LEMMA LineStep ==
  ASSUME Base, RotationInv, ~Replaces, InLine, Moves, mode' = mode
  PROVE  InLine' /\ [Line!LineNext]_(Line!lineVars)
<1> DEFINE q == queue[slot]
           r == queue'[slot']
           Goal == InLine' /\ [Line!LineNext]_(Line!lineVars)
<1>0. TypeOK /\ CurInv /\ RefInv /\ NoOwn /\ Registered /\ OneChange
  BY DEF Base, RotationInv
<1>1. /\ slot \in Runtime /\ slot \in Nat /\ slot # 0
      /\ queue \in [Runtime -> Seq(Msg)] /\ q \in Seq(Msg)
      /\ req \in [Msg -> ReqStates] /\ handed \subseteq Msg
      /\ Distinct(q) /\ InBands(q)
      /\ \A m \in ToSet(q) : m \in Msg /\ req[m] = "queued" /\ m \notin handed
      /\ \A m \in handed : req[m] \in {"queued", "sent"}
  <2>1. queue \in [Runtime -> Seq(Msg)] /\ slot \in Runtime /\ q \in Seq(Msg)
    BY <1>0, Facts
  <2>2. \A m \in ToSet(q) : m \in Msg
    BY <2>1 DEF ToSet
  <2>3. slot \in Nat /\ slot # 0
    BY <1>0, Facts DEF Runtime
  <2>4. QED
    BY <1>0, <2>1, <2>2, <2>3, Facts DEF ReqStates, InLine
<1>2. ~Replaces'
  BY DEF Replaces
\* The line and its successor are the queues behind the name.
<1>3. Line!LineNext <=>
        \/ \E m \in Msg :
             \/ /\ m \notin ToSet(q) \cup handed /\ Len(q) < Limit
                /\ \E i \in 1..(Len(q) + 1) :
                     /\ \A j \in 1..(i - 1) : Rank(q[j]) <= Rank(m)
                     /\ \A j \in i..Len(q) : Rank(q[j]) > Rank(m)
                     /\ r = InsertAt(q, i, m)
                /\ handed' = handed
             \/ m \notin ToSet(q) \cup handed /\ handed' = handed \cup {m} /\ r = q
             \/ (\E i \in DOMAIN q : q[i] = m /\ r = RemoveAt(q, i)) /\ handed' = handed
        \/ q # <<>> /\ Head(q) \notin handed /\ handed' = handed \cup {Head(q)} /\ r = Tail(q)
        \/ r = <<>> /\ handed' = handed
        \/ /\ Len(r) = Len(q) /\ ToSet(r) = ToSet(q) /\ handed' = handed
           /\ \A i \in DOMAIN q : Rank(r[i]) = Rank(q[i])
  BY <1>2, SameOperators
  DEF Line!LineNext, Line!Join, Line!HandDirect, Line!Withdraw, Line!HandHead, Line!WithdrawAll,
      Line!Rearrange
<1>4. r = q /\ handed' = handed => UNCHANGED Line!lineVars
  BY <1>2 DEF Line!lineVars
<1>5. ASSUME r = q, handed' = handed, \A m \in Msg : req[m] \in {"queued", "sent"} => req'[m] = req[m]
      PROVE  Goal
  <2>1. InLine'
    BY <1>1, <1>5 DEF InLine
  <2>2. QED
    BY <1>4, <1>5, <2>1
<1> HIDE DEF q, r
<1>6. InLine' <=> /\ Distinct(r) /\ InBands(r)
                  /\ \A m \in ToSet(r) : req'[m] = "queued" /\ m \notin handed'
                  /\ \A m \in handed' : req'[m] \in {"queued", "sent"}
  BY DEF InLine, r
<1>7. ASSUME NEW m \in Msg, NEW s \in Runtime, Joins(m, s) PROVE Goal
  <2>1. /\ queue' = [queue EXCEPT ![s] = Inserted(queue[s], m)] /\ Len(queue[s]) < Limit
        /\ req' = [req EXCEPT ![m] = "queued"] /\ req[m] \in {"idle", "holding"}
        /\ slot' = slot /\ handed' = handed
    BY <1>7 DEF Joins
  <2>2. m \notin ToSet(q) \cup handed
    BY <1>1, <2>1
  <2>3. CASE s = slot
    <3>1. r = Inserted(q, m) /\ Len(q) < Limit
      BY <1>1, <2>1, <2>3 DEF r, q
    <3>2. /\ ToSet(r) = ToSet(q) \cup {m} /\ Distinct(r) /\ InBands(r)
          /\ \E i \in 1..(Len(q) + 1) :
                 /\ \A j \in 1..(i - 1) : Rank(q[j]) <= Rank(m)
                 /\ \A j \in i..Len(q) : Rank(q[j]) > Rank(m)
                 /\ r = InsertAt(q, i, m)
      BY <1>1, <2>2, <3>1, InsertFacts
    <3>3. InLine'
      BY <1>1, <1>6, <2>1, <2>2, <3>2
    <3>4. Line!LineNext
      BY <1>3, <2>1, <2>2, <3>1, <3>2
    <3>5. QED
      BY <3>3, <3>4
  <2>4. CASE s # slot
    <3>1. r = q
      BY <1>1, <2>1, <2>4 DEF r, q
    <3>2. \A x \in Msg : req[x] \in {"queued", "sent"} => req'[x] = req[x]
      BY <1>1, <2>1
    <3>3. QED
      BY <1>5, <2>1, <3>1, <3>2
  <2>5. QED
    BY <2>3, <2>4
<1>8. ASSUME NEW m \in Msg, Hands(m) PROVE Goal
  <2>1. /\ q # <<>> /\ m = Head(q) /\ queue' = [queue EXCEPT ![slot] = RemoveFirst(q, m)]
        /\ handed' = handed \cup {m} /\ slot' = slot /\ req' = req
    BY <1>8 DEF Hands, q
  <2>2. m \in ToSet(q) /\ r = RemoveFirst(q, m)
    BY <1>1, <2>1, HeadFacts DEF r
  <2>3. Distinct(r) /\ InBands(r) /\ m \notin ToSet(r) /\ ToSet(r) \subseteq ToSet(q) /\ r = Tail(q)
    BY <1>1, <2>1, <2>2, RemoveFacts
  <2>4. InLine'
    BY <1>1, <1>6, <2>1, <2>2, <2>3
  <2>5. Line!LineNext
    BY <1>1, <1>3, <2>1, <2>2, <2>3
  <2>6. QED
    BY <2>4, <2>5
<1>9. ASSUME NEW m \in Msg, Sends(m) PROVE Goal
  <2>1. /\ req[m] \in {"idle", "resumed"} /\ req' = [req EXCEPT ![m] = "sent"]
        /\ handed' = handed \cup {m} /\ UNCHANGED <<slot, queue>>
    BY <1>9 DEF Sends
  <2>2. m \notin ToSet(q) \cup handed /\ r = q
    BY <1>1, <2>1 DEF r, q
  <2>3. InLine'
    BY <1>1, <1>6, <2>1, <2>2
  <2>4. Line!LineNext
    BY <1>3, <2>1, <2>2
  <2>5. QED
    BY <2>3, <2>4
<1>10. ASSUME NEW m \in Msg, Takes(m) PROVE Goal
  <2>1. /\ m \in ToSet(q) /\ queue' = [queue EXCEPT ![slot] = RemoveFirst(q, m)]
        /\ UNCHANGED <<slot, req, handed>>
    BY <1>10 DEF Takes, q
  <2>2. r = RemoveFirst(q, m)
    BY <1>1, <2>1 DEF r
  <2>3. /\ Distinct(r) /\ InBands(r) /\ ToSet(r) \subseteq ToSet(q)
        /\ \E k \in DOMAIN q : q[k] = m /\ r = RemoveAt(q, k)
    BY <1>1, <2>1, <2>2, RemoveFacts
  <2>4. InLine'
    BY <1>1, <1>6, <2>1, <2>3
  <2>5. Line!LineNext
    BY <1>3, <2>1, <2>3
  <2>6. QED
    BY <2>4, <2>5
<1>11. CASE Empties
  <2>1. r = <<>> /\ UNCHANGED <<req, handed>>
    BY <1>1, <1>11 DEF Empties, r
  <2>2. Distinct(r) /\ InBands(r) /\ ToSet(r) = {}
    BY <2>1 DEF Distinct, InBands, ToSet
  <2>3. InLine'
    BY <1>1, <1>6, <2>1, <2>2
  <2>4. Line!LineNext
    BY <1>3, <2>1
  <2>5. QED
    BY <2>3, <2>4
<1>12. ASSUME NEW new \in SetToSeqs(ToSet(queue[slot])), Sorts(new) PROVE Goal
  <2>1. /\ new \in SetToSeqs(ToSet(q)) /\ r = new /\ UNCHANGED <<req, handed>>
        /\ \A i \in DOMAIN new : Priority[new[i]] = Priority[q[i]]
    BY <1>1, <1>12 DEF Sorts, r, q
  <2>2. r \in Seq(Msg) /\ Len(r) = Len(q) /\ ToSet(r) = ToSet(q) /\ Distinct(r)
    BY <1>1, <2>1, ReorderFacts
  <2>3. DOMAIN r = DOMAIN q /\ \A i \in DOMAIN q : Rank(r[i]) = Rank(q[i])
    BY <1>1, <2>1, <2>2 DEF Rank
  <2>4. InBands(r)
    BY <1>1, <2>3 DEF InBands
  <2>5. InLine'
    BY <1>1, <1>6, <2>1, <2>2, <2>4
  <2>6. Line!LineNext
    BY <1>3, <2>1, <2>2, <2>3
  <2>7. QED
    BY <2>5, <2>6
<1>13. ASSUME NEW s \in Runtime, Ends(s) PROVE Goal
  BY <1>5, <1>13 DEF Ends, r, q
<1>14. ASSUME ReqStays
       PROVE  \A m \in Msg : req[m] \in {"queued", "sent"} => req'[m] = req[m]
  BY <1>14 DEF ReqStays
<1>15. ASSUME NEW old \in Runtime, Renews(old) PROVE Goal
  <2>1. /\ slot + 1 \in Runtime /\ slot' = slot + 1 /\ ReqStays
        /\ queue' = [queue EXCEPT ![slot + 1] = queue[old]] /\ handed' = handed
    BY <1>15 DEF Renews
  <2>2. rotating = old /\ old # 0
    BY <1>0, <1>15 DEF Renews, NoOwn, Runtime
  <2>3. old = slot
    BY <1>0, <2>2 DEF Registered
  <2>4. r = q
    BY <1>1, <2>1, <2>3 DEF r, q
  <2>5. QED
    BY <1>5, <1>14, <2>1, <2>4
<1>16. ~Swaps
  BY <1>0 DEF Swaps, OneChange
<1>17. CASE Stays
  <2>1. ReqStays /\ UNCHANGED <<slot, queue, handed>>
    BY <1>17 DEF Stays
  <2>2. r = q
    BY <2>1 DEF r, q
  <2>3. QED
    BY <1>5, <1>14, <2>1, <2>2
<1>18. Goal
  BY <1>7, <1>8, <1>9, <1>10, <1>11, <1>12, <1>13, <1>15, <1>16, <1>17 DEF Moves
<1>19. QED
  BY <1>18

\* The queue behind the name of a session that rotates is the abstract line: first come
\* first served within its bands, each message handed over once, the limit kept.
THEOREM QueueImplementsLine == Spec => ImplementsLine
<1>1. Init => LineInv /\ Line!LineInit
  <2> SUFFICES ASSUME Init PROVE LineInv /\ Line!LineInit
    OBVIOUS
  <2>1. 1 \in Runtime
    BY QueueAssumption DEF Runtime
  <2>2. queue[slot] = <<>> /\ handed = {}
    BY <2>1 DEF Init
  <2>3. Distinct(<<>>) /\ InBands(<<>>) /\ ToSet(<<>>) = {}
    BY DEF Distinct, InBands, ToSet
  <2>4. LineInv
    BY <2>2, <2>3 DEF LineInv, InLine
  <2>5. Line!LineInit
    BY <2>2 DEF Line!LineInit
  <2>6. QED
    BY <2>4, <2>5
<1>2. Base /\ ApartInv /\ LineInv /\ [Next /\ UNCHANGED mode]_<<vars, mode>>
        => LineInv' /\ [Line!LineNext]_(Line!lineVars)
  <2> SUFFICES ASSUME Base, ApartInv, LineInv, [Next /\ UNCHANGED mode]_<<vars, mode>>
               PROVE  LineInv' /\ [Line!LineNext]_(Line!lineVars)
    OBVIOUS
  <2>1. [Next]_vars /\ mode' = mode
    BY DEF vars
  <2>2. Moves
    BY <2>1, StepMoves
  <2>3. Replaces' = Replaces
    BY <2>1 DEF Replaces
  <2>4. CASE Replaces
    <3>1. UNCHANGED Line!lineVars
      BY <2>3, <2>4 DEF Line!lineVars
    <3>2. QED
      BY <2>3, <2>4, <3>1 DEF LineInv
  <2>5. CASE ~Replaces
    <3>1. RotationInv
      BY <2>5 DEF ApartInv, Replaces
    <3>2. InLine' /\ [Line!LineNext]_(Line!lineVars)
      BY <2>1, <2>2, <2>5, <3>1, LineStep DEF LineInv
    <3>3. QED
      BY <3>2 DEF LineInv
  <2>6. QED
    BY <2>4, <2>5
<1>3. QED
  BY <1>1, <1>2, Invariance, RotationInvariance, PTL DEF Spec, ImplementsLine, Line!LineSpec
================================================================================
