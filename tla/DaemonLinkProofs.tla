---------------------------- MODULE DaemonLinkProofs ----------------------------
(***************************************************************************)
(* Invariants and theorems of DaemonLink, for any number of processes,     *)
(* output, connections and stops.                                          *)
(***************************************************************************)
EXTENDS DaemonLink, TLAPS, FiniteSetTheorems, SequenceTheorems

USE DEF family

\* What a child sends, and what the server sends to the daemon.
AllData == UNION {Data(p) : p \in Proc}
Orders  == UNION {{Start(p), Kill(p)} : p \in Proc}

\* Each place holds a sequence of messages of its kind; there is a hello per
\* connection at most.
PlaceInv ==
  /\ up \in Seq(AllData) /\ buffer \in Seq(AllData) /\ down \in Seq(Orders)
  /\ heard \in [Proc -> Seq(AllData)]
  /\ hello <= conns

\* A connection waits for the restored sessions, so no message meets an entry
\* that is still to be restored.
ReadyInv ==
  /\ srv # "none" => ready
  /\ ready => \A p \in Proc : entry[p] # "lost"

\* The elements of X are at one place of s at most.
DistinctIn(s, X) == \A i, j \in DOMAIN s : s[i] = s[j] /\ s[i] \in X => i = j

Starts == {Start(p) : p \in Proc}

\* A process is started once: its order is sent when the entry is made; late
\* output comes after an end.
StartInv ==
  /\ \A p \in Proc : entry[p] = "none" => child[p] = "none" /\ Start(p) \notin ToSet(down)
  /\ \A p \in Proc : Start(p) \in ToSet(down) => child[p] = "none"
  /\ \A p \in Proc : child[p] = "none" => out[p] = 0
  /\ \A p \in Proc : child[p] \notin Ended => late[p] = 0
  /\ DistinctIn(down, Starts)

\* A process of the registry whose child has never been: its order is under way,
\* was lost or was never sent.
TraceInv ==
  \A p \in Proc : entry[p] # "none" /\ child[p] = "none" =>
    p \in phantom \/ Start(p) \in ToSet(down) \cup lost

\* Nothing is heard or under way that its process has not produced.
ProducedInv ==
  \A p \in Proc : \A m \in ToSet(heard[p]) \cup UnderWay : m.of = p => m \in Produced(p)

\* A message is in one place only.
OnceInv ==
  /\ DistinctIn(up, AllData) /\ DistinctIn(buffer, AllData) /\ ToSet(up) \cap ToSet(buffer) = {}
  /\ \A p \in Proc : DistinctIn(heard[p], AllData) /\ ToSet(heard[p]) \cap UnderWay = {}

Ordered(s, p) ==
  \A i, j \in DOMAIN s : i < j /\ s[i].of = p /\ s[j].of = p => Before(s[i], s[j])
Precede(A, B, p) == \A a \in A, b \in B : a.of = p /\ b.of = p => Before(a, b)

\* What is heard comes before what is on its way, and that before what waits.
OrderInv ==
  \A p \in Proc \ overtook :
    /\ Ordered(heard[p], p) /\ Ordered(up, p) /\ Ordered(buffer, p)
    /\ Precede(ToSet(heard[p]), UnderWay, p) /\ Precede(ToSet(up), ToSet(buffer), p)

\* What every step preserves.
Inv ==
  /\ TypeOK /\ PlaceInv /\ ReadyInv /\ StartInv /\ TraceInv
  /\ Accounted /\ ProducedInv /\ OnceInv /\ OrderInv

--------------------------------------------------------------------------------
(***************************************************************************)
(* Messages and sequences of them                                          *)
(***************************************************************************)

\* What the messages are.
LEMMA DataAre ==
  ASSUME NEW m \in AllData
  PROVE  /\ m.of \in Proc /\ m \in Data(m.of) /\ m.type \in {"out", "end", "late"}
         /\ m.type = "out" => m.n \in 1..MaxOut /\ m = Out(m.of, m.n)
         /\ m.type = "late" => m.n \in 1..MaxOut /\ m = Late(m.of, m.n)
         /\ m.type = "end" => m = End(m.of)
<1>1. \E p \in Proc : m = End(p) \/ \E n \in 1..MaxOut : m = Out(p, n) \/ m = Late(p, n)
  BY DEF AllData, Data
<1>2. \A p \in Proc : /\ End(p).of = p /\ End(p).type = "end"
                      /\ \A n \in 1..MaxOut : Out(p, n).of = p /\ Out(p, n).type = "out" /\ Out(p, n).n = n
                      /\ \A n \in 1..MaxOut : Late(p, n).of = p /\ Late(p, n).type = "late" /\ Late(p, n).n = n
  BY DEF Out, Late, End, Msg
<1>3. \A p \in Proc : End(p) \in Data(p) /\ \A n \in 1..MaxOut : Out(p, n) \in Data(p) /\ Late(p, n) \in Data(p)
  BY DEF Data
<1>4. QED
  BY <1>1, <1>2, <1>3

LEMMA OrdersAre ==
  \A m \in Orders : m.of \in Proc /\ (m = Start(m.of) \/ m = Kill(m.of))
  BY DEF Orders, Start, Kill, Msg

LEMMA Sets ==
  /\ \A p \in Proc : /\ End(p) \in AllData /\ Start(p) \in Orders /\ Kill(p) \in Orders
                     /\ \A n \in 1..MaxOut : Out(p, n) \in AllData /\ Late(p, n) \in AllData
  /\ AllData \subseteq Message /\ Orders \subseteq Message
  BY DEF AllData, Orders, Message, Data

LEMMA Kinds ==
  \A p \in Proc :
    /\ Start(p).type = "spawn" /\ Kill(p).type = "kill" /\ End(p).type = "end"
    /\ Start(p).of = p /\ Kill(p).of = p /\ End(p).of = p
    /\ Start(p) # Kill(p) /\ Start(p) # End(p) /\ Kill(p) # End(p)
    /\ \A q \in Proc : /\ (Start(p) = Start(q) => p = q) /\ (End(p) = End(q) => p = q)
                       /\ Start(p) # End(q) /\ Start(p) # Kill(q) /\ Kill(p) # End(q)
    /\ \A n \in Nat : /\ Out(p, n).type = "out" /\ Out(p, n).of = p /\ Out(p, n).n = n
                      /\ Late(p, n).type = "late" /\ Late(p, n).of = p /\ Late(p, n).n = n
                      /\ Out(p, n) # End(p) /\ Late(p, n) # End(p)
  BY DEF Out, Late, End, Start, Kill, Msg

\* The elements of sequences.
LEMMA Members ==
  ASSUME NEW S, NEW s \in Seq(S)
  PROVE  /\ DOMAIN s = 1..Len(s) /\ Len(s) \in Nat
         /\ \A i \in 1..Len(s) : s[i] \in S
         /\ \A m : m \in ToSet(s) <=> \E i \in 1..Len(s) : s[i] = m
<1>1. DOMAIN s = 1..Len(s) /\ Len(s) \in Nat /\ \A i \in 1..Len(s) : s[i] \in S
  BY LenProperties, ElementOfSeq
<1>2. QED
  BY <1>1 DEF ToSet

LEMMA EmptySet == ToSet(<<>>) = {}
  BY DEF ToSet

LEMMA AppendSet ==
  ASSUME NEW S, NEW s \in Seq(S), NEW m \in S
  PROVE  /\ Append(s, m) \in Seq(S) /\ ToSet(Append(s, m)) = ToSet(s) \cup {m}
         /\ Len(Append(s, m)) = Len(s) + 1
         /\ \A i \in 1..(Len(s) + 1) : Append(s, m)[i] = IF i = Len(s) + 1 THEN m ELSE s[i]
<1>1. /\ Append(s, m) \in Seq(S) /\ Len(Append(s, m)) = Len(s) + 1 /\ Len(s) \in Nat
      /\ \A i \in 1..(Len(s) + 1) : Append(s, m)[i] = IF i = Len(s) + 1 THEN m ELSE s[i]
  <2>1. Len(s) \in Nat /\ \A i \in 1..(Len(s) + 1) : i = Len(s) + 1 \/ i \in 1..Len(s)
    BY LenProperties
  <2>2. QED
    BY <2>1, AppendProperties
<1>2. \A x : x \in ToSet(Append(s, m)) <=> x \in ToSet(s) \/ x = m
  <2> DEFINE t == Append(s, m)
  <2> HIDE DEF t
  <2>0. t \in Seq(S) /\ Len(t) = Len(s) + 1
    BY <1>1 DEF t
  <2>1. \A x : x \in ToSet(t) <=> \E i \in 1..Len(t) : t[i] = x
    BY <2>0, Members
  <2>2. \A x : x \in ToSet(s) <=> \E i \in 1..Len(s) : s[i] = x
    BY Members
  <2>3. \A i \in 1..Len(s) : i \in 1..(Len(s) + 1) /\ i # Len(s) + 1
    BY <1>1
  <2>4. \A i \in 1..(Len(s) + 1) : i \in 1..Len(s) \/ i = Len(s) + 1
    BY <1>1
  <2>5. Len(s) + 1 \in 1..(Len(s) + 1)
    BY <1>1
  <2>6. QED
    <3>0. /\ \A i \in 1..Len(s) : t[i] = s[i]
          /\ t[Len(s) + 1] = m
      BY <1>1, <2>3, <2>5 DEF t
    <3>1. \A x : x \in ToSet(s) => x \in ToSet(t)
      BY <2>0, <3>0, <2>1, <2>2, <2>3
    <3>2. m \in ToSet(t)
      BY <2>0, <3>0, <2>1, <2>5
    <3>3. \A x : x \in ToSet(t) => x \in ToSet(s) \/ x = m
      BY <2>0, <3>0, <2>1, <2>2, <2>4
    <3>4. QED
      BY <3>1, <3>2, <3>3 DEF t
<1>3. QED
  BY <1>1, <1>2

LEMMA TailSet ==
  ASSUME NEW S, NEW s \in Seq(S), s # <<>>
  PROVE  /\ Head(s) \in S /\ Tail(s) \in Seq(S)
         /\ ToSet(s) = ToSet(Tail(s)) \cup {Head(s)}
         /\ Head(s) = s[1] /\ 1 \in 1..Len(s)
         /\ Len(Tail(s)) = Len(s) - 1 /\ Len(s) \in Nat \ {0}
         /\ \A i \in 1..Len(Tail(s)) : i + 1 \in 1..Len(s) /\ Tail(s)[i] = s[i + 1]
<1>1. /\ Head(s) = s[1] /\ Tail(s) \in Seq(S) /\ Len(s) \in Nat \ {0} /\ s[1] \in S
      /\ Len(Tail(s)) = Len(s) - 1 /\ \A i \in 1..Len(Tail(s)) : Tail(s)[i] = s[i + 1]
  BY HeadTailProperties, EmptySeq
<1>2. \A x : x \in ToSet(s) <=> x \in ToSet(Tail(s)) \/ x = Head(s)
  <2>1. \A x : x \in ToSet(s) <=> \E i \in 1..Len(s) : s[i] = x
    BY Members
  <2>2. \A x : x \in ToSet(Tail(s)) <=> \E i \in 1..Len(Tail(s)) : Tail(s)[i] = x
    BY <1>1, Members
  <2>3. \A i \in 1..Len(s) : i = 1 \/ (i - 1 \in 1..Len(Tail(s)) /\ s[i] = Tail(s)[i - 1])
    BY <1>1
  <2>4. /\ \A i \in 1..Len(Tail(s)) : i + 1 \in 1..Len(s)
        /\ 1 \in 1..Len(s)
    BY <1>1
  <2>5. QED
    BY <1>1, <2>1, <2>2, <2>3, <2>4
<1>3. QED
  BY <1>1, <1>2

LEMMA ConcatSet ==
  ASSUME NEW S, NEW s \in Seq(S), NEW t \in Seq(S)
  PROVE  /\ s \o t \in Seq(S) /\ ToSet(s \o t) = ToSet(s) \cup ToSet(t)
         /\ Len(s \o t) = Len(s) + Len(t)
         /\ \A i \in 1..Len(s \o t) : (s \o t)[i] = IF i <= Len(s) THEN s[i] ELSE t[i - Len(s)]
<1>1. /\ s \o t \in Seq(S) /\ Len(s \o t) = Len(s) + Len(t) /\ Len(s) \in Nat /\ Len(t) \in Nat
      /\ \A i \in 1..Len(s \o t) : (s \o t)[i] = IF i <= Len(s) THEN s[i] ELSE t[i - Len(s)]
  BY ConcatProperties, Members
<1>2. \A x : x \in ToSet(s \o t) <=> x \in ToSet(s) \/ x \in ToSet(t)
  <2>1. /\ \A x : x \in ToSet(s) <=> \E i \in 1..Len(s) : s[i] = x
        /\ \A x : x \in ToSet(t) <=> \E i \in 1..Len(t) : t[i] = x
        /\ \A x : x \in ToSet(s \o t) <=> \E i \in 1..Len(s \o t) : (s \o t)[i] = x
    BY <1>1, Members
  <2>2. \A i \in 1..Len(s \o t) :
          \/ i \in 1..Len(s) /\ (s \o t)[i] = s[i]
          \/ i - Len(s) \in 1..Len(t) /\ (s \o t)[i] = t[i - Len(s)]
    BY <1>1
  <2>3. /\ \A i \in 1..Len(s) : i \in 1..Len(s \o t) /\ (s \o t)[i] = s[i]
        /\ \A i \in 1..Len(t) : i + Len(s) \in 1..Len(s \o t) /\ (s \o t)[i + Len(s)] = t[i]
    BY <1>1
  <2>4. QED
    BY <2>1, <2>2, <2>3
<1>3. QED
  BY <1>1, <1>2

LEMMA SetToSeqSet ==
  ASSUME NEW S, IsFiniteSet(S)
  PROVE  SetToSeq(S) \in Seq(S)
<1>1. Cardinality(S) \in Nat /\ ExistsBijection(1..Cardinality(S), S)
  BY FS_CardinalityType
<1>2. \E f \in [1..Cardinality(S) -> S] : IsInjective(f)
  BY <1>1 DEF ExistsBijection, Bijection, Injection, IsInjective
<1>3. SetToSeq(S) \in [1..Cardinality(S) -> S]
  BY <1>2 DEF SetToSeq
<1>4. QED
  BY <1>1, <1>3, SeqDef

\* Elements that are at one place only, and elements in order, through appending,
\* taking the head and concatenation.
LEMMA DistinctAppend ==
  ASSUME NEW S, NEW s \in Seq(S), NEW m \in S, NEW X, DistinctIn(s, X), m \in X => m \notin ToSet(s)
  PROVE  DistinctIn(Append(s, m), X)
<1> DEFINE t == Append(s, m)
<1>1. /\ t \in Seq(S) /\ Len(t) = Len(s) + 1
      /\ \A i \in 1..(Len(s) + 1) : t[i] = IF i = Len(s) + 1 THEN m ELSE s[i]
  BY AppendSet
<1> HIDE DEF t
<1>2. DOMAIN t = 1..Len(t) /\ DOMAIN s = 1..Len(s) /\ Len(s) \in Nat
  BY <1>1, Members
<1>3. \A i \in 1..Len(s) : s[i] \in ToSet(s)
  BY Members
<1>4. SUFFICES ASSUME NEW i \in DOMAIN t, NEW j \in DOMAIN t, t[i] = t[j], t[i] \in X
               PROVE  i = j
  BY DEF DistinctIn, t
<1>5. CASE i \in 1..Len(s) /\ j \in 1..Len(s)
  BY <1>1, <1>2, <1>4, <1>5 DEF DistinctIn
<1>6. CASE i = Len(s) + 1 \/ j = Len(s) + 1
  BY <1>1, <1>2, <1>3, <1>4, <1>6
<1>7. QED
  BY <1>1, <1>2, <1>5, <1>6

LEMMA DistinctTail ==
  ASSUME NEW S, NEW s \in Seq(S), NEW X, DistinctIn(s, X), s # <<>>
  PROVE  DistinctIn(Tail(s), X) /\ (Head(s) \in X => Head(s) \notin ToSet(Tail(s)))
<1> DEFINE t == Tail(s)
<1>1. /\ t \in Seq(S) /\ Head(s) = s[1] /\ 1 \in 1..Len(s) /\ Len(t) = Len(s) - 1
      /\ \A i \in 1..Len(t) : i + 1 \in 1..Len(s) /\ t[i] = s[i + 1]
  BY TailSet
<1> HIDE DEF t
<1>2. /\ DOMAIN t = 1..Len(t) /\ DOMAIN s = 1..Len(s) /\ Len(s) \in Nat
      /\ \A x : x \in ToSet(t) <=> \E i \in 1..Len(t) : t[i] = x
  BY <1>1, Members
<1>3. DistinctIn(t, X)
  <2>1. SUFFICES ASSUME NEW i \in 1..Len(t), NEW j \in 1..Len(t), t[i] = t[j], t[i] \in X
                 PROVE  i = j
    BY <1>2 DEF DistinctIn
  <2>2. i + 1 \in DOMAIN s /\ j + 1 \in DOMAIN s /\ s[i + 1] = s[j + 1] /\ s[i + 1] \in X
    BY <1>1, <1>2, <2>1
  <2>3. i + 1 = j + 1
    BY <2>2 DEF DistinctIn
  <2>4. QED
    BY <1>2, <2>3
<1>4. ASSUME Head(s) \in X, Head(s) \in ToSet(t) PROVE FALSE
  BY <1>1, <1>2, <1>4 DEF DistinctIn
<1>5. QED
  BY <1>3, <1>4 DEF t

LEMMA DistinctConcat ==
  ASSUME NEW S, NEW s \in Seq(S), NEW t \in Seq(S), NEW X,
         DistinctIn(s, X), DistinctIn(t, X), ToSet(s) \cap ToSet(t) \cap X = {}
  PROVE  DistinctIn(s \o t, X)
<1> DEFINE u == s \o t
<1>1. /\ u \in Seq(S) /\ Len(u) = Len(s) + Len(t)
      /\ \A i \in 1..Len(u) : u[i] = IF i <= Len(s) THEN s[i] ELSE t[i - Len(s)]
  BY ConcatSet
<1> HIDE DEF u
<1>2. /\ DOMAIN u = 1..Len(u) /\ DOMAIN s = 1..Len(s) /\ DOMAIN t = 1..Len(t)
      /\ Len(s) \in Nat /\ Len(t) \in Nat
  BY <1>1, Members
<1>3. /\ \A i \in 1..Len(s) : s[i] \in ToSet(s)
      /\ \A i \in 1..Len(t) : t[i] \in ToSet(t)
  BY Members
<1>4. SUFFICES ASSUME NEW i \in DOMAIN u, NEW j \in DOMAIN u, u[i] = u[j], u[i] \in X
               PROVE  i = j
  BY DEF DistinctIn, u
<1>5. CASE i <= Len(s) /\ j <= Len(s)
  BY <1>1, <1>2, <1>4, <1>5 DEF DistinctIn
<1>6. CASE i > Len(s) /\ j > Len(s)
  <2>1. /\ i - Len(s) \in DOMAIN t /\ j - Len(s) \in DOMAIN t
        /\ u[i] = t[i - Len(s)] /\ u[j] = t[j - Len(s)]
    BY <1>1, <1>2, <1>6
  <2>2. i - Len(s) = j - Len(s)
    BY <1>4, <2>1 DEF DistinctIn
  <2>3. QED
    BY <1>2, <2>2
<1>7. CASE i <= Len(s) /\ j > Len(s)
  BY <1>1, <1>2, <1>3, <1>4, <1>7
<1>8. CASE i > Len(s) /\ j <= Len(s)
  BY <1>1, <1>2, <1>3, <1>4, <1>8
<1>9. QED
  BY <1>2, <1>5, <1>6, <1>7, <1>8

LEMMA OrderedAppend ==
  ASSUME NEW S, NEW s \in Seq(S), NEW m \in S, NEW p, Ordered(s, p), Precede(ToSet(s), {m}, p)
  PROVE  Ordered(Append(s, m), p)
<1> DEFINE t == Append(s, m)
<1>1. /\ t \in Seq(S) /\ Len(t) = Len(s) + 1
      /\ \A i \in 1..(Len(s) + 1) : t[i] = IF i = Len(s) + 1 THEN m ELSE s[i]
  BY AppendSet
<1> HIDE DEF t
<1>2. DOMAIN t = 1..Len(t) /\ DOMAIN s = 1..Len(s) /\ Len(s) \in Nat
  BY <1>1, Members
<1>3. \A i \in 1..Len(s) : s[i] \in ToSet(s)
  BY Members
<1>4. SUFFICES ASSUME NEW i \in DOMAIN t, NEW j \in DOMAIN t, i < j, t[i].of = p, t[j].of = p
               PROVE  Before(t[i], t[j])
  BY DEF Ordered, t
<1>5. CASE j \in 1..Len(s)
  BY <1>1, <1>2, <1>4, <1>5 DEF Ordered
<1>6. CASE j = Len(s) + 1
  <2>1. i \in 1..Len(s) /\ t[i] = s[i] /\ t[j] = m
    BY <1>1, <1>2, <1>4, <1>6
  <2>2. QED
    BY <1>3, <1>4, <2>1 DEF Precede
<1>7. QED
  BY <1>1, <1>2, <1>5, <1>6

LEMMA OrderedTail ==
  ASSUME NEW S, NEW s \in Seq(S), NEW p, Ordered(s, p), s # <<>>
  PROVE  Ordered(Tail(s), p) /\ Precede({Head(s)}, ToSet(Tail(s)), p)
<1> DEFINE t == Tail(s)
<1>1. /\ t \in Seq(S) /\ Head(s) = s[1] /\ 1 \in 1..Len(s) /\ Len(t) = Len(s) - 1
      /\ \A i \in 1..Len(t) : i + 1 \in 1..Len(s) /\ t[i] = s[i + 1]
  BY TailSet
<1> HIDE DEF t
<1>2. /\ DOMAIN t = 1..Len(t) /\ DOMAIN s = 1..Len(s) /\ Len(s) \in Nat
      /\ \A x : x \in ToSet(t) <=> \E i \in 1..Len(t) : t[i] = x
  BY <1>1, Members
<1>3. Ordered(t, p)
  <2>1. SUFFICES ASSUME NEW i \in 1..Len(t), NEW j \in 1..Len(t), i < j, t[i].of = p, t[j].of = p
                 PROVE  Before(t[i], t[j])
    BY <1>2 DEF Ordered
  <2>2. /\ i + 1 \in DOMAIN s /\ j + 1 \in DOMAIN s /\ i + 1 < j + 1
        /\ s[i + 1] = t[i] /\ s[j + 1] = t[j]
    BY <1>1, <1>2, <2>1
  <2>3. QED
    BY <2>1, <2>2 DEF Ordered
<1>4. Precede({Head(s)}, ToSet(t), p)
  <2>1. SUFFICES ASSUME NEW b \in ToSet(t), s[1].of = p, b.of = p PROVE Before(s[1], b)
    BY <1>1 DEF Precede
  <2>2. PICK i \in 1..Len(t) : t[i] = b
    BY <1>2
  <2>3. i + 1 \in 1..Len(s) /\ s[i + 1] = b /\ 1 < i + 1
    BY <1>1, <1>2, <2>2
  <2>4. QED
    BY <1>1, <1>2, <2>1, <2>3 DEF Ordered
<1>5. QED
  BY <1>3, <1>4 DEF t

LEMMA OrderedConcat ==
  ASSUME NEW S, NEW s \in Seq(S), NEW t \in Seq(S), NEW p,
         Ordered(s, p), Ordered(t, p), Precede(ToSet(s), ToSet(t), p)
  PROVE  Ordered(s \o t, p)
<1> DEFINE u == s \o t
<1>1. /\ u \in Seq(S) /\ Len(u) = Len(s) + Len(t)
      /\ \A i \in 1..Len(u) : u[i] = IF i <= Len(s) THEN s[i] ELSE t[i - Len(s)]
  BY ConcatSet
<1> HIDE DEF u
<1>2. /\ DOMAIN u = 1..Len(u) /\ DOMAIN s = 1..Len(s) /\ DOMAIN t = 1..Len(t)
      /\ Len(s) \in Nat /\ Len(t) \in Nat
  BY <1>1, Members
<1>3. /\ \A i \in 1..Len(s) : s[i] \in ToSet(s)
      /\ \A i \in 1..Len(t) : t[i] \in ToSet(t)
  BY Members
<1>4. SUFFICES ASSUME NEW i \in DOMAIN u, NEW j \in DOMAIN u, i < j, u[i].of = p, u[j].of = p
               PROVE  Before(u[i], u[j])
  BY DEF Ordered, u
<1>5. CASE i <= Len(s) /\ j <= Len(s)
  BY <1>1, <1>2, <1>4, <1>5 DEF Ordered
<1>6. CASE i > Len(s)
  <2>1. /\ i - Len(s) \in DOMAIN t /\ j - Len(s) \in DOMAIN t /\ i - Len(s) < j - Len(s)
        /\ u[i] = t[i - Len(s)] /\ u[j] = t[j - Len(s)]
    BY <1>1, <1>2, <1>4, <1>6
  <2>2. QED
    BY <1>4, <2>1 DEF Ordered
<1>7. CASE i <= Len(s) /\ j > Len(s)
  <2>1. /\ i \in 1..Len(s) /\ j - Len(s) \in 1..Len(t) /\ u[i] = s[i] /\ u[j] = t[j - Len(s)]
    BY <1>1, <1>2, <1>7
  <2>2. QED
    BY <1>3, <1>4, <2>1 DEF Precede
<1>8. QED
  BY <1>2, <1>4, <1>5, <1>6, <1>7

LEMMA EmptyFacts ==
  /\ \A X : DistinctIn(<<>>, X)
  /\ \A p : Ordered(<<>>, p)
  BY DEF DistinctIn, Ordered

--------------------------------------------------------------------------------
(***************************************************************************)
(* What is common to the steps                                             *)
(***************************************************************************)

\* A message handed to sendToServer is under way or lost, like all before it.
LEMMA SendFacts ==
  ASSUME TypeOK, PlaceInv, NEW m \in AllData, SendToServer(m)
  PROVE  /\ up' \in Seq(AllData) /\ buffer' \in Seq(AllData)
         /\ Len(buffer') <= BufferLimit
         /\ up' # <<>> => srv # "none"
         /\ overtook' \subseteq Proc /\ overtook \subseteq overtook'
         /\ ToSet(up') \cup ToSet(buffer') \subseteq UnderWay \cup {m}
         /\ ToSet(up') \cup ToSet(buffer') \cup lost' = UnderWay \cup lost \cup {m}
<1>1. /\ up \in Seq(AllData) /\ buffer \in Seq(AllData) /\ Len(buffer) <= BufferLimit
      /\ (up # <<>> => srv # "none") /\ overtook \subseteq Proc
  BY DEF TypeOK, PlaceInv
<1>0. UnderWay = ToSet(buffer) \cup ToSet(up)
  BY DEF UnderWay
<1>6. ASSUME NEW B, overtook' = overtook \cup ({m.of} \cap B)
      PROVE  overtook' \subseteq Proc /\ overtook \subseteq overtook'
  <2>1. m.of \in Proc
    BY DataAre
  <2>2. QED
    BY <1>1, <1>6, <2>1
<1>2. CASE ws = "up"
  <2>1. up' = Append(up, m) /\ lost' = lost /\ buffer' = buffer
    BY <1>2 DEF SendToServer
  <2>2. srv # "none"
    BY <1>2 DEF TypeOK
  <2>3. overtook' = overtook \cup ({m.of} \cap {b.of : b \in ToSet(buffer)})
    BY <1>2 DEF SendToServer
  <2>4. overtook' \subseteq Proc /\ overtook \subseteq overtook'
    BY <2>3, <1>6
  <2>5. up' \in Seq(AllData) /\ ToSet(up') = ToSet(up) \cup {m}
    BY <2>1, <1>1, AppendSet
  <2>6. QED
    <3>1. ToSet(up') \cup ToSet(buffer') = UnderWay \cup {m}
      BY <1>0, <2>1, <2>5
    <3>2. QED
      BY <1>1, <2>1, <2>2, <2>4, <2>5, <3>1
<1>3. CASE ws # "up" /\ ws # "none"
  <2>1. up' = up /\ lost' = lost \cup {m} /\ buffer' = buffer
        /\ overtook' = overtook \cup ({m.of} \cap {b.of : b \in ToSet(buffer)})
    BY <1>3 DEF SendToServer
  <2>2. overtook' \subseteq Proc /\ overtook \subseteq overtook'
    BY <2>1, <1>6
  <2>3. up' = up /\ lost' = lost \cup {m} /\ buffer' = buffer
    BY <2>1
  <2>4. ToSet(up') \cup ToSet(buffer') = UnderWay
    BY <1>0, <2>3
  <2>5. QED
    BY <1>1, <2>2, <2>3, <2>4
<1>4. CASE ws = "none"
  <2>1. /\ buffer' = Append(IF Len(buffer) < BufferLimit THEN buffer ELSE Tail(buffer), m)
        /\ lost' = IF Len(buffer) < BufferLimit THEN lost ELSE lost \cup {Head(buffer)}
        /\ up' = up /\ overtook' = overtook
    BY <1>4 DEF SendToServer
  <2>2. CASE Len(buffer) < BufferLimit
    <3>1. /\ buffer' \in Seq(AllData) /\ ToSet(buffer') = ToSet(buffer) \cup {m}
          /\ Len(buffer') = Len(buffer) + 1 /\ lost' = lost
      BY <1>1, <2>1, <2>2, AppendSet
    <3>2. Len(buffer') <= BufferLimit
      BY <1>1, <2>2, <3>1, Members, DaemonLinkAssumption DEF DaemonLinkAssumption
    <3>3. QED
      BY <1>0, <1>1, <2>1, <3>1, <3>2
  <2>3. CASE ~(Len(buffer) < BufferLimit)
    <3>1. Len(buffer) = BufferLimit /\ BufferLimit \in Nat \ {0}
      BY <1>1, <2>3, Members, DaemonLinkAssumption DEF DaemonLinkAssumption
    <3>2. buffer # <<>>
      BY <3>1
    <3>3. /\ Tail(buffer) \in Seq(AllData) /\ ToSet(buffer) = ToSet(Tail(buffer)) \cup {Head(buffer)}
          /\ Len(Tail(buffer)) = Len(buffer) - 1
      BY <1>1, <3>2, TailSet
    <3>4. buffer' = Append(Tail(buffer), m) /\ lost' = lost \cup {Head(buffer)}
      BY <2>1, <2>3
    <3> DEFINE rest == Tail(buffer)
    <3>9. rest \in Seq(AllData)
      BY <3>3
    <3> HIDE DEF rest
    <3>8. /\ Append(rest, m) \in Seq(AllData) /\ ToSet(Append(rest, m)) = ToSet(rest) \cup {m}
          /\ Len(Append(rest, m)) = Len(rest) + 1
      BY <3>9, AppendSet
    <3>5. /\ buffer' \in Seq(AllData) /\ ToSet(buffer') = ToSet(Tail(buffer)) \cup {m}
          /\ Len(buffer') = Len(Tail(buffer)) + 1
      BY <3>4, <3>8 DEF rest
    <3>6. Len(buffer') <= BufferLimit
      BY <3>1, <3>3, <3>5
    <3>7. QED
      <4>1. ToSet(up') \cup ToSet(buffer') \cup lost' = UnderWay \cup lost \cup {m}
        BY <1>0, <2>1, <3>3, <3>4, <3>5
      <4>2. ToSet(up') \cup ToSet(buffer') \subseteq UnderWay \cup {m}
        BY <1>0, <2>1, <3>3, <3>5
      <4>3. QED
        BY <1>1, <2>1, <3>5, <3>6, <4>1, <4>2
  <2>4. QED
    BY <2>2, <2>3
<1>5. QED
  BY <1>2, <1>3, <1>4

\* Output is one message more, of a child that runs or of one whose end is known.
LEMMA OutputFacts ==
  ASSUME TypeOK, NEW p \in Proc, ChildOutput(p)
  PROVE  \E m \in AllData :
           /\ SendToServer(m) /\ m.of = p
           /\ \/ /\ child[p] \in Live /\ m = Out(p, out[p] + 1) /\ out[p] + 1 \in 1..MaxOut
                 /\ out' = [out EXCEPT ![p] = out[p] + 1] /\ late' = late
              \/ /\ child[p] = "exited" /\ m = Late(p, late[p] + 1) /\ late[p] + 1 \in 1..MaxOut
                 /\ late' = [late EXCEPT ![p] = late[p] + 1] /\ out' = out
<1>1. out[p] \in 0..MaxOut /\ late[p] \in 0..MaxOut /\ MaxOut \in Nat /\ out[p] + late[p] < MaxOut
  BY DaemonLinkAssumption DEF TypeOK, ChildOutput
<1>2. out[p] + 1 \in 1..MaxOut /\ late[p] + 1 \in 1..MaxOut /\ out[p] + 1 \in Nat /\ late[p] + 1 \in Nat
  BY <1>1
<1>3. /\ Out(p, out[p] + 1) \in AllData /\ Out(p, out[p] + 1).of = p
      /\ Late(p, late[p] + 1) \in AllData /\ Late(p, late[p] + 1).of = p
  BY <1>2, Sets, Kinds
<1>4. \/ /\ child[p] \in Live /\ SendToServer(Out(p, out[p] + 1))
         /\ out' = [out EXCEPT ![p] = out[p] + 1] /\ late' = late
      \/ /\ child[p] = "exited" /\ SendToServer(Late(p, late[p] + 1))
         /\ late' = [late EXCEPT ![p] = late[p] + 1] /\ out' = out
  BY DEF ChildOutput
<1>5. QED
  BY <1>2, <1>3, <1>4

\* An order handed to send goes to the daemon or is lost.
LEMMA SendDownFacts ==
  ASSUME TypeOK, PlaceInv, NEW m \in Orders, SendDown(m)
  PROVE  /\ down' \in Seq(Orders) /\ (down' # <<>> => ws # "none")
         /\ \/ ToSet(down') = ToSet(down) \cup {m} /\ down' = Append(down, m) /\ lost' = lost
            \/ down' = down /\ lost' = lost \cup {m}
<1>1. down \in Seq(Orders) /\ (down # <<>> => ws # "none")
  BY DEF TypeOK, PlaceInv
<1>2. CASE srv = "up"
  <2>1. down' = Append(down, m) /\ lost' = lost /\ ws # "none"
    BY <1>2 DEF SendDown, TypeOK
  <2>2. QED
    BY <1>1, <2>1, AppendSet
<1>3. CASE srv # "up"
  BY <1>1, <1>3 DEF SendDown
<1>4. QED
  BY <1>2, <1>3

\* The daemon takes an order: it starts a child, whose start may fail, or signals it.
LEMMA TakeFacts ==
  ASSUME TypeOK, PlaceInv, DaemonReceives
  PROVE  \E p \in Proc :
           /\ ws # "none" /\ down # <<>> /\ down' = Tail(down)
           /\ down' \in Seq(Orders)
           /\ \/ /\ Head(down) = Start(p) /\ child' = [child EXCEPT ![p] = "running"]
                 /\ UNCHANGED <<up, lost, buffer, overtook>>
              \/ /\ Head(down) = Start(p) /\ child' = [child EXCEPT ![p] = "ended"]
                 /\ SendToServer(End(p))
              \/ /\ Head(down) = Kill(p)
                 /\ child' = [child EXCEPT ![p] = IF @ = "running" THEN "signalled" ELSE @]
                 /\ UNCHANGED <<up, lost, buffer, overtook>>
<1>1. down \in Seq(Orders) /\ down # <<>> /\ ws # "none" /\ down' = Tail(down)
  BY DEF PlaceInv, DaemonReceives
<1>2. Head(down) \in Orders /\ Tail(down) \in Seq(Orders)
  BY <1>1, TailSet
<1>3. Head(down).of \in Proc
  BY <1>2, OrdersAre
<1>4. QED
  BY <1>1, <1>2, <1>3 DEF DaemonReceives

\* A revoked pairing: kills are appended, and perhaps lost.
LEMMA DisconnectFacts ==
  ASSUME TypeOK, PlaceInv, Disconnect
  PROVE  \E k \in Seq(Orders) :
           /\ down' \in {down, down \o k} /\ ToSet(k) \cap Starts = {}
           /\ lost' \subseteq lost \cup ToSet(up) \cup Orders
           /\ srv = "up" => ws' # "none"
           /\ srv # "up" => down' = down
<1> DEFINE open == {p \in Proc : entry[p] = "open"}
           kills == {Kill(p) : p \in open}
           kill == [p \in open |-> Kill(p)]
<1>1. IsFiniteSet(open)
  BY DaemonLinkAssumption, FS_Subset
<1>2. kill \in Surjection(open, kills)
  BY DEF Surjection
<1>3. IsFiniteSet(kills)
  BY <1>1, <1>2, FS_Surjection
<1>4. kills \subseteq Orders
  BY Sets
<1>5. kills \cap Starts = {}
  BY Kinds DEF Starts
<1>6. SetToSeq(kills) \in Seq(kills)
  BY <1>3, SetToSeqSet
<1>7. SetToSeq(kills) \in Seq(Orders) /\ ToSet(SetToSeq(kills)) \cap Starts = {}
  <2> HIDE DEF kills
  <2>1. SetToSeq(kills) \in Seq(Orders)
    BY <1>4, <1>6, SeqMonotonic
  <2>2. ToSet(SetToSeq(kills)) \subseteq kills
    BY <1>6, Members
  <2>3. QED
    BY <1>5, <2>1, <2>2
<1>8. /\ down' = (IF srv = "up" THEN down \o SetToSeq(kills) ELSE down)
      /\ lost' = lost \cup ToSet(up) \cup (IF srv = "stale" THEN kills ELSE {})
      /\ ws' = (IF srv = "up" THEN "dead" ELSE ws)
  BY DEF Disconnect
<1>9. lost' \subseteq lost \cup ToSet(up) \cup Orders
  BY <1>4, <1>8
<1>10. QED
  BY <1>7, <1>8, <1>9

--------------------------------------------------------------------------------
(***************************************************************************)
(* Types                                                                   *)
(***************************************************************************)

\* What sets of messages are made of.
LEMMA MessageSets ==
  /\ \A s \in Seq(AllData) : ToSet(s) \subseteq Message
  /\ \A s \in Seq(Orders) : ToSet(s) \subseteq Message
  /\ \A p \in Proc : End(p) \in Message /\ Kill(p) \in Message /\ Start(p) \in Message
<1>1. \A s \in Seq(AllData) : ToSet(s) \subseteq AllData
  BY Members
<1>2. \A s \in Seq(Orders) : ToSet(s) \subseteq Orders
  BY Members
<1>3. QED
  BY <1>1, <1>2, Sets

LEMMA TypeStep == TypeOK /\ PlaceInv /\ [Next]_vars => TypeOK' /\ PlaceInv'
<1> SUFFICES ASSUME TypeOK, PlaceInv, [Next]_vars PROVE TypeOK' /\ PlaceInv'
  OBVIOUS
<1> USE DEF TypeOK, PlaceInv
<1>1. ASSUME NEW p \in Proc, Spawn(p) PROVE TypeOK' /\ PlaceInv'
  <2>1. CASE srv = "none"
    BY <1>1, <2>1 DEF Spawn, server, daemon, bounds
  <2>2. CASE srv # "none"
    <3>1. Start(p) \in Orders /\ SendDown(Start(p)) /\ UNCHANGED phantom
      BY <1>1, <2>2, Sets DEF Spawn
    <3>2. /\ down' \in Seq(Orders) /\ (down' # <<>> => ws # "none") /\ lost' \subseteq Message
      BY <3>1, SendDownFacts, MessageSets
    <3>3. QED
      BY <1>1, <3>1, <3>2, MessageSets DEF Spawn, server, daemon, bounds
  <2>3. QED
    BY <2>1, <2>2
<1>2. ASSUME NEW p \in Proc, KillProcess(p) PROVE TypeOK' /\ PlaceInv'
  <2>1. Kill(p) \in Orders /\ SendDown(Kill(p))
    BY <1>2, Sets DEF KillProcess
  <2>2. /\ down' \in Seq(Orders) /\ (down' # <<>> => ws # "none") /\ lost' \subseteq Message
    BY <2>1, SendDownFacts, MessageSets
  <2>3. QED
    BY <1>2, <2>2, MessageSets DEF KillProcess, server, daemon, bounds
<1>3. ASSUME NEW p \in Proc, ChildOutput(p) PROVE TypeOK' /\ PlaceInv'
  <2>1. PICK m \in AllData :
          /\ SendToServer(m)
          /\ \/ out' = [out EXCEPT ![p] = out[p] + 1] /\ out[p] + 1 \in 1..MaxOut /\ late' = late
             \/ late' = [late EXCEPT ![p] = late[p] + 1] /\ late[p] + 1 \in 1..MaxOut /\ out' = out
    BY <1>3, OutputFacts
  <2>2. lost' \subseteq Message
    BY <2>1, SendFacts, MessageSets, Sets DEF UnderWay
  <2>4. out' \in [Proc -> 0..MaxOut] /\ late' \in [Proc -> 0..MaxOut]
    <3>1. 1..MaxOut \subseteq 0..MaxOut
      BY DaemonLinkAssumption
    <3>2. QED
      BY <2>1, <3>1
  <2>3. QED
    BY <1>3, <2>1, <2>2, <2>4, SendFacts, MessageSets DEF ChildOutput, server, bounds
<1>4. ASSUME NEW p \in Proc, ChildEnds(p) PROVE TypeOK' /\ PlaceInv'
  <2>1. End(p) \in AllData /\ SendToServer(End(p))
    BY <1>4, Sets DEF ChildEnds
  <2>2. lost' \subseteq Message
    BY <2>1, SendFacts, MessageSets, Sets DEF UnderWay
  <2>3. child' \in [Proc -> Live \cup Ended \cup {"none", "dead"}]
    BY <1>4 DEF ChildEnds, Ended
  <2>4. QED
    BY <1>4, <2>1, <2>2, <2>3, SendFacts, MessageSets DEF ChildEnds, server, bounds
<1>5. CASE Persist
  BY <1>5 DEF Persist, daemon, link, bounds, history
<1>6. CASE Receive
  <2> DEFINE m == Head(up)
  <2>1. /\ m \in AllData /\ Tail(up) \in Seq(AllData) /\ up' = Tail(up) /\ srv # "none"
        /\ m.of \in Proc /\ m \in Data(m.of) /\ m \in Message
    BY <1>6, TailSet, DataAre, Sets DEF Receive
  <2>2. CASE entry[m.of] = "open"
    <3>1. /\ heard' = [heard EXCEPT ![m.of] = Append(@, m)] /\ UNCHANGED <<lost, unknown>>
          /\ entry' = IF m = End(m.of) THEN [entry EXCEPT ![m.of] = "gone"] ELSE entry
      BY <1>6, <2>2 DEF Receive
    <3>2. /\ Append(heard[m.of], m) \in Seq(AllData)
          /\ ToSet(Append(heard[m.of], m)) = ToSet(heard[m.of]) \cup {m}
      BY <2>1, AppendSet
    <3>3. heard' \in [Proc -> Seq(AllData)] /\ \A p \in Proc : ToSet(heard'[p]) \subseteq Data(p)
      BY <2>1, <3>1, <3>2
    <3>4. QED
      BY <1>6, <2>1, <3>1, <3>3, MessageSets DEF Receive, daemon, bounds
  <2>3. CASE entry[m.of] # "open"
    <3>1. /\ lost' = lost \cup {m} /\ UNCHANGED <<heard, entry>>
          /\ unknown' = IF entry[m.of] = "lost" /\ m.of \in saved THEN unknown \cup {m.of} ELSE unknown
      BY <1>6, <2>3 DEF Receive
    <3>2. lost' \subseteq Message /\ unknown' \subseteq Proc
      BY <2>1, <3>1
    <3>3. QED
      BY <1>6, <2>1, <3>1, <3>2, MessageSets DEF Receive, daemon, bounds
  <2>4. QED
    BY <2>2, <2>3
<1>7. CASE ServerNotices
  BY <1>7 DEF ServerNotices, server, daemon, bounds, history
<1>8. CASE Disconnect
  <2>1. PICK k \in Seq(Orders) :
          /\ down' \in {down, down \o k} /\ ToSet(k) \cap Starts = {}
          /\ lost' \subseteq lost \cup ToSet(up) \cup Orders
          /\ srv = "up" => ws' # "none"
          /\ srv # "up" => down' = down
    BY <1>8, DisconnectFacts
  <2>2. down' \in Seq(Orders) /\ lost' \subseteq Message
    <3>1. down \o k \in Seq(Orders)
      BY ConcatSet
    <3>2. QED
      BY <2>1, <3>1, MessageSets, Sets
  <2>3. ToSet(down') \subseteq Message /\ ToSet(<<>>) = {}
    BY <2>2, MessageSets, EmptySet
  <2>4. QED
    BY <1>8, <2>1, <2>2, <2>3, EmptySeq DEF Disconnect, daemon, bounds
<1>9. CASE ServerStops
  <2>1. /\ up' = <<>> /\ down' = <<>> /\ lost' = lost \cup ToSet(up) \cup ToSet(down)
        /\ stops' \in 0..MaxStops
    BY <1>9, DaemonLinkAssumption DEF ServerStops
  <2>2. /\ up' \in Seq(AllData) /\ down' \in Seq(Orders) /\ ToSet(up') = {} /\ ToSet(down') = {}
        /\ lost' \subseteq Message
    BY <2>1, EmptySet, EmptySeq
  <2>3. QED
    BY <1>9, <2>1, <2>2 DEF ServerStops, daemon
<1>10. CASE Restore
  BY <1>10 DEF Restore, daemon, link, bounds, history
<1>11. CASE DaemonReceives
  <2>1. PICK p \in Proc :
           /\ ws # "none" /\ down' \in Seq(Orders)
           /\ child' \in {[child EXCEPT ![p] = "running"], [child EXCEPT ![p] = "ended"],
                         [child EXCEPT ![p] = IF @ = "running" THEN "signalled" ELSE @]}
           /\ (UNCHANGED <<up, lost, buffer, overtook>> \/ SendToServer(End(p)))
    BY <1>11, TakeFacts
  <2>2. child' \in [Proc -> Live \cup Ended \cup {"none", "dead"}]
    BY <2>1 DEF Live, Ended
  <2>3. /\ up' \in Seq(AllData) /\ buffer' \in Seq(AllData) /\ Len(buffer') <= BufferLimit
        /\ (up' # <<>> => srv # "none") /\ overtook' \subseteq Proc /\ lost' \subseteq Message
    <3>1. CASE SendToServer(End(p))
      BY <3>1, SendFacts, MessageSets, Sets DEF UnderWay
    <3>2. QED
      BY <2>1, <3>1
  <2>4. QED
    BY <1>11, <2>1, <2>2, <2>3, MessageSets DEF DaemonReceives, server, bounds
<1>12. CASE Connect
  <2>1. /\ up' = <<>> /\ lost' = lost \cup ToSet(up)
        /\ conns' \in 0..MaxConns /\ hello' \in 0..MaxConns /\ hello' <= conns'
    BY <1>12, DaemonLinkAssumption DEF Connect
  <2>2. up' \in Seq(AllData) /\ ToSet(up') = {} /\ lost' \subseteq Message
    BY <2>1, EmptySet, EmptySeq
  <2>3. QED
    BY <1>12, <2>1, <2>2 DEF Connect, server
<1>13. CASE HelloDone
  <2>1. /\ buffer' \in {buffer, <<>>} /\ up' \in {up, up \o buffer}
        /\ lost' \subseteq lost \cup ToSet(buffer)
        /\ up' # up => ws = "up"
    <3>1. CASE UNCHANGED <<buffer, up, lost>>
      BY <3>1
    <3>2. CASE /\ buffer' = Kept /\ up' = (IF ws = "up" THEN up \o buffer ELSE up)
               /\ lost' = (IF ws = "dead" THEN lost \cup ToSet(buffer) ELSE lost)
      BY <3>2 DEF Kept
    <3>3. QED
      BY <1>13, <3>1, <3>2 DEF HelloDone
  <2>4. hello' \in 0..MaxConns /\ hello' <= conns /\ conns' = conns
    BY <1>13, DaemonLinkAssumption DEF HelloDone, bounds
  <2>2. up' \in Seq(AllData) /\ buffer' \in Seq(AllData) /\ Len(buffer') <= BufferLimit
    <3>1. up \o buffer \in Seq(AllData)
      BY ConcatSet
    <3>2. <<>> \in Seq(AllData) /\ Len(<<>>) <= BufferLimit
      BY EmptySeq, DaemonLinkAssumption
    <3>3. up' \in Seq(AllData)
      BY <2>1, <3>1
    <3>4. QED
      BY <2>1, <3>2, <3>3
  <2>5. ToSet(up') \subseteq Message /\ ToSet(buffer') \subseteq Message /\ lost' \subseteq Message
    BY <2>1, <2>2, MessageSets
  <2>6. up' # <<>> => srv # "none"
    BY <2>1
  <2>3. QED
    BY <1>13, <2>2, <2>4, <2>5, <2>6 DEF HelloDone, server, bounds
<1>14. CASE DaemonNotices \/ Expire
  BY <1>14 DEF DaemonNotices, Expire, server, daemon, link, bounds, history
<1>15. CASE DaemonStops
  <2>1. child' \in [Proc -> Live \cup Ended \cup {"none", "dead"}]
    BY <1>15 DEF DaemonStops, Ended
  <2>2. /\ buffer' \in Seq(AllData) /\ down' \in Seq(Orders) /\ Len(buffer') <= BufferLimit
        /\ ToSet(buffer') = {} /\ ToSet(down') = {} /\ down' = <<>>
    BY <1>15, EmptySet, EmptySeq, DaemonLinkAssumption DEF DaemonStops
  <2>3. hello' \in 0..MaxConns /\ hello' <= conns /\ stops' \in 0..MaxStops
    BY <1>15, DaemonLinkAssumption DEF DaemonStops
  <2>4. lost' \subseteq Message
    BY <1>15 DEF DaemonStops
  <2>5. QED
    BY <1>15, <2>1, <2>2, <2>3, <2>4 DEF DaemonStops, server
<1>16. CASE Break
  BY <1>16, EmptySet, EmptySeq DEF Break, server, daemon, bounds
<1>17. CASE UNCHANGED vars
  BY <1>17 DEF vars, server, daemon, link, bounds, history
<1>18. QED
  BY <1>1, <1>2, <1>3, <1>4, <1>5, <1>6, <1>7, <1>8, <1>9, <1>10, <1>11, <1>12, <1>13,
     <1>14, <1>15, <1>16, <1>17 DEF Next

--------------------------------------------------------------------------------
(***************************************************************************)
(* Connections, and how processes are started                              *)
(***************************************************************************)

LEMMA ReadyStep == TypeOK /\ ReadyInv /\ [Next]_vars => ReadyInv'
<1> SUFFICES ASSUME TypeOK, ReadyInv, [Next]_vars PROVE ReadyInv'
  OBVIOUS
<1> USE DEF ReadyInv
<1>1. ASSUME UNCHANGED <<srv, ready, entry>> PROVE ReadyInv'
  BY <1>1
<1>2. ASSUME NEW p \in Proc, Spawn(p) PROVE ReadyInv'
  BY <1>2 DEF Spawn, TypeOK
<1>3. CASE Receive
  BY <1>3 DEF Receive, TypeOK
<1>4. CASE ServerNotices \/ Break \/ DaemonStops
  BY <1>4 DEF ServerNotices, Break, DaemonStops, server
<1>5. CASE Disconnect \/ Expire
  BY <1>5 DEF Disconnect, Expire, link
<1>6. CASE ServerStops
  BY <1>6 DEF ServerStops
<1>7. CASE Restore
  BY <1>7 DEF Restore, link
<1>8. CASE Connect
  BY <1>8 DEF Connect, server
<1>9. ASSUME NEW p \in Proc, KillProcess(p) \/ ChildOutput(p) \/ ChildEnds(p)
      PROVE  UNCHANGED <<srv, ready, entry>>
  BY <1>9 DEF KillProcess, ChildOutput, ChildEnds, server
<1>10. CASE Persist \/ DaemonReceives \/ HelloDone \/ DaemonNotices \/ UNCHANGED vars
  <2>1. UNCHANGED <<srv, ready, entry>>
    BY <1>10 DEF Persist, DaemonReceives, HelloDone, DaemonNotices, vars, link, server
  <2>2. QED
    BY <1>1, <2>1
<1>11. QED
  BY <1>1, <1>2, <1>3, <1>4, <1>5, <1>6, <1>7, <1>8, <1>9, <1>10 DEF Next

LEMMA StartStep == TypeOK /\ PlaceInv /\ StartInv /\ [Next]_vars => StartInv'
<1> SUFFICES ASSUME TypeOK, PlaceInv, StartInv, [Next]_vars PROVE StartInv'
  OBVIOUS
<1> USE DEF StartInv
<1>1. down \in Seq(Orders) /\ entry \in [Proc -> {"none", "open", "gone", "lost"}]
      /\ child \in [Proc -> Live \cup Ended \cup {"none", "dead"}] /\ out \in [Proc -> 0..MaxOut]
      /\ late \in [Proc -> 0..MaxOut]
  BY DEF TypeOK, PlaceInv
<1>2. ASSUME UNCHANGED <<child, out, late>>, \A p \in Proc : entry'[p] = "none" => entry[p] = "none",
             down' \in {down, <<>>}
      PROVE  StartInv'
  BY <1>1, <1>2, EmptySet, EmptyFacts
<1>3. ASSUME NEW p \in Proc, Spawn(p) PROVE StartInv'
  <2>1. CASE srv = "none"
    BY <1>1, <1>3, <2>1 DEF Spawn, daemon
  <2>2. CASE srv # "none"
    <3>1. /\ Start(p) \in Orders /\ SendDown(Start(p)) /\ entry[p] = "none"
          /\ entry' = [entry EXCEPT ![p] = "open"] /\ UNCHANGED <<child, out, late>>
      BY <1>3, <2>2, Sets DEF Spawn, daemon
    <3>2. CASE down' = down
      BY <1>1, <3>1, <3>2
    <3>3. CASE down' = Append(down, Start(p)) /\ ToSet(down') = ToSet(down) \cup {Start(p)}
      <4>1. DistinctIn(down', Starts)
        BY <1>1, <3>1, <3>3, DistinctAppend
      <4>2. QED
        BY <1>1, <3>1, <3>3, <4>1, Kinds
    <3>4. QED
      BY <3>1, <3>2, <3>3, SendDownFacts
  <2>3. QED
    BY <2>1, <2>2
<1>4. ASSUME NEW p \in Proc, KillProcess(p) PROVE StartInv'
  <2>1. Kill(p) \in Orders /\ SendDown(Kill(p)) /\ UNCHANGED <<entry, child, out, late>>
    BY <1>4, Sets DEF KillProcess, server, daemon
  <2>2. CASE down' = Append(down, Kill(p)) /\ ToSet(down') = ToSet(down) \cup {Kill(p)}
    <3>1. Kill(p) \notin Starts
      BY Kinds DEF Starts
    <3>2. DistinctIn(down', Starts)
      BY <1>1, <2>1, <2>2, <3>1, DistinctAppend
    <3>3. QED
      BY <2>1, <2>2, <3>2, Kinds
  <2>3. QED
    BY <1>2, <2>1, <2>2, SendDownFacts
<1>5. ASSUME NEW p \in Proc, ChildOutput(p) PROVE StartInv'
  <2>1. /\ UNCHANGED <<entry, down, child>> /\ child[p] \in Live \cup {"exited"}
        /\ \/ child[p] \in Live /\ out' = [out EXCEPT ![p] = out[p] + 1] /\ late' = late
           \/ child[p] = "exited" /\ late' = [late EXCEPT ![p] = late[p] + 1] /\ out' = out
    BY <1>5 DEF ChildOutput, server
  <2>2. \A q \in Proc \ {p} : out'[q] = out[q] /\ late'[q] = late[q]
    BY <1>1, <2>1
  <2>3. child[p] # "none" /\ (child[p] \in Ended \/ late'[p] = late[p])
    BY <2>1 DEF Live, Ended
  <2>4. QED
    BY <2>1, <2>2, <2>3
<1>6. ASSUME NEW p \in Proc, ChildEnds(p) PROVE StartInv'
  BY <1>1, <1>6 DEF ChildEnds, server, Live, Ended
<1>7. CASE Disconnect
  <2>1. PICK k \in Seq(Orders) : down' \in {down, down \o k} /\ ToSet(k) \cap Starts = {}
    BY <1>7, DisconnectFacts
  <2>2. UNCHANGED <<child, out, late>> /\ \A p \in Proc : entry'[p] = "none" => entry[p] = "none"
    BY <1>1, <1>7 DEF Disconnect, daemon
  <2>3. CASE down' = down \o k
    <3>1. DistinctIn(k, Starts)
      BY <2>1, Members DEF DistinctIn
    <3>2. DistinctIn(down', Starts) /\ ToSet(down') = ToSet(down) \cup ToSet(k)
      BY <1>1, <2>1, <2>3, <3>1, DistinctConcat, ConcatSet
    <3>3. \A p \in Proc : Start(p) \in ToSet(down') => Start(p) \in ToSet(down)
      BY <2>1, <3>2 DEF Starts
    <3>4. QED
      BY <2>2, <3>2, <3>3
  <2>4. QED
    BY <1>2, <2>1, <2>2, <2>3
<1>8. CASE DaemonReceives
  <2>1. PICK p \in Proc :
          /\ down # <<>> /\ down' = Tail(down) /\ Head(down) \in {Start(p), Kill(p)}
          /\ \/ child' = [child EXCEPT ![p] = "running"] /\ Head(down) = Start(p)
             \/ child' = [child EXCEPT ![p] = "ended"] /\ Head(down) = Start(p)
             \/ /\ child' = [child EXCEPT ![p] = IF @ = "running" THEN "signalled" ELSE @]
                /\ Head(down) = Kill(p)
    BY <1>8, TakeFacts
  <2>2. /\ DistinctIn(down', Starts) /\ ToSet(down) = ToSet(down') \cup {Head(down)}
        /\ (Head(down) \in Starts => Head(down) \notin ToSet(down'))
    BY <1>1, <2>1, DistinctTail, TailSet
  <2>3. UNCHANGED <<entry, out, late>>
    BY <1>8 DEF DaemonReceives, server
  <2>4. CASE Head(down) = Start(p)
    <3>1. /\ child[p] = "none" /\ entry[p] # "none" /\ Start(p) \notin ToSet(down')
          /\ \A q \in Proc \ {p} : child'[q] = child[q]
      <4>1. Start(p) \in Starts /\ Start(p) \in ToSet(down) /\ Start(p) \notin ToSet(down')
        BY <2>2, <2>4 DEF Starts
      <4>2. child[p] = "none" /\ entry[p] # "none"
        BY <4>1
      <4>3. Start(p) # Kill(p)
        BY Kinds
      <4>4. \A q \in Proc \ {p} : child'[q] = child[q]
        BY <1>1, <2>1
      <4>5. QED
        BY <4>1, <4>2, <4>4
    <3>2. child'[p] # "none"
      BY <1>1, <2>1, <2>4, Kinds
    <3>3. late[p] = 0
      BY <3>1 DEF Ended
    <3>4. \A q \in Proc : child'[q] \notin Ended => late'[q] = 0
      BY <2>3, <3>1, <3>3
    <3>5. QED
      BY <2>2, <2>3, <3>1, <3>2, <3>4
  <2>5. CASE Head(down) # Start(p)
    <3>1. \A q \in Proc : /\ child'[q] = "none" <=> child[q] = "none"
                          /\ child'[q] \in Ended <=> child[q] \in Ended
      BY <1>1, <2>1, <2>5 DEF Live, Ended
    <3>2. QED
      BY <2>2, <2>3, <3>1
  <2>6. QED
    BY <2>4, <2>5
<1>9. CASE DaemonStops
  <2>1. UNCHANGED <<entry, out, late>> /\ down' = <<>>
    BY <1>9 DEF DaemonStops, server
  <2>2. ASSUME NEW p \in Proc
        PROVE  (child'[p] = "none" <=> child[p] = "none") /\ (child'[p] \in Ended <=> child[p] \in Ended)
    <3>1. child'[p] = IF child[p] \in Live THEN "dead"
                      ELSE IF child[p] = "exited" THEN "ended" ELSE child[p]
      BY <1>9 DEF DaemonStops
    <3>2. QED
      BY <3>1 DEF Live, Ended
  <2>3. /\ \A p \in Proc : Start(p) \notin ToSet(down')
        /\ DistinctIn(down', Starts)
    BY <2>1, EmptySet, EmptyFacts
  <2>4. QED
    BY <2>1, <2>2, <2>3
<1>10. CASE Receive
  BY <1>1, <1>2, <1>10 DEF Receive, daemon
<1>11. CASE ServerStops \/ Restore
  BY <1>1, <1>2, <1>11 DEF ServerStops, Restore, daemon, link
<1>12. CASE Persist \/ ServerNotices \/ Expire \/ Connect \/ HelloDone \/ DaemonNotices \/ Break \/ UNCHANGED vars
  BY <1>2, <1>12 DEF Persist, ServerNotices, Expire, Connect, HelloDone, DaemonNotices, Break, vars,
                     server, daemon, link
<1>13. QED
  BY <1>3, <1>4, <1>5, <1>6, <1>7, <1>8, <1>9, <1>10, <1>11, <1>12 DEF Next

LEMMA TraceStep == TypeOK /\ PlaceInv /\ TraceInv /\ [Next]_vars => TraceInv'
<1> SUFFICES ASSUME TypeOK, PlaceInv, TraceInv, [Next]_vars PROVE TraceInv'
  OBVIOUS
<1> USE DEF TraceInv
<1>1. down \in Seq(Orders) /\ entry \in [Proc -> {"none", "open", "gone", "lost"}]
      /\ child \in [Proc -> Live \cup Ended \cup {"none", "dead"}] /\ up \in Seq(AllData)
  BY DEF TypeOK, PlaceInv
<1>2. ASSUME \A p \in Proc : entry[p] = "none" => entry'[p] = "none",
             \A p \in Proc : child'[p] = "none" => child[p] = "none",
             ToSet(down) \cup lost \subseteq ToSet(down') \cup lost', UNCHANGED phantom
      PROVE  TraceInv'
  BY <1>2
<1>3. ASSUME NEW p \in Proc, Spawn(p) PROVE TraceInv'
  <2>1. CASE srv = "none"
    BY <1>1, <1>3, <2>1 DEF Spawn, daemon
  <2>2. CASE srv # "none"
    <3>1. /\ Start(p) \in Orders /\ SendDown(Start(p)) /\ UNCHANGED <<child, phantom>>
          /\ entry' = [entry EXCEPT ![p] = "open"]
      BY <1>3, <2>2, Sets DEF Spawn, daemon
    <3>2. ToSet(down') \cup lost' = ToSet(down) \cup lost \cup {Start(p)}
      BY <3>1, SendDownFacts
    <3>3. QED
      BY <1>1, <3>1, <3>2
  <2>3. QED
    BY <2>1, <2>2
<1>4. ASSUME NEW p \in Proc, KillProcess(p) PROVE TraceInv'
  <2>1. Kill(p) \in Orders /\ SendDown(Kill(p)) /\ UNCHANGED <<entry, child, phantom>>
    BY <1>4, Sets DEF KillProcess, server, daemon
  <2>2. ToSet(down) \cup lost \subseteq ToSet(down') \cup lost'
    BY <2>1, SendDownFacts
  <2>3. QED
    BY <1>2, <2>1, <2>2
<1>5. ASSUME NEW m \in AllData, SendToServer(m) PROVE lost \subseteq lost'
  BY <1>5 DEF SendToServer
<1>6. ASSUME NEW p \in Proc, ChildOutput(p) PROVE TraceInv'
  <2>1. \E m \in AllData : SendToServer(m)
    BY <1>6, OutputFacts
  <2>2. lost \subseteq lost'
    BY <2>1, <1>5
  <2>3. QED
    BY <1>2, <1>6, <2>2 DEF ChildOutput, server
<1>7. ASSUME NEW p \in Proc, ChildEnds(p) PROVE TraceInv'
  <2>1. lost \subseteq lost'
    BY <1>5, <1>7, Sets DEF ChildEnds
  <2>2. \A q \in Proc : child'[q] = "none" => child[q] = "none"
    BY <1>1, <1>7 DEF ChildEnds
  <2>3. QED
    BY <1>2, <1>7, <2>1, <2>2 DEF ChildEnds, server
<1>8. CASE Receive
  <2>1. lost \subseteq lost'
    BY <1>8 DEF Receive
  <2>2. \A p \in Proc : entry[p] = "none" => entry'[p] = "none"
    <3>1. Head(up).of \in Proc
      BY <1>1, <1>8, TailSet, DataAre DEF Receive
    <3>2. QED
      BY <1>1, <1>8, <3>1 DEF Receive
  <2>3. QED
    BY <1>2, <1>8, <2>1, <2>2 DEF Receive, daemon
<1>9. CASE Disconnect
  <2>1. PICK k \in Seq(Orders) : down' \in {down, down \o k}
    BY <1>9, DisconnectFacts
  <2>2. ToSet(down) \subseteq ToSet(down')
    <3>1. ToSet(down \o k) = ToSet(down) \cup ToSet(k)
      BY <1>1, ConcatSet
    <3>2. QED
      BY <2>1, <3>1
  <2>3. lost \subseteq lost' /\ \A p \in Proc : entry[p] = "none" => entry'[p] = "none"
    BY <1>1, <1>9 DEF Disconnect
  <2>4. QED
    BY <1>2, <1>9, <2>2, <2>3 DEF Disconnect, daemon
<1>10. CASE DaemonReceives
  <2>1. PICK p \in Proc :
          /\ down # <<>> /\ down' = Tail(down) /\ Head(down) \in {Start(p), Kill(p)}
          /\ \/ child' = [child EXCEPT ![p] = "running"]
             \/ child' = [child EXCEPT ![p] = "ended"]
             \/ /\ child' = [child EXCEPT ![p] = IF @ = "running" THEN "signalled" ELSE @]
                /\ Head(down) = Kill(p)
          /\ lost \subseteq lost'
    <3>1. \A p \in Proc : SendToServer(End(p)) => lost \subseteq lost'
      BY <1>5, Sets
    <3>2. QED
      BY <1>10, <3>1, TakeFacts
  <2>2. ToSet(down) = ToSet(down') \cup {Head(down)}
    BY <1>1, <2>1, TailSet
  <2>3. \A q \in Proc : child'[q] = "none" => child[q] = "none" /\ (Head(down) = Kill(p) \/ q # p)
    BY <1>1, <2>1
  <2>4. \A q \in Proc : child'[q] = "none" => Start(q) # Head(down)
    BY <2>1, <2>3, Kinds
  <2>5. QED
    BY <1>10, <2>1, <2>2, <2>3, <2>4 DEF DaemonReceives, server
<1>11. CASE DaemonStops
  <2>1. /\ \A p \in Proc : child'[p] = "none" => child[p] = "none"
        /\ UNCHANGED <<entry, phantom>> /\ lost \cup ToSet(down) \subseteq lost'
    BY <1>1, <1>11 DEF DaemonStops, server
  <2>2. QED
    BY <1>2, <2>1
<1>12. CASE ServerStops
  <2>1. /\ \A p \in Proc : entry[p] = "none" => entry'[p] = "none"
        /\ UNCHANGED <<child, phantom>> /\ lost \cup ToSet(down) \subseteq lost'
    BY <1>1, <1>12 DEF ServerStops, daemon
  <2>2. QED
    BY <1>2, <2>1
<1>13. CASE Restore
  BY <1>1, <1>2, <1>13 DEF Restore, daemon, link, history
<1>14. CASE Persist \/ ServerNotices \/ Expire \/ Connect \/ HelloDone \/ DaemonNotices \/ Break \/ UNCHANGED vars
  <2>1. UNCHANGED <<entry, child, phantom>> /\ ToSet(down) \cup lost \subseteq ToSet(down') \cup lost'
    BY <1>14 DEF Persist, ServerNotices, Expire, Connect, HelloDone, DaemonNotices, Break, vars,
                 server, daemon, link, history
  <2>2. QED
    BY <1>2, <2>1
<1>15. QED
  BY <1>3, <1>4, <1>6, <1>7, <1>8, <1>9, <1>10, <1>11, <1>12, <1>13, <1>14 DEF Next

--------------------------------------------------------------------------------
(***************************************************************************)
(* How messages flow                                                       *)
(***************************************************************************)

\* A message later than all its child had before.
Fresh(m) == m \notin Produced(m.of) /\ \A x \in Produced(m.of) : Before(x, m)

\* A child has a new message.
Sends(m) ==
  /\ SendToServer(m) /\ UNCHANGED heard
  /\ Fresh(m)
  /\ \A p \in Proc : Produced(p)' = Produced(p) \cup (IF p = m.of THEN {m} ELSE {})

\* Or no child has; what is under way stays, is dropped, moves on or is read.
Moves ==
  /\ \A p \in Proc : Produced(p)' = Produced(p)
  /\ overtook' = overtook
  /\ \/ UNCHANGED <<up, buffer, heard>> /\ lost \subseteq lost'
     \/ up' = <<>> /\ UNCHANGED <<buffer, heard>> /\ lost \cup ToSet(up) \subseteq lost'
     \/ buffer' = <<>> /\ UNCHANGED <<up, heard>> /\ lost \cup ToSet(buffer) \subseteq lost'
     \/ buffer' = <<>> /\ up' = up \o buffer /\ UNCHANGED <<heard, lost>>
     \/ /\ up # <<>> /\ up' = Tail(up) /\ UNCHANGED buffer
        /\ \/ heard' = [heard EXCEPT ![Head(up).of] = Append(@, Head(up))] /\ UNCHANGED lost
           \/ lost' = lost \cup {Head(up)} /\ UNCHANGED heard

\* How the messages of a child rank.
LEMMA Ranks ==
  ASSUME NEW p \in Proc
  PROVE  /\ Rank(End(p)) = 1
         /\ \A n \in Nat : Rank(Out(p, n)) = 0 /\ Rank(Late(p, n)) = 2
  BY Kinds DEF Rank

\* What a child of which little is assumed has produced.
LEMMA ProducedAre ==
  ASSUME NEW p \in Proc, NEW x \in Produced(p), out[p] \in Nat, late[p] \in Nat
  PROVE  \/ x.type = "out" /\ Rank(x) = 0 /\ x.n \in Nat /\ x.n <= out[p]
         \/ x.type = "end" /\ Rank(x) = 1 /\ child[p] \in Ended
         \/ x.type = "late" /\ Rank(x) = 2 /\ x.n \in Nat /\ x.n <= late[p] /\ late[p] # 0
<1>1. CASE \E n \in 1..out[p] : x = Out(p, n)
  <2>1. PICK n \in 1..out[p] : x = Out(p, n)
    BY <1>1
  <2>2. n \in Nat /\ n <= out[p]
    BY <2>1
  <2>3. QED
    BY <2>1, <2>2, Ranks, Kinds
<1>2. CASE \E n \in 1..late[p] : x = Late(p, n)
  <2>1. PICK n \in 1..late[p] : x = Late(p, n)
    BY <1>2
  <2>2. n \in Nat /\ n <= late[p] /\ late[p] # 0
    BY <2>1
  <2>3. QED
    BY <2>1, <2>2, Ranks, Kinds
<1>3. CASE x = End(p) /\ child[p] \in Ended
  BY <1>3, Ranks, Kinds
<1>4. QED
  BY <1>1, <1>2, <1>3 DEF Produced

\* Each kind of message is new when it is sent.
LEMMA OutIsNew ==
  ASSUME NEW p \in Proc, out[p] \in Nat, late[p] = 0, child[p] \notin Ended,
         out'[p] = out[p] + 1, late'[p] = late[p], child'[p] = child[p]
  PROVE  Fresh(Out(p, out[p] + 1)) /\ Produced(p)' = Produced(p) \cup {Out(p, out[p] + 1)}
<1> DEFINE m == Out(p, out[p] + 1)
<1>1. m.of = p /\ m.type = "out" /\ m.n = out[p] + 1
  BY Kinds
<1>2. \A x \in Produced(p) : x.type = "out" /\ x.n \in Nat /\ x.n <= out[p]
  BY ProducedAre
<1>3. \A x \in Produced(p) : x.n < m.n
  BY <1>1, <1>2
<1>4. Fresh(m)
  BY <1>1, <1>2, <1>3 DEF Fresh, Before
<1>5. 1..(out[p] + 1) = (1..out[p]) \cup {out[p] + 1}
  OBVIOUS
<1>6. Produced(p)' = Produced(p) \cup {m}
  BY <1>5 DEF Produced
<1>7. QED
  BY <1>4, <1>6

LEMMA LateIsNew ==
  ASSUME NEW p \in Proc, out[p] \in Nat, late[p] \in Nat, child[p] \in Ended,
         out'[p] = out[p], late'[p] = late[p] + 1, child'[p] = child[p]
  PROVE  Fresh(Late(p, late[p] + 1)) /\ Produced(p)' = Produced(p) \cup {Late(p, late[p] + 1)}
<1> DEFINE m == Late(p, late[p] + 1)
<1>1. m.of = p /\ m.type = "late" /\ m.n = late[p] + 1 /\ Rank(m) = 2
  BY Kinds, Ranks
<1>2. \A x \in Produced(p) : \/ Rank(x) \in {0, 1} /\ x.type # "late"
                             \/ x.type = "late" /\ x.n \in Nat /\ x.n <= late[p]
  BY ProducedAre
<1>3. \A x \in Produced(p) : Rank(x) < Rank(m) \/ (x.type = m.type /\ x.n < m.n)
  BY <1>1, <1>2
<1>4. m \notin Produced(p)
  BY <1>1, <1>2
<1>5. Fresh(m)
  BY <1>1, <1>3, <1>4 DEF Fresh, Before
<1>6. 1..(late[p] + 1) = (1..late[p]) \cup {late[p] + 1}
  OBVIOUS
<1>7. Produced(p)' = Produced(p) \cup {m}
  BY <1>6 DEF Produced
<1>8. QED
  BY <1>5, <1>7

LEMMA EndIsNew ==
  ASSUME NEW p \in Proc, out[p] \in Nat, late[p] = 0, child[p] \notin Ended,
         out' = out, late' = late, child'[p] \in Ended
  PROVE  Fresh(End(p)) /\ Produced(p)' = Produced(p) \cup {End(p)}
<1>1. End(p).of = p /\ End(p).type = "end" /\ Rank(End(p)) = 1
  BY Kinds, Ranks
<1>2. \A x \in Produced(p) : x.type = "out" /\ Rank(x) = 0
  BY ProducedAre
<1>3. Fresh(End(p))
  BY <1>1, <1>2 DEF Fresh, Before
<1>4. Produced(p)' = Produced(p) \cup {End(p)}
  BY DEF Produced
<1>5. QED
  BY <1>3, <1>4

LEMMA Flow ==
  TypeOK /\ PlaceInv /\ StartInv /\ [Next]_vars => Moves \/ \E m \in AllData : Sends(m)
<1> SUFFICES ASSUME TypeOK, PlaceInv, StartInv, [Next]_vars
             PROVE  Moves \/ \E m \in AllData : Sends(m)
  OBVIOUS
<1>1. /\ down \in Seq(Orders) /\ MaxOut \in Nat
      /\ out \in [Proc -> 0..MaxOut] /\ late \in [Proc -> 0..MaxOut]
      /\ child \in [Proc -> Live \cup Ended \cup {"none", "dead"}]
  BY DaemonLinkAssumption DEF TypeOK, PlaceInv
<1>2. ASSUME UNCHANGED <<child, out, late>> PROVE \A p \in Proc : Produced(p)' = Produced(p)
  BY <1>2 DEF Produced
<1>3. ASSUME NEW p \in Proc, ChildOutput(p) PROVE \E m \in AllData : Sends(m)
  <2>1. PICK m \in AllData :
          /\ SendToServer(m) /\ m.of = p
          /\ \/ /\ child[p] \in Live /\ m = Out(p, out[p] + 1) /\ out[p] + 1 \in 1..MaxOut
                /\ out' = [out EXCEPT ![p] = out[p] + 1] /\ late' = late
             \/ /\ child[p] = "exited" /\ m = Late(p, late[p] + 1) /\ late[p] + 1 \in 1..MaxOut
                /\ late' = [late EXCEPT ![p] = late[p] + 1] /\ out' = out
    BY <1>3, OutputFacts DEF TypeOK
  <2>2. child' = child /\ heard' = heard
    BY <1>3 DEF ChildOutput
  <2>3. out[p] \in Nat /\ late[p] \in Nat
    BY <1>1
  <2>4. Fresh(m) /\ Produced(p)' = Produced(p) \cup {m}
    <3>1. CASE child[p] \in Live /\ m = Out(p, out[p] + 1)
      <4>1. out'[p] = out[p] + 1 /\ late'[p] = late[p] /\ child'[p] = child[p]
        BY <1>1, <2>1, <2>2, <3>1 DEF Live
      <4>2. late[p] = 0 /\ child[p] \notin Ended
        BY <3>1 DEF StartInv, Live, Ended
      <4>3. QED
        BY <2>3, <3>1, <4>1, <4>2, OutIsNew
    <3>2. CASE child[p] = "exited" /\ m = Late(p, late[p] + 1)
      <4>1. out'[p] = out[p] /\ late'[p] = late[p] + 1 /\ child'[p] = child[p] /\ child[p] \in Ended
        BY <1>1, <2>1, <2>2, <3>2 DEF Live, Ended
      <4>2. QED
        BY <2>3, <3>2, <4>1, LateIsNew
    <3>3. QED
      BY <2>1, <3>1, <3>2
  <2>5. \A q \in Proc \ {p} : Produced(q)' = Produced(q)
    BY <1>1, <2>1, <2>2 DEF Produced
  <2>6. Sends(m)
    BY <2>1, <2>2, <2>4, <2>5 DEF Sends
  <2>7. QED
    BY <2>6
<1>4. ASSUME NEW p \in Proc, child[p] \notin Ended, NEW c \in Ended, child' = [child EXCEPT ![p] = c],
             UNCHANGED <<out, late, heard>>, SendToServer(End(p))
      PROVE  \E m \in AllData : Sends(m)
  <2>1. End(p) \in AllData /\ End(p).of = p
    BY Sets, Kinds
  <2>2. late[p] = 0 /\ out[p] \in Nat
    BY <1>1, <1>4 DEF StartInv
  <2>3. Fresh(End(p)) /\ Produced(p)' = Produced(p) \cup {End(p)}
    <3>1. child'[p] \in Ended
      BY <1>1, <1>4
    <3>2. QED
      BY <1>4, <2>2, <3>1, EndIsNew
  <2>4. \A q \in Proc \ {p} : Produced(q)' = Produced(q)
    BY <1>1, <1>4 DEF Produced
  <2>5. Sends(End(p))
    BY <1>4, <2>1, <2>3, <2>4 DEF Sends
  <2>6. QED
    BY <2>1, <2>5
<1>5. ASSUME NEW p \in Proc, ChildEnds(p) PROVE \E m \in AllData : Sends(m)
  <2>1. "exited" \in Ended /\ child[p] \notin Ended
    BY <1>5 DEF ChildEnds, Live, Ended
  <2>2. QED
    BY <1>4, <1>5, <2>1 DEF ChildEnds
<1>6. CASE DaemonReceives
  <2>1. UNCHANGED <<out, late, heard>>
    BY <1>6 DEF DaemonReceives
  <2>2. PICK p \in Proc :
          /\ down # <<>>
          /\ \/ /\ Head(down) = Start(p) /\ child' = [child EXCEPT ![p] = "running"]
                /\ UNCHANGED <<up, lost, buffer, overtook>>
             \/ /\ Head(down) = Start(p) /\ child' = [child EXCEPT ![p] = "ended"]
                /\ SendToServer(End(p))
             \/ /\ Head(down) = Kill(p)
                /\ child' = [child EXCEPT ![p] = IF @ = "running" THEN "signalled" ELSE @]
                /\ UNCHANGED <<up, lost, buffer, overtook>>
    BY <1>6, TakeFacts
  <2>3. Head(down) = Start(p) => child[p] = "none"
    <3>1. Head(down) \in ToSet(down)
      BY <1>1, <2>2, TailSet
    <3>2. QED
      BY <3>1 DEF StartInv
  <2>4. CASE child' = [child EXCEPT ![p] = "ended"] /\ SendToServer(End(p)) /\ Head(down) = Start(p)
    <3>1. "ended" \in Ended /\ child[p] \notin Ended
      BY <2>3, <2>4 DEF Ended
    <3>2. QED
      BY <1>4, <2>1, <2>4, <3>1
  <2>5. CASE /\ UNCHANGED <<up, lost, buffer, overtook>>
             /\ \/ child' = [child EXCEPT ![p] = "running"] /\ Head(down) = Start(p)
                \/ child' = [child EXCEPT ![p] = IF @ = "running" THEN "signalled" ELSE @]
    <3>1. \A q \in Proc : child'[q] \in Ended <=> child[q] \in Ended
      BY <1>1, <2>3, <2>5 DEF Ended
    <3>2. \A q \in Proc : Produced(q)' = Produced(q)
      BY <2>1, <3>1 DEF Produced
    <3>3. QED
      BY <2>1, <2>5, <3>2 DEF Moves
  <2>6. QED
    BY <2>2, <2>4, <2>5
<1>7. CASE Receive
  <2>1. UNCHANGED <<child, out, late>>
    BY <1>7 DEF Receive, daemon
  <2>2. QED
    BY <1>2, <1>7, <2>1 DEF Receive, Moves, daemon
<1>8. CASE Disconnect \/ ServerStops \/ Connect \/ Break
  <2>1. /\ UNCHANGED <<child, out, late, buffer, heard, overtook>>
        /\ up' = <<>> /\ lost \cup ToSet(up) \subseteq lost'
    BY <1>8 DEF Disconnect, ServerStops, Connect, Break, daemon
  <2>2. QED
    BY <1>2, <2>1 DEF Moves
<1>9. CASE HelloDone
  <2>1. UNCHANGED <<child, out, late, heard, overtook>>
    BY <1>9 DEF HelloDone
  <2>2. \/ UNCHANGED <<up, buffer, lost>>
        \/ buffer' = <<>> /\ UNCHANGED up /\ lost' = lost \cup ToSet(buffer)
        \/ buffer' = <<>> /\ up' = up \o buffer /\ UNCHANGED lost
    BY <1>9 DEF HelloDone, Kept, TypeOK
  <2>3. QED
    BY <1>2, <2>1, <2>2 DEF Moves
<1>10. CASE DaemonStops
  <2>1. /\ UNCHANGED <<up, heard, out, late, overtook>> /\ buffer' = <<>>
        /\ lost \cup ToSet(buffer) \subseteq lost'
    BY <1>10 DEF DaemonStops
  <2>2. \A p \in Proc : child'[p] \in Ended <=> child[p] \in Ended
    BY <1>1, <1>10 DEF DaemonStops, Live, Ended
  <2>3. \A p \in Proc : Produced(p)' = Produced(p)
    BY <2>1, <2>2 DEF Produced
  <2>4. QED
    BY <2>1, <2>3 DEF Moves
<1>11. ASSUME NEW p \in Proc, Spawn(p) \/ KillProcess(p) PROVE Moves
  <2>1. UNCHANGED <<child, out, late, up, buffer, heard, overtook>> /\ lost \subseteq lost'
    BY <1>11 DEF Spawn, KillProcess, SendDown, daemon
  <2>2. QED
    BY <1>2, <2>1 DEF Moves
<1>12. CASE Persist \/ ServerNotices \/ Expire \/ Restore \/ DaemonNotices \/ UNCHANGED vars
  <2>1. UNCHANGED <<child, out, late, up, buffer, heard, overtook, lost>>
    BY <1>12 DEF Persist, ServerNotices, Expire, Restore, DaemonNotices, vars, daemon, link, history
  <2>2. QED
    BY <1>2, <2>1 DEF Moves
<1>13. QED
  BY <1>3, <1>5, <1>6, <1>7, <1>8, <1>9, <1>10, <1>11, <1>12 DEF Next

\* Where a message goes in a step of the second kind.
LEMMA MoveFacts ==
  ASSUME PlaceInv, Moves
  PROVE  /\ lost \subseteq lost' /\ \A p \in Proc : ToSet(heard[p]) \subseteq ToSet(heard'[p])
         /\ \A p \in Proc : ToSet(heard'[p]) \subseteq ToSet(heard[p]) \cup ToSet(up)
         /\ ToSet(up') \cup ToSet(buffer') \subseteq UnderWay
         /\ \A m \in UnderWay : m \in ToSet(up') \cup ToSet(buffer') \cup lost' \cup ToSet(heard'[m.of])
<1>1. /\ up \in Seq(AllData) /\ buffer \in Seq(AllData) /\ heard \in [Proc -> Seq(AllData)]
      /\ UnderWay = ToSet(buffer) \cup ToSet(up)
  BY DEF PlaceInv, UnderWay
<1>2. CASE UNCHANGED <<up, buffer, heard>> /\ lost \subseteq lost'
  BY <1>1, <1>2
<1>3. CASE up' = <<>> /\ UNCHANGED <<buffer, heard>> /\ lost \cup ToSet(up) \subseteq lost'
  BY <1>1, <1>3, EmptySet
<1>4. CASE buffer' = <<>> /\ UNCHANGED <<up, heard>> /\ lost \cup ToSet(buffer) \subseteq lost'
  BY <1>1, <1>4, EmptySet
<1>5. CASE buffer' = <<>> /\ up' = up \o buffer /\ UNCHANGED <<heard, lost>>
  <2>1. ToSet(up') = ToSet(up) \cup ToSet(buffer)
    BY <1>1, <1>5, ConcatSet
  <2>2. QED
    BY <1>1, <1>5, <2>1, EmptySet
<1>6. CASE up # <<>> /\ up' = Tail(up) /\ UNCHANGED buffer
  <2> DEFINE m == Head(up)
  <2>1. ToSet(up) = ToSet(up') \cup {m} /\ m \in AllData
    BY <1>1, <1>6, TailSet
  <2>2. m.of \in Proc
    BY <2>1, DataAre
  <2>3. CASE heard' = [heard EXCEPT ![m.of] = Append(@, m)] /\ UNCHANGED lost
    <3>1. ToSet(Append(heard[m.of], m)) = ToSet(heard[m.of]) \cup {m}
      BY <1>1, <2>1, <2>2, AppendSet
    <3>2. \A p \in Proc : ToSet(heard'[p]) = ToSet(heard[p]) \cup IF p = m.of THEN {m} ELSE {}
      BY <1>1, <2>2, <2>3, <3>1
    <3>3. QED
      <4>1. lost' = lost /\ buffer' = buffer
        BY <1>6, <2>3
      <4>2. /\ m \in ToSet(heard'[m.of]) /\ m \in ToSet(up)
            /\ \A p \in Proc : /\ ToSet(heard[p]) \subseteq ToSet(heard'[p])
                              /\ ToSet(heard'[p]) \subseteq ToSet(heard[p]) \cup {m}
        BY <2>1, <2>2, <3>2
      <4>3. \A p \in Proc : ToSet(heard'[p]) \subseteq ToSet(heard[p]) \cup ToSet(up)
        BY <4>2
      <4>4. ToSet(up') \cup ToSet(buffer') \subseteq UnderWay
        BY <1>1, <2>1, <4>1
      <4>5. \A x \in UnderWay : x \in ToSet(up') \cup ToSet(buffer') \cup lost' \cup ToSet(heard'[x.of])
        BY <1>1, <2>1, <4>1, <4>2
      <4>6. QED
        BY <4>1, <4>2, <4>3, <4>4, <4>5
  <2>4. CASE lost' = lost \cup {m} /\ UNCHANGED heard
    BY <1>1, <1>6, <2>1, <2>4
  <2>5. QED
    BY <2>3, <2>4, <1>6, <1>2, <1>3, <1>4, <1>5 DEF Moves
<1>7. QED
  BY <1>2, <1>3, <1>4, <1>5, <1>6 DEF Moves

LEMMA AccountedStep ==
  TypeOK /\ PlaceInv /\ ReadyInv /\ StartInv /\ Accounted /\ [Next]_vars => Accounted'
<1> SUFFICES ASSUME TypeOK, PlaceInv, ReadyInv, StartInv, Accounted, [Next]_vars PROVE Accounted'
  OBVIOUS
<1>1. unknown' = {}
  <2>1. CASE Receive
    <3>1. Head(up) \in AllData
      BY <2>1, TailSet DEF Receive, PlaceInv
    <3>2. entry[Head(up).of] # "lost"
      BY <2>1, <3>1, DataAre DEF Receive, ReadyInv
    <3>3. QED
      BY <2>1, <3>2 DEF Receive, Accounted
  <2>2. CASE ~Receive
    <3>1. unknown' = unknown
      BY <2>2 DEF Next, Spawn, KillProcess, ChildOutput, ChildEnds, Persist, ServerNotices, Expire, Disconnect,
                  ServerStops, Restore, DaemonReceives, Connect, HelloDone, DaemonNotices,
                  DaemonStops, Break, vars, history
    <3>2. QED
      BY <3>1 DEF Accounted
  <2>3. QED
    BY <2>1, <2>2
<1>2. ASSUME NEW p \in Proc, NEW x \in Produced(p)'
      PROVE  x \in ToSet(heard'[p]) \cup ToSet(buffer') \cup ToSet(up') \cup lost'
  <2>1. ASSUME NEW y \in Produced(p) PROVE y \in ToSet(heard[p]) \cup UnderWay \cup lost /\ y.of = p
    <3>1. y.of = p
      <4>1. \A n \in (1..out[p]) \cup (1..late[p]) : n \in Nat
        BY <2>1 DEF TypeOK
      <4>2. QED
        BY <2>1, <4>1, Kinds DEF Produced
    <3>2. QED
      BY <2>1, <3>1 DEF Accounted
  <2>2. CASE Moves
    <3>1. x \in Produced(p)
      BY <1>2, <2>2 DEF Moves
    <3>2. QED
      BY <2>1, <2>2, <3>1, MoveFacts
  <2>3. ASSUME NEW m \in AllData, Sends(m)
        PROVE  x \in ToSet(heard'[p]) \cup ToSet(buffer') \cup ToSet(up') \cup lost'
    <3>1. x \in Produced(p) \/ x = m
      BY <1>2, <2>3 DEF Sends
    <3>2. heard' = heard /\ ToSet(up') \cup ToSet(buffer') \cup lost' = UnderWay \cup lost \cup {m}
      BY <2>3, SendFacts DEF Sends
    <3>3. QED
      BY <2>1, <3>1, <3>2
  <2>4. QED
    BY <2>2, <2>3, Flow
<1>3. QED
  BY <1>1, <1>2 DEF Accounted, UnderWay

LEMMA ProducedStep ==
  TypeOK /\ PlaceInv /\ StartInv /\ ProducedInv /\ [Next]_vars => ProducedInv'
<1> SUFFICES ASSUME TypeOK, PlaceInv, StartInv, ProducedInv, [Next]_vars,
                    NEW p \in Proc, NEW x \in ToSet(heard'[p]) \cup ToSet(buffer') \cup ToSet(up'), x.of = p
             PROVE  x \in Produced(p)'
  BY DEF ProducedInv, UnderWay
<1>1. CASE Moves
  <2>1. x \in ToSet(heard[p]) \cup UnderWay
    BY <1>1, MoveFacts DEF UnderWay
  <2>2. QED
    BY <1>1, <2>1 DEF Moves, ProducedInv
<1>2. ASSUME NEW m \in AllData, Sends(m) PROVE x \in Produced(p)'
  <2>1. x \in ToSet(heard[p]) \cup UnderWay \cup {m}
    BY <1>2, SendFacts DEF Sends
  <2>2. QED
    BY <1>2, <2>1 DEF Sends, ProducedInv
<1>3. QED
  BY <1>1, <1>2, Flow

--------------------------------------------------------------------------------
(***************************************************************************)
(* Once, and in order                                                      *)
(***************************************************************************)

\* sendToServer adds a message at the end of what is under way or of the buffer,
\* whose oldest message may have made room.
LEMMA SendShape ==
  ASSUME TypeOK, PlaceInv, NEW m \in AllData, SendToServer(m)
  PROVE  \/ /\ UNCHANGED buffer /\ (up' = up \/ up' = Append(up, m))
            /\ m.of \in overtook' \/ \A b \in ToSet(buffer) : b.of # m.of
         \/ /\ up' = up
            /\ \E rest \in Seq(AllData) :
                 /\ rest = buffer \/ (buffer # <<>> /\ rest = Tail(buffer))
                 /\ buffer' = Append(rest, m)
<1>1. CASE ws # "none"
  <2>1. /\ UNCHANGED buffer /\ (up' = up \/ up' = Append(up, m))
        /\ overtook' = overtook \cup ({m.of} \cap {b.of : b \in ToSet(buffer)})
    BY <1>1 DEF SendToServer
  <2>2. m.of \in overtook' \/ \A b \in ToSet(buffer) : b.of # m.of
    BY <2>1
  <2>3. QED
    BY <2>1, <2>2
<1>2. CASE ws = "none"
  <2>1. /\ up' = up
        /\ buffer' = Append(IF Len(buffer) < BufferLimit THEN buffer ELSE Tail(buffer), m)
    BY <1>2 DEF SendToServer
  <2>2. buffer \in Seq(AllData) /\ BufferLimit \in Nat \ {0}
    BY DaemonLinkAssumption DEF PlaceInv
  <2>3. CASE Len(buffer) < BufferLimit
    <3>1. buffer' = Append(buffer, m)
      BY <2>1, <2>3
    <3>2. QED
      BY <2>1, <2>2, <3>1
  <2>4. CASE ~(Len(buffer) < BufferLimit)
    <3>1. buffer # <<>> /\ buffer' = Append(Tail(buffer), m)
      <4>1. Len(buffer) # 0
        BY <2>2, <2>4, Members
      <4>2. QED
        BY <2>1, <2>4, <4>1
    <3>2. Tail(buffer) \in Seq(AllData)
      BY <2>2, <3>1, TailSet
    <3>3. QED
      BY <2>1, <3>1, <3>2
  <2>5. QED
    BY <2>3, <2>4
<1>3. QED
  BY <1>1, <1>2

\* A fresh message is nowhere yet.
LEMMA FreshFacts ==
  ASSUME TypeOK, ProducedInv, NEW m \in AllData, Sends(m)
  PROVE  /\ m \notin UnderWay /\ \A p \in Proc : m \notin ToSet(heard[p])
         /\ \A p \in Proc : \A x \in ToSet(heard[p]) \cup UnderWay : x.of = m.of => Before(x, m)
<1>1. m.of \in Proc
  BY DataAre
<1>2. \A p \in Proc : \A x \in ToSet(heard[p]) : x.of = p
  <2>1. \A p \in Proc : \A x \in Data(p) : x.of = p
    BY Kinds, DaemonLinkAssumption DEF Data
  <2>2. QED
    BY <2>1 DEF TypeOK
<1>3. \A p \in Proc : \A x \in ToSet(heard[p]) \cup UnderWay : x.of = m.of => x \in Produced(m.of)
  BY <1>1, <1>2 DEF ProducedInv
<1>4. QED
  BY <1>1, <1>3 DEF Sends, Fresh

LEMMA OnceStep ==
  TypeOK /\ PlaceInv /\ StartInv /\ ProducedInv /\ OnceInv /\ [Next]_vars => OnceInv'
<1> SUFFICES ASSUME TypeOK, PlaceInv, StartInv, ProducedInv, OnceInv, [Next]_vars PROVE OnceInv'
  OBVIOUS
<1>1. /\ up \in Seq(AllData) /\ buffer \in Seq(AllData) /\ heard \in [Proc -> Seq(AllData)]
      /\ UnderWay = ToSet(buffer) \cup ToSet(up)
  BY DEF PlaceInv, UnderWay
<1>2. /\ DistinctIn(up, AllData) /\ DistinctIn(buffer, AllData) /\ ToSet(up) \cap ToSet(buffer) = {}
      /\ \A p \in Proc : DistinctIn(heard[p], AllData) /\ ToSet(heard[p]) \cap UnderWay = {}
  BY DEF OnceInv
<1>4. ASSUME NEW m \in AllData, Sends(m) PROVE OnceInv'
  <2>1. heard' = heard /\ SendToServer(m) /\ m \notin UnderWay /\ \A p \in Proc : m \notin ToSet(heard[p])
    BY <1>4, FreshFacts DEF Sends
  <2>2. CASE UNCHANGED buffer /\ up' = up
    BY <1>1, <1>2, <2>1, <2>2 DEF OnceInv, UnderWay
  <2>3. CASE UNCHANGED buffer /\ up' = Append(up, m)
    <3>1. ToSet(up') = ToSet(up) \cup {m} /\ DistinctIn(up', AllData)
      BY <1>1, <1>2, <2>1, <2>3, AppendSet, DistinctAppend
    <3>2. QED
      BY <1>1, <1>2, <2>1, <2>3, <3>1 DEF OnceInv, UnderWay
  <2>4. ASSUME up' = up, NEW rest \in Seq(AllData), rest = buffer \/ (buffer # <<>> /\ rest = Tail(buffer)),
               buffer' = Append(rest, m)
        PROVE  OnceInv'
    <3>1. ToSet(rest) \subseteq ToSet(buffer) /\ DistinctIn(rest, AllData)
      <4>1. CASE rest = buffer
        BY <1>2, <4>1
      <4>2. CASE buffer # <<>> /\ rest = Tail(buffer)
        BY <1>1, <1>2, <4>2, TailSet, DistinctTail
      <4>3. QED
        BY <2>4, <4>1, <4>2
    <3>2. m \notin ToSet(rest)
      BY <1>1, <2>1, <3>1
    <3>3. ToSet(buffer') = ToSet(rest) \cup {m} /\ DistinctIn(buffer', AllData)
      BY <2>4, <3>1, <3>2, AppendSet, DistinctAppend
    <3>4. QED
      BY <1>1, <1>2, <2>1, <2>4, <3>1, <3>3 DEF OnceInv, UnderWay
  <2>5. QED
    BY <2>1, <2>2, <2>3, <2>4, SendShape
<1>5. CASE Moves
  <2>1. CASE UNCHANGED <<up, buffer, heard>>
    BY <1>1, <1>2, <2>1 DEF OnceInv, UnderWay
  <2>2. CASE up' = <<>> /\ UNCHANGED <<buffer, heard>>
    BY <1>1, <1>2, <2>2, EmptySet, EmptyFacts DEF OnceInv, UnderWay
  <2>3. CASE buffer' = <<>> /\ UNCHANGED <<up, heard>>
    BY <1>1, <1>2, <2>3, EmptySet, EmptyFacts DEF OnceInv, UnderWay
  <2>4. CASE buffer' = <<>> /\ up' = up \o buffer /\ UNCHANGED heard
    <3>1. ToSet(up') = ToSet(up) \cup ToSet(buffer) /\ DistinctIn(up', AllData)
      BY <1>1, <1>2, <2>4, ConcatSet, DistinctConcat
    <3>2. QED
      BY <1>1, <1>2, <2>4, <3>1, EmptySet, EmptyFacts DEF OnceInv, UnderWay
  <2>5. CASE up # <<>> /\ up' = Tail(up) /\ UNCHANGED buffer
    <3> DEFINE m == Head(up)
    <3>1. /\ ToSet(up) = ToSet(up') \cup {m} /\ m \in AllData /\ m.of \in Proc
          /\ DistinctIn(up', AllData) /\ m \notin ToSet(up')
      BY <1>1, <1>2, <2>5, TailSet, DistinctTail, DataAre
    <3>2. CASE UNCHANGED heard
      BY <1>1, <1>2, <2>5, <3>1, <3>2 DEF OnceInv, UnderWay
    <3>3. CASE heard' = [heard EXCEPT ![m.of] = Append(@, m)]
      <4>1. m \notin ToSet(heard[m.of]) /\ m \notin ToSet(buffer)
        BY <1>1, <1>2, <3>1
      <4>2. /\ ToSet(Append(heard[m.of], m)) = ToSet(heard[m.of]) \cup {m}
            /\ DistinctIn(Append(heard[m.of], m), AllData)
        BY <1>1, <1>2, <3>1, <4>1, AppendSet, DistinctAppend
      <4>3. \A p \in Proc : /\ DistinctIn(heard'[p], AllData)
                            /\ ToSet(heard'[p]) \subseteq ToSet(heard[p]) \cup {m}
        BY <1>1, <1>2, <3>1, <3>3, <4>2
      <4>4. QED
        BY <1>1, <1>2, <2>5, <3>1, <4>1, <4>3 DEF OnceInv, UnderWay
    <3>4. QED
      BY <1>5, <3>2, <3>3, <2>1, <2>2, <2>3, <2>4 DEF Moves
  <2>6. QED
    BY <1>5, <2>1, <2>2, <2>3, <2>4, <2>5 DEF Moves
<1>6. QED
  BY <1>4, <1>5, Flow

LEMMA OrderStep ==
  TypeOK /\ PlaceInv /\ StartInv /\ ProducedInv /\ OrderInv /\ [Next]_vars => OrderInv'
<1> SUFFICES ASSUME TypeOK, PlaceInv, StartInv, ProducedInv, OrderInv, [Next]_vars,
                    NEW p \in Proc, p \notin overtook'
             PROVE  /\ Ordered(heard'[p], p) /\ Ordered(up', p) /\ Ordered(buffer', p)
                    /\ Precede(ToSet(heard'[p]), ToSet(buffer') \cup ToSet(up'), p)
                    /\ Precede(ToSet(up'), ToSet(buffer'), p)
  BY DEF OrderInv, UnderWay
<1>1. /\ up \in Seq(AllData) /\ buffer \in Seq(AllData) /\ heard \in [Proc -> Seq(AllData)]
      /\ UnderWay = ToSet(buffer) \cup ToSet(up)
  BY DEF PlaceInv, UnderWay
<1>2. p \notin overtook
  <2>1. \A m \in AllData : Sends(m) => overtook \subseteq overtook'
    BY SendFacts DEF Sends
  <2>2. Moves => overtook' = overtook
    BY DEF Moves
  <2>3. QED
    BY <2>1, <2>2, Flow
<1>3. /\ Ordered(heard[p], p) /\ Ordered(up, p) /\ Ordered(buffer, p)
      /\ Precede(ToSet(heard[p]), ToSet(buffer) \cup ToSet(up), p)
      /\ Precede(ToSet(up), ToSet(buffer), p)
  BY <1>1, <1>2 DEF OrderInv
<1> DEFINE Goal == /\ Ordered(heard'[p], p) /\ Ordered(up', p) /\ Ordered(buffer', p)
                   /\ Precede(ToSet(heard'[p]), ToSet(buffer') \cup ToSet(up'), p)
                   /\ Precede(ToSet(up'), ToSet(buffer'), p)
<1>4. ASSUME NEW m \in AllData, Sends(m) PROVE Goal
  <2>1. heard' = heard /\ SendToServer(m)
    BY <1>4 DEF Sends
  <2>2. Precede(ToSet(heard[p]) \cup UnderWay, {m}, p)
    BY <1>4, FreshFacts DEF Precede
  <2>3. CASE UNCHANGED buffer /\ up' = up
    BY <1>3, <2>1, <2>3
  <2>4. CASE /\ UNCHANGED buffer /\ up' = Append(up, m)
             /\ m.of \in overtook' \/ \A b \in ToSet(buffer) : b.of # m.of
    <3>1. Precede(ToSet(up), {m}, p)
      BY <1>1, <2>2 DEF Precede
    <3>2. ToSet(up') = ToSet(up) \cup {m} /\ Ordered(up', p)
      BY <1>1, <1>3, <2>4, <3>1, AppendSet, OrderedAppend
    <3>3. Precede({m}, ToSet(buffer), p)
      BY <2>4 DEF Precede
    <3>4. Precede(ToSet(heard[p]), ToSet(buffer) \cup ToSet(up'), p)
      BY <1>3, <2>2, <3>2 DEF Precede
    <3>5. Precede(ToSet(up'), ToSet(buffer), p)
      BY <1>3, <3>2, <3>3 DEF Precede
    <3>6. QED
      BY <1>3, <2>1, <2>4, <3>2, <3>4, <3>5
  <2>5. ASSUME up' = up, NEW rest \in Seq(AllData), rest = buffer \/ (buffer # <<>> /\ rest = Tail(buffer)),
               buffer' = Append(rest, m)
        PROVE  Goal
    <3>1. ToSet(rest) \subseteq ToSet(buffer) /\ Ordered(rest, p)
      <4>1. CASE rest = buffer
        BY <1>3, <4>1
      <4>2. CASE buffer # <<>> /\ rest = Tail(buffer)
        BY <1>1, <1>3, <4>2, TailSet, OrderedTail
      <4>3. QED
        BY <2>5, <4>1, <4>2
    <3>2. Precede(ToSet(rest), {m}, p)
      BY <1>1, <2>2, <3>1 DEF Precede
    <3>3. ToSet(buffer') = ToSet(rest) \cup {m} /\ Ordered(buffer', p)
      BY <2>5, <3>1, <3>2, AppendSet, OrderedAppend
    <3>4. Precede(ToSet(heard[p]), ToSet(buffer') \cup ToSet(up), p)
      BY <1>3, <2>2, <3>1, <3>3 DEF Precede
    <3>5. Precede(ToSet(up), ToSet(buffer'), p)
      BY <1>1, <1>3, <2>2, <3>1, <3>3 DEF Precede
    <3>6. QED
      BY <1>3, <2>1, <2>5, <3>3, <3>4, <3>5
  <2>6. QED
    BY <2>1, <2>3, <2>4, <2>5, SendShape
<1>5. CASE Moves
  <2>1. CASE UNCHANGED <<up, buffer, heard>>
    BY <1>3, <2>1
  <2>2. CASE up' = <<>> /\ UNCHANGED <<buffer, heard>>
    BY <1>3, <2>2, EmptySet, EmptyFacts DEF Precede
  <2>3. CASE buffer' = <<>> /\ UNCHANGED <<up, heard>>
    BY <1>3, <2>3, EmptySet, EmptyFacts DEF Precede
  <2>4. CASE buffer' = <<>> /\ up' = up \o buffer /\ UNCHANGED heard
    <3>1. ToSet(up') = ToSet(up) \cup ToSet(buffer) /\ Ordered(up', p)
      BY <1>1, <1>3, <2>4, ConcatSet, OrderedConcat
    <3>2. QED
      BY <1>3, <2>4, <3>1, EmptySet, EmptyFacts DEF Precede
  <2>5. CASE up # <<>> /\ up' = Tail(up) /\ UNCHANGED buffer
    <3> DEFINE m == Head(up)
    <3>1. /\ ToSet(up) = ToSet(up') \cup {m} /\ m \in AllData /\ m.of \in Proc
          /\ Ordered(up', p) /\ Precede({m}, ToSet(up'), p)
      BY <1>1, <1>3, <2>5, TailSet, OrderedTail, DataAre
    <3>2. CASE heard'[p] = heard[p]
      BY <1>3, <2>5, <3>1, <3>2 DEF Precede
    <3>3. CASE heard'[p] = Append(heard[p], m)
      <4>1. Precede(ToSet(heard[p]), {m}, p)
        BY <1>3, <3>1 DEF Precede
      <4>2. ToSet(heard'[p]) = ToSet(heard[p]) \cup {m} /\ Ordered(heard'[p], p)
        <5> DEFINE h == heard[p]
        <5>1. h \in Seq(AllData) /\ Ordered(h, p) /\ Precede(ToSet(h), {m}, p)
          BY <1>1, <1>3, <4>1
        <5> HIDE DEF h
        <5>2. ToSet(Append(h, m)) = ToSet(h) \cup {m} /\ Ordered(Append(h, m), p)
          BY <3>1, <5>1, AppendSet, OrderedAppend
        <5>3. QED
          BY <3>3, <5>2 DEF h
      <4>3. QED
        BY <1>3, <2>5, <3>1, <4>2 DEF Precede
    <3>4. CASE heard' = [heard EXCEPT ![m.of] = Append(@, m)]
      BY <1>1, <3>2, <3>3, <3>4
    <3>5. QED
      BY <1>5, <3>2, <3>4, <2>1, <2>2, <2>3, <2>4 DEF Moves
  <2>6. QED
    BY <1>5, <2>1, <2>2, <2>3, <2>4, <2>5 DEF Moves
<1>6. QED
  BY <1>4, <1>5, Flow

--------------------------------------------------------------------------------
(***************************************************************************)
(* The theorems                                                            *)
(***************************************************************************)

LEMMA InvInit == Init => Inv
<1> SUFFICES ASSUME Init PROVE Inv
  OBVIOUS
<1> USE DEF Init
<1>1. ToSet(<<>>) = {}
  BY EmptySet
<1>2. TypeOK /\ PlaceInv
  <2>1. Len(<<>>) = 0 /\ <<>> \in Seq(AllData) /\ <<>> \in Seq(Orders)
    BY EmptySeq
  <2>2. BufferLimit \in Nat /\ 0 \in 0..MaxConns /\ 0 \in 0..MaxStops /\ 0 \in 0..MaxOut
    BY DaemonLinkAssumption
  <2>3. PlaceInv
    BY <2>1 DEF PlaceInv
  <2>4. TypeOK
    <3>1. \A p \in Proc : ToSet(heard[p]) = {}
      BY <1>1
    <3>2. ToSet(up) \cup ToSet(down) \cup ToSet(buffer) \cup lost = {} /\ Len(buffer) <= BufferLimit
      BY <1>1, <2>1, <2>2
    <3>3. /\ child \in [Proc -> Live \cup Ended \cup {"none", "dead"}]
          /\ out \in [Proc -> 0..MaxOut] /\ late \in [Proc -> 0..MaxOut]
      BY <2>2
    <3>4. entry \in [Proc -> {"none", "open", "gone", "lost"}]
      OBVIOUS
    <3>5. QED
      BY <2>2, <3>1, <3>2, <3>3, <3>4 DEF TypeOK
  <2>5. QED
    BY <2>3, <2>4
<1>3. ReadyInv /\ StartInv /\ TraceInv
  BY <1>1, EmptyFacts DEF ReadyInv, StartInv, TraceInv
<1>4. Accounted
  <2>1. \A p \in Proc : Produced(p) = {}
    BY DEF Produced, Ended
  <2>2. QED
    BY <2>1 DEF Accounted
<1>5. ProducedInv /\ OnceInv /\ OrderInv
  BY <1>1, EmptyFacts DEF ProducedInv, OnceInv, OrderInv, UnderWay, Precede
<1>6. QED
  BY <1>2, <1>3, <1>4, <1>5 DEF Inv

LEMMA InvStep == Inv /\ [Next]_vars => Inv'
  BY TypeStep, ReadyStep, StartStep, TraceStep, AccountedStep, ProducedStep, OnceStep, OrderStep DEF Inv

\* The inductive invariant of the link holds in every state.
THEOREM InvCorrect == Spec => []Inv
  BY InvInit, InvStep, PTL DEF Spec

\* The types, and how the two ends agree.
THEOREM TypeCorrect == Spec => []TypeOK
<1>1. Inv => TypeOK
  BY DEF Inv
<1>2. QED
  BY <1>1, InvCorrect, PTL

\* Nothing a child has produced is dropped silently, whatever breaks: it is
\* heard, waits, is under way or was lost at a place the code gives up on it.
THEOREM AccountedCorrect == Spec => []Accounted
<1>1. Inv => Accounted
  BY DEF Inv
<1>2. QED
  BY <1>1, InvCorrect, PTL

\* A message is heard once at most, and in order unless one overtook the buffer.
THEOREM HeardCorrect == Spec => []HeardOnceInOrder
<1>1. Inv => HeardOnceInOrder
  <2>1. SUFFICES ASSUME Inv, NEW p \in Proc, NEW i \in 1..Len(heard[p]), NEW j \in 1..Len(heard[p]), i < j
                 PROVE  /\ heard[p][i] # heard[p][j]
                        /\ p \in overtook \/ Before(heard[p][i], heard[p][j])
    BY DEF HeardOnceInOrder
  <2> DEFINE h == heard[p]
  <2>2. /\ DOMAIN h = 1..Len(h) /\ Len(h) \in Nat /\ h[i] \in AllData /\ h[j] \in AllData
        /\ h[i] \in ToSet(h) /\ h[j] \in ToSet(h)
    <3>1. h \in Seq(AllData)
      BY <2>1 DEF Inv, PlaceInv
    <3> HIDE DEF h
    <3>2. i \in 1..Len(h) /\ j \in 1..Len(h)
      BY <2>1 DEF h
    <3>3. QED
      BY <3>1, <3>2, Members
  <2>3. h[i] # h[j]
    BY <2>1, <2>2 DEF Inv, OnceInv, DistinctIn
  <2>4. h[i] \in Data(p) /\ h[j] \in Data(p)
    BY <2>1, <2>2 DEF Inv, TypeOK
  <2>5. h[i].of = p /\ h[j].of = p
    BY <2>4, Kinds, DaemonLinkAssumption DEF Data
  <2>6. ASSUME p \notin overtook PROVE Before(h[i], h[j])
    BY <2>1, <2>2, <2>5, <2>6 DEF Inv, OrderInv, Ordered
  <2>7. QED
    BY <2>3, <2>6
<1>2. QED
  BY <1>1, InvCorrect, PTL

\* An open entry of the registry has a process that is to start, runs or has an
\* end still to be heard, or is one of the named ways to keep it for nothing.
THEOREM EntryCorrect == Spec => []EntryIsLive
<1>1. Inv => EntryIsLive
  <2>1. SUFFICES ASSUME Inv, NEW p \in Proc, entry[p] = "open"
                 PROVE  \/ Start(p) \in ToSet(down) \/ child[p] \in Live \/ End(p) \in UnderWay
                        \/ p \in phantom \/ {Start(p), End(p)} \cap (lost \cup ToSet(heard[p])) # {}
                        \/ child[p] = "dead"
    BY DEF EntryIsLive
  <2>2. CASE child[p] = "none"
    BY <2>1, <2>2 DEF Inv, TraceInv
  <2>3. CASE child[p] \in Ended
    <3>1. End(p) \in Produced(p)
      BY <2>3 DEF Produced
    <3>2. End(p) \in ToSet(heard[p]) \cup UnderWay \cup lost
      BY <2>1, <3>1 DEF Inv, Accounted
    <3>3. QED
      BY <3>2
  <2>4. child[p] \in Live \cup Ended \cup {"none", "dead"}
    BY <2>1 DEF Inv, TypeOK
  <2>5. QED
    BY <2>2, <2>3, <2>4
<1>2. QED
  BY <1>1, InvCorrect, PTL
================================================================================
