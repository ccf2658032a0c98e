--------------------------- MODULE SendPathProofs ---------------------------
(***************************************************************************)
(* Proofs about reliable sending: on any network, with any round trips,    *)
(* queue bound and timing of the threads, no packet is forgotten and none  *)
(* is sent more than twice; and with a single client what counts as        *)
(* acknowledged has reached the relay.                                     *)
(***************************************************************************)
EXTENDS SendPath, FiniteSetTheorems, SequenceTheorems, TLAPS

-----------------------------------------------------------------------------
(* Sequences *)

LEMMA CountType ==
  ASSUME NEW S, NEW s \in Seq(S), NEW n
  PROVE  /\ IsFiniteSet({i \in DOMAIN s : s[i] = n})
         /\ Count(s, n) \in Nat
<1>1. DOMAIN s = 1 .. Len(s) /\ Len(s) \in Nat
  OBVIOUS
<1>2. IsFiniteSet(1 .. Len(s))
  BY <1>1, FS_Interval
<1>3. {i \in DOMAIN s : s[i] = n} \in SUBSET (1 .. Len(s))
  BY <1>1
<1>4. IsFiniteSet({i \in DOMAIN s : s[i] = n})
  BY <1>2, <1>3, FS_Subset
<1> QED
  BY <1>4, FS_CardinalityType DEF Count

LEMMA CountConcat ==
  ASSUME NEW S, NEW s \in Seq(S), NEW t \in Seq(S), NEW n
  PROVE  Count(s \o t, n) = Count(s, n) + Count(t, n)
<1> DEFINE A == {i \in DOMAIN s : s[i] = n}
           B == {i \in DOMAIN t : t[i] = n}
           C == {Len(s) + i : i \in B}
           f == [i \in B |-> Len(s) + i]
<1>1. /\ DOMAIN s = 1 .. Len(s) /\ Len(s) \in Nat
      /\ DOMAIN t = 1 .. Len(t) /\ Len(t) \in Nat
      /\ DOMAIN (s \o t) = 1 .. Len(s) + Len(t)
      /\ \A i \in 1 .. Len(s) + Len(t) :
            (s \o t)[i] = IF i <= Len(s) THEN s[i] ELSE t[i - Len(s)]
  OBVIOUS
<1>2. {i \in DOMAIN (s \o t) : (s \o t)[i] = n} = A \cup C
  <2>1. ASSUME NEW i \in 1 .. Len(s) + Len(t), (s \o t)[i] = n
        PROVE  i \in A \cup C
    <3>1. CASE i <= Len(s)
      BY <1>1, <2>1, <3>1
    <3>2. CASE i > Len(s)
      <4>1. i - Len(s) \in B /\ Len(s) + (i - Len(s)) = i
        BY <1>1, <2>1, <3>2
      <4> QED
        BY <4>1
    <3> QED
      BY <1>1, <3>1, <3>2
  <2>2. ASSUME NEW i \in A
        PROVE  i \in 1 .. Len(s) + Len(t) /\ (s \o t)[i] = n
    BY <1>1
  <2>3. ASSUME NEW i \in B
        PROVE  Len(s) + i \in 1 .. Len(s) + Len(t) /\ (s \o t)[Len(s) + i] = n
    BY <1>1
  <2> QED
    BY <1>1, <2>1, <2>2, <2>3
<1>3. A \cap C = {}
  BY <1>1
<1>4. f \in Bijection(B, C)
  <2>1. B \subseteq Nat
    BY <1>1
  <2> QED
    BY <1>1, <2>1 DEF Bijection, Injection, Surjection, IsInjective
<1>5. IsFiniteSet(A) /\ IsFiniteSet(B)
  BY CountType
<1>6. IsFiniteSet(C) /\ Cardinality(C) = Cardinality(B)
  <2>1. ExistsBijection(B, C)
    BY <1>4 DEF ExistsBijection
  <2> HIDE DEF B, C
  <2> QED
    BY <1>5, <2>1, FS_Bijection
<1>7. Cardinality(A \cup C) = Cardinality(A) + Cardinality(C)
  <2> HIDE DEF A, C
  <2>1. Cardinality({}) = 0 /\ Cardinality(A) \in Nat /\ Cardinality(C) \in Nat
    BY <1>5, <1>6, FS_EmptySet, FS_CardinalityType
  <2>2. Cardinality(A \cup C) = Cardinality(A) + Cardinality(C) - Cardinality(A \cap C)
    BY <1>5, <1>6, FS_Union
  <2>3. Cardinality(A \cap C) = 0
    BY <1>3, <2>1, Zenon
  <2> QED
    BY <2>1, <2>2, <2>3
<1> QED
  BY <1>2, <1>6, <1>7 DEF Count

LEMMA CountOne ==
  ASSUME NEW x, NEW n
  PROVE  Count(<<x>>, n) = IF x = n THEN 1 ELSE 0
<1>1. DOMAIN <<x>> = {1} /\ <<x>>[1] = x
  OBVIOUS
<1>2. CASE x = n
  <2>1. {i \in DOMAIN <<x>> : <<x>>[i] = n} = {1}
    BY <1>1, <1>2
  <2> QED
    BY <1>2, <2>1, FS_Singleton DEF Count
<1>3. CASE x # n
  <2>1. {i \in DOMAIN <<x>> : <<x>>[i] = n} = {}
    BY <1>1, <1>3
  <2> QED
    BY <1>3, <2>1, FS_EmptySet DEF Count
<1> QED
  BY <1>2, <1>3

LEMMA CountAppend ==
  ASSUME NEW S, NEW s \in Seq(S), NEW x \in S, NEW n
  PROVE  Count(Append(s, x), n) = Count(s, n) + (IF x = n THEN 1 ELSE 0)
<1>1. Append(s, x) = s \o <<x>> /\ <<x>> \in Seq(S)
  BY AppendIsConcat
<1>2. Count(s \o <<x>>, n) = Count(s, n) + Count(<<x>>, n)
  BY <1>1, CountConcat
<1> QED
  BY <1>1, <1>2, CountOne

LEMMA CountTail ==
  ASSUME NEW S, NEW s \in Seq(S), s # <<>>, NEW n
  PROVE  Count(s, n) = Count(Tail(s), n) + (IF Head(s) = n THEN 1 ELSE 0)
<1>1. Len(s) \in Nat \ {0}
  BY EmptySeq
<1>2. /\ Tail(s) \in Seq(S) /\ <<Head(s)>> \in Seq(S)
      /\ Head(s) = s[1] /\ Tail(s) = SubSeq(s, 2, Len(s))
  BY <1>1, HeadTailProperties, TailIsSubSeq
<1>3. SubSeq(s, 1, Len(s)) = <<s[1]>> \o SubSeq(s, 1 + 1, Len(s))
  <2>1. 1 \in 1 .. Len(s) /\ Len(s) \in 1 .. Len(s)
    BY <1>1
  <2> QED
    BY <2>1, SubSeqRecursiveFirst
<1>4. s = <<Head(s)>> \o Tail(s)
  BY <1>2, <1>3, SubSeqFull
<1>5. Count(<<Head(s)>> \o Tail(s), n) = Count(<<Head(s)>>, n) + Count(Tail(s), n)
  BY <1>2, CountConcat
<1>6. Count(Tail(s), n) \in Nat
  BY <1>2, CountType
<1>7. Count(s, n) = Count(<<Head(s)>> \o Tail(s), n)
  BY <1>4, Zenon
<1>8. Count(<<Head(s)>>, n) = IF Head(s) = n THEN 1 ELSE 0
  BY CountOne
<1> QED
  BY <1>5, <1>6, <1>7, <1>8

\* A queue is cut in two.
LEMMA CountCut ==
  ASSUME NEW S, NEW s \in Seq(S), NEW n
  PROVE  /\ Oldest(s) \in Seq(S) /\ Newest(s) \in Seq(S)
         /\ Count(s, n) = Count(Oldest(s), n) + Count(Newest(s), n)
         /\ \A i \in DOMAIN Newest(s) : \E j \in DOMAIN s : Newest(s)[i] = s[j]
<1>1. Len(s) \in Nat /\ MaxQueue \in Nat \ {0} /\ \A i \in 1 .. Len(s) : s[i] \in S
  BY SendPathAssumption
<1>2. CASE Len(s) <= MaxQueue
  <2>1. Oldest(s) = <<>>
    BY <1>1, <1>2, SubSeqEmpty DEF Oldest
  <2>2. Newest(s) = s
    <3>1. Later(1, (Len(s) - MaxQueue) + 1) = 1
      BY <1>1, <1>2 DEF Later
    <3> QED
      BY <3>1, SubSeqFull DEF Newest
  <2>3. Count(<<>>, n) = 0
    <3>1. {i \in DOMAIN <<>> : <<>>[i] = n} = {}
      OBVIOUS
    <3> QED
      BY <3>1, FS_EmptySet DEF Count
  <2>4. Count(s, n) \in Nat
    BY CountType
  <2> QED
    BY <2>1, <2>2, <2>3, <2>4
<1>3. CASE Len(s) > MaxQueue
  <2> DEFINE k == Len(s) - MaxQueue
  <2>1. k \in 1 .. Len(s) /\ Later(1, k + 1) = k + 1
    BY <1>1, <1>3 DEF Later
  <2>2. Oldest(s) = SubSeq(s, 1, k) /\ Newest(s) = SubSeq(s, k + 1, Len(s))
    BY <2>1 DEF Oldest, Newest
  <2> HIDE DEF k
  <2>3. SubSeq(s, 1, k) \o SubSeq(s, k + 1, Len(s)) = s
    <3>1. /\ 1 \in 1 .. Len(s) + 1 /\ k \in 1 - 1 .. Len(s) /\ Len(s) \in k .. Len(s)
      BY <1>1, <2>1
    <3> QED
      BY <3>1, ConcatAdjacentSubSeq, SubSeqFull
  <2>4. SubSeq(s, 1, k) \in Seq(S)
    BY <1>1, <2>1, SubSeqProperties
  <2>5. /\ SubSeq(s, k + 1, Len(s)) \in Seq(S)
        /\ \A i \in 1 .. Len(s) - (k + 1) + 1 :
              SubSeq(s, k + 1, Len(s))[i] = s[k + 1 + i - 1]
        /\ Len(SubSeq(s, k + 1, Len(s))) =
              IF k + 1 <= Len(s) THEN Len(s) - (k + 1) + 1 ELSE 0
    <3>1. k + 1 \in Int /\ Len(s) \in Int /\ \A i \in k + 1 .. Len(s) : s[i] \in S
      BY <1>1, <2>1
    <3> QED
      BY <3>1, SubSeqProperties
  <2>6. \A i \in DOMAIN Newest(s) : k + 1 + i - 1 \in DOMAIN s /\ Newest(s)[i] = s[k + 1 + i - 1]
    BY <1>1, <2>1, <2>2, <2>5
  <2>7. Count(Oldest(s) \o Newest(s), n) = Count(Oldest(s), n) + Count(Newest(s), n)
    <3>1. Oldest(s) \in Seq(S) /\ Newest(s) \in Seq(S)
      BY <2>2, <2>4, <2>5
    <3> QED
      BY <3>1, CountConcat
  <2> QED
    BY <2>2, <2>3, <2>4, <2>5, <2>6, <2>7
<1> QED
  BY <1>1, <1>2, <1>3

\* The rank of each member of a finite set is another, so that they can be put in order.
LEMMA InOrderLists ==
  ASSUME NEW S \in SUBSET Nat, IsFiniteSet(S)
  PROVE  /\ Cardinality(S) \in Nat
         /\ InOrder(S) \in [1 .. Cardinality(S) -> S]
         /\ \A i, j \in 1 .. Cardinality(S) : i < j => InOrder(S)[i] < InOrder(S)[j]
         /\ \A x \in S : \E i \in 1 .. Cardinality(S) : InOrder(S)[i] = x
<1> DEFINE below(x) == {y \in S : y <= x}
           rank == [x \in S |-> Cardinality(below(x))]
           D == 1 .. Cardinality(S)
           isOrder(s) == \A i, j \in DOMAIN s : i < j => s[i] < s[j]
<1>1. S \subseteq Nat
  OBVIOUS
<1>2. IsFiniteSet(S) /\ Cardinality(S) \in Nat
  BY FS_CardinalityType
<1>3. \A x \in S : /\ IsFiniteSet(below(x)) /\ below(x) \in SUBSET S
                   /\ Cardinality(below(x)) \in Nat
                   /\ Cardinality(below(x)) <= Cardinality(S)
  BY <1>2, FS_Subset, FS_CardinalityType
<1>4. ASSUME NEW x \in S, NEW y \in S, x < y
      PROVE  Cardinality(below(x)) < Cardinality(below(y))
  <2>1. below(x) \in SUBSET (below(y) \ {y}) /\ y \in below(y)
    <3>1. x \in Nat /\ y \in Nat /\ S \subseteq Nat
      BY <1>1
    <3>2. \A z \in Nat : z <= x => z <= y /\ z # y
      BY <1>4, <3>1
    <3>3. \A z \in below(x) : z \in below(y) /\ z # y
      BY <3>1, <3>2
    <3>4. y \in below(y)
      BY <3>1
    <3> HIDE DEF below
    <3> QED
      BY <3>3, <3>4
  <2>2. IsFiniteSet(below(y) \ {y}) /\
        Cardinality(below(y) \ {y}) = Cardinality(below(y)) - 1
    BY <1>3, <2>1, FS_RemoveElement
  <2>3. Cardinality(below(x)) <= Cardinality(below(y) \ {y})
    BY <2>1, <2>2, FS_Subset
  <2> HIDE DEF below
  <2> QED
    BY <1>3, <2>2, <2>3
<1>5. \A x \in S : Cardinality(below(x)) \in D
  <2> SUFFICES ASSUME NEW x \in S
               PROVE  Cardinality(below(x)) # 0
    BY <1>2, <1>3
  <2>1. x \in below(x)
    BY <1>1
  <2> HIDE DEF below
  <2> QED
    BY <1>3, <2>1, FS_EmptySet
<1>6. rank \in Injection(S, D)
  <2> HIDE DEF below
  <2>1. rank \in [S -> D]
    BY <1>5
  <2>2. \A x, y \in S : rank[x] = rank[y] => x = y
    BY <1>1, <1>3, <1>4
  <2> QED
    BY <2>1, <2>2 DEF Injection, IsInjective
<1>7. rank \in Surjection(S, D)
  <2>1. IsFiniteSet(D) /\ Cardinality(D) = Cardinality(S)
    BY <1>2, FS_Interval
  <2> HIDE DEF rank, D
  <2> QED
    BY <1>6, <2>1, FS_Injection
<1>8. \A i \in D : \E x \in S : Cardinality(below(x)) = i
  BY <1>7 DEF Surjection
<1>9. \E s \in [D -> S] : isOrder(s)
  <2> DEFINE s == [i \in D |-> CHOOSE x \in S : Cardinality(below(x)) = i]
  <2>1. \A i \in D : s[i] \in S /\ Cardinality(below(s[i])) = i
    BY <1>8
  <2>2. s \in [D -> S]
    BY <2>1
  <2> HIDE DEF below, s
  <2>3. ASSUME NEW i \in D, NEW j \in D, i < j
        PROVE  s[i] < s[j]
    <3>1. CASE s[j] < s[i]
      <4>1. Cardinality(below(s[j])) < Cardinality(below(s[i]))
        BY <1>4, <2>1, <3>1
      <4>2. j < i
        BY <2>1, <4>1
      <4>3. i \in Nat /\ j \in Nat
        BY <1>2
      <4> QED
        BY <2>3, <4>2, <4>3
    <3>2. CASE s[j] = s[i]
      BY <1>2, <2>1, <2>3, <3>2
    <3>3. s[i] \in Nat /\ s[j] \in Nat
      BY <1>1, <2>1
    <3> QED
      BY <3>1, <3>2, <3>3
  <2>4. DOMAIN s = D
    BY <2>2
  <2> QED
    BY <2>2, <2>3, <2>4
<1> DEFINE q == InOrder(S)
<1>10. q \in [D -> S] /\ isOrder(q)
  <2>1. q = CHOOSE s \in [D -> S] : isOrder(s)
    BY DEF InOrder
  <2> HIDE DEF q, isOrder, D
  <2> QED
    BY <1>9, <2>1
<1> HIDE DEF q
<1>11. DOMAIN q = D
  BY <1>10
<1>12. \A i \in D : q[i] \in S
  BY <1>10
<1>13. \A i, j \in D : q[i] = q[j] => i = j
  <2> SUFFICES ASSUME NEW i \in D, NEW j \in D, i # j
               PROVE  q[i] # q[j]
    OBVIOUS
  <2>1. q[i] \in Nat /\ q[j] \in Nat /\ i \in Nat /\ j \in Nat
    <3>1. q[i] \in S /\ q[j] \in S
      BY <1>12
    <3>2. D \subseteq Nat
      BY <1>2
    <3> HIDE DEF D
    <3> QED
      BY <1>1, <3>1, <3>2
  <2>2. i < j \/ j < i
    BY <2>1
  <2>3. q[i] < q[j] \/ q[j] < q[i]
    <3>1. i \in DOMAIN q /\ j \in DOMAIN q
      BY <1>11
    <3>2. \A k, l \in DOMAIN q : k < l => q[k] < q[l]
      BY <1>10
    <3> QED
      BY <2>2, <3>1, <3>2, Zenon
  <2> QED
    BY <2>1, <2>3
<1>14. \A x \in S : \E i \in D : q[i] = x
  <2>1. q \in Injection(D, S)
    BY <1>10, <1>13 DEF Injection, IsInjective
  <2>2. Cardinality(D) = Cardinality(S)
    BY <1>2, FS_Interval
  <2>3. q \in Surjection(D, S)
    BY <1>2, <2>1, <2>2, FS_Injection
  <2> QED
    BY <2>3 DEF Surjection
<1> QED
  BY <1>2, <1>10, <1>11, <1>14 DEF q

LEMMA InOrderCounts ==
  ASSUME NEW S \in SUBSET Names, NEW n
  PROVE  /\ InOrder(S) \in Seq(Names)
         /\ \A i \in DOMAIN InOrder(S) : InOrder(S)[i] \in S
         /\ Count(InOrder(S), n) = IF n \in S THEN 1 ELSE 0
<1> DEFINE q == InOrder(S)
           D == 1 .. Cardinality(S)
<1>1. S \in SUBSET Nat /\ IsFiniteSet(S)
  <2>1. Names \subseteq 0 .. Word - 1 /\ Word \in Nat
    BY SendPathAssumption
  <2>2. IsFiniteSet(0 .. Word - 1) /\ S \in SUBSET (0 .. Word - 1)
    BY <2>1, FS_Interval
  <2>3. S \in SUBSET Nat
    BY <2>2
  <2> QED
    BY <2>2, <2>3, FS_Subset
<1>2. /\ Cardinality(S) \in Nat /\ q \in [D -> S]
      /\ \A i, j \in D : i < j => q[i] < q[j]
      /\ \A x \in S : \E i \in D : q[i] = x
  BY <1>1, InOrderLists
<1> HIDE DEF q
<1>3. q \in Seq(Names) /\ DOMAIN q = D /\ \A i \in D : q[i] \in S
  BY <1>2
<1>4. \A i, j \in D : q[i] = q[j] => i = j
  <2> SUFFICES ASSUME NEW i \in D, NEW j \in D, i # j
               PROVE  q[i] # q[j]
    OBVIOUS
  <2>1. D \subseteq Nat /\ q[i] \in Nat /\ q[j] \in Nat
    <3>1. q[i] \in S /\ q[j] \in S /\ D \subseteq Nat
      BY <1>2, <1>3
    <3> QED
      BY <1>1, <3>1
  <2>2. i < j \/ j < i
    BY <2>1
  <2>3. q[i] < q[j] \/ q[j] < q[i]
    BY <1>2, <2>2
  <2> QED
    BY <2>1, <2>3
<1>5. Count(q, n) = IF n \in S THEN 1 ELSE 0
  <2>1. CASE n \in S
    <3>1. PICK i \in D : q[i] = n
      BY <1>2, <2>1
    <3>2. {j \in DOMAIN q : q[j] = n} = {i}
      BY <1>3, <1>4, <3>1
    <3> QED
      BY <2>1, <3>2, FS_Singleton DEF Count
  <2>2. CASE n \notin S
    <3>1. {j \in DOMAIN q : q[j] = n} = {}
      BY <1>3, <2>2
    <3> QED
      BY <2>2, <3>1, FS_EmptySet DEF Count
  <2> QED
    BY <2>1, <2>2
<1> QED
  BY <1>3, <1>5 DEF q

-----------------------------------------------------------------------------
(* What a client does to a packet *)

In(n, S) == IF n \in S THEN 1 ELSE 0

\* The copies of n a client r has queued, transmitted or lost to a full queue.
Total(r, n) ==
    In(n, {r.sending}) + Count(r.queue[Priority[n]], n)
    + Count(Sent(r.history), n) + r.dropped[n]

\* Every queue that is served holds the packets of its priority.
Placed(r) ==
    \A p \in 1 .. MaxPriority : \A i \in DOMAIN r.queue[p] : Priority[r.queue[p][i]] = p

Told(r, n) ==
    \E s \in DOMAIN r.history :
        r.history[s].name = n /\ r.history[s].status \in {"ack", "received"}

\* What became of n after k publications.
Accounted(r, k, n) ==
    /\ Total(r, n) + In(n, r.rtxList) <= 2 * k
    /\ n \in r.rtxList => Total(r, n) >= 1
    /\ k > 0 /\ n \notin r.rtxList => Told(r, n) \/ Total(r, n) >= 2

\* Whatever is accounted for in r still is in e.
KeepsAccounts(r, e) ==
    \A n \in Names, k \in Nat : Accounted(r, k, n) => Accounted(e, k, n)

\* The history of r2 continues that of r.
Continues(r, r2) ==
    /\ Len(r.history) <= Len(r2.history)
    /\ \A s \in 1 .. Len(r.history) : r2.history[s].name = r.history[s].name

LEMMA SentType ==
  ASSUME NEW h \in Seq([name : Names, status : Statuses])
  PROVE  Sent(h) \in Seq(Names) /\ Len(Sent(h)) = Len(h)
<1>1. Len(h) \in Nat /\ DOMAIN h = 1 .. Len(h)
  OBVIOUS
<1>2. \A i \in 1 .. Len(h) : h[i].name \in Names
  <2> SUFFICES ASSUME NEW i \in 1 .. Len(h)
               PROVE  h[i].name \in Names
    OBVIOUS
  <2>1. h[i] \in [name : Names, status : Statuses]
    BY ElementOfSeq
  <2> QED
    BY <2>1
<1>3. Sent(h) = [i \in 1 .. Len(h) |-> h[i].name]
  BY <1>1 DEF Sent
<1>4. Sent(h) \in [1 .. Len(h) -> Names]
  BY <1>2, <1>3
<1> QED
  BY <1>1, <1>4

\* What a total is made of.
LEMMA TotalType ==
  ASSUME NEW r \in Pipe, NEW n \in Names
  PROVE  /\ In(n, {r.sending}) \in Nat
         /\ Count(r.queue[Priority[n]], n) \in Nat
         /\ Sent(r.history) \in Seq(Names) /\ Len(Sent(r.history)) = Len(r.history)
         /\ Count(Sent(r.history), n) \in Nat
         /\ r.dropped[n] \in Nat
         /\ Total(r, n) \in Nat
<1>1. r.queue[Priority[n]] \in Seq(Names)
  BY SendPathAssumption DEF Pipe, Priorities
<1>2. Sent(r.history) \in Seq(Names) /\ Len(Sent(r.history)) = Len(r.history)
  <2>1. r.history \in Seq([name : Names, status : Statuses])
    BY DEF Pipe
  <2> QED
    BY <2>1, SentType
<1>3. r.dropped[n] \in Nat
  BY DEF Pipe
<1>4. In(n, {r.sending}) \in Nat
  BY DEF In
<1>5. Count(r.queue[Priority[n]], n) \in Nat /\ Count(Sent(r.history), n) \in Nat
  BY <1>1, <1>2, CountType
<1> QED
  BY <1>2, <1>3, <1>4, <1>5 DEF Total

\* PriorityPipe::send adds one copy of every name it is given, and none is lost
\* unseen.
LEMMA EnqueueAdds ==
  ASSUME NEW r \in Pipe, Placed(r), NEW S \in SUBSET Names,
         NEW e, e = Enqueue(r, S)
  PROVE  /\ e \in Pipe /\ Placed(e)
         /\ e.sending = r.sending /\ e.rtxList = r.rtxList
         /\ e.history = r.history /\ e.acks = r.acks
         /\ \A n \in Names : Total(e, n) = Total(r, n) + In(n, S)
<1> DEFINE of(p) == {n \in S : Priority[n] = p}
           q == [p \in Priorities |-> r.queue[p] \o InOrder(of(p))]
           queue == [p \in Priorities |-> Newest(q[p])]
           dropped == [n \in Names |-> r.dropped[n] + Count(Oldest(q[Priority[n]]), n)]
<1>1. \A p \in Priorities : r.queue[p] \in Seq(Names)
  BY DEF Pipe
<1>2. \A p \in Priorities : of(p) \in SUBSET Names /\ InOrder(of(p)) \in Seq(Names)
  BY InOrderCounts
<1>3. \A p \in Priorities : q[p] = r.queue[p] \o InOrder(of(p)) /\ q[p] \in Seq(Names)
  BY <1>1, <1>2
<1>4. e = [r EXCEPT !.queue = queue, !.dropped = dropped]
  BY DEF Enqueue
<1>5. \A n \in Names : Priority[n] \in Priorities /\ Priority[n] \in 1 .. MaxPriority
  BY SendPathAssumption DEF Priorities
<1> HIDE DEF q, of
<1>6. \A p \in Priorities : /\ Newest(q[p]) \in Seq(Names)
                            /\ \A i \in DOMAIN Newest(q[p]) :
                                  \E j \in DOMAIN q[p] : Newest(q[p])[i] = q[p][j]
  BY <1>3, CountCut
<1>7. \A n \in Names :
         /\ Count(q[Priority[n]], n) \in Nat
         /\ Count(Oldest(q[Priority[n]]), n) \in Nat
         /\ Count(Newest(q[Priority[n]]), n) \in Nat
         /\ Count(q[Priority[n]], n) =
               Count(Oldest(q[Priority[n]]), n) + Count(Newest(q[Priority[n]]), n)
  BY <1>3, <1>5, CountCut, CountType
<1>8. queue \in [Priorities -> Seq(Names)] /\ dropped \in [Names -> Nat]
  <2>1. \A n \in Names : r.dropped[n] \in Nat
    BY DEF Pipe
  <2> QED
    BY <1>6, <1>7, <2>1
<1> HIDE DEF queue, dropped
<1>9. /\ e \in Pipe /\ e.queue = queue /\ e.dropped = dropped
      /\ e.sending = r.sending /\ e.rtxList = r.rtxList
      /\ e.history = r.history /\ e.acks = r.acks
  BY <1>4, <1>8 DEF Pipe
<1>10. ASSUME NEW n \in Names
       PROVE  Total(e, n) = Total(r, n) + In(n, S)
  <2>1. Count(q[Priority[n]], n) = Count(r.queue[Priority[n]], n) + In(n, S)
    <3>1. q[Priority[n]] = r.queue[Priority[n]] \o InOrder(of(Priority[n]))
      BY <1>3, <1>5
    <3>2. Count(r.queue[Priority[n]] \o InOrder(of(Priority[n])), n) =
             Count(r.queue[Priority[n]], n) + Count(InOrder(of(Priority[n])), n)
      BY <1>1, <1>2, <1>5, CountConcat
    <3>3. Count(InOrder(of(Priority[n])), n) = IF n \in of(Priority[n]) THEN 1 ELSE 0
      BY <1>2, <1>5, InOrderCounts
    <3>4. n \in of(Priority[n]) <=> n \in S
      BY DEF of
    <3> QED
      BY <3>1, <3>2, <3>3, <3>4 DEF In
  <2>2. e.queue[Priority[n]] = Newest(q[Priority[n]])
    BY <1>5, <1>9 DEF queue
  <2>3. e.dropped[n] = r.dropped[n] + Count(Oldest(q[Priority[n]]), n)
    BY <1>9 DEF dropped
  <2>4. Count(e.queue[Priority[n]], n) = Count(Newest(q[Priority[n]]), n)
    BY <2>2, Zenon
  <2>5. Count(Sent(e.history), n) = Count(Sent(r.history), n)
    BY <1>9, Zenon
  <2>6. In(n, {e.sending}) = In(n, {r.sending})
    BY <1>9, Zenon
  <2>7. In(n, S) \in Nat
    BY DEF In
  <2>8. /\ In(n, {r.sending}) \in Nat /\ Count(r.queue[Priority[n]], n) \in Nat
        /\ Count(Sent(r.history), n) \in Nat /\ r.dropped[n] \in Nat
    BY TotalType
  <2>9. /\ Total(r, n) = In(n, {r.sending}) + Count(r.queue[Priority[n]], n)
                            + Count(Sent(r.history), n) + r.dropped[n]
        /\ Total(e, n) = In(n, {e.sending}) + Count(e.queue[Priority[n]], n)
                            + Count(Sent(e.history), n) + e.dropped[n]
    BY DEF Total
  <2> QED
    BY <1>7, <2>1, <2>3, <2>4, <2>5, <2>6, <2>7, <2>8, <2>9
<1>11. Placed(e)
  <2> SUFFICES ASSUME NEW p \in 1 .. MaxPriority, NEW i \in DOMAIN e.queue[p]
               PROVE  Priority[e.queue[p][i]] = p
    BY DEF Placed
  <2>1. p \in Priorities
    BY SendPathAssumption DEF Priorities
  <2>2. e.queue[p] = Newest(q[p])
    BY <1>9, <2>1 DEF queue
  <2>3. PICK j \in DOMAIN q[p] : e.queue[p][i] = q[p][j]
    <3>1. i \in DOMAIN Newest(q[p])
      BY <2>2, Zenon
    <3>2. PICK j \in DOMAIN q[p] : Newest(q[p])[i] = q[p][j]
      BY <1>6, <2>1, <3>1
    <3> QED
      BY <2>2, <3>2, Zenon
  <2>4. q[p] = r.queue[p] \o InOrder(of(p))
    BY <1>3, <2>1
  <2>5. /\ r.queue[p] \in Seq(Names) /\ InOrder(of(p)) \in Seq(Names)
        /\ \A k \in DOMAIN InOrder(of(p)) : InOrder(of(p))[k] \in of(p)
    BY <1>1, <1>2, <2>1, InOrderCounts
  <2>6. \/ j \in DOMAIN r.queue[p] /\ q[p][j] = r.queue[p][j]
        \/ \E k \in DOMAIN InOrder(of(p)) : q[p][j] = InOrder(of(p))[k]
    <3> HIDE DEF of
    <3> DEFINE t == InOrder(of(p))
    <3>1. t \in Seq(Names)
      BY <2>5
    <3>2. j \in DOMAIN (r.queue[p] \o t) /\ q[p][j] = (r.queue[p] \o t)[j]
      BY <2>4
    <3> HIDE DEF t
    <3>3. \/ j \in DOMAIN r.queue[p] /\ (r.queue[p] \o t)[j] = r.queue[p][j]
          \/ j - Len(r.queue[p]) \in DOMAIN t /\ (r.queue[p] \o t)[j] = t[j - Len(r.queue[p])]
      BY <2>5, <3>1, <3>2
    <3> QED
      BY <3>2, <3>3 DEF t
  <2>7. CASE j \in DOMAIN r.queue[p] /\ q[p][j] = r.queue[p][j]
    BY <2>3, <2>7 DEF Placed
  <2>8. CASE \E k \in DOMAIN InOrder(of(p)) : q[p][j] = InOrder(of(p))[k]
    BY <2>3, <2>5, <2>8 DEF of
  <2> QED
    BY <2>6, <2>7, <2>8
<1> QED
  BY <1>9, <1>10, <1>11

\* FecPipe's copies are in the queue of priority 0, which is not served: they add
\* nothing to what is sent.
LEMMA FecAddsNothing ==
  ASSUME NEW r \in Pipe, Placed(r), NEW m \in Names, NEW k \in 0 .. Len(r.sendList),
         NEW e, e = Fec(r, m, k)
  PROVE  /\ e \in Pipe /\ Placed(e)
         /\ e.sending = r.sending /\ e.rtxList = r.rtxList
         /\ e.history = r.history /\ e.acks = r.acks
         /\ \A n \in Names : Total(e, n) = Total(r, n)
<1> DEFINE saved == r.sendList \o (IF m \in FecNames THEN <<m, m>> ELSE <<>>)
           q == r.queue[0] \o SubSeq(saved, 1, k)
<1>1. saved \in Seq(Names) /\ Len(saved) \in Nat /\ k <= Len(saved)
  <2>1. r.sendList \in Seq(Names) /\ <<m, m>> \in Seq(Names) /\ <<>> \in Seq(Names)
    BY DEF Pipe
  <2>2. saved \in Seq(Names) /\ Len(saved) >= Len(r.sendList)
    <3> DEFINE more == IF m \in FecNames THEN <<m, m>> ELSE <<>>
    <3>1. more \in Seq(Names)
      BY <2>1
    <3> HIDE DEF more
    <3>2. Len(r.sendList) \in Nat /\ Len(more) \in Nat
      BY <2>1, <3>1, LenProperties
    <3>3. /\ r.sendList \o more \in Seq(Names)
          /\ Len(r.sendList \o more) = Len(r.sendList) + Len(more)
      BY <2>1, <3>1, ConcatProperties
    <3>4. saved = r.sendList \o more
      BY DEF more
    <3> HIDE DEF saved
    <3> QED
      BY <3>2, <3>3, <3>4
  <2> HIDE DEF saved
  <2> QED
    BY <2>1, <2>2
<1>2. r.queue \in [Priorities -> Seq(Names)] /\ 0 \in Priorities
  BY SendPathAssumption DEF Pipe, Priorities
<1>3. e = [r EXCEPT !.sendList = SubSeq(saved, k + 1, Len(saved)), !.queue[0] = Newest(q)]
  BY DEF Fec
<1> HIDE DEF saved
<1>4. SubSeq(saved, k + 1, Len(saved)) \in Seq(Names) /\ SubSeq(saved, 1, k) \in Seq(Names)
  <2>1. \A i \in 1 .. Len(saved) : saved[i] \in Names
    BY <1>1
  <2>2. /\ 1 \in Int /\ k \in Int /\ k + 1 \in Int /\ Len(saved) \in Int
        /\ \A i \in k + 1 .. Len(saved) : saved[i] \in Names
        /\ \A i \in 1 .. k : saved[i] \in Names
    BY <1>1, <2>1
  <2> QED
    BY <2>2, SubSeqProperties
<1>5. q \in Seq(Names)
  BY <1>2, <1>4
<1> HIDE DEF q
<1>6. Newest(q) \in Seq(Names)
  BY <1>5, CountCut
<1>7. /\ e \in Pipe
      /\ e.sending = r.sending /\ e.rtxList = r.rtxList
      /\ e.history = r.history /\ e.acks = r.acks /\ e.dropped = r.dropped
      /\ \A p \in Priorities \ {0} : e.queue[p] = r.queue[p]
  <2> DEFINE queue == [r.queue EXCEPT ![0] = Newest(q)]
             rest == SubSeq(saved, k + 1, Len(saved))
  <2>1. /\ queue \in [Priorities -> Seq(Names)]
        /\ \A p \in Priorities \ {0} : queue[p] = r.queue[p]
    BY <1>2, <1>6
  <2>2. rest \in Seq(Names)
    BY <1>4
  <2>3. e = [r EXCEPT !.sendList = rest, !.queue = queue]
    BY <1>3 DEF Pipe
  <2> HIDE DEF queue, rest
  <2> QED
    BY <2>1, <2>2, <2>3 DEF Pipe
<1>8. \A p \in 1 .. MaxPriority : p \in Priorities \ {0}
  BY SendPathAssumption DEF Priorities
<1>9. ASSUME NEW n \in Names
      PROVE  Total(e, n) = Total(r, n)
  <2>1. e.queue[Priority[n]] = r.queue[Priority[n]]
    BY <1>7, <1>8, SendPathAssumption
  <2> QED
    BY <1>7, <2>1, Zenon DEF Total
<1>10. Placed(e)
  BY <1>7, <1>8 DEF Placed
<1> QED
  BY <1>7, <1>9, <1>10

\* Some names but a have moved from rtxList of r to the queues of e, and a is gone.
Moved(r, e, a) ==
    \E o \in SUBSET (r.rtxList \ {a}) :
        /\ e.rtxList = (r.rtxList \ {a}) \ o
        /\ \A n \in Names : Total(e, n) = Total(r, n) + In(n, o)

\* RetransmitPipe::ack moves the overdue packets from rtxList to the queues, and
\* takes the acknowledged name from rtxList.
LEMMA RetransmitAckMoves ==
  ASSUME NEW r \in Pipe, Placed(r), NEW a \in Names, NEW spread \in [Names -> RttSpreads],
         NEW e, e = RetransmitAck(r, a, spread)
  PROVE  /\ e \in Pipe /\ Placed(e)
         /\ e.sending = r.sending /\ e.history = r.history /\ e.acks = r.acks
         /\ Moved(r, e, a)
<1> DEFINE newest == Later(r.maxActTime, a)
           o == Overdue(r.rtxList \ {a}, newest, spread)
           left == (r.rtxList \ {a}) \ o
           f == [r EXCEPT !.maxActTime = newest, !.rtxList = left]
<1>1. newest \in 0 .. Word - 1 /\ r.rtxList \in SUBSET Names
  BY SendPathAssumption DEF Pipe, Later
<1>2. o \in SUBSET (r.rtxList \ {a})
  BY DEF Overdue
<1>3. e = Enqueue(f, o)
  BY DEF RetransmitAck
<1> HIDE DEF newest, o
<1>4. o \in SUBSET Names /\ left \in SUBSET Names
  BY <1>1, <1>2
<1> HIDE DEF left
<1>5. /\ f \in Pipe /\ f.sending = r.sending /\ f.rtxList = left
      /\ f.queue = r.queue /\ f.dropped = r.dropped
      /\ f.history = r.history /\ f.acks = r.acks
  BY <1>1, <1>4 DEF Pipe
<1> HIDE DEF f
<1>6. Placed(f)
  BY <1>5 DEF Placed
<1>7. \A n \in Names : Total(f, n) = Total(r, n)
  BY <1>5, Zenon DEF Total
<1>8. /\ e \in Pipe /\ Placed(e)
      /\ e.sending = f.sending /\ e.rtxList = f.rtxList
      /\ e.history = f.history /\ e.acks = f.acks
      /\ \A n \in Names : Total(e, n) = Total(f, n) + In(n, o)
  BY <1>3, <1>4, <1>5, <1>6, EnqueueAdds
<1>9. e.rtxList = (r.rtxList \ {a}) \ o
  BY <1>5, <1>8 DEF left
<1>10. \A n \in Names : Total(e, n) = Total(r, n) + In(n, o)
  BY <1>7, <1>8
<1> QED
  BY <1>2, <1>5, <1>8, <1>9, <1>10 DEF Moved

Reported == {"ack", "received"}

\* An acknowledgement keeps the account of every packet, and changes the status of
\* the packet it names only.
LEMMA RecvAckKeeps ==
  ASSUME NEW r \in Pipe, Placed(r), NEW s \in Nat, NEW haveAck \in BOOLEAN,
         NEW spread \in [Names -> RttSpreads], NEW e, e = RecvAck(r, s, haveAck, spread)
  PROVE  /\ e \in Pipe /\ Placed(e) /\ e.acks = r.acks
         /\ Len(e.history) = Len(r.history) /\ Continues(r, e)
         /\ \A t \in 1 .. Len(r.history) :
               e.history[t].status \in Reported => r.history[t].status \in Reported \/ t = s
         /\ KeepsAccounts(r, e)
<1>1. /\ r.history \in Seq([name : Names, status : Statuses])
      /\ Len(r.history) \in Nat /\ DOMAIN r.history = 1 .. Len(r.history)
      /\ \A t \in 1 .. Len(r.history) : r.history[t] \in [name : Names, status : Statuses]
  <2>1. r.history \in Seq([name : Names, status : Statuses])
    BY DEF Pipe
  <2> QED
    BY <2>1, ElementOfSeq, LenProperties
<1>2. CASE s \notin DOMAIN r.history
  <2>1. e = r
    BY <1>2 DEF RecvAck
  <2> QED
    BY <1>1, <2>1 DEF Continues, KeepsAccounts
<1>3. CASE s \in DOMAIN r.history
  <2> DEFINE fresh == r.history[s].status = "sent"
             a == r.history[s].name
             told == IF fresh THEN RetransmitAck(r, a, spread) ELSE r
             status == IF haveAck THEN "ack"
                       ELSE IF fresh THEN "received" ELSE r.history[s].status
             h == [r.history EXCEPT ![s].status = status]
  <2>1. a \in Names /\ status \in Statuses
    BY <1>1, <1>3 DEF Statuses
  <2>2. \/ /\ fresh /\ told \in Pipe /\ Placed(told)
           /\ told.sending = r.sending /\ told.history = r.history /\ told.acks = r.acks
           /\ Moved(r, told, a)
        \/ ~fresh /\ told = r
    <3>1. CASE fresh
      <4>1. told = RetransmitAck(r, a, spread)
        BY <3>1
      <4>2. a \in Names
        BY <2>1
      <4> HIDE DEF told, a
      <4>3. /\ told \in Pipe /\ Placed(told)
            /\ told.sending = r.sending /\ told.history = r.history /\ told.acks = r.acks
            /\ Moved(r, told, a)
        BY <4>1, <4>2, RetransmitAckMoves
      <4> QED
        BY <3>1, <4>3
    <3>2. CASE ~fresh
      BY <3>2
    <3> QED
      BY <3>1, <3>2
  <2>3. told \in Pipe /\ Placed(told) /\ told.history = r.history /\ told.acks = r.acks
    <3> HIDE DEF told
    <3> QED
      BY <2>2
  <2>4. e = [told EXCEPT !.history[s].status = status]
    BY <1>3 DEF RecvAck
  <2>5. status \in Reported \/ status = r.history[s].status
    BY DEF Reported
  <2>6. (r.history[s].status \in Reported \/ fresh) => status \in Reported
    BY DEF Reported
  <2> HIDE DEF told, status
  <2>7. /\ h \in Seq([name : Names, status : Statuses]) /\ Len(h) = Len(r.history)
        /\ DOMAIN h = 1 .. Len(r.history)
        /\ \A t \in 1 .. Len(r.history) : h[t].name = r.history[t].name
        /\ \A t \in 1 .. Len(r.history) :
              h[t].status = IF t = s THEN status ELSE r.history[t].status
    <3> DEFINE new == [r.history[s] EXCEPT !.status = status]
    <3>1. /\ new \in [name : Names, status : Statuses]
          /\ new.name = r.history[s].name /\ new.status = status
      BY <1>1, <1>3, <2>1
    <3>2. h = [r.history EXCEPT ![s] = new]
      OBVIOUS
    <3> HIDE DEF new, h
    <3>3. /\ h \in Seq([name : Names, status : Statuses]) /\ Len(h) = Len(r.history)
          /\ \A t \in 1 .. Len(r.history) : h[t] = IF t = s THEN new ELSE r.history[t]
      BY <1>1, <1>3, <3>1, <3>2, ExceptSeq
    <3> QED
      BY <1>1, <3>1, <3>3
  <2>8. /\ e \in Pipe /\ e.sending = told.sending /\ e.rtxList = told.rtxList
        /\ e.queue = told.queue /\ e.dropped = told.dropped
        /\ e.acks = told.acks /\ e.history = h
    <3>1. e = [told EXCEPT !.history = h]
      BY <2>3, <2>4
    <3> HIDE DEF h
    <3> QED
      BY <2>3, <2>7, <3>1 DEF Pipe
  <2> HIDE DEF h
  <2>9. Placed(e)
    BY <2>3, <2>8 DEF Placed
  <2>10. Sent(e.history) = Sent(r.history)
    BY <1>1, <2>7, <2>8 DEF Sent
  <2>11. \A n \in Names : Total(e, n) = Total(told, n)
    BY <2>3, <2>8, <2>10, Zenon DEF Total
  <2>12. \A n \in Names : Told(r, n) \/ (fresh /\ n = a) => Told(e, n)
    <3> SUFFICES ASSUME NEW n \in Names, Told(r, n) \/ (fresh /\ n = a)
                 PROVE  Told(e, n)
      OBVIOUS
    <3>1. PICK t \in 1 .. Len(r.history) : /\ r.history[t].name = n
                                          /\ \/ r.history[t].status \in Reported
                                             \/ fresh /\ t = s
      BY <1>1, <1>3 DEF Told, Reported
    <3>2. h[t].name = n /\ h[t].status \in Reported
      <4>1. CASE t = s
        BY <2>6, <2>7, <3>1, <4>1
      <4>2. CASE t # s
        BY <2>7, <3>1, <4>2
      <4> QED
        BY <4>1, <4>2
    <3> QED
      BY <2>7, <2>8, <3>2 DEF Told, Reported
  <2>13. ASSUME NEW n \in Names, NEW k \in Nat, Accounted(r, k, n)
         PROVE  Accounted(e, k, n)
    <3>1. Total(r, n) \in Nat
      BY TotalType
    <3>2. CASE ~fresh /\ told = r
      <4>1. Total(e, n) = Total(r, n) /\ e.rtxList = r.rtxList /\ Told(r, n) => Told(e, n)
        BY <2>8, <2>11, <2>12, <3>2
      <4> QED
        BY <2>8, <2>11, <2>12, <2>13, <3>2 DEF Accounted
    <3>3. CASE fresh /\ Moved(r, told, a)
      <4>1. PICK o \in SUBSET (r.rtxList \ {a}) :
                 /\ told.rtxList = (r.rtxList \ {a}) \ o
                 /\ \A x \in Names : Total(told, x) = Total(r, x) + In(x, o)
        BY <3>3 DEF Moved
      <4>2. /\ e.rtxList = (r.rtxList \ {a}) \ o
            /\ Total(e, n) = Total(r, n) + In(n, o)
        BY <2>8, <2>11, <4>1
      <4>3. /\ In(n, o) + In(n, e.rtxList) <= In(n, r.rtxList)
            /\ In(n, o) \in {0, 1} /\ In(n, e.rtxList) \in {0, 1}
            /\ In(n, r.rtxList) \in {0, 1}
            /\ n \in o => In(n, o) = 1
        BY <4>2 DEF In
      <4>4. Total(e, n) + In(n, e.rtxList) <= 2 * k
        BY <2>13, <3>1, <4>2, <4>3 DEF Accounted
      <4>5. n \in e.rtxList => Total(e, n) >= 1
        BY <2>13, <3>1, <4>2, <4>3 DEF Accounted
      <4>6. ASSUME k > 0, n \notin e.rtxList
            PROVE  Told(e, n) \/ Total(e, n) >= 2
        <5>1. CASE n \notin r.rtxList
          BY <2>12, <2>13, <3>1, <4>2, <4>3, <4>6, <5>1 DEF Accounted
        <5>2. CASE n = a
          BY <2>12, <3>3, <5>2
        <5>3. CASE n \in o
          <6>1. Total(r, n) >= 1
            BY <2>13, <4>1, <5>3 DEF Accounted
          <6> QED
            BY <3>1, <4>2, <4>3, <5>3, <6>1
        <5> QED
          BY <4>2, <4>6, <5>1, <5>2, <5>3
      <4> QED
        BY <4>4, <4>5, <4>6 DEF Accounted
    <3> QED
      BY <2>2, <3>2, <3>3
  <2>14. Len(e.history) = Len(r.history) /\ Continues(r, e)
    BY <1>1, <2>7, <2>8 DEF Continues
  <2>15. \A t \in 1 .. Len(r.history) :
            e.history[t].status \in Reported => r.history[t].status \in Reported \/ t = s
    BY <2>7, <2>8
  <2> QED
    BY <2>3, <2>8, <2>9, <2>13, <2>14, <2>15 DEF KeepsAccounts
<1> QED
  BY <1>2, <1>3

-----------------------------------------------------------------------------
(* The accounts of all clients *)

\* A datagram belongs to a packet of its client's history.
Belongs(p, m) ==
    /\ m.client \in Clients /\ m.seq \in 1 .. Len(p[m.client].history)
    /\ m.type = "data" => p[m.client].history[m.seq].name = m.name
    /\ m.type = "ack" => m.prev \in Nat

IInv ==
    /\ TypeOK
    /\ \A c \in Clients : Placed(pipe[c])
    /\ \A c \in Clients, n \in Names : Accounted(pipe[c], published[c][n], n)

LEMMA InitHolds == Init => IInv
<1> SUFFICES ASSUME Init
             PROVE  IInv
  OBVIOUS
<1> DEFINE r == [sending |-> Idle, rtxList |-> {}, maxActTime |-> 0,
                 queue |-> [p \in Priorities |-> <<>>], sendList |-> <<>>,
                 dropped |-> [n \in Names |-> 0],
                 history |-> <<>>, acks |-> <<>>]
<1>1. r \in Pipe
  <2>1. 0 \in 0 .. Word - 1
    BY SendPathAssumption
  <2>2. [p \in Priorities |-> <<>>] \in [Priorities -> Seq(Names)]
    BY EmptySeq
  <2>3. /\ <<>> \in Seq(Names) /\ <<>> \in Seq([name : Names, status : Statuses])
        /\ <<>> \in Seq([seq : Nat, haveAck : BOOLEAN])
    BY EmptySeq
  <2> QED
    BY <2>1, <2>2, <2>3 DEF Pipe
<1>2. \A c \in Clients : pipe[c] = r
  BY DEF Init
<1>3. TypeOK
  BY <1>1, <1>2, SendPathAssumption DEF Init, TypeOK
<1>4. Placed(r)
  BY SendPathAssumption DEF Placed, Priorities
<1>5. \A n \in Names : Total(r, n) = 0
  <2> SUFFICES ASSUME NEW n \in Names
               PROVE  Total(r, n) = 0
    OBVIOUS
  <2>1. Count(<<>>, n) = 0
    <3>1. {i \in DOMAIN <<>> : <<>>[i] = n} = {}
      OBVIOUS
    <3> QED
      BY <3>1, FS_EmptySet DEF Count
  <2>2. r.queue[Priority[n]] = <<>> /\ r.dropped[n] = 0
    BY SendPathAssumption DEF Priorities
  <2>3. Sent(r.history) = <<>>
    BY DEF Sent
  <2>4. In(n, {r.sending}) = 0
    BY SendPathAssumption DEF In, Idle
  <2>5. Count(r.queue[Priority[n]], n) = 0 /\ Count(Sent(r.history), n) = 0
    BY <2>1, <2>2, <2>3
  <2> QED
    BY <2>2, <2>4, <2>5 DEF Total
<1>6. r.rtxList = {}
  OBVIOUS
<1> HIDE DEF r
<1>7. \A c \in Clients, n \in Names : Accounted(r, published[c][n], n)
  BY <1>5, <1>6 DEF Init, Accounted, In
<1> QED
  BY <1>2, <1>3, <1>4, <1>7 DEF IInv

\* A step of one client keeps the accounts of the others.
LEMMA ClientStep ==
  ASSUME IInv, NEW c \in Clients, NEW r \in Pipe, Placed(r), Continues(pipe[c], r), Client(c, r),
         prevAckSeqNum' \in Nat,
         published' \in [Clients -> [Names -> 0 .. MaxPublish]],
         \A d \in Clients \ {c} : published'[d] = published[d],
         \A n \in Names : Accounted(r, published'[c][n], n),
         \A m \in net' \cup delivered' : m \in net \cup delivered \/ Belongs(pipe', m)
  PROVE  IInv'
<1>1. pipe \in [Clients -> Pipe]
  BY DEF IInv, TypeOK
<1>2. pipe' \in [Clients -> Pipe] /\ \A d \in Clients : pipe'[d] = IF d = c THEN r ELSE pipe[d]
  BY <1>1 DEF Client
<1>3. \A m \in net' \cup delivered' : Belongs(pipe', m)
  <2> SUFFICES ASSUME NEW m \in net \cup delivered
               PROVE  Belongs(pipe', m)
    OBVIOUS
  <2>1. Belongs(pipe, m)
    BY DEF IInv, TypeOK, Belongs
  <2>2. CASE m.client = c
    <3>1. Len(pipe[c].history) \in Nat /\ Len(r.history) \in Nat
      BY <1>1, LenProperties DEF Pipe
    <3> QED
      BY <1>2, <2>1, <2>2, <3>1 DEF Belongs, Continues
  <2>3. CASE m.client # c
    BY <1>2, <2>1, <2>3 DEF Belongs
  <2> QED
    BY <2>2, <2>3
<1>4. TypeOK'
  BY <1>2, <1>3 DEF TypeOK, Belongs
<1>5. \A d \in Clients : Placed(pipe'[d])
  BY <1>2 DEF IInv
<1>6. \A d \in Clients, n \in Names : Accounted(pipe'[d], published'[d][n], n)
  BY <1>2 DEF IInv
<1> QED
  BY <1>4, <1>5, <1>6 DEF IInv

LEMMA PublishCachesPreserves ==
  ASSUME IInv, NEW c \in Clients, NEW n \in Names, PublishCaches(c, n)
  PROVE  IInv'
<1>1. PICK k \in 0 .. Len(pipe[c].sendList) :
         Client(c, [Fec(pipe[c], n, k) EXCEPT !.sending = n, !.rtxList = @ \cup {n}])
  BY DEF PublishCaches
<1> DEFINE f == Fec(pipe[c], n, k)
           r == [f EXCEPT !.sending = n, !.rtxList = @ \cup {n}]
<1>2. /\ pipe[c] \in Pipe /\ Placed(pipe[c])
      /\ published \in [Clients -> [Names -> 0 .. MaxPublish]]
  BY DEF IInv, TypeOK
<1>3. /\ f \in Pipe /\ Placed(f)
      /\ f.sending = pipe[c].sending /\ f.rtxList = pipe[c].rtxList
      /\ f.history = pipe[c].history /\ f.acks = pipe[c].acks
      /\ \A x \in Names : Total(f, x) = Total(pipe[c], x)
  <2> HIDE DEF f
  <2>1. f = Fec(pipe[c], n, k)
    BY DEF f
  <2> QED
    BY <1>2, <2>1, FecAddsNothing
<1> HIDE DEF f
<1>4. /\ r \in Pipe /\ r.sending = n /\ r.rtxList = pipe[c].rtxList \cup {n}
      /\ r.queue = f.queue /\ r.dropped = f.dropped
      /\ r.history = f.history
  BY <1>3 DEF Pipe
<1>5. Client(c, r)
  BY <1>1 DEF f
<1> HIDE DEF r
<1>6. Placed(r) /\ Continues(pipe[c], r)
  <2>1. Len(pipe[c].history) \in Nat
    BY <1>2, LenProperties DEF Pipe
  <2> QED
    BY <1>3, <1>4, <2>1 DEF Placed, Continues
<1>7. /\ published' \in [Clients -> [Names -> 0 .. MaxPublish]]
      /\ \A d \in Clients \ {c} : published'[d] = published[d]
      /\ \A x \in Names : published'[c][x] = published[c][x] + (IF x = n THEN 1 ELSE 0)
      /\ \A x \in Names : published[c][x] \in Nat
  BY <1>2, SendPathAssumption DEF PublishCaches
<1>8. ASSUME NEW x \in Names
      PROVE  Accounted(r, published'[c][x], x)
  <2>1. Accounted(pipe[c], published[c][x], x)
    BY DEF IInv
  <2>2. Total(r, x) = Total(pipe[c], x) + (IF x = n THEN 1 ELSE 0)
    <3>1. pipe[c].sending = Idle /\ x # Idle
      BY SendPathAssumption DEF PublishCaches, Idle
    <3>2. In(x, {r.sending}) = IF x = n THEN 1 ELSE 0
      BY <1>4 DEF In
    <3>3. In(x, {f.sending}) = 0
      BY <1>3, <3>1 DEF In
    <3>4. /\ Count(r.queue[Priority[x]], x) = Count(f.queue[Priority[x]], x)
          /\ Count(Sent(r.history), x) = Count(Sent(f.history), x)
          /\ r.dropped[x] = f.dropped[x]
      BY <1>4, Zenon
    <3>5. /\ Count(f.queue[Priority[x]], x) \in Nat /\ Count(Sent(f.history), x) \in Nat
          /\ f.dropped[x] \in Nat
      BY <1>3, TotalType
    <3>6. Total(f, x) = Total(pipe[c], x)
      BY <1>3
    <3> QED
      BY <3>2, <3>3, <3>4, <3>5, <3>6 DEF Total
  <2>3. Total(pipe[c], x) \in Nat
    BY <1>2, TotalType
  <2>4. CASE x = n
    <3>1. /\ x \notin pipe[c].rtxList /\ x \in r.rtxList
          /\ In(x, pipe[c].rtxList) = 0 /\ In(x, r.rtxList) = 1
      BY <1>4, <2>4 DEF PublishCaches, In
    <3> QED
      BY <1>7, <2>1, <2>2, <2>3, <2>4, <3>1 DEF Accounted
  <2>5. CASE x # n
    <3>1. /\ x \in pipe[c].rtxList <=> x \in r.rtxList
          /\ In(x, pipe[c].rtxList) = In(x, r.rtxList)
          /\ Told(pipe[c], x) => Told(r, x)
      BY <1>3, <1>4, <2>5 DEF In, Told
    <3> QED
      BY <1>7, <2>1, <2>2, <2>3, <2>5, <3>1 DEF Accounted
  <2> QED
    BY <2>4, <2>5
<1>9. /\ prevAckSeqNum' \in Nat
      /\ \A m \in net' \cup delivered' : m \in net \cup delivered
  BY DEF PublishCaches, IInv, TypeOK
<1> QED
  BY <1>4, <1>5, <1>6, <1>7, <1>8, <1>9, ClientStep

\* A step that publishes nothing and receives nothing new keeps the accounts if it
\* keeps those of its client.
LEMMA QuietStep ==
  ASSUME IInv, NEW c \in Clients, NEW r \in Pipe, Placed(r), Continues(pipe[c], r), Client(c, r),
         KeepsAccounts(pipe[c], r),
         UNCHANGED <<prevAckSeqNum, published, delivered>>, net' \subseteq net
  PROVE  IInv'
<1>1. /\ prevAckSeqNum' \in Nat /\ published' = published
      /\ published \in [Clients -> [Names -> 0 .. MaxPublish]]
      /\ \A m \in net' \cup delivered' : m \in net \cup delivered
  BY DEF IInv, TypeOK
<1>2. ASSUME NEW n \in Names
      PROVE  Accounted(r, published'[c][n], n)
  <2>1. published[c][n] \in Nat
    BY <1>1, SendPathAssumption
  <2> QED
    BY <1>1, <2>1 DEF IInv, KeepsAccounts
<1>3. \A d \in Clients \ {c} : published'[d] = published[d]
  BY <1>1
<1>4. published' \in [Clients -> [Names -> 0 .. MaxPublish]]
  BY <1>1
<1> QED
  BY <1>1, <1>2, <1>3, <1>4, ClientStep

\* What two pipes must share for their accounts to be equal.
LEMMA SameAccounts ==
  ASSUME NEW r, NEW e, e.rtxList = r.rtxList, e.history = r.history,
         \A n \in Names : Total(e, n) = Total(r, n)
  PROVE  KeepsAccounts(r, e)
BY DEF KeepsAccounts, Accounted, Told

LEMMA SameHistory ==
  ASSUME NEW r \in Pipe, NEW e, e.history = r.history
  PROVE  Continues(r, e)
BY LenProperties DEF Pipe, Continues

LEMMA PublishRefusedPreserves ==
  ASSUME IInv, NEW c \in Clients, NEW n \in Names, PublishRefused(c, n)
  PROVE  IInv'
<1>1. PICK k \in 0 .. Len(pipe[c].sendList) : Client(c, Fec(pipe[c], n, k))
  BY DEF PublishRefused
<1> DEFINE r == Fec(pipe[c], n, k)
<1>2. pipe[c] \in Pipe /\ Placed(pipe[c])
  BY DEF IInv, TypeOK
<1>3. /\ r \in Pipe /\ Placed(r)
      /\ r.rtxList = pipe[c].rtxList /\ r.history = pipe[c].history
      /\ \A x \in Names : Total(r, x) = Total(pipe[c], x)
  BY <1>2, FecAddsNothing
<1>4. Client(c, r)
  BY <1>1
<1> HIDE DEF r
<1>5. Continues(pipe[c], r)
  BY <1>2, <1>3, SameHistory
<1>6. KeepsAccounts(pipe[c], r)
  BY <1>3, SameAccounts
<1>7. UNCHANGED <<prevAckSeqNum, published, delivered>> /\ net' \subseteq net
  BY DEF PublishRefused
<1> QED
  BY <1>3, <1>4, <1>5, <1>6, <1>7, QuietStep

LEMMA PublishQueuesPreserves ==
  ASSUME IInv, NEW c \in Clients, PublishQueues(c)
  PROVE  IInv'
<1> DEFINE n == pipe[c].sending
           f == [pipe[c] EXCEPT !.sending = Idle]
           r == Enqueue(f, {n})
<1>1. pipe[c] \in Pipe /\ Placed(pipe[c])
  BY DEF IInv, TypeOK
<1>2. n \in Names
  BY <1>1 DEF Pipe, PublishQueues
<1>3. Client(c, r)
  BY DEF PublishQueues
<1>4. /\ f \in Pipe /\ f.sending = Idle /\ f.rtxList = pipe[c].rtxList
      /\ f.queue = pipe[c].queue /\ f.dropped = pipe[c].dropped
      /\ f.history = pipe[c].history
  BY <1>1 DEF Pipe
<1> HIDE DEF f
<1>5. Placed(f)
  BY <1>1, <1>4 DEF Placed
<1>6. /\ r \in Pipe /\ Placed(r)
      /\ r.rtxList = f.rtxList /\ r.history = f.history
      /\ \A x \in Names : Total(r, x) = Total(f, x) + In(x, {n})
  BY <1>2, <1>4, <1>5, EnqueueAdds
<1> HIDE DEF r
<1>7. ASSUME NEW x \in Names
      PROVE  Total(r, x) = Total(pipe[c], x)
  <2>1. In(x, {f.sending}) = 0
    BY <1>4, SendPathAssumption DEF In, Idle
  <2>2. /\ Count(f.queue[Priority[x]], x) = Count(pipe[c].queue[Priority[x]], x)
        /\ Count(Sent(f.history), x) = Count(Sent(pipe[c].history), x)
        /\ f.dropped[x] = pipe[c].dropped[x]
    BY <1>4, Zenon
  <2>3. /\ Count(pipe[c].queue[Priority[x]], x) \in Nat
        /\ Count(Sent(pipe[c].history), x) \in Nat
        /\ pipe[c].dropped[x] \in Nat /\ In(x, {n}) \in Nat
    BY <1>1, TotalType
  <2>4. Total(r, x) = Total(f, x) + In(x, {n})
    BY <1>6
  <2> HIDE DEF n
  <2>5. Total(pipe[c], x) = In(x, {n}) + Count(pipe[c].queue[Priority[x]], x)
                              + Count(Sent(pipe[c].history), x) + pipe[c].dropped[x]
    BY DEF Total, n
  <2> QED
    BY <2>1, <2>2, <2>3, <2>4, <2>5 DEF Total
<1>8. Continues(pipe[c], r)
  BY <1>1, <1>4, <1>6, SameHistory
<1>9. KeepsAccounts(pipe[c], r)
  BY <1>4, <1>6, <1>7, SameAccounts
<1>10. UNCHANGED <<prevAckSeqNum, published, delivered>> /\ net' \subseteq net
  BY DEF PublishQueues
<1> QED
  BY <1>3, <1>6, <1>8, <1>9, <1>10, QuietStep

\* The packet PacerSends takes.
LEMMA Chosen ==
  ASSUME IInv, NEW c \in Clients, Served(c) # {},
         NEW p, p = CHOOSE x \in Served(c) : \A y \in Served(c) : y <= x
  PROVE  p \in 1 .. MaxPriority /\ p \in Priorities /\ pipe[c].queue[p] # <<>>
<1>1. Served(c) \in SUBSET Nat /\ IsFiniteSet(Served(c))
  <2>1. IsFiniteSet(1 .. MaxPriority)
    BY SendPathAssumption, FS_Interval
  <2>2. Served(c) \in SUBSET (1 .. MaxPriority)
    BY DEF Served
  <2>3. 1 .. MaxPriority \subseteq Nat
    OBVIOUS
  <2>4. Served(c) \in SUBSET Nat
    BY <2>2, <2>3
  <2> QED
    BY <2>1, <2>2, <2>4, FS_Subset
<1>2. \A x \in Served(c) : x <= MaxPriority
  BY SendPathAssumption DEF Served
<1>3. \E x \in Served(c) : \A y \in Served(c) : y <= x
  <2> DEFINE k == Cardinality(Served(c))
             q == InOrder(Served(c))
  <2>1. /\ k \in Nat /\ q \in [1 .. k -> Served(c)]
        /\ \A i, j \in 1 .. k : i < j => q[i] < q[j]
        /\ \A x \in Served(c) : \E i \in 1 .. k : q[i] = x
    BY <1>1, InOrderLists
  <2> HIDE DEF k, q
  <2>2. k \in 1 .. k
    BY <2>1
  <2>3. ASSUME NEW y \in Served(c)
        PROVE  y <= q[k]
    <3>1. PICK i \in 1 .. k : q[i] = y
      BY <2>1
    <3>2. i = k \/ i < k
      BY <2>1
    <3>3. q[i] \in Int /\ q[k] \in Int
      BY <1>1, <2>1, <2>2
    <3> QED
      BY <2>1, <2>2, <3>1, <3>2, <3>3
  <2> QED
    BY <2>1, <2>2, <2>3
<1>4. p \in Served(c)
  BY <1>3
<1> QED
  BY <1>4, SendPathAssumption DEF Served, Priorities

\* The pacer's send thread moves one copy from a queue to the history.
LEMMA PacerSendsPreserves ==
  ASSUME IInv, NEW c \in Clients, PacerSends(c)
  PROVE  IInv'
<1> DEFINE p == CHOOSE x \in Served(c) : \A y \in Served(c) : y <= x
           n == Head(pipe[c].queue[p])
           h == Append(pipe[c].history, [name |-> n, status |-> "sent"])
           r == [pipe[c] EXCEPT !.queue[p] = Tail(@), !.history = h]
<1>1. Client(c, r) /\ net' = net \cup {Data(c, Len(h), n)}
  BY DEF PacerSends
<1>2. p \in 1 .. MaxPriority /\ p \in Priorities /\ pipe[c].queue[p] # <<>>
  BY Chosen DEF PacerSends
<1>3. pipe[c] \in Pipe /\ Placed(pipe[c])
  BY DEF IInv, TypeOK
<1> HIDE DEF p
<1>4. pipe[c].queue \in [Priorities -> Seq(Names)] /\ pipe[c].queue[p] \in Seq(Names)
  BY <1>2, <1>3 DEF Pipe
<1>5. /\ n \in Names /\ Priority[n] = p /\ Tail(pipe[c].queue[p]) \in Seq(Names)
      /\ \A i \in DOMAIN Tail(pipe[c].queue[p]) :
            /\ i + 1 \in DOMAIN pipe[c].queue[p]
            /\ Tail(pipe[c].queue[p])[i] = pipe[c].queue[p][i + 1]
  <2>1. 1 \in DOMAIN pipe[c].queue[p] /\ n = pipe[c].queue[p][1] /\ n \in Names
    BY <1>2, <1>4
  <2>2. Priority[n] = p
    BY <1>2, <1>3, <2>1 DEF Placed
  <2>3. Tail(pipe[c].queue[p]) \in Seq(Names)
    BY <1>2, <1>4
  <2>4. \A i \in DOMAIN Tail(pipe[c].queue[p]) :
            /\ i + 1 \in DOMAIN pipe[c].queue[p]
            /\ Tail(pipe[c].queue[p])[i] = pipe[c].queue[p][i + 1]
    <3> DEFINE q == pipe[c].queue[p]
    <3>1. q \in Seq(Names) /\ q # <<>>
      BY <1>2, <1>4
    <3> HIDE DEF q
    <3>2. \A i \in DOMAIN Tail(q) : i + 1 \in DOMAIN q /\ Tail(q)[i] = q[i + 1]
      BY <3>1
    <3> QED
      BY <3>2 DEF q
  <2> QED
    BY <2>1, <2>2, <2>3, <2>4
<1> DEFINE x == [name |-> n, status |-> "sent"]
           tail == Tail(pipe[c].queue[p])
<1>6. /\ pipe[c].history \in Seq([name : Names, status : Statuses])
      /\ x \in [name : Names, status : Statuses] /\ x.name = n
  BY <1>3, <1>5 DEF Pipe, Statuses
<1>7. h = Append(pipe[c].history, x)
  OBVIOUS
<1> HIDE DEF x
<1>8. /\ h \in Seq([name : Names, status : Statuses])
      /\ Len(pipe[c].history) \in Nat /\ Len(h) = Len(pipe[c].history) + 1
      /\ DOMAIN h = 1 .. Len(pipe[c].history) + 1
      /\ \A s \in 1 .. Len(pipe[c].history) : h[s] = pipe[c].history[s]
      /\ h[Len(pipe[c].history) + 1] = x
  BY <1>6, <1>7, AppendProperties, LenProperties
<1> HIDE DEF h
<1>9. Sent(h) = Append(Sent(pipe[c].history), n)
  <2>1. /\ Sent(pipe[c].history) \in Seq(Names)
        /\ Len(Sent(pipe[c].history)) = Len(pipe[c].history)
    BY <1>6, SentType
  <2>2. Sent(h) \in Seq(Names) /\ Len(Sent(h)) = Len(h)
    BY <1>8, SentType
  <2>3. /\ Append(Sent(pipe[c].history), n) \in Seq(Names)
        /\ Len(Append(Sent(pipe[c].history), n)) = Len(Sent(pipe[c].history)) + 1
        /\ \A s \in 1 .. Len(Sent(pipe[c].history)) :
              Append(Sent(pipe[c].history), n)[s] = Sent(pipe[c].history)[s]
        /\ Append(Sent(pipe[c].history), n)[Len(Sent(pipe[c].history)) + 1] = n
    BY <1>5, <2>1, AppendProperties
  <2>4. \A s \in 1 .. Len(h) : Sent(h)[s] = h[s].name
    BY <1>8 DEF Sent
  <2>5. \A s \in 1 .. Len(pipe[c].history) : Sent(pipe[c].history)[s] = pipe[c].history[s].name
    BY <1>6 DEF Sent
  <2>6. \A s \in 1 .. Len(h) : Sent(h)[s] = Append(Sent(pipe[c].history), n)[s]
    BY <1>6, <1>8, <2>1, <2>3, <2>4, <2>5
  <2> QED
    BY <1>8, <2>1, <2>2, <2>3, <2>6, SeqEqual
<1>10. /\ r \in Pipe /\ r.history = h
       /\ r.sending = pipe[c].sending /\ r.rtxList = pipe[c].rtxList
       /\ r.dropped = pipe[c].dropped
       /\ \A y \in Priorities : r.queue[y] = IF y = p THEN tail ELSE pipe[c].queue[y]
  <2> DEFINE queue == [pipe[c].queue EXCEPT ![p] = tail]
  <2>1. /\ queue \in [Priorities -> Seq(Names)]
        /\ \A y \in Priorities : queue[y] = IF y = p THEN tail ELSE pipe[c].queue[y]
    BY <1>2, <1>4, <1>5
  <2>2. r = [pipe[c] EXCEPT !.queue = queue, !.history = h]
    BY <1>3 DEF Pipe
  <2> HIDE DEF queue, tail
  <2> QED
    BY <1>3, <1>8, <2>1, <2>2 DEF Pipe
<1> HIDE DEF r
<1>11. Placed(r)
  <2> SUFFICES ASSUME NEW y \in 1 .. MaxPriority, NEW i \in DOMAIN r.queue[y]
               PROVE  Priority[r.queue[y][i]] = y
    BY DEF Placed
  <2>1. y \in Priorities
    BY SendPathAssumption DEF Priorities
  <2>2. CASE y # p
    BY <1>3, <1>10, <2>1, <2>2 DEF Placed
  <2>3. CASE y = p
    <3>1. r.queue[y] = tail
      BY <1>10, <2>1, <2>3
    <3>2. i + 1 \in DOMAIN pipe[c].queue[y] /\ r.queue[y][i] = pipe[c].queue[y][i + 1]
      BY <1>5, <2>3, <3>1
    <3> QED
      BY <1>3, <3>2 DEF Placed
  <2> QED
    BY <2>2, <2>3
<1>12. Continues(pipe[c], r)
  BY <1>8, <1>10 DEF Continues
<1>13. ASSUME NEW y \in Names
       PROVE  Total(r, y) = Total(pipe[c], y)
  <2>1. Count(Sent(h), y) = Count(Sent(pipe[c].history), y) + (IF n = y THEN 1 ELSE 0)
    <3>1. Sent(pipe[c].history) \in Seq(Names)
      BY <1>6, SentType
    <3>2. Count(Append(Sent(pipe[c].history), n), y) =
             Count(Sent(pipe[c].history), y) + (IF n = y THEN 1 ELSE 0)
      BY <1>5, <3>1, CountAppend
    <3> QED
      BY <1>9, <3>2
  <2>2. Count(pipe[c].queue[Priority[y]], y) =
           Count(r.queue[Priority[y]], y) + (IF n = y THEN 1 ELSE 0)
    <3>1. Priority[y] \in Priorities
      BY SendPathAssumption DEF Priorities
    <3>2. CASE Priority[y] # p
      <4>1. n # y /\ r.queue[Priority[y]] = pipe[c].queue[Priority[y]]
        BY <1>5, <1>10, <3>1, <3>2
      <4>2. Count(pipe[c].queue[Priority[y]], y) \in Nat
        BY <1>3, TotalType
      <4> QED
        BY <4>1, <4>2
    <3>3. CASE Priority[y] = p
      <4>1. r.queue[Priority[y]] = tail
        BY <1>10, <3>1, <3>3
      <4>2. Count(pipe[c].queue[p], y) = Count(tail, y) + (IF n = y THEN 1 ELSE 0)
        BY <1>2, <1>4, CountTail
      <4> QED
        BY <3>3, <4>1, <4>2
    <3> QED
      BY <3>2, <3>3
  <2>3. /\ Count(r.queue[Priority[y]], y) \in Nat /\ Count(Sent(pipe[c].history), y) \in Nat
        /\ pipe[c].dropped[y] \in Nat /\ In(y, {pipe[c].sending}) \in Nat
    BY <1>3, <1>10, TotalType
  <2>4. /\ Count(Sent(r.history), y) = Count(Sent(h), y)
        /\ In(y, {r.sending}) = In(y, {pipe[c].sending})
        /\ r.dropped[y] = pipe[c].dropped[y]
    BY <1>10, Zenon
  <2> HIDE DEF n
  <2> QED
    BY <2>1, <2>2, <2>3, <2>4 DEF Total
<1>14. ASSUME NEW y \in Names
       PROVE  Accounted(r, published'[c][y], y)
  <2>1. Accounted(pipe[c], published[c][y], y) /\ published' = published
    BY DEF IInv, PacerSends
  <2>2. Told(pipe[c], y) => Told(r, y)
    <3> SUFFICES ASSUME Told(pipe[c], y)
                 PROVE  Told(r, y)
      OBVIOUS
    <3>1. PICK s \in DOMAIN pipe[c].history :
             /\ pipe[c].history[s].name = y
             /\ pipe[c].history[s].status \in {"ack", "received"}
      BY DEF Told
    <3>2. s \in 1 .. Len(pipe[c].history)
      BY <1>6
    <3>3. s \in DOMAIN h /\ h[s] = pipe[c].history[s]
      BY <1>8, <3>2
    <3> QED
      BY <1>10, <3>1, <3>3 DEF Told
  <2> QED
    BY <1>10, <1>13, <2>1, <2>2 DEF Accounted
<1>15. \A m \in net' \cup delivered' : m \in net \cup delivered \/ Belongs(pipe', m)
  <2> DEFINE d == Data(c, Len(h), n)
  <2>1. pipe'[c] = r
    BY <1>1 DEF IInv, TypeOK, Client
  <2>2. Belongs(pipe', d)
    <3>1. d.client = c /\ d.seq = Len(h) /\ d.name = n /\ d.type = "data"
      BY DEF Data
    <3>2. Len(h) \in 1 .. Len(h) /\ h[Len(h)].name = n
      BY <1>6, <1>8
    <3> HIDE DEF d
    <3> QED
      BY <1>10, <2>1, <3>1, <3>2 DEF Belongs
  <2> HIDE DEF d
  <2>3. net' = net \cup {d} /\ delivered' = delivered
    BY <1>1 DEF PacerSends, d
  <2> QED
    BY <2>2, <2>3
<1>16. /\ prevAckSeqNum' \in Nat /\ published' = published
       /\ published \in [Clients -> [Names -> 0 .. MaxPublish]]
  BY DEF PacerSends, IInv, TypeOK
<1>17. \A d \in Clients \ {c} : published'[d] = published[d]
  BY <1>16
<1>18. published' \in [Clients -> [Names -> 0 .. MaxPublish]]
  BY <1>16
<1> QED
  BY <1>1, <1>10, <1>11, <1>12, <1>14, <1>15, <1>16, <1>17, <1>18, ClientStep

LEMMA AcksTyped ==
  ASSUME NEW r \in Pipe, r.acks # <<>>
  PROVE  /\ Tail(r.acks) \in Seq([seq : Nat, haveAck : BOOLEAN])
         /\ Head(r.acks).seq \in Nat /\ Head(r.acks).haveAck \in BOOLEAN
<1>1. r.acks \in Seq([seq : Nat, haveAck : BOOLEAN])
  BY DEF Pipe
<1>2. Tail(r.acks) \in Seq([seq : Nat, haveAck : BOOLEAN])
      /\ Head(r.acks) \in [seq : Nat, haveAck : BOOLEAN]
  BY <1>1, HeadTailProperties
<1> QED
  BY <1>2

LEMMA HandleAckPreserves ==
  ASSUME IInv, NEW c \in Clients, HandleAck(c)
  PROVE  IInv'
<1> DEFINE a == Head(pipe[c].acks)
           rest == Tail(pipe[c].acks)
<1>1. PICK spread \in [Names -> RttSpreads] :
         Client(c, [RecvAck(pipe[c], a.seq, a.haveAck, spread) EXCEPT !.acks = Tail(@)])
  BY DEF HandleAck
<1> DEFINE f == RecvAck(pipe[c], a.seq, a.haveAck, spread)
           r == [f EXCEPT !.acks = Tail(@)]
<1>2. pipe[c] \in Pipe /\ Placed(pipe[c])
  BY DEF IInv, TypeOK
<1>3. /\ a.seq \in Nat /\ a.haveAck \in BOOLEAN
      /\ rest \in Seq([seq : Nat, haveAck : BOOLEAN])
  BY <1>2, AcksTyped DEF HandleAck
<1>4. Client(c, r)
  BY <1>1
<1>5. f = RecvAck(pipe[c], a.seq, a.haveAck, spread)
  OBVIOUS
<1> HIDE DEF a, f
<1>6. /\ f \in Pipe /\ Placed(f) /\ f.acks = pipe[c].acks
      /\ Continues(pipe[c], f)
      /\ KeepsAccounts(pipe[c], f)
  BY <1>2, <1>3, <1>5, RecvAckKeeps
<1>7. /\ r \in Pipe /\ r.sending = f.sending /\ r.rtxList = f.rtxList
      /\ r.queue = f.queue /\ r.dropped = f.dropped /\ r.history = f.history
  <2>1. r = [f EXCEPT !.acks = rest]
    BY <1>6
  <2> HIDE DEF rest
  <2> QED
    BY <1>3, <1>6, <2>1 DEF Pipe
<1> HIDE DEF r
<1>8. Placed(r) /\ Continues(pipe[c], r)
  BY <1>6, <1>7 DEF Placed, Continues
<1>9. \A n \in Names : Total(r, n) = Total(f, n)
  BY <1>7, Zenon DEF Total
<1>10. KeepsAccounts(pipe[c], r)
  <2>1. KeepsAccounts(f, r)
    BY <1>7, <1>9, SameAccounts
  <2> QED
    BY <1>6, <2>1 DEF KeepsAccounts
<1>11. UNCHANGED <<prevAckSeqNum, published, delivered>> /\ net' \subseteq net
  BY DEF HandleAck
<1> QED
  BY <1>4, <1>7, <1>8, <1>10, <1>11, QuietStep

\* A history with another status for one packet.
LEMMA GiveUpPreserves ==
  ASSUME IInv, NEW c \in Clients, GiveUp(c)
  PROVE  IInv'
<1>1. PICK s \in DOMAIN pipe[c].history :
         /\ pipe[c].history[s].status = "sent"
         /\ Client(c, [pipe[c] EXCEPT !.history[s].status = "lost"])
  BY DEF GiveUp
<1> DEFINE x == [pipe[c].history[s] EXCEPT !.status = "lost"]
           h == [pipe[c].history EXCEPT ![s] = x]
           r == [pipe[c] EXCEPT !.history = h]
<1>2. pipe[c] \in Pipe /\ Placed(pipe[c])
  BY DEF IInv, TypeOK
<1>3. /\ pipe[c].history \in Seq([name : Names, status : Statuses])
      /\ Len(pipe[c].history) \in Nat
      /\ DOMAIN pipe[c].history = 1 .. Len(pipe[c].history)
      /\ pipe[c].history[s] \in [name : Names, status : Statuses]
  <2>1. pipe[c].history \in Seq([name : Names, status : Statuses])
    BY <1>2 DEF Pipe
  <2> QED
    BY <2>1, ElementOfSeq, LenProperties
<1>4. Client(c, r)
  BY <1>1, <1>2 DEF Pipe
<1>5. /\ x \in [name : Names, status : Statuses]
      /\ x.name = pipe[c].history[s].name /\ x.status = "lost"
  BY <1>3 DEF Statuses
<1> HIDE DEF x
<1>6. /\ h \in Seq([name : Names, status : Statuses]) /\ Len(h) = Len(pipe[c].history)
      /\ DOMAIN h = 1 .. Len(pipe[c].history)
      /\ \A t \in 1 .. Len(pipe[c].history) :
            h[t] = IF t = s THEN x ELSE pipe[c].history[t]
  BY <1>3, <1>5, ExceptSeq
<1>7. \A t \in 1 .. Len(pipe[c].history) : h[t].name = pipe[c].history[t].name
  BY <1>5, <1>6
<1>8. Sent(h) = Sent(pipe[c].history)
  BY <1>3, <1>6, <1>7 DEF Sent
<1> HIDE DEF h
<1>9. /\ r \in Pipe /\ r.sending = pipe[c].sending /\ r.rtxList = pipe[c].rtxList
      /\ r.queue = pipe[c].queue /\ r.dropped = pipe[c].dropped /\ r.history = h
  BY <1>2, <1>6 DEF Pipe
<1> HIDE DEF r
<1>10. Placed(r) /\ Continues(pipe[c], r)
  BY <1>2, <1>3, <1>6, <1>7, <1>9 DEF Placed, Continues
<1>11. \A n \in Names : Total(r, n) = Total(pipe[c], n)
  BY <1>8, <1>9, Zenon DEF Total
<1>12. ASSUME NEW n \in Names, Told(pipe[c], n)
       PROVE  Told(r, n)
  <2>1. PICK t \in 1 .. Len(pipe[c].history) :
           /\ pipe[c].history[t].name = n
           /\ pipe[c].history[t].status \in {"ack", "received"}
    BY <1>3, <1>12 DEF Told
  <2>2. t # s
    BY <1>1, <2>1
  <2>3. t \in DOMAIN h /\ h[t] = pipe[c].history[t]
    BY <1>6, <2>2
  <2> QED
    BY <1>9, <2>1, <2>3 DEF Told
<1>13. KeepsAccounts(pipe[c], r)
  BY <1>9, <1>11, <1>12 DEF KeepsAccounts, Accounted
<1>14. UNCHANGED <<prevAckSeqNum, published, delivered>> /\ net' \subseteq net
  BY DEF GiveUp
<1> QED
  BY <1>4, <1>9, <1>10, <1>13, <1>14, QuietStep

LEMMA RecvPacketPreserves ==
  ASSUME IInv, NEW c \in Clients, NEW m \in net, RecvPacket(c, m)
  PROVE  IInv'
<1> DEFINE acks == <<[seq |-> m.seq, haveAck |-> TRUE]>>
                   \o (IF m.prev > 0 THEN <<[seq |-> m.prev, haveAck |-> FALSE]>> ELSE <<>>)
           r == [pipe[c] EXCEPT !.acks = acks]
<1>1. pipe[c] \in Pipe /\ Placed(pipe[c])
  BY DEF IInv, TypeOK
<1>2. Client(c, r)
  BY DEF RecvPacket
<1>3. acks \in Seq([seq : Nat, haveAck : BOOLEAN])
  <2>1. m.seq \in Nat /\ m.prev \in Nat
    BY DEF RecvPacket, IInv, TypeOK
  <2> DEFINE a == [seq |-> m.seq, haveAck |-> TRUE]
             b == [seq |-> m.prev, haveAck |-> FALSE]
  <2>2. a \in [seq : Nat, haveAck : BOOLEAN] /\ b \in [seq : Nat, haveAck : BOOLEAN]
    BY <2>1
  <2> HIDE DEF a, b
  <2>3. /\ <<a>> \in Seq([seq : Nat, haveAck : BOOLEAN])
        /\ <<b>> \in Seq([seq : Nat, haveAck : BOOLEAN])
        /\ <<>> \in Seq([seq : Nat, haveAck : BOOLEAN])
    BY <2>2
  <2>4. acks = <<a>> \o (IF m.prev > 0 THEN <<b>> ELSE <<>>)
    BY DEF a, b
  <2> QED
    BY <2>3, <2>4, ConcatProperties
<1> HIDE DEF acks
<1>4. /\ r \in Pipe /\ r.sending = pipe[c].sending /\ r.rtxList = pipe[c].rtxList
      /\ r.queue = pipe[c].queue /\ r.dropped = pipe[c].dropped
      /\ r.history = pipe[c].history
  BY <1>1, <1>3 DEF Pipe
<1> HIDE DEF r
<1>5. Placed(r) /\ Continues(pipe[c], r)
  BY <1>1, <1>4, SameHistory DEF Placed
<1>6. \A n \in Names : Total(r, n) = Total(pipe[c], n)
  BY <1>4, Zenon DEF Total
<1>7. KeepsAccounts(pipe[c], r)
  BY <1>4, <1>6, SameAccounts
<1>8. UNCHANGED <<prevAckSeqNum, published, delivered>> /\ net' \subseteq net
  BY DEF RecvPacket, Taken
<1> QED
  BY <1>2, <1>4, <1>5, <1>7, <1>8, QuietStep

LEMMA RelayPubPreserves ==
  ASSUME IInv, NEW m \in net, RelayPub(m)
  PROVE  IInv'
<1>1. /\ Belongs(pipe, m) /\ prevAckSeqNum \in Nat /\ pipe' = pipe /\ published' = published
  BY DEF RelayPub, IInv, TypeOK, Belongs
<1> DEFINE a == Ack(m.client, m.seq, prevAckSeqNum)
<1>2. Belongs(pipe, a)
  BY <1>1 DEF Ack, Belongs
<1>3. \A d \in net' \cup delivered' : d \in net \cup delivered \/ d = a
  BY DEF RelayPub, Taken
<1> HIDE DEF a
<1>4. \A d \in net' \cup delivered' : Belongs(pipe', d)
  BY <1>1, <1>2, <1>3 DEF IInv, TypeOK, Belongs
<1>5. prevAckSeqNum' \in Nat
  <2>1. Len(pipe[m.client].history) \in Nat
    BY <1>1, LenProperties DEF IInv, TypeOK, Pipe, Belongs
  <2> QED
    BY <1>1, <2>1 DEF RelayPub, Belongs
<1>6. TypeOK'
  BY <1>1, <1>4, <1>5 DEF IInv, TypeOK, Belongs
<1> QED
  BY <1>1, <1>6 DEF IInv

LEMMA Invariant == Spec => []IInv
<1>1. Init => IInv
  BY InitHolds
<1>2. IInv /\ [Next]_vars => IInv'
  <2> SUFFICES ASSUME IInv, [Next]_vars
               PROVE  IInv'
    OBVIOUS
  <2>1. CASE Next
    BY <2>1, PublishCachesPreserves, PublishRefusedPreserves, PublishQueuesPreserves,
       PacerSendsPreserves, HandleAckPreserves, GiveUpPreserves, RecvPacketPreserves,
       RelayPubPreserves DEF Next
  <2>2. CASE UNCHANGED vars
    BY <2>2 DEF vars, IInv, TypeOK
  <2> QED
    BY <2>1, <2>2
<1> QED
  BY <1>1, <1>2, PTL DEF Spec

\* Every variable keeps its type; a datagram belongs to a packet of its client's
\* history.
THEOREM TypeCorrect == Spec => []TypeOK
BY Invariant, PTL DEF IInv

\* On any network, whatever the round trips, the queue bound and the threads do, a
\* packet that RetransmitPipe has forgotten was acknowledged or has a second copy.
THEOREM PacketsAreKept == Spec => []NothingForgotten
<1>1. IInv => NothingForgotten
  <2> SUFFICES ASSUME IInv, NEW c \in Clients, NEW n \in Names,
                      published[c][n] > 0, n \notin pipe[c].rtxList
               PROVE  Acknowledged(c, n) \/ Copies(c, n) + pipe[c].dropped[n] >= 2
    BY DEF NothingForgotten
  <2>1. Told(pipe[c], n) \/ Total(pipe[c], n) >= 2
    BY DEF IInv, Accounted
  <2>2. Total(pipe[c], n) = Copies(c, n) + pipe[c].dropped[n]
    BY DEF Total, Copies, In
  <2> QED
    BY <2>1, <2>2 DEF Told, Acknowledged
<1> QED
  BY <1>1, Invariant, PTL

\* No publication puts more than two packets on the wire.
THEOREM AtMostTwice == Spec => []SentAtMostTwice
<1>1. IInv => SentAtMostTwice
  <2> SUFFICES ASSUME IInv, NEW c \in Clients, NEW n \in Names
               PROVE  Copies(c, n) <= 2 * published[c][n]
    BY DEF SentAtMostTwice
  <2>1. Total(pipe[c], n) + In(n, pipe[c].rtxList) <= 2 * published[c][n]
    BY DEF IInv, Accounted
  <2>2. /\ Total(pipe[c], n) = Copies(c, n) + pipe[c].dropped[n]
        /\ pipe[c].dropped[n] \in Nat /\ In(n, pipe[c].rtxList) \in Nat
        /\ Copies(c, n) \in Nat /\ published[c][n] \in Nat
    <3>1. pipe[c] \in Pipe /\ published[c][n] \in Nat
      BY SendPathAssumption DEF IInv, TypeOK
    <3> QED
      BY <3>1, TotalType DEF Total, Copies, In
  <2> HIDE DEF Copies
  <2> QED
    BY <2>1, <2>2
<1> QED
  BY <1>1, Invariant, PTL

-----------------------------------------------------------------------------
(* What a single client takes for acknowledged *)

\* Packet s of client c has reached the relay.
Reached(p, d, c, s) ==
    s \in 1 .. Len(p[c].history) /\ Data(c, s, p[c].history[s].name) \in d

RInv ==
    /\ prevAckSeqNum > 0 => \A c \in Clients : Reached(pipe, delivered, c, prevAckSeqNum)
    /\ \A m \in net : m.type = "data" => m = Data(m.client, m.seq, m.name)
    /\ \A m \in net : m.type = "ack" =>
          /\ Reached(pipe, delivered, m.client, m.seq)
          /\ m.prev > 0 => Reached(pipe, delivered, m.client, m.prev)
    /\ \A c \in Clients : \A i \in DOMAIN pipe[c].acks :
          Reached(pipe, delivered, c, pipe[c].acks[i].seq)
    /\ \A c \in Clients : \A s \in 1 .. Len(pipe[c].history) :
          pipe[c].history[s].status \in Reported => Reached(pipe, delivered, c, s)

\* A step of one client, after which it has no acknowledgement and no report of a
\* packet that has not reached the relay.
LEMMA ReachedStep ==
  ASSUME IInv, RInv, NEW c \in Clients, NEW r, Client(c, r), Continues(pipe[c], r),
         prevAckSeqNum' = prevAckSeqNum, delivered' = delivered,
         \A m \in net' : m \in net \/ \E s, n : m = Data(c, s, n),
         \A i \in DOMAIN r.acks : Reached(pipe, delivered, c, r.acks[i].seq),
         Len(r.history) \in Nat,
         \A s \in 1 .. Len(r.history) : r.history[s].status \in Reported =>
            Reached(pipe, delivered, c, s)
  PROVE  RInv'
<1>1. /\ pipe \in [Clients -> Pipe]
      /\ \A d \in Clients : pipe'[d] = IF d = c THEN r ELSE pipe[d]
  BY DEF IInv, TypeOK, Client
<1>2. ASSUME NEW d \in Clients, NEW s, Reached(pipe, delivered, d, s)
      PROVE  Reached(pipe', delivered', d, s)
  <2>1. Len(pipe[c].history) \in Nat
    BY <1>1, LenProperties DEF Pipe
  <2>2. CASE d = c
    BY <1>1, <1>2, <2>1, <2>2 DEF Reached, Continues
  <2>3. CASE d # c
    BY <1>1, <1>2, <2>3 DEF Reached
  <2> QED
    BY <2>2, <2>3
<1>3. prevAckSeqNum' > 0 => \A d \in Clients : Reached(pipe', delivered', d, prevAckSeqNum')
  BY <1>2 DEF RInv
<1>4. ASSUME NEW m \in net'
      PROVE  /\ m.type = "data" => m = Data(m.client, m.seq, m.name)
             /\ m.type = "ack" =>
                   /\ Reached(pipe', delivered', m.client, m.seq)
                   /\ m.prev > 0 => Reached(pipe', delivered', m.client, m.prev)
  <2>1. CASE m \in net
    <3>1. m.client \in Clients
      BY <2>1 DEF IInv, TypeOK
    <3> QED
      BY <1>2, <2>1, <3>1 DEF RInv
  <2>2. ASSUME NEW s, NEW n, m = Data(c, s, n)
        PROVE  m.type = "data" /\ m = Data(m.client, m.seq, m.name)
    BY <2>2 DEF Data
  <2> QED
    BY <2>1, <2>2
<1>5. ASSUME NEW d \in Clients, NEW i \in DOMAIN pipe'[d].acks
      PROVE  Reached(pipe', delivered', d, pipe'[d].acks[i].seq)
  <2>1. CASE d = c
    BY <1>1, <1>2, <1>5, <2>1
  <2>2. CASE d # c
    BY <1>1, <1>2, <1>5, <2>2 DEF RInv
  <2> QED
    BY <2>1, <2>2
<1>6. ASSUME NEW d \in Clients, NEW s \in 1 .. Len(pipe'[d].history),
             pipe'[d].history[s].status \in Reported
      PROVE  Reached(pipe', delivered', d, s)
  <2>1. CASE d = c
    BY <1>1, <1>2, <1>6, <2>1
  <2>2. CASE d # c
    BY <1>1, <1>2, <1>6, <2>2 DEF RInv
  <2> QED
    BY <2>1, <2>2
<1> QED
  BY <1>3, <1>4, <1>5, <1>6 DEF RInv

\* A client that keeps its history and its acknowledgements keeps them true.
LEMMA ReachedUnchanged ==
  ASSUME IInv, RInv, NEW c \in Clients, NEW r, Client(c, r),
         r.history = pipe[c].history, r.acks = pipe[c].acks,
         UNCHANGED <<prevAckSeqNum, net, delivered>>
  PROVE  RInv'
<1>1. pipe[c] \in Pipe
  BY DEF IInv, TypeOK
<1>2. Continues(pipe[c], r) /\ Len(r.history) \in Nat
  BY <1>1, SameHistory, LenProperties DEF Pipe
<1>3. \A i \in DOMAIN r.acks : Reached(pipe, delivered, c, r.acks[i].seq)
  BY DEF RInv
<1>4. \A s \in 1 .. Len(r.history) : r.history[s].status \in Reported =>
         Reached(pipe, delivered, c, s)
  BY DEF RInv
<1> QED
  BY <1>2, <1>3, <1>4, ReachedStep

LEMMA PublishReached ==
  ASSUME IInv, RInv, NEW c \in Clients, NEW n \in Names,
         PublishCaches(c, n) \/ PublishRefused(c, n) \/ PublishQueues(c)
  PROVE  RInv'
<1>1. pipe[c] \in Pipe /\ Placed(pipe[c])
  BY DEF IInv, TypeOK
<1>2. UNCHANGED <<prevAckSeqNum, net, delivered>>
  BY DEF PublishCaches, PublishRefused, PublishQueues
<1>3. CASE PublishCaches(c, n)
  <2>1. PICK k \in 0 .. Len(pipe[c].sendList) :
           Client(c, [Fec(pipe[c], n, k) EXCEPT !.sending = n, !.rtxList = @ \cup {n}])
    BY <1>3 DEF PublishCaches
  <2> DEFINE f == Fec(pipe[c], n, k)
             r == [f EXCEPT !.sending = n, !.rtxList = @ \cup {n}]
  <2>2. f \in Pipe /\ f.history = pipe[c].history /\ f.acks = pipe[c].acks
    BY <1>1, FecAddsNothing
  <2>3. Client(c, r)
    BY <2>1
  <2> HIDE DEF f
  <2>4. r.history = pipe[c].history /\ r.acks = pipe[c].acks
    BY <2>2 DEF Pipe
  <2> HIDE DEF r
  <2> QED
    BY <1>2, <2>3, <2>4, ReachedUnchanged
<1>4. CASE PublishRefused(c, n)
  <2>1. PICK k \in 0 .. Len(pipe[c].sendList) : Client(c, Fec(pipe[c], n, k))
    BY <1>4 DEF PublishRefused
  <2> DEFINE f == Fec(pipe[c], n, k)
  <2>2. f.history = pipe[c].history /\ f.acks = pipe[c].acks
    BY <1>1, FecAddsNothing
  <2>3. Client(c, f)
    BY <2>1
  <2> HIDE DEF f
  <2> QED
    BY <1>2, <2>2, <2>3, ReachedUnchanged
<1>5. CASE PublishQueues(c)
  <2> DEFINE f == [pipe[c] EXCEPT !.sending = Idle]
             r == Enqueue(f, {pipe[c].sending})
  <2>1. Client(c, r) /\ pipe[c].sending \in Names
    BY <1>1, <1>5 DEF PublishQueues, Pipe
  <2>2. /\ f \in Pipe /\ f.queue = pipe[c].queue
        /\ f.history = pipe[c].history /\ f.acks = pipe[c].acks
    BY <1>1 DEF Pipe
  <2> HIDE DEF f
  <2>3. Placed(f)
    BY <1>1, <2>2 DEF Placed
  <2>4. r.history = f.history /\ r.acks = f.acks
    BY <2>1, <2>2, <2>3, EnqueueAdds
  <2> HIDE DEF r
  <2> QED
    BY <1>2, <2>1, <2>2, <2>4, ReachedUnchanged
<1> QED
  BY <1>3, <1>4, <1>5

LEMMA PacerSendsReached ==
  ASSUME IInv, RInv, NEW c \in Clients, PacerSends(c)
  PROVE  RInv'
<1> DEFINE p == CHOOSE x \in Served(c) : \A y \in Served(c) : y <= x
           n == Head(pipe[c].queue[p])
           x == [name |-> n, status |-> "sent"]
           h == Append(pipe[c].history, x)
           r == [pipe[c] EXCEPT !.queue[p] = Tail(@), !.history = h]
<1>1. /\ Client(c, r) /\ net' = net \cup {Data(c, Len(h), n)}
      /\ prevAckSeqNum' = prevAckSeqNum /\ delivered' = delivered
  BY DEF PacerSends
<1>2. pipe[c] \in Pipe
  BY DEF IInv, TypeOK
<1>3. p \in 1 .. MaxPriority /\ p \in Priorities /\ pipe[c].queue[p] # <<>>
  BY Chosen DEF PacerSends
<1> HIDE DEF p
<1>4. n \in Names
  <2>1. pipe[c].queue[p] \in Seq(Names)
    BY <1>2, <1>3 DEF Pipe
  <2> QED
    BY <1>3, <2>1, HeadTailProperties
<1>5. /\ pipe[c].history \in Seq([name : Names, status : Statuses])
      /\ x \in [name : Names, status : Statuses] /\ x.status = "sent"
  BY <1>2, <1>4 DEF Pipe, Statuses
<1>6. r.history = h /\ r.acks = pipe[c].acks
  BY <1>2 DEF Pipe
<1> HIDE DEF r, x
<1>7. /\ Len(pipe[c].history) \in Nat /\ Len(h) = Len(pipe[c].history) + 1
      /\ \A s \in 1 .. Len(pipe[c].history) : h[s] = pipe[c].history[s]
      /\ h[Len(pipe[c].history) + 1] = x
  BY <1>5, AppendProperties, LenProperties
<1> HIDE DEF h
<1>8. Continues(pipe[c], r) /\ Len(r.history) \in Nat
  BY <1>6, <1>7 DEF Continues
<1>9. \A m \in net' : m \in net \/ \E s, y : m = Data(c, s, y)
  BY <1>1
<1>10. \A i \in DOMAIN r.acks : Reached(pipe, delivered, c, r.acks[i].seq)
  BY <1>6 DEF RInv
<1>11. ASSUME NEW s \in 1 .. Len(r.history), r.history[s].status \in Reported
       PROVE  Reached(pipe, delivered, c, s)
  <2>1. s \in 1 .. Len(pipe[c].history) \/ s = Len(pipe[c].history) + 1
    BY <1>6, <1>7
  <2>2. s # Len(pipe[c].history) + 1
    BY <1>5, <1>6, <1>7, <1>11 DEF Reported
  <2> QED
    BY <1>6, <1>7, <1>11, <2>1, <2>2 DEF RInv
<1> QED
  BY <1>1, <1>8, <1>9, <1>10, <1>11, ReachedStep

LEMMA HandleAckReached ==
  ASSUME IInv, RInv, NEW c \in Clients, HandleAck(c)
  PROVE  RInv'
<1> DEFINE a == Head(pipe[c].acks)
<1>1. PICK spread \in [Names -> RttSpreads] :
         Client(c, [RecvAck(pipe[c], a.seq, a.haveAck, spread) EXCEPT !.acks = Tail(@)])
  BY DEF HandleAck
<1> DEFINE f == RecvAck(pipe[c], a.seq, a.haveAck, spread)
           r == [f EXCEPT !.acks = Tail(@)]
<1>2. pipe[c] \in Pipe /\ Placed(pipe[c])
  BY DEF IInv, TypeOK
<1>3. a.seq \in Nat /\ a.haveAck \in BOOLEAN
  BY <1>2, AcksTyped DEF HandleAck
<1>4. Client(c, r) /\ UNCHANGED <<prevAckSeqNum, net, delivered>>
  BY <1>1 DEF HandleAck
<1>5. f = RecvAck(pipe[c], a.seq, a.haveAck, spread)
  OBVIOUS
<1>6. /\ Reached(pipe, delivered, c, a.seq)
      /\ \A i \in DOMAIN Tail(pipe[c].acks) :
            Reached(pipe, delivered, c, Tail(pipe[c].acks)[i].seq)
  <2> DEFINE q == pipe[c].acks
  <2>1. q \in Seq([seq : Nat, haveAck : BOOLEAN]) /\ q # <<>>
    BY <1>2 DEF Pipe, HandleAck
  <2>2. \A i \in DOMAIN q : Reached(pipe, delivered, c, q[i].seq)
    BY DEF RInv
  <2> HIDE DEF q
  <2>3. 1 \in DOMAIN q /\ Head(q) = q[1]
    BY <2>1
  <2>4. \A i \in DOMAIN Tail(q) : i + 1 \in DOMAIN q /\ Tail(q)[i] = q[i + 1]
    BY <2>1
  <2>5. a = q[1]
    BY <2>3 DEF q
  <2>6. \A i \in DOMAIN Tail(q) : Reached(pipe, delivered, c, Tail(q)[i].seq)
    BY <2>2, <2>4
  <2> HIDE DEF a
  <2> QED
    BY <2>2, <2>3, <2>5, <2>6 DEF q
<1> HIDE DEF a, f
<1>7. /\ f \in Pipe /\ f.acks = pipe[c].acks
      /\ Len(f.history) = Len(pipe[c].history) /\ Continues(pipe[c], f)
      /\ \A t \in 1 .. Len(pipe[c].history) : f.history[t].status \in Reported =>
            pipe[c].history[t].status \in Reported \/ t = a.seq
  BY <1>2, <1>3, <1>5, RecvAckKeeps
<1>8. r.history = f.history /\ r.acks = Tail(pipe[c].acks)
  BY <1>7 DEF Pipe
<1> HIDE DEF r
<1>9. Continues(pipe[c], r) /\ Len(r.history) \in Nat /\ Len(r.history) = Len(pipe[c].history)
  BY <1>2, <1>7, <1>8, LenProperties DEF Continues, Pipe
<1>10. \A s \in 1 .. Len(r.history) : r.history[s].status \in Reported =>
          Reached(pipe, delivered, c, s)
  BY <1>6, <1>7, <1>8, <1>9 DEF RInv
<1>11. \A i \in DOMAIN r.acks : Reached(pipe, delivered, c, r.acks[i].seq)
  BY <1>6, <1>8
<1> QED
  BY <1>4, <1>9, <1>10, <1>11, ReachedStep

LEMMA GiveUpReached ==
  ASSUME IInv, RInv, NEW c \in Clients, GiveUp(c)
  PROVE  RInv'
<1>1. PICK s \in DOMAIN pipe[c].history :
         Client(c, [pipe[c] EXCEPT !.history[s].status = "lost"])
  BY DEF GiveUp
<1> DEFINE x == [pipe[c].history[s] EXCEPT !.status = "lost"]
           h == [pipe[c].history EXCEPT ![s] = x]
           r == [pipe[c] EXCEPT !.history = h]
<1>2. pipe[c] \in Pipe
  BY DEF IInv, TypeOK
<1>3. /\ pipe[c].history \in Seq([name : Names, status : Statuses])
      /\ Len(pipe[c].history) \in Nat /\ s \in 1 .. Len(pipe[c].history)
      /\ pipe[c].history[s] \in [name : Names, status : Statuses]
  <2>1. pipe[c].history \in Seq([name : Names, status : Statuses])
    BY <1>2 DEF Pipe
  <2> QED
    BY <2>1, ElementOfSeq, LenProperties
<1>4. Client(c, r) /\ UNCHANGED <<prevAckSeqNum, net, delivered>>
  BY <1>1, <1>2 DEF Pipe, GiveUp
<1>5. /\ x \in [name : Names, status : Statuses]
      /\ x.name = pipe[c].history[s].name /\ x.status = "lost"
  BY <1>3 DEF Statuses
<1> HIDE DEF x
<1>6. /\ Len(h) = Len(pipe[c].history)
      /\ \A t \in 1 .. Len(pipe[c].history) :
            h[t] = IF t = s THEN x ELSE pipe[c].history[t]
  BY <1>3, <1>5, ExceptSeq
<1> HIDE DEF h
<1>7. r.history = h /\ r.acks = pipe[c].acks
  BY <1>2 DEF Pipe
<1> HIDE DEF r
<1>8. Continues(pipe[c], r) /\ Len(r.history) \in Nat
  BY <1>3, <1>5, <1>6, <1>7 DEF Continues
<1>9. \A t \in 1 .. Len(r.history) : r.history[t].status \in Reported =>
         Reached(pipe, delivered, c, t)
  BY <1>5, <1>6, <1>7 DEF RInv, Reported
<1>10. \A i \in DOMAIN r.acks : Reached(pipe, delivered, c, r.acks[i].seq)
  BY <1>7 DEF RInv
<1> QED
  BY <1>4, <1>8, <1>9, <1>10, ReachedStep

LEMMA RecvPacketReached ==
  ASSUME IInv, RInv, NEW c \in Clients, NEW m \in net, RecvPacket(c, m)
  PROVE  RInv'
<1> DEFINE a == [seq |-> m.seq, haveAck |-> TRUE]
           b == [seq |-> m.prev, haveAck |-> FALSE]
           acks == <<a>> \o (IF m.prev > 0 THEN <<b>> ELSE <<>>)
           r == [pipe[c] EXCEPT !.acks = acks]
<1>1. pipe[c] \in Pipe
  BY DEF IInv, TypeOK
<1>2. /\ Client(c, r) /\ net' \subseteq net
      /\ prevAckSeqNum' = prevAckSeqNum /\ delivered' = delivered
  BY DEF RecvPacket, Taken
<1>3. /\ Reached(pipe, delivered, c, m.seq)
      /\ m.prev > 0 => Reached(pipe, delivered, c, m.prev)
  BY DEF RecvPacket, RInv
<1>4. a.seq = m.seq /\ b.seq = m.prev
  OBVIOUS
<1> HIDE DEF a, b
<1>5. \A i \in DOMAIN acks : acks[i] = a \/ (m.prev > 0 /\ acks[i] = b)
  <2> DEFINE T == IF m.prev > 0 THEN {a, b} ELSE {a}
             t == IF m.prev > 0 THEN <<b>> ELSE <<>>
  <2>1. <<a>> \in Seq(T) /\ t \in Seq(T)
    <3>1. CASE m.prev > 0
      <4>1. T = {a, b} /\ t = <<b>>
        BY <3>1
      <4> HIDE DEF T, t
      <4> QED
        BY <4>1
    <3>2. CASE ~(m.prev > 0)
      <4>1. T = {a} /\ t = <<>>
        BY <3>2
      <4> HIDE DEF T, t
      <4> QED
        BY <4>1
    <3> QED
      BY <3>1, <3>2
  <2>2. acks = <<a>> \o t
    OBVIOUS
  <2> HIDE DEF T, t, acks
  <2>3. acks \in Seq(T)
    BY <2>1, <2>2, ConcatProperties
  <2>4. \A i \in DOMAIN acks : acks[i] \in T
    BY <2>3, ElementOfSeq, LenProperties
  <2> QED
    BY <2>4 DEF T
<1>6. Client(c, r)
  BY <1>2
<1> HIDE DEF acks
<1>7. r.history = pipe[c].history /\ r.acks = acks
  BY <1>1 DEF Pipe
<1> HIDE DEF r
<1>8. \A i \in DOMAIN r.acks : Reached(pipe, delivered, c, r.acks[i].seq)
  BY <1>3, <1>4, <1>5, <1>7
<1>9. Continues(pipe[c], r) /\ Len(r.history) \in Nat
  BY <1>1, <1>7, SameHistory, LenProperties DEF Pipe
<1>10. \A s \in 1 .. Len(r.history) : r.history[s].status \in Reported =>
          Reached(pipe, delivered, c, s)
  BY <1>7 DEF RInv
<1> QED
  BY <1>2, <1>6, <1>8, <1>9, <1>10, ReachedStep

LEMMA RelayPubReached ==
  ASSUME \A c, d \in Clients : c = d, IInv, RInv, NEW m \in net, RelayPub(m)
  PROVE  RInv'
<1>1. /\ m.type = "data" /\ pipe' = pipe /\ prevAckSeqNum' = m.seq
      /\ delivered' = delivered \cup {m}
      /\ net' \subseteq net \cup {Ack(m.client, m.seq, prevAckSeqNum)}
  BY DEF RelayPub, Taken
<1>2. /\ m.client \in Clients /\ m.seq \in 1 .. Len(pipe[m.client].history)
      /\ pipe[m.client].history[m.seq].name = m.name
      /\ m = Data(m.client, m.seq, m.name)
  BY <1>1 DEF IInv, TypeOK, RInv
<1>3. Reached(pipe', delivered', m.client, m.seq)
  BY <1>1, <1>2 DEF Reached
<1>4. \A c \in Clients : \A s : Reached(pipe, delivered, c, s) => Reached(pipe', delivered', c, s)
  BY <1>1 DEF Reached
<1>5. \A c \in Clients : Reached(pipe', delivered', c, prevAckSeqNum')
  BY <1>1, <1>2, <1>3
<1> DEFINE a == Ack(m.client, m.seq, prevAckSeqNum)
<1>6. a.type = "ack" /\ a.client = m.client /\ a.seq = m.seq /\ a.prev = prevAckSeqNum
  BY DEF Ack
<1>7. a.prev > 0 => Reached(pipe', delivered', m.client, a.prev)
  BY <1>2, <1>4, <1>6 DEF RInv
<1>8. \A d \in net' : d \in net \/ d = a
  BY <1>1
<1> HIDE DEF a
<1>9. ASSUME NEW d \in net'
      PROVE  /\ d.type = "data" => d = Data(d.client, d.seq, d.name)
             /\ d.type = "ack" =>
                   /\ Reached(pipe', delivered', d.client, d.seq)
                   /\ d.prev > 0 => Reached(pipe', delivered', d.client, d.prev)
  <2>1. CASE d \in net
    <3>1. d.client \in Clients
      BY <2>1 DEF IInv, TypeOK
    <3> QED
      BY <1>4, <2>1, <3>1 DEF RInv
  <2>2. CASE d = a
    BY <1>3, <1>6, <1>7, <2>2
  <2> QED
    BY <1>8, <2>1, <2>2
<1>10. \A c \in Clients : \A i \in DOMAIN pipe'[c].acks :
          Reached(pipe', delivered', c, pipe'[c].acks[i].seq)
  BY <1>1, <1>4 DEF RInv
<1>11. \A c \in Clients : \A s \in 1 .. Len(pipe'[c].history) :
          pipe'[c].history[s].status \in Reported => Reached(pipe', delivered', c, s)
  BY <1>1, <1>4 DEF RInv
<1> QED
  BY <1>5, <1>9, <1>10, <1>11 DEF RInv

\* With a single client, what counts as acknowledged has reached the relay: the
\* redundant acknowledgement (relay.cc prevAckSeqNum) can only name a packet of the
\* same client.  With two clients it does not hold: SendPathTwoClients.
THEOREM AckedReached ==
  ASSUME \A c, d \in Clients : c = d
  PROVE  Spec => []AckedWasReceived
<1>1. Init => RInv
  BY DEF Init, RInv
<1>2. IInv /\ RInv /\ [Next]_vars => RInv'
  <2> SUFFICES ASSUME IInv, RInv, [Next]_vars
               PROVE  RInv'
    OBVIOUS
  <2>1. CASE Next
    <3>1. ASSUME NEW c \in Clients, NEW n \in Names, PublishCaches(c, n) \/ PublishRefused(c, n)
          PROVE  RInv'
      BY <3>1, PublishReached
    <3>2. ASSUME NEW c \in Clients, PublishQueues(c)
          PROVE  RInv'
      <4>1. pipe[c].sending \in Names
        BY <3>2 DEF PublishQueues, IInv, TypeOK, Pipe
      <4> QED
        BY <3>2, <4>1, PublishReached
    <3> QED
      BY <2>1, <3>1, <3>2, PacerSendsReached, HandleAckReached, GiveUpReached,
         RecvPacketReached, RelayPubReached DEF Next
  <2>2. CASE UNCHANGED vars
    BY <2>2 DEF vars, RInv
  <2> QED
    BY <2>1, <2>2
<1>3. IInv /\ RInv => AckedWasReceived
  <2> SUFFICES ASSUME IInv, RInv, NEW c \in Clients, NEW s \in DOMAIN pipe[c].history,
                      pipe[c].history[s].status \in Reported
               PROVE  Data(c, s, pipe[c].history[s].name) \in delivered
    BY DEF AckedWasReceived, Reported
  <2>1. s \in 1 .. Len(pipe[c].history)
    BY LenProperties DEF IInv, TypeOK, Pipe
  <2> QED
    BY <2>1 DEF RInv, Reached
<1> QED
  BY <1>1, <1>2, <1>3, Invariant, PTL DEF Spec
=============================================================================
