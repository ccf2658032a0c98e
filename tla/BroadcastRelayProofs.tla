------------------------ MODULE BroadcastRelayProofs ------------------------
(***************************************************************************)
(* Proofs about the relay of cmd/qbroadcast, for any clients, names and    *)
(* publications and a counter of any width.                                *)
(***************************************************************************)
EXTENDS BroadcastRelay, TLAPS

\* The connection of a copy has counted the publications since the copy, up to a
\* multiple of Word.  A single multiple for all copies would not do: the counters
\* wrap at different times.
Numbered ==
    \A d \in Copies :
        /\ d.name \in DOMAIN connectionMap
        /\ d.relaySeqNum \in Int /\ d.count \in Int
        /\ \E k \in Int : connectionMap[d.name].relaySeqNum - d.relaySeqNum
                             = (count - d.count) + Word * k

IInv == TypeOK /\ Numbered

-----------------------------------------------------------------------------
(* Multiples and remainders, of which the provers know little *)

\* Quotient and remainder.
LEMMA Division ==
  ASSUME NEW a \in Int, NEW d \in Nat \ {0}
  PROVE  /\ a \div d \in Int /\ a % d \in 0 .. d - 1
         /\ a % d = a - d * (a \div d)
         /\ a >= 0 => a \div d >= 0
<1>1. a \div d \in Int /\ a % d \in 0 .. d - 1
  BY SMTT(30)
<1>2. a % d = a - d * (a \div d)
  BY SMTT(30)
<1>3. ASSUME a >= 0, a \div d <= -1
      PROVE  FALSE
  <2>1. d * (a \div d) <= -d
    BY <1>1, <1>3
  <2> QED
    BY <1>1, <1>2, <1>3, <2>1
<1> QED
  BY <1>1, <1>2, <1>3

\* Numbers a multiple of d apart have one remainder.
LEMMA SameRemainder ==
  ASSUME NEW d \in Nat \ {0}, NEW a \in Int, NEW b \in Int, NEW k \in Int, a = b + d * k
  PROVE  a % d = b % d
<1> DEFINE q == (a \div d) - (b \div d) - k
           r == b % d
           s == a % d
<1>1. /\ q \in Int /\ r \in 0 .. d - 1 /\ s \in 0 .. d - 1
      /\ a = d * (a \div d) + s /\ b = d * (b \div d) + r
      /\ a \div d \in Int /\ b \div d \in Int
  BY Division
<1>2. d * q = d * (a \div d) - d * (b \div d) - d * k
  BY <1>1
<1>3. d * q = r - s
  BY <1>1, <1>2
<1> HIDE DEF q, r, s
<1>4. q >= 1 => d * q >= d
  BY <1>1
<1>5. q <= -1 => d * q <= -d
  BY <1>1
<1>6. q = 0
  BY <1>1, <1>3, <1>4, <1>5
<1>7. d * q = 0
  BY <1>6
<1> QED
  BY <1>1, <1>3, <1>7 DEF r, s

-----------------------------------------------------------------------------
(* The counters *)

LEMMA CountedTyped ==
  ASSUME NEW con \in [address : Clients, relaySeqNum : 0 .. Word - 1]
  PROVE  /\ Counted(con) \in [address : Clients, relaySeqNum : 0 .. Word - 1]
         /\ Counted(con).address = con.address
         /\ \E q \in Int : Counted(con).relaySeqNum = (con.relaySeqNum + 1) - Word * q
<1> DEFINE x == con.relaySeqNum + 1
<1>1. x \in Int /\ con.address \in Clients /\ Word \in Nat \ {0}
  BY BroadcastAssumption
<1>2. Counted(con) = [address |-> con.address, relaySeqNum |-> x % Word]
  BY DEF Counted
<1> HIDE DEF x
<1>3. x \div Word \in Int /\ x % Word \in 0 .. Word - 1 /\ x % Word = x - Word * (x \div Word)
  BY <1>1, Division
<1>4. /\ Counted(con).address = con.address /\ Counted(con).relaySeqNum = x % Word
      /\ Counted(con) \in [address : Clients, relaySeqNum : 0 .. Word - 1]
  BY <1>1, <1>2, <1>3
<1> QED
  BY <1>3, <1>4 DEF x

LEMMA InvInit ==
  ASSUME Init
  PROVE  IInv
BY BroadcastAssumption DEF Init, IInv, TypeOK, Numbered, Copies

LEMMA InvSub ==
  ASSUME IInv, NEW c \in Clients, NEW n \in Names, ProcessSub(c, n)
  PROVE  IInv'
<1>1. UNCHANGED <<prevAckSeqNum, toClients, count>> /\ Copies' = Copies
  BY DEF ProcessSub, Copies
<1>2. CASE n \in DOMAIN connectionMap
  <2>1. connectionMap' = connectionMap
    BY <1>2 DEF ProcessSub
  <2> QED
    BY <1>1, <2>1 DEF IInv, TypeOK, Numbered
<1>3. CASE n \notin DOMAIN connectionMap
  <2>1. PICK random \in RelaySeqNums :
           connectionMap' = [k \in DOMAIN connectionMap \cup {n} |->
                                IF k = n THEN [address |-> c, relaySeqNum |-> random]
                                ELSE connectionMap[k]]
    BY <1>3 DEF ProcessSub
  <2>2. random \in 0 .. Word - 1
    BY BroadcastAssumption
  <2>3. TypeOK'
    BY <1>1, <2>1, <2>2 DEF IInv, TypeOK
  <2>4. Numbered'
    <3> SUFFICES ASSUME NEW d \in Copies
                 PROVE  /\ d.name \in DOMAIN connectionMap'
                        /\ connectionMap'[d.name] = connectionMap[d.name]
      BY <1>1 DEF IInv, Numbered
    <3> QED
      BY <1>3, <2>1 DEF IInv, Numbered
  <2> QED
    BY <2>3, <2>4 DEF IInv
<1> QED
  BY <1>2, <1>3

LEMMA InvPub ==
  ASSUME IInv, NEW c \in Clients, NEW s \in Seqs, NEW p \in Packets, ProcessPub(c, s, p)
  PROVE  IInv'
<1> DEFINE Connection == [address : Clients, relaySeqNum : 0 .. Word - 1]
           new == {Data(n, connectionMap[n], p, p.size - 2) : n \in DOMAIN connectionMap}
<1>1. /\ count \in 0 .. MaxPub /\ count < MaxPub /\ count' = count + 1
      /\ MaxPub \in Nat /\ Word \in Nat \ {0}
      /\ connectionMap' = [n \in DOMAIN connectionMap |-> Counted(connectionMap[n])]
      /\ toClients' = toClients \cup {Ack(c, s, prevAckSeqNum)} \cup new
      /\ prevAckSeqNum' = s
  BY BroadcastAssumption DEF IInv, TypeOK, ProcessPub
<1>2. \A n \in DOMAIN connectionMap : n \in Names /\ connectionMap[n] \in Connection
  BY DEF IInv, TypeOK
<1>3. TypeOK'
  <2>1. \A n \in DOMAIN connectionMap' : n \in Names /\ connectionMap'[n] \in Connection
    BY <1>1, <1>2, CountedTyped
  <2>2. \A m \in toClients' : m.to \in Clients
    BY <1>1, <1>2 DEF IInv, TypeOK, Ack, Data
  <2> QED
    BY <1>1, <2>1, <2>2 DEF TypeOK
<1>4. ASSUME NEW d, d.name \in DOMAIN connectionMap,
             d.relaySeqNum \in Int, d.count \in Int,
             NEW k \in Int, connectionMap[d.name].relaySeqNum - d.relaySeqNum
                               = (count - d.count) + Word * k
      PROVE  \E j \in Int : connectionMap'[d.name].relaySeqNum - d.relaySeqNum
                               = (count' - d.count) + Word * j
  <2> DEFINE x == connectionMap[d.name].relaySeqNum
             y == connectionMap'[d.name].relaySeqNum
  <2>1. x \in Int
    BY <1>1, <1>2, <1>4
  <2>2. PICK q \in Int : y = (x + 1) - Word * q
    BY <1>1, <1>2, <1>4, CountedTyped
  <2>3. x - d.relaySeqNum = (count - d.count) + Word * k
    BY <1>4
  <2> HIDE DEF x, y
  <2>4. Word * (k - q) = Word * k - Word * q /\ Word * k \in Int /\ Word * q \in Int
    BY <1>1, <1>4
  <2>5. y - d.relaySeqNum = (count' - d.count) + Word * (k - q)
    <3>1. count \in Int /\ count' = count + 1 /\ d.relaySeqNum \in Int /\ d.count \in Int
      BY <1>1, <1>4
    <3> QED
      BY <2>1, <2>2, <2>3, <2>4, <3>1
  <2>6. k - q \in Int
    BY <1>4
  <2> QED
    BY <2>5, <2>6 DEF y
<1>5. Copies' = Copies \cup new
  BY <1>1 DEF Copies, Ack, Data
<1>6. Numbered'
  <2>1. ASSUME NEW d \in Copies
        PROVE  /\ d.name \in DOMAIN connectionMap'
               /\ d.relaySeqNum \in Int /\ d.count \in Int
               /\ \E k \in Int : connectionMap'[d.name].relaySeqNum - d.relaySeqNum
                                    = (count' - d.count) + Word * k
    BY <1>1, <1>4 DEF IInv, Numbered
  <2>2. ASSUME NEW n \in DOMAIN connectionMap
        PROVE  LET d == Data(n, connectionMap[n], p, p.size - 2)
               IN /\ d.name \in DOMAIN connectionMap'
                  /\ d.relaySeqNum \in Int /\ d.count \in Int
                  /\ \E k \in Int : connectionMap'[d.name].relaySeqNum - d.relaySeqNum
                                       = (count' - d.count) + Word * k
    <3> DEFINE d == Data(n, connectionMap[n], p, p.size - 2)
    <3>1. /\ d.name = n /\ d.relaySeqNum = connectionMap[n].relaySeqNum /\ d.count = count
          /\ d.relaySeqNum \in Int /\ d.count \in Int
      BY <1>1, <1>2 DEF Data
    <3>2. connectionMap[d.name].relaySeqNum - d.relaySeqNum = (count - d.count) + Word * 0
      <4>1. Word * 0 = 0
        BY <1>1
      <4>2. connectionMap[d.name].relaySeqNum = d.relaySeqNum /\ count = d.count
        BY <3>1
      <4> HIDE DEF d
      <4> QED
        BY <3>1, <4>1, <4>2
    <3>3. n \in DOMAIN connectionMap'
      BY <1>1
    <3> HIDE DEF d
    <3>4. \E k \in Int : connectionMap'[d.name].relaySeqNum - d.relaySeqNum
                            = (count' - d.count) + Word * k
      BY <1>4, <3>1, <3>2
    <3> QED
      BY <3>1, <3>3, <3>4 DEF d
  <2> HIDE DEF new
  <2>3. \A d \in new : \E n \in DOMAIN connectionMap :
           d = Data(n, connectionMap[n], p, p.size - 2)
    BY DEF new
  <2> QED
    BY <1>5, <2>1, <2>2, <2>3 DEF Numbered
<1> QED
  BY <1>3, <1>6 DEF IInv

LEMMA Invariant == Spec => []IInv
<1>1. IInv /\ UNCHANGED vars => IInv'
  BY DEF IInv, TypeOK, Numbered, Copies, vars
<1>2. IInv /\ [Next]_vars => IInv'
  BY <1>1, InvSub, InvPub DEF Next, DropPub
<1> QED
  BY <1>2, InvInit, PTL DEF Spec

\* Every variable has its type, and no counter reaches Word.
THEOREM TypeCorrect == Spec => []TypeOK
BY Invariant, PTL DEF IInv

\* The numbers of two copies to one connection are as far apart, modulo Word, as the
\* publications: a gap in the numbers is a loss, also where they wrap.
THEOREM GapsAreLosses == Spec => []GapIsLoss
<1>1. IInv => GapIsLoss
  <2> SUFFICES ASSUME IInv, NEW d \in Copies, NEW e \in Copies, d.name = e.name
               PROVE  (d.relaySeqNum - e.relaySeqNum) % Word = (d.count - e.count) % Word
    BY DEF GapIsLoss
  <2> DEFINE x == connectionMap[d.name].relaySeqNum
  <2>1. /\ d.relaySeqNum \in Int /\ d.count \in Int
        /\ e.relaySeqNum \in Int /\ e.count \in Int
        /\ x \in Int /\ count \in Int /\ Word \in Nat \ {0}
    <3>1. connectionMap[d.name] \in [address : Clients, relaySeqNum : 0 .. Word - 1]
      BY DEF IInv, TypeOK, Numbered
    <3>2. 0 .. Word - 1 \subseteq Int /\ 0 .. MaxPub \subseteq Int
      OBVIOUS
    <3>3. Word \in Nat \ {0}
      BY BroadcastAssumption
    <3> QED
      BY <3>1, <3>2, <3>3 DEF IInv, TypeOK, Numbered
  <2>2. PICK j \in Int : x - d.relaySeqNum = (count - d.count) + Word * j
    BY DEF IInv, Numbered
  <2>3. PICK k \in Int : x - e.relaySeqNum = (count - e.count) + Word * k
    BY DEF IInv, Numbered
  <2> HIDE DEF x
  <2>4. Word * (k - j) = Word * k - Word * j /\ Word * k \in Int /\ Word * j \in Int
    BY <2>1
  <2>5. d.relaySeqNum - e.relaySeqNum = (d.count - e.count) + Word * (k - j)
    BY <2>1, <2>2, <2>3, <2>4
  <2> DEFINE a == d.relaySeqNum - e.relaySeqNum
             b == d.count - e.count
             n == k - j
  <2>6. a \in Int /\ b \in Int /\ n \in Int /\ a = b + Word * n
    BY <2>1, <2>5
  <2> HIDE DEF a, b, n
  <2>7. a % Word = b % Word
    BY <2>1, <2>6, SameRemainder
  <2> QED
    BY <2>7 DEF a, b
<1> QED
  BY <1>1, Invariant, PTL
=============================================================================
