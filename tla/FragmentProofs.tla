--------------------------- MODULE FragmentProofs ---------------------------
(***************************************************************************)
(* Proofs about Fragment: what FragmentPipe::send cuts, and that whatever  *)
(* the network does, processRxPacket puts whole messages together.         *)
(***************************************************************************)
EXTENDS Fragment, VarIntProofs

-----------------------------------------------------------------------------
(* Multiples and remainders, of which the provers know little *)

\* Quotient and remainder.
LEMMA Division ==
  ASSUME NEW a \in Int, NEW d \in Nat \ {0}
  PROVE  /\ a \div d \in Int /\ a % d \in 0 .. d - 1
         /\ a % d = a - d * (a \div d)
         /\ a >= 0 => a \div d >= 0
<1>1. a \div d \in Int /\ a % d \in 0 .. d - 1
  BY SMTT(30)
<1>2. a % d = a - d * (a \div d)
  BY SMTT(30)
<1>3. ASSUME a >= 0, a \div d <= -1
      PROVE  FALSE
  <2>1. d * (a \div d) <= -d
    BY <1>1, <1>3
  <2> QED
    BY <1>1, <1>2, <1>3, <2>1
<1> QED
  BY <1>1, <1>2, <1>3

\* Multiples are ordered as what they are multiples of.
LEMMA Multiplied ==
  ASSUME NEW a \in Int, NEW b \in Int, NEW d \in Nat, a <= b
  PROVE  a * d <= b * d /\ d * a <= d * b
<1>1. (b - a) \in Nat
  OBVIOUS
<1>2. (b - a) * d >= 0
  BY <1>1
<1> QED
  BY <1>2

-----------------------------------------------------------------------------
(* Lengths *)

LEMMA BytesOfLength ==
    ASSUME NEW n \in Nat, n <= maxLength
    PROVE  /\ Bytes(n) \in Value /\ Number(Bytes(n)) = n
           /\ n \notin Lost => Exact(Bytes(n))
           /\ n \in Lost => Bytes(n) \in Thresholds
PROOF
<1> DEFINE q == n \div 256
           a == n % 256
           b == q % 256
           c == n \div 65536
<1>1. q \in Nat /\ a \in Nat /\ a < 256 /\ n = a + 256 * q
  OBVIOUS
<1>2. b \in Nat /\ b < 256 /\ \E d \in Nat : q = b + 256 * d
  BY <1>1
<1>3. c \in Nat /\ n - 65536 * c >= 0 /\ n - 65536 * c < 65536
  OBVIOUS
<1> HIDE DEF q, a, b, c
<1>4. n = a + 256 * b + 65536 * c
  BY <1>1, <1>2, <1>3
<1>5. c < 256
  BY <1>3 DEF maxLength
<1>6. Bytes(n) = <<a, b, c, 0, 0, 0, 0, 0>>
  BY DEF Bytes, a, b, c, q
<1> DEFINE v == Bytes(n)
<1>7. v[1] = a /\ v[2] = b /\ v[3] = c /\ v[4] = 0 /\ v[5] = 0 /\ v[6] = 0 /\ v[7] = 0 /\ v[8] = 0
  BY <1>6
<1>8. v \in Value
  <2>1. a \in Byte /\ b \in Byte /\ c \in Byte /\ 0 \in Byte
    BY <1>1, <1>2, <1>3, <1>5 DEF Byte
  <2>2. v \in Word64
    BY <1>6, <2>1 DEF Word64
  <2> QED
    BY <1>7, <2>2 DEF Value
<1> HIDE DEF v
<1>9. Number(v) = n
  BY <1>4, <1>7 DEF Number
<1>10. ASSUME n # 128, n # 16384
       PROVE  Exact(v)
  <2>1. \A i \in 1 .. 8 : i > 3 => v[i] = 0
    <3>1. \A i \in 1 .. 8 : i > 3 => i \in {4, 5, 6, 7, 8}
      OBVIOUS
    <3> QED
      BY <1>7, <3>1
  <2>2. Fits(v, 4)
    BY <2>1 DEF Fits
  <2>3. ~(v[1] = 128 /\ v[2] = 0 /\ v[3] = 0) /\ ~(v[1] = 0 /\ v[2] = 64 /\ v[3] = 0)
    BY <1>4, <1>7, <1>10
  <2>4. Fits(v, 1) => v[2] = 0 /\ v[3] = 0
    BY DEF Fits
  <2>5. Fits(v, 2) => v[3] = 0
    BY DEF Fits
  <2> QED
    BY <1>7, <2>2, <2>3, <2>4, <2>5 DEF Exact
<1>11. ASSUME n = 128
       PROVE  a = 128 /\ b = 0 /\ c = 0
  BY <1>1, <1>2, <1>3, <1>4, <1>11
<1>12. ASSUME n = 16384
       PROVE  a = 0 /\ b = 64 /\ c = 0
  BY <1>1, <1>2, <1>3, <1>4, <1>12
<1>13. ASSUME n \in {128, 16384}
       PROVE  v \in Thresholds
  BY <1>6, <1>11, <1>12, <1>13 DEF Thresholds, v
<1> QED
  BY <1>8, <1>9, <1>10, <1>13 DEF v, Lost

\* A length that is no threshold is received as it was sent, a threshold as 0.
LEMMA ReceivedLength ==
    ASSUME NEW n \in Nat, n <= maxLength
    PROVE  Received[n] = IF n \in Lost THEN 0 ELSE n
PROOF
<1> DEFINE v == Bytes(n)
           e == Encode(v)
<1>1. Received[n] = Number(Decode(e))
  BY DEF Received
<1>2. /\ v \in Value
      /\ Number(v) = n
      /\ n \notin Lost => Exact(v)
      /\ n \in Lost => v \in Thresholds
  BY BytesOfLength
<1> HIDE DEF v
<1>3. <<>> \in Seq(Byte)
  OBVIOUS
<1>4. e \in Seq(Byte)
  BY <1>2, <1>3, LengthOfEncoded
<1> HIDE DEF e
<1>5. <<>> \o e = e
  BY <1>4
<1>6. ASSUME n \notin Lost
      PROVE  Received[n] = n
  <2>1. Decode(<<>> \o e) = v
    BY <1>2, <1>3, <1>6, RoundTrip DEF e
  <2> QED
    BY <1>1, <1>2, <1>5, <2>1
<1>7. ASSUME n \in Lost
      PROVE  Received[n] = 0
  <2>1. Decode(<<>> \o e) = Zero
    BY <1>2, <1>3, <1>7, ThresholdsAreLost DEF e
  <2>2. Number(Zero) = 0
    BY DEF Number, Zero
  <2> QED
    BY <1>1, <1>5, <2>1, <2>2
<1> QED
  BY <1>6, <1>7

LEMMA Shortened ==
    ASSUME NEW n \in Nat
    PROVE  /\ Short(n) \in Nat /\ Short(n) <= n /\ Short(n) < 65536
           /\ n < 65536 => Short(n) = n
  BY DEF Short

LEMMA CipherLength ==
    ASSUME NEW m \in Messages
    PROVE  /\ Size[m] \in Nat /\ Size[m] > 0 /\ Size[m] <= maxLength
           /\ Received[Size[m]] \in Nat /\ Received[Size[m]] <= Size[m]
           /\ Overhead \in Nat
           /\ CipherSize(m) \in Nat /\ CipherSize(m) > 0 /\ CipherSize(m) <= maxLength
PROOF
<1>1. /\ Size[m] \in Nat /\ Size[m] > 0 /\ Size[m] + Overhead <= maxLength
      /\ Overhead \in Nat /\ Overhead > 0
  BY FragmentAssumption
<1>2. maxLength \in Nat
  BY DEF maxLength
<1> DEFINE s == Received[Size[m]]
<1>3. s \in Nat /\ s <= Size[m]
  BY <1>1, <1>2, ReceivedLength
<1> HIDE DEF s
<1>4. Short(s) \in Nat /\ Short(s) <= s
  BY <1>3, Shortened
<1>5. CipherSize(m) = Short(s) + Overhead
  BY DEF CipherSize, s
<1> QED
  BY <1>1, <1>2, <1>3, <1>4, <1>5 DEF s

-----------------------------------------------------------------------------
(* What FragmentPipe::send cuts *)

AnyMtu == Mtus \cup {DefaultMtu}

LEMMA DataSizes ==
    ASSUME NEW v \in AnyMtu
    PROVE  v \in Nat /\ DataSize(v) \in Nat /\ DataSize(v) >= 56
PROOF
<1>1. v \in Nat
  BY FragmentAssumption DEF AnyMtu
<1> QED
  BY <1>1 DEF DataSize, extraHeaderSizeBytes, minPacketPayload

\* The last fragment is the one that the others leave something for.
LEMMA Cuts ==
    ASSUME NEW v \in AnyMtu, NEW n \in Nat, n > 0
    PROVE  /\ NumFrags(n, v) \in Nat \ {0}
           /\ (NumFrags(n, v) - 1) * DataSize(v) \in Nat
           /\ (NumFrags(n, v) - 1) * DataSize(v) < n
           /\ n <= NumFrags(n, v) * DataSize(v)
           /\ n <= 128 * DataSize(v) => NumFrags(n, v) <= 128
PROOF
<1> DEFINE D == DataSize(v)
           k == NumFrags(n, v)
           x == n + D - 1
<1>1. D \in Nat /\ D >= 56
  BY DataSizes
<1>2. x \in Int /\ x >= 0 /\ k = x \div D
  BY <1>1 DEF NumFrags
<1> DEFINE r == x % D
<1> HIDE DEF D, k
<1>3. /\ k \in Int /\ k >= 0
      /\ r \in Int /\ r >= 0 /\ r <= D - 1 /\ r = x - D * k
  <2> HIDE DEF x
  <2>1. D \in Nat \ {0}
    BY <1>1
  <2>2. /\ x \div D \in Int /\ x % D \in 0 .. D - 1
        /\ x % D = x - D * (x \div D)
        /\ x >= 0 => x \div D >= 0
    BY <1>2, <2>1, Division
  <2> QED
    BY <1>1, <1>2, <2>2
<1> HIDE DEF r
<1> DEFINE p == D * k
<1>4. p \in Int /\ p <= x /\ p > n - 1
  BY <1>1, <1>2, <1>3
<1>5. /\ k * D = p /\ (k - 1) * D = p - D
      /\ k = 0 => p = 0
  BY <1>1, <1>3
<1> HIDE DEF p
<1>6. k \in Nat \ {0}
  BY <1>3, <1>4, <1>5
<1>7. 0 <= (k - 1) * D
  <2>1. 0 * D <= (k - 1) * D
    BY <1>1, <1>6, Multiplied
  <2>2. 0 * D = 0
    BY <1>1
  <2> QED
    BY <2>1, <2>2
<1>8. (k - 1) * D \in Nat /\ (k - 1) * D < n /\ n <= k * D
  BY <1>1, <1>4, <1>5, <1>7
<1>9. ASSUME n <= 128 * D, k >= 129
      PROVE  FALSE
  <2>1. 128 * D <= (k - 1) * D
    BY <1>1, <1>6, <1>9, Multiplied
  <2> QED
    BY <1>1, <1>8, <1>9, <2>1
<1> QED
  BY <1>1, <1>6, <1>8, <1>9 DEF D, k

\* The fragment that starts after i - 1 others starts within the ciphertext, and ends
\* within it when another follows.
LEMMA CutsWithin ==
    ASSUME NEW v \in AnyMtu, NEW n \in Nat, n > 0, NEW i \in 1 .. NumFrags(n, v)
    PROVE  /\ (i - 1) * DataSize(v) \in Nat /\ (i - 1) * DataSize(v) < n
           /\ i * DataSize(v) = (i - 1) * DataSize(v) + DataSize(v)
           /\ i < NumFrags(n, v) => i * DataSize(v) < n
PROOF
<1> DEFINE D == DataSize(v)
           k == NumFrags(n, v)
<1>1. D \in Nat /\ D >= 56
  BY DataSizes
<1>2. /\ k \in Nat \ {0}
      /\ (k - 1) * D \in Nat /\ (k - 1) * D < n
  BY Cuts
<1> HIDE DEF D, k
<1>3. i \in Nat /\ i >= 1 /\ i <= k
  BY <1>2 DEF k
<1>4. /\ i * D = (i - 1) * D + D
      /\ 0 * D = 0
      /\ (i - 1) * D \in Int /\ i * D \in Int
  BY <1>1, <1>3
<1>5. 0 * D <= (i - 1) * D /\ (i - 1) * D <= (k - 1) * D
  BY <1>1, <1>2, <1>3, Multiplied
<1>6. i < k => i * D <= (k - 1) * D
  BY <1>1, <1>2, <1>3, Multiplied
<1> QED
  BY <1>1, <1>2, <1>4, <1>5, <1>6 DEF D, k

LEMMA FragIDs ==
    ASSUME NEW i \in Nat, NEW last \in BOOLEAN
    PROVE  /\ FragID(i, last) \in Nat /\ FragID(i, last) <= 255
           /\ i <= 127 => FragID(i, last) = IF last THEN 2 * i + 1 ELSE 2 * i
           /\ i = 128 => FragID(i, last) = IF last THEN 1 ELSE 0
PROOF
<1> DEFINE a == i % 256
           b == 2 * a + (IF last THEN 1 ELSE 0)
<1>1. a \in Nat /\ (i <= 128 => a = i)
  OBVIOUS
<1> HIDE DEF a
<1>2. b \in Nat /\ (i <= 127 => b <= 255) /\ (i = 128 => b <= 257)
  BY <1>1
<1>3. b = IF last THEN 2 * a + 1 ELSE 2 * a
  BY <1>1
<1> HIDE DEF b
<1>4. FragID(i, last) = b % 256
  BY DEF FragID, a, b
<1>5. /\ b % 256 \in Nat /\ b % 256 <= 255
      /\ b <= 255 => b % 256 = b
      /\ b = 256 => b % 256 = 0
      /\ b = 257 => b % 256 = 1
  BY <1>2
<1> QED
  BY <1>1, <1>2, <1>3, <1>4, <1>5

\* The numbers under which the first 128 fragments are looked for
LEMMA ScanNumbers ==
    ASSUME NEW i \in Nat, i > 0, i <= 128
    PROVE  /\ i < 128 => Middle(i) = 2 * i /\ Final(i) = 2 * i + 1
           /\ i = 128 => Middle(i) = 0 /\ Final(i) = 1
           /\ \A last \in BOOLEAN : FragID(i, last) = IF last THEN Final(i) ELSE Middle(i)
PROOF
<1>1. ASSUME i < 128
      PROVE  Middle(i) = 2 * i /\ Final(i) = 2 * i + 1
  BY <1>1 DEF Middle, Final
<1>2. ASSUME i = 128
      PROVE  Middle(i) = 0 /\ Final(i) = 1
  BY <1>2 DEF Middle, Final
<1>3. i < 128 \/ i = 128
  OBVIOUS
<1>4. ASSUME NEW last \in BOOLEAN
      PROVE  FragID(i, last) = IF last THEN Final(i) ELSE Middle(i)
  BY <1>1, <1>2, <1>3, FragIDs
<1> QED
  BY <1>1, <1>2, <1>4

\* They are different, and only the 128th that is not the last has the number 0.
LEMMA DistinctNumbers ==
    ASSUME NEW i \in Nat, i > 0, i <= 128, NEW j \in Nat, j > 0, j <= 128
    PROVE  /\ Middle(i) = Middle(j) \/ Final(i) = Final(j) => i = j
           /\ Middle(i) # Final(j)
           /\ Final(i) # 0
           /\ Middle(i) = 0 <=> i = 128
PROOF
<1> DEFINE A == Middle(i)  B == Middle(j)  C == Final(i)  D == Final(j)
<1>1. (i < 128 /\ A = 2 * i /\ C = 2 * i + 1) \/ (i = 128 /\ A = 0 /\ C = 1)
  BY ScanNumbers
<1>2. (j < 128 /\ B = 2 * j /\ D = 2 * j + 1) \/ (j = 128 /\ B = 0 /\ D = 1)
  BY ScanNumbers
<1> HIDE DEF A, B, C, D
<1> QED
  <2>1. (A = B \/ C = D => i = j) /\ A # D /\ C # 0 /\ (A = 0 <=> i = 128)
    BY <1>1, <1>2
  <2> QED
    BY <2>1 DEF A, B, C, D

\* A fragment that is not the last is put before those that follow it.
LEMMA NumbersInOrder ==
    ASSUME NEW i \in Nat, i > 0, NEW j \in Nat, i < j, j <= 128
    PROVE  /\ Middle(i) % 2 = 0
           /\ j < 128 => Middle(i) < Middle(j)
           /\ Final(j) % 2 = 1
PROOF
<1>1. i < 128 /\ Middle(i) = 2 * i /\ (2 * i) % 2 = 0
  BY ScanNumbers
<1>2. (j < 128 /\ Middle(j) = 2 * j /\ Final(j) = 2 * j + 1) \/ (j = 128 /\ Final(j) = 1)
  BY ScanNumbers
<1>3. (2 * j + 1) % 2 = 1 /\ 1 % 2 = 1
  OBVIOUS
<1> QED
  BY <1>1, <1>2, <1>3

LEMMA DatagramFields ==
    ASSUME NEW m \in Messages, NEW v \in AnyMtu, NEW d \in Datagrams(m, v)
    PROVE  /\ d.msg = m
           /\ d.id \in Nat /\ d.id <= 255
           /\ d.from \in Nat /\ d.to \in Nat
           /\ d.from < d.to /\ d.to <= CipherSize(m)
PROOF
<1> DEFINE n == CipherSize(m)
           D == DataSize(v)
           k == NumFrags(n, v)
<1>1. n \in Nat /\ n > 0
  BY CipherLength
<1>2. D \in Nat
  BY DataSizes
<1> HIDE DEF n
<1>3. k \in Nat
  BY <1>1, Cuts
<1>4. CASE d = Fragment(m, 0, 0, n)
  BY <1>1, <1>4 DEF Fragment, n
<1>5. ASSUME NEW i \in 1 .. k,
             d = Fragment(m, FragID(i, i = k), (i - 1) * D, IF i = k THEN n ELSE i * D)
      PROVE  /\ d.msg = m
             /\ d.id \in Nat /\ d.id <= 255
             /\ d.from \in Nat /\ d.to \in Nat
             /\ d.from < d.to /\ d.to <= n
  <2>1. /\ (i - 1) * D \in Nat /\ (i - 1) * D < n
        /\ i * D = (i - 1) * D + D
        /\ i < k => i * D < n
    BY <1>1, CutsWithin
  <2>2. D > 0
    BY DataSizes
  <2>3. i \in Nat /\ i <= k
    BY <1>3
  <2>4. FragID(i, i = k) \in Nat /\ FragID(i, i = k) <= 255
    BY <2>3, FragIDs
  <2> DEFINE to == IF i = k THEN n ELSE i * D
  <2>5. d.msg = m /\ d.id = FragID(i, i = k) /\ d.from = (i - 1) * D /\ d.to = to
    BY <1>5 DEF Fragment
  <2> HIDE DEF D, k
  <2>6. to \in Nat /\ (i - 1) * D < to /\ to <= n
    BY <1>1, <1>2, <1>3, <2>1, <2>2, <2>3
  <2> QED
    BY <2>1, <2>4, <2>5, <2>6
<1>6. \/ d = Fragment(m, 0, 0, n)
      \/ \E i \in 1 .. k :
            d = Fragment(m, FragID(i, i = k), (i - 1) * D, IF i = k THEN n ELSE i * D)
  BY DEF Datagrams, n
<1> QED
  BY <1>4, <1>5, <1>6 DEF n

-----------------------------------------------------------------------------
(* Types *)

LEMMA OpenedTyped ==
    ASSUME NEW m \in Messages, NEW pieces
    PROVE  Opened(m, pieces).msg = m /\ Opened(m, pieces).size \in {Corrupt} \cup Nat
PROOF
<1> DEFINE s == Short(Received[Size[m]])
<1>1. s \in Nat /\ s <= maxLength
  <2>1. s \in Nat /\ s <= Received[Size[m]]
    BY CipherLength, Shortened
  <2>2. Received[Size[m]] \in Nat /\ Received[Size[m]] <= maxLength /\ maxLength \in Nat
    BY CipherLength DEF maxLength
  <2> QED
    BY <2>1, <2>2
<1> HIDE DEF s
<1>2. Received[s] \in Nat
  BY <1>1, ReceivedLength
<1>3. Opened(m, pieces).msg = m
  BY DEF Opened
<1>4. Opened(m, pieces).size = IF Whole(pieces) THEN Received[s] ELSE Corrupt
  BY DEF Opened, PlainSize, s
<1> QED
  BY <1>2, <1>3, <1>4

LEMMA DatagramsTyped ==
    ASSUME NEW m \in Messages, NEW v \in AnyMtu, NEW d \in Datagrams(m, v)
    PROVE  /\ d.msg = m /\ d.id \in 0 .. 255
           /\ d.from \in Nat /\ d.to \in d.from + 1 .. CipherSize(d.msg)
PROOF
<1>1. CipherSize(m) \in Nat
  BY CipherLength
<1> QED
  BY <1>1, DatagramFields

\* A fragment that is received joins the others or is dropped.
LEMMA AddedIsReceived ==
    ASSUME NEW d
    PROVE  Added(d) \subseteq fragList \cup {d}
  BY DEF Added

LEMMA TypeStep == TypeOK /\ [Next]_vars => TypeOK'
PROOF
<1> SUFFICES ASSUME TypeOK, [Next]_vars
             PROVE  TypeOK'
  OBVIOUS
<1> DEFINE Typed(d) == /\ d.msg \in published /\ d.id \in 0 .. 255
                       /\ d.from \in Nat /\ d.to \in d.from + 1 .. CipherSize(d.msg)
           Given(e) == e.msg \in published /\ e.size \in {Corrupt} \cup Nat
<1>1. /\ mtu \in AnyMtu
      /\ published \subseteq Messages /\ repeated \subseteq published
      /\ \A d \in net \cup fragList : Typed(d)
      /\ \A e \in delivered : Given(e)
  BY DEF TypeOK, AnyMtu
<1>2. ASSUME /\ mtu' \in AnyMtu
             /\ published' \subseteq Messages /\ published \subseteq published'
             /\ repeated' \subseteq published'
             /\ \A d \in (net' \cup fragList') \ (net \cup fragList) : Typed(d)'
             /\ \A e \in delivered' \ delivered : Given(e)'
      PROVE  TypeOK'
  <2>1. \A d : Typed(d) => Typed(d)'
    BY <1>2
  <2>2. \A e : Given(e) => Given(e)'
    BY <1>2
  <2>3. \A d \in net' \cup fragList' : Typed(d)'
    BY <1>1, <1>2, <2>1
  <2>4. \A e \in delivered' : Given(e)'
    BY <1>1, <1>2, <2>2
  <2> QED
    BY <1>2, <2>3, <2>4 DEF TypeOK, AnyMtu
<1>3. ASSUME NEW m \in Messages, Publish(m)
      PROVE  TypeOK'
  <2>1. \A d \in Datagrams(m, mtu) : Typed(d)'
    <3>1. m \in published'
      BY <1>3 DEF Publish
    <3> QED
      BY <1>1, <3>1, DatagramsTyped
  <2> QED
    BY <1>1, <1>2, <1>3, <2>1 DEF Publish
<1>4. ASSUME NEW v \in Mtus, SetPacketsUp(v)
      PROVE  TypeOK'
  BY <1>1, <1>2, <1>4 DEF SetPacketsUp, AnyMtu
<1>5. ASSUME NEW d \in net, Recv(d)
      PROVE  TypeOK'
  <2>1. /\ published' = published /\ mtu' = mtu
        /\ net' \subseteq net /\ repeated' \subseteq repeated \cup {d.msg}
    BY <1>5 DEF Recv, RecvWhole, RecvFragment, RecvLast, Receipt, Taken, Repeated
  <2>2. d.msg \in published /\ d.msg \in Messages
    BY <1>1
  <2>3. fragList' \subseteq fragList \cup {d}
    BY <1>5, AddedIsReceived DEF Recv, RecvWhole, RecvFragment, RecvLast
  <2>4. \E p : delivered' \subseteq delivered \cup {Opened(d.msg, p)}
    BY <1>5 DEF Recv, RecvWhole, RecvFragment, RecvLast
  <2>5. \A e \in delivered' \ delivered : Given(e)'
    BY <2>1, <2>2, <2>4, OpenedTyped
  <2> QED
    BY <1>1, <1>2, <2>1, <2>2, <2>3, <2>5
<1>6. CASE UNCHANGED vars
  BY <1>1, <1>2, <1>6 DEF vars
<1> QED
  BY <1>3, <1>4, <1>5, <1>6 DEF Next

\* TypeCorrect: whatever is published, for whatever MTUs, a datagram holds bytes of its
\* message, and so does what FragmentPipe keeps.
THEOREM TypeCorrect == Spec => []TypeOK
PROOF
<1>1. Init => TypeOK
  BY DEF Init, TypeOK
<1>2. TypeOK /\ [Next]_vars => TypeOK'
  BY TypeStep
<1> QED
  BY <1>1, <1>2, PTL DEF Spec

-----------------------------------------------------------------------------
(* The scan of processRxPacket *)

\* Of the numbers from a on, one that is less than w away has a least before it.
HasLeast(w) ==
    \A a \in Int, S \in SUBSET Int :
        (\E x \in S : a <= x /\ x < a + w)
            => \E x \in S : a <= x /\ x < a + w /\ \A y \in S : a <= y => x <= y

LEMMA Doubled ==
    ASSUME NEW w \in Nat, HasLeast(w)
    PROVE  HasLeast(2 * w)
PROOF
<1> SUFFICES ASSUME NEW a \in Int, NEW S \in SUBSET Int,
                    NEW z \in S, a <= z, z < a + 2 * w
             PROVE  \E x \in S : a <= x /\ x < a + 2 * w /\ \A y \in S : a <= y => x <= y
  BY DEF HasLeast
<1>1. CASE \E x \in S : a <= x /\ x < a + w
  <2>1. PICK x \in S : a <= x /\ x < a + w /\ \A y \in S : a <= y => x <= y
    BY <1>1 DEF HasLeast
  <2> QED
    BY <2>1
<1>2. CASE ~ \E x \in S : a <= x /\ x < a + w
  <2> DEFINE b == a + w
  <2>1. b \in Int /\ b <= z /\ z < b + w
    BY <1>2
  <2>2. PICK x \in S : b <= x /\ x < b + w /\ \A y \in S : b <= y => x <= y
    BY <2>1 DEF HasLeast
  <2> QED
    BY <1>2, <2>2
<1> QED
  BY <1>1, <1>2

LEMMA LeastOf128 == HasLeast(128)
PROOF
<1>1. HasLeast(1)
  BY DEF HasLeast
<1>2. HasLeast(2)
  <2>1. HasLeast(2 * 1)
    BY <1>1, Doubled
  <2> QED
    BY <2>1
<1>3. HasLeast(4)
  <2>1. HasLeast(2 * 2)
    BY <1>2, Doubled
  <2> QED
    BY <2>1
<1>4. HasLeast(8)
  <2>1. HasLeast(2 * 4)
    BY <1>3, Doubled
  <2> QED
    BY <2>1
<1>5. HasLeast(16)
  <2>1. HasLeast(2 * 8)
    BY <1>4, Doubled
  <2> QED
    BY <2>1
<1>6. HasLeast(32)
  <2>1. HasLeast(2 * 16)
    BY <1>5, Doubled
  <2> QED
    BY <2>1
<1>7. HasLeast(64)
  <2>1. HasLeast(2 * 32)
    BY <1>6, Doubled
  <2> QED
    BY <2>1
<1> QED
  <2>1. HasLeast(2 * 64)
    BY <1>7, Doubled
  <2> QED
    BY <2>1

\* The scan stops at i.
Gap(list, m, i) ==
    /\ Middle(i) \notin Ids(list, m)
    /\ \A j \in 1 .. i - 1 : Middle(j) \in Ids(list, m)

LEMMA ScanStops ==
    ASSUME NEW list, NEW m, NEW i \in 1 .. 128, Gap(list, m, i)
    PROVE  NumFrag(list, m) = i
PROOF
<1>1. ASSUME NEW j \in 1 .. 128, Gap(list, m, j)
      PROVE  j = i
  BY <1>1 DEF Gap
<1>2. NumFrag(list, m) = CHOOSE j \in 1 .. 128 : Gap(list, m, j)
  BY DEF NumFrag, Gap
<1> QED
  BY <1>1, <1>2

\* It does, as the 128th that is not the last has the number of no fragment.
LEMMA Scan ==
    ASSUME NEW list, NEW m, 0 \notin Ids(list, m)
    PROVE  NumFrag(list, m) \in 1 .. 128 /\ Gap(list, m, NumFrag(list, m))
PROOF
<1> DEFINE S == {i \in 1 .. 128 : Middle(i) \notin Ids(list, m)}
<1>1. Middle(128) = 0
  BY ScanNumbers
<1>2. S \in SUBSET Int /\ \E x \in S : 1 <= x /\ x < 1 + 128
  <2>1. 128 \in S
    BY <1>1
  <2> QED
    BY <2>1
<1>3. PICK i \in S : \A y \in S : 1 <= y => i <= y
  <2>1. PICK x \in S : 1 <= x /\ x < 1 + 128
    BY <1>2
  <2>2. S \in SUBSET Int /\ 1 \in Int
    BY <1>2
  <2> HIDE DEF S
  <2>3. (\E z \in S : 1 <= z /\ z < 1 + 128)
            => \E z \in S : 1 <= z /\ z < 1 + 128 /\ \A y \in S : 1 <= y => z <= y
    BY <2>2, LeastOf128, Zenon DEF HasLeast
  <2> QED
    BY <2>1, <2>3, Zenon
<1>4. i \in 1 .. 128 /\ Middle(i) \notin Ids(list, m)
  OBVIOUS
<1>5. ASSUME NEW j \in 1 .. i - 1
      PROVE  Middle(j) \in Ids(list, m)
  <2>1. j \in 1 .. 128 /\ 1 <= j /\ ~(i <= j)
    BY <1>4
  <2> QED
    BY <1>3, <2>1
<1>6. Gap(list, m, i)
  BY <1>4, <1>5 DEF Gap
<1> QED
  BY <1>4, <1>6, ScanStops

-----------------------------------------------------------------------------
(* Messages of regular lengths *)

LEMMA RegularLengths ==
    ASSUME Regular, NEW m \in Messages, NEW v \in AnyMtu
    PROVE  LET n == CipherSize(m)
               rest == n - (NumFrags(n, v) - 1) * DataSize(v)
           IN /\ n = Size[m] + Overhead
              /\ Received[n] = n /\ Short(n) = n
              /\ Received[Size[m]] = Size[m] /\ Short(Size[m]) = Size[m]
              /\ NumFrags(n, v) <= 128
              /\ Received[rest] = rest
              /\ DataSize(v) <= n => Received[DataSize(v)] = DataSize(v)
PROOF
<1> DEFINE n == Size[m] + Overhead
           k == NumFrags(n, v)
           D == DataSize(v)
           rest == n - (k - 1) * D
<1>1. /\ Size[m] \notin Lost /\ n \notin Lost /\ D \notin Lost /\ rest \notin Lost
      /\ Short(n) = n /\ n <= 128 * D
  BY DEF Regular, AnyMtu
<1>2. /\ Size[m] \in Nat /\ Overhead \in Nat /\ Size[m] > 0
      /\ n <= maxLength /\ maxLength \in Nat
  BY FragmentAssumption, CipherLength DEF maxLength
<1>3. n \in Nat /\ n > 0 /\ Size[m] <= n /\ Size[m] <= maxLength
  BY <1>2
<1>4. Received[n] = n /\ Received[Size[m]] = Size[m]
  <2> HIDE DEF n
  <2> QED
    BY <1>1, <1>2, <1>3, ReceivedLength
<1>5. n < 65536 /\ Short(Size[m]) = Size[m]
  <2>1. n < 65536
    BY <1>1, <1>3, Shortened
  <2> QED
    BY <1>2, <1>3, <2>1, Shortened
<1>6. CipherSize(m) = n
  BY <1>4, <1>5 DEF CipherSize
<1>7. D \in Nat
  BY DataSizes
<1>8. k <= 128 /\ rest \in Nat /\ rest <= n
  <2>1. (k - 1) * D \in Nat /\ (k - 1) * D < n /\ (n <= 128 * D => k <= 128)
    <3> HIDE DEF n
    <3> QED
      BY <1>3, Cuts DEF k, D
  <2> HIDE DEF k, D
  <2> DEFINE p == (k - 1) * D
  <2>2. rest = n - p
    BY DEF rest
  <2> HIDE DEF p, n, rest
  <2>3. p \in Nat /\ p < n
    BY <2>1 DEF p
  <2> QED
    BY <1>1, <1>3, <2>1, <2>2, <2>3
<1> HIDE DEF n, k, D, rest
<1>9. Received[rest] = rest
  BY <1>1, <1>2, <1>3, <1>8, ReceivedLength
<1>10. D <= n => Received[D] = D
  BY <1>1, <1>2, <1>3, <1>7, ReceivedLength
<1> QED
  BY <1>1, <1>4, <1>5, <1>6, <1>8, <1>9, <1>10 DEF n, k, D, rest

\* The i-th of the fragments of m where the MTU is v
Part(m, v, i) ==
    LET n == CipherSize(m)
        k == NumFrags(n, v)
    IN Fragment(m, FragID(i, i = k), (i - 1) * DataSize(v),
                IF i = k THEN n ELSE i * DataSize(v))

Parts(m, v) == {Part(m, v, i) : i \in 1 .. NumFrags(CipherSize(m), v)}

LEMMA WholeOrParts ==
    ASSUME NEW m, NEW v
    PROVE  \/ Datagrams(m, v) = {Fragment(m, 0, 0, CipherSize(m))}
           \/ Datagrams(m, v) = Parts(m, v)
  BY DEF Datagrams, Parts, Part

LEMMA PartFields ==
    ASSUME Regular, NEW m \in Messages, NEW v \in AnyMtu,
           NEW i \in 1 .. NumFrags(CipherSize(m), v)
    PROVE  LET n == CipherSize(m)
               k == NumFrags(n, v)
               d == Part(m, v, i)
           IN /\ d.msg = m
              /\ d.id = IF i = k THEN Final(i) ELSE Middle(i)
              /\ d.from = (i - 1) * DataSize(v)
              /\ d.to = IF i = k THEN n ELSE i * DataSize(v)
              /\ Received[d.to - d.from] = d.to - d.from
PROOF
<1> DEFINE n == CipherSize(m)
           k == NumFrags(n, v)
           D == DataSize(v)
           d == Part(m, v, i)
<1>1. /\ d.msg = m /\ d.id = FragID(i, i = k)
      /\ d.from = (i - 1) * D /\ d.to = IF i = k THEN n ELSE i * D
  BY DEF Part, Fragment
<1>2. n \in Nat /\ n > 0
  BY CipherLength
<1>3. /\ (i - 1) * D \in Nat /\ (i - 1) * D < n
      /\ i * D = (i - 1) * D + D
      /\ i < k => i * D < n
  BY <1>2, CutsWithin
<1>4. D \in Nat /\ k \in Nat
  BY <1>2, DataSizes, Cuts
<1>5. k <= 128 /\ Received[n - (k - 1) * D] = n - (k - 1) * D /\ (D <= n => Received[D] = D)
  BY RegularLengths
<1> HIDE DEF n, k, D, d
<1>6. i \in Nat /\ i <= k
  BY <1>4 DEF k, n
<1>7. d.id = IF i = k THEN Final(i) ELSE Middle(i)
  <2>1. i > 0 /\ i <= 128 /\ (i = k) \in BOOLEAN
    BY <1>4, <1>5, <1>6 DEF k, n
  <2> QED
    BY <1>1, <1>6, <2>1, ScanNumbers
<1>8. CASE i = k
  BY <1>1, <1>5, <1>7, <1>8 DEF n, k, D, d
<1>9. CASE i # k
  <2>1. i < k
    BY <1>4, <1>6, <1>9
  <2>2. D <= n
    BY <1>2, <1>3, <1>4, <2>1
  <2>3. d.to = i * D /\ d.to - d.from = D
    BY <1>1, <1>3, <1>4, <1>9
  <2> QED
    BY <1>1, <1>5, <1>7, <1>9, <2>2, <2>3 DEF n, k, D, d
<1> QED
  BY <1>8, <1>9

-----------------------------------------------------------------------------
(* Reassembly *)

Of(list, m) == {f \in list : f.msg = m}

LEMMA IdsOf ==
    ASSUME NEW list, NEW m
    PROVE  Ids(list, m) = {f.id : f \in Of(list, m)}
  BY DEF Ids, Of

\* Once the scan finds the last fragment, it has found all that were sent.
LEMMA Gathered ==
    ASSUME Regular, NEW m \in Messages, NEW v \in AnyMtu, NEW list,
           Of(list, m) \subseteq Datagrams(m, v), \A f \in Of(list, m) : f.id # 0,
           HaveAll(list, m)
    PROVE  /\ Datagrams(m, v) = Parts(m, v)
           /\ Of(list, m) = Parts(m, v) /\ Pieces(list, m) = Parts(m, v)
PROOF
<1> DEFINE k == NumFrags(CipherSize(m), v)
           j == NumFrag(list, m)
           P(i) == Part(m, v, i)
<1>1. k \in Nat \ {0} /\ k <= 128
  <2>1. CipherSize(m) \in Nat /\ CipherSize(m) > 0
    BY CipherLength
  <2> QED
    BY <2>1, Cuts, RegularLengths
<1>2. \A i \in 1 .. k : P(i).msg = m /\ P(i).id = IF i = k THEN Final(i) ELSE Middle(i)
  BY PartFields
<1> HIDE DEF P, j
<1>3. Final(j) \in Ids(list, m)
  BY DEF HaveAll, j
<1>4. Datagrams(m, v) = {P(i) : i \in 1 .. k}
  <2>1. CASE Datagrams(m, v) = {Fragment(m, 0, 0, CipherSize(m))}
    <3>1. Of(list, m) = {}
      BY <2>1 DEF Fragment
    <3> QED
      BY <1>3, <3>1, IdsOf
  <2> QED
    BY <2>1, WholeOrParts DEF Parts, P
<1> HIDE DEF k
<1>5. \A f \in Of(list, m) : \E i \in 1 .. k : f = P(i)
  BY <1>4
<1>6. \A x \in Ids(list, m) :
          \E i \in 1 .. k : P(i) \in Of(list, m) /\ x = IF i = k THEN Final(i) ELSE Middle(i)
  BY <1>2, <1>5, IdsOf
<1>7. 0 \notin Ids(list, m)
  BY IdsOf
<1>8. j \in 1 .. 128 /\ \A i \in 1 .. j - 1 : Middle(i) \in Ids(list, m)
  BY <1>7, Scan DEF Gap, j
<1>9. j = k /\ P(k) \in Of(list, m)
  <2>1. PICK i \in 1 .. k : P(i) \in Of(list, m) /\ Final(j) = IF i = k THEN Final(i) ELSE Middle(i)
    BY <1>3, <1>6
  <2>2. j = i /\ i = k
    <3>1. i \in Nat /\ i > 0 /\ i <= 128 /\ j \in Nat /\ j > 0 /\ j <= 128
      BY <1>1, <1>8
    <3> QED
      BY <2>1, <3>1, DistinctNumbers
  <2> QED
    BY <2>1, <2>2
<1>10. ASSUME NEW i \in 1 .. k
       PROVE  P(i) \in Of(list, m)
  <2>1. CASE i # k
    <3>1. i \in 1 .. j - 1
      BY <1>1, <1>9, <2>1
    <3>2. PICK h \in 1 .. k : P(h) \in Of(list, m) /\ Middle(i) = IF h = k THEN Final(h) ELSE Middle(h)
      BY <1>6, <1>8, <3>1
    <3>3. h = i
      <4>1. i \in Nat /\ i > 0 /\ i <= 128 /\ h \in Nat /\ h > 0 /\ h <= 128
        BY <1>1
      <4> QED
        BY <3>2, <4>1, DistinctNumbers
    <3> QED
      BY <3>2, <3>3
  <2> QED
    BY <1>9, <2>1
<1>11. Of(list, m) = {P(i) : i \in 1 .. k}
  BY <1>5, <1>10
<1>12. \A f \in Of(list, m) : f.id \in {Middle(i) : i \in 1 .. j - 1} \cup {Final(j)}
  <2> SUFFICES ASSUME NEW i \in 1 .. k
               PROVE  P(i).id \in {Middle(h) : h \in 1 .. j - 1} \cup {Final(j)}
    BY <1>11
  <2> QED
    BY <1>1, <1>2, <1>9
<1>13. Pieces(list, m) = Of(list, m)
  BY <1>12 DEF Pieces, Of, j
<1> QED
  BY <1>4, <1>11, <1>13 DEF Parts, P, k

\* What was sent is put together again.
LEMMA WholeParts ==
    ASSUME Regular, NEW m \in Messages, NEW v \in AnyMtu
    PROVE  Whole(Parts(m, v)) /\ Whole({Fragment(m, 0, 0, CipherSize(m))})
PROOF
<1> DEFINE n == CipherSize(m)
           k == NumFrags(n, v)
           D == DataSize(v)
           P(i) == Part(m, v, i)
<1>1. n \in Nat /\ n > 0 /\ Received[n] = n /\ Short(n) = n
  BY CipherLength, RegularLengths
<1>2. k \in Nat \ {0} /\ k <= 128 /\ D \in Nat
  BY <1>1, Cuts, DataSizes, RegularLengths
<1>3. \A i \in 1 .. k :
          /\ P(i).msg = m
          /\ P(i).id = IF i = k THEN Final(i) ELSE Middle(i)
          /\ P(i).from = (i - 1) * D /\ P(i).to = IF i = k THEN n ELSE i * D
          /\ Received[P(i).to - P(i).from] = P(i).to - P(i).from
  BY PartFields
<1>4. Parts(m, v) = {P(i) : i \in 1 .. k}
  BY DEF Parts
<1> HIDE DEF k, D, P
<1>5. Whole(Parts(m, v))
  <2>1. \E f \in Parts(m, v) : f.to = CipherSize(f.msg) /\ Short(Received[f.to]) = f.to
    <3>1. k \in 1 .. k
      BY <1>2
    <3>2. P(k) \in Parts(m, v) /\ P(k).to = CipherSize(P(k).msg) /\ Short(Received[P(k).to]) = P(k).to
      BY <1>1, <1>3, <1>4, <3>1
    <3> QED
      BY <3>2
  <2>2. ASSUME NEW i \in 1 .. k
        PROVE  P(i).from = 0 \/ \E g \in Parts(m, v) : g.to = P(i).from /\ Before(g, P(i))
    <3>1. CASE i = 1
      <4>1. P(i).from = 0 * D /\ 0 * D = 0
        BY <1>2, <1>3, <3>1
      <4> QED
        BY <4>1
    <3>2. CASE i # 1
      <4> DEFINE h == i - 1
      <4>1. h \in 1 .. k /\ h # k
        BY <1>2, <3>2
      <4>2. P(i).from = h * D
        BY <1>3
      <4> HIDE DEF h
      <4>3. P(h).to = h * D /\ P(h).id = Middle(h) /\ P(h) \in Parts(m, v)
        BY <1>3, <1>4, <4>1
      <4>4. P(i).id = IF i = k THEN Final(i) ELSE Middle(i)
        BY <1>3
      <4>5. /\ h \in Nat /\ h > 0 /\ i \in Nat /\ i <= 128 /\ h < i
            /\ i = k \/ i < 128
        BY <1>2, <4>1 DEF h
      <4>6. Before(P(h), P(i))
        BY <4>3, <4>4, <4>5, NumbersInOrder DEF Before
      <4> QED
        BY <4>2, <4>3, <4>6
    <3> QED
      BY <3>1, <3>2
  <2>3. \A f \in Parts(m, v) :
            /\ f.from = 0 \/ \E g \in Parts(m, v) : g.to = f.from /\ Before(g, f)
            /\ Received[f.to - f.from] = f.to - f.from
    BY <1>3, <1>4, <2>2
  <2> QED
    BY <2>1, <2>3 DEF Whole
<1>6. Whole({Fragment(m, 0, 0, n)})
  <2> DEFINE d == Fragment(m, 0, 0, n)
  <2>1. d.msg = m /\ d.from = 0 /\ d.to = n /\ d.to - d.from = n
    BY <1>1 DEF Fragment
  <2> HIDE DEF d, n
  <2>2. Whole({d})
    BY <1>1, <2>1 DEF Whole, n
  <2> QED
    BY <2>2 DEF d
<1> QED
  BY <1>5, <1>6

LEMMA OpenedWhole ==
    ASSUME Regular, NEW m \in Messages, NEW v \in AnyMtu, NEW pieces, Whole(pieces)
    PROVE  Opened(m, pieces) = [msg |-> m, size |-> Size[m]]
  BY RegularLengths DEF Opened, PlainSize

LEMMA DistinctIds ==
    ASSUME Regular, NEW m \in Messages, NEW v \in AnyMtu,
           NEW d \in Datagrams(m, v), NEW e \in Datagrams(m, v), d.id = e.id
    PROVE  d = e
PROOF
<1> DEFINE k == NumFrags(CipherSize(m), v)
           P(i) == Part(m, v, i)
<1>1. \A i \in 1 .. k : P(i).id = IF i = k THEN Final(i) ELSE Middle(i)
  BY PartFields
<1>2. k \in Nat /\ k <= 128
  <2>1. CipherSize(m) \in Nat /\ CipherSize(m) > 0
    BY CipherLength
  <2> QED
    BY <2>1, Cuts, RegularLengths
<1>3. CASE Datagrams(m, v) = {Fragment(m, 0, 0, CipherSize(m))}
  BY <1>3
<1>4. CASE Datagrams(m, v) = Parts(m, v)
  <2>1. PICK i \in 1 .. k : d = P(i)
    BY <1>4 DEF Parts
  <2>2. PICK j \in 1 .. k : e = P(j)
    BY <1>4 DEF Parts
  <2> HIDE DEF k, P
  <2>3. i = j
    <3>1. i \in Nat /\ i > 0 /\ i <= 128 /\ j \in Nat /\ j > 0 /\ j <= 128
      BY <1>2
    <3>2. (IF i = k THEN Final(i) ELSE Middle(i)) = IF j = k THEN Final(j) ELSE Middle(j)
      BY <1>1, <2>1, <2>2
    <3> QED
      BY <3>1, <3>2, DistinctNumbers
  <2> QED
    BY <2>1, <2>2, <2>3
<1> QED
  BY <1>3, <1>4, WholeOrParts

LEMMA WholeOnly ==
    ASSUME Regular, NEW m \in Messages, NEW v \in AnyMtu, NEW d \in Datagrams(m, v)
    PROVE  IF d.id = 0 THEN Datagrams(m, v) = {d} /\ d = Fragment(m, 0, 0, CipherSize(m))
                       ELSE Datagrams(m, v) = Parts(m, v)
PROOF
<1> DEFINE k == NumFrags(CipherSize(m), v)
           P(i) == Part(m, v, i)
<1>1. \A i \in 1 .. k : P(i).id = IF i = k THEN Final(i) ELSE Middle(i)
  BY PartFields
<1>2. \A f \in Parts(m, v) : f.id # 0
  <2>1. Parts(m, v) = {P(i) : i \in 1 .. k}
    BY DEF Parts
  <2>2. k \in Nat /\ k <= 128
    <3>1. CipherSize(m) \in Nat /\ CipherSize(m) > 0
      BY CipherLength
    <3> QED
      BY <3>1, Cuts, RegularLengths
  <2> HIDE DEF P, k
  <2>3. ASSUME NEW i \in 1 .. k
        PROVE  P(i).id # 0
    <3>1. i \in Nat /\ i > 0 /\ i <= 128 /\ (i = 128 => i = k)
      BY <2>2
    <3>2. (IF i = k THEN Final(i) ELSE Middle(i)) # 0
      BY <3>1, DistinctNumbers
    <3> QED
      BY <1>1, <3>2
  <2> QED
    BY <2>1, <2>3
<1>3. Fragment(m, 0, 0, CipherSize(m)).id = 0
  BY DEF Fragment
<1> QED
  BY <1>2, <1>3, WholeOrParts

\* With all the fragments of a message, the scan finds the last.
LEMMA Complete ==
    ASSUME Regular, NEW m \in Messages, NEW v \in AnyMtu, NEW list,
           Of(list, m) = Parts(m, v)
    PROVE  HaveAll(list, m)
PROOF
<1> DEFINE k == NumFrags(CipherSize(m), v)
           P(i) == Part(m, v, i)
<1>1. \A i \in 1 .. k : P(i).id = IF i = k THEN Final(i) ELSE Middle(i)
  BY PartFields
<1>2. k \in Nat \ {0} /\ k <= 128
  <2>1. CipherSize(m) \in Nat /\ CipherSize(m) > 0
    BY CipherLength
  <2> QED
    BY <2>1, Cuts, RegularLengths
<1>3. Ids(list, m) = {P(i).id : i \in 1 .. k}
  BY IdsOf DEF Parts
<1> HIDE DEF k, P
<1>4. Final(k) \in Ids(list, m)
  <2>1. k \in 1 .. k
    BY <1>2
  <2>2. P(k).id = Final(k)
    BY <1>1, <2>1
  <2> QED
    BY <1>3, <2>1, <2>2
<1>5. Middle(k) \notin Ids(list, m)
  <2> SUFFICES ASSUME NEW i \in 1 .. k, P(i).id = Middle(k)
               PROVE  FALSE
    BY <1>3
  <2>1. i \in Nat /\ i > 0 /\ i <= 128 /\ k > 0
    BY <1>2
  <2>2. i = k /\ i # k
    BY <1>1, <1>2, <2>1, DistinctNumbers
  <2> QED
    BY <2>2
<1>6. ASSUME NEW i \in 1 .. k - 1
      PROVE  Middle(i) \in Ids(list, m)
  <2>1. i \in 1 .. k /\ i # k
    BY <1>2
  <2>2. P(i).id = Middle(i)
    BY <1>1, <2>1
  <2> QED
    BY <1>3, <2>1, <2>2
<1>7. NumFrag(list, m) = k
  <2>1. k \in 1 .. 128 /\ Gap(list, m, k)
    BY <1>2, <1>5, <1>6 DEF Gap
  <2> QED
    BY <2>1, ScanStops
<1> QED
  BY <1>4, <1>7 DEF HaveAll

LEMMA NoneLeft ==
    ASSUME NEW list, NEW m, Of(list, m) = {}
    PROVE  ~HaveAll(list, m)
  BY IdsOf DEF HaveAll

LEMMA OthersStay ==
    ASSUME NEW list, NEW other, NEW m, Of(list, m) = Of(other, m)
    PROVE  HaveAll(list, m) <=> HaveAll(other, m)
PROOF
<1>1. Ids(list, m) = Ids(other, m)
  BY IdsOf
<1> QED
  BY <1>1 DEF HaveAll, NumFrag

-----------------------------------------------------------------------------
(* The inductive invariant *)

\* The datagrams of m, cut for the MTU v: those that are in flight or kept.  Where the
\* network repeated none, each is in one place, and they are gone together.
Held(m, v) ==
    LET known == Of(net, m) \cup Of(fragList, m)
    IN /\ known \subseteq Datagrams(m, v)
       /\ m \notin repeated => /\ Of(net, m) \cap Of(fragList, m) = {}
                               /\ known = {} \/ known = Datagrams(m, v)

Incomplete ==
    /\ \A f \in fragList : f.id # 0
    /\ \A m \in Messages : ~HaveAll(fragList, m)

IInv ==
    /\ TypeOK /\ DeliveredIntact /\ Incomplete
    /\ \A m \in published : \E v \in AnyMtu : Held(m, v)

LEMMA InvInit == Init => IInv
PROOF
<1> SUFFICES ASSUME Init
             PROVE  IInv
  OBVIOUS
<1>1. \A m \in Messages : ~HaveAll(fragList, m)
  BY NoneLeft DEF Init, Of
<1> QED
  BY <1>1 DEF Init, IInv, TypeOK, DeliveredIntact, Incomplete

\* A fragment that is new is added, and is no longer in flight.
LEMMA Moved ==
    ASSUME Regular, NEW m \in Messages, NEW v \in AnyMtu, Held(m, v), m \notin repeated,
           NEW d \in net, d.msg = m
    PROVE  Added(d) = fragList \cup {d} /\ d \notin fragList
PROOF
<1>1. d \in Of(net, m)
  BY DEF Of
<1>2. d \notin Of(fragList, m)
  BY <1>1 DEF Held
<1>3. d.id \notin Ids(fragList, m)
  <2> SUFFICES ASSUME NEW f \in Of(fragList, m), f.id = d.id
               PROVE  FALSE
    BY IdsOf
  <2>1. f \in Datagrams(m, v) /\ d \in Datagrams(m, v)
    BY <1>1 DEF Held
  <2> QED
    BY <1>2, <2>1, DistinctIds
<1> QED
  BY <1>2, <1>3 DEF Added, Of

LEMMA PublishStep ==
    ASSUME Regular, IInv, TypeOK', NEW m \in Messages, Publish(m)
    PROVE  IInv'
PROOF
<1>1. /\ mtu \in AnyMtu /\ m \notin published /\ published' = published \cup {m}
      /\ net' = net \cup Datagrams(m, mtu)
      /\ UNCHANGED <<fragList, delivered, repeated>>
      /\ published \subseteq Messages /\ \A f \in net \cup fragList : f.msg \in published
  BY DEF IInv, TypeOK, Publish, AnyMtu
<1>2. \A f \in Datagrams(m, mtu) : f.msg = m
  BY <1>1, DatagramFields
<1>3. \E v \in AnyMtu : Held(m, v)'
  <2>1. PICK v \in AnyMtu : v = mtu
    BY <1>1
  <2>2. Of(net', m) = Datagrams(m, v) /\ Of(fragList', m) = {}
    BY <1>1, <1>2, <2>1 DEF Of
  <2>3. Held(m, v)'
    BY <2>2 DEF Held
  <2> QED
    BY <2>3
<1>4. ASSUME NEW x \in published
      PROVE  \E v \in AnyMtu : Held(x, v)'
  <2>1. Of(net', x) = Of(net, x) /\ Of(fragList', x) = Of(fragList, x)
    BY <1>1, <1>2, <1>4 DEF Of
  <2>2. PICK v \in AnyMtu : Held(x, v)
    BY <1>4 DEF IInv
  <2>3. Held(x, v)'
    BY <1>1, <2>1, <2>2 DEF Held
  <2> QED
    BY <2>3
<1>5. Incomplete'
  BY <1>1 DEF IInv, Incomplete
<1>6. DeliveredIntact'
  BY <1>1 DEF IInv, DeliveredIntact
<1> QED
  BY <1>1, <1>3, <1>4, <1>5, <1>6 DEF IInv

\* What a step that receives d leaves as it was: the other messages.
LEMMA RecvOthers ==
    ASSUME IInv, TypeOK', NEW d \in net, Recv(d),
           \E v \in AnyMtu : Held(d.msg, v)', ~HaveAll(fragList', d.msg),
           \A f \in fragList' : f.id # 0,
           delivered' \subseteq delivered \cup {[msg |-> d.msg, size |-> Size[d.msg]]}
    PROVE  IInv'
PROOF
<1>1. /\ published' = published
      /\ net \ {d} \subseteq net' /\ net' \subseteq net
      /\ repeated \subseteq repeated' /\ repeated' \subseteq repeated \cup {d.msg}
  BY DEF Recv, RecvWhole, RecvFragment, RecvLast, Receipt, Taken, Repeated
<1>2. fragList \ Of(fragList, d.msg) \subseteq fragList' /\ fragList' \subseteq fragList \cup {d}
  <2>1. fragList \subseteq Added(d) /\ Added(d) \subseteq fragList \cup {d}
    BY DEF Added
  <2>2. Pieces(Added(d), d.msg) \subseteq Of(Added(d), d.msg)
    BY DEF Pieces, Of
  <2> QED
    BY <2>1, <2>2 DEF Recv, RecvWhole, RecvFragment, RecvLast, Of
<1>3. \A x : x # d.msg => Of(net', x) = Of(net, x) /\ Of(fragList', x) = Of(fragList, x)
  BY <1>1, <1>2 DEF Of
<1>4. ASSUME NEW x \in published'
      PROVE  \E v \in AnyMtu : Held(x, v)'
  <2>1. CASE x = d.msg
    BY <2>1
  <2>2. CASE x # d.msg
    <3>1. PICK v \in AnyMtu : Held(x, v)
      BY <1>1, <1>4 DEF IInv
    <3>2. x \in repeated' <=> x \in repeated
      BY <1>1, <2>2
    <3>3. Held(x, v)'
      BY <1>3, <2>2, <3>1, <3>2 DEF Held
    <3> QED
      BY <3>3
  <2> QED
    BY <2>1, <2>2
<1>5. Incomplete'
  <2>1. \A x \in Messages : ~HaveAll(fragList', x)
    BY <1>3, OthersStay DEF IInv, Incomplete
  <2> QED
    BY <2>1 DEF Incomplete
<1>6. DeliveredIntact'
  BY DEF IInv, DeliveredIntact
<1> QED
  BY <1>4, <1>5, <1>6 DEF IInv

LEMMA Receives ==
    ASSUME Regular, IInv, NEW d \in net
    PROVE  /\ d.msg \in Messages /\ d.msg \in published
           /\ \E v \in AnyMtu : Held(d.msg, v) /\ d \in Datagrams(d.msg, v)
PROOF
<1>1. d.msg \in Messages /\ d.msg \in published
  BY DEF IInv, TypeOK
<1>2. PICK v \in AnyMtu : Held(d.msg, v)
  BY <1>1 DEF IInv
<1>3. d \in Of(net, d.msg)
  BY DEF Of
<1> QED
  BY <1>1, <1>2, <1>3 DEF Held

LEMMA WholeStep ==
    ASSUME Regular, IInv, TypeOK', NEW d \in net, RecvWhole(d)
    PROVE  /\ delivered' = delivered \cup {[msg |-> d.msg, size |-> Size[d.msg]]}
           /\ IInv'
PROOF
<1> DEFINE m == d.msg
<1>1. m \in Messages
  BY Receives
<1>2. PICK v \in AnyMtu : Held(m, v) /\ d \in Datagrams(m, v)
  BY Receives
<1>3. d.id = 0 /\ fragList' = fragList /\ Receipt(d)
      /\ delivered' = delivered \cup {Opened(m, {d})}
  BY DEF RecvWhole
<1>4. Datagrams(m, v) = {d} /\ d = Fragment(m, 0, 0, CipherSize(m))
  BY <1>1, <1>2, <1>3, WholeOnly
<1>5. Opened(m, {d}) = [msg |-> m, size |-> Size[m]]
  BY <1>1, <1>4, OpenedWhole, WholeParts
<1>6. Of(fragList, m) = {}
  BY <1>2, <1>3, <1>4 DEF Held, IInv, Incomplete, Of
<1>7. Held(m, v)'
  <2>1. Of(net', m) \subseteq {d}
    BY <1>2, <1>3, <1>4 DEF Held, Receipt, Taken, Repeated, Of
  <2>2. m \notin repeated' => Of(net', m) = {}
    BY <1>3, <2>1 DEF Receipt, Taken, Repeated, Of
  <2> QED
    BY <1>3, <1>4, <1>6, <2>1, <2>2 DEF Held
<1>8. ~HaveAll(fragList', m) /\ \A f \in fragList' : f.id # 0
  BY <1>3, <1>6, NoneLeft DEF IInv, Incomplete
<1> QED
  BY <1>3, <1>5, <1>7, <1>8, RecvOthers DEF Recv

LEMMA FragmentStep ==
    ASSUME Regular, IInv, TypeOK', NEW d \in net, RecvFragment(d)
    PROVE  IInv'
PROOF
<1> DEFINE m == d.msg
<1>1. m \in Messages
  BY Receives
<1>2. PICK v \in AnyMtu : Held(m, v) /\ d \in Datagrams(m, v)
  BY Receives
<1>3. d.id # 0 /\ fragList' = Added(d) /\ ~HaveAll(fragList', m) /\ Receipt(d)
      /\ delivered' = delivered
  BY DEF RecvFragment
<1>4. \A f \in fragList' : f.id # 0
  BY <1>3 DEF IInv, Incomplete, Added
<1>5. Of(net', m) \subseteq Datagrams(m, v) /\ Of(fragList', m) \subseteq Datagrams(m, v)
  <2>1. Of(net', m) \subseteq Of(net, m) /\ Of(fragList', m) \subseteq Of(fragList, m) \cup {d}
    BY <1>3 DEF Receipt, Taken, Repeated, Added, Of
  <2> QED
    BY <1>2, <2>1 DEF Held
<1>6. ASSUME m \notin repeated'
      PROVE  /\ Of(net', m) \cap Of(fragList', m) = {}
             /\ Of(net', m) \cup Of(fragList', m) = Datagrams(m, v)
  <2>1. m \notin repeated /\ net' = net \ {d}
    BY <1>3, <1>6 DEF Receipt, Taken, Repeated
  <2>2. fragList' = fragList \cup {d}
    BY <1>1, <1>2, <1>3, <2>1, Moved
  <2>3. /\ Of(net', m) = Of(net, m) \ {d} /\ Of(fragList', m) = Of(fragList, m) \cup {d}
        /\ d \in Of(net, m)
    BY <2>1, <2>2 DEF Of
  <2>4. /\ Of(net, m) \cap Of(fragList, m) = {}
        /\ Of(net, m) \cup Of(fragList, m) = Datagrams(m, v)
    BY <1>2, <2>1, <2>3 DEF Held
  <2> QED
    BY <2>3, <2>4
<1>7. Held(m, v)'
  BY <1>5, <1>6 DEF Held
<1> QED
  BY <1>3, <1>4, <1>7, RecvOthers DEF Recv

LEMMA LastStep ==
    ASSUME Regular, IInv, TypeOK', NEW d \in net, RecvLast(d)
    PROVE  /\ delivered' = delivered \cup {[msg |-> d.msg, size |-> Size[d.msg]]}
           /\ IInv'
PROOF
<1> DEFINE m == d.msg
           list == Added(d)
<1>1. m \in Messages
  BY Receives
<1>2. PICK v \in AnyMtu : Held(m, v) /\ d \in Datagrams(m, v)
  BY Receives
<1>3. /\ d.id # 0 /\ HaveAll(list, m) /\ Receipt(d)
      /\ fragList' = list \ Pieces(list, m)
      /\ delivered' = delivered \cup {Opened(m, Pieces(list, m))}
  BY DEF RecvLast
<1>4. list \subseteq fragList \cup {d}
  BY DEF Added
<1>5. /\ Of(list, m) \subseteq Datagrams(m, v)
      /\ \A f \in list : f.id # 0
  BY <1>2, <1>3, <1>4 DEF Held, IInv, Incomplete, Of
<1>6. /\ Datagrams(m, v) = Parts(m, v)
      /\ Of(list, m) = Parts(m, v) /\ Pieces(list, m) = Parts(m, v)
  <2>1. \A f \in Of(list, m) : f.id # 0
    BY <1>5 DEF Of
  <2> HIDE DEF list
  <2> QED
    BY <1>1, <1>2, <1>3, <1>5, <2>1, Gathered
<1> HIDE DEF list
<1>7. Opened(m, Pieces(list, m)) = [msg |-> m, size |-> Size[m]]
  BY <1>1, <1>2, <1>6, OpenedWhole, WholeParts
<1>8. Of(fragList', m) = {}
  BY <1>3, <1>6 DEF Of
<1>9. Of(net', m) \subseteq Datagrams(m, v)
  BY <1>2, <1>3 DEF Held, Receipt, Taken, Repeated, Of
<1>10. ASSUME m \notin repeated'
       PROVE  Of(net', m) = {}
  <2>1. m \notin repeated /\ net' = net \ {d}
    BY <1>3, <1>10 DEF Receipt, Taken, Repeated
  <2>2. list = fragList \cup {d}
    BY <1>1, <1>2, <2>1, Moved DEF list
  <2>3. Of(list, m) \subseteq Of(fragList, m) \cup {d}
    BY <2>2 DEF Of
  <2>4. Of(net, m) \cap Of(fragList, m) = {} /\ Of(net, m) \subseteq Datagrams(m, v)
    BY <1>2, <2>1 DEF Held
  <2>5. Of(net, m) \subseteq {d}
    BY <1>6, <2>3, <2>4
  <2> QED
    BY <2>1, <2>5 DEF Of
<1>11. Held(m, v)'
  BY <1>8, <1>9, <1>10 DEF Held
<1>12. ~HaveAll(fragList', m) /\ \A f \in fragList' : f.id # 0
  BY <1>3, <1>5, <1>8, NoneLeft
<1> QED
  BY <1>3, <1>7, <1>11, <1>12, RecvOthers DEF Recv

LEMMA InvStep ==
    ASSUME Regular
    PROVE  IInv /\ [Next]_vars => IInv'
PROOF
<1> SUFFICES ASSUME IInv, [Next]_vars
             PROVE  IInv'
  OBVIOUS
<1>1. TypeOK'
  BY TypeStep DEF IInv
<1>2. ASSUME NEW m \in Messages, Publish(m)
      PROVE  IInv'
  BY <1>1, <1>2, PublishStep
<1>3. ASSUME UNCHANGED <<published, net, fragList, delivered, repeated>>
      PROVE  IInv'
  <2>1. \A m, v : Held(m, v) => Held(m, v)'
    BY <1>3 DEF Held
  <2>2. \A m \in published' : \E v \in AnyMtu : Held(m, v)'
    BY <1>3, <2>1 DEF IInv
  <2>3. Incomplete' /\ DeliveredIntact'
    BY <1>3 DEF IInv, Incomplete, DeliveredIntact
  <2> QED
    BY <1>1, <2>2, <2>3 DEF IInv
<1>4. ASSUME NEW v \in Mtus, SetPacketsUp(v)
      PROVE  IInv'
  BY <1>3, <1>4 DEF SetPacketsUp
<1>5. ASSUME NEW d \in net, Recv(d)
      PROVE  IInv'
  BY <1>1, <1>5, WholeStep, FragmentStep, LastStep DEF Recv
<1>6. CASE UNCHANGED vars
  BY <1>3, <1>6 DEF vars
<1> QED
  BY <1>2, <1>4, <1>5, <1>6 DEF Next

-----------------------------------------------------------------------------
(* Whole messages *)

\* MessagesAreWhole: where no length is one that the wire changes, and no message has
\* more fragments than their numbers tell apart, what recv gives the application is what was
\* published, whatever the network loses, repeats and reorders and whenever the MTU
\* changes.
THEOREM MessagesAreWhole ==
    ASSUME Regular
    PROVE  Spec => []DeliveredIntact
PROOF
<1>1. Init => IInv
  BY InvInit
<1>2. IInv /\ [Next]_vars => IInv'
  BY InvStep
<1>3. IInv => DeliveredIntact
  BY DEF IInv
<1> QED
  BY <1>1, <1>2, <1>3, PTL DEF Spec

\* FragmentsAreTaken: under the same conditions, processRxPacket leaves nothing in
\* fragList of a message that arrived, none of its datagrams twice.
THEOREM FragmentsAreTaken ==
    ASSUME Regular
    PROVE  Spec => []NothingLeftOver
PROOF
<1>1. Init => IInv
  BY InvInit
<1>2. IInv /\ [Next]_vars => IInv'
  BY InvStep
<1>3. IInv => NothingLeftOver
  <2> SUFFICES ASSUME IInv, NEW f \in fragList, f.msg \notin repeated,
                      \A d \in net : d.msg # f.msg
               PROVE  FALSE
    BY DEF NothingLeftOver
  <2> DEFINE m == f.msg
  <2>1. m \in Messages /\ m \in published
    BY DEF IInv, TypeOK
  <2>2. PICK v \in AnyMtu : Held(m, v)
    BY <2>1 DEF IInv
  <2>3. Of(net, m) = {} /\ f \in Of(fragList, m)
    BY DEF Of
  <2>4. Of(fragList, m) = Datagrams(m, v)
    BY <2>2, <2>3 DEF Held
  <2>5. f.id # 0 /\ ~HaveAll(fragList, m)
    BY <2>1 DEF IInv, Incomplete
  <2>6. Of(fragList, m) = Parts(m, v)
    BY <2>1, <2>3, <2>4, <2>5, WholeOnly
  <2> QED
    BY <2>1, <2>5, <2>6, Complete
<1> QED
  BY <1>1, <1>2, <1>3, PTL DEF Spec

\* Refinement: under the same conditions, publishing through FragmentPipe implements
\* the channel of whole messages of MessageChannel.
THEOREM Refinement ==
    ASSUME Regular
    PROVE  Spec => ImplementsChannel
PROOF
<1> DEFINE In(set) == {IF e.size = Size[e.msg] THEN e.msg ELSE <<>> : e \in set}
<1>1. Init => IInv
  BY InvInit
<1>2. IInv /\ [Next]_vars => IInv'
  BY InvStep
<1>3. Init => Channel!Init
  BY DEF Init, Channel!Init
<1>4. IInv /\ [Next]_vars => [Channel!Next]_(Channel!vars)
  <2> SUFFICES ASSUME IInv, [Next]_vars
               PROVE  [Channel!Next]_(Channel!vars)
    OBVIOUS
  <2>1. ASSUME published' = published, delivered' = delivered
        PROVE  UNCHANGED Channel!vars
    BY <2>1 DEF Channel!vars
  <2>2. ASSUME NEW m \in Messages, Publish(m)
        PROVE  Channel!Next
    <3>1. In(delivered') = In(delivered)
      BY <2>2 DEF Publish
    <3>2. Channel!Publish(m)
      BY <2>2, <3>1 DEF Publish, Channel!Publish
    <3> QED
      BY <3>2 DEF Channel!Next
  <2>3. ASSUME NEW d \in net, published' = published,
               delivered' = delivered \cup {[msg |-> d.msg, size |-> Size[d.msg]]}
        PROVE  Channel!Next
    <3>1. d.msg \in Messages /\ d.msg \in published
      BY DEF IInv, TypeOK
    <3>2. In(delivered') = In(delivered) \cup {d.msg}
      <4> DEFINE V(e) == IF e.size = Size[e.msg] THEN e.msg ELSE <<>>
                 r == [msg |-> d.msg, size |-> Size[d.msg]]
      <4>1. V(r) = d.msg
        OBVIOUS
      <4>2. In(delivered') = {V(e) : e \in delivered'} /\ In(delivered) = {V(e) : e \in delivered}
        OBVIOUS
      <4>3. delivered' = delivered \cup {r}
        BY <2>3
      <4> HIDE DEF V, r, In
      <4> QED
        BY <4>1, <4>2, <4>3
    <3>3. Channel!Receive(d.msg)
      BY <2>3, <3>1, <3>2 DEF Channel!Receive
    <3> QED
      BY <3>1, <3>3 DEF Channel!Next
  <2>4. TypeOK'
    BY TypeStep DEF IInv
  <2>5. CASE \E m \in Messages : Publish(m)
    BY <2>2, <2>5
  <2>6. CASE \E v \in Mtus : SetPacketsUp(v)
    BY <2>1, <2>6 DEF SetPacketsUp
  <2>7. ASSUME NEW d \in net, Recv(d)
        PROVE  [Channel!Next]_(Channel!vars)
    <3>1. CASE RecvWhole(d)
      BY <2>3, <2>4, <3>1, WholeStep DEF RecvWhole
    <3>2. CASE RecvFragment(d)
      BY <2>1, <3>2 DEF RecvFragment
    <3>3. CASE RecvLast(d)
      BY <2>3, <2>4, <3>3, LastStep DEF RecvLast
    <3> QED
      BY <2>7, <3>1, <3>2, <3>3 DEF Recv
  <2>8. CASE UNCHANGED vars
    BY <2>1, <2>8 DEF vars
  <2> QED
    BY <2>5, <2>6, <2>7, <2>8 DEF Next
<1> QED
  BY <1>1, <1>2, <1>3, <1>4, PTL DEF Spec, ImplementsChannel, Channel!Spec

-----------------------------------------------------------------------------
(* More fragments than are counted *)

\* Where the 128th fragment is not the last, the eight bits of its number are those of a
\* packet that is not a fragment, and it is opened as one. Regular excludes such messages,
\* and no others for their fragments.
THEOREM UncountedIsCorrupt ==
    ASSUME NEW m \in Messages, TypeOK, Publish(m),
           CipherSize(m) > 128 * DataSize(mtu)
    PROVE  \E d \in net' : d.msg = m /\ d.id = 0 /\ Opened(m, {d}).size = Corrupt
PROOF
<1> DEFINE v == mtu
           n == CipherSize(m)
           D == DataSize(v)
           k == NumFrags(n, v)
           d == Fragment(m, FragID(128, 128 = k), (128 - 1) * D,
                         IF 128 = k THEN n ELSE 128 * D)
<1>1. v \in AnyMtu /\ n \in Nat /\ D \in Nat /\ D >= 56 /\ v \in Nat
  BY CipherLength, DataSizes DEF TypeOK, AnyMtu
<1>2. D >= v - 25
  BY <1>1 DEF DataSize, extraHeaderSizeBytes, minPacketPayload
<1>3. k \in Nat /\ k > 128
  <2>1. k \in Nat \ {0} /\ n <= k * D
    BY <1>1, Cuts
  <2> HIDE DEF n, D, k
  <2>2. ASSUME k <= 128 PROVE FALSE
    <3>1. k * D <= 128 * D
      BY <1>1, <2>1, <2>2, Multiplied
    <3>2. n > 128 * D
      BY DEF n, D
    <3> QED
      BY <1>1, <2>1, <3>1, <3>2
  <2> QED
    BY <2>1, <2>2
<1>4. FullSize(n) + extraHeaderSizeBytes > v
  <2>1. Len(Encode(Bytes(n))) \in Nat
    <3>1. Bytes(n) \in Value /\ <<>> \in Seq(Byte)
      BY CipherLength, BytesOfLength
    <3> HIDE DEF n
    <3>2. Len(Encode(Bytes(n))) \in {1, 2, 4, 8}
      BY <3>1, LengthOfEncoded
    <3> QED
      BY <3>2
  <2> DEFINE l == Len(Encode(Bytes(n)))
  <2>2. n > 128 * D
    OBVIOUS
  <2>3. FullSize(n) + extraHeaderSizeBytes = 6 + n + (3 + l) + 20 + 5 + 25
    BY DEF FullSize, extraHeaderSizeBytes
  <2> HIDE DEF l, n, D, v
  <2> QED
    BY <1>1, <1>2, <2>1, <2>2, <2>3 DEF l
<1>5. d \in Datagrams(m, v)
  <2>1. 128 \in 1 .. k
    BY <1>3
  <2>2. ~(FullSize(n) + extraHeaderSizeBytes <= v)
    BY <1>1, <1>4 DEF FullSize, extraHeaderSizeBytes
  <2>3. Datagrams(m, v) =
          {Fragment(m, FragID(i, i = k), (i - 1) * D, IF i = k THEN n ELSE i * D) :
              i \in 1 .. k}
    BY <2>2, Zenon DEF Datagrams
  <2> QED
    BY <2>1, <2>3, Zenon
<1>6. d.msg = m /\ d.id = FragID(128, FALSE) /\ d.from = 127 * D
  <2> DEFINE id == FragID(128, 128 = k)
             at == (128 - 1) * D
             end == IF 128 = k THEN n ELSE 128 * D
  <2>1. (128 = k) = FALSE
    <3> HIDE DEF k
    <3> QED
      BY <1>3
  <2>2. id = FragID(128, FALSE)
    BY <2>1, Zenon
  <2>3. at = 127 * D
    OBVIOUS
  <2>4. d = [msg |-> m, id |-> id, from |-> at, to |-> end]
    BY Zenon DEF Fragment
  <2> HIDE DEF id, at, end, d
  <2> QED
    BY <2>2, <2>3, <2>4
<1>7. FragID(128, FALSE) = 0
  BY DEF FragID
<1>8. d \in net'
  BY <1>5 DEF Publish
<1> HIDE DEF d
<1>9. ~Whole({d})
  <2> SUFFICES ASSUME Whole({d}) PROVE FALSE
    OBVIOUS
  <2>1. \A f \in {d} : f.from = 0 \/ \E g \in {d} : g.to = f.from /\ Before(g, f)
    BY Zenon DEF Whole
  <2>2. d.from = 0 \/ Before(d, d)
    BY <2>1, Zenon
  <2>3. d.id = 0 /\ d.from # 0
    <3> HIDE DEF D
    <3>1. 127 * D # 0
      BY <1>1
    <3> QED
      BY <1>6, <1>7, <3>1
  <2>4. ~Before(d, d)
    BY <2>3 DEF Before
  <2> QED
    BY <2>2, <2>3, <2>4
<1>10. Opened(m, {d}).size = Corrupt
  BY <1>9 DEF Opened
<1> QED
  BY <1>6, <1>7, <1>8, <1>10

=============================================================================
