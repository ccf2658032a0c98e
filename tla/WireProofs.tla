----------------------------- MODULE WireProofs -----------------------------
(***************************************************************************)
(* Proofs about the wire format: a packet is exactly the messages that are *)
(* in it, and every message of every type is read back as it was written,  *)
(* but for its lengths of 2^7, 2^14 and 2^29, on any packet.               *)
(*                                                                         *)
(* The argument: the tables of a type mirror each other (Tables); an item  *)
(* that was pushed last is popped whole (ItemRead); by induction over the  *)
(* items, reading takes them off one by one (AllRead); the tag on top says *)
(* whose table that is (TagOnTop, Heads).                                  *)
(***************************************************************************)
EXTENDS Wire, VarIntProofs, WellFoundedInduction, SequenceTheorems

-----------------------------------------------------------------------------
(* Induction *)

\* The relation that the library's well-foundedness is about
Less == OpToRel(<, Nat)

\* Induction over the natural numbers, for a set of them
LEMMA Induction ==
  ASSUME NEW S, 0 \in S, \A n \in Nat : n \in S => n + 1 \in S
  PROVE  Nat \subseteq S
<1> DEFINE T == Nat \ S
<1>1. IsWellFoundedOn(Less, Nat)
  BY NatLessThanWellFounded, Zenon DEF Less
<1>2. \A x, y \in Nat : y < x => <<y, x>> \in Less
  BY Zenon DEF Less, OpToRel
<1>3. ASSUME T # {} PROVE FALSE
  <2>1. PICK x \in T : \A y \in T : <<y, x>> \notin Less
    BY <1>1, <1>3, WFMin, Zenon
  <2>2. x \in Nat /\ x # 0
    BY <2>1
  <2>3. x - 1 \in Nat /\ x - 1 < x /\ x - 1 + 1 = x
    BY <2>2
  <2>4. x - 1 \in S
    BY <1>2, <2>1, <2>2, <2>3
  <2> QED
    BY <2>1, <2>3, <2>4
<1> QED
  BY <1>3

-----------------------------------------------------------------------------
(* FlattenSeq, which the library defines by recursion *)

\* g[i] is the first i sequences of s one after the other.
IsFlat(g, s, k) == g = [i \in 1 .. k |-> IF i = 1 THEN s[i] ELSE g[i - 1] \o s[i]]

\* Its value at one place
LEMMA FlatAt ==
  ASSUME NEW g, NEW s, NEW k, IsFlat(g, s, k), NEW i \in 1 .. k
  PROVE  g[i] = IF i = 1 THEN s[i] ELSE g[i - 1] \o s[i]
<1> DEFINE e(j) == IF j = 1 THEN s[j] ELSE g[j - 1] \o s[j]
<1>1. g = [j \in 1 .. k |-> e(j)]
  BY Zenon DEF IsFlat
<1> HIDE DEF e
<1>2. g[i] = e(i)
  BY <1>1
<1> QED
  BY <1>2 DEF e

\* There is one,
LEMMA FlatExists ==
  ASSUME NEW s, NEW n \in Nat
  PROVE  \E g : IsFlat(g, s, n)
<1> DEFINE K == {k \in Nat : \E g : IsFlat(g, s, k)}
<1>1. 0 \in K
  <2> DEFINE g == [i \in 1 .. 0 |-> <<>>]
  <2>1. IsFlat(g, s, 0)
    BY DEF IsFlat
  <2> QED
    BY <2>1
<1>2. ASSUME NEW k \in Nat, k \in K
      PROVE  k + 1 \in K
  <2>1. PICK g : IsFlat(g, s, k)
    BY <1>2
  <2> DEFINE h == [i \in 1 .. k + 1 |-> IF i = 1 THEN s[i] ELSE g[i - 1] \o s[i]]
  <2>2. \A j \in 1 .. k : h[j] = g[j]
    BY <2>1, FlatAt
  <2>3. \A i \in 1 .. k + 1 : i # 1 => i - 1 \in 1 .. k
    OBVIOUS
  <2>4. h = [i \in 1 .. k + 1 |-> IF i = 1 THEN s[i] ELSE h[i - 1] \o s[i]]
    <3> DEFINE e(i) == IF i = 1 THEN s[i] ELSE g[i - 1] \o s[i]
               d(i) == IF i = 1 THEN s[i] ELSE h[i - 1] \o s[i]
    <3>1. \A i \in 1 .. k + 1 : e(i) = d(i)
      <4> HIDE DEF h
      <4> QED
        BY <2>2, <2>3
    <3>2. h = [i \in 1 .. k + 1 |-> e(i)]
      OBVIOUS
    <3> HIDE DEF e, d, h
    <3>3. h = [i \in 1 .. k + 1 |-> d(i)]
      BY <3>1, <3>2
    <3> QED
      BY <3>3 DEF d
  <2>5. IsFlat(h, s, k + 1)
    BY <2>4 DEF IsFlat
  <2> QED
    BY <2>5
<1> HIDE DEF K
<1>3. Nat \subseteq K
  BY <1>1, <1>2, Induction
<1> QED
  BY <1>3 DEF K

\* and sequences that begin alike have one that begins alike.
LEMMA FlatUnique ==
  ASSUME NEW s, NEW t, NEW g, NEW h, NEW k \in Nat, NEW l \in Nat, k <= l,
         IsFlat(g, s, k), IsFlat(h, t, l), \A i \in 1 .. k : s[i] = t[i]
  PROVE  \A i \in 1 .. k : g[i] = h[i]
<1> DEFINE K == {i \in Nat : i \in 1 .. k => g[i] = h[i]}
<1>1. 0 \in K
  OBVIOUS
<1>2. ASSUME NEW i \in Nat, i \in K
      PROVE  i + 1 \in K
  <2> SUFFICES ASSUME i + 1 \in 1 .. k PROVE g[i + 1] = h[i + 1]
    OBVIOUS
  <2>1. i + 1 \in 1 .. l
    OBVIOUS
  <2>2. g[i + 1] = IF i + 1 = 1 THEN s[i + 1] ELSE g[i + 1 - 1] \o s[i + 1]
    BY FlatAt
  <2>3. h[i + 1] = IF i + 1 = 1 THEN t[i + 1] ELSE h[i + 1 - 1] \o t[i + 1]
    BY <2>1, FlatAt
  <2>4. i + 1 # 1 => i \in 1 .. k /\ i + 1 - 1 = i
    OBVIOUS
  <2> QED
    BY <1>2, <2>2, <2>3, <2>4
<1> HIDE DEF K
<1>3. Nat \subseteq K
  BY <1>1, <1>2, Induction
<1> QED
  BY <1>3 DEF K

\* FlattenSeq is its last value.
LEMMA FlattenIs ==
  ASSUME NEW s, Len(s) \in Nat \ {0}, NEW g, IsFlat(g, s, Len(s))
  PROVE  FlattenSeq(s) = g[Len(s)]
<1> DEFINE f == CHOOSE f : IsFlat(f, s, Len(s))
<1>1. IsFlat(f, s, Len(s))
  BY Zenon
<1>2. f[Len(s)] = g[Len(s)]
  <2> HIDE DEF f
  <2> QED
    BY <1>1, FlatUnique
<1>3. FlattenSeq(s) = f[Len(s)]
  <2>1. Len(s) # 0
    OBVIOUS
  <2> QED
    BY <2>1, Zenon DEF FlattenSeq, IsFlat
<1> QED
  BY <1>2, <1>3

\* Nothing, one more sequence, and the bytes they are made of
LEMMA FlattenEmpty == FlattenSeq(<<>>) = <<>>
BY DEF FlattenSeq

\* One sequence more comes behind the others.
LEMMA FlattenAppend ==
  ASSUME NEW s \in Seq(Seq(Byte)), NEW x \in Seq(Byte)
  PROVE  FlattenSeq(Append(s, x)) = FlattenSeq(s) \o x
<1> DEFINE t == Append(s, x)
           n == Len(s)
<1>1. /\ n \in Nat /\ Len(t) = n + 1 /\ t[n + 1] = x
      /\ \A i \in 1 .. n : t[i] = s[i]
  OBVIOUS
<1> HIDE DEF t
<1> DEFINE m == n + 1
<1>0. m \in Nat /\ n <= m /\ m # 0
  BY <1>1
<1> HIDE DEF m
<1>2. PICK g : IsFlat(g, t, m)
  BY <1>0, FlatExists
<1>3. FlattenSeq(t) = g[m]
  BY <1>0, <1>1, <1>2, FlattenIs DEF m
<1>4. g[m] = IF m = 1 THEN t[m] ELSE g[m - 1] \o t[m]
  BY <1>0, <1>2, FlatAt
<1>5. CASE n = 0
  <2>1. s = <<>>
    BY <1>5
  <2>2. FlattenSeq(s) = <<>>
    BY <2>1, FlattenEmpty
  <2>3. <<>> \o x = x
    OBVIOUS
  <2> QED
    BY <1>1, <1>3, <1>4, <1>5, <2>2, <2>3 DEF t, m
<1>6. CASE n # 0
  <2>1. PICK h : IsFlat(h, s, n)
    BY <1>1, FlatExists
  <2>2. FlattenSeq(s) = h[n]
    BY <1>1, <1>6, <2>1, FlattenIs
  <2>3. g[n] = h[n]
    <3>1. \A i \in 1 .. n : s[i] = t[i]
      BY <1>1
    <3>2. n \in Nat
      BY <1>1
    <3> HIDE DEF n
    <3>3. \A i \in 1 .. n : h[i] = g[i]
      BY <1>0, <1>2, <2>1, <3>1, <3>2, FlatUnique
    <3> QED
      BY <1>6, <3>2, <3>3
  <2>4. m # 1 /\ m - 1 = n /\ t[m] = x
    BY <1>1, <1>6 DEF m
  <2> QED
    BY <1>1, <1>3, <1>4, <2>2, <2>3, <2>4 DEF t
<1> QED
  BY <1>5, <1>6

\* Sequences of bytes one after the other are a sequence of bytes.
LEMMA FlattenTyped ==
  ASSUME NEW s \in Seq(Seq(Byte))
  PROVE  FlattenSeq(s) \in Seq(Byte)
<1> DEFINE n == Len(s)
<1>1. CASE n = 0
  <2>1. s = <<>> /\ <<>> \in Seq(Byte)
    BY <1>1
  <2>2. FlattenSeq(s) = <<>>
    BY <2>1, FlattenEmpty
  <2> QED
    BY <2>1, <2>2
<1>2. CASE n # 0
  <2>0. n \in Nat
    OBVIOUS
  <2>1. PICK g : IsFlat(g, s, n)
    BY <2>0, FlatExists
  <2> DEFINE K == {i \in Nat : i \in 1 .. n => g[i] \in Seq(Byte)}
  <2>2. 0 \in K
    OBVIOUS
  <2>3. ASSUME NEW i \in Nat, i \in K
        PROVE  i + 1 \in K
    <3> SUFFICES ASSUME i + 1 \in 1 .. n PROVE g[i + 1] \in Seq(Byte)
      OBVIOUS
    <3>1. g[i + 1] = IF i + 1 = 1 THEN s[i + 1] ELSE g[i + 1 - 1] \o s[i + 1]
      BY <2>1, FlatAt
    <3>2. s[i + 1] \in Seq(Byte)
      OBVIOUS
    <3>3. i + 1 # 1 => i \in 1 .. n /\ i + 1 - 1 = i
      OBVIOUS
    <3>4. i + 1 # 1 => g[i] \in Seq(Byte)
      BY <2>3, <3>3
    <3> QED
      BY <3>1, <3>2, <3>3, <3>4
  <2> HIDE DEF K
  <2>4. Nat \subseteq K
    BY <2>2, <2>3, Induction
  <2>5. g[n] \in Seq(Byte)
    BY <1>2, <2>0, <2>4 DEF K
  <2> QED
    BY <1>2, <2>0, <2>1, <2>5, FlattenIs
<1> QED
  BY <1>1, <1>2

-----------------------------------------------------------------------------
(* The tables of the types *)

\* What is written and read: tags and fields
Items == DOMAIN Tag \cup {"origin", "headerTag"} \cup VarFields \cup DOMAIN Width

\* Of a type's tables: what is read first was written last, a tag, and no item twice.
Mirrored(w, r) ==
    /\ w \in Seq(Items) /\ r \in Seq(Items)
    /\ Len(w) \in Nat \ {0} /\ Len(r) = Len(w)
    /\ \A i \in 1 .. Len(w) : r[i] = w[Len(w) + 1 - i]
    /\ \A i, j \in 1 .. Len(w) : w[i] = w[j] => i = j
    /\ w[Len(w)] \in DOMAIN Tag

\* The names of the tags and of the fields that have a fixed width
LEMMA ItemsAre ==
  /\ DOMAIN Tag = {"sync", "syncAck", "resetRetry", "resetRedirect", "subscribe",
       "clientData", "nack", "rate", "ack", "relayData", "shortName", "dataBlock",
       "encDataBlock", "header"}
  /\ DOMAIN Width = {"pathToken", "fragmentID", "mediaTime", "sourceID", "senderID",
       "resourceID", "clientSeqNum", "relaySendTimeUs", "relaySeqNum", "ecnVec", "ackVec",
       "recvTimeUs", "supportedFeaturesVec", "clientTimeMs", "senderId", "cookie",
       "useFeaturesVec", "serverTimeMs", "port", "authTagLen"}
BY DEF Tag, Width

\* The tables that are put together of a short name and one item more
LEMMA OneAndSix ==
  ASSUME NEW a, NEW b, NEW c, NEW d, NEW e, NEW f, NEW g
  PROVE  /\ <<a>> \o <<b, c, d, e, f, g>> = <<a, b, c, d, e, f, g>>
         /\ <<b, c, d, e, f, g>> \o <<a>> = <<b, c, d, e, f, g, a>>
<1> DEFINE S == {a, b, c, d, e, f, g}
           one == <<a>>
           six == <<b, c, d, e, f, g>>
           front == <<a, b, c, d, e, f, g>>
           back == <<b, c, d, e, f, g, a>>
<1>1. /\ one \in Seq(S) /\ Len(one) = 1 /\ one[1] = a
      /\ six \in Seq(S) /\ Len(six) = 6
      /\ six[1] = b /\ six[2] = c /\ six[3] = d /\ six[4] = e /\ six[5] = f /\ six[6] = g
  OBVIOUS
<1>2. /\ front \in Seq(S) /\ Len(front) = 7 /\ front[1] = a
      /\ front[2] = b /\ front[3] = c /\ front[4] = d /\ front[5] = e /\ front[6] = f /\ front[7] = g
  OBVIOUS
<1>3. /\ back \in Seq(S) /\ Len(back) = 7 /\ back[7] = a
      /\ back[1] = b /\ back[2] = c /\ back[3] = d /\ back[4] = e /\ back[5] = f /\ back[6] = g
  OBVIOUS
<1> HIDE DEF S, one, six, front, back
<1>4. /\ one \o six \in Seq(S) /\ Len(one \o six) = 7
      /\ \A i \in 1 .. 7 : (one \o six)[i] = IF i <= 1 THEN one[i] ELSE six[i - 1]
  <2>1. Len(one) + Len(six) = 7
    BY <1>1
  <2>2. /\ one \o six \in Seq(S) /\ Len(one \o six) = Len(one) + Len(six)
        /\ \A i \in 1 .. Len(one) + Len(six) :
              (one \o six)[i] = IF i <= Len(one) THEN one[i] ELSE six[i - Len(one)]
    BY <1>1, ConcatProperties, Zenon
  <2> QED
    BY <1>1, <2>1, <2>2
<1>5. /\ six \o one \in Seq(S) /\ Len(six \o one) = 7
      /\ \A i \in 1 .. 7 : (six \o one)[i] = IF i <= 6 THEN six[i] ELSE one[i - 6]
  <2>1. Len(six) + Len(one) = 7
    BY <1>1
  <2>2. /\ six \o one \in Seq(S) /\ Len(six \o one) = Len(six) + Len(one)
        /\ \A i \in 1 .. Len(six) + Len(one) :
              (six \o one)[i] = IF i <= Len(six) THEN six[i] ELSE one[i - Len(six)]
    BY <1>1, ConcatProperties, Zenon
  <2> QED
    BY <1>1, <2>1, <2>2
<1>6. \A i \in 1 .. 7 : i \in {1, 2, 3, 4, 5, 6, 7}
  OBVIOUS
<1>7. one \o six = front
  <2>1. \A i \in 1 .. 7 : (one \o six)[i] = front[i]
    BY <1>1, <1>2, <1>4, <1>6
  <2> QED
    BY <1>2, <1>4, <2>1, SeqEqual
<1>8. six \o one = back
  <2>1. \A i \in 1 .. 7 : (six \o one)[i] = back[i]
    BY <1>1, <1>3, <1>5, <1>6
  <2> QED
    BY <1>3, <1>5, <2>1, SeqEqual
<1> QED
  BY <1>7, <1>8 DEF one, six, front, back

\* operator>> of every type undoes its operator<<, item by item.
LEMMA Tables ==
  ASSUME NEW type \in Types
  PROVE  Mirrored(Writes[type], Reads[type])
<1>1. CASE type = "Header"
  BY <1>1, ItemsAre DEF Mirrored, Items, VarFields, Writes, Reads, ReadRelayData,
     ReadEncryptedDataBlock
<1>2. CASE type = "ClientData"
  BY <1>2, ItemsAre DEF Mirrored, Items, VarFields, Writes, Reads, ReadRelayData,
     ReadEncryptedDataBlock
<1>3. CASE type = "RelayData"
  BY <1>3, ItemsAre DEF Mirrored, Items, VarFields, Writes, Reads, ReadRelayData,
     ReadEncryptedDataBlock
<1>4. CASE type = "NetAck"
  BY <1>4, ItemsAre DEF Mirrored, Items, VarFields, Writes, Reads, ReadRelayData,
     ReadEncryptedDataBlock
<1>5. CASE type = "NetNack"
  BY <1>5, ItemsAre DEF Mirrored, Items, VarFields, Writes, Reads, ReadRelayData,
     ReadEncryptedDataBlock
<1>6. CASE type = "NetSyncReq"
  BY <1>6, ItemsAre DEF Mirrored, Items, VarFields, Writes, Reads, ReadRelayData,
     ReadEncryptedDataBlock
<1>7. CASE type = "NetSyncAck"
  BY <1>7, ItemsAre DEF Mirrored, Items, VarFields, Writes, Reads, ReadRelayData,
     ReadEncryptedDataBlock
<1>8. CASE type = "NetResetRetry"
  BY <1>8, ItemsAre DEF Mirrored, Items, VarFields, Writes, Reads, ReadRelayData,
     ReadEncryptedDataBlock
<1>9. CASE type = "NetResetRedirect"
  BY <1>9, ItemsAre DEF Mirrored, Items, VarFields, Writes, Reads, ReadRelayData,
     ReadEncryptedDataBlock
<1>10. CASE type = "NetRateReq"
  BY <1>10, ItemsAre DEF Mirrored, Items, VarFields, Writes, Reads, ReadRelayData,
     ReadEncryptedDataBlock
<1>11. CASE type = "EncryptedDataBlock"
  BY <1>11, ItemsAre DEF Mirrored, Items, VarFields, Writes, Reads, ReadRelayData,
     ReadEncryptedDataBlock
<1>12. CASE type = "DataBlock"
  BY <1>12, ItemsAre DEF Mirrored, Items, VarFields, Writes, Reads, ReadRelayData,
     ReadEncryptedDataBlock
<1>13. CASE type = "NamedDataChunk"
  <2>1. /\ Writes[type] = <<"lifetime">> \o WriteShortName
        /\ Reads[type] = ReadShortName \o <<"lifetime">>
    BY <1>13 DEF Writes, Reads
  <2>2. /\ Writes[type] = <<"lifetime", "fragmentID", "mediaTime", "sourceID", "senderID",
                             "resourceID", "shortName">>
        /\ Reads[type] = <<"shortName", "resourceID", "senderID", "sourceID", "mediaTime",
                            "fragmentID", "lifetime">>
    BY <2>1, OneAndSix DEF WriteShortName, ReadShortName
  <2> QED
    BY <2>2, ItemsAre DEF Mirrored, Items, VarFields
<1>14. CASE type = "Subscribe"
  <2>1. /\ Writes[type] = WriteShortName \o <<"subscribe">>
        /\ Reads[type] = <<"subscribe">> \o ReadShortName
    BY <1>14 DEF Writes, Reads
  <2>2. /\ Writes[type] = <<"fragmentID", "mediaTime", "sourceID", "senderID",
                             "resourceID", "shortName", "subscribe">>
        /\ Reads[type] = <<"subscribe", "shortName", "resourceID", "senderID", "sourceID",
                            "mediaTime", "fragmentID">>
    BY <2>1, OneAndSix DEF WriteShortName, ReadShortName
  <2> QED
    BY <2>2, ItemsAre DEF Mirrored, Items, VarFields
<1> QED
  BY <1>1, <1>2, <1>3, <1>4, <1>5, <1>6, <1>7, <1>8, <1>9, <1>10, <1>11, <1>12, <1>13,
     <1>14 DEF Types, Writes

-----------------------------------------------------------------------------
(* One item *)

\* The items of the tables are of one kind each.
LEMMA ItemKinds ==
  ASSUME NEW item \in Items
  PROVE  \/ /\ item \in DOMAIN Tag
            /\ item # "headerTag" /\ item # "origin" /\ item \notin VarFields
         \/ /\ item = "headerTag"
            /\ item \notin DOMAIN Tag /\ item # "origin" /\ item \notin VarFields
         \/ /\ item = "origin"
            /\ item \notin DOMAIN Tag /\ item # "headerTag" /\ item \notin VarFields
         \/ /\ item \in VarFields
            /\ item \notin DOMAIN Tag /\ item # "headerTag" /\ item # "origin"
         \/ /\ item \in DOMAIN Width /\ item \notin DOMAIN Tag
            /\ item # "headerTag" /\ item # "origin" /\ item \notin VarFields
BY ItemsAre DEF Items, VarFields

\* Tags are bytes, a different one for every message.
LEMMA TagsDiffer ==
  /\ \A t \in DOMAIN Tag : Tag[t] \in 1 .. 15
  /\ \A t, u \in DOMAIN Tag : Tag[t] = Tag[u] => t = u
BY DEF Tag

\* Nothing of a fixed width is longer than a uint64_t.
LEMMA Widths ==
  \A item \in DOMAIN Width : Width[item] \in {1, 2, 4, 8}
BY DEF Width

\* What is pushed last is popped first, and what lay below is left.
LEMMA Cut ==
  ASSUME NEW q \in Seq(Byte), NEW e \in Seq(Byte)
  PROVE  Below(q \o e, Len(e)) = q /\ Popped(q \o e, Len(e)) = e
<1> DEFINE p == q \o e
<1>1. /\ p \in Seq(Byte) /\ Len(p) = Len(q) + Len(e)
      /\ Len(q) \in Nat /\ Len(e) \in Nat
      /\ \A i \in 1 .. Len(q) : p[i] = q[i]
      /\ \A i \in 1 .. Len(e) : p[Len(q) + i] = e[i]
  OBVIOUS
<1> HIDE DEF p
<1>2. Len(p) - Len(e) = Len(q)
  BY <1>1
<1>3. SubSeq(p, 1, Len(q)) = q
  <2>1. /\ SubSeq(p, 1, Len(q)) \in Seq(Byte) /\ Len(SubSeq(p, 1, Len(q))) = Len(q)
        /\ \A i \in 1 .. Len(q) : SubSeq(p, 1, Len(q))[i] = p[i]
    BY <1>1
  <2> QED
    BY <1>1, <2>1, SeqEqual
<1>4. SubSeq(p, Len(q) + 1, Len(p)) = e
  <2>1. /\ SubSeq(p, Len(q) + 1, Len(p)) \in Seq(Byte)
        /\ Len(SubSeq(p, Len(q) + 1, Len(p))) = Len(e)
        /\ \A i \in 1 .. Len(e) : SubSeq(p, Len(q) + 1, Len(p))[i] = p[Len(q) + i]
    BY <1>1
  <2> QED
    BY <1>1, <2>1, SeqEqual
<1> QED
  BY <1>2, <1>3, <1>4 DEF Below, Popped, p

\* A message's item is at least one byte.
LEMMA ItemWritten ==
  ASSUME NEW m, NEW item \in Items, item \notin DOMAIN Tag => IsValue(m[item], item)
  PROVE  Written(m, item) \in Seq(Byte) /\ Len(Written(m, item)) > 0
<1>1. CASE item \in DOMAIN Tag
  <2>1. Tag[item] \in Byte
    BY <1>1, TagsDiffer DEF Byte
  <2> HIDE DEF Byte
  <2>2. <<Tag[item]>> \in Seq(Byte) /\ Len(<<Tag[item]>>) = 1
    BY <2>1
  <2> QED
    BY <1>1, <2>2 DEF Written
<1>2. CASE item = "headerTag"
  <2>1. m[item] \in HeaderTags
    BY <1>2, ItemKinds DEF IsValue
  <2>2. Written(m, item) = m[item]
    BY <1>2, ItemKinds DEF Written
  <2>3. PICK t \in 80 .. 87 : m[item] = <<t>>
    BY <2>1 DEF HeaderTags
  <2>4. t \in Byte
    BY DEF Byte
  <2> HIDE DEF Byte
  <2>5. <<t>> \in Seq(Byte) /\ Len(<<t>>) = 1
    BY <2>4
  <2> QED
    BY <2>2, <2>3, <2>5
<1>3. CASE item = "origin"
  <2>1. m[item] \in Seq(Byte) /\ Len(m[item]) \in 1 .. 255
    BY <1>3, ItemKinds DEF IsValue
  <2>2. Written(m, item) = Append(m[item], Len(m[item]))
    BY <1>3, ItemKinds DEF Written
  <2>3. Len(m[item]) \in Byte
    BY <2>1 DEF Byte
  <2> QED
    BY <2>1, <2>2, <2>3
<1>4. CASE item \in VarFields
  <2>1. m[item] \in Value
    BY <1>4, ItemKinds DEF IsValue
  <2>2. Written(m, item) = Encode(m[item])
    BY <1>4, ItemKinds DEF Written
  <2> HIDE DEF Byte
  <2>3. <<>> \in Seq(Byte)
    OBVIOUS
  <2>4. Encode(m[item]) \in Seq(Byte) /\ Len(Encode(m[item])) \in {1, 2, 4, 8}
    BY <2>1, <2>3, LengthOfEncoded
  <2> DEFINE e == Encode(m[item])
  <2>5. e \in Seq(Byte) /\ Len(e) \in {1, 2, 4, 8}
    BY <2>4
  <2> HIDE DEF e
  <2>6. Len(e) > 0
    <3>1. \A k \in {1, 2, 4, 8} : k > 0
      OBVIOUS
    <3> QED
      BY <2>5, <3>1
  <2>7. Written(m, item) = e
    BY <2>2 DEF e
  <2> QED
    BY <2>5, <2>6, <2>7
<1>5. CASE item \in DOMAIN Width
  <2>1. m[item] \in [1 .. Width[item] -> Byte]
    BY <1>5, ItemsAre DEF IsValue, VarFields
  <2>2. Written(m, item) = m[item]
    BY <1>5, ItemsAre DEF Written, VarFields
  <2>3. Width[item] \in {1, 2, 4, 8}
    BY <1>5, Widths
  <2> DEFINE k == Width[item]
             v == m[item]
  <2>4. k \in Nat /\ k > 0
    BY <2>3
  <2> HIDE DEF Byte, k, v
  <2>5. v \in [1 .. k -> Byte]
    BY <2>1 DEF k, v
  <2>6. v \in Seq(Byte) /\ Len(v) = k
    BY <2>4, <2>5
  <2> QED
    BY <2>2, <2>4, <2>6 DEF v
<1> QED
  BY <1>1, <1>2, <1>3, <1>4, <1>5, ItemKinds

\* The reader takes as many bytes as were written.
LEMMA ItemExtent ==
  ASSUME NEW m, NEW item \in Items, item \notin DOMAIN Tag => IsValue(m[item], item),
         NEW q \in Seq(Byte)
  PROVE  Extent(q \o Written(m, item), item)
           = IF item = "origin" THEN Len(m[item]) ELSE Len(Written(m, item))
<1> DEFINE p == q \o Written(m, item)
<1>1. CASE item \in DOMAIN Tag
  BY <1>1, ItemKinds DEF Extent, Written
<1>2. CASE item = "headerTag"
  <2>1. m[item] \in HeaderTags
    BY <1>2, ItemKinds DEF IsValue
  <2>2. Written(m, item) = m[item]
    BY <1>2, ItemKinds DEF Written
  <2>3. Len(m[item]) = 1
    BY <2>1 DEF HeaderTags
  <2> QED
    BY <1>2, <2>2, <2>3, ItemKinds DEF Extent
<1>3. CASE item = "origin"
  <2>1. m[item] \in Seq(Byte)
    BY <1>3, ItemKinds DEF IsValue
  <2>2. Written(m, item) = Append(m[item], Len(m[item]))
    BY <1>3, ItemKinds DEF Written
  <2>3. Written(m, item) \in Seq(Byte) /\ Len(Written(m, item)) > 0
    BY ItemWritten
  <2>4. Top(p) = Written(m, item)[Len(Written(m, item))]
    BY <2>3, TopOfPushed
  <2>5. Written(m, item)[Len(Written(m, item))] = Len(m[item])
    BY <2>1, <2>2
  <2> HIDE DEF p
  <2>6. Extent(p, item) = Top(p)
    BY <1>3, ItemKinds DEF Extent
  <2> QED
    BY <1>3, <2>4, <2>5, <2>6 DEF p
<1>4. CASE item \in VarFields
  <2>1. m[item] \in Value
    BY <1>4, ItemKinds DEF IsValue
  <2>2. Written(m, item) = Encode(m[item])
    BY <1>4, ItemKinds DEF Written
  <2>3. Length(q \o Encode(m[item])) = Len(Encode(m[item]))
    BY <2>1, LengthOfEncoded
  <2> QED
    BY <1>4, <2>2, <2>3, ItemKinds DEF Extent
<1>5. CASE item \in DOMAIN Width
  <2>1. m[item] \in [1 .. Width[item] -> Byte]
    BY <1>5, ItemsAre DEF IsValue, VarFields
  <2>2. Written(m, item) = m[item]
    BY <1>5, ItemsAre DEF Written, VarFields
  <2>3. Width[item] \in {1, 2, 4, 8}
    BY <1>5, Widths
  <2>4. Len(m[item]) = Width[item]
    BY <2>1, <2>3
  <2>5. item # "origin"
    BY <1>5, ItemsAre
  <2>6. Extent(p, item) = Width[item]
    BY <1>5, ItemsAre DEF Extent, VarFields
  <2> QED
    BY <2>2, <2>4, <2>5, <2>6
<1> QED
  BY <1>1, <1>2, <1>3, <1>4, <1>5, ItemKinds

\* What lies below an integer does not matter.
LEMMA DecodeAbove ==
  ASSUME NEW p \in Seq(Byte), NEW v \in Value
  PROVE  Decode(p \o Encode(v)) = Decode(Encode(v))
<1> DEFINE e == Encode(v)
           q == p \o e
           l == Len(e)
           a(i) == q[Len(q) - Length(q) + 1 + i]
           b(i) == e[Len(e) - Length(e) + 1 + i]
<1>1. e \in Seq(Byte) /\ l \in {1, 2, 4, 8} /\ Length(q) = l
  BY LengthOfEncoded
<1>2. Length(e) = l
  <2>1. <<>> \in Seq(Byte)
    OBVIOUS
  <2>2. Length(<<>> \o e) = l
    BY <2>1, LengthOfEncoded
  <2> HIDE DEF e
  <2>3. <<>> \o e = e
    BY <1>1
  <2> QED
    BY <2>2, <2>3
<1> HIDE DEF e
<1>3. \A i \in Nat : i < l => a(i) = e[i + 1]
  BY <1>1, ByteOfPushed
<1>4. \A i \in Nat : i < l => b(i) = e[i + 1]
  BY <1>1, <1>2
<1> HIDE DEF a, b, q
<1>5. \A i \in Nat : i < l => a(i) = b(i)
  <2> HIDE DEF l
  <2> QED
    BY <1>3, <1>4
<1> HIDE DEF l
<1> SUFFICES Decode(q) = Decode(e)
  BY DEF q, e
<1>6. Decode(q) =
        CASE l = 1 -> <<a(0), 0, 0, 0, 0, 0, 0, 0>>
          [] l = 2 -> <<a(0), a(1) % 64, 0, 0, 0, 0, 0, 0>>
          [] l = 4 -> <<a(0), a(1), a(2), a(3) % 32, 0, 0, 0, 0>>
          [] l = 8 -> <<a(0), a(1), a(2), a(2), a(0), a(1), a(2), a(3) % 16>>
  BY <1>1, Zenon DEF Decode, a
<1>7. Decode(e) =
        CASE l = 1 -> <<b(0), 0, 0, 0, 0, 0, 0, 0>>
          [] l = 2 -> <<b(0), b(1) % 64, 0, 0, 0, 0, 0, 0>>
          [] l = 4 -> <<b(0), b(1), b(2), b(3) % 32, 0, 0, 0, 0>>
          [] l = 8 -> <<b(0), b(1), b(2), b(2), b(0), b(1), b(2), b(3) % 16>>
  BY <1>2, Zenon DEF Decode, b
<1>8. CASE l = 1
  <2>1. a(0) = b(0)
    BY <1>5, <1>8
  <2> QED
    BY <1>6, <1>7, <1>8, <2>1
<1>9. CASE l = 2
  <2>1. a(0) = b(0) /\ a(1) = b(1)
    BY <1>5, <1>9
  <2> QED
    BY <1>6, <1>7, <1>9, <2>1
<1>10. CASE l = 4
  <2>1. a(0) = b(0) /\ a(1) = b(1) /\ a(2) = b(2) /\ a(3) = b(3)
    BY <1>5, <1>10
  <2> QED
    BY <1>6, <1>7, <1>10, <2>1
<1>11. CASE l = 8
  <2>1. a(0) = b(0) /\ a(1) = b(1) /\ a(2) = b(2) /\ a(3) = b(3)
    BY <1>5, <1>11
  <2> QED
    BY <1>6, <1>7, <1>11, <2>1
<1> QED
  BY <1>1, <1>8, <1>9, <1>10, <1>11

\* What an item is read as: an integer of variable length may not be what was written.
AsRead(m, f) == IF f \in VarFields THEN Decode(Encode(m[f])) ELSE m[f]

\* A message with the value x for the field f
WithField(v, f, x) == [g \in DOMAIN v \cup {f} |-> IF g = f THEN x ELSE v[g]]

\* An item is read off whole, and its value does not depend on what lay below it.
ReadOff(m, item, q, r) ==
    LET s == ReadItem(r, item)
    IN /\ s.packet = q
       /\ item \in DOMAIN Tag => s.message = r.message
       /\ item \notin DOMAIN Tag =>
             s.message = WithField(r.message, item, AsRead(m, item))

LEMMA ItemRead ==
  ASSUME NEW m, NEW item \in Items, item \notin DOMAIN Tag => IsValue(m[item], item),
         NEW q \in Seq(Byte), NEW r, r.packet = q \o Written(m, item)
  PROVE  ReadOff(m, item, q, r)
<1> DEFINE p == IF item = "origin" THEN Below(r.packet, 1) ELSE r.packet
           n == Extent(r.packet, item)
           value == IF item \in VarFields THEN Decode(p) ELSE Popped(p, n)
<1>1. ReadItem(r, item) =
        [packet |-> Below(p, n),
         message |-> IF item \in DOMAIN Tag THEN r.message
                     ELSE WithField(r.message, item, value)]
  BY Zenon DEF ReadItem, WithField
<1>2. /\ Written(m, item) \in Seq(Byte)
      /\ n = IF item = "origin" THEN Len(m[item]) ELSE Len(Written(m, item))
  BY ItemWritten, ItemExtent
<1> HIDE DEF n
<1>3. CASE item = "origin"
  <2>1. m[item] \in Seq(Byte) /\ Len(m[item]) \in Byte
    BY <1>3, ItemKinds DEF IsValue, Byte
  <2>2. Written(m, item) = Append(m[item], Len(m[item]))
    BY <1>3, ItemKinds DEF Written
  <2> DEFINE l == <<Len(m[item])>>
             t == q \o m[item]
  <2>3. l \in Seq(Byte) /\ Len(l) = 1 /\ t \in Seq(Byte)
    BY <2>1
  <2>4. r.packet = t \o l
    <3>1. Append(m[item], Len(m[item])) = m[item] \o l
      BY <2>1
    <3> HIDE DEF l, p
    <3> DEFINE a == m[item]
    <3>2. (q \o a) \o l = q \o (a \o l)
      <4>1. a \in Seq(Byte) /\ l \in Seq(Byte)
        BY <2>1, <2>3
      <4> HIDE DEF a
      <4> QED
        BY <4>1, ConcatAssociative
    <3>3. r.packet = q \o (m[item] \o l)
      BY <2>2, <3>1
    <3> QED
      BY <3>2, <3>3
  <2> HIDE DEF l, t
  <2>5. p = t
    BY <1>3, <2>3, <2>4, Cut
  <2>6. n = Len(m[item])
    BY <1>2, <1>3
  <2>7. Below(t, n) = q /\ Popped(t, n) = m[item]
    BY <2>1, <2>6, Cut DEF t
  <2>8. item \notin DOMAIN Tag /\ item \notin VarFields
    BY <1>3, ItemKinds
  <2> HIDE DEF p
  <2>9. value = AsRead(m, item) /\ Below(p, n) = q
    BY <2>5, <2>7, <2>8 DEF AsRead
  <2> HIDE DEF value
  <2> QED
    BY <1>1, <2>8, <2>9 DEF ReadOff
<1>4. CASE item # "origin"
  <2>1. p = q \o Written(m, item) /\ n = Len(Written(m, item))
    BY <1>2, <1>4
  <2> HIDE DEF p
  <2>2. Below(p, n) = q /\ Popped(p, n) = Written(m, item)
    BY <1>2, <2>1, Cut
  <2>3. ASSUME item \notin DOMAIN Tag
        PROVE  value = AsRead(m, item)
    <3>1. CASE item \in VarFields
      <4>1. m[item] \in Value
        BY <3>1, ItemKinds DEF IsValue
      <4>2. Written(m, item) = Encode(m[item])
        BY <3>1, ItemKinds DEF Written
      <4>3. Decode(p) = Decode(Encode(m[item]))
        BY <2>1, <4>1, <4>2, DecodeAbove
      <4> QED
        BY <3>1, <4>3 DEF AsRead
    <3>2. CASE item \notin VarFields
      <4>1. Written(m, item) = m[item]
        BY <1>4, <2>3, <3>2 DEF Written
      <4> QED
        BY <2>2, <3>2, <4>1 DEF AsRead
    <3> QED
      BY <3>1, <3>2
  <2> HIDE DEF value
  <2> QED
    BY <1>1, <2>2, <2>3 DEF ReadOff
<1> QED
  BY <1>3, <1>4

-----------------------------------------------------------------------------
(* Reading a message *)

\* Nothing read of the packet p
Untouched(p) == [packet |-> p, message |-> <<>>]

\* g[i] is what is left and what was read after the first i items.
IsRun(g, type, p, k) ==
    g = [i \in 0 .. k |->
            IF i = 0 THEN Untouched(p)
            ELSE ReadItem(g[i - 1], Reads[type][i])]

\* Its value at one place
LEMMA RunAt ==
  ASSUME NEW g, NEW type, NEW p, NEW k, IsRun(g, type, p, k), NEW i \in 0 .. k
  PROVE  g[i] = IF i = 0 THEN Untouched(p)
                ELSE ReadItem(g[i - 1], Reads[type][i])
<1> DEFINE e(j) == IF j = 0 THEN Untouched(p)
                   ELSE ReadItem(g[j - 1], Reads[type][j])
<1>1. g = [j \in 0 .. k |-> e(j)]
  BY Zenon DEF IsRun
<1> HIDE DEF e
<1>2. g[i] = e(i)
  BY <1>1
<1> QED
  BY <1>2 DEF e

\* There is one.
LEMMA RunExists ==
  ASSUME NEW type, NEW p, NEW n \in Nat
  PROVE  \E g : IsRun(g, type, p, n)
<1> DEFINE none == Untouched(p)
           K == {k \in Nat : \E g : IsRun(g, type, p, k)}
<1>1. 0 \in K
  <2> DEFINE g == [i \in 0 .. 0 |-> none]
  <2>1. \A i \in 0 .. 0 : i = 0
    OBVIOUS
  <2> DEFINE e(i) == IF i = 0 THEN none ELSE ReadItem(g[i - 1], Reads[type][i])
  <2>2. \A i \in 0 .. 0 : e(i) = none
    BY <2>1
  <2> HIDE DEF none, e, g
  <2>3. [i \in 0 .. 0 |-> none] = [i \in 0 .. 0 |-> e(i)]
    BY <2>2
  <2>4. g = [i \in 0 .. 0 |-> e(i)]
    BY <2>3 DEF g
  <2>5. IsRun(g, type, p, 0)
    BY <2>4, Zenon DEF IsRun, e, none
  <2> QED
    BY <2>5
<1>2. ASSUME NEW k \in Nat, k \in K
      PROVE  k + 1 \in K
  <2>1. PICK g : IsRun(g, type, p, k)
    BY <1>2
  <2> DEFINE h == [i \in 0 .. k + 1 |->
                      IF i = 0 THEN none ELSE ReadItem(g[i - 1], Reads[type][i])]
  <2>2. \A j \in 0 .. k : h[j] = g[j]
    <3> TAKE j \in 0 .. k
    <3>1. g[j] = IF j = 0 THEN none ELSE ReadItem(g[j - 1], Reads[type][j])
      BY <2>1, RunAt
    <3> HIDE DEF none
    <3>2. h[j] = IF j = 0 THEN none ELSE ReadItem(g[j - 1], Reads[type][j])
      OBVIOUS
    <3> QED
      BY <3>1, <3>2, Zenon
  <2>3. \A i \in 0 .. k + 1 : i # 0 => i - 1 \in 0 .. k
    OBVIOUS
  <2> DEFINE e(i) == IF i = 0 THEN none ELSE ReadItem(g[i - 1], Reads[type][i])
             d(i) == IF i = 0 THEN none ELSE ReadItem(h[i - 1], Reads[type][i])
  <2>4. \A i \in 0 .. k + 1 : e(i) = d(i)
    <3> HIDE DEF h, none
    <3> QED
      BY <2>2, <2>3
  <2>5. h = [i \in 0 .. k + 1 |-> e(i)]
    BY Zenon
  <2> HIDE DEF e, d, h
  <2>6. h = [i \in 0 .. k + 1 |-> d(i)]
    BY <2>4, <2>5
  <2>7. IsRun(h, type, p, k + 1)
    BY <2>6, Zenon DEF IsRun, d, none
  <2> QED
    BY <2>7
<1> HIDE DEF K
<1>3. Nat \subseteq K
  BY <1>1, <1>2, Induction
<1> QED
  BY <1>3 DEF K

\* ReadAll is its last value.
LEMMA ReadAllRuns ==
  ASSUME NEW type, NEW p, Len(Reads[type]) \in Nat
  PROVE  \E g : IsRun(g, type, p, Len(Reads[type])) /\ ReadAll(type, p) = g[Len(Reads[type])]
<1> DEFINE n == Len(Reads[type])
           g == CHOOSE g : IsRun(g, type, p, n)
<1>1. IsRun(g, type, p, n)
  <2>1. \E h : IsRun(h, type, p, n)
    BY RunExists
  <2> QED
    BY <2>1, Zenon
<1>2. ReadAll(type, p) = g[n]
  BY Zenon DEF ReadAll, IsRun, Untouched
<1> QED
  BY <1>1, <1>2, Zenon

\* What a message is: its fields, and no other.
LEMMA MessageIs ==
  ASSUME NEW type \in Types, NEW m \in Messages(type)
  PROVE  /\ m = [f \in Fields(type) |-> m[f]]
         /\ \A f \in Fields(type) : IsValue(m[f], f)
BY WireAssumption

\* What every item of a message's table writes.
LEMMA ItemsWritten ==
  ASSUME NEW type \in Types, NEW m \in Messages(type),
         NEW i \in 1 .. Len(Writes[type])
  PROVE  /\ Writes[type][i] \in Items
         /\ Writes[type][i] \notin DOMAIN Tag =>
               /\ Writes[type][i] \in Fields(type)
               /\ IsValue(m[Writes[type][i]], Writes[type][i])
         /\ Written(m, Writes[type][i]) \in Seq(Byte)
         /\ Len(Written(m, Writes[type][i])) > 0
<1> DEFINE w == Writes[type]
<1>1. w \in Seq(Items) /\ w[i] \in Items
  BY Tables DEF Mirrored
<1>2. w[i] \in ToSet(w)
  <2>0. i \in 1 .. Len(w)
    OBVIOUS
  <2> HIDE DEF w
  <2>1. i \in DOMAIN w
    BY <1>1, <2>0
  <2> QED
    BY <2>1, Zenon DEF ToSet
<1>3. w[i] \notin DOMAIN Tag => w[i] \in Fields(type)
  BY <1>2, Zenon DEF Fields
<1>4. w[i] \notin DOMAIN Tag => IsValue(m[w[i]], w[i])
  BY <1>3, MessageIs, Zenon
<1>5. Written(m, w[i]) \in Seq(Byte) /\ Len(Written(m, w[i])) > 0
  <2> HIDE DEF w
  <2> QED
    BY <1>1, <1>4, ItemWritten, Zenon
<1> QED
  BY <1>1, <1>3, <1>4, <1>5, Zenon

\* The bytes of every item of a message
Parts(type, m) == [i \in DOMAIN Writes[type] |-> Written(m, Writes[type][i])]

\* The packet q with the first k items of a message on it
Pushed(q, type, m, k) == q \o FlattenSeq(SubSeq(Parts(type, m), 1, k))

\* They are sequences of bytes.
LEMMA PartsTyped ==
  ASSUME NEW type \in Types, NEW m \in Messages(type)
  PROVE  /\ Parts(type, m) \in Seq(Seq(Byte))
         /\ Len(Parts(type, m)) = Len(Writes[type])
         /\ \A i \in 1 .. Len(Writes[type]) :
               Parts(type, m)[i] = Written(m, Writes[type][i])
<1> DEFINE w == Writes[type]
           n == Len(w)
           s(i) == Written(m, w[i])
<1>1. w \in Seq(Items) /\ n \in Nat
  BY Tables DEF Mirrored
<1>2. \A i \in 1 .. n : s(i) \in Seq(Byte)
  BY ItemsWritten
<1> HIDE DEF s
<1>3. Parts(type, m) = [i \in 1 .. n |-> s(i)]
  <2>1. DOMAIN w = 1 .. n
    <3> HIDE DEF w
    <3> QED
      BY <1>1
  <2> QED
    BY <2>1, Zenon DEF Parts, s
<1>4. [i \in 1 .. n |-> s(i)] \in [1 .. n -> Seq(Byte)]
  BY <1>2, Zenon
<1> HIDE DEF n, w
<1>5. Parts(type, m) \in Seq(Seq(Byte)) /\ Len(Parts(type, m)) = n
  <2> DEFINE B == Seq(Byte)
             t == Parts(type, m)
  <2>1. t \in [1 .. n -> B]
    BY <1>3, <1>4
  <2> HIDE DEF B, t
  <2>2. t \in Seq(B) /\ Len(t) = n
    BY <1>1, <2>1
  <2> QED
    BY <2>2 DEF B, t
<1>6. \A i \in 1 .. n : Parts(type, m)[i] = s(i)
  BY <1>3
<1> QED
  BY <1>5, <1>6 DEF n, w, s

\* A packet is a sequence of bytes at every point of the writing;
LEMMA PushedTyped ==
  ASSUME NEW type \in Types, NEW m \in Messages(type), NEW q \in Seq(Byte),
         NEW k \in 0 .. Len(Writes[type])
  PROVE  Pushed(q, type, m, k) \in Seq(Byte)
<1> DEFINE t == Parts(type, m)
           u == SubSeq(t, 1, k)
           b == FlattenSeq(u)
<1>1. t \in Seq(Seq(Byte)) /\ Len(t) = Len(Writes[type])
  BY PartsTyped
<1>2. Len(t) \in Nat
  BY <1>1
<1> HIDE DEF t
<1>3. u \in Seq(Seq(Byte))
  <2> DEFINE B == Seq(Byte)
  <2>1. t \in Seq(B)
    BY <1>1
  <2> HIDE DEF B
  <2>2. u \in Seq(B)
    BY <1>1, <1>2, <2>1
  <2> QED
    BY <2>2 DEF B
<1>4. b \in Seq(Byte)
  <2> HIDE DEF u
  <2> QED
    BY <1>3, FlattenTyped, Zenon
<1> HIDE DEF b
<1>5. q \o b \in Seq(Byte)
  BY <1>4
<1> QED
  BY <1>5 DEF Pushed, b, u, t

\* it begins as the packet,
LEMMA PushedNone ==
  ASSUME NEW type, NEW m, NEW q \in Seq(Byte)
  PROVE  Pushed(q, type, m, 0) = q
<1>1. SubSeq(Parts(type, m), 1, 0) = <<>>
  OBVIOUS
<1>2. q \o <<>> = q
  OBVIOUS
<1> QED
  BY <1>1, <1>2, FlattenEmpty, Zenon DEF Pushed

\* an item comes on top of what is there,
LEMMA PushedNext ==
  ASSUME NEW type \in Types, NEW m \in Messages(type), NEW q \in Seq(Byte),
         NEW k \in 1 .. Len(Writes[type])
  PROVE  Pushed(q, type, m, k) = Pushed(q, type, m, k - 1) \o Written(m, Writes[type][k])
<1> DEFINE t == Parts(type, m)
           u == SubSeq(t, 1, k - 1)
           x == t[k]
<1>1. t \in Seq(Seq(Byte)) /\ Len(t) = Len(Writes[type]) /\ Len(t) \in Nat
      /\ t[k] = Written(m, Writes[type][k])
  BY PartsTyped
<1>2. k \in 1 .. Len(t) /\ k - 1 \in Nat /\ k - 1 <= Len(t)
  BY <1>1
<1> HIDE DEF t
<1>3. u \in Seq(Seq(Byte)) /\ x \in Seq(Byte) /\ SubSeq(t, 1, k) = Append(u, x)
  <2> DEFINE B == Seq(Byte)
  <2>1. t \in Seq(B)
    BY <1>1
  <2> HIDE DEF B
  <2>2. u \in Seq(B) /\ Len(u) = k - 1 /\ x \in B
        /\ \A i \in 1 .. k - 1 : u[i] = t[i]
    BY <1>2, <2>1
  <2>3. SubSeq(t, 1, k) \in Seq(B) /\ Len(SubSeq(t, 1, k)) = k
        /\ \A i \in 1 .. k : SubSeq(t, 1, k)[i] = t[i]
    BY <1>2, <2>1
  <2> HIDE DEF u
  <2>4. Append(u, x) \in Seq(B) /\ Len(Append(u, x)) = k
        /\ \A i \in 1 .. k : Append(u, x)[i] = t[i]
    BY <1>2, <2>2
  <2>5. SubSeq(t, 1, k) = Append(u, x)
    BY <2>3, <2>4, SeqEqual
  <2> QED
    BY <2>2, <2>5 DEF B, u
<1> HIDE DEF u, x
<1>4. FlattenSeq(SubSeq(t, 1, k)) = FlattenSeq(u) \o x
  BY <1>3, FlattenAppend
<1> DEFINE b == FlattenSeq(u)
<1>5. b \in Seq(Byte)
  BY <1>3, FlattenTyped, Zenon
<1>6. (q \o b) \o x = q \o (b \o x)
  <2> HIDE DEF b
  <2> QED
    BY <1>3, <1>5, ConcatAssociative
<1>7. Pushed(q, type, m, k) = q \o (b \o x)
  BY <1>4 DEF Pushed, t
<1>8. Pushed(q, type, m, k - 1) = q \o b
  BY DEF Pushed, t, u
<1> HIDE DEF b
<1> QED
  BY <1>1, <1>6, <1>7, <1>8 DEF x

\* and it ends with the message on the packet.
LEMMA PushedAll ==
  ASSUME NEW type \in Types, NEW m \in Messages(type), NEW q
  PROVE  Pushed(q, type, m, Len(Writes[type])) = q \o WrittenAll(type, m)
<1> DEFINE t == Parts(type, m)
           n == Len(Writes[type])
<1>1. t \in Seq(Seq(Byte)) /\ Len(t) = n
  BY PartsTyped
<1>2. SubSeq(t, 1, n) = t
  <2> HIDE DEF t, n
  <2> QED
    BY <1>1
<1>3. FlattenSeq(t) = WrittenAll(type, m)
  BY Zenon DEF Parts, WrittenAll
<1> HIDE DEF n
<1> QED
  BY <1>2, <1>3, Zenon DEF Pushed, t, n

\* The fields among the first k items of a message that is read
FieldsRead(type, k) == {Reads[type][j] : j \in 1 .. k} \ DOMAIN Tag

\* An item that is no tag is one field more.
LEMMA FieldsReadNext ==
  ASSUME NEW type, NEW k \in Nat
  PROVE  /\ FieldsRead(type, 0) = {}
         /\ FieldsRead(type, k + 1) =
              IF Reads[type][k + 1] \in DOMAIN Tag THEN FieldsRead(type, k)
              ELSE FieldsRead(type, k) \cup {Reads[type][k + 1]}
<1>1. 1 .. 0 = {} /\ 1 .. k + 1 = (1 .. k) \cup {k + 1}
  OBVIOUS
<1>2. FieldsRead(type, 0) = {}
  BY <1>1, Zenon DEF FieldsRead
<1>3. {Reads[type][j] : j \in 1 .. k + 1}
        = {Reads[type][j] : j \in 1 .. k} \cup {Reads[type][k + 1]}
  BY <1>1, Zenon
<1> QED
  BY <1>2, <1>3, Zenon DEF FieldsRead

\* In the end they are the fields that were written.
LEMMA FieldsReadAll ==
  ASSUME NEW type \in Types
  PROVE  FieldsRead(type, Len(Writes[type])) = Fields(type)
<1> DEFINE w == Writes[type]
           r == Reads[type]
           n == Len(w)
<1>1. /\ n \in Nat /\ w \in Seq(Items)
      /\ \A i \in 1 .. n : r[i] = w[n + 1 - i]
  BY Tables DEF Mirrored
<1> HIDE DEF w, r
<1>2. DOMAIN w = 1 .. n
  BY <1>1
<1> HIDE DEF n
<1>3. \A i \in 1 .. n : n + 1 - i \in 1 .. n /\ n + 1 - (n + 1 - i) = i
  BY <1>1
<1>4. \A i \in 1 .. n : r[n + 1 - i] = w[i]
  BY <1>1, <1>3
<1>5. {r[j] : j \in 1 .. n} = {w[j] : j \in 1 .. n}
  <2>1. ASSUME NEW x \in {r[j] : j \in 1 .. n} PROVE x \in {w[j] : j \in 1 .. n}
    BY <1>1, <1>3
  <2>2. ASSUME NEW x \in {w[j] : j \in 1 .. n} PROVE x \in {r[j] : j \in 1 .. n}
    BY <1>3, <1>4
  <2> QED
    BY <2>1, <2>2, Zenon
<1>6. ToSet(w) = {w[j] : j \in 1 .. n}
  BY <1>2, Zenon DEF ToSet
<1> QED
  BY <1>5, <1>6, Zenon DEF FieldsRead, Fields, w, r, n

\* What a message is read as
MessageRead(type, m) == [f \in Fields(type) |-> AsRead(m, f)]

\* A message is read off the packet it was written on, and read the same whatever lies
\* below it.
LEMMA AllRead ==
  ASSUME NEW type \in Types, NEW m \in Messages(type), NEW q \in Seq(Byte)
  PROVE  /\ ReadAll(type, q \o WrittenAll(type, m)).packet = q
         /\ ReadAll(type, q \o WrittenAll(type, m)).message = MessageRead(type, m)
<1> DEFINE w == Writes[type]
           r == Reads[type]
           n == Len(w)
           p == q \o WrittenAll(type, m)
<1>1. /\ n \in Nat /\ Len(r) = n
      /\ \A i \in 1 .. n : r[i] = w[n + 1 - i]
  BY Tables DEF Mirrored
<1>2. p = Pushed(q, type, m, n)
  BY PushedAll
<1>3. PICK g : IsRun(g, type, p, n) /\ ReadAll(type, p) = g[n]
  <2> HIDE DEF p, n
  <2>1. Len(Reads[type]) \in Nat /\ Len(Reads[type]) = n
    BY <1>1
  <2> QED
    BY <2>1, ReadAllRuns
<1> HIDE DEF p
<1>4. \A i \in 0 .. n : g[i] = IF i = 0 THEN Untouched(p) ELSE ReadItem(g[i - 1], r[i])
  <2> HIDE DEF n
  <2> QED
    BY <1>3, RunAt
<1> DEFINE OK(i) == /\ g[i].packet = Pushed(q, type, m, n - i)
                    /\ g[i].message = [f \in FieldsRead(type, i) |-> AsRead(m, f)]
           K == {i \in Nat : i \in 0 .. n => OK(i)}
<1>5. 0 \in K
  <2>1. g[0] = Untouched(p)
    <3>1. 0 \in 0 .. n
      BY <1>1
    <3> HIDE DEF n
    <3> QED
      BY <1>4, <3>1
  <2>2. g[0].packet = p /\ g[0].message = <<>>
    BY <2>1 DEF Untouched
  <2>3. FieldsRead(type, 0) = {}
    BY FieldsReadNext
  <2>4. <<>> = [f \in {} |-> AsRead(m, f)]
    OBVIOUS
  <2>5. n - 0 = n
    BY <1>1
  <2>6. OK(0)
    <3> HIDE DEF n
    <3> QED
      BY <1>2, <2>2, <2>3, <2>4, <2>5
  <2> QED
    BY <2>6
<1>6. ASSUME NEW i \in Nat, i \in K
      PROVE  i + 1 \in K
  <2> SUFFICES ASSUME i + 1 \in 0 .. n PROVE OK(i + 1)
    OBVIOUS
  <2> DEFINE k == n - i
             item == w[k]
             u == Pushed(q, type, m, k - 1)
  <2>0. /\ i \in 0 .. n /\ k \in 1 .. n /\ k - 1 \in 0 .. n /\ n + 1 - (i + 1) = k
        /\ n - (i + 1) = k - 1 /\ i + 1 \in 1 .. n /\ i + 1 - 1 = i /\ i + 1 # 0
    <3>1. n \in Nat
      BY <1>1
    <3> HIDE DEF n, OK
    <3> QED
      BY <3>1
  <2> HIDE DEF k
  <2>1. g[i + 1] = ReadItem(g[i], item) /\ r[i + 1] = item
    <3> HIDE DEF n, r, w
    <3> QED
      BY <1>1, <1>4, <2>0
  <2>2. OK(i)
    BY <1>6, <2>0
  <2>3. /\ item \in Items
        /\ item \notin DOMAIN Tag => item \in Fields(type) /\ IsValue(m[item], item)
    BY <2>0, ItemsWritten
  <2>4. u \in Seq(Byte)
    BY <2>0, PushedTyped
  <2>5. g[i].packet = u \o Written(m, item)
    BY <2>0, <2>2, PushedNext DEF k
  <2> HIDE DEF u, item, OK, n, r
  <2>6. /\ ReadItem(g[i], item).packet = u
        /\ item \in DOMAIN Tag => ReadItem(g[i], item).message = g[i].message
        /\ item \notin DOMAIN Tag =>
              ReadItem(g[i], item).message = WithField(g[i].message, item, AsRead(m, item))
    <3>1. item \notin DOMAIN Tag => IsValue(m[item], item)
      BY <2>3
    <3> DEFINE s == g[i]
    <3>2. s.packet = u \o Written(m, item)
      BY <2>5
    <3> HIDE DEF s
    <3>3. ReadOff(m, item, u, s)
      BY <2>3, <2>4, <3>1, <3>2, ItemRead
    <3> QED
      BY <3>3 DEF ReadOff, s
  <2>7. g[i + 1].packet = Pushed(q, type, m, n - (i + 1))
    BY <2>0, <2>1, <2>6 DEF u
  <2>8. g[i + 1].message = [f \in FieldsRead(type, i + 1) |-> AsRead(m, f)]
    <3> DEFINE R == FieldsRead(type, i)
               S == FieldsRead(type, i + 1)
               v == g[i].message
    <3>1. v = [f \in R |-> AsRead(m, f)]
      BY <2>2, Zenon DEF OK
    <3>2. S = IF item \in DOMAIN Tag THEN R ELSE R \cup {item}
      BY <2>1, FieldsReadNext DEF r
    <3>3. CASE item \in DOMAIN Tag
      BY <2>1, <2>6, <3>1, <3>2, <3>3, Zenon
    <3>4. CASE item \notin DOMAIN Tag
      <4>1. g[i + 1].message
              = [f \in DOMAIN v \cup {item} |->
                    IF f = item THEN AsRead(m, item) ELSE v[f]]
        BY <2>1, <2>6, <3>4, Zenon DEF WithField
      <4> HIDE DEF v, R, S
      <4>2. DOMAIN v = R /\ \A f \in R : v[f] = AsRead(m, f)
        BY <3>1
      <4>3. g[i + 1].message = [f \in S |-> AsRead(m, f)]
        BY <3>2, <3>4, <4>1, <4>2
      <4> QED
        BY <4>3 DEF S
    <3> QED
      BY <3>3, <3>4
  <2> QED
    BY <2>7, <2>8, Zenon DEF OK
<1>7. Nat \subseteq K
  <2> HIDE DEF K
  <2> QED
    BY <1>5, <1>6, Induction
<1>8. OK(n)
  <2>1. n \in Nat /\ n \in 0 .. n
    BY <1>1
  <2> HIDE DEF OK, n
  <2> QED
    BY <1>7, <2>1
<1>9. g[n].packet = q
  <2>1. n - n = 0
    BY <1>1
  <2> HIDE DEF n
  <2> QED
    BY <1>8, <2>1, PushedNone
<1>10. g[n].message = MessageRead(type, m)
  <2>1. FieldsRead(type, n) = Fields(type)
    BY FieldsReadAll
  <2> HIDE DEF n
  <2>2. g[n].message = [f \in FieldsRead(type, n) |-> AsRead(m, f)]
    BY <1>8, Zenon
  <2> QED
    BY <2>1, <2>2, Zenon DEF MessageRead
<1> HIDE DEF n
<1> QED
  BY <1>3, <1>9, <1>10, Zenon DEF p

\* A length is read as VarInt has it, wherever it was written.
LEMMA LengthAsRead ==
  ASSUME NEW v \in Value
  PROVE  LengthRead(v, Decode(Encode(v)))
<1>1. <<>> \in Seq(Byte)
  OBVIOUS
<1>2. Decode(<<>> \o Encode(v)) = Decode(Encode(v))
  BY <1>1, DecodeAbove
<1>3. Exact(v) => Decode(<<>> \o Encode(v)) = v
  BY <1>1, RoundTrip
<1>4. v \in Thresholds => Decode(<<>> \o Encode(v)) = Zero
  BY <1>1, ThresholdsAreLost
<1> QED
  BY <1>2, <1>3, <1>4 DEF LengthRead

\* What is read of a field where v was written
FieldRead(field, v, read) == IF field \in VarFields THEN LengthRead(v, read) ELSE read = v

\* Every field of a message is.
LEMMA FieldsAsRead ==
  ASSUME NEW type \in Types, NEW m \in Messages(type), NEW f \in Fields(type)
  PROVE  FieldRead(f, m[f], MessageRead(type, m)[f])
<1> DEFINE v == m[f]
<1>1. MessageRead(type, m)[f] = AsRead(m, f)
  BY DEF MessageRead
<1>2. CASE f \in VarFields
  <2>1. IsValue(v, f) /\ f \in Items
    BY <1>2, MessageIs DEF Items
  <2>2. v \in Value
    BY <1>2, <2>1, ItemKinds DEF IsValue
  <2> HIDE DEF v
  <2>3. LengthRead(v, Decode(Encode(v)))
    BY <2>2, LengthAsRead
  <2> QED
    BY <1>1, <1>2, <2>3 DEF AsRead, FieldRead, v
<1>3. CASE f \notin VarFields
  BY <1>1, <1>3 DEF AsRead, FieldRead
<1> QED
  BY <1>2, <1>3

-----------------------------------------------------------------------------
(* The tag on top *)

\* A message begins with the tag that was written last, and no two types with the
\* same one.
LEMMA Heads ==
  ASSUME NEW t \in Types, NEW u \in Types
  PROVE  /\ Head(Reads[t]) \in DOMAIN Tag
         /\ Head(Reads[t]) = Writes[t][Len(Writes[t])]
         /\ Head(Reads[t]) = Head(Reads[u]) => t = u
<1>1. \A v \in Types : /\ Head(Reads[v]) = Reads[v][1]
                       /\ Reads[v][1] = Writes[v][Len(Writes[v])]
                       /\ Reads[v][1] \in DOMAIN Tag
  <2> TAKE v \in Types
  <2> DEFINE w == Writes[v]
             r == Reads[v]
  <2>1. /\ r \in Seq(Items) /\ Len(w) \in Nat \ {0} /\ Len(r) = Len(w)
        /\ \A i \in 1 .. Len(w) : r[i] = w[Len(w) + 1 - i]
        /\ w[Len(w)] \in DOMAIN Tag
    BY Tables DEF Mirrored
  <2> HIDE DEF w, r
  <2>2. Head(r) = r[1] /\ r[1] = w[Len(w)]
    BY <2>1
  <2> QED
    BY <2>1, <2>2 DEF w, r
<1> DEFINE h == [v \in Types |-> Reads[v][1]]
<1>2. h = [Header |-> "header", ClientData |-> "clientData", RelayData |-> "relayData",
           NetAck |-> "ack", NetNack |-> "nack", Subscribe |-> "subscribe",
           NetSyncReq |-> "sync", NetSyncAck |-> "syncAck", NetResetRetry |-> "resetRetry",
           NetResetRedirect |-> "resetRedirect", NetRateReq |-> "rate",
           EncryptedDataBlock |-> "encDataBlock", DataBlock |-> "dataBlock",
           NamedDataChunk |-> "shortName"]
  <2>1. /\ (<<"subscribe">> \o ReadShortName)[1] = "subscribe"
        /\ (ReadShortName \o <<"lifetime">>)[1] = "shortName"
    BY OneAndSix DEF ReadShortName
  <2> QED
    BY <2>1 DEF Types, Writes, Reads, ReadRelayData, ReadEncryptedDataBlock
<1>3. h[t] = h[u] => t = u
  <2> HIDE DEF h
  <2> QED
    BY <1>2 DEF Types, Writes
<1> QED
  BY <1>1, <1>3

\* A packet something was pushed on is not empty.
LEMMA NotEmpty ==
  ASSUME NEW q \in Seq(Byte), NEW e \in Seq(Byte), Len(e) > 0
  PROVE  q \o e # <<>>
<1>1. Len(q \o e) = Len(q) + Len(e)
  OBVIOUS
<1> QED
  BY <1>1

\* The byte pushed last is on top.
LEMMA ByteOnTop ==
  ASSUME NEW q \in Seq(Byte), NEW b \in Byte
  PROVE  q \o <<b>> # <<>> /\ Top(q \o <<b>>) = b
<1> DEFINE e == <<b>>
<1>1. e \in Seq(Byte)
  OBVIOUS
<1>2. Len(e) = 1 /\ Len(e) > 0 /\ e[Len(e)] = b
  OBVIOUS
<1> HIDE DEF e
<1>3. Top(q \o e) = b
  BY <1>1, <1>2, TopOfPushed
<1>4. q \o e # <<>>
  BY <1>1, <1>2, NotEmpty
<1> QED
  BY <1>3, <1>4 DEF e

\* The tag of a message that was just written is next.
LEMMA TagOnTop ==
  ASSUME NEW type \in Types, NEW m \in Messages(type), NEW q \in Seq(Byte)
  PROVE  NextTag(q \o WrittenAll(type, m)) = Head(Reads[type])
<1> DEFINE n == Len(Writes[type])
           t == Writes[type][n]
           u == Pushed(q, type, m, n - 1)
           p == q \o WrittenAll(type, m)
<1>1. n \in Nat \ {0} /\ t \in DOMAIN Tag /\ t = Head(Reads[type])
  BY Tables, Heads DEF Mirrored
<1>2. n \in 1 .. n /\ n - 1 \in 0 .. n
  <2> HIDE DEF n
  <2> QED
    BY <1>1
<1>3. p = u \o Written(m, t)
  BY <1>2, PushedAll, PushedNext
<1>4. u \in Seq(Byte)
  BY <1>2, PushedTyped
<1>5. Written(m, t) = <<Tag[t]>>
  BY <1>1, Zenon DEF Written
<1>6. Tag[t] \in Byte
  BY <1>1, TagsDiffer DEF Byte
<1> HIDE DEF p, u, t
<1>7. p # <<>> /\ Top(p) = Tag[t]
  <2>1. p = u \o <<Tag[t]>>
    BY <1>3, <1>5
  <2> QED
    BY <1>4, <1>6, <2>1, ByteOnTop
<1>8. NextTag(p) = CHOOSE x \in DOMAIN Tag : Tag[x] = Top(p)
  BY <1>1, <1>7, Zenon DEF NextTag
<1>9. \A x \in DOMAIN Tag : Tag[x] = Top(p) <=> x = t
  BY <1>1, <1>7, TagsDiffer, Zenon
<1>10. (CHOOSE x \in DOMAIN Tag : Tag[x] = Top(p)) = t
  BY <1>1, <1>9, Zenon
<1> QED
  BY <1>1, <1>8, <1>10, Zenon DEF p

\* An empty packet has no tag.
LEMMA NoTagInEmpty ==
  ASSUME NEW type \in Types
  PROVE  NextTag(<<>>) # Head(Reads[type])
<1>1. Head(Reads[type]) \in DOMAIN Tag
  BY Heads
<1>2. NextTag(<<>>) = "none"
  BY Zenon DEF NextTag
<1>3. "none" \notin DOMAIN Tag
  BY ItemsAre
<1> QED
  BY <1>1, <1>2, <1>3

-----------------------------------------------------------------------------
(* The packet *)

\* The messages that a packet may hold
StoredOf(type) == {Message(type, m) : m \in Messages(type)}
Stored == UNION {StoredOf(type) : type \in Types}

\* The bytes of one of them, and of several
Frame(s) == WrittenAll(s.type, s.message)
Frames(ms) == [i \in DOMAIN ms |-> WrittenAll(ms[i].type, ms[i].message)]

\* A message in a packet is of a type, and one of its messages.
LEMMA StoredIs ==
  ASSUME NEW x \in Stored
  PROVE  /\ x.type \in Types /\ x.message \in Messages(x.type)
         /\ x = Message(x.type, x.message)
<1>1. PICK type \in Types : x \in StoredOf(type)
  BY Zenon DEF Stored
<1>2. PICK m \in Messages(type) : x = Message(type, m)
  BY <1>1, Zenon DEF StoredOf
<1>3. x.type = type /\ x.message = m
  BY <1>2 DEF Message
<1> QED
  BY <1>2, <1>3

\* A message is written as bytes.
LEMMA WrittenTyped ==
  ASSUME NEW type \in Types, NEW m \in Messages(type)
  PROVE  WrittenAll(type, m) \in Seq(Byte)
<1>1. Parts(type, m) \in Seq(Seq(Byte))
  BY PartsTyped
<1>2. WrittenAll(type, m) = FlattenSeq(Parts(type, m))
  BY Zenon DEF Parts, WrittenAll
<1> QED
  BY <1>1, <1>2, FlattenTyped, Zenon

\* So are all messages in a packet.
LEMMA FramesAre ==
  ASSUME NEW ms \in Seq(Stored)
  PROVE  /\ Frames(ms) \in Seq(Seq(Byte)) /\ Len(Frames(ms)) = Len(ms)
         /\ \A i \in 1 .. Len(ms) : Frames(ms)[i] = Frame(ms[i])
<1> DEFINE n == Len(ms)
           B == Seq(Byte)
           f == Frames(ms)
           e(i) == Frame(ms[i])
<1>1. n \in Nat /\ DOMAIN ms = 1 .. n /\ \A i \in 1 .. n : ms[i] \in Stored
  OBVIOUS
<1>2. \A i \in 1 .. n : e(i) \in B
  BY <1>1, StoredIs, WrittenTyped DEF Frame
<1>3. f = [i \in 1 .. n |-> e(i)]
  BY <1>1, Zenon DEF Frames, Frame
<1> HIDE DEF B, e, n, f
<1>4. f \in Seq(B) /\ Len(f) = n /\ \A i \in 1 .. n : f[i] = e(i)
  BY <1>1, <1>2, <1>3
<1> QED
  BY <1>4 DEF B, e, n, f

\* One message more in the packet is its bytes on top.
LEMMA FramesAppend ==
  ASSUME NEW ms \in Seq(Stored), NEW x \in Stored
  PROVE  FlattenSeq(Frames(Append(ms, x))) = FlattenSeq(Frames(ms)) \o Frame(x)
<1> DEFINE B == Seq(Byte)
           n == Len(ms)
           a == Append(ms, x)
           f == Frames(ms)
           g == Frames(a)
<1>1. /\ n \in Nat /\ a \in Seq(Stored) /\ Len(a) = n + 1 /\ a[n + 1] = x
      /\ \A i \in 1 .. n : a[i] = ms[i]
  OBVIOUS
<1>2. f \in Seq(B) /\ Len(f) = n /\ \A i \in 1 .. n : f[i] = Frame(ms[i])
  BY FramesAre
<1> HIDE DEF a
<1>3. g \in Seq(B) /\ Len(g) = n + 1 /\ \A i \in 1 .. n + 1 : g[i] = Frame(a[i])
  BY <1>1, FramesAre
<1>4. Frame(x) \in B
  BY StoredIs, WrittenTyped DEF Frame
<1> HIDE DEF B, f, g, n
<1> DEFINE y == Frame(x)
           h == Append(f, y)
<1>5. y \in B
  BY <1>4
<1> HIDE DEF y
<1>6. /\ h \in Seq(B) /\ Len(h) = n + 1 /\ h[n + 1] = y
      /\ \A i \in 1 .. n : h[i] = f[i]
  BY <1>1, <1>2, <1>5
<1> HIDE DEF h
<1>7. \A i \in 1 .. n + 1 : g[i] = h[i]
  <2> TAKE i \in 1 .. n + 1
  <2>1. CASE i \in 1 .. n
    BY <1>1, <1>2, <1>3, <1>6, <2>1
  <2>2. CASE i = n + 1
    BY <1>1, <1>3, <1>6, <2>2 DEF y
  <2> QED
    BY <1>1, <2>1, <2>2
<1>8. g = h
  BY <1>3, <1>6, <1>7, SeqEqual
<1>9. FlattenSeq(h) = FlattenSeq(f) \o y
  BY <1>2, <1>5, FlattenAppend DEF B, h
<1> QED
  BY <1>8, <1>9 DEF g, f, a, y

\* The inductive invariant: what is in the packet, and that nothing else is.
Inv == messages \in Seq(Stored) /\ Framed

\* Framed in terms of Frames
LEMMA FramedIs == Framed <=> packet = FlattenSeq(Frames(messages))
BY Zenon DEF Framed, Frames

\* An empty packet holds no message.
LEMMA InitInv == Init => Inv
<1> SUFFICES ASSUME Init PROVE Inv
  OBVIOUS
<1>1. packet = <<>> /\ messages = <<>>
  BY DEF Init
<1>2. messages \in Seq(Stored)
  BY <1>1
<1>3. Frames(messages) = <<>>
  <2>1. Frames(messages) \in Seq(Seq(Byte)) /\ Len(Frames(messages)) = 0
    BY <1>1, <1>2, FramesAre
  <2> DEFINE B == Seq(Byte)
             f == Frames(messages)
  <2>2. f \in Seq(B) /\ Len(f) = 0
    BY <2>1
  <2> HIDE DEF B, f
  <2>3. f = <<>>
    BY <2>2
  <2> QED
    BY <2>3 DEF f
<1>4. Framed
  BY <1>1, <1>3, FlattenEmpty, FramedIs
<1> QED
  BY <1>2, <1>4 DEF Inv

\* What is appended is last, and in front of it is what was there.
LEMMA FrontAndLast ==
  ASSUME NEW S, NEW s \in Seq(S), NEW x \in S
  PROVE  Front(Append(s, x)) = s /\ Last(Append(s, x)) = x /\ Len(Append(s, x)) = Len(s) + 1
<1> DEFINE a == Append(s, x)
           n == Len(s)
<1>1. /\ n \in Nat /\ a \in Seq(S) /\ Len(a) = n + 1 /\ a[n + 1] = x
      /\ \A i \in 1 .. n : a[i] = s[i]
  OBVIOUS
<1>2. n + 1 - 1 = n
  BY <1>1
<1> HIDE DEF a
<1>3. /\ SubSeq(a, 1, n) \in Seq(S) /\ Len(SubSeq(a, 1, n)) = n
      /\ \A i \in 1 .. n : SubSeq(a, 1, n)[i] = s[i]
  BY <1>1
<1>4. SubSeq(a, 1, n) = s
  BY <1>3, SeqEqual
<1> QED
  BY <1>1, <1>2, <1>4 DEF Front, Last, a

\* Every message of a type may be in a packet.
LEMMA IsStored ==
  ASSUME NEW type \in Types, NEW m \in Messages(type)
  PROVE  Message(type, m) \in Stored
<1>1. Message(type, m) \in StoredOf(type)
  BY Zenon DEF StoredOf
<1> QED
  BY <1>1, Zenon DEF Stored

\* What a step that reads finds: the message is the last one that was written.
LEMMA LastIsRead ==
  ASSUME Inv, NEW type \in Types, NextTag(packet) = Head(Reads[type])
  PROVE  \E ms \in Seq(Stored), m \in Messages(type) :
            /\ messages = Append(ms, Message(type, m))
            /\ Message(type, m) \in Stored
            /\ FlattenSeq(Frames(ms)) \in Seq(Byte)
            /\ packet = FlattenSeq(Frames(ms)) \o WrittenAll(type, m)
<1>1. messages \in Seq(Stored) /\ packet = FlattenSeq(Frames(messages))
  BY FramedIs DEF Inv
<1>2. messages # <<>>
  <2> SUFFICES ASSUME messages = <<>> PROVE FALSE
    OBVIOUS
  <2>1. Frames(messages) \in Seq(Seq(Byte)) /\ Len(Frames(messages)) = 0
    BY <1>1, FramesAre
  <2> DEFINE B == Seq(Byte)
             f == Frames(messages)
  <2>2. f \in Seq(B) /\ Len(f) = 0
    BY <2>1
  <2> HIDE DEF B, f
  <2>3. f = <<>>
    BY <2>2
  <2>4. packet = <<>>
    BY <1>1, <2>3, FlattenEmpty DEF f
  <2> QED
    BY <2>4, NoTagInEmpty
<1>3. PICK ms \in Seq(Stored), x \in Stored : messages = Append(ms, x)
  BY <1>1, <1>2, SequenceEmptyOrAppend
<1> DEFINE t == x.type
           m == x.message
           q == FlattenSeq(Frames(ms))
<1>4. t \in Types /\ m \in Messages(t) /\ x = Message(t, m)
  BY <1>3, StoredIs
<1>5. packet = q \o WrittenAll(t, m)
  BY <1>1, <1>3, FramesAppend DEF Frame
<1>6. q \in Seq(Byte)
  BY <1>3, FramesAre, FlattenTyped
<1> HIDE DEF q, t, m
<1>7. NextTag(packet) = Head(Reads[t])
  BY <1>4, <1>5, <1>6, TagOnTop
<1>8. t = type
  BY <1>4, <1>7, Heads
<1> QED
  BY <1>3, <1>4, <1>5, <1>6, <1>8 DEF q

\* What a step that reads does: the message goes, and what it is read as was got.
LEMMA ReadStep ==
  ASSUME Inv, NEW type \in Types, Read(type)
  PROVE  \E ms \in Seq(Stored), m \in Messages(type) :
            /\ messages = Append(ms, Message(type, m))
            /\ messages' = ms
            /\ packet' = FlattenSeq(Frames(ms))
            /\ got' = Message(type, MessageRead(type, m))
<1>1. NextTag(packet) = Head(Reads[type])
  BY DEF Read
<1>2. PICK ms \in Seq(Stored), m \in Messages(type) :
            /\ messages = Append(ms, Message(type, m))
            /\ Message(type, m) \in Stored
            /\ FlattenSeq(Frames(ms)) \in Seq(Byte)
            /\ packet = FlattenSeq(Frames(ms)) \o WrittenAll(type, m)
  BY <1>1, LastIsRead
<1> DEFINE q == FlattenSeq(Frames(ms))
           r == ReadAll(type, packet)
<1>3. r.packet = q /\ r.message = MessageRead(type, m)
  BY <1>2, AllRead
<1>4. packet' = r.packet /\ got' = Message(type, r.message)
  BY Zenon DEF Read
<1>5. messages' = ms
  <2> DEFINE x == Message(type, m)
  <2>1. messages' = Front(messages)
    BY Zenon DEF Read
  <2>2. x \in Stored /\ messages = Append(ms, x)
    BY <1>2
  <2> HIDE DEF x
  <2>3. Front(Append(ms, x)) = ms
    BY <1>2, <2>2, FrontAndLast
  <2> QED
    BY <2>1, <2>2, <2>3
<1> HIDE DEF r
<1> QED
  BY <1>2, <1>3, <1>4, <1>5

\* Writing puts the bytes of one message on top, reading takes those of the last one
\* off, and reading another type changes nothing.
LEMMA NextInv == Inv /\ [Next]_vars => Inv'
<1> SUFFICES ASSUME Inv, [Next]_vars PROVE Inv'
  OBVIOUS
<1>1. messages \in Seq(Stored) /\ packet = FlattenSeq(Frames(messages))
  BY FramedIs DEF Inv
<1>2. ASSUME messages' \in Seq(Stored), packet' = FlattenSeq(Frames(messages'))
      PROVE  Inv'
  BY <1>2, Zenon DEF Inv, Framed, Frames
<1>3. ASSUME NEW type \in Types, Write(type) PROVE Inv'
  <2>1. PICK m \in Messages(type) :
              /\ packet' = packet \o WrittenAll(type, m)
              /\ messages' = Append(messages, Message(type, m))
    BY <1>3 DEF Write
  <2> DEFINE x == Message(type, m)
  <2>2. x \in Stored
    BY IsStored
  <2>3. Frame(x) = WrittenAll(type, m)
    BY DEF Frame, Message
  <2> HIDE DEF x
  <2>4. messages' = Append(messages, x)
    BY <2>1 DEF x
  <2>5. FlattenSeq(Frames(messages')) = FlattenSeq(Frames(messages)) \o Frame(x)
    BY <1>1, <2>2, <2>4, FramesAppend
  <2>6. messages' \in Seq(Stored)
    BY <1>1, <2>2, <2>4
  <2> QED
    BY <1>1, <1>2, <2>1, <2>3, <2>5, <2>6
<1>4. ASSUME NEW type \in Types, Read(type) PROVE Inv'
  BY <1>2, <1>4, ReadStep
<1>5. ASSUME NEW type \in Types, ReadOther(type) PROVE Inv'
  BY <1>1, <1>2, <1>5 DEF ReadOther
<1>6. CASE UNCHANGED vars
  BY <1>1, <1>2, <1>6 DEF vars
<1> QED
  BY <1>3, <1>4, <1>5, <1>6 DEF Next

\* A packet is exactly the messages in it: reading one, of whatever type, never takes
\* a byte of the message below it and never leaves one of its own (Framed).
THEOREM PacketsAreFramed == Spec => []Framed
<1>1. Inv => Framed
  BY DEF Inv
<1> QED
  BY <1>1, InitInv, NextInv, PTL DEF Spec

\* What was got where x was written
GotOf(x) ==
  /\ got'.type = x.type
  /\ DOMAIN got'.message = Fields(x.type)
  /\ \A f \in Fields(x.type) : FieldRead(f, x.message[f], got'.message[f])

\* A step that takes a message off got it.
LEMMA NextReads == Inv /\ [Next]_vars => (Len(messages') < Len(messages) => GotOf(Last(messages)))
<1> SUFFICES ASSUME Inv, [Next]_vars, Len(messages') < Len(messages)
             PROVE  GotOf(Last(messages))
  OBVIOUS
<1>1. messages \in Seq(Stored)
  BY DEF Inv
<1>2. ASSUME NEW type \in Types, Write(type) PROVE FALSE
  <2>1. PICK m \in Messages(type) : messages' = Append(messages, Message(type, m))
    BY <1>2 DEF Write
  <2> DEFINE x == Message(type, m)
  <2>2. x \in Stored
    BY IsStored
  <2> HIDE DEF x
  <2>3. messages' = Append(messages, x)
    BY <2>1 DEF x
  <2>4. Len(messages') = Len(messages) + 1 /\ Len(messages) \in Nat
    BY <1>1, <2>2, <2>3
  <2> QED
    BY <2>4
<1>3. ASSUME NEW type \in Types, Read(type) PROVE GotOf(Last(messages))
  <2>1. PICK ms \in Seq(Stored), m \in Messages(type) :
            /\ messages = Append(ms, Message(type, m))
            /\ messages' = ms
            /\ packet' = FlattenSeq(Frames(ms))
            /\ got' = Message(type, MessageRead(type, m))
    BY <1>3, ReadStep
  <2> DEFINE x == Message(type, m)
  <2>2. x \in Stored /\ x.type = type /\ x.message = m
    <3>1. x \in Stored
      BY IsStored
    <3> QED
      BY <3>1 DEF Message
  <2> HIDE DEF x
  <2>3. messages = Append(ms, x)
    BY <2>1, Zenon DEF x
  <2>4. Last(messages) = x
    BY <2>1, <2>2, <2>3, FrontAndLast
  <2>5. got'.type = type /\ got'.message = MessageRead(type, m)
    BY <2>1 DEF Message
  <2>6. DOMAIN MessageRead(type, m) = Fields(type)
    BY DEF MessageRead
  <2>7. \A f \in Fields(type) : FieldRead(f, m[f], MessageRead(type, m)[f])
    BY FieldsAsRead
  <2>8. GotOf(x)
    BY <2>2, <2>5, <2>6, <2>7, Zenon DEF GotOf
  <2> QED
    BY <2>4, <2>8
<1>4. ASSUME NEW type \in Types, ReadOther(type) PROVE FALSE
  BY <1>1, <1>4 DEF ReadOther
<1>5. CASE UNCHANGED vars
  BY <1>1, <1>5 DEF vars
<1> QED
  BY <1>2, <1>3, <1>4, <1>5 DEF Next

\* Every message is read back as what was written, whatever the other messages of the
\* packet are, but for its lengths of 2^7, 2^14 and 2^29, which become 0 (ReadBack).
THEOREM MessagesReadBack == Spec => ReadBack
<1> DEFINE A == Len(messages') < Len(messages) =>
                  LET written == Last(messages)
                      read == got'.message
                  IN /\ got'.type = written.type
                     /\ DOMAIN read = Fields(written.type)
                     /\ \A f \in Fields(written.type) :
                           IF f \in VarFields
                           THEN LengthRead(written.message[f], read[f])
                           ELSE read[f] = written.message[f]
<1>1. Inv /\ [Next]_vars => A
  BY NextReads, Zenon DEF GotOf, FieldRead
<1>2. Inv /\ [Next]_vars => [A]_vars
  BY <1>1
<1> QED
  BY <1>2, InitInv, NextInv, PTL DEF Spec, ReadBack

=============================================================================
