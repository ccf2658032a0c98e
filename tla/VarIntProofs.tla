---------------------------- MODULE VarIntProofs ----------------------------
(***************************************************************************)
(* What operator>> of a uintVar_t reads of what operator<< wrote, for      *)
(* every value and every packet.                                           *)
(***************************************************************************)
EXTENDS VarInt, TLAPS

\* The bits that are left of a byte under the length bits.
LEMMA Remainders ==
    ASSUME NEW b \in Byte
    PROVE  /\ b % 128 \in 0 .. 127
           /\ (b % 64) + 128 \in 128 .. 191
           /\ (b % 32) + 192 \in 192 .. 223
           /\ (b % 16) + 224 \in 224 .. 239
PROOF
<1>1. b \in 0 .. 255
  BY DEF Byte
<1>2. b % 128 \in 0 .. 127 /\ b % 64 \in 0 .. 63 /\ b % 32 \in 0 .. 31 /\ b % 16 \in 0 .. 15
  BY <1>1
<1> QED
  BY <1>2

\* The length bits masked, a small remainder is read back.
LEMMA Unmasked ==
    ASSUME NEW b \in Byte
    PROVE  /\ b < 128 => b % 128 = b
           /\ b < 64 => b % 64 = b /\ (b + 128) % 64 = b
           /\ b < 32 => b % 32 = b /\ (b + 192) % 32 = b
PROOF
<1>1. b \in 0 .. 255
  BY DEF Byte
<1>2. b < 128 => b % 128 = b
  BY <1>1
<1>3. b < 64 => b % 64 = b /\ (b + 128) % 64 = b
  BY <1>1
<1>4. b < 32 => b % 32 = b /\ (b + 192) % 32 = b
  BY <1>1
<1> QED
  BY <1>2, <1>3, <1>4

\* The last byte of e is on top of p \o e.
LEMMA TopOfPushed ==
    ASSUME NEW p \in Seq(Byte), NEW e \in Seq(Byte), Len(e) > 0
    PROVE  Top(p \o e) = e[Len(e)]
PROOF
<1>1. Len(p \o e) = Len(p) + Len(e)
  OBVIOUS
<1>2. (p \o e)[Len(p) + Len(e)] = e[Len(e)]
  OBVIOUS
<1> QED
  BY <1>1, <1>2 DEF Top

\* The four forms
LEMMA Forms ==
    ASSUME NEW v \in Value
    PROVE  \/ Encode(v) = <<v[1] % 128>>
           \/ Encode(v) = <<v[1], (v[2] % 64) + 128>>
           \/ Encode(v) = <<v[1], v[2], v[3], (v[4] % 32) + 192>>
           \/ Encode(v) = <<v[1], v[2], v[3], v[4], v[5], v[6], v[7], (v[8] % 16) + 224>>
  BY DEF Encode

\* The byte on top tells how many bytes were written.
LEMMA LengthOfEncoded ==
    ASSUME NEW p \in Seq(Byte), NEW v \in Value
    PROVE  /\ Encode(v) \in Seq(Byte)
           /\ Len(Encode(v)) \in {1, 2, 4, 8}
           /\ Length(p \o Encode(v)) = Len(Encode(v))
PROOF
<1>1. /\ v[1] \in Byte /\ v[2] \in Byte /\ v[3] \in Byte /\ v[4] \in Byte
      /\ v[5] \in Byte /\ v[6] \in Byte /\ v[7] \in Byte /\ v[8] \in Byte
  BY DEF Value, Word64
<1>2. CASE Encode(v) = <<v[1] % 128>>
  <2> DEFINE x == v[1] % 128
             e == <<x>>
  <2>1. x \in 0 .. 127
    <3> DEFINE b == v[1]
    <3>1. b \in Byte
      BY <1>1
    <3> HIDE DEF b
    <3>2. b % 128 \in 0 .. 127
      BY <3>1, Remainders
    <3> QED
      BY <3>2 DEF b
  <2>2. x \in Byte
    BY <2>1 DEF Byte
  <2>3. e \in Seq(Byte) /\ Len(e) = 1 /\ e[1] = x
    <3> HIDE DEF x
    <3> QED
      BY <1>1, <2>2
  <2>4. Encode(v) = e
    BY <1>2
  <2> HIDE DEF x, e
  <2>5. Top(p \o e) = x
    <3>1. Len(e) > 0
      BY <2>3
    <3>2. Top(p \o e) = e[Len(e)]
      BY <2>3, <3>1, TopOfPushed
    <3> QED
      BY <2>3, <3>2
  <2>6. Length(p \o e) = 1
    BY <2>1, <2>5 DEF Length
  <2> QED
    BY <2>3, <2>4, <2>6
<1>3. CASE Encode(v) = <<v[1], (v[2] % 64) + 128>>
  <2> DEFINE x == (v[2] % 64) + 128
             e == <<v[1], x>>
  <2>1. x \in 128 .. 191
    <3> DEFINE b == v[2]
    <3>1. b \in Byte
      BY <1>1
    <3> HIDE DEF b
    <3>2. (b % 64) + 128 \in 128 .. 191
      BY <3>1, Remainders
    <3> QED
      BY <3>2 DEF b
  <2>2. x \in Byte
    BY <2>1 DEF Byte
  <2>3. e \in Seq(Byte) /\ Len(e) = 2 /\ e[2] = x
    <3> HIDE DEF x
    <3> QED
      BY <1>1, <2>2
  <2>4. Encode(v) = e
    BY <1>3
  <2> HIDE DEF x, e
  <2>5. Top(p \o e) = x
    <3>1. Len(e) > 0
      BY <2>3
    <3>2. Top(p \o e) = e[Len(e)]
      BY <2>3, <3>1, TopOfPushed
    <3> QED
      BY <2>3, <3>2
  <2>6. Length(p \o e) = 2
    BY <2>1, <2>5 DEF Length
  <2> QED
    BY <2>3, <2>4, <2>6
<1>4. CASE Encode(v) = <<v[1], v[2], v[3], (v[4] % 32) + 192>>
  <2> DEFINE x == (v[4] % 32) + 192
             e == <<v[1], v[2], v[3], x>>
  <2>1. x \in 192 .. 223
    <3> DEFINE b == v[4]
    <3>1. b \in Byte
      BY <1>1
    <3> HIDE DEF b
    <3>2. (b % 32) + 192 \in 192 .. 223
      BY <3>1, Remainders
    <3> QED
      BY <3>2 DEF b
  <2>2. x \in Byte
    BY <2>1 DEF Byte
  <2>3. e \in Seq(Byte) /\ Len(e) = 4 /\ e[4] = x
    <3> HIDE DEF x
    <3> QED
      BY <1>1, <2>2
  <2>4. Encode(v) = e
    BY <1>4
  <2> HIDE DEF x, e
  <2>5. Top(p \o e) = x
    <3>1. Len(e) > 0
      BY <2>3
    <3>2. Top(p \o e) = e[Len(e)]
      BY <2>3, <3>1, TopOfPushed
    <3> QED
      BY <2>3, <3>2
  <2>6. Length(p \o e) = 4
    BY <2>1, <2>5 DEF Length
  <2> QED
    BY <2>3, <2>4, <2>6
<1>5. CASE Encode(v) = <<v[1], v[2], v[3], v[4], v[5], v[6], v[7], (v[8] % 16) + 224>>
  <2> DEFINE x == (v[8] % 16) + 224
             e == <<v[1], v[2], v[3], v[4], v[5], v[6], v[7], x>>
  <2>1. x \in 224 .. 239
    <3> DEFINE b == v[8]
    <3>1. b \in Byte
      BY <1>1
    <3> HIDE DEF b
    <3>2. (b % 16) + 224 \in 224 .. 239
      BY <3>1, Remainders
    <3> QED
      BY <3>2 DEF b
  <2>2. x \in Byte
    BY <2>1 DEF Byte
  <2>3. e \in Seq(Byte) /\ Len(e) = 8 /\ e[8] = x
    <3> HIDE DEF x
    <3> QED
      BY <1>1, <2>2
  <2>4. Encode(v) = e
    BY <1>5
  <2> HIDE DEF x, e
  <2>5. Top(p \o e) = x
    <3>1. Len(e) > 0
      BY <2>3
    <3>2. Top(p \o e) = e[Len(e)]
      BY <2>3, <3>1, TopOfPushed
    <3> QED
      BY <2>3, <3>2
  <2>6. Length(p \o e) = 8
    BY <2>1, <2>5 DEF Length
  <2> QED
    BY <2>3, <2>4, <2>6
<1> QED
  BY <1>2, <1>3, <1>4, <1>5, Forms

\* Framing: reading an integer takes off the packet exactly the bytes that
\* writing it put on, also where its value is not read back.
THEOREM Framing ==
    ASSUME NEW p \in Seq(Byte), NEW v \in Value
    PROVE  Readable(p \o Encode(v)) /\ Rest(p \o Encode(v)) = p
PROOF
<1> DEFINE e == Encode(v)
<1>1. e \in Seq(Byte) /\ Len(e) \in {1, 2, 4, 8} /\ Length(p \o e) = Len(e)
  BY LengthOfEncoded
<1> HIDE DEF e
<1>2. Len(p \o e) = Len(p) + Len(e)
  BY <1>1
<1>3. Rest(p \o e) = SubSeq(p \o e, 1, Len(p))
  BY <1>1, <1>2 DEF Rest
<1>4. SubSeq(p \o e, 1, Len(p)) = p
  BY <1>1, <1>2
<1>5. Readable(p \o e)
  BY <1>1, <1>2 DEF Readable
<1> QED
  BY <1>3, <1>4, <1>5 DEF e

\* Reading item i of what was pushed.
LEMMA ByteOfPushed ==
    ASSUME NEW p \in Seq(Byte), NEW e \in Seq(Byte), NEW i \in Nat, i < Len(e)
    PROVE  (p \o e)[Len(p \o e) - Len(e) + 1 + i] = e[i + 1]
PROOF
<1>1. Len(p \o e) - Len(e) + 1 + i = Len(p) + (i + 1)
  OBVIOUS
<1>2. (p \o e)[Len(p) + (i + 1)] = e[i + 1]
  OBVIOUS
<1> QED
  BY <1>1, <1>2

\* RoundTrip: a value below 2^29 that is none of the thresholds 2^7 and 2^14
\* is read back as it was written.
THEOREM RoundTrip ==
    ASSUME NEW p \in Seq(Byte), NEW v \in Value, Exact(v)
    PROVE  Decode(p \o Encode(v)) = v
PROOF
<1> DEFINE e == Encode(v)
           q == p \o e
           byte(i) == q[Len(q) - Length(q) + 1 + i]
<1>1. e \in Seq(Byte) /\ Len(e) \in {1, 2, 4, 8} /\ Length(q) = Len(e)
  BY LengthOfEncoded
<1>2. /\ v[1] \in Byte /\ v[2] \in Byte /\ v[3] \in Byte /\ v[4] \in Byte
      /\ v[1] \in 0 .. 255 /\ v[2] \in 0 .. 255 /\ v[3] \in 0 .. 255 /\ v[4] \in 0 .. 255
  BY DEF Value, Word64, Byte
<1>3. \A i \in Nat : i < Len(e) => byte(i) = e[i + 1]
  <2> HIDE DEF e
  <2> QED
    BY <1>1, ByteOfPushed
<1>4. v = <<v[1], v[2], v[3], v[4], v[5], v[6], v[7], v[8]>>
  BY DEF Value, Word64
<1>5. v[5] = 0 /\ v[6] = 0 /\ v[7] = 0 /\ v[8] = 0 /\ v[4] < 32
  BY DEF Exact, Fits
<1>6. CASE OneByte(v)
  <2>1. v[2] = 0 /\ v[3] = 0 /\ v[4] = 0 /\ v[1] <= 128 /\ v[1] # 128
    BY <1>6 DEF OneByte, Exact, Fits
  <2>2. v[1] % 128 = v[1]
    <3> DEFINE b == v[1]
    <3>1. b \in Byte /\ b \in 0 .. 255 /\ b <= 128 /\ b # 128
      BY <1>2, <2>1
    <3> HIDE DEF b
    <3>2. b % 128 = b
      BY <3>1, Unmasked
    <3> QED
      BY <3>2 DEF b
  <2>3. e = <<v[1]>>
    BY <1>6, <2>2 DEF Encode
  <2> HIDE DEF e
  <2>4. Len(e) = 1 /\ e[1] = v[1]
    BY <2>3
  <2> HIDE DEF q, byte
  <2>5. Length(q) = 1 /\ byte(0) = v[1]
    BY <1>1, <1>3, <2>4
  <2>6. Decode(q) = <<byte(0), 0, 0, 0, 0, 0, 0, 0>>
    BY <2>5 DEF Decode, byte
  <2>7. Decode(q) = v
    BY <1>4, <1>5, <2>1, <2>5, <2>6
  <2> QED
    BY <2>7 DEF e, q
<1>7. CASE ~OneByte(v) /\ TwoBytes(v)
  <2>1. Fits(v, 2) /\ v[3] = 0 /\ v[4] = 0 /\ v[1] + 256 * v[2] <= 16384
    BY <1>7 DEF TwoBytes, Fits
  <2>2. ~(v[1] = 0 /\ v[2] = 64)
    BY <2>1 DEF Exact
  <2>3. v[2] < 64
    <3> DEFINE a == v[1]
               b == v[2]
    <3>1. a \in 0 .. 255 /\ b \in 0 .. 255 /\ a + 256 * b <= 16384 /\ ~(a = 0 /\ b = 64)
      BY <1>2, <2>1, <2>2
    <3> HIDE DEF a, b
    <3>2. b < 64
      BY <3>1
    <3> QED
      BY <3>2 DEF b
  <2>4. v[2] % 64 = v[2] /\ (v[2] + 128) % 64 = v[2]
    BY <1>2, <2>3, Unmasked
  <2>5. e = <<v[1], v[2] + 128>>
    BY <1>7, <2>4 DEF Encode
  <2> HIDE DEF e
  <2>6. Len(e) = 2 /\ e[1] = v[1] /\ e[2] = v[2] + 128
    BY <2>5
  <2> HIDE DEF q, byte
  <2>7. Length(q) = 2 /\ byte(0) = v[1] /\ byte(1) = v[2] + 128
    BY <1>1, <1>3, <2>6
  <2>8. Decode(q) = <<byte(0), byte(1) % 64, 0, 0, 0, 0, 0, 0>>
    BY <2>7 DEF Decode, byte
  <2>9. Decode(q) = v
    BY <1>4, <1>5, <2>1, <2>4, <2>7, <2>8
  <2> QED
    BY <2>9 DEF e, q
<1>8. CASE ~OneByte(v) /\ ~TwoBytes(v)
  <2>1. FourBytes(v)
    BY <1>5 DEF FourBytes, Exact
  <2>2. v[4] % 32 = v[4] /\ (v[4] + 192) % 32 = v[4]
    BY <1>2, <1>5, Unmasked
  <2>3. e = <<v[1], v[2], v[3], v[4] + 192>>
    BY <1>8, <2>1, <2>2 DEF Encode
  <2> HIDE DEF e
  <2>4. Len(e) = 4 /\ e[1] = v[1] /\ e[2] = v[2] /\ e[3] = v[3] /\ e[4] = v[4] + 192
    BY <2>3
  <2> HIDE DEF q, byte
  <2>5. /\ Length(q) = 4
        /\ byte(0) = v[1] /\ byte(1) = v[2] /\ byte(2) = v[3] /\ byte(3) = v[4] + 192
    BY <1>1, <1>3, <2>4
  <2>6. Decode(q) = <<byte(0), byte(1), byte(2), byte(3) % 32, 0, 0, 0, 0>>
    BY <2>5 DEF Decode, byte
  <2>7. Decode(q) = v
    BY <1>4, <1>5, <2>2, <2>5, <2>6
  <2> QED
    BY <2>7 DEF e, q
<1> QED
  BY <1>6, <1>7, <1>8

\* 2^7, 2^14 and 2^29 do not survive the wire: each is read back as 0, whatever
\* packet it is written on.
THEOREM ThresholdsAreLost ==
    ASSUME NEW p \in Seq(Byte), NEW v \in Thresholds
    PROVE  Decode(p \o Encode(v)) = Zero
PROOF
<1> DEFINE e == Encode(v)
           q == p \o e
           byte(i) == q[Len(q) - Length(q) + 1 + i]
<1>1. v \in Value
  BY DEF Thresholds, Value, Word64, Byte
<1>2. e \in Seq(Byte) /\ Length(q) = Len(e)
  BY <1>1, LengthOfEncoded
<1>3. \A i \in Nat : i < Len(e) => byte(i) = e[i + 1]
  <2> HIDE DEF e
  <2> QED
    BY <1>2, ByteOfPushed
<1>4. e \in {<<0>>, <<0, 128>>, <<0, 0, 0, 192>>}
  BY DEF Thresholds, Encode, OneByte, TwoBytes, FourBytes, Fits
<1> HIDE DEF e, q, byte
<1>5. CASE e = <<0>>
  <2>1. Length(q) = 1 /\ byte(0) = 0
    BY <1>2, <1>3, <1>5
  <2> QED
    BY <2>1 DEF Decode, byte, e, q, Zero
<1>6. CASE e = <<0, 128>>
  <2>1. Length(q) = 2 /\ byte(0) = 0 /\ byte(1) = 128
    BY <1>2, <1>3, <1>6
  <2> QED
    BY <2>1 DEF Decode, byte, e, q, Zero
<1>7. CASE e = <<0, 0, 0, 192>>
  <2>1. Length(q) = 4 /\ byte(0) = 0 /\ byte(1) = 0 /\ byte(2) = 0 /\ byte(3) = 192
    BY <1>2, <1>3, <1>7
  <2> QED
    BY <2>1 DEF Decode, byte, e, q, Zero
<1> QED
  BY <1>4, <1>5, <1>6, <1>7

=============================================================================
