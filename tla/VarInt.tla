------------------------------- MODULE VarInt -------------------------------
(***************************************************************************)
(* The variable-length integers of the wire format (encode.cc, uintVar_t). *)
(*                                                                         *)
(* A uint64_t is its eight bytes, the least significant first; masks and   *)
(* shifts are remainders and positions.  A packet is a stack of bytes: an  *)
(* integer is pushed least significant byte first, so that the byte with   *)
(* the length bits is read first.                                          *)
(***************************************************************************)
EXTENDS Integers, Sequences

Byte == 0 .. 255
Word64 == [1 .. 8 -> Byte]

\* What toVarInt accepts: less than 2^61.
Value == {v \in Word64 : v[8] < 32}

\* All bytes of v after the first k are zero.
Fits(v, k) == \A i \in 1 .. 8 : i > k => v[i] = 0

-----------------------------------------------------------------------------
(* operator<< *)

\* val <= 2^7, val <= 2^14 and val <= 2^29
OneByte(v) == Fits(v, 1) /\ v[1] <= 128
TwoBytes(v) == Fits(v, 2) /\ v[1] + 256 * v[2] <= 16384
FourBytes(v) == Fits(v, 4) /\ (v[4] < 32 \/ (v[4] = 32 /\ v[1] + v[2] + v[3] = 0))

Encode(v) ==
    IF OneByte(v) THEN <<v[1] % 128>>
    ELSE IF TwoBytes(v) THEN <<v[1], (v[2] % 64) + 128>>
    ELSE IF FourBytes(v) THEN <<v[1], v[2], v[3], (v[4] % 32) + 192>>
    ELSE <<v[1], v[2], v[3], v[4], v[5], v[6], v[7], (v[8] % 16) + 224>>

-----------------------------------------------------------------------------
(* operator>>, on a packet p that is not empty *)

Top(p) == p[Len(p)]

\* How many bytes the length bits of the byte on top announce.
Length(p) ==
    IF Top(p) < 128 THEN 1
    ELSE IF Top(p) < 192 THEN 2
    ELSE IF Top(p) < 224 THEN 4
    ELSE 8

\* Popping a byte of an empty packet fails, but the value is assigned all the same.
Readable(p) == Len(p) > 0 /\ Len(p) >= Length(p)

Rest(p) == SubSeq(p, 1, Len(p) - Length(p))

\* The eight-byte form puts bytes 3, 2, 1, 0, 2, 2, 1, 0 together, not 7 to 0.
Decode(p) ==
    LET byte(i) == p[Len(p) - Length(p) + 1 + i]
    IN CASE Length(p) = 1 -> <<byte(0), 0, 0, 0, 0, 0, 0, 0>>
         [] Length(p) = 2 -> <<byte(0), byte(1) % 64, 0, 0, 0, 0, 0, 0>>
         [] Length(p) = 4 -> <<byte(0), byte(1), byte(2), byte(3) % 32, 0, 0, 0, 0>>
         [] Length(p) = 8 -> <<byte(0), byte(1), byte(2), byte(2),
                               byte(0), byte(1), byte(2), byte(3) % 16>>

-----------------------------------------------------------------------------
(* Lengths *)

\* A number below 2^24 and its bytes.
Bytes(n) == <<n % 256, (n \div 256) % 256, n \div 65536, 0, 0, 0, 0, 0>>
Number(v) == v[1] + 256 * v[2] + 65536 * v[3]

\* The values that survive the wire: below 2^29, and none of the thresholds.
Exact(v) ==
    /\ Fits(v, 4) /\ v[4] < 32
    /\ ~(Fits(v, 1) /\ v[1] = 128)
    /\ ~(Fits(v, 2) /\ v[1] = 0 /\ v[2] = 64)

\* 2^7, 2^14 and 2^29, which the comparisons of operator<< let into a form one bit too
\* short
Thresholds ==
    {<<128, 0, 0, 0, 0, 0, 0, 0>>, <<0, 64, 0, 0, 0, 0, 0, 0>>, <<0, 0, 0, 32, 0, 0, 0, 0>>}
Zero == <<0, 0, 0, 0, 0, 0, 0, 0>>

=============================================================================
