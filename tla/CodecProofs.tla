----------------------------- MODULE CodecProofs -----------------------------
(***************************************************************************)
(* The byte arithmetic of crypto.cpp: decoding undoes encoding, for every  *)
(* byte, every ixor and every pair of rotations that fit.  Both users of   *)
(* it, Crypto and JsonChannel, rest on this.                               *)
(***************************************************************************)
EXTENDS Codec, TLAPS

(* Xor with the same byte twice gives back the byte (crypto.cpp:38, 72).    *)
LEMMA XorTwice ==
  ASSUME NEW a \in Byte, NEW b \in Byte
  PROVE  Xor(Xor(a, b), b) = a
  BY Zenon DEF Xor

(* A rotated byte is a byte, whose bit j is bit (j + num) % 8 of the byte.  *)
LEMMA RotateBits ==
  ASSUME NEW p \in Byte, NEW num \in 0..7
  PROVE  /\ Rotate(p, num) \in Byte
         /\ \A j \in Bits : j \in Rotate(p, num) <=>
              (IF j + num < 8 THEN j + num ELSE j + num - 8) \in p
<1>1. Rotate(p, num) \in Byte
  BY SMT DEF Rotate, Shr, Shl, Byte, Bits, ARR
<1>2. ASSUME NEW j \in Bits
      PROVE  j \in Rotate(p, num) <=>
               (IF j + num < 8 THEN j + num ELSE j + num - 8) \in p
  <2>1. j \in Rotate(p, num) <=>
          j + num \in p \/ (j - (8 - num) \in p /\ j - (8 - num) \in Bits
                            /\ j - (8 - num) < num)
    BY DEF Rotate, Shr, Shl, ARR
  <2>2. p \subseteq 0..7
    BY DEF Byte, Bits
  <2>3. CASE j + num < 8
    BY <2>1, <2>2, <2>3 DEF Bits
  <2>4. CASE ~ (j + num < 8)
    <3>1. j - (8 - num) = j + num - 8
      BY DEF Bits
    <3>2. j + num \notin p
      BY <2>2, <2>4 DEF Bits
    <3>3. j + num - 8 \in Bits /\ j + num - 8 < num
      BY <2>4 DEF Bits
    <3> QED
      BY <2>1, <2>4, <3>1, <3>2, <3>3
  <2> QED
    BY <2>3, <2>4
<1> QED
  BY <1>1, <1>2

(* Two rotations that add up to 0 or 8 give back the byte.                  *)
LEMMA RotateBack ==
  ASSUME NEW p \in Byte, NEW n \in 0..7, NEW m \in 0..7, (n + m) % 8 = 0
  PROVE  Rotate(Rotate(p, n), m) = p
<1>1. n + m = 0 \/ n + m = 8
  OBVIOUS
<1>2. /\ Rotate(p, n) \in Byte
      /\ Rotate(Rotate(p, n), m) \in Byte
  BY RotateBits
<1>3. ASSUME NEW j \in Bits
      PROVE  j \in Rotate(Rotate(p, n), m) <=> j \in p
  <2> DEFINE k == IF j + m < 8 THEN j + m ELSE j + m - 8
             l == IF k + n < 8 THEN k + n ELSE k + n - 8
  <2>1. k \in Bits
    BY DEF Bits
  <2>2. j \in Rotate(Rotate(p, n), m) <=> k \in Rotate(p, n)
    BY <1>2, RotateBits
  <2>3. k \in Rotate(p, n) <=> l \in p
    BY <2>1, RotateBits
  <2>4. l = j
    BY <1>1 DEF Bits
  <2> QED
    BY <2>2, <2>3, <2>4
<1>4. p \subseteq Bits /\ Rotate(Rotate(p, n), m) \subseteq Bits
  BY <1>2 DEF Byte
<1> QED
  BY <1>3, <1>4

(* Every operation on bytes yields a byte, whatever the int is.             *)
LEMMA ByteOfType ==
  ASSUME NEW x
  PROVE  ByteOf(x) \in Byte
  BY DEF ByteOf, Byte

LEMMA ByteOps ==
  ASSUME NEW p \in Byte, NEW x, NEW num
  PROVE  /\ ByteOf(x) \in Byte
         /\ EncodeByte(p, x, num) \in Byte
         /\ DecodeByte(p, x, num) \in Byte
<1>1. ByteOf(x) \in Byte
  BY ByteOfType
<1>2. \A q : Rotate(q, num) \in Byte
  BY DEF Rotate, Shr, Shl, Byte
<1> QED
  BY <1>1, <1>2 DEF EncodeByte, DecodeByte, Xor, Byte

(* One turn of decode() with the same ixor undoes one turn of encode(), for *)
(* rotations that fit.                                                      *)
THEOREM RoundTripByte ==
  ASSUME NEW p \in Byte, NEW x, NEW n \in 0..7, NEW m \in 0..7, (n + m) % 8 = 0
  PROVE  DecodeByte(EncodeByte(p, x, n), x, m) = p
<1>1. Rotate(p, n) \in Byte
  BY RotateBits
<1>2. ByteOf(x) \in Byte
  BY ByteOps
<1>3. Xor(Xor(Rotate(p, n), ByteOf(x)), ByteOf(x)) = Rotate(p, n)
  BY <1>1, <1>2, XorTwice
<1> QED
  BY <1>3, RotateBack DEF EncodeByte, DecodeByte

(* Powers as the provers know them.                                         *)
LEMMA PowersOf2 ==
  /\ 2^0 = 1 /\ 2^1 = 2 /\ 2^2 = 4 /\ 2^3 = 8
  /\ 2^4 = 16 /\ 2^5 = 32 /\ 2^6 = 64 /\ 2^7 = 128
  OBVIOUS

LEMMA PowersOf256 ==
  256^0 = 1 /\ 256^1 = 256 /\ 256^2 = 65536 /\ 256^3 = 16777216
  OBVIOUS
=============================================================================
