-------------------------------- MODULE Codec --------------------------------
(***************************************************************************)
(* The byte arithmetic of rui::crypto (crypto.cpp).  A byte is the set of  *)
(* its one bits: & is \cap, | is \cup, ^ the symmetric difference and a    *)
(* shift moves every bit, the ones pushed out of the byte being lost.      *)
(***************************************************************************)
EXTENDS Integers

Bits == 0..7
Byte == SUBSET Bits

(* The low num bits: the table ARR of encode() and decode().                *)
ARR(num) == {j \in Bits : j < num}

Shr(b, num) == {j \in Bits : j + num \in b}
Shl(b, num) == {j \in Bits : j - num \in b}
Xor(a, b) == (a \ b) \cup (b \ a)

(* a = p & ARR[num]; p >>= num; b = a << (8 - num); p |= b.                 *)
Rotate(p, num) == Shr(p, num) \cup Shl(p \cap ARR(num), 8 - num)

(* The low byte of an int.                                                  *)
ByteOf(k) == {j \in Bits : (k \div 2^j) % 2 = 1}

(* % of C, with the sign of the dividend.                                   *)
CMod(a, n) == IF a >= 0 THEN a % n ELSE - ((- a) % n)

(* abs((ixor + 153) * (ixor - 78) + 3) % 256                                *)
NextXor(ixor) ==
  LET v == (ixor + 153) * (ixor - 78) + 3
  IN  (IF v < 0 THEN - v ELSE v) % 256

(* Mutant: rotate after the xor, as decode() does.                          *)
XorThenRotate(p, ixor, num) == Rotate(Xor(p, ByteOf(ixor)), num)

(* One turn of the loop of encode() on the byte p ...                       *)
EncodeByte(p, ixor, num) == Xor(Rotate(p, num), ByteOf(ixor))

(* ... and of decode().                                                     *)
DecodeByte(p, ixor, num) == Rotate(Xor(p, ByteOf(ixor)), num)
==============================================================================
