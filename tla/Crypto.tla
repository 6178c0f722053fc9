------------------------------- MODULE Crypto --------------------------------
(***************************************************************************)
(* rui::crypto (crypto.cpp): a client encodes a vector with                *)
(* encode_to_string(), the string is cut anywhere on its way (a short read *)
(* or a full buffer), and another crypto object with the same mi_xor       *)
(* decodes what arrived with decode_from_string().  The loops over the     *)
(* bytes are actions: the running ixor is state, and it is what has to     *)
(* agree at the two ends.                                                  *)
(***************************************************************************)
EXTENDS Codec, Sequences

CONSTANTS
  Inputs,    \* the vectors encoded
  Keys,      \* the i_num given to encode and to decode
  mi_xor,    \* the key of the constructor
  NoHex      \* a character that is no hexadecimal digit

ASSUME InputAssumption == Inputs \subseteq Seq(Byte) /\ Keys \subseteq Int

(* Beyond this the product in NextXor leaves the int, which is undefined.   *)
ASSUME SeedAssumption == mi_xor \in Int /\ mi_xor >= -46000 /\ mi_xor <= 46000

ASSUME HexAssumption == \A d \in SUBSET (0..3) : NoHex # d

(* A hexadecimal digit is the four bits it shows; upper and lower case are  *)
(* the same digit.                                                          *)
Nibble == SUBSET (0..3)

VARIABLES
  v_in,        \* the vector given to encode_to_string
  enum,        \* its i_num
  dnum,        \* the i_num of decode_from_string
  pc,          \* the stage of the call in progress
  p_data,      \* the bytes being worked on in place
  i,           \* the loop index: bytes 1..i are done
  ixor,        \* the local ixor
  s_data,      \* the hexadecimal string
  rb,          \* what encode, then decode, returned
  sent,        \* history: how much of the string arrived
  used         \* history: the ixor applied to each byte by encode

vars == <<v_in, enum, dnum, pc, p_data, i, ixor, s_data, rb, sent, used>>
call == <<v_in, enum, dnum>>

Init ==
  /\ v_in \in Inputs
  /\ enum \in Keys
  /\ dnum \in Keys
  /\ pc = "encode"
  /\ p_data = <<>>
  /\ i = 0
  /\ ixor = mi_xor
  /\ s_data = <<>>
  /\ rb = TRUE
  /\ sent = 0
  /\ used = <<>>

(* encode() and decode() alike: nothing to do, a key refused, or the copy   *)
(* whose bytes the loop works on.                                           *)
Enter(data, i_num, loop, end) ==
  /\ i' = 0
  /\ ixor' = mi_xor
  /\ \/ /\ data = <<>>
        /\ p_data' = <<>> /\ rb' = TRUE /\ pc' = end
     \/ /\ data # <<>> /\ CMod(i_num, 8) < 0
        /\ p_data' = <<>> /\ rb' = FALSE /\ pc' = end
     \/ /\ data # <<>> /\ CMod(i_num, 8) >= 0
        /\ p_data' = data /\ rb' = TRUE /\ pc' = loop

(***************************************************************************)
(* encode_to_string(): encode(), then hex_to_string()                      *)
(***************************************************************************)
Encode ==
  /\ pc = "encode"
  /\ Enter(v_in, enum, "encoding", "hex")
  /\ UNCHANGED <<call, s_data, sent, used>>

(* Mutant: the loop runs to i <= size.                                      *)
EncodeStepPastEnd ==
  /\ pc = "encoding" /\ i <= Len(p_data)
  /\ i' = i + 1
  /\ ixor' = NextXor(ixor)
  /\ used' = Append(used, ixor')
  /\ UNCHANGED <<call, pc, p_data, s_data, rb, sent>>

EncodeStep ==
  /\ pc = "encoding" /\ i < Len(p_data)
  /\ i' = i + 1
  /\ ixor' = NextXor(ixor)
  /\ p_data' = [p_data EXCEPT ![i'] = EncodeByte(@, ixor', CMod(enum, 8))]
  /\ used' = Append(used, ixor')
  /\ UNCHANGED <<call, pc, s_data, rb, sent>>

EncodeEnd ==
  /\ pc = "encoding" /\ i = Len(p_data)
  /\ pc' = "hex"
  /\ UNCHANGED <<call, p_data, i, ixor, s_data, rb, sent, used>>

(* "%02x": the high digit first.                                            *)
HexOf(data) ==
  [k \in 1..(2 * Len(data)) |->
     IF k % 2 = 1 THEN {j \in 0..3 : j + 4 \in data[(k + 1) \div 2]}
                  ELSE data[k \div 2] \cap (0..3)]

HexToString ==
  /\ pc = "hex"
  /\ s_data' = HexOf(p_data)
  /\ pc' = "sent"
  /\ UNCHANGED <<call, p_data, i, ixor, rb, sent, used>>

(***************************************************************************)
(* The string on its way: any prefix of it arrives, an odd number of       *)
(* digits too, perhaps followed by a character that is no digit (the       *)
(* newline of a line that was read).                                       *)
(***************************************************************************)
Arrive ==
  /\ pc = "sent"
  /\ \E m \in 0..Len(s_data) :
       /\ sent' = m
       /\ \/ s_data' = SubSeq(s_data, 1, m)
          \/ s_data' = Append(SubSeq(s_data, 1, m), NoHex)
  /\ pc' = "unhex"
  /\ UNCHANGED <<call, p_data, i, ixor, rb, used>>

(***************************************************************************)
(* decode_from_string(): string_to_hex(), then decode()                    *)
(***************************************************************************)
Digit(c) == IF c = NoHex THEN {} ELSE c

(* Mutant: the last digit makes a byte of its own.                          *)
BytesOfPadded(s) ==
  [k \in 1..((Len(s) + 1) \div 2) |->
     Shl(Digit(s[2 * k - 1]), 4) \cup
       (IF 2 * k \in DOMAIN s THEN Digit(s[2 * k]) ELSE {})]

(* A byte for every pair of characters, one that is no digit counting as 0; *)
(* a last character without a partner is dropped.                           *)
BytesOf(s) ==
  [k \in 1..(Len(s) \div 2) |->
     Shl(Digit(s[2 * k - 1]), 4) \cup Digit(s[2 * k])]

Decode ==
  /\ pc = "unhex"
  /\ Enter(BytesOf(s_data), dnum, "decoding", "done")
  /\ UNCHANGED <<call, s_data, sent, used>>

DecodeStep ==
  /\ pc = "decoding" /\ i < Len(p_data)
  /\ i' = i + 1
  /\ ixor' = NextXor(ixor)
  /\ p_data' = [p_data EXCEPT ![i'] = DecodeByte(@, ixor', CMod(dnum, 8))]
  /\ UNCHANGED <<call, pc, s_data, rb, sent, used>>

DecodeEnd ==
  /\ pc = "decoding" /\ i = Len(p_data)
  /\ pc' = "done"
  /\ UNCHANGED <<call, p_data, i, ixor, s_data, rb, sent, used>>

Next ==
  \/ Encode \/ EncodeStep \/ EncodeEnd \/ HexToString
  \/ Arrive
  \/ Decode \/ DecodeStep \/ DecodeEnd

Spec == Init /\ [][Next]_vars

-----------------------------------------------------------------------------
TypeOK ==
  /\ v_in \in Inputs
  /\ enum \in Keys /\ dnum \in Keys
  /\ pc \in {"encode", "encoding", "hex", "sent", "unhex", "decoding", "done"}
  /\ p_data \in Seq(Byte)
  /\ i \in 0..Len(p_data)
  /\ ixor \in Int
  /\ s_data \in Seq({NoHex} \cup Nibble)
  /\ rb \in BOOLEAN
  /\ sent \in 0..(2 * Len(v_in))
  /\ used \in Seq(0..255)

(* Two keys that fit: encode() did not refuse, and decode() rotates the     *)
(* bytes all the way round (7 and 1, the defaults).                         *)
KeysFit ==
  /\ CMod(enum, 8) >= 0 /\ CMod(dnum, 8) >= 0
  /\ (enum + dnum) % 8 = 0

(* Half a byte arrived and a character after it, which string_to_hex()      *)
(* takes for the other half.                                                *)
HalfPaired == sent % 2 = 1 /\ Len(s_data) > sent

(* Decoding with a fitting key gives back every byte that arrived whole, at *)
(* its place: the ixor of the two loops runs in step.  Half a byte at the   *)
(* end is dropped and so is a character after a whole byte; half a byte     *)
(* with a character after it becomes one byte more, which encode() was not  *)
(* given, after all the others.                                             *)
DecodesPrefix ==
  LET whole == sent \div 2
  IN pc = "done" /\ KeysFit =>
       /\ rb
       /\ SubSeq(p_data, 1, whole) = SubSeq(v_in, 1, whole)
       /\ Len(p_data) = whole + (IF HalfPaired THEN 1 ELSE 0)
==============================================================================
