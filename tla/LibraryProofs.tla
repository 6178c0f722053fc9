---------------------------- MODULE LibraryProofs -----------------------------
(***************************************************************************)
(* The parts of the library that a program calls by themselves, each with  *)
(* its own variables: what crypto, the lock guards, localtime(), the URL   *)
(* class and the readers of a request line promise for every value of the  *)
(* constants, and what every reader of a connection does that implements   *)
(* MessageChannel.                                                         *)
(***************************************************************************)
EXTENDS Crypto, Clock, ScopedLock, MessageChannel, Url, Query, CodecProofs,
        FiniteSetTheorems, SequenceTheorems, WellFoundedInduction

-----------------------------------------------------------------------------
(***************************************************************************)
(* Crypto for every set of inputs and keys and every seed: decoding undoes *)
(* encoding byte by byte (RoundTripByte), and the two loops apply the same *)
(* ixor to the same byte, so that every whole byte that arrives comes back *)
(* at its place, whatever follows it (RoundTrip).                          *)
(***************************************************************************)
(* The two digits of a byte make up the byte.                               *)
High(b) == {j \in 0..3 : j + 4 \in b}
Low(b) == b \cap (0..3)

LEMMA DigitsMakeByte ==
  ASSUME NEW b \in Byte
  PROVE  /\ High(b) \in Nibble
         /\ Low(b) \in Nibble
         /\ Shl(High(b), 4) \cup Low(b) = b
<1>1. High(b) \in Nibble /\ Low(b) \in Nibble
  BY DEF High, Low, Nibble
<1>2. b \subseteq 0..7
  BY DEF Byte, Bits
<1>3. ASSUME NEW j \in 0..7
      PROVE  j \in Shl(High(b), 4) \cup Low(b) <=> j \in b
  <2>1. j \in Shl(High(b), 4) <=> j - 4 \in High(b)
    BY DEF Shl, Bits
  <2>2. j - 4 \in High(b) <=> j - 4 \in 0..3 /\ (j - 4) + 4 \in b
    BY DEF High
  <2>3. (j - 4) + 4 = j
    OBVIOUS
  <2>4. CASE j < 4
    BY <2>1, <2>2, <2>4 DEF Low
  <2>5. CASE ~ (j < 4)
    BY <2>1, <2>2, <2>3, <2>5 DEF Low
  <2> QED
    BY <2>4, <2>5
<1>4. Shl(High(b), 4) \subseteq 0..7 /\ Low(b) \subseteq 0..7
  BY DEF Shl, Bits, Low
<1> QED
  BY <1>1, <1>2, <1>3, <1>4

LEMMA NextXorType ==
  ASSUME NEW x \in Int
  PROVE  NextXor(x) \in 0..255
<1> DEFINE v == (x + 153) * (x - 78) + 3
           w == IF v < 0 THEN - v ELSE v
<1>1. v \in Int
  OBVIOUS
<1> HIDE DEF v
<1>2. w \in Nat
  BY <1>1
<1> HIDE DEF w
<1>3. w % 256 \in 0..255
  BY <1>2
<1> QED
  BY <1>3 DEF NextXor, v, w

LEMMA CModType ==
  ASSUME NEW a \in Int
  PROVE  /\ CMod(a, 8) \in Int
         /\ CMod(a, 8) >= 0 => CMod(a, 8) \in 0..7
         /\ CMod(a, 8) >= 0 => CMod(a, 8) = a % 8
<1>1. CASE a >= 0
  BY <1>1 DEF CMod
<1>2. CASE a < 0
  <2>1. CMod(a, 8) = - ((- a) % 8)
    BY <1>2 DEF CMod
  <2>2. (- a) % 8 \in 0..7
    BY <1>2
  <2> QED
    BY <1>2, <2>1, <2>2
<1> QED
  BY <1>1, <1>2

-----------------------------------------------------------------------------
(***************************************************************************)
(* The inductive invariant: at every stage, what the bytes and the string  *)
(* are in terms of v_in and of the ixor used for each byte.                *)
(***************************************************************************)
ENum == CMod(enum, 8)
DNum == CMod(dnum, 8)

(* The k-th byte encoded, and decoded again.                                *)
Enc(k) == EncodeByte(v_in[k], used[k], ENum)
Dec(k) == DecodeByte(Enc(k), used[k], DNum)

(* used is the run of ixor from the seed, and the local ixor is at place n. *)
At(n) == IF n = 0 THEN mi_xor ELSE used[n]
Chain == \A k \in 1..Len(used) : used[k] = NextXor(At(k - 1))

InEncode == pc = "encode" => used = <<>>

InEncoding ==
  pc = "encoding" =>
    /\ ENum >= 0
    /\ Len(p_data) = Len(v_in) /\ Len(used) = i /\ ixor = At(i)
    /\ \A k \in 1..Len(v_in) : p_data[k] = IF k <= i THEN Enc(k) ELSE v_in[k]

InHex ==
  pc = "hex" /\ ENum >= 0 =>
    /\ Len(p_data) = Len(v_in) /\ Len(used) = Len(v_in)
    /\ \A k \in 1..Len(v_in) : p_data[k] = Enc(k)

Digits(n) ==
  \A k \in 1..n : s_data[2 * k - 1] = High(Enc(k)) /\ s_data[2 * k] = Low(Enc(k))

InSent ==
  pc = "sent" /\ ENum >= 0 =>
    Len(used) = Len(v_in) /\ Len(s_data) = 2 * Len(v_in) /\ Digits(Len(v_in))

(* The bytes string_to_hex() makes of what arrived: the whole ones and, of  *)
(* half a byte and the character after it, one more; never more than v_in.  *)
Arrived ==
  /\ Len(s_data) \div 2 = (sent \div 2) + (IF HalfPaired THEN 1 ELSE 0)
  /\ Len(s_data) \div 2 <= Len(v_in)

InUnhex ==
  pc = "unhex" /\ ENum >= 0 =>
    Len(used) = Len(v_in) /\ Arrived /\ Digits(sent \div 2)

InDecoding ==
  pc = "decoding" /\ ENum >= 0 =>
    /\ DNum >= 0 /\ rb
    /\ Len(used) = Len(v_in) /\ Len(p_data) = Len(s_data) \div 2 /\ Arrived
    /\ ixor = At(i)
    /\ \A k \in 1..(sent \div 2) : p_data[k] = IF k <= i THEN Dec(k) ELSE Enc(k)

InDone ==
  pc = "done" /\ ENum >= 0 /\ DNum >= 0 =>
    /\ rb
    /\ Len(p_data) = Len(s_data) \div 2 /\ Arrived
    /\ \A k \in 1..(sent \div 2) : p_data[k] = Dec(k)

(* What is worked on is no longer than v_in; shorter only after a refusal.  *)
Sizes ==
  /\ pc = "encoding" => Len(p_data) = Len(v_in)
  /\ pc = "hex" => Len(p_data) <= Len(v_in)
  /\ pc = "sent" => Len(s_data) <= 2 * Len(v_in)

TInv == TypeOK /\ Sizes

IInv == /\ TInv /\ Chain
        /\ InEncode /\ InEncoding /\ InHex /\ InSent
        /\ InUnhex /\ InDecoding /\ InDone

LEMMA InputsType == Inputs \subseteq Seq(Byte)
  BY InputAssumption, Zenon DEF InputAssumption

LEMMA InputType ==
  ASSUME NEW x \in Inputs
  PROVE  x \in Seq(Byte) /\ Len(x) \in Nat
<1>1. x \in Seq(Byte)
  BY InputsType, Zenon
<1> QED
  BY <1>1

LEMMA EmptyVector ==
  ASSUME NEW S
  PROVE  <<>> \in Seq(S) /\ Len(<<>>) = 0
  OBVIOUS

LEMMA SeedType == mi_xor \in Int
  BY SeedAssumption DEF SeedAssumption

LEMMA HexType ==
  ASSUME NEW data \in Seq(Byte)
  PROVE  /\ HexOf(data) \in Seq(Nibble)
         /\ Len(HexOf(data)) = 2 * Len(data)
         /\ \A k \in 1..Len(data) : /\ HexOf(data)[2 * k - 1] = High(data[k])
                                    /\ HexOf(data)[2 * k] = Low(data[k])
<1> DEFINE n == 2 * Len(data)
<1>1. n \in Nat
  OBVIOUS
<1>2. HexOf(data) \in [1..n -> Nibble]
  <2>1. ASSUME NEW k \in 1..n
        PROVE  HexOf(data)[k] \in Nibble
    <3>1. HexOf(data)[k] = IF k % 2 = 1 THEN {j \in 0..3 : j + 4 \in data[(k + 1) \div 2]}
                                        ELSE data[k \div 2] \cap (0..3)
      BY DEF HexOf
    <3> QED
      BY <3>1 DEF Nibble
  <2> QED
    BY <2>1 DEF HexOf
<1>3. HexOf(data) \in Seq(Nibble) /\ Len(HexOf(data)) = n
  BY <1>1, <1>2
<1>4. ASSUME NEW k \in 1..Len(data)
      PROVE  HexOf(data)[2 * k - 1] = High(data[k]) /\ HexOf(data)[2 * k] = Low(data[k])
  <2>1. /\ 2 * k - 1 \in 1..n /\ 2 * k \in 1..n
        /\ (2 * k - 1) % 2 = 1 /\ (2 * k) % 2 = 0
        /\ ((2 * k - 1) + 1) \div 2 = k /\ (2 * k) \div 2 = k
    OBVIOUS
  <2> QED
    BY <2>1 DEF HexOf, High, Low
<1> QED
  BY <1>3, <1>4

LEMMA BytesType ==
  ASSUME NEW s \in Seq({NoHex} \cup Nibble)
  PROVE  /\ BytesOf(s) \in Seq(Byte)
         /\ Len(BytesOf(s)) = Len(s) \div 2
         /\ \A k \in 1..(Len(s) \div 2) :
              BytesOf(s)[k] = Shl(Digit(s[2 * k - 1]), 4) \cup Digit(s[2 * k])
<1> DEFINE n == Len(s) \div 2
<1>1. n \in Nat /\ \A k \in 1..n : 2 * k - 1 \in 1..Len(s) /\ 2 * k \in 1..Len(s)
  OBVIOUS
<1>2. ASSUME NEW k \in 1..n
      PROVE  Shl(Digit(s[2 * k - 1]), 4) \cup Digit(s[2 * k]) \in Byte
  <2>1. s[2 * k] \in {NoHex} \cup Nibble
    BY <1>1
  <2>2. Digit(s[2 * k]) \subseteq Bits
    BY <2>1 DEF Digit, Nibble, Bits
  <2> QED
    BY <2>2 DEF Shl, Byte
<1>3. BytesOf(s) \in [1..n -> Byte]
  BY <1>2 DEF BytesOf
<1>4. BytesOf(s) \in Seq(Byte) /\ Len(BytesOf(s)) = n
  BY <1>1, <1>3
<1> QED
  BY <1>4 DEF BytesOf

LEMMA TypeInit == Init => TInv
<1> SUFFICES ASSUME Init PROVE TInv
  OBVIOUS
<1>1. v_in \in Seq(Byte)
  BY InputType, Zenon DEF Init
<1> QED
  BY <1>1, SeedType DEF Init, TInv, TypeOK, Sizes

LEMMA TypeStep == TInv /\ [Next]_vars => TInv'
<1> SUFFICES ASSUME TInv, [Next]_vars
             PROVE  TInv'
  OBVIOUS
<1> USE DEF TInv, TypeOK, Sizes
<1>0. v_in \in Seq(Byte) /\ Len(v_in) \in Nat
  BY InputType, Zenon
<1>1. CASE Encode
  <2>1. p_data' = <<>> \/ p_data' = v_in
    BY <1>1 DEF Encode, Enter
  <2>2. p_data' \in Seq(Byte) /\ Len(p_data') \in Nat
    BY <1>0, <2>1, EmptyVector, Zenon
  <2>3. pc' = "hex" => p_data' = <<>>
    BY <1>1 DEF Encode, Enter
  <2>4. pc' \in {"hex", "encoding"} /\ (pc' = "encoding" => p_data' = v_in)
    BY <1>1 DEF Encode, Enter
  <2>5. i' = 0 /\ ixor' \in Int /\ rb' \in BOOLEAN
    BY <1>1, SeedType DEF Encode, Enter
  <2> QED
    BY <1>0, <1>1, <2>2, <2>3, <2>4, <2>5 DEF Encode, call
<1>2. CASE EncodeStep
  <2>1. ixor' \in 0..255
    BY <1>2, NextXorType DEF EncodeStep
  <2>2. i' \in 1..Len(p_data)
    BY <1>2 DEF EncodeStep
  <2>3. EncodeByte(p_data[i'], ixor', CMod(enum, 8)) \in Byte
    BY <2>2, ByteOps
  <2>4. p_data' \in Seq(Byte) /\ Len(p_data') = Len(p_data)
    BY <1>2, <2>2, <2>3 DEF EncodeStep
  <2> QED
    BY <1>0, <1>2, <2>1, <2>2, <2>4 DEF EncodeStep, call
<1>3. CASE EncodeEnd
  BY <1>0, <1>3 DEF EncodeEnd, call
<1>4. CASE HexToString
  <2>1. s_data' \in Seq(Nibble) /\ Len(s_data') = 2 * Len(p_data)
    BY <1>4, HexType DEF HexToString
  <2>2. s_data' \in Seq({NoHex} \cup Nibble)
    BY <2>1
  <2> QED
    BY <1>0, <1>4, <2>1, <2>2 DEF HexToString, call
<1>5. CASE Arrive
  <2>1. PICK m \in 0..Len(s_data) :
          /\ sent' = m
          /\ \/ s_data' = SubSeq(s_data, 1, m)
             \/ s_data' = Append(SubSeq(s_data, 1, m), NoHex)
    BY <1>5 DEF Arrive
  <2>2. SubSeq(s_data, 1, m) \in Seq({NoHex} \cup Nibble)
    OBVIOUS
  <2> DEFINE Chars == {NoHex} \cup Nibble
  <2>3. Append(SubSeq(s_data, 1, m), NoHex) \in Seq(Chars)
    <3>1. NoHex \in Chars
      OBVIOUS
    <3> HIDE DEF Chars
    <3> QED
      BY <2>2, <3>1 DEF Chars
  <2>4. s_data' \in Seq({NoHex} \cup Nibble)
    BY <2>1, <2>2, <2>3, Zenon
  <2> QED
    BY <1>0, <1>5, <2>1, <2>4 DEF Arrive, call
<1>6. CASE Decode
  <2>1. BytesOf(s_data) \in Seq(Byte)
    BY BytesType
  <2> QED
    <3>1. p_data' = <<>> \/ p_data' = BytesOf(s_data)
      BY <1>6 DEF Decode, Enter
    <3>2. p_data' \in Seq(Byte)
      BY <2>1, <3>1, EmptyVector, Zenon
    <3>3. pc' \in {"decoding", "done"} /\ i' = 0 /\ rb' \in BOOLEAN
      BY <1>6, Zenon DEF Decode, Enter
    <3>4. ixor' \in Int
      BY <1>6, SeedType DEF Decode, Enter
    <3> QED
      BY <1>0, <1>6, <3>2, <3>3, <3>4 DEF Decode, call
<1>7. CASE DecodeStep
  <2>1. ixor' \in 0..255
    BY <1>7, NextXorType DEF DecodeStep
  <2>2. i' \in 1..Len(p_data)
    BY <1>7 DEF DecodeStep
  <2>3. DecodeByte(p_data[i'], ixor', CMod(dnum, 8)) \in Byte
    BY <2>2, ByteOps
  <2>4. p_data' \in Seq(Byte) /\ Len(p_data') = Len(p_data)
    BY <1>7, <2>2, <2>3 DEF DecodeStep
  <2> QED
    BY <1>0, <1>7, <2>1, <2>2, <2>4 DEF DecodeStep, call
<1>8. CASE DecodeEnd
  BY <1>0, <1>8 DEF DecodeEnd, call
<1>9. CASE UNCHANGED vars
  BY <1>9 DEF vars
<1> QED
  BY <1>1, <1>2, <1>3, <1>4, <1>5, <1>6, <1>7, <1>8, <1>9 DEF Next

(* Crypto keeps its types, for every set of inputs and keys.                *)
THEOREM TypeCorrect == Spec => []TypeOK
<1>1. Spec => []TInv
  BY TypeInit, TypeStep, PTL DEF Spec
<1> QED
  BY <1>1, PTL DEF TInv

-----------------------------------------------------------------------------
LEMMA InitStages == Init => IInv
<1> SUFFICES ASSUME Init PROVE IInv
  OBVIOUS
<1>1. TInv
  BY TypeInit
<1>2. Chain
  BY DEF Init, Chain
<1> QED
  BY <1>1, <1>2 DEF Init, IInv, InEncode, InEncoding, InHex, InSent, InUnhex,
                    InDecoding, InDone

(* Only the stage that a step leads to has something to show.               *)
LEMMA StepStages == IInv /\ [Next]_vars => IInv'
<1> SUFFICES ASSUME IInv, [Next]_vars
             PROVE  IInv'
  OBVIOUS
<1>1. TInv /\ TInv'
  BY TypeStep DEF IInv
<1>2. TypeOK /\ TypeOK'
  BY <1>1 DEF TInv
<1>3. v_in \in Seq(Byte) /\ Len(v_in) \in Nat /\ enum \in Int /\ dnum \in Int
  BY <1>2, InputType, InputAssumption, Zenon DEF TypeOK, InputAssumption
<1>4. p_data \in Seq(Byte) /\ used \in Seq(0..255) /\ i \in 0..Len(p_data)
      /\ sent \in 0..(2 * Len(v_in)) /\ s_data \in Seq({NoHex} \cup Nibble)
  BY <1>2 DEF TypeOK
<1>a. CASE Encode
  <2>1. used = <<>> /\ used' = used /\ v_in' = v_in /\ enum' = enum /\ dnum' = dnum
    BY <1>a DEF Encode, IInv, InEncode, call
  <2>2. Chain'
    BY <2>1 DEF Chain
  <2>3. CASE pc' = "encoding"
    <3>1. p_data' = v_in /\ CMod(enum, 8) >= 0 /\ i' = 0 /\ ixor' = mi_xor
      BY <1>a, <2>3 DEF Encode, Enter
    <3>2. InEncoding'
      BY <1>3, <2>1, <3>1 DEF InEncoding, ENum, At, Enc
    <3> QED
      BY <1>1, <2>2, <2>3, <3>2 DEF IInv, InEncode, InEncoding, InHex, InSent, InUnhex,
                         InDecoding, InDone
  <2>4. CASE pc' = "hex"
    <3>1. CMod(enum, 8) < 0 \/ v_in = <<>>
      BY <1>a, <2>4 DEF Encode, Enter
    <3>2. p_data' = <<>>
      BY <1>a, <2>4 DEF Encode, Enter
    <3>3. InHex'
      <4>1. CASE v_in = <<>>
        BY <2>1, <3>2, <4>1 DEF InHex
      <4>2. CASE CMod(enum, 8) < 0
        <5>1. ~ (CMod(enum, 8) >= 0)
          BY <1>3, <4>2, CModType
        <5> QED
          BY <2>1, <5>1 DEF InHex, ENum
      <4> QED
        BY <3>1, <4>1, <4>2
    <3> QED
      BY <1>1, <2>2, <2>4, <3>3 DEF IInv, InEncode, InEncoding, InHex, InSent, InUnhex,
                         InDecoding, InDone
  <2> QED
    BY <1>a, <2>3, <2>4 DEF Encode, Enter
<1>b. CASE EncodeStep
  <2>1. /\ i' = i + 1 /\ i < Len(p_data) /\ ixor' = NextXor(ixor)
        /\ used' = Append(used, ixor')
        /\ p_data' = [p_data EXCEPT ![i + 1] = EncodeByte(p_data[i + 1], ixor', ENum)]
        /\ v_in' = v_in /\ ENum' = ENum /\ pc = "encoding" /\ pc' = "encoding"
    BY <1>b DEF EncodeStep, call, ENum
  <2>2. /\ ENum >= 0 /\ Len(p_data) = Len(v_in) /\ Len(used) = i /\ ixor = At(i)
        /\ \A k \in 1..Len(v_in) : p_data[k] = IF k <= i THEN Enc(k) ELSE v_in[k]
    BY <2>1 DEF IInv, InEncoding
  <2>3. /\ Len(used') = i + 1 /\ used'[i + 1] = ixor'
        /\ \A k \in 1..i : used'[k] = used[k]
    BY <1>2, <1>4, <2>1, <2>2 DEF TypeOK
  <2>4. At(i)' = ixor' /\ \A k \in 0..i : At(k)' = At(k)
    BY <1>4, <2>1, <2>3 DEF At
  <2>5. Chain'
    <3> SUFFICES ASSUME NEW k \in 1..(i + 1)
                 PROVE  used'[k] = NextXor(At(k - 1)')
      BY <2>3 DEF Chain
    <3>1. CASE k = i + 1
      BY <1>4, <2>1, <2>2, <2>3, <2>4, <3>1
    <3>2. CASE k \in 1..i
      <4>1. used[k] = NextXor(At(k - 1))
        BY <2>2, <3>2 DEF IInv, Chain
      <4>2. At(k - 1)' = At(k - 1)
        BY <1>4, <2>4, <3>2
      <4> QED
        BY <2>3, <3>2, <4>1, <4>2
    <3> QED
      BY <1>4, <3>1, <3>2
  <2>6. \A k \in 1..i : Enc(k)' = Enc(k)
    BY <2>1, <2>3 DEF Enc
  <2>7. Enc(i)' = EncodeByte(p_data[i + 1], ixor', ENum)
    <3>1. p_data[i + 1] = v_in[i + 1]
      BY <1>3, <1>4, <2>1, <2>2
    <3> QED
      BY <2>1, <2>3, <3>1 DEF Enc
  <2>8. InEncoding'
    <3>1. Len(p_data') = Len(v_in)
      BY <1>4, <2>1, <2>2
    <3>2. ASSUME NEW k \in 1..Len(v_in)
          PROVE  p_data'[k] = IF k <= i + 1 THEN Enc(k)' ELSE v_in[k]
      <4>1. CASE k = i + 1
        BY <1>4, <2>1, <2>2, <2>7, <4>1
      <4>2. CASE k # i + 1
        <5>1. p_data'[k] = p_data[k]
          BY <1>4, <2>1, <2>2, <4>2
        <5>2. CASE k \in 1..i
          BY <1>4, <2>2, <2>6, <5>1, <5>2
        <5>3. CASE k > i + 1
          BY <1>4, <2>2, <5>1, <5>3
        <5> QED
          BY <1>4, <4>2, <5>2, <5>3
      <4> QED
        BY <4>1, <4>2
    <3> QED
      BY <2>1, <2>2, <2>3, <2>4, <3>1, <3>2 DEF InEncoding
  <2> QED
    BY <1>1, <2>1, <2>5, <2>8 DEF IInv, InEncode, InEncoding, InHex, InSent, InUnhex,
                       InDecoding, InDone
<1>c. CASE EncodeEnd
  <2>1. /\ pc = "encoding" /\ pc' = "hex" /\ i = Len(p_data)
        /\ UNCHANGED <<v_in, enum, p_data, used>>
    BY <1>c DEF EncodeEnd, call
  <2>2. Chain' /\ \A k : Enc(k)' = Enc(k)
    BY <2>1 DEF Chain, At, IInv, Enc, ENum
  <2>3. InHex'
    BY <1>3, <1>4, <2>1, <2>2 DEF IInv, InEncoding, InHex, ENum
  <2> QED
    BY <1>1, <2>1, <2>2, <2>3 DEF IInv, InEncode, InEncoding, InHex, InSent, InUnhex,
                       InDecoding, InDone
<1>d. CASE HexToString
  <2>1. /\ pc = "hex" /\ pc' = "sent" /\ s_data' = HexOf(p_data)
        /\ UNCHANGED <<v_in, enum, p_data, used>>
    BY <1>d DEF HexToString, call
  <2>2. Chain' /\ ENum' = ENum /\ \A k : Enc(k)' = Enc(k)
    BY <2>1 DEF Chain, At, IInv, Enc, ENum
  <2>3. ASSUME ENum >= 0
        PROVE  Len(used) = Len(v_in) /\ Len(s_data') = 2 * Len(v_in) /\ Digits(Len(v_in))'
    <3>1. /\ Len(p_data) = Len(v_in) /\ Len(used) = Len(v_in)
          /\ \A k \in 1..Len(v_in) : p_data[k] = Enc(k)
      BY <2>1, <2>3 DEF IInv, InHex
    <3>2. /\ Len(s_data') = 2 * Len(v_in)
          /\ \A k \in 1..Len(v_in) : /\ s_data'[2 * k - 1] = High(p_data[k])
                                     /\ s_data'[2 * k] = Low(p_data[k])
      BY <1>4, <2>1, <3>1, HexType
    <3> QED
      BY <2>1, <2>2, <3>1, <3>2 DEF Digits
  <2>4. InSent'
    BY <2>1, <2>2, <2>3 DEF InSent
  <2> QED
    BY <1>1, <2>1, <2>2, <2>4 DEF IInv, InEncode, InEncoding, InHex, InSent, InUnhex,
                       InDecoding, InDone
<1>e. CASE Arrive
  <2>1. /\ pc = "sent" /\ pc' = "unhex"
        /\ UNCHANGED <<v_in, enum, used>>
    BY <1>e DEF Arrive, call
  <2>2. Chain' /\ ENum' = ENum /\ \A k : Enc(k)' = Enc(k)
    BY <2>1 DEF Chain, At, IInv, Enc, ENum
  <2>3. PICK m \in 0..Len(s_data) :
          /\ sent' = m
          /\ \/ s_data' = SubSeq(s_data, 1, m)
             \/ s_data' = Append(SubSeq(s_data, 1, m), NoHex)
    BY <1>e DEF Arrive
  <2>4. /\ Len(SubSeq(s_data, 1, m)) = m
        /\ \A k \in 1..m : SubSeq(s_data, 1, m)[k] = s_data[k]
    BY <1>4
  <2>5. /\ Len(s_data') \in {m, m + 1}
        /\ \A k \in 1..m : s_data'[k] = s_data[k]
    <3>1. CASE s_data' = SubSeq(s_data, 1, m)
      BY <2>4, <3>1
    <3>2. CASE s_data' = Append(SubSeq(s_data, 1, m), NoHex)
      <4>1. SubSeq(s_data, 1, m) \in Seq({NoHex} \cup Nibble)
        BY <1>4
      <4>2. /\ Len(s_data') = m + 1
            /\ \A k \in 1..m : s_data'[k] = SubSeq(s_data, 1, m)[k]
        BY <2>4, <3>2, <4>1
      <4> QED
        BY <2>4, <4>2
    <3> QED
      BY <2>3, <3>1, <3>2
  <2>6. ASSUME ENum >= 0
        PROVE  Len(used) = Len(v_in) /\ Digits(sent \div 2)'
    <3>1. Len(used) = Len(v_in) /\ Len(s_data) = 2 * Len(v_in) /\ Digits(Len(v_in))
      BY <2>1, <2>6 DEF IInv, InSent
    <3>2. ASSUME NEW k \in 1..(m \div 2)
          PROVE  s_data'[2 * k - 1] = High(Enc(k)) /\ s_data'[2 * k] = Low(Enc(k))
      <4>1. k \in 1..Len(v_in) /\ 2 * k - 1 \in 1..m /\ 2 * k \in 1..m
        BY <1>3, <3>1
      <4> QED
        BY <2>5, <3>1, <4>1 DEF Digits
    <3> QED
      BY <2>2, <2>3, <3>1, <3>2 DEF Digits
  <2>7. ASSUME ENum >= 0
        PROVE  Arrived'
    <3>1. m \in Nat /\ m <= 2 * Len(v_in)
      BY <1>4, <2>1, <2>3, <2>7 DEF IInv, InSent
    <3>2. HalfPaired' <=> m % 2 = 1 /\ Len(s_data') > m
      BY <2>3 DEF HalfPaired
    <3>3. /\ Len(s_data') \div 2 = (m \div 2) + (IF HalfPaired' THEN 1 ELSE 0)
          /\ Len(s_data') \div 2 <= Len(v_in)
      BY <1>3, <2>5, <3>1, <3>2
    <3> QED
      BY <2>1, <2>3, <3>3 DEF Arrived
  <2>8. InUnhex'
    BY <2>1, <2>2, <2>3, <2>6, <2>7 DEF InUnhex
  <2> QED
    BY <1>1, <2>1, <2>2, <2>8 DEF IInv, InEncode, InEncoding, InHex, InSent, InUnhex,
                       InDecoding, InDone
<1>f. CASE Decode
  <2>1. /\ pc = "unhex" /\ UNCHANGED <<v_in, enum, dnum, used, sent, s_data>>
        /\ pc' \in {"decoding", "done"}
    BY <1>f DEF Decode, Enter, call
  <2>2. Chain' /\ ENum' = ENum /\ DNum' = DNum /\ \A k : Enc(k)' = Enc(k)
    BY <2>1 DEF Chain, At, IInv, Enc, ENum, DNum
  <2> DEFINE n == sent \div 2
             data == BytesOf(s_data)
  <2>3. n \in Nat /\ n <= Len(v_in)
    BY <1>3, <1>4
  <2>4. ASSUME ENum >= 0
        PROVE  /\ Len(used) = Len(v_in) /\ Len(data) = Len(s_data) \div 2
               /\ Arrived /\ Arrived'
               /\ \A k \in 1..n : data[k] = Enc(k)
    <3>1. Len(used) = Len(v_in) /\ Arrived /\ Digits(n)
      BY <2>1, <2>4 DEF IInv, InUnhex
    <3>2. Len(data) = Len(s_data) \div 2 /\ n <= Len(s_data) \div 2
      BY <1>4, <2>3, <3>1, BytesType DEF Arrived
    <3>3. \A k \in 1..n : data[k] = Shl(Digit(s_data[2 * k - 1]), 4)
                                    \cup Digit(s_data[2 * k])
      <4>1. \A k \in 1..(Len(s_data) \div 2) :
              data[k] = Shl(Digit(s_data[2 * k - 1]), 4) \cup Digit(s_data[2 * k])
        BY <1>4, BytesType, Zenon
      <4>2. \A k \in 1..n : k \in 1..(Len(s_data) \div 2)
        BY <1>4, <2>3, <3>2
      <4> QED
        BY <4>1, <4>2, Zenon
    <3>4. Arrived'
      BY <2>1, <3>1 DEF Arrived, HalfPaired
    <3>5. ASSUME NEW k \in 1..n
          PROVE  data[k] = Enc(k)
      <4>1. Enc(k) \in Byte
        <5>1. v_in[k] \in Byte
          BY <1>3, <2>3
        <5> QED
          BY <5>1, ByteOps DEF Enc
      <4>2. /\ High(Enc(k)) \in Nibble /\ Low(Enc(k)) \in Nibble
            /\ Shl(High(Enc(k)), 4) \cup Low(Enc(k)) = Enc(k)
        BY <4>1, DigitsMakeByte
      <4>3. /\ Digit(High(Enc(k))) = High(Enc(k))
            /\ Digit(Low(Enc(k))) = Low(Enc(k))
        BY <4>2, HexAssumption DEF Digit, HexAssumption, Nibble
      <4>4. s_data[2 * k - 1] = High(Enc(k)) /\ s_data[2 * k] = Low(Enc(k))
        BY <3>1 DEF Digits
      <4> QED
        BY <3>3, <4>2, <4>3, <4>4
    <3> QED
      BY <3>1, <3>2, <3>4, <3>5
  <2>5. CASE pc' = "decoding"
    <3>1. p_data' = data /\ CMod(dnum, 8) >= 0 /\ rb' /\ i' = 0 /\ ixor' = mi_xor
      BY <1>f, <2>5 DEF Decode, Enter
    <3>2. InDecoding'
      BY <2>1, <2>2, <2>3, <2>4, <3>1 DEF InDecoding, DNum, At
    <3> QED
      BY <1>1, <2>1, <2>2, <2>5, <3>2 DEF IInv, InEncode, InEncoding, InHex, InSent,
                         InUnhex, InDecoding, InDone
  <2>6. CASE pc' = "done"
    <3>1. p_data' = <<>>
      BY <1>f, <2>6 DEF Decode, Enter
    <3>2. ASSUME ENum >= 0, DNum >= 0
          PROVE  rb' /\ n = 0 /\ Len(s_data) \div 2 = 0
      <4>1. ~ (CMod(dnum, 8) < 0)
        BY <1>3, <3>2, CModType DEF DNum
      <4>2. data = <<>> /\ rb'
        BY <1>f, <2>6, <4>1 DEF Decode, Enter
      <4>3. Len(s_data) \div 2 = 0 /\ Arrived
        BY <2>4, <3>2, <4>2
      <4> QED
        BY <2>3, <4>2, <4>3 DEF Arrived
    <3>3. InDone'
      BY <2>1, <2>2, <2>3, <2>4, <3>1, <3>2 DEF InDone
    <3> QED
      BY <1>1, <2>1, <2>2, <2>6, <3>3 DEF IInv, InEncode, InEncoding, InHex, InSent,
                         InUnhex, InDecoding, InDone
  <2> QED
    BY <2>1, <2>5, <2>6
<1>g. CASE DecodeStep
  <2>1. /\ i' = i + 1 /\ i < Len(p_data) /\ ixor' = NextXor(ixor)
        /\ p_data' = [p_data EXCEPT ![i + 1] = DecodeByte(p_data[i + 1], ixor', DNum)]
        /\ UNCHANGED <<v_in, enum, dnum, used, sent, s_data, rb>>
        /\ pc = "decoding" /\ pc' = "decoding"
    BY <1>g DEF DecodeStep, call, DNum
  <2>2. Chain' /\ ENum' = ENum /\ DNum' = DNum
        /\ (\A k : Enc(k)' = Enc(k)) /\ (\A k : Dec(k)' = Dec(k))
    BY <2>1 DEF Chain, At, IInv, Enc, Dec, ENum, DNum
  <2> DEFINE n == sent \div 2
  <2>3. n \in Nat /\ n <= Len(v_in)
    BY <1>3, <1>4
  <2>4. ASSUME ENum >= 0
        PROVE  /\ DNum >= 0 /\ rb /\ Len(used) = Len(v_in)
               /\ Len(p_data') = Len(s_data) \div 2 /\ Arrived /\ Arrived'
               /\ ixor' = At(i)'
               /\ \A k \in 1..n : p_data'[k] = IF k <= i + 1 THEN Dec(k) ELSE Enc(k)
    <3>1. /\ DNum >= 0 /\ rb /\ Len(used) = Len(v_in)
          /\ Len(p_data) = Len(s_data) \div 2 /\ Arrived /\ ixor = At(i)
          /\ \A k \in 1..n : p_data[k] = IF k <= i THEN Dec(k) ELSE Enc(k)
      BY <2>1, <2>4 DEF IInv, InDecoding
    <3>2. i + 1 \in 1..Len(p_data) /\ i + 1 \in 1..Len(used) /\ n <= Len(p_data)
      BY <1>3, <1>4, <2>1, <2>3, <3>1 DEF Arrived
    <3>3. ixor' = used[i + 1]
      <4>1. used[i + 1] = NextXor(At((i + 1) - 1))
        BY <3>2 DEF IInv, Chain
      <4>2. (i + 1) - 1 = i
        BY <1>4
      <4> QED
        BY <2>1, <3>1, <4>1, <4>2
    <3>4. ixor' = At(i)'
      BY <1>4, <2>1, <3>3 DEF At
    <3>5. Len(p_data') = Len(s_data) \div 2 /\ Arrived'
      BY <1>4, <2>1, <3>1 DEF Arrived, HalfPaired
    <3>6. ASSUME NEW k \in 1..n
          PROVE  p_data'[k] = IF k <= i + 1 THEN Dec(k) ELSE Enc(k)
      <4>1. CASE k = i + 1
        <5>1. p_data[k] = Enc(k)
          BY <1>4, <3>1, <3>2, <4>1
        <5>2. p_data'[k] = DecodeByte(p_data[k], ixor', DNum)
          BY <1>4, <2>1, <3>1, <3>2, <4>1
        <5>3. p_data'[k] = Dec(k)
          BY <3>3, <4>1, <5>1, <5>2 DEF Dec
        <5> QED
          BY <1>4, <4>1, <5>3
      <4>2. CASE k # i + 1
        <5>1. p_data'[k] = p_data[k]
          BY <1>4, <2>1, <2>3, <3>2, <4>2
        <5> QED
          BY <1>4, <3>1, <4>2, <5>1
      <4> QED
        BY <4>1, <4>2
    <3> QED
      BY <3>1, <3>4, <3>5, <3>6
  <2>5. InDecoding'
    <3> SUFFICES ASSUME ENum >= 0
                 PROVE  InDecoding'
      BY <2>2 DEF InDecoding
    <3>1. \A k \in 1..n : p_data'[k] = IF k <= i' THEN Dec(k)' ELSE Enc(k)'
      BY <2>1, <2>2, <2>4
    <3>2. /\ DNum' >= 0 /\ rb' /\ Len(used') = Len(v_in')
          /\ Len(p_data') = Len(s_data') \div 2 /\ Arrived'
          /\ ixor' = At(i)' /\ sent' = sent
      BY <2>1, <2>2, <2>4
    <3> QED
      BY <3>1, <3>2 DEF InDecoding
  <2> QED
    BY <1>1, <2>1, <2>2, <2>5 DEF IInv, InEncode, InEncoding, InHex, InSent, InUnhex,
                       InDecoding, InDone
<1>h. CASE DecodeEnd
  <2>1. /\ pc = "decoding" /\ pc' = "done" /\ i = Len(p_data)
        /\ UNCHANGED <<v_in, enum, dnum, used, sent, s_data, rb, p_data>>
    BY <1>h DEF DecodeEnd, call
  <2>2. Chain' /\ ENum' = ENum /\ DNum' = DNum
        /\ (\A k : Enc(k)' = Enc(k)) /\ (\A k : Dec(k)' = Dec(k))
    BY <2>1 DEF Chain, At, IInv, Enc, Dec, ENum, DNum
  <2>3. ASSUME ENum >= 0
        PROVE  /\ rb /\ Len(p_data) = Len(s_data) \div 2 /\ Arrived'
               /\ \A k \in 1..(sent \div 2) : p_data[k] = Dec(k)
    <3> DEFINE n == sent \div 2
    <3>1. /\ rb /\ Len(p_data) = Len(s_data) \div 2 /\ Arrived
          /\ \A k \in 1..n : p_data[k] = IF k <= i THEN Dec(k) ELSE Enc(k)
      BY <2>1, <2>3 DEF IInv, InDecoding
    <3>2. n \in Nat /\ n <= i
      BY <1>3, <1>4, <2>1, <3>1 DEF Arrived
    <3>3. Arrived'
      BY <2>1, <3>1 DEF Arrived, HalfPaired
    <3> QED
      BY <1>4, <3>1, <3>2, <3>3
  <2>4. InDone'
    BY <2>1, <2>2, <2>3 DEF InDone
  <2> QED
    BY <1>1, <2>1, <2>2, <2>4 DEF IInv, InEncode, InEncoding, InHex, InSent, InUnhex,
                       InDecoding, InDone
<1>i. CASE UNCHANGED vars
  BY <1>1, <1>i DEF vars, IInv, Chain, At, InEncode, InEncoding, InHex, InSent, InUnhex,
                    InDecoding, InDone, Digits, Arrived, HalfPaired, Enc, Dec, ENum, DNum
<1> QED
  BY <1>a, <1>b, <1>c, <1>d, <1>e, <1>f, <1>g, <1>h, <1>i DEF Next

(* With fitting keys, decode_from_string() gives back every byte that       *)
(* arrived whole, at its place, and one byte more exactly when half a byte  *)
(* was followed by another character: for every vector, cut and seed.       *)
THEOREM RoundTrip == Spec => []DecodesPrefix
<1>1. Spec => []IInv
  BY InitStages, StepStages, PTL DEF Spec
<1>2. IInv => DecodesPrefix
  <2> DEFINE n == sent \div 2
  <2> SUFFICES ASSUME IInv, pc = "done", KeysFit
               PROVE  /\ rb
                      /\ SubSeq(p_data, 1, n) = SubSeq(v_in, 1, n)
                      /\ Len(p_data) = n + (IF HalfPaired THEN 1 ELSE 0)
    BY DEF DecodesPrefix
  <2>1. TypeOK
    BY DEF IInv, TInv
  <2>2. /\ v_in \in Seq(Byte) /\ Len(v_in) \in Nat /\ enum \in Int /\ dnum \in Int
        /\ p_data \in Seq(Byte) /\ sent \in 0..(2 * Len(v_in))
    BY <2>1, InputType, InputAssumption, Zenon DEF TypeOK, InputAssumption
  <2>3. n \in Nat /\ n <= Len(v_in)
    BY <2>2
  <2>4. /\ ENum \in 0..7 /\ DNum \in 0..7 /\ (ENum + DNum) % 8 = 0
    <3>1. ENum \in 0..7 /\ DNum \in 0..7 /\ ENum = enum % 8 /\ DNum = dnum % 8
      BY <2>2, CModType DEF KeysFit, ENum, DNum
    <3>2. ((enum % 8) + (dnum % 8)) % 8 = (enum + dnum) % 8
      BY <2>2
    <3>3. (enum + dnum) % 8 = 0
      BY DEF KeysFit
    <3>4. (ENum + DNum) % 8 = ((enum % 8) + (dnum % 8)) % 8
      BY <3>1
    <3> HIDE DEF ENum, DNum
    <3> QED
      BY <3>1, <3>2, <3>3, <3>4
  <2>5. /\ rb /\ Len(p_data) = n + (IF HalfPaired THEN 1 ELSE 0)
        /\ \A k \in 1..n : p_data[k] = Dec(k)
    BY <2>4 DEF IInv, InDone, Arrived
  <2>6. ASSUME NEW k \in 1..n
        PROVE  p_data[k] = v_in[k]
    <3>1. v_in[k] \in Byte
      BY <2>2, <2>3
    <3>2. Dec(k) = v_in[k]
      BY <2>4, <3>1, RoundTripByte DEF Dec, Enc
    <3> QED
      BY <2>5, <3>2
  <2>7. n <= Len(p_data)
    BY <2>2, <2>3, <2>5
  <2>8. SubSeq(p_data, 1, n) = SubSeq(v_in, 1, n)
    BY <2>2, <2>3, <2>6, <2>7
  <2> QED
    BY <2>5, <2>8
<1> QED
  BY <1>1, <1>2, PTL

-----------------------------------------------------------------------------
(***************************************************************************)
(* The guards of lock.h exclude each other, for any number of threads, any  *)
(* depth of nesting and any limit of read locks.  The invariant says that   *)
(* the locks are held by exactly the guards that got them; the destructor   *)
(* keeps it because it unlocks for no other.                                *)
(***************************************************************************)
Depths == 1..MaxDepth

(* The guards in scope are the first ones.                                  *)
Stacked == \A t \in Owners, d \in Depths : d <= depth[t] <=> guard[t][d] # "none"

(* A thread has one guard at most with the write lock, and with the mutex.  *)
Once ==
  \A t \in Owners : \A d, e \in Depths :
    guard[t][d] = guard[t][e] /\ guard[t][d] \in {"write", "mutex"} => d = e

ReadersExact ==
  \A t \in Owners, d \in Depths : <<t, d>> \in readers <=> guard[t][d] = "read"

WriterExact == \A t \in Owners : Has(t, "write") <=> writer = t

LockerExact == \A t \in Owners : Has(t, "mutex") <=> locker = t

LockInv ==
  /\ LockTypeOK
  /\ Stacked
  /\ Once
  /\ ReadersExact
  /\ WriterExact
  /\ LockerExact
  /\ readers # {} => writer = NoOwner

-----------------------------------------------------------------------------
(* Nobody has a guard at the beginning.                                     *)
LEMMA LockInitInv == LockInit => LockInv
<1> SUFFICES ASSUME LockInit PROVE LockInv
  OBVIOUS
<1> USE ScopedLockAssumption DEF LockInit, Depths
<1>1. LockTypeOK
  BY DEF LockTypeOK
<1>2. \A t \in Owners, d \in Depths : guard[t][d] = "none"
  OBVIOUS
<1>3. Stacked /\ Once /\ ReadersExact
  BY <1>2 DEF Stacked, Once, ReadersExact
<1>4. WriterExact /\ LockerExact
  BY <1>2 DEF WriterExact, LockerExact, Has
<1> QED
  BY <1>1, <1>3, <1>4 DEF LockInv

(* A constructor adds the one guard above those in scope.                   *)
LEMMA EntersTop ==
  ASSUME LockInv, NEW t \in Owners,
         NEW got \in {"read", "write", "mutex", "refused"}, Enters(t, got)
  PROVE  /\ depth[t] + 1 \in Depths
         /\ guard[t][depth[t] + 1] = "none"
         /\ depth' \in [Owners -> 0..MaxDepth]
         /\ guard' \in [Owners -> [1..MaxDepth -> {"none", "read", "write", "mutex", "refused"}]]
         /\ Stacked'
         /\ guard'[t][depth[t] + 1] = got
         /\ \A u \in Owners, d \in Depths :
              u # t \/ d # depth[t] + 1 => guard'[u][d] = guard[u][d]
<1> USE ScopedLockAssumption DEF LockInv, LockTypeOK, Depths
<1>1. depth[t] \in 0..MaxDepth /\ depth[t] < MaxDepth
  BY DEF Enters
<1>2. depth[t] + 1 \in Depths
  BY <1>1
<1>3. guard[t][depth[t] + 1] = "none"
  BY <1>1, <1>2 DEF Stacked
<1>4. depth' \in [Owners -> 0..MaxDepth] /\ depth' = [depth EXCEPT ![t] = depth[t] + 1]
  BY <1>1, <1>2 DEF Enters
<1>5. guard' \in [Owners -> [1..MaxDepth -> {"none", "read", "write", "mutex", "refused"}]]
  BY <1>2 DEF Enters
<1>6. /\ guard'[t][depth[t] + 1] = got
      /\ \A u \in Owners, d \in Depths :
           u # t \/ d # depth[t] + 1 => guard'[u][d] = guard[u][d]
  BY <1>2 DEF Enters
<1>7. Stacked'
  <2> SUFFICES ASSUME NEW u \in Owners, NEW d \in Depths
               PROVE  d <= depth'[u] <=> guard'[u][d] # "none"
    BY DEF Stacked
  <2>1. d <= depth[u] <=> guard[u][d] # "none"
    BY DEF Stacked
  <2>2. CASE u # t
    BY <1>4, <1>6, <2>1, <2>2
  <2>3. CASE u = t
    <3>1. depth'[u] = depth[t] + 1
      BY <1>4, <2>3
    <3> QED
      BY <1>1, <1>6, <2>1, <2>3, <3>1
  <2> QED
    BY <2>2, <2>3
<1> QED
  BY <1>2, <1>3, <1>4, <1>5, <1>6, <1>7

(* A destructor takes the topmost guard away.                               *)
LEMMA LeavesTop ==
  ASSUME LockInv, NEW t \in Owners, Leaves(t)
  PROVE  /\ depth[t] \in Depths
         /\ Top(t) \in {"read", "write", "mutex", "refused"}
         /\ depth' \in [Owners -> 0..MaxDepth]
         /\ guard' \in [Owners -> [1..MaxDepth -> {"none", "read", "write", "mutex", "refused"}]]
         /\ Stacked'
         /\ guard'[t][depth[t]] = "none"
         /\ \A u \in Owners, d \in Depths :
              u # t \/ d # depth[t] => guard'[u][d] = guard[u][d]
<1> USE ScopedLockAssumption DEF LockInv, LockTypeOK, Depths
<1>1. depth[t] \in 0..MaxDepth /\ depth[t] > 0
  BY DEF Leaves
<1>2. depth[t] \in Depths
  BY <1>1
<1>3. Top(t) # "none" /\ Top(t) \in {"none", "read", "write", "mutex", "refused"}
  BY <1>1, <1>2 DEF Stacked, Top
<1>4. depth' \in [Owners -> 0..MaxDepth] /\ depth' = [depth EXCEPT ![t] = depth[t] - 1]
  BY <1>1, <1>2 DEF Leaves
<1>5. guard' \in [Owners -> [1..MaxDepth -> {"none", "read", "write", "mutex", "refused"}]]
  BY <1>2 DEF Leaves
<1>6. /\ guard'[t][depth[t]] = "none"
      /\ \A u \in Owners, d \in Depths :
           u # t \/ d # depth[t] => guard'[u][d] = guard[u][d]
  BY <1>2 DEF Leaves
<1>7. Stacked'
  <2> SUFFICES ASSUME NEW u \in Owners, NEW d \in Depths
               PROVE  d <= depth'[u] <=> guard'[u][d] # "none"
    BY DEF Stacked
  <2>1. d <= depth[u] <=> guard[u][d] # "none"
    BY DEF Stacked
  <2>2. CASE u # t
    BY <1>4, <1>6, <2>1, <2>2
  <2>3. CASE u = t
    <3>1. depth'[u] = depth[t] - 1
      BY <1>4, <2>3
    <3> QED
      BY <1>1, <1>6, <2>1, <2>3, <3>1
  <2> QED
    BY <2>2, <2>3
<1> QED
  BY <1>2, <1>3, <1>4, <1>5, <1>6, <1>7

(* A guard that is and was no guard of a kind does not matter for who has a *)
(* guard of that kind.                                                      *)
LEMMA OtherKinds ==
  ASSUME NEW t \in Owners, NEW top \in Depths, NEW kind,
         guard[t][top] # kind, guard'[t][top] # kind,
         \A u \in Owners, d \in Depths :
           u # t \/ d # top => guard'[u][d] = guard[u][d]
  PROVE  /\ \A u \in Owners, d \in Depths : guard'[u][d] = kind <=> guard[u][d] = kind
         /\ \A u \in Owners : Has(u, kind)' <=> Has(u, kind)
<1>1. ASSUME NEW u \in Owners, NEW d \in Depths
      PROVE  guard'[u][d] = kind <=> guard[u][d] = kind
  <2>1. CASE u # t \/ d # top
    <3>1. guard'[u][d] = guard[u][d]
      BY <2>1
    <3> QED
      BY <3>1
  <2>2. CASE u = t /\ d = top
    BY <2>2
  <2> QED
    BY <2>1, <2>2
<1> QED
  BY <1>1 DEF Has, Depths

-----------------------------------------------------------------------------
(* The constructors keep the invariant.                                     *)
LEMMA ReadGuardInv ==
  ASSUME LockInv, NEW t \in Owners, ReadGuard(t)
  PROVE  LockInv'
<1> USE ScopedLockAssumption DEF Depths
<1>1. Enters(t, "read")
  BY DEF ReadGuard
<1> DEFINE top == depth[t] + 1
<1>2. /\ top \in Depths /\ guard[t][top] = "none"
      /\ depth' \in [Owners -> 0..MaxDepth]
      /\ guard' \in [Owners -> [1..MaxDepth -> {"none", "read", "write", "mutex", "refused"}]]
      /\ Stacked'
      /\ guard'[t][top] = "read"
      /\ \A u \in Owners, d \in Depths :
           u # t \/ d # top => guard'[u][d] = guard[u][d]
  BY <1>1, EntersTop
<1> HIDE DEF top
<1>write. /\ \A u \in Owners, d \in Depths : guard'[u][d] = "write" <=> guard[u][d] = "write"
      /\ \A u \in Owners : Has(u, "write")' <=> Has(u, "write")
  BY <1>2, OtherKinds
<1>mutex. /\ \A u \in Owners, d \in Depths : guard'[u][d] = "mutex" <=> guard[u][d] = "mutex"
      /\ \A u \in Owners : Has(u, "mutex")' <=> Has(u, "mutex")
  BY <1>2, OtherKinds
<1>3. LockTypeOK'
  BY <1>2 DEF LockInv, LockTypeOK, ReadGuard, top
<1>4. Once'
  BY <1>2 DEF LockInv, Once
<1>5. ReadersExact'
  <2>1. readers' = readers \cup {<<t, top>>}
    BY DEF ReadGuard, top
  <2> SUFFICES ASSUME NEW u \in Owners, NEW d \in Depths
               PROVE  <<u, d>> \in readers' <=> guard'[u][d] = "read"
    BY DEF ReadersExact
  <2>2. CASE u = t /\ d = top
    BY <1>2, <2>1, <2>2
  <2>3. CASE u # t \/ d # top
    <3>1. <<u, d>> \in readers' <=> <<u, d>> \in readers
      BY <2>1, <2>3
    <3>2. guard'[u][d] = guard[u][d]
      BY <1>2, <2>3
    <3> QED
      BY <3>1, <3>2 DEF LockInv, ReadersExact
  <2> QED
    BY <2>2, <2>3
<1>6. WriterExact' /\ LockerExact'
  BY <1>write, <1>mutex DEF LockInv, WriterExact, LockerExact, ReadGuard
<1>7. (readers # {} => writer = NoOwner)'
  BY DEF ReadGuard
<1> QED
  BY <1>2, <1>3, <1>4, <1>5, <1>6, <1>7 DEF LockInv

(* A write guard is got only when nobody has the lock.                      *)
LEMMA WriteGuardInv ==
  ASSUME LockInv, NEW t \in Owners, WriteGuard(t)
  PROVE  LockInv'
<1> USE ScopedLockAssumption DEF Depths
<1>1. Enters(t, "write")
  BY DEF WriteGuard
<1> DEFINE top == depth[t] + 1
<1>2. /\ top \in Depths /\ guard[t][top] = "none"
      /\ depth' \in [Owners -> 0..MaxDepth]
      /\ guard' \in [Owners -> [1..MaxDepth -> {"none", "read", "write", "mutex", "refused"}]]
      /\ Stacked'
      /\ guard'[t][top] = "write"
      /\ \A u \in Owners, d \in Depths :
           u # t \/ d # top => guard'[u][d] = guard[u][d]
  BY <1>1, EntersTop
<1> HIDE DEF top
<1>read. /\ \A u \in Owners, d \in Depths : guard'[u][d] = "read" <=> guard[u][d] = "read"
      /\ \A u \in Owners : Has(u, "read")' <=> Has(u, "read")
  BY <1>2, OtherKinds
<1>mutex. /\ \A u \in Owners, d \in Depths : guard'[u][d] = "mutex" <=> guard[u][d] = "mutex"
      /\ \A u \in Owners : Has(u, "mutex")' <=> Has(u, "mutex")
  BY <1>2, OtherKinds
<1>3. LockTypeOK'
  BY <1>2 DEF LockInv, LockTypeOK, WriteGuard
<1>4. \A u \in Owners, d \in Depths : guard[u][d] # "write"
  BY DEF LockInv, LockTypeOK, WriterExact, Has, WriteGuard
<1>5. Once'
  <2> SUFFICES ASSUME NEW u \in Owners, NEW d \in Depths, NEW e \in Depths,
                      guard'[u][d] = guard'[u][e],
                      guard'[u][d] \in {"write", "mutex"}
               PROVE  d = e
    BY DEF Once
  <2>1. CASE u = t /\ d = top /\ e # top
    BY <1>2, <1>4, <2>1
  <2>2. CASE u = t /\ e = top /\ d # top
    BY <1>2, <1>4, <2>2
  <2>3. CASE u # t \/ (d # top /\ e # top)
    <3>1. guard'[u][d] = guard[u][d] /\ guard'[u][e] = guard[u][e]
      BY <1>2, <2>3
    <3> QED
      BY <3>1 DEF LockInv, Once
  <2> QED
    BY <2>1, <2>2, <2>3
<1>6. ReadersExact'
  BY <1>read DEF LockInv, ReadersExact, WriteGuard
<1>7. WriterExact'
  BY <1>2, <1>4 DEF WriterExact, Has, WriteGuard
<1>8. LockerExact'
  BY <1>mutex DEF LockInv, LockerExact, WriteGuard
<1>9. (readers # {} => writer = NoOwner)'
  BY DEF WriteGuard
<1> QED
  BY <1>2, <1>3, <1>5, <1>6, <1>7, <1>8, <1>9 DEF LockInv

(* A refused guard takes nothing.                                           *)
LEMMA RefusedInv ==
  ASSUME LockInv, NEW t \in Owners, Refused(t)
  PROVE  LockInv'
<1> USE ScopedLockAssumption DEF Depths
<1>1. Enters(t, "refused")
  BY DEF Refused
<1> DEFINE top == depth[t] + 1
<1>2. /\ top \in Depths /\ guard[t][top] = "none"
      /\ depth' \in [Owners -> 0..MaxDepth]
      /\ guard' \in [Owners -> [1..MaxDepth -> {"none", "read", "write", "mutex", "refused"}]]
      /\ Stacked'
      /\ guard'[t][top] = "refused"
      /\ \A u \in Owners, d \in Depths :
           u # t \/ d # top => guard'[u][d] = guard[u][d]
  BY <1>1, EntersTop
<1> HIDE DEF top
<1>read. /\ \A u \in Owners, d \in Depths : guard'[u][d] = "read" <=> guard[u][d] = "read"
      /\ \A u \in Owners : Has(u, "read")' <=> Has(u, "read")
  BY <1>2, OtherKinds
<1>write. /\ \A u \in Owners, d \in Depths : guard'[u][d] = "write" <=> guard[u][d] = "write"
      /\ \A u \in Owners : Has(u, "write")' <=> Has(u, "write")
  BY <1>2, OtherKinds
<1>mutex. /\ \A u \in Owners, d \in Depths : guard'[u][d] = "mutex" <=> guard[u][d] = "mutex"
      /\ \A u \in Owners : Has(u, "mutex")' <=> Has(u, "mutex")
  BY <1>2, OtherKinds
<1>3. LockTypeOK'
  BY <1>2 DEF LockInv, LockTypeOK, Refused
<1>4. Once'
  BY <1>2 DEF LockInv, Once
<1>5. ReadersExact'
  BY <1>read DEF LockInv, ReadersExact, Refused
<1>6. WriterExact' /\ LockerExact'
  BY <1>write, <1>mutex DEF LockInv, WriterExact, LockerExact, Refused
<1>7. (readers # {} => writer = NoOwner)'
  BY DEF LockInv, Refused
<1> QED
  BY <1>2, <1>3, <1>4, <1>5, <1>6, <1>7 DEF LockInv

(* A mutex guard leaves the read-write lock alone.                          *)
LEMMA MutexGuardInv ==
  ASSUME LockInv, NEW t \in Owners, MutexGuard(t)
  PROVE  LockInv'
<1> USE ScopedLockAssumption DEF Depths
<1>1. Enters(t, "mutex")
  BY DEF MutexGuard
<1> DEFINE top == depth[t] + 1
<1>2. /\ top \in Depths /\ guard[t][top] = "none"
      /\ depth' \in [Owners -> 0..MaxDepth]
      /\ guard' \in [Owners -> [1..MaxDepth -> {"none", "read", "write", "mutex", "refused"}]]
      /\ Stacked'
      /\ guard'[t][top] = "mutex"
      /\ \A u \in Owners, d \in Depths :
           u # t \/ d # top => guard'[u][d] = guard[u][d]
  BY <1>1, EntersTop
<1> HIDE DEF top
<1>read. /\ \A u \in Owners, d \in Depths : guard'[u][d] = "read" <=> guard[u][d] = "read"
      /\ \A u \in Owners : Has(u, "read")' <=> Has(u, "read")
  BY <1>2, OtherKinds
<1>write. /\ \A u \in Owners, d \in Depths : guard'[u][d] = "write" <=> guard[u][d] = "write"
      /\ \A u \in Owners : Has(u, "write")' <=> Has(u, "write")
  BY <1>2, OtherKinds
<1>3. LockTypeOK'
  BY <1>2 DEF LockInv, LockTypeOK, MutexGuard
<1>4. \A u \in Owners, d \in Depths : guard[u][d] # "mutex"
  BY DEF LockInv, LockTypeOK, LockerExact, Has, MutexGuard
<1>5. Once'
  <2> SUFFICES ASSUME NEW u \in Owners, NEW d \in Depths, NEW e \in Depths,
                      guard'[u][d] = guard'[u][e],
                      guard'[u][d] \in {"write", "mutex"}
               PROVE  d = e
    BY DEF Once
  <2>1. CASE u = t /\ d = top /\ e # top
    BY <1>2, <1>4, <2>1
  <2>2. CASE u = t /\ e = top /\ d # top
    BY <1>2, <1>4, <2>2
  <2>3. CASE u # t \/ (d # top /\ e # top)
    <3>1. guard'[u][d] = guard[u][d] /\ guard'[u][e] = guard[u][e]
      BY <1>2, <2>3
    <3> QED
      BY <3>1 DEF LockInv, Once
  <2> QED
    BY <2>1, <2>2, <2>3
<1>6. ReadersExact'
  BY <1>read DEF LockInv, ReadersExact, MutexGuard
<1>7. LockerExact'
  BY <1>2, <1>4 DEF LockerExact, Has, MutexGuard
<1>8. WriterExact'
  BY <1>write DEF LockInv, WriterExact, MutexGuard
<1>9. (readers # {} => writer = NoOwner)'
  BY DEF LockInv, MutexGuard
<1> QED
  BY <1>2, <1>3, <1>5, <1>6, <1>7, <1>8, <1>9 DEF LockInv

(* The destructor keeps the invariant: it gives back what its guard got, or *)
(* nothing.                                                                 *)
LEMMA DestroyInv ==
  ASSUME LockInv, NEW t \in Owners, Destroy(t)
  PROVE  LockInv'
<1> USE ScopedLockAssumption DEF Depths
<1> DEFINE top == depth[t]
<1>1. /\ top \in Depths /\ guard[t][top] = Top(t)
      /\ Top(t) \in {"read", "write", "mutex", "refused"}
      /\ depth' \in [Owners -> 0..MaxDepth]
      /\ guard' \in [Owners -> [1..MaxDepth -> {"none", "read", "write", "mutex", "refused"}]]
      /\ Stacked'
      /\ guard'[t][top] = "none"
      /\ \A u \in Owners, d \in Depths :
           u # t \/ d # top => guard'[u][d] = guard[u][d]
  BY LeavesTop DEF Destroy, Top
<1> HIDE DEF top
<1>2. Once'
  BY <1>1 DEF LockInv, Once
<1>3. CASE Top(t) = "read"
  <2>1. <<t, top>> \in readers /\ writer = NoOwner
    BY <1>1, <1>3 DEF LockInv, ReadersExact
  <2>2. readers' = readers \ {<<t, top>>} /\ UNCHANGED <<writer, locker>>
    BY <1>3, <2>1 DEF Destroy, Unlock, top
  <2>write. /\ \A u \in Owners, d \in Depths : guard'[u][d] = "write" <=> guard[u][d] = "write"
        /\ \A u \in Owners : Has(u, "write")' <=> Has(u, "write")
    BY <1>1, <1>3, OtherKinds
  <2>mutex. /\ \A u \in Owners, d \in Depths : guard'[u][d] = "mutex" <=> guard[u][d] = "mutex"
        /\ \A u \in Owners : Has(u, "mutex")' <=> Has(u, "mutex")
    BY <1>1, <1>3, OtherKinds
  <2>3. LockTypeOK'
    BY <1>1, <2>2 DEF LockInv, LockTypeOK
  <2>4. ReadersExact'
    <3> SUFFICES ASSUME NEW u \in Owners, NEW d \in Depths
                 PROVE  <<u, d>> \in readers' <=> guard'[u][d] = "read"
      BY DEF ReadersExact
    <3>1. CASE u = t /\ d = top
      BY <1>1, <2>2, <3>1
    <3>2. CASE u # t \/ d # top
      <4>1. <<u, d>> \in readers' <=> <<u, d>> \in readers
        BY <2>2, <3>2
      <4>2. guard'[u][d] = guard[u][d]
        BY <1>1, <3>2
      <4> QED
        BY <4>1, <4>2 DEF LockInv, ReadersExact
    <3> QED
      BY <3>1, <3>2
  <2>5. WriterExact' /\ LockerExact'
    BY <2>2, <2>write, <2>mutex DEF LockInv, WriterExact, LockerExact
  <2> QED
    BY <1>1, <1>2, <2>1, <2>2, <2>3, <2>4, <2>5 DEF LockInv
<1>4. CASE Top(t) = "write"
  <2>1. writer = t /\ readers = {}
    BY <1>1, <1>4 DEF LockInv, WriterExact, Has
  <2>2. writer' = NoOwner /\ UNCHANGED <<readers, locker>>
    BY <1>4, <2>1 DEF Destroy, Unlock
  <2>read. /\ \A u \in Owners, d \in Depths : guard'[u][d] = "read" <=> guard[u][d] = "read"
        /\ \A u \in Owners : Has(u, "read")' <=> Has(u, "read")
    BY <1>1, <1>4, OtherKinds
  <2>mutex. /\ \A u \in Owners, d \in Depths : guard'[u][d] = "mutex" <=> guard[u][d] = "mutex"
        /\ \A u \in Owners : Has(u, "mutex")' <=> Has(u, "mutex")
    BY <1>1, <1>4, OtherKinds
  <2>3. LockTypeOK'
    BY <1>1, <2>2 DEF LockInv, LockTypeOK
  <2>4. ReadersExact'
    BY <2>2, <2>read DEF LockInv, ReadersExact
  <2>5. \A u \in Owners, d \in Depths : guard'[u][d] # "write"
    BY <1>1, <1>4, <2>1 DEF LockInv, WriterExact, Has, Once
  <2>6. WriterExact'
    BY <2>2, <2>5 DEF WriterExact, Has
  <2>7. LockerExact'
    BY <2>2, <2>mutex DEF LockInv, LockerExact
  <2> QED
    BY <1>1, <1>2, <2>1, <2>2, <2>3, <2>4, <2>6, <2>7 DEF LockInv
<1>5. CASE Top(t) = "mutex"
  <2>1. locker = t
    BY <1>1, <1>5 DEF LockInv, LockerExact, Has
  <2>2. locker' = NoOwner /\ UNCHANGED <<readers, writer>>
    BY <1>5 DEF Destroy
  <2>read. /\ \A u \in Owners, d \in Depths : guard'[u][d] = "read" <=> guard[u][d] = "read"
        /\ \A u \in Owners : Has(u, "read")' <=> Has(u, "read")
    BY <1>1, <1>5, OtherKinds
  <2>write. /\ \A u \in Owners, d \in Depths : guard'[u][d] = "write" <=> guard[u][d] = "write"
        /\ \A u \in Owners : Has(u, "write")' <=> Has(u, "write")
    BY <1>1, <1>5, OtherKinds
  <2>3. LockTypeOK'
    BY <1>1, <2>2 DEF LockInv, LockTypeOK
  <2>4. ReadersExact'
    BY <2>2, <2>read DEF LockInv, ReadersExact
  <2>5. \A u \in Owners, d \in Depths : guard'[u][d] # "mutex"
    BY <1>1, <1>5, <2>1 DEF LockInv, LockerExact, Has, Once
  <2>6. LockerExact'
    BY <2>2, <2>5 DEF LockerExact, Has
  <2>7. WriterExact'
    BY <2>2, <2>write DEF LockInv, WriterExact
  <2> QED
    BY <1>1, <1>2, <2>2, <2>3, <2>4, <2>6, <2>7 DEF LockInv
<1>6. CASE Top(t) = "refused"
  <2>1. UNCHANGED <<readers, writer, locker>>
    BY <1>6 DEF Destroy
  <2>read. /\ \A u \in Owners, d \in Depths : guard'[u][d] = "read" <=> guard[u][d] = "read"
        /\ \A u \in Owners : Has(u, "read")' <=> Has(u, "read")
    BY <1>1, <1>6, OtherKinds
  <2>write. /\ \A u \in Owners, d \in Depths : guard'[u][d] = "write" <=> guard[u][d] = "write"
        /\ \A u \in Owners : Has(u, "write")' <=> Has(u, "write")
    BY <1>1, <1>6, OtherKinds
  <2>mutex. /\ \A u \in Owners, d \in Depths : guard'[u][d] = "mutex" <=> guard[u][d] = "mutex"
        /\ \A u \in Owners : Has(u, "mutex")' <=> Has(u, "mutex")
    BY <1>1, <1>6, OtherKinds
  <2>2. LockTypeOK'
    BY <1>1, <2>1 DEF LockInv, LockTypeOK
  <2>3. ReadersExact'
    BY <2>1, <2>read DEF LockInv, ReadersExact
  <2>4. WriterExact' /\ LockerExact'
    BY <2>1, <2>write, <2>mutex DEF LockInv, WriterExact, LockerExact
  <2> QED
    BY <1>1, <1>2, <2>1, <2>2, <2>3, <2>4 DEF LockInv
<1> QED
  BY <1>1, <1>3, <1>4, <1>5, <1>6

-----------------------------------------------------------------------------
(* Every step of a thread keeps the invariant.                              *)
LEMMA LockStepInv == LockInv /\ [LockNext]_lockVars => LockInv'
<1> SUFFICES ASSUME LockInv, [LockNext]_lockVars PROVE LockInv'
  OBVIOUS
<1>1. CASE UNCHANGED lockVars
  BY <1>1 DEF lockVars, LockInv, LockTypeOK, Stacked, Once, ReadersExact, WriterExact,
              LockerExact, Has
<1>2. ASSUME NEW t \in Owners,
             ReadGuard(t) \/ WriteGuard(t) \/ Refused(t) \/ MutexGuard(t) \/ Destroy(t)
      PROVE  LockInv'
  BY <1>2, ReadGuardInv, WriteGuardInv, RefusedInv, MutexGuardInv, DestroyInv
<1> QED
  BY <1>1, <1>2 DEF LockNext

(* The locks are held by the guards that got them.                          *)
LEMMA LocksExact == LockSpec => []LockInv
BY LockInitInv, LockStepInv, PTL DEF LockSpec

(* A write guard in scope excludes the guards of every other thread that    *)
(* got the lock, and mutex guards exclude each other.                       *)
THEOREM GuardsExcludeAlways == LockSpec => []GuardsExclude
<1>1. LockInv => GuardsExclude
  <2> SUFFICES ASSUME LockInv, NEW t \in Owners, NEW u \in Owners, t # u
               PROVE  /\ Has(t, "write") => ~ Has(u, "write") /\ ~ Has(u, "read")
                      /\ ~ (Has(t, "mutex") /\ Has(u, "mutex"))
    BY DEF GuardsExclude
  <2>1. Has(u, "read") => readers # {}
    BY DEF LockInv, ReadersExact, Has, Depths
  <2>2. Has(t, "write") => writer = t /\ writer # NoOwner
    BY ScopedLockAssumption DEF LockInv, WriterExact
  <2>3. Has(u, "write") => writer = u
    BY DEF LockInv, WriterExact
  <2>4. Has(t, "mutex") => locker = t
    BY DEF LockInv, LockerExact
  <2>5. Has(u, "mutex") => locker = u
    BY DEF LockInv, LockerExact
  <2> QED
    BY <2>1, <2>2, <2>3, <2>4, <2>5 DEF LockInv
<1> QED
  BY <1>1, LocksExact, PTL

-----------------------------------------------------------------------------
(***************************************************************************)
(* What a thread may rely on although localtime() has one tm for all, for   *)
(* any number of threads and any moments.  The invariant follows a moment   *)
(* from the thread that writes it to the span of every thread that may read *)
(* it: only one thread fills the tm at a time, and when it begins, its      *)
(* moment joins the spans of all that have not done reading.                *)
(***************************************************************************)
Tm == [hour : Int, tm_isdst : BOOLEAN]
Stamp == [pc : {"idle", "call", "fill", "read", "done"}, load : BOOLEAN,
          second : Int, todo : SUBSET Fields, tm : Tm]

StampType ==
  /\ tm_lock \in Threads \cup {NoThread}
  /\ tmbuf \in Tm
  /\ stamp \in [Threads -> Stamp]
  /\ span \in [Threads -> SUBSET Int]

(* The value of field f in a tm comes from a moment of the set.             *)
FromOne(tm, f, moments) == \E m \in moments : tm[f] = LocalOf(m)[f]

Reading(th) == stamp[th].pc \in {"fill", "read", "done"}

(* The lock is with the thread that fills.                                  *)
FillsAlone == \A th \in Threads : stamp[th].pc = "fill" <=> tm_lock = th

(* Who reads, or will, knows the moment of who fills.                       *)
SpanKnows ==
  \A th \in Threads :
    /\ Reading(th) => stamp[th].second \in span[th]
    /\ \A o \in Threads :
         stamp[th].pc = "read" /\ stamp[o].pc = "fill" => stamp[o].second \in span[th]

(* What is in the tm that a thread fills or reads, and what it has read.    *)
BufferFrom ==
  \A th \in Threads : \A f \in Fields :
    /\ stamp[th].pc = "read" => FromOne(tmbuf, f, span[th])
    /\ stamp[th].pc = "fill" /\ f \notin stamp[th].todo => FromOne(tmbuf, f, span[th])

CopyFrom ==
  \A th \in Threads : \A f \in Fields :
    /\ stamp[th].pc = "read" /\ f \notin stamp[th].todo => FromOne(stamp[th].tm, f, span[th])
    /\ stamp[th].pc = "done" => FromOne(stamp[th].tm, f, span[th])

StampInv ==
  /\ StampType
  /\ FillsAlone
  /\ SpanKnows
  /\ BufferFrom
  /\ CopyFrom

-----------------------------------------------------------------------------
(* Every moment has a tm.                                                   *)
LEMMA LocalTm == \A m \in Int : LocalOf(m) \in Tm
  BY DEF LocalOf, Ahead, Tm

(* Nobody has called localtime() at the beginning.                          *)
LEMMA ClockInitInv == ClockInit => StampInv
<1> SUFFICES ASSUME ClockInit PROVE StampInv
  OBVIOUS
<1> USE ClockAssumption DEF ClockInit
<1>1. Idle \in Stamp /\ Idle.pc = "idle"
  BY LocalTm DEF Idle, Stamp, Fields
<1>2. StampType
  BY <1>1, LocalTm DEF StampType
<1>3. \A th \in Threads : stamp[th].pc = "idle"
  BY <1>1
<1>4. FillsAlone /\ SpanKnows /\ BufferFrom /\ CopyFrom
  BY <1>3 DEF FillsAlone, SpanKnows, BufferFrom, CopyFrom, Reading
<1> QED
  BY <1>2, <1>4 DEF StampInv

(* A call that has not reached localtime() concerns nobody.                 *)
LEMMA CallInv ==
  ASSUME StampInv, NEW th \in Threads, NEW m \in Moments, Call(th, m)
  PROVE  StampInv'
<1> USE ClockAssumption
<1>0. PICK load \in BOOLEAN :
        /\ stamp[th].pc = "idle"
        /\ stamp' = [stamp EXCEPT ![th].pc = "call", ![th].load = load, ![th].second = m]
        /\ UNCHANGED <<tm_lock, tmbuf, span>>
  <2>1. (th \in Keepers) \in BOOLEAN
    OBVIOUS
  <2> QED
    BY <2>1, Zenon DEF Call
<1>1. stamp[th].pc = "idle" /\ stamp'[th].pc = "call"
  BY <1>0 DEF StampInv, StampType, Stamp
<1>2. \A o \in Threads : o # th => stamp'[o] = stamp[o]
  BY <1>0 DEF StampInv, StampType, Stamp
<1>3. StampType'
  <2>1. m \in Int
    OBVIOUS
  <2>2. stamp \in [Threads -> Stamp]
    BY DEF StampInv, StampType
  <2>3. [pc |-> "call", load |-> load, second |-> m,
         todo |-> stamp[th].todo, tm |-> stamp[th].tm] \in Stamp
    BY <2>1, <2>2 DEF Stamp
  <2>4. stamp'[th] = [pc |-> "call", load |-> load, second |-> m,
                      todo |-> stamp[th].todo, tm |-> stamp[th].tm]
    BY <1>0, <2>2 DEF Stamp
  <2>5. stamp' \in [Threads -> Stamp]
    BY <1>0, <2>2, <2>3, <2>4
  <2> QED
    BY <1>0, <2>5 DEF StampInv, StampType
<1>4. FillsAlone'
  BY <1>0, <1>1, <1>2 DEF StampInv, FillsAlone
<1>5. SpanKnows'
  BY <1>0, <1>1, <1>2 DEF StampInv, SpanKnows, Reading
<1>6. BufferFrom'
  <2> SUFFICES ASSUME NEW o \in Threads, NEW g \in Fields,
                      stamp'[o].pc = "read" \/ (stamp'[o].pc = "fill" /\ g \notin stamp'[o].todo)
               PROVE  FromOne(tmbuf', g, span'[o])
    BY DEF BufferFrom
  <2>1. o # th
    BY <1>1
  <2> QED
    BY <1>0, <1>2, <2>1 DEF StampInv, BufferFrom
<1>7. CopyFrom'
  <2> SUFFICES ASSUME NEW o \in Threads, NEW g \in Fields,
                      stamp'[o].pc = "done" \/ (stamp'[o].pc = "read" /\ g \notin stamp'[o].todo)
               PROVE  FromOne(stamp'[o].tm, g, span'[o])
    BY DEF CopyFrom
  <2>1. o # th
    BY <1>1
  <2> QED
    BY <1>0, <1>2, <2>1 DEF StampInv, CopyFrom
<1> QED
  BY <1>3, <1>4, <1>5, <1>6, <1>7 DEF StampInv

(* Into localtime(): the moment joins the spans of all that are reading.    *)
LEMMA LocaltimeInv ==
  ASSUME StampInv, NEW th \in Threads, Localtime(th)
  PROVE  StampInv'
<1> USE ClockAssumption DEF Localtime, Locked
<1>1. stamp[th].pc = "call" /\ stamp'[th].pc = "fill"
      /\ stamp'[th].second = stamp[th].second /\ stamp'[th].todo = Fields
  BY DEF StampInv, StampType, Stamp
<1>2. \A o \in Threads : o # th => stamp'[o] = stamp[o]
  BY DEF StampInv, StampType, Stamp
<1>3. \A o \in Threads : stamp[o].pc # "fill"
  BY DEF StampInv, FillsAlone
<1>4. span'[th] = {stamp[th].second}
  OBVIOUS
<1>5. \A o \in Threads : Reading(o) =>
        span[o] \subseteq span'[o] /\ stamp[th].second \in span'[o]
  BY <1>1 DEF StampInv, SpanKnows, Reading
<1>6. StampType'
  <2>1. stamp[th].second \in Int
    BY DEF StampInv, StampType, Stamp
  <2>2. \A o \in Threads : span'[o] \in SUBSET Int
    BY <2>1 DEF StampInv, StampType
  <2>3. stamp' \in [Threads -> Stamp]
    BY DEF StampInv, StampType, Stamp
  <2> QED
    BY <2>2, <2>3 DEF StampInv, StampType
<1>7. FillsAlone'
  BY <1>1, <1>2, <1>3 DEF FillsAlone
<1>8. SpanKnows'
  BY <1>1, <1>2, <1>3, <1>4, <1>5 DEF StampInv, SpanKnows, Reading
<1>9. BufferFrom'
  <2> SUFFICES ASSUME NEW o \in Threads, NEW g \in Fields,
                      stamp'[o].pc = "read" \/ (stamp'[o].pc = "fill" /\ g \notin stamp'[o].todo)
               PROVE  FromOne(tmbuf', g, span'[o])
    BY DEF BufferFrom
  <2>1. o # th
    BY <1>1
  <2>2. FromOne(tmbuf, g, span[o]) /\ Reading(o)
    BY <1>2, <2>1 DEF StampInv, BufferFrom, Reading
  <2> QED
    BY <1>5, <2>2 DEF FromOne
<1>10. CopyFrom'
  <2> SUFFICES ASSUME NEW o \in Threads, NEW g \in Fields,
                      stamp'[o].pc = "done" \/ (stamp'[o].pc = "read" /\ g \notin stamp'[o].todo)
               PROVE  FromOne(stamp'[o].tm, g, span'[o])
    BY DEF CopyFrom
  <2>1. o # th
    BY <1>1
  <2>2. FromOne(stamp[o].tm, g, span[o]) /\ Reading(o)
    BY <1>2, <2>1 DEF StampInv, CopyFrom, Reading
  <2> QED
    BY <1>2, <1>5, <2>1, <2>2 DEF FromOne
<1> QED
  BY <1>6, <1>7, <1>8, <1>9, <1>10 DEF StampInv

(* A field is written: all who may read it know the moment.                 *)
LEMMA FillInv ==
  ASSUME StampInv, NEW th \in Threads, Fill(th)
  PROVE  StampInv'
<1> USE ClockAssumption
<1>1. PICK f \in stamp[th].todo :
        /\ stamp[th].pc = "fill"
        /\ tmbuf' = [tmbuf EXCEPT ![f] = LocalOf(stamp[th].second)[f]]
        /\ IF stamp[th].todo = {f}
           THEN /\ tm_lock' = NoThread
                /\ stamp' = [stamp EXCEPT ![th].pc = "read", ![th].todo = Fields]
           ELSE /\ stamp' = [stamp EXCEPT ![th].todo = @ \ {f}]
                /\ UNCHANGED tm_lock
        /\ UNCHANGED <<m_tm, span, seasons, meant>>
  BY DEF Fill
<1>2. /\ f \in Fields /\ stamp[th].todo \subseteq Fields
      /\ stamp[th].second \in Int /\ stamp[th].second \in span[th]
  BY <1>1 DEF StampInv, StampType, Stamp, SpanKnows, Reading
<1>3. \A o \in Threads : o # th => stamp'[o] = stamp[o] /\ stamp[o].pc # "fill"
  BY <1>1 DEF StampInv, StampType, Stamp, FillsAlone
<1>4. /\ stamp'[th].second = stamp[th].second
      /\ stamp'[th].tm = stamp[th].tm
      /\ stamp[th].todo = {f} => stamp'[th].pc = "read" /\ stamp'[th].todo = Fields
      /\ stamp[th].todo # {f} => stamp'[th].pc = "fill" /\ stamp'[th].todo = stamp[th].todo \ {f}
  BY <1>1 DEF StampInv, StampType, Stamp
<1>5. /\ tmbuf'[f] = LocalOf(stamp[th].second)[f]
      /\ \A g \in Fields : g # f => tmbuf'[g] = tmbuf[g]
      /\ tmbuf' \in Tm
  BY <1>1, <1>2, LocalTm DEF StampInv, StampType, Tm, Fields
<1>6. StampType'
  BY <1>1, <1>2, <1>5 DEF StampInv, StampType, Stamp
<1>7. FillsAlone'
  BY <1>1, <1>3, <1>4 DEF StampInv, FillsAlone
<1>8. SpanKnows'
  BY <1>1, <1>2, <1>3, <1>4 DEF StampInv, SpanKnows, Reading
<1>9. BufferFrom'
  <2> SUFFICES ASSUME NEW o \in Threads, NEW g \in Fields,
                      stamp'[o].pc = "read" \/ (stamp'[o].pc = "fill" /\ g \notin stamp'[o].todo)
               PROVE  FromOne(tmbuf', g, span[o])
    BY <1>1 DEF BufferFrom, FromOne
  <2>1. CASE g = f
    <3>1. stamp[th].second \in span[o]
      BY <1>1, <1>2, <1>3 DEF StampInv, SpanKnows
    <3> QED
      BY <2>1, <3>1, <1>5 DEF FromOne
  <2>2. CASE g # f
    <3>1. FromOne(tmbuf, g, span[o])
      BY <1>1, <1>3, <1>4, <2>2 DEF StampInv, BufferFrom
    <3> QED
      BY <2>2, <3>1, <1>5 DEF FromOne
  <2> QED
    BY <2>1, <2>2
<1>10. CopyFrom'
  BY <1>1, <1>3, <1>4 DEF StampInv, CopyFrom, FromOne
<1> QED
  BY <1>6, <1>7, <1>8, <1>9, <1>10 DEF StampInv

(* What is read is what is in the tm.                                       *)
LEMMA ReadInv ==
  ASSUME StampInv, NEW th \in Threads, Read(th)
  PROVE  StampInv'
<1> USE ClockAssumption
<1>1. PICK f \in stamp[th].todo :
        /\ stamp[th].pc = "read"
        /\ stamp' = [stamp EXCEPT ![th].tm[f] = tmbuf[f], ![th].todo = @ \ {f},
                       ![th].pc = IF stamp[th].todo = {f} THEN "done" ELSE @]
        /\ UNCHANGED <<tm_lock, tmbuf, m_tm, span, seasons, meant>>
  BY DEF Read
<1>2. f \in Fields /\ stamp[th].todo \subseteq Fields
  BY DEF StampInv, StampType, Stamp
<1>3. \A o \in Threads : o # th => stamp'[o] = stamp[o]
  BY <1>1 DEF StampInv, StampType, Stamp
<1>4. /\ stamp'[th].second = stamp[th].second
      /\ stamp'[th].todo = stamp[th].todo \ {f}
      /\ stamp'[th].pc = IF stamp[th].todo = {f} THEN "done" ELSE "read"
      /\ stamp'[th].tm = [stamp[th].tm EXCEPT ![f] = tmbuf[f]]
      /\ stamp'[th].load = stamp[th].load
  BY <1>1 DEF StampInv, StampType, Stamp
<1>5. /\ stamp'[th].tm[f] = tmbuf[f]
      /\ \A g \in Fields : g # f => stamp'[th].tm[g] = stamp[th].tm[g]
      /\ stamp'[th].tm \in Tm
  <2>1. stamp[th].tm \in Tm /\ tmbuf \in Tm
    BY DEF StampInv, StampType, Stamp
  <2> QED
    BY <1>2, <1>4, <2>1 DEF Tm, Fields
<1>6. StampType'
  <2>1. stamp'[th] \in Stamp
    BY <1>1, <1>2, <1>4, <1>5 DEF StampInv, StampType, Stamp
  <2>2. stamp' \in [Threads -> Stamp]
    BY <1>1, <1>3, <2>1 DEF StampInv, StampType
  <2> QED
    BY <1>1, <2>2 DEF StampInv, StampType
<1>fill. \A o \in Threads : stamp'[o].pc = "fill" <=> stamp[o].pc = "fill"
  <2>1. stamp[th].pc # "fill" /\ stamp'[th].pc # "fill"
    BY <1>1, <1>4
  <2> QED
    BY <1>3, <2>1
<1>7. FillsAlone'
  BY <1>1, <1>fill DEF StampInv, FillsAlone
<1>8. SpanKnows'
  <2>1. \A o \in Threads :
          /\ Reading(o)' <=> Reading(o)
          /\ stamp'[o].pc = "read" => stamp[o].pc = "read"
          /\ stamp'[o].second = stamp[o].second
    BY <1>1, <1>3, <1>4 DEF Reading
  <2>2. \A o \in Threads : Reading(o)' => stamp'[o].second \in span'[o]
    BY <1>1, <2>1 DEF StampInv, SpanKnows
  <2>3. ASSUME NEW u \in Threads, NEW o \in Threads,
               stamp'[u].pc = "read", stamp'[o].pc = "fill"
        PROVE  stamp'[o].second \in span'[u]
    BY <1>1, <1>fill, <2>1, <2>3 DEF StampInv, SpanKnows
  <2> QED
    BY <2>2, <2>3 DEF SpanKnows
<1>9. BufferFrom'
  <2> SUFFICES ASSUME NEW o \in Threads, NEW g \in Fields,
                      stamp'[o].pc = "read" \/ (stamp'[o].pc = "fill" /\ g \notin stamp'[o].todo)
               PROVE  FromOne(tmbuf', g, span'[o])
    BY DEF BufferFrom
  <2>1. FromOne(tmbuf, g, span[o])
    BY <1>1, <1>3, <1>4 DEF StampInv, BufferFrom
  <2> QED
    BY <1>1, <2>1
<1>10. CopyFrom'
  <2> SUFFICES ASSUME NEW o \in Threads, NEW g \in Fields,
                      stamp'[o].pc = "done" \/ (stamp'[o].pc = "read" /\ g \notin stamp'[o].todo)
               PROVE  FromOne(stamp'[o].tm, g, span[o])
    BY <1>1 DEF CopyFrom, FromOne
  <2>1. CASE o # th
    BY <1>3, <2>1 DEF StampInv, CopyFrom
  <2>2. CASE o = th /\ g = f
    <3>1. FromOne(tmbuf, f, span[th])
      BY <1>1, <1>2 DEF StampInv, BufferFrom
    <3> QED
      BY <2>2, <3>1, <1>5 DEF FromOne
  <2>3. CASE o = th /\ g # f
    <3>1. FromOne(stamp[th].tm, g, span[th])
      BY <1>1, <1>4, <2>3 DEF StampInv, CopyFrom
    <3> QED
      BY <2>3, <3>1, <1>5 DEF FromOne
  <2> QED
    BY <2>1, <2>2, <2>3
<1> QED
  BY <1>6, <1>7, <1>8, <1>9, <1>10 DEF StampInv

(* A stamp that is used up.                                                 *)
LEMMA DoneInv ==
  ASSUME StampInv, NEW th \in Threads, Done(th)
  PROVE  StampInv'
<1> USE ClockAssumption
<1>1. /\ stamp[th].pc = "done"
      /\ stamp' = [stamp EXCEPT ![th] = Idle]
      /\ span' = [span EXCEPT ![th] = {}]
      /\ UNCHANGED <<tm_lock, tmbuf>>
  BY DEF Done
<1>2. Idle \in Stamp /\ Idle.pc = "idle"
  BY LocalTm DEF Idle, Stamp, Fields
<1>3. stamp'[th].pc = "idle"
  BY <1>1, <1>2 DEF StampInv, StampType
<1>4. \A o \in Threads : o # th => stamp'[o] = stamp[o] /\ span'[o] = span[o]
  BY <1>1 DEF StampInv, StampType
<1>5. StampType'
  BY <1>1, <1>2 DEF StampInv, StampType
<1>6. FillsAlone' /\ SpanKnows'
  BY <1>1, <1>3, <1>4 DEF StampInv, FillsAlone, SpanKnows, Reading
<1>7. BufferFrom' /\ CopyFrom'
  BY <1>1, <1>3, <1>4 DEF StampInv, BufferFrom, CopyFrom, FromOne
<1> QED
  BY <1>5, <1>6, <1>7 DEF StampInv

(* Every step keeps the invariant; a datetime's own calls do not touch it.  *)
LEMMA ClockStepInv == StampInv /\ [ClockNext]_clockVars => StampInv'
<1> SUFFICES ASSUME StampInv, [ClockNext]_clockVars PROVE StampInv'
  OBVIOUS
<1>1. CASE UNCHANGED <<tm_lock, tmbuf, stamp, span>>
  BY <1>1 DEF StampInv, StampType, FillsAlone, SpanKnows, BufferFrom, CopyFrom, FromOne, Reading
<1>2. CASE UNCHANGED clockVars
  BY <1>1, <1>2 DEF clockVars
<1>3. ASSUME NEW th \in Threads, NEW m \in Moments, Call(th, m) PROVE StampInv'
  BY <1>3, CallInv
<1>4. ASSUME NEW th \in Threads, Localtime(th) PROVE StampInv'
  BY <1>4, LocaltimeInv
<1>5. ASSUME NEW th \in Threads, Fill(th) PROVE StampInv'
  BY <1>5, FillInv
<1>6. ASSUME NEW th \in Threads, Read(th) PROVE StampInv'
  BY <1>6, ReadInv
<1>7. ASSUME NEW th \in Threads, Done(th) PROVE StampInv'
  BY <1>7, DoneInv
<1>8. ASSUME NEW th \in Keepers, NEW m \in Moments, LoadFromString(th, m) PROVE StampInv'
  BY <1>1, <1>8 DEF LoadFromString
<1>9. ASSUME NEW th \in Keepers, ToTimeT(th) PROVE StampInv'
  BY <1>1, <1>9 DEF ToTimeT
<1> QED
  BY <1>2, <1>3, <1>4, <1>5, <1>6, <1>7, <1>8, <1>9 DEF ClockNext

LEMMA StampInvariant == ClockSpec => []StampInv
  BY ClockInitInv, ClockStepInv, PTL DEF ClockSpec

(* The fields of a log line or of a datetime come from the caller's own     *)
(* moment or from that of a call that overlapped it.                        *)
THEOREM StampTracedAlways == ClockSpec => []StampTraced
<1>1. StampInv => StampTraced
  BY DEF StampInv, CopyFrom, FromOne, StampTraced
<1> QED
  BY <1>1, StampInvariant, PTL

-----------------------------------------------------------------------------
(* A datetime has its season from a moment in seasons, and between          *)
(* load_from_string() and to_time_t() the hour of the string.               *)
SeasonType ==
  /\ m_tm \in [Keepers -> Tm]
  /\ seasons \in [Keepers -> SUBSET Int]
  /\ meant \in [Keepers -> Moments \cup {NoMoment}]

HasSeason(th) == FromOne(m_tm[th], "tm_isdst", seasons[th])
HasHour(th) == meant[th] # NoMoment => m_tm[th].hour = LocalOf(meant[th]).hour

SeasonInv ==
  /\ SeasonType
  /\ \A th \in Keepers : HasSeason(th) /\ HasHour(th)

(* A new datetime is right for the moment it was built at.                  *)
LEMMA SeasonInitInv == ClockInit => SeasonInv
<1> SUFFICES ASSUME ClockInit PROVE SeasonInv
  OBVIOUS
<1>1. PICK m \in Moments :
        /\ m_tm = [th \in Keepers |-> LocalOf(m)]
        /\ seasons = [th \in Keepers |-> {m}]
  BY DEF ClockInit
<1>2. meant = [th \in Keepers |-> NoMoment]
  BY DEF ClockInit
<1>3. m \in Int /\ LocalOf(m) \in Tm
  BY ClockAssumption, LocalTm
<1>4. SeasonType
  BY <1>1, <1>2, <1>3 DEF SeasonType
<1>5. \A th \in Keepers : HasSeason(th) /\ HasHour(th)
  BY <1>1, <1>2 DEF HasSeason, HasHour, FromOne
<1> QED
  BY <1>4, <1>5 DEF SeasonInv

(* load_from_second(): the copy has its season from the calls it overlapped.*)
LEMMA DoneSeason ==
  ASSUME StampInv, SeasonInv, NEW th \in Threads, Done(th)
  PROVE  SeasonInv'
<1>1. CASE UNCHANGED <<m_tm, seasons, meant>>
  BY <1>1 DEF SeasonInv, SeasonType, HasSeason, HasHour, FromOne
<1>2. CASE /\ m_tm' = [m_tm EXCEPT ![th] = stamp[th].tm]
           /\ seasons' = [seasons EXCEPT ![th] = span[th]]
           /\ meant' = [meant EXCEPT ![th] = NoMoment]
  <2>1. stamp[th].tm \in Tm /\ span[th] \in SUBSET Int
    BY DEF StampInv, StampType, Stamp
  <2>2. FromOne(stamp[th].tm, "tm_isdst", span[th])
    BY DEF StampInv, CopyFrom, Done, Fields
  <2>3. SeasonType'
    BY <1>2, <2>1 DEF SeasonInv, SeasonType
  <2>4. ASSUME NEW o \in Keepers PROVE HasSeason(o)' /\ HasHour(o)'
    <3>1. CASE o = th
      <4>1. m_tm'[o] = stamp[th].tm /\ seasons'[o] = span[th] /\ meant'[o] = NoMoment
        BY <1>2, <3>1 DEF SeasonInv, SeasonType
      <4> QED
        BY <2>2, <4>1 DEF HasSeason, HasHour, FromOne
    <3>2. CASE o # th
      <4>1. m_tm'[o] = m_tm[o] /\ seasons'[o] = seasons[o] /\ meant'[o] = meant[o]
        BY <1>2, <3>2 DEF SeasonInv, SeasonType
      <4> QED
        BY <4>1 DEF SeasonInv, HasSeason, HasHour, FromOne
    <3> QED
      BY <3>1, <3>2
  <2> QED
    BY <2>3, <2>4 DEF SeasonInv
<1> QED
  BY <1>1, <1>2 DEF Done

(* strptime() sets the hour and keeps the season.                           *)
LEMMA LoadSeason ==
  ASSUME SeasonInv, NEW th \in Keepers, NEW m \in Moments, LoadFromString(th, m)
  PROVE  SeasonInv'
<1>1. /\ m_tm' = [m_tm EXCEPT ![th].hour = LocalOf(m).hour]
      /\ meant' = [meant EXCEPT ![th] = m]
      /\ seasons' = seasons
  BY DEF LoadFromString
<1>2. m_tm \in [Keepers -> Tm] /\ LocalOf(m).hour \in Int
  BY ClockAssumption, LocalTm DEF SeasonInv, SeasonType, Tm
<1>3. /\ m_tm'[th].hour = LocalOf(m).hour
      /\ m_tm'[th].tm_isdst = m_tm[th].tm_isdst
      /\ m_tm' \in [Keepers -> Tm]
  BY <1>1, <1>2 DEF Tm
<1>4. SeasonType'
  BY <1>1, <1>3 DEF SeasonInv, SeasonType
<1>5. ASSUME NEW o \in Keepers PROVE HasSeason(o)' /\ HasHour(o)'
  <2>1. CASE o = th
    <3>1. meant'[o] = m
      BY <1>1, <2>1 DEF SeasonInv, SeasonType
    <3> QED
      BY <1>1, <1>3, <2>1, <3>1 DEF SeasonInv, HasSeason, HasHour, FromOne
  <2>2. CASE o # th
    <3>1. m_tm'[o] = m_tm[o] /\ seasons'[o] = seasons[o] /\ meant'[o] = meant[o]
      BY <1>1, <1>2, <2>2 DEF SeasonInv, SeasonType
    <3> QED
      BY <3>1 DEF SeasonInv, HasSeason, HasHour, FromOne
  <2> QED
    BY <2>1, <2>2
<1> QED
  BY <1>4, <1>5 DEF SeasonInv

(* mktime() puts everything right for the moment that it returns.           *)
LEMMA ToTimeSeason ==
  ASSUME SeasonInv, NEW th \in Keepers, ToTimeT(th)
  PROVE  SeasonInv'
<1> DEFINE second == Mktime(m_tm[th])
<1>1. /\ m_tm' = [m_tm EXCEPT ![th] = LocalOf(second)]
      /\ seasons' = [seasons EXCEPT ![th] = {second}]
      /\ meant' = [meant EXCEPT ![th] = NoMoment]
  BY DEF ToTimeT
<1>2. second \in Int
  BY DEF SeasonInv, SeasonType, Tm, Mktime, Ahead
<1>3. LocalOf(second) \in Tm
  BY <1>2, LocalTm
<1> HIDE DEF second
<1>4. SeasonType'
  BY <1>1, <1>2, <1>3 DEF SeasonInv, SeasonType
<1>5. ASSUME NEW o \in Keepers PROVE HasSeason(o)' /\ HasHour(o)'
  <2>1. CASE o = th
    <3>1. m_tm'[o] = LocalOf(second) /\ seasons'[o] = {second} /\ meant'[o] = NoMoment
      BY <1>1, <2>1 DEF SeasonInv, SeasonType
    <3> QED
      BY <3>1 DEF HasSeason, HasHour, FromOne
  <2>2. CASE o # th
    <3>1. m_tm'[o] = m_tm[o] /\ seasons'[o] = seasons[o] /\ meant'[o] = meant[o]
      BY <1>1, <2>2 DEF SeasonInv, SeasonType
    <3> QED
      BY <3>1 DEF SeasonInv, HasSeason, HasHour, FromOne
  <2> QED
    BY <2>1, <2>2
<1> QED
  BY <1>4, <1>5 DEF SeasonInv

(* Every step keeps it; most do not touch a datetime.                       *)
LEMMA SeasonStepInv == StampInv /\ SeasonInv /\ [ClockNext]_clockVars => SeasonInv'
<1> SUFFICES ASSUME StampInv, SeasonInv, [ClockNext]_clockVars PROVE SeasonInv'
  OBVIOUS
<1>1. CASE UNCHANGED <<m_tm, seasons, meant>>
  BY <1>1 DEF SeasonInv, SeasonType, HasSeason, HasHour, FromOne
<1>2. CASE UNCHANGED clockVars
  BY <1>1, <1>2 DEF clockVars
<1>3. ASSUME NEW th \in Threads, NEW m \in Moments, Call(th, m) PROVE SeasonInv'
  BY <1>1, <1>3, SMTT(30) DEF Call
<1>4. ASSUME NEW th \in Threads, Localtime(th) \/ Fill(th) \/ Read(th) PROVE SeasonInv'
  BY <1>1, <1>4 DEF Localtime, Fill, Read
<1>5. ASSUME NEW th \in Threads, Done(th) PROVE SeasonInv'
  BY <1>5, DoneSeason
<1>6. ASSUME NEW th \in Keepers, NEW m \in Moments, LoadFromString(th, m) PROVE SeasonInv'
  BY <1>6, LoadSeason
<1>7. ASSUME NEW th \in Keepers, ToTimeT(th) PROVE SeasonInv'
  BY <1>7, ToTimeSeason
<1> QED
  BY <1>2, <1>3, <1>4, <1>5, <1>6, <1>7 DEF ClockNext

(* mktime() returns the moment whose hour and season the tm has.            *)
LEMMA MktimeInverse ==
  ASSUME NEW m \in Int, NEW n \in Int, NEW tm \in Tm,
         tm.hour = LocalOf(m).hour, tm["tm_isdst"] = LocalOf(n)["tm_isdst"],
         n \in Summer <=> m \in Summer
  PROVE  Mktime(tm) = m
<1>1. CASE m \in Summer
  <2>1. tm.hour = m + 1
    BY <1>1 DEF LocalOf, Ahead
  <2>2. tm.tm_isdst = TRUE
    BY <1>1 DEF LocalOf
  <2> QED
    BY <2>1, <2>2 DEF Mktime, Ahead
<1>2. CASE m \notin Summer
  <2>1. tm.hour = m + 0
    BY <1>2 DEF LocalOf, Ahead
  <2>2. ~ tm.tm_isdst
    <3>1. n \notin Summer
      BY <1>2
    <3>2. LocalOf(n)["tm_isdst"] = (n \in Summer)
      BY DEF LocalOf
    <3> QED
      BY <3>1, <3>2
  <2> QED
    BY <2>1, <2>2 DEF Mktime, Ahead
<1> QED
  BY <1>1, <1>2

(* to_time_t() returns the moment of the string that was loaded, whenever   *)
(* the object's season is the season of that moment.                        *)
THEOREM ParsedTimeRightAlways == ClockSpec => []ParsedTimeRight
<1>1. ClockSpec => []SeasonInv
  BY SeasonInitInv, SeasonStepInv, StampInvariant, PTL DEF ClockSpec
<1>2. SeasonInv => ParsedTimeRight
  <2> SUFFICES ASSUME SeasonInv, NEW th \in Keepers, meant[th] # NoMoment,
                      \A m \in seasons[th] : m \in Summer <=> meant[th] \in Summer
               PROVE  Mktime(m_tm[th]) = meant[th]
    BY DEF ParsedTimeRight
  <2>1. meant[th] \in Int /\ m_tm[th] \in Tm /\ seasons[th] \subseteq Int
    BY ClockAssumption DEF SeasonInv, SeasonType
  <2>2. m_tm[th].hour = LocalOf(meant[th]).hour
    BY DEF SeasonInv, HasHour
  <2>3. PICK n \in seasons[th] : m_tm[th]["tm_isdst"] = LocalOf(n)["tm_isdst"]
    BY DEF SeasonInv, HasSeason, FromOne
  <2> QED
    BY <2>1, <2>2, <2>3, MktimeInverse
<1> QED
  BY <1>1, <1>2, PTL

-----------------------------------------------------------------------------
(***************************************************************************)
(* MessageChannel for every set of messages and however many of them:      *)
(* whatever implements it delivers in order, and completely when the       *)
(* reader is told of the close.                                            *)
(***************************************************************************)
(* ReturnedInOrder does not say that returned is a sequence, nor AllAtClose *)
(* that nothing follows the peer's close; both are needed to go on from.    *)
ChannelInv ==
  ~ garbled =>
    /\ written \in Seq(Message)
    /\ returned \in Seq(Message)
    /\ Len(returned) <= Len(written)
    /\ \A k \in 1..Len(returned) : returned[k] = written[k]
    /\ reader = "closed" => returned = written

(* No step of writer or reader makes one of the other's messages wrong.     *)
LEMMA ChannelInvariant == ChannelSpec => []ChannelInv
<1>1. ChannelInit => ChannelInv
  BY DEF ChannelInit, ChannelInv
<1>2. ChannelInv /\ [ChannelNext]_channel => ChannelInv'
  <2> SUFFICES ASSUME ChannelInv, [ChannelNext]_channel, ~ garbled'
               PROVE  ChannelInv'
    BY DEF ChannelInv
  <2>1. CASE Write
    <3>1. /\ ~ garbled /\ written \in Seq(Message) /\ returned \in Seq(Message)
          /\ Len(returned) <= Len(written)
          /\ \A k \in 1..Len(returned) : returned[k] = written[k]
      BY <2>1 DEF Write, ChannelInv
    <3>2. PICK m \in Message : written' = Append(written, m)
      BY <2>1 DEF Write
    <3>3. /\ written' \in Seq(Message) /\ Len(written') = Len(written) + 1
          /\ \A k \in 1..Len(written) : written'[k] = written[k]
      BY <3>1, <3>2
    <3> QED
      BY <2>1, <3>1, <3>3 DEF Write, ChannelInv
  <2>2. CASE Return
    <3>1. /\ ~ garbled /\ written \in Seq(Message) /\ returned \in Seq(Message)
          /\ Len(returned) < Len(written)
          /\ \A k \in 1..Len(returned) : returned[k] = written[k]
      BY <2>2 DEF Return, ChannelInv
    <3>2. DEFINE m == written[Len(returned) + 1]
    <3>3. m \in Message
      BY <3>1
    <3>4. returned' = Append(returned, m)
      BY <2>2 DEF Return
    <3> HIDE DEF m
    <3>5. /\ returned' \in Seq(Message) /\ Len(returned') = Len(returned) + 1
          /\ \A k \in 1..Len(returned) : returned'[k] = returned[k]
          /\ returned'[Len(returned) + 1] = m
      BY <3>1, <3>3, <3>4
    <3>6. \A k \in 1..Len(returned') : returned'[k] = written[k]
      BY <3>1, <3>5 DEF m
    <3> QED
      BY <2>2, <3>1, <3>5, <3>6 DEF Return, ChannelInv
  <2>3. CASE PeerClosed \/ GiveUp
    BY <2>3 DEF PeerClosed, GiveUp, ChannelInv
  <2>4. CASE Garbled
    BY <2>4 DEF Garbled
  <2>5. CASE UNCHANGED channel
    BY <2>5 DEF channel, ChannelInv
  <2> QED
    BY <2>1, <2>2, <2>3, <2>4, <2>5 DEF ChannelNext
<1> QED
  BY <1>1, <1>2, PTL DEF ChannelSpec

(* A reader of json::read() or http::read() that kept its place in the      *)
(* stream got nothing but the messages written, in their order.             *)
THEOREM InOrderAlways == ChannelSpec => []ReturnedInOrder
<1>1. ChannelInv => ReturnedInOrder
  BY DEF ChannelInv, ReturnedInOrder
<1> QED
  BY <1>1, ChannelInvariant, PTL

(* ... and when such a reader is told CLOSE, it has got them all.           *)
THEOREM CompleteAtClose == ChannelSpec => []AllAtClose
<1>1. ChannelInv => AllAtClose
  BY DEF ChannelInv, AllAtClose
<1> QED
  BY <1>1, ChannelInvariant, PTL

-----------------------------------------------------------------------------
(***************************************************************************)
(* The URL class for every set of URLs.  Find is the least place of a text *)
(* (Found), a URL is its scheme, an authority without a slash and a path   *)
(* that begins with one (TextIs, WholeIs), and init() takes such a text    *)
(* apart where it was put together (ParseOwn); a port survives the short   *)
(* (PortStays), and so does a short that is printed and read (ShortStays). *)
(***************************************************************************)

(* A set of numbers has a least one.                                        *)
LEMMA LeastIn ==
  ASSUME NEW S, S \subseteq Nat, S # {}
  PROVE  \E x \in S : \A y \in S : x <= y
<1> DEFINE R == OpToRel(<, Nat)
<1>1. PICK x \in S : \A y \in S : ~ (<<y, x>> \in R)
  <2>1. IsWellFoundedOn(R, Nat)
    BY NatLessThanWellFounded
  <2> HIDE DEF R
  <2> QED
    BY <2>1, WFMin
<1>2. ASSUME NEW y \in S PROVE x <= y
  <2>1. x \in Nat /\ y \in Nat /\ ~ (y < x)
    BY <1>1 DEF OpToRel
  <2> QED
    BY <2>1
<1> QED
  BY <1>2

(* The text s stands in t at k.                                             *)
StandsAt(s, t, k) ==
  k \in 1..(Len(t) - Len(s) + 1) /\ \A j \in 1..Len(s) : t[k + j - 1] = s[j]

(* What find() returns.                                                     *)
Finds(s, t, f) ==
  \/ f = npos /\ \A k \in Nat : ~ StandsAt(s, t, k)
  \/ f \in Nat /\ f # npos /\ StandsAt(s, t, f) /\ \A k \in Nat : StandsAt(s, t, k) => f <= k

(* substr() compared with s says that s stands there.                       *)
LEMMA PieceOf ==
  ASSUME NEW s \in Seq(Pieces), NEW t \in Seq(Pieces), Len(s) >= 1,
         NEW k \in 1..(Len(t) - Len(s) + 1)
  PROVE  SubSeq(t, k, k + Len(s) - 1) = s <=> StandsAt(s, t, k)
<1>1. Len(s) \in Nat /\ Len(t) \in Nat /\ k \in Nat /\ k + Len(s) - 1 \in Int /\ k \in Int
  BY LenProperties
<1>2. \A j \in k..(k + Len(s) - 1) : j \in 1..Len(t)
  BY <1>1
<1>3. \A j \in k..(k + Len(s) - 1) : t[j] \in Pieces
  BY <1>2, ElementOfSeq
<1> DEFINE u == SubSeq(t, k, k + Len(s) - 1)
<1>4. /\ u \in Seq(Pieces)
      /\ Len(u) = IF k <= k + Len(s) - 1 THEN (k + Len(s) - 1) - k + 1 ELSE 0
      /\ \A j \in 1..((k + Len(s) - 1) - k + 1) : u[j] = t[k + j - 1]
  BY <1>1, <1>3, SubSeqProperties, SMTT(30)
<1> HIDE DEF u
<1>5. Len(u) = Len(s) /\ (k + Len(s) - 1) - k + 1 = Len(s)
  BY <1>1, <1>4
<1>6. \A j \in 1..Len(s) : u[j] = t[k + j - 1]
  BY <1>4, <1>5
<1>7. u = s => StandsAt(s, t, k)
  BY <1>6 DEF StandsAt
<1>8. StandsAt(s, t, k) => u = s
  <2> SUFFICES ASSUME StandsAt(s, t, k) PROVE u = s
    OBVIOUS
  <2>1. \A j \in 1..Len(u) : u[j] = s[j]
    BY <1>5, <1>6 DEF StandsAt
  <2> QED
    BY <1>4, <1>5, <2>1, SeqEqual
<1> QED
  BY <1>7, <1>8 DEF u

(* What find() returns that begins at place p.                              *)
FindsFrom(s, t, p, f) ==
  \/ f = npos /\ \A k \in Nat : p <= k => ~ StandsAt(s, t, k)
  \/ /\ f \in Nat /\ p <= f /\ f # npos /\ StandsAt(s, t, f)
     /\ \A k \in Nat : p <= k /\ StandsAt(s, t, k) => f <= k

(* FindFrom is the least place from p on where s stands in t.               *)
LEMMA FoundFrom ==
  ASSUME NEW s \in Seq(Pieces), NEW t \in Seq(Pieces), Len(s) >= 1, NEW p \in Nat, p >= 1
  PROVE  FindsFrom(s, t, p, FindFrom(s, t, p))
<1> DEFINE at == {k \in p..(Len(t) - Len(s) + 1) : SubSeq(t, k, k + Len(s) - 1) = s}
<1>1. FindFrom(s, t, p) = IF at = {} THEN npos ELSE CHOOSE k \in at : \A j \in at : k <= j
  BY DEF FindFrom
<1>2. \A k \in Nat : k \in at <=> p <= k /\ StandsAt(s, t, k)
  <2>1. ASSUME NEW k \in Nat PROVE k \in at <=> p <= k /\ StandsAt(s, t, k)
    <3>1. Len(s) \in Nat /\ Len(t) \in Nat
      BY LenProperties
    <3>2. k \in p..(Len(t) - Len(s) + 1) <=> p <= k /\ k \in 1..(Len(t) - Len(s) + 1)
      BY <3>1
    <3>3. StandsAt(s, t, k) => k \in 1..(Len(t) - Len(s) + 1)
      BY DEF StandsAt
    <3> QED
      BY <3>2, <3>3, PieceOf
  <2> QED
    BY <2>1
<1>3. at \subseteq Nat /\ npos \notin at
  BY DEF npos
<1> HIDE DEF at
<1>4. CASE at = {}
  BY <1>1, <1>2, <1>4 DEF FindsFrom
<1>5. CASE at # {}
  <2> DEFINE f == CHOOSE k \in at : \A j \in at : k <= j
  <2>1. \E k \in at : \A j \in at : k <= j
    BY <1>3, <1>5, LeastIn
  <2>2. f \in at /\ \A j \in at : f <= j
    BY <2>1
  <2>3. FindFrom(s, t, p) = f
    BY <1>1, <1>5
  <2> HIDE DEF f
  <2> QED
    BY <1>2, <1>3, <2>2, <2>3 DEF FindsFrom
<1> QED
  BY <1>4, <1>5

(* Find is the least place where s stands in t, npos if there is none.      *)
LEMMA Found ==
  ASSUME NEW s \in Seq(Pieces), NEW t \in Seq(Pieces), Len(s) >= 1
  PROVE  Finds(s, t, Find(s, t))
<1>1. Find(s, t) = FindFrom(s, t, 1)
  BY DEF Find
<1>2. FindsFrom(s, t, 1, FindFrom(s, t, 1))
  BY FoundFrom
<1>3. \A k \in Nat : StandsAt(s, t, k) => 1 <= k
  BY DEF StandsAt
<1> DEFINE f == FindFrom(s, t, 1)
<1> HIDE DEF f
<1>4. Finds(s, t, f)
  BY <1>2, <1>3 DEF FindsFrom, Finds, f
<1> QED
  BY <1>1, <1>4 DEF f

(* The texts that are looked for.                                           *)
LEMMA Spelled ==
  ASSUME NEW D, NEW w \in Seq(D), \A d \in D : Piece(d) \in Pieces
  PROVE  /\ Str(w) \in Seq(Pieces) /\ Len(Str(w)) = Len(w)
         /\ \A k \in 1..Len(w) : Str(w)[k] = Piece(w[k])
<1> DEFINE n == Len(w)
<1>1. n \in Nat /\ DOMAIN w = 1..n
  BY LenProperties
<1>2. Str(w) = [k \in 1..n |-> Piece(w[k])]
  BY <1>1 DEF Str
<1>3. \A k \in 1..n : Piece(w[k]) \in Pieces
  BY ElementOfSeq
<1> DEFINE u == Str(w)
<1>4. u = [k \in 1..n |-> Piece(w[k])]
  BY <1>2
<1> HIDE DEF n, u
<1>5. u \in [1..n -> Pieces]
  BY <1>3, <1>4
<1>6. u \in Seq(Pieces)
  BY <1>1, <1>5, SeqDef
<1>7. Len(u) = n /\ \A k \in 1..n : u[k] = Piece(w[k])
  BY <1>1, <1>4, <1>5, <1>6, LenProperties
<1> QED
  BY <1>6, <1>7 DEF n, u

(* The characters that init() looks for are among the letters.              *)
LEMMA LettersAre ==
  "http" \in Letters /\ "s" \in Letters /\ ":" \in Letters /\ "/" \in Letters
  BY LettersAssumption

(* A letter is a piece of text,                                             *)
LEMMA Pieced ==
  ASSUME NEW c \in Letters
  PROVE  Piece(c) \in Pieces
<1>1. <<c, 0>> \in Letters \X {0}
  OBVIOUS
<1> QED
  BY <1>1 DEF Piece, Pieces, Characters

(* and so is a number, which is neither a slash nor a colon.                *)
LEMMA Numbered ==
  ASSUME NEW n \in Int
  PROVE  Num(n) \in Pieces /\ Num(n)[2] = n /\ Num(n) # Piece("/") /\ Num(n) # Piece(":")
<1>1. <<"number", n>> \in {"number"} \X Int
  OBVIOUS
<1> QED
  BY <1>1 DEF Num, Piece, Pieces

(* The pieces that the prefixes are made of are not the same.               *)
LEMMA Differ ==
  /\ Piece("/") # Piece(":") /\ Piece("s") # Piece(":") /\ Piece("s") # Piece("http")
  /\ Piece("/") # Piece("http") /\ Piece(":") # Piece("http")
  BY DEF Piece

(* Short tuples, element by element.                                        *)
LEMMA Listed ==
  ASSUME NEW D, NEW a \in D, NEW b \in D, NEW c \in D, NEW d \in D, NEW e \in D
  PROVE  /\ <<a>> \in Seq(D) /\ Len(<<a>>) = 1 /\ <<a>>[1] = a
         /\ <<a, b, c, d>> \in Seq(D) /\ Len(<<a, b, c, d>>) = 4
         /\ <<a, b, c, d>>[1] = a /\ <<a, b, c, d>>[2] = b
         /\ <<a, b, c, d>>[3] = c /\ <<a, b, c, d>>[4] = d
         /\ <<a, b, c, d, e>> \in Seq(D) /\ Len(<<a, b, c, d, e>>) = 5
         /\ <<a, b, c, d, e>>[1] = a /\ <<a, b, c, d, e>>[2] = b
         /\ <<a, b, c, d, e>>[3] = c /\ <<a, b, c, d, e>>[4] = d /\ <<a, b, c, d, e>>[5] = e
  OBVIOUS

(* A tuple of two.                                                          *)
LEMMA ListedPair ==
  ASSUME NEW D, NEW a \in D, NEW b \in D
  PROVE  <<a, b>> \in Seq(D) /\ Len(<<a, b>>) = 2 /\ <<a, b>>[1] = a /\ <<a, b>>[2] = b
  OBVIOUS

(* The two prefixes, piece by piece.                                        *)
LEMMA Words ==
  /\ http \in Seq(Pieces) /\ Len(http) = 4
  /\ http[1] = Piece("http") /\ http[2] = Piece(":") /\ http[3] = Piece("/") /\ http[4] = Piece("/")
  /\ https \in Seq(Pieces) /\ Len(https) = 5
  /\ https[1] = Piece("http") /\ https[2] = Piece("s") /\ https[3] = Piece(":")
  /\ https[4] = Piece("/") /\ https[5] = Piece("/")
<1> DEFINE D == {"http", "s", ":", "/"}
           v == <<"http", ":", "/", "/">>
           w == <<"http", "s", ":", "/", "/">>
<1>1. "http" \in D /\ "s" \in D /\ ":" \in D /\ "/" \in D
  OBVIOUS
<1>2. \A d \in D : Piece(d) \in Pieces
  BY LettersAre, Pieced
<1> HIDE DEF D
<1>3. /\ v \in Seq(D) /\ Len(v) = 4
      /\ v[1] = "http" /\ v[2] = ":" /\ v[3] = "/" /\ v[4] = "/"
  BY <1>1, Listed
<1>4. /\ w \in Seq(D) /\ Len(w) = 5
      /\ w[1] = "http" /\ w[2] = "s" /\ w[3] = ":" /\ w[4] = "/" /\ w[5] = "/"
  BY <1>1, Listed
<1>5. http = Str(v) /\ https = Str(w)
  BY DEF http, https
<1> HIDE DEF v, w
<1>6. /\ http \in Seq(Pieces) /\ Len(http) = 4
      /\ \A k \in 1..4 : http[k] = Piece(v[k])
  BY <1>2, <1>3, <1>5, Spelled
<1>7. /\ https \in Seq(Pieces) /\ Len(https) = 5
      /\ \A k \in 1..5 : https[k] = Piece(w[k])
  BY <1>2, <1>4, <1>5, Spelled
<1> QED
  BY <1>3, <1>4, <1>6, <1>7

(* The text of a single character.                                          *)
LEMMA Letter ==
  ASSUME NEW c, Piece(c) \in Pieces
  PROVE  Str(<<c>>) \in Seq(Pieces) /\ Len(Str(<<c>>)) = 1 /\ Str(<<c>>)[1] = Piece(c)
<1> DEFINE D == {c}
           w == <<c>>
<1>1. c \in D /\ \A d \in D : Piece(d) \in Pieces
  OBVIOUS
<1> HIDE DEF D
<1>2. w \in Seq(D) /\ Len(w) = 1 /\ w[1] = c
  BY <1>1, Listed
<1> HIDE DEF w
<1>3. /\ Str(w) \in Seq(Pieces) /\ Len(Str(w)) = 1 /\ Str(w)[1] = Piece(c)
  BY <1>1, <1>2, Spelled
<1> QED
  BY <1>3 DEF w

(* The first place of a letter.                                             *)
FirstOf(c, t, f) ==
  \/ f = npos /\ \A k \in 1..Len(t) : t[k] # Piece(c)
  \/ f \in 1..Len(t) /\ t[f] = Piece(c) /\ \A k \in 1..(f - 1) : t[k] # Piece(c)

(* The first place of a letter from p on.                                   *)
FirstFrom(c, t, p, f) ==
  \/ f = npos /\ \A k \in p..Len(t) : t[k] # Piece(c)
  \/ f \in p..Len(t) /\ f # npos /\ t[f] = Piece(c) /\ \A k \in p..(f - 1) : t[k] # Piece(c)

(* A letter stands where it is.                                             *)
LEMMA LetterStands ==
  ASSUME NEW c, Piece(c) \in Pieces, NEW t \in Seq(Pieces), NEW k \in Nat
  PROVE  StandsAt(Str(<<c>>), t, k) <=> k \in 1..Len(t) /\ t[k] = Piece(c)
<1> DEFINE s == Str(<<c>>)
<1>1. Len(s) = 1 /\ s[1] = Piece(c)
  BY Letter
<1> HIDE DEF s
<1>2. Len(t) \in Nat
  BY LenProperties
<1>3. k + 1 - 1 = k /\ Len(t) - 1 + 1 = Len(t)
  BY <1>2
<1>4. StandsAt(s, t, k) <=> k \in 1..(Len(t) - 1 + 1) /\ \A j \in 1..1 : t[k + j - 1] = s[j]
  BY <1>1 DEF StandsAt
<1>5. (\A j \in 1..1 : t[k + j - 1] = s[j]) <=> t[k + 1 - 1] = s[1]
  OBVIOUS
<1> QED
  BY <1>1, <1>3, <1>4, <1>5 DEF s

(* FindFrom of a single character.                                          *)
LEMMA LetterFrom ==
  ASSUME NEW c, Piece(c) \in Pieces, NEW t \in Seq(Pieces), NEW p \in Nat, p >= 1
  PROVE  FirstFrom(c, t, p, FindFrom(Str(<<c>>), t, p))
<1> DEFINE s == Str(<<c>>)
           f == FindFrom(s, t, p)
<1>1. s \in Seq(Pieces) /\ Len(s) = 1
  BY Letter
<1>2. \A k \in Nat : StandsAt(s, t, k) <=> k \in 1..Len(t) /\ t[k] = Piece(c)
  BY LetterStands
<1> HIDE DEF s
<1>3. FindsFrom(s, t, p, f)
  <2>1. Len(s) >= 1
    BY <1>1
  <2> QED
    BY <1>1, <2>1, FoundFrom
<1>4. Len(t) \in Nat
  BY LenProperties
<1> HIDE DEF f
<1>5. CASE f = npos /\ \A k \in Nat : p <= k => ~ StandsAt(s, t, k)
  <2>1. ASSUME NEW k \in p..Len(t) PROVE t[k] # Piece(c)
    <3>1. k \in Nat /\ p <= k /\ k \in 1..Len(t)
      BY <1>4
    <3> QED
      BY <1>2, <1>5, <3>1
  <2> QED
    BY <1>5, <2>1 DEF FirstFrom, f, s
<1>6. CASE /\ f \in Nat /\ p <= f /\ f # npos /\ StandsAt(s, t, f)
           /\ \A k \in Nat : p <= k /\ StandsAt(s, t, k) => f <= k
  <2>1. f \in 1..Len(t) /\ t[f] = Piece(c)
    BY <1>2, <1>6
  <2>2. f \in p..Len(t)
    BY <1>4, <1>6, <2>1
  <2>3. ASSUME NEW k \in p..(f - 1) PROVE t[k] # Piece(c)
    <3>1. k \in Nat /\ p <= k /\ k \in 1..Len(t) /\ ~ (f <= k)
      BY <1>4, <2>1
    <3> QED
      BY <1>2, <1>6, <3>1
  <2> QED
    BY <1>6, <2>1, <2>2, <2>3 DEF FirstFrom, f, s
<1> QED
  BY <1>3, <1>5, <1>6 DEF FindsFrom

(* Find of a single character.                                              *)
LEMMA FoundLetter ==
  ASSUME NEW c, Piece(c) \in Pieces, NEW t \in Seq(Pieces)
  PROVE  FirstOf(c, t, Find(Str(<<c>>), t))
<1> DEFINE f == FindFrom(Str(<<c>>), t, 1)
<1>1. Find(Str(<<c>>), t) = f
  BY DEF Find
<1>2. FirstFrom(c, t, 1, f)
  BY LetterFrom
<1> HIDE DEF f
<1>3. FirstOf(c, t, f)
  BY <1>2 DEF FirstFrom, FirstOf
<1> QED
  BY <1>1, <1>3


(* b is what is before place k of t, and f what is from there on.           *)
Halves(b, f, t, k) ==
  /\ b \in Seq(Pieces) /\ Len(b) = k - 1 /\ \A j \in 1..(k - 1) : b[j] = t[j]
  /\ f \in Seq(Pieces) /\ Len(f) = Len(t) - k + 1
  /\ \A j \in 1..(Len(t) - k + 1) : f[j] = t[k + j - 1]

(* Before and From cut a text in two.                                       *)
LEMMA Cut ==
  ASSUME NEW t \in Seq(Pieces), NEW k \in 1..(Len(t) + 1)
  PROVE  Halves(Before(t, k), From(t, k), t, k)
<1>1. Len(t) \in Nat /\ k \in Int /\ Len(t) \in Int /\ k - 1 \in Int /\ 1 \in Int /\ 1 <= k /\ k <= Len(t) + 1
  BY LenProperties
<1>2. \A j \in 1..Len(t) : t[j] \in Pieces
  BY ElementOfSeq
<1>3. \A j \in 1..(k - 1) : t[j] \in Pieces
  BY <1>1, <1>2
<1>4. \A j \in k..Len(t) : t[j] \in Pieces
  BY <1>1, <1>2
<1> DEFINE b == SubSeq(t, 1, k - 1)
           f == SubSeq(t, k, Len(t))
<1>5. /\ b \in Seq(Pieces) /\ Len(b) = IF 1 <= k - 1 THEN (k - 1) - 1 + 1 ELSE 0
      /\ \A j \in 1..((k - 1) - 1 + 1) : b[j] = t[1 + j - 1]
  BY <1>1, <1>3, SubSeqProperties
<1>6. /\ f \in Seq(Pieces) /\ Len(f) = IF k <= Len(t) THEN Len(t) - k + 1 ELSE 0
      /\ \A j \in 1..(Len(t) - k + 1) : f[j] = t[k + j - 1]
  BY <1>1, <1>4, SubSeqProperties
<1> HIDE DEF b, f
<1>7. Len(b) = k - 1 /\ Len(f) = Len(t) - k + 1
  BY <1>1, <1>5, <1>6
<1>8. ASSUME NEW j \in 1..(k - 1) PROVE b[j] = t[j]
  <2>1. (k - 1) - 1 + 1 = k - 1 /\ 1 + j - 1 = j
    BY <1>1
  <2>2. b[j] = t[1 + j - 1]
    BY <1>5, <2>1
  <2> QED
    BY <2>1, <2>2
<1>9. Halves(b, f, t, k)
  BY <1>5, <1>6, <1>7, <1>8 DEF Halves
<1> QED
  BY <1>9 DEF b, f, Before, From

(* Two texts joined come apart again.                                       *)
LEMMA Apart ==
  ASSUME NEW s \in Seq(Pieces), NEW t \in Seq(Pieces)
  PROVE  Before(s \o t, Len(s) + 1) = s /\ From(s \o t, Len(s) + 1) = t
<1> DEFINE u == s \o t
           k == Len(s) + 1
           b == Before(u, k)
           f == From(u, k)
<1>1. /\ u \in Seq(Pieces) /\ Len(u) = Len(s) + Len(t)
      /\ \A e \in 1..(Len(s) + Len(t)) : u[e] = IF e <= Len(s) THEN s[e] ELSE t[e - Len(s)]
  BY ConcatProperties
<1>2. Len(s) \in Nat /\ Len(t) \in Nat
  BY LenProperties
<1>3. k \in 1..(Len(u) + 1) /\ k - 1 = Len(s) /\ Len(u) - k + 1 = Len(t)
  BY <1>1, <1>2
<1> HIDE DEF u, k
<1>4. Halves(b, f, u, k)
  BY <1>1, <1>3, Cut
<1> HIDE DEF b, f
<1>5. b = s
  <2>1. ASSUME NEW j \in 1..Len(b) PROVE b[j] = s[j]
    <3>1. j \in 1..Len(s) /\ b[j] = u[j]
      BY <1>3, <1>4 DEF Halves
    <3>2. j \in 1..(Len(s) + Len(t)) /\ j <= Len(s)
      BY <1>2, <3>1
    <3> QED
      BY <1>1, <3>1, <3>2
  <2>2. Len(b) = Len(s) /\ b \in Seq(Pieces)
    BY <1>3, <1>4 DEF Halves
  <2> QED
    BY <2>1, <2>2, SeqEqual
<1>6. f = t
  <2>1. ASSUME NEW j \in 1..Len(f) PROVE f[j] = t[j]
    <3>1. j \in 1..Len(t) /\ f[j] = u[k + j - 1]
      BY <1>3, <1>4 DEF Halves
    <3>2. k + j - 1 = Len(s) + j
      BY <1>2, <3>1 DEF k
    <3>3. Len(s) + j \in 1..(Len(s) + Len(t)) /\ ~ (Len(s) + j <= Len(s)) /\ (Len(s) + j) - Len(s) = j
      BY <1>2, <3>1
    <3>4. u[Len(s) + j] = t[(Len(s) + j) - Len(s)]
      BY <1>1, <3>3
    <3> QED
      BY <3>1, <3>2, <3>3, <3>4
  <2>2. Len(f) = Len(t) /\ f \in Seq(Pieces)
    BY <1>3, <1>4 DEF Halves
  <2> QED
    BY <2>1, <2>2, SeqEqual
<1> QED
  BY <1>5, <1>6 DEF b, f, u, k

(* Neither a slash nor a colon is in it.                                    *)
Clean(h) == \A k \in 1..Len(h) : h[k] # Piece("/") /\ h[k] # Piece(":")

(* The literals of the 16 bits are opened only here.                        *)
Half == 32768

(* 2^16 values,                                                             *)
LEMMA Halfs == Half + Half = 65536
  BY SMTT(60) DEF Half

(* among them the ports of both schemes.                                    *)
LEMMA HalfLarge == Half \in Nat /\ Half > 443
  BY SMTT(60) DEF Half

(* The conversions of rurl.h, with the literals closed:                     *)
LEMMA ToShortIs ==
  ASSUME NEW n \in Int
  PROVE  ToShort(n) = ((n + Half) % (Half + Half)) - Half
  BY Halfs, SMTT(60) DEF ToShort, Half

(* to the short, and back to the unsigned short.                            *)
LEMMA ToUnsignedIs ==
  ASSUME NEW n \in Int
  PROVE  ToUnsigned(n) = n % (Half + Half)
  BY Halfs, SMTT(60) DEF ToUnsigned

(* A port is a number of 16 bits.                                           *)
LEMMA PortIs ==
  ASSUME NEW p \in Ports
  PROVE  p \in Nat /\ p < Half + Half
  BY SMTT(60) DEF Ports, Half

(* What a short can hold.                                                   *)
Short(n) == n \in Int /\ 0 <= n + Half /\ n < Half

(* The ports that the class knows itself.                                   *)
LEMMA WellKnown == Short(443) /\ Short(80) /\ Short(0)
  BY HalfLarge DEF Short

(* Remainders of numbers that are off by at most n.                         *)
LEMMA Remainders ==
  ASSUME NEW r \in Nat, NEW n \in Nat, r < n
  PROVE  r % n = r /\ (r + n) % n = r /\ (r - n) % n = r
  OBVIOUS

(* A remainder is a number below n.                                         *)
LEMMA RemainderIs ==
  ASSUME NEW v \in Int, NEW n \in Nat, n > 0
  PROVE  v % n \in Int /\ 0 <= v % n /\ v % n < n
  OBVIOUS

(* What is assigned to msh_port is a short.                                 *)
LEMMA ShortIs ==
  ASSUME NEW n \in Int
  PROVE  Short(ToShort(n))
<1> DEFINE w == Half + Half
           r == (n + Half) % w
<1>1. w \in Nat /\ w > 0 /\ n + Half \in Int /\ Half \in Nat
  BY HalfLarge
<1>2. r \in Int /\ 0 <= r /\ r < w
  <2> HIDE DEF w
  <2> QED
    BY <1>1, RemainderIs
<1>3. ToShort(n) = r - Half
  BY ToShortIs
<1> HIDE DEF r
<1>4. r - Half \in Int /\ 0 <= (r - Half) + Half /\ r - Half < Half
  BY <1>1, <1>2
<1> QED
  BY <1>3, <1>4 DEF Short

(* A short that is printed and read again is the same.                      *)
LEMMA ShortStays ==
  ASSUME NEW n, Short(n)
  PROVE  ToShort(n) = n
<1> DEFINE w == Half + Half
           v == n + Half
<1>1. n \in Int /\ Half \in Nat /\ w \in Nat /\ v \in Nat /\ v < w /\ v - Half = n
  BY HalfLarge DEF Short
<1>2. ToShort(n) = (v % w) - Half
  BY <1>1, ToShortIs
<1> HIDE DEF v, w
<1>3. v % w = v
  BY <1>1, Remainders
<1> QED
  BY <1>1, <1>2, <1>3

(* A port survives the short.                                               *)
LEMMA PortStays ==
  ASSUME NEW p \in Ports
  PROVE  ToUnsigned(ToShort(p)) = p
<1> DEFINE w == Half + Half
<1>1. p \in Nat /\ p < w /\ Half \in Nat /\ w \in Nat
  BY HalfLarge, PortIs
<1>2. CASE p < Half
  <2>1. Short(p)
    BY <1>1, <1>2 DEF Short
  <2>2. p % w = p
    <3> HIDE DEF w
    <3> QED
      BY <1>1, Remainders
  <2> QED
    BY <1>1, <2>1, <2>2, ShortStays, ToUnsignedIs
<1>3. CASE ~ (p < Half)
  <2> DEFINE r == p - Half
  <2>1. r \in Nat /\ r < w /\ p + Half = r + w /\ r - Half = p - w /\ p - w \in Int /\ p \in Int
    BY <1>1, <1>3
  <2>2. (r + w) % w = r /\ (p - w) % w = p
    <3> HIDE DEF w, r
    <3> QED
      BY <1>1, <2>1, Remainders
  <2>3. ToShort(p) = p - w
    <3>1. ToShort(p) = ((p + Half) % w) - Half
      BY <2>1, ToShortIs
    <3> QED
      BY <2>1, <2>2, <3>1
  <2> QED
    BY <2>1, <2>2, <2>3, ToUnsignedIs
<1> QED
  BY <1>2, <1>3

(* atoi() returns a number, whatever it reads.                              *)
LEMMA AtoiIs ==
  ASSUME NEW s \in Seq(Pieces)
  PROVE  Atoi(s) \in Int
<1>1. CASE s # <<>> /\ s[1] = Num(s[1][2])
  <2>1. 1 \in 1..Len(s)
    BY <1>1, EmptySeq
  <2>2. s[1] \in Pieces
    BY <2>1, ElementOfSeq
  <2>3. s[1][2] \in Int
    BY <2>2 DEF Pieces, Characters
  <2> QED
    BY <1>1, <2>3 DEF Atoi
<1>2. CASE ~ (s # <<>> /\ s[1] = Num(s[1][2]))
  BY <1>2 DEF Atoi
<1> QED
  BY <1>1, <1>2

(* What is left of a text after its scheme is a text.                       *)
LEMMA AfterAny ==
  ASSUME NEW t \in Seq(Pieces)
  PROVE  AfterScheme(t) \in Seq(Pieces)
<1> DEFINE k1 == Find(http, t)
           k2 == Find(https, t)
<1>1. Finds(http, t, k1) /\ Finds(https, t, k2)
  <2>1. Len(http) >= 1 /\ Len(https) >= 1 /\ http \in Seq(Pieces) /\ https \in Seq(Pieces)
    BY Words
  <2> QED
    BY <2>1, Found
<1> HIDE DEF k1, k2
<1>2. Len(t) \in Nat
  BY LenProperties
<1>3. CASE k1 # npos
  <2>1. k1 \in 1..(Len(t) - 4 + 1)
    BY <1>1, <1>3, Words DEF Finds, StandsAt
  <2>2. k1 + 4 \in 1..(Len(t) + 1)
    BY <1>2, <2>1
  <2>3. From(t, k1 + 4) \in Seq(Pieces)
    BY <2>2, Cut DEF Halves
  <2> QED
    BY <1>3, <2>3, Words DEF AfterScheme, k1
<1>4. CASE k1 = npos /\ k2 # npos
  <2>1. k2 \in 1..(Len(t) - 5 + 1)
    BY <1>1, <1>4, Words DEF Finds, StandsAt
  <2>2. k2 + 5 \in 1..(Len(t) + 1)
    BY <1>2, <2>1
  <2>3. From(t, k2 + 5) \in Seq(Pieces)
    BY <2>2, Cut DEF Halves
  <2> QED
    BY <1>4, <2>3, Words DEF AfterScheme, k1, k2
<1>5. CASE k1 = npos /\ k2 = npos
  BY <1>5 DEF AfterScheme, k1, k2
<1> QED
  BY <1>3, <1>4, <1>5

(* Whatever the text, init() takes a host without a port or a path in it    *)
(* and a short.                                                             *)
LEMMA ParseAny ==
  ASSUME NEW t \in Seq(Pieces), ms_path \in Seq(Pieces), Parse(t)
  PROVE  /\ ms_host' \in Seq(Pieces) /\ Clean(ms_host')
         /\ ms_path' \in Seq(Pieces) /\ Short(msh_port')
<1> DEFINE d == AfterScheme(t)
           p2 == Find(slash, d)
           d1 == IF p2 = npos THEN d ELSE Before(d, p2)
           p3 == Find(Str(<<":">>), d1)
<1>1. /\ ms_path' = IF p2 = npos THEN ms_path ELSE From(d, p2)
      /\ ms_host' = IF p3 = npos THEN d1 ELSE Before(d1, p3)
      /\ msh_port' = IF p3 # npos THEN ToShort(Atoi(From(d1, p3 + 1)))
                     ELSE IF IsHttps(t) THEN 443 ELSE 80
  BY DEF Parse
<1>2. d \in Seq(Pieces)
  BY AfterAny
<1>3. FirstOf("/", d, p2)
  BY <1>2, LettersAre, Pieced, FoundLetter DEF slash
<1> HIDE DEF d, p2
<1>4. Len(d) \in Nat
  BY <1>2, LenProperties
<1>5. d1 \in Seq(Pieces) /\ (\A k \in 1..Len(d1) : d1[k] # Piece("/")) /\ ms_path' \in Seq(Pieces)
  <2>1. CASE p2 = npos
    BY <1>1, <1>2, <1>3, <2>1 DEF FirstOf, npos
  <2>2. CASE p2 # npos
    <3>1. p2 \in 1..Len(d) /\ \A k \in 1..(p2 - 1) : d[k] # Piece("/")
      BY <1>3, <2>2 DEF FirstOf
    <3>2. p2 \in 1..(Len(d) + 1)
      BY <1>4, <3>1
    <3>3. Halves(Before(d, p2), From(d, p2), d, p2)
      BY <1>2, <3>2, Cut
    <3> QED
      BY <1>1, <2>2, <3>1, <3>3 DEF Halves
  <2> QED
    BY <2>1, <2>2
<1> HIDE DEF d1
<1>6. FirstOf(":", d1, p3)
  BY <1>5, LettersAre, Pieced, FoundLetter
<1> HIDE DEF p3
<1>7. Len(d1) \in Nat
  BY <1>5, LenProperties
<1>8. CASE p3 = npos
  <2>1. \A k \in 1..Len(d1) : d1[k] # Piece(":")
    BY <1>6, <1>8 DEF FirstOf, npos
  <2>2. ms_host' = d1 /\ (msh_port' = 443 \/ msh_port' = 80)
    BY <1>1, <1>8
  <2>3. Short(msh_port')
    BY <2>2, WellKnown
  <2> QED
    BY <1>5, <2>1, <2>2, <2>3 DEF Clean
<1>9. CASE p3 # npos
  <2>1. p3 \in 1..Len(d1) /\ \A k \in 1..(p3 - 1) : d1[k] # Piece(":")
    BY <1>6, <1>9 DEF FirstOf
  <2>2. p3 \in 1..(Len(d1) + 1) /\ p3 + 1 \in 1..(Len(d1) + 1)
    BY <1>7, <2>1
  <2>3. Halves(Before(d1, p3), From(d1, p3), d1, p3)
    BY <1>5, <2>2, Cut
  <2>4. Halves(Before(d1, p3 + 1), From(d1, p3 + 1), d1, p3 + 1)
    BY <1>5, <2>2, Cut
  <2> DEFINE h == Before(d1, p3)
             r == From(d1, p3 + 1)
  <2>5. ms_host' = h /\ msh_port' = ToShort(Atoi(r))
    BY <1>1, <1>9
  <2>6. r \in Seq(Pieces)
    BY <2>4 DEF Halves
  <2>7. /\ h \in Seq(Pieces) /\ Len(h) = p3 - 1 /\ \A j \in 1..(p3 - 1) : h[j] = d1[j]
    BY <2>3 DEF Halves
  <2> HIDE DEF h, r
  <2>8. Short(msh_port')
    BY <2>5, <2>6, AtoiIs, ShortIs
  <2>9. ASSUME NEW k \in 1..Len(h) PROVE h[k] # Piece("/") /\ h[k] # Piece(":")
    <3>1. k \in 1..(p3 - 1) /\ k \in 1..Len(d1)
      BY <1>7, <2>1, <2>7
    <3> QED
      BY <1>5, <2>1, <2>7, <3>1
  <2> QED
    BY <1>5, <2>5, <2>7, <2>8, <2>9 DEF Clean
<1> QED
  BY <1>8, <1>9


(* u is s and then t.                                                       *)
Joins(u, s, t) ==
  /\ u \in Seq(Pieces) /\ Len(u) = Len(s) + Len(t) /\ Len(s) \in Nat /\ Len(t) \in Nat
  /\ \A k \in 1..Len(s) : u[k] = s[k]
  /\ \A k \in 1..Len(t) : u[Len(s) + k] = t[k]

(* Two texts joined, piece by piece.                                        *)
LEMMA Joined ==
  ASSUME NEW s \in Seq(Pieces), NEW t \in Seq(Pieces)
  PROVE  Joins(s \o t, s, t)
<1> DEFINE u == s \o t
<1>1. /\ u \in Seq(Pieces) /\ Len(u) = Len(s) + Len(t)
      /\ \A e \in 1..(Len(s) + Len(t)) : u[e] = IF e <= Len(s) THEN s[e] ELSE t[e - Len(s)]
  BY ConcatProperties
<1>2. Len(s) \in Nat /\ Len(t) \in Nat
  BY LenProperties
<1> HIDE DEF u
<1>3. ASSUME NEW k \in 1..Len(s) PROVE u[k] = s[k]
  <2>1. k \in 1..(Len(s) + Len(t)) /\ k <= Len(s)
    BY <1>2
  <2> QED
    BY <1>1, <2>1
<1>4. ASSUME NEW k \in 1..Len(t) PROVE u[Len(s) + k] = t[k]
  <2>1. /\ Len(s) + k \in 1..(Len(s) + Len(t)) /\ ~ (Len(s) + k <= Len(s))
        /\ (Len(s) + k) - Len(s) = k
    BY <1>2
  <2>2. u[Len(s) + k] = t[(Len(s) + k) - Len(s)]
    BY <1>1, <2>1
  <2> QED
    BY <2>1, <2>2
<1>5. Joins(u, s, t)
  BY <1>1, <1>2, <1>3, <1>4 DEF Joins
<1> QED
  BY <1>5 DEF u

(* What a text begins with is found in its first place.                     *)
LEMMA FoundFirst ==
  ASSUME NEW s \in Seq(Pieces), NEW t \in Seq(Pieces), Len(s) >= 1
  PROVE  Find(s, s \o t) = 1
<1> DEFINE u == s \o t
           f == Find(s, u)
<1>1. Joins(u, s, t)
  BY Joined
<1> HIDE DEF u
<1>2. u \in Seq(Pieces) /\ Len(u) = Len(s) + Len(t) /\ Len(s) \in Nat /\ Len(t) \in Nat
  BY <1>1 DEF Joins
<1>3. Finds(s, u, f)
  BY <1>2, Found
<1> HIDE DEF f
<1>4. StandsAt(s, u, 1)
  <2>1. 1 \in 1..(Len(u) - Len(s) + 1)
    BY <1>2
  <2>2. ASSUME NEW j \in 1..Len(s) PROVE u[1 + j - 1] = s[j]
    <3>1. 1 + j - 1 = j
      OBVIOUS
    <3> QED
      BY <1>1, <3>1 DEF Joins
  <2> QED
    BY <2>1, <2>2 DEF StandsAt
<1>5. f \in Nat /\ StandsAt(s, u, f) /\ f <= 1
  BY <1>3, <1>4 DEF Finds
<1>6. f >= 1
  BY <1>5 DEF StandsAt
<1>7. f = 1
  BY <1>5, <1>6
<1> QED
  BY <1>7 DEF f, u

(* The host and the port, if there is one.                                  *)
PortText(q, n) == IF q THEN <<Piece(":"), Num(n)>> ELSE <<>>
Authority(h, q, n) == h \o PortText(q, n)

(* The text of a port, and of none.                                         *)
LEMMA PortTextIs ==
  ASSUME NEW n \in Int
  PROVE  /\ PortText(TRUE, n) \in Seq(Pieces) /\ Len(PortText(TRUE, n)) = 2
         /\ PortText(TRUE, n)[1] = Piece(":") /\ PortText(TRUE, n)[2] = Num(n)
         /\ PortText(FALSE, n) \in Seq(Pieces) /\ PortText(FALSE, n) = <<>> /\ Len(PortText(FALSE, n)) = 0
<1> DEFINE c == Piece(":")
           d == Num(n)
           p == PortText(TRUE, n)
<1>1. c \in Pieces /\ d \in Pieces
  BY LettersAre, Pieced, Numbered
<1>2. p = <<c, d>> /\ PortText(FALSE, n) = <<>>
  BY DEF PortText
<1> HIDE DEF c, d, p
<1>3. p \in Seq(Pieces) /\ Len(p) = 2 /\ p[1] = c /\ p[2] = d
  BY <1>1, <1>2, ListedPair
<1>4. PortText(FALSE, n) \in Seq(Pieces) /\ Len(PortText(FALSE, n)) = 0
  BY <1>2, EmptySeq
<1> QED
  BY <1>2, <1>3, <1>4 DEF c, d, p

(* No slash, and no colon at the end; the first colon is the port's.        *)
AuthorityText(a, h, q, n) ==
  /\ a \in Seq(Pieces) /\ Len(a) \in Nat
  /\ \A k \in 1..Len(a) : a[k] # Piece("/")
  /\ \A k \in 1..Len(a) : k = Len(a) => a[k] # Piece(":")
  /\ ~ q => a = h
  /\ q => Len(a) = Len(h) + 2 /\ a[Len(h) + 1] = Piece(":") /\ a[Len(h) + 2] = Num(n)

(* Host and port of a URL, piece by piece.                                  *)
LEMMA AuthorityIs ==
  ASSUME NEW h \in Seq(Pieces), Clean(h), NEW q \in BOOLEAN, NEW n \in Int
  PROVE  AuthorityText(Authority(h, q, n), h, q, n)
<1> DEFINE a == Authority(h, q, n)
           p == PortText(q, n)
<1>1. p \in Seq(Pieces)
  BY PortTextIs
<1>2. Joins(a, h, p)
  BY <1>1, Joined DEF Authority
<1>3. CASE q
  <2>1. Len(p) = 2 /\ p[1] = Piece(":") /\ p[2] = Num(n)
    BY <1>3, PortTextIs
  <2> HIDE DEF a, p
  <2>2. Len(h) \in Nat /\ a \in Seq(Pieces) /\ Len(a) = Len(h) + 2
    BY <1>2, <2>1 DEF Joins
  <2>3. 1 \in 1..2 /\ 2 \in 1..2
    OBVIOUS
  <2>4. a[Len(h) + 1] = Piece(":") /\ a[Len(h) + 2] = Num(n)
    BY <1>2, <2>1, <2>3 DEF Joins
  <2>5. ASSUME NEW k \in 1..Len(a)
        PROVE  a[k] # Piece("/") /\ (k = Len(a) => a[k] # Piece(":"))
    <3>1. k \in 1..Len(h) \/ k = Len(h) + 1 \/ k = Len(h) + 2
      BY <2>2
    <3>2. CASE k \in 1..Len(h)
      <4>1. k # Len(a)
        BY <2>2, <3>2
      <4> QED
        BY <1>2, <3>2, <4>1 DEF Joins, Clean
    <3>3. CASE k = Len(h) + 1
      <4>1. k # Len(a)
        BY <2>2, <3>3
      <4> QED
        BY <2>4, <3>3, <4>1, Differ
    <3>4. CASE k = Len(h) + 2
      BY <2>4, <3>4, Numbered
    <3> QED
      BY <3>1, <3>2, <3>3, <3>4
  <2> QED
    <3>1. /\ \A k \in 1..Len(a) : a[k] # Piece("/")
          /\ \A k \in 1..Len(a) : k = Len(a) => a[k] # Piece(":")
      BY <2>5
    <3>2. Len(a) \in Nat
      BY <2>2
    <3> QED
      BY <1>3, <2>2, <2>4, <3>1, <3>2 DEF a, AuthorityText
<1>4. CASE ~ q
  <2>1. p = <<>>
    BY <1>4, PortTextIs
  <2>2. a = h
    BY <2>1, ConcatEmptySeq DEF Authority
  <2>3. Len(h) \in Nat /\ \A k \in 1..Len(h) : h[k] # Piece("/") /\ h[k] # Piece(":")
    BY LenProperties DEF Clean
  <2> HIDE DEF a, p
  <2> QED
    BY <1>4, <2>2, <2>3 DEF a, AuthorityText
<1> QED
  BY <1>3, <1>4

(* An https URL has an "http://" in it only if its path has.                *)
LEMMA NoneFound ==
  ASSUME NEW a \in Seq(Pieces), \A k \in 1..Len(a) : a[k] # Piece("/"),
         \A k \in 1..Len(a) : k = Len(a) => a[k] # Piece(":"),
         NEW x \in Seq(Pieces), x # <<>> => x[1] = Piece("/"), Find(http, x) = npos
  PROVE  Find(http, https \o (a \o x)) = npos
<1> DEFINE r == a \o x
           u == https \o r
           f == Find(http, u)
<1>1. Joins(r, a, x)
  BY Joined
<1>2. r \in Seq(Pieces) /\ Len(r) = Len(a) + Len(x) /\ Len(a) \in Nat /\ Len(x) \in Nat
  BY <1>1 DEF Joins
<1> HIDE DEF r
<1>3. Joins(u, https, r)
  BY <1>2, Words, Joined
<1> HIDE DEF u
<1>4. u \in Seq(Pieces) /\ Len(u) = 5 + Len(r)
  BY <1>3, Words DEF Joins
<1>5. Finds(http, u, f) /\ Finds(http, x, npos)
  <2>1. http \in Seq(Pieces) /\ Len(http) >= 1
    BY Words
  <2> QED
    BY <1>4, <2>1, Found
<1> HIDE DEF f
<1>6. SUFFICES ASSUME NEW k \in Nat, StandsAt(http, u, k) PROVE FALSE
  BY <1>5 DEF Finds, f, u, r
<1>7. /\ k \in 1..(Len(u) - 4 + 1)
      /\ u[k] = Piece("http") /\ u[k + 1] = Piece(":") /\ u[k + 2] = Piece("/") /\ u[k + 3] = Piece("/")
  <2>1. 1 \in 1..4 /\ 2 \in 1..4 /\ 3 \in 1..4 /\ 4 \in 1..4
    OBVIOUS
  <2>2. k \in 1..(Len(u) - 4 + 1) /\ \A j \in 1..4 : u[k + j - 1] = http[j]
    BY <1>6, Words DEF StandsAt
  <2>3. k + 1 - 1 = k /\ k + 2 - 1 = k + 1 /\ k + 3 - 1 = k + 2 /\ k + 4 - 1 = k + 3
    OBVIOUS
  <2>4. u[k + 1 - 1] = http[1] /\ u[k + 2 - 1] = http[2] /\ u[k + 3 - 1] = http[3] /\ u[k + 4 - 1] = http[4]
    BY <2>1, <2>2
  <2> QED
    BY <2>2, <2>3, <2>4, Words
<1>8. /\ u[1] = Piece("http") /\ u[2] = Piece("s") /\ u[3] = Piece(":")
      /\ u[4] = Piece("/") /\ u[5] = Piece("/")
      /\ \A j \in 1..Len(r) : u[5 + j] = r[j]
  <2>1. 1 \in 1..5 /\ 2 \in 1..5 /\ 3 \in 1..5 /\ 4 \in 1..5 /\ 5 \in 1..5
    OBVIOUS
  <2> QED
    BY <1>3, <2>1, Words DEF Joins
<1>9. k > 5
  <2>1. k # 1 /\ k # 2 /\ k # 3 /\ k # 4 /\ k # 5
    <3>1. 1 + 1 = 2
      OBVIOUS
    <3> QED
      BY <1>7, <1>8, <3>1, Differ
  <2> QED
    BY <1>7, <2>1
<1>10. PICK j \in Nat : k = 5 + j /\ j >= 1
  <2>1. k - 5 \in Nat /\ k = 5 + (k - 5) /\ k - 5 >= 1
    BY <1>9
  <2> QED
    BY <2>1
<1>11. /\ j \in 1..(Len(r) - 3) /\ r[j] = Piece("http") /\ r[j + 1] = Piece(":")
       /\ r[j + 2] = Piece("/") /\ r[j + 3] = Piece("/")
  <2>1. j \in 1..(Len(r) - 3)
    BY <1>2, <1>4, <1>7, <1>10
  <2>2. j \in 1..Len(r) /\ j + 1 \in 1..Len(r) /\ j + 2 \in 1..Len(r) /\ j + 3 \in 1..Len(r)
    BY <1>2, <2>1
  <2>3. 5 + (j + 1) = k + 1 /\ 5 + (j + 2) = k + 2 /\ 5 + (j + 3) = k + 3
    BY <1>10
  <2>4. u[5 + j] = r[j] /\ u[5 + (j + 1)] = r[j + 1] /\ u[5 + (j + 2)] = r[j + 2] /\ u[5 + (j + 3)] = r[j + 3]
    BY <1>8, <2>2
  <2> QED
    BY <1>7, <1>10, <2>1, <2>3, <2>4
<1> DEFINE l == Len(a)
<1>12. l \in Nat /\ Len(x) \in Nat /\ Len(r) = l + Len(x)
  BY <1>2
<1>13. /\ \A e \in 1..l : r[e] = a[e] /\ r[e] # Piece("/") /\ (e = l => r[e] # Piece(":"))
       /\ \A e \in 1..Len(x) : r[l + e] = x[e]
  BY <1>1 DEF Joins
<1> HIDE DEF l
<1>14. j + 2 > l
  <2> SUFFICES ASSUME ~ (j + 2 > l) PROVE FALSE
    OBVIOUS
  <2>1. j + 2 \in 1..l
    BY <1>12
  <2> QED
    BY <1>11, <1>13, <2>1
<1>15. j + 1 # l
  <2> SUFFICES ASSUME j + 1 = l PROVE FALSE
    OBVIOUS
  <2>1. j + 1 \in 1..l
    BY <1>12
  <2> QED
    BY <1>11, <1>13, <2>1
<1>16. j # l
  <2> SUFFICES ASSUME j = l PROVE FALSE
    OBVIOUS
  <2>1. 1 \in 1..Len(x)
    BY <1>11, <1>12
  <2>2. x # <<>>
    BY <2>1, EmptySeq
  <2>3. x[1] = Piece("/")
    BY <2>2
  <2> QED
    BY <1>11, <1>13, <2>1, <2>3, Differ
<1>17. j > l
  BY <1>12, <1>14, <1>15, <1>16
<1>18. PICK e \in Nat : j = l + e /\ e >= 1
  <2>1. j - l \in Nat /\ j = l + (j - l) /\ j - l >= 1
    BY <1>12, <1>17
  <2> QED
    BY <2>1
<1>19. e \in 1..(Len(x) - 3)
  BY <1>11, <1>12, <1>18
<1>20. x[e] = Piece("http") /\ x[e + 1] = Piece(":") /\ x[e + 2] = Piece("/") /\ x[e + 3] = Piece("/")
  <2>1. e \in 1..Len(x) /\ e + 1 \in 1..Len(x) /\ e + 2 \in 1..Len(x) /\ e + 3 \in 1..Len(x)
    BY <1>12, <1>19
  <2>2. l + (e + 1) = j + 1 /\ l + (e + 2) = j + 2 /\ l + (e + 3) = j + 3
    BY <1>12, <1>18
  <2>3. r[l + e] = x[e] /\ r[l + (e + 1)] = x[e + 1] /\ r[l + (e + 2)] = x[e + 2] /\ r[l + (e + 3)] = x[e + 3]
    BY <1>13, <2>1
  <2> QED
    BY <1>11, <1>18, <2>2, <2>3
<1>21. StandsAt(http, x, e)
  <2>1. e \in 1..(Len(x) - 4 + 1)
    BY <1>12, <1>19
  <2>2. ASSUME NEW m \in 1..4 PROVE x[e + m - 1] = http[m]
    <3>1. m = 1 \/ m = 2 \/ m = 3 \/ m = 4
      OBVIOUS
    <3>2. e + 1 - 1 = e /\ e + 2 - 1 = e + 1 /\ e + 3 - 1 = e + 2 /\ e + 4 - 1 = e + 3
      OBVIOUS
    <3> QED
      BY <1>20, <3>1, <3>2, Words
  <2> QED
    BY <2>1, <2>2, Words DEF StandsAt
<1> QED
  BY <1>5, <1>18, <1>21 DEF Finds


(* The scheme of a URL.                                                     *)
SchemeText(b) == IF b THEN https ELSE http

(* It is a text.                                                            *)
LEMMA SchemeIs ==
  ASSUME NEW b \in BOOLEAN
  PROVE  SchemeText(b) \in Seq(Pieces)
  BY Words DEF SchemeText

(* A URL is its scheme and what init() goes on with.                        *)
LEMMA AfterOwn ==
  ASSUME NEW b \in BOOLEAN, NEW h \in Seq(Pieces), Clean(h), NEW q \in BOOLEAN, NEW n \in Int,
         NEW x \in Seq(Pieces), x # <<>> => x[1] = Piece("/"),
         b => Find(http, x) = npos
  PROVE  /\ AfterScheme(SchemeText(b) \o (Authority(h, q, n) \o x)) = Authority(h, q, n) \o x
         /\ IsHttps(SchemeText(b) \o (Authority(h, q, n) \o x)) <=> b
<1> DEFINE a == Authority(h, q, n)
           r == a \o x
           t == SchemeText(b) \o r
<1>1. AuthorityText(a, h, q, n)
  BY AuthorityIs
<1>2. a \in Seq(Pieces) /\ (\A k \in 1..Len(a) : a[k] # Piece("/"))
      /\ \A k \in 1..Len(a) : k = Len(a) => a[k] # Piece(":")
  BY <1>1 DEF AuthorityText
<1> HIDE DEF a
<1>3. r \in Seq(Pieces)
  BY <1>2, Joined DEF Joins
<1>4. CASE b
  <2>1. Find(http, https \o r) = npos
    BY <1>2, <1>4, NoneFound
  <2> HIDE DEF r
  <2>2. t = https \o r
    BY <1>4 DEF SchemeText
  <2>3. Find(https, https \o r) = 1
    <3>1. https \in Seq(Pieces) /\ Len(https) >= 1
      BY Words
    <3> QED
      BY <1>3, <3>1, FoundFirst
  <2>4. From(https \o r, Len(https) + 1) = r
    BY <1>3, Words, Apart
  <2> HIDE DEF t
  <2>5. 1 + Len(https) = Len(https) + 1 /\ 1 # npos
    BY Words DEF npos
  <2>6. Find(http, t) = npos /\ Find(https, t) = 1 /\ From(t, 1 + Len(https)) = r
    BY <2>1, <2>2, <2>3, <2>4, <2>5
  <2>7. AfterScheme(t) = r /\ IsHttps(t)
    BY <2>5, <2>6 DEF AfterScheme, IsHttps
  <2> QED
    BY <1>4, <2>7 DEF t, r, a
<1>5. CASE ~ b
  <2> HIDE DEF r
  <2>2. t = http \o r
    BY <1>5 DEF SchemeText
  <2>3. Find(http, http \o r) = 1
    <3>1. http \in Seq(Pieces) /\ Len(http) >= 1
      BY Words
    <3> QED
      BY <1>3, <3>1, FoundFirst
  <2>4. From(http \o r, Len(http) + 1) = r
    BY <1>3, Words, Apart
  <2> HIDE DEF t
  <2>5. 1 + Len(http) = Len(http) + 1 /\ 1 # npos
    BY Words DEF npos
  <2>6. Find(http, t) = 1 /\ From(t, 1 + Len(http)) = r
    BY <2>2, <2>3, <2>4, <2>5
  <2>7. AfterScheme(t) = r /\ ~ IsHttps(t)
    BY <2>5, <2>6 DEF AfterScheme, IsHttps
  <2> QED
    BY <1>5, <2>7 DEF t, r, a
<1> QED
  BY <1>4, <1>5

(* The first slash is the path's.                                           *)
LEMMA PathFound ==
  ASSUME NEW a \in Seq(Pieces), \A k \in 1..Len(a) : a[k] # Piece("/"),
         NEW x \in Seq(Pieces), x # <<>> => x[1] = Piece("/")
  PROVE  /\ x = <<>> => Find(slash, a \o x) = npos /\ a \o x = a
         /\ x # <<>> => /\ Find(slash, a \o x) = Len(a) + 1
                        /\ Len(a) + 1 # npos
<1> DEFINE r == a \o x
           f == Find(slash, r)
<1>1. Joins(r, a, x)
  BY Joined
<1>2. x = <<>> => r = a
  BY ConcatEmptySeq
<1> HIDE DEF r
<1>3. r \in Seq(Pieces) /\ Len(r) = Len(a) + Len(x) /\ Len(a) \in Nat /\ Len(x) \in Nat
  BY <1>1 DEF Joins
<1>4. FirstOf("/", r, f)
  BY <1>3, LettersAre, Pieced, FoundLetter DEF slash
<1> HIDE DEF f
<1>5. CASE x = <<>>
  <2>1. f = npos
    BY <1>2, <1>4, <1>5 DEF FirstOf
  <2> QED
    BY <1>2, <1>5, <2>1 DEF f, r
<1>6. CASE x # <<>>
  <2> DEFINE l == Len(a)
  <2>1. 1 \in 1..Len(x) /\ x[1] = Piece("/")
    BY <1>3, <1>6, EmptySeq
  <2>2. r[l + 1] = Piece("/")
    BY <1>1, <2>1 DEF Joins
  <2>3. l + 1 \in 1..Len(r) /\ l \in Nat
    BY <1>3, <2>1
  <2>4. \A k \in 1..l : r[k] # Piece("/")
    BY <1>1 DEF Joins
  <2> HIDE DEF l
  <2>5. f \in 1..Len(r) /\ r[f] = Piece("/") /\ \A k \in 1..(f - 1) : r[k] # Piece("/")
    BY <1>4, <2>2, <2>3 DEF FirstOf
  <2>6. f \in Nat /\ f >= 1
    BY <1>3, <2>5
  <2>7. ~ (f <= l)
    <3> SUFFICES ASSUME f <= l PROVE FALSE
      OBVIOUS
    <3>1. f \in 1..l
      BY <2>3, <2>6
    <3> QED
      BY <2>4, <2>5, <3>1
  <2>8. ~ (f > l + 1)
    <3> SUFFICES ASSUME f > l + 1 PROVE FALSE
      OBVIOUS
    <3>1. l + 1 \in 1..(f - 1)
      BY <2>3, <2>6
    <3> QED
      BY <2>2, <2>5, <3>1
  <2>9. f = l + 1 /\ l + 1 # npos
    BY <2>3, <2>6, <2>7, <2>8 DEF npos
  <2> QED
    BY <1>6, <2>9 DEF f, r, l
<1> QED
  BY <1>5, <1>6

(* The first colon is the port's, and the port is what atoi() reads there.  *)
LEMMA PortFound ==
  ASSUME NEW h \in Seq(Pieces), Clean(h), NEW n \in Int
  PROVE  /\ Find(Str(<<":">>), Authority(h, TRUE, n)) = Len(h) + 1
         /\ Len(h) + 1 # npos
         /\ Before(Authority(h, TRUE, n), Len(h) + 1) = h
         /\ Atoi(From(Authority(h, TRUE, n), (Len(h) + 1) + 1)) = n
<1> DEFINE a == Authority(h, TRUE, n)
           f == Find(Str(<<":">>), a)
           l == Len(h)
<1>1. AuthorityText(a, h, TRUE, n)
  BY AuthorityIs
<1>2. /\ a \in Seq(Pieces) /\ Len(a) = l + 2 /\ a[l + 1] = Piece(":") /\ a[l + 2] = Num(n)
      /\ l \in Nat
  BY <1>1, LenProperties DEF AuthorityText
<1>3. Joins(a, h, PortText(TRUE, n))
  BY PortTextIs, Joined DEF Authority
<1>4. Before(a, l + 1) = h
  BY PortTextIs, Apart DEF Authority
<1> HIDE DEF a
<1>5. FirstOf(":", a, f)
  BY <1>2, LettersAre, Pieced, FoundLetter
<1> HIDE DEF f
<1>6. \A k \in 1..l : a[k] # Piece(":")
  BY <1>3 DEF Joins, Clean
<1> HIDE DEF l
<1>7. l + 1 \in 1..Len(a)
  BY <1>2
<1>8. f \in 1..Len(a) /\ a[f] = Piece(":") /\ \A k \in 1..(f - 1) : a[k] # Piece(":")
  BY <1>2, <1>5, <1>7 DEF FirstOf
<1>9. f \in Nat /\ f >= 1
  BY <1>2, <1>8
<1>10. ~ (f <= l)
  <2> SUFFICES ASSUME f <= l PROVE FALSE
    OBVIOUS
  <2>1. f \in 1..l
    BY <1>2, <1>9
  <2> QED
    BY <1>6, <1>8, <2>1
<1>11. ~ (f > l + 1)
  <2> SUFFICES ASSUME f > l + 1 PROVE FALSE
    OBVIOUS
  <2>1. l + 1 \in 1..(f - 1)
    BY <1>2, <1>9
  <2> QED
    BY <1>2, <1>8, <2>1
<1>12. f = l + 1 /\ l + 1 # npos
  BY <1>2, <1>9, <1>10, <1>11 DEF npos
<1> DEFINE s == From(a, (l + 1) + 1)
<1>13. s \in Seq(Pieces) /\ Len(s) = 1 /\ s[1] = Num(n)
  <2> DEFINE m == (l + 1) + 1
  <2>1. m \in 1..(Len(a) + 1) /\ m = l + 2 /\ Len(a) - m + 1 = 1 /\ m + 1 - 1 = l + 2
    BY <1>2
  <2> HIDE DEF m
  <2>2. Halves(Before(a, m), From(a, m), a, m)
    BY <1>2, <2>1, Cut
  <2>3. From(a, m) \in Seq(Pieces) /\ Len(From(a, m)) = 1 /\ From(a, m)[1] = a[m + 1 - 1]
    <3>1. 1 \in 1..1
      OBVIOUS
    <3> QED
      BY <2>1, <2>2, <3>1 DEF Halves
  <2> QED
    BY <1>2, <2>1, <2>3 DEF m
<1> HIDE DEF s
<1>14. Atoi(s) = n
  <2>1. s # <<>>
    BY <1>13, EmptySeq
  <2>2. Num(n)[2] = n
    BY Numbered
  <2> QED
    BY <1>13, <2>1, <2>2 DEF Atoi
<1> QED
  BY <1>4, <1>12, <1>14 DEF s, f, a, l

(* A URL taken apart gives back what it was made of.                        *)
LEMMA ParseOwn ==
  ASSUME NEW b \in BOOLEAN, NEW h \in Seq(Pieces), Clean(h), NEW q \in BOOLEAN, NEW n \in Int,
         NEW x \in Seq(Pieces), x # <<>> => x[1] = Piece("/"),
         b => Find(http, x) = npos,
         Parse(SchemeText(b) \o (Authority(h, q, n) \o x))
  PROVE  /\ ms_host' = h
         /\ x # <<>> => ms_path' = x
         /\ msh_port' = IF q THEN ToShort(n) ELSE IF b THEN 443 ELSE 80
<1> DEFINE a == Authority(h, q, n)
           r == a \o x
           t == SchemeText(b) \o r
           d == AfterScheme(t)
           p2 == Find(slash, d)
           d1 == IF p2 = npos THEN d ELSE Before(d, p2)
           p3 == Find(Str(<<":">>), d1)
<1>1. /\ ms_path' = IF p2 = npos THEN ms_path ELSE From(d, p2)
      /\ ms_host' = IF p3 = npos THEN d1 ELSE Before(d1, p3)
      /\ msh_port' = IF p3 # npos THEN ToShort(Atoi(From(d1, p3 + 1)))
                     ELSE IF IsHttps(t) THEN 443 ELSE 80
  BY DEF Parse
<1>2. d = r /\ (IsHttps(t) <=> b)
  BY AfterOwn
<1>3. AuthorityText(a, h, q, n)
  BY AuthorityIs
<1>4. a \in Seq(Pieces) /\ (\A k \in 1..Len(a) : a[k] # Piece("/")) /\ (~ q => a = h)
  BY <1>3 DEF AuthorityText
<1>5. q => a = Authority(h, TRUE, n)
  OBVIOUS
<1> HIDE DEF a, t, d
<1>6. /\ x = <<>> => Find(slash, r) = npos /\ r = a
      /\ x # <<>> => Find(slash, r) = Len(a) + 1 /\ Len(a) + 1 # npos
  BY <1>4, PathFound
<1>7. Before(r, Len(a) + 1) = a /\ From(r, Len(a) + 1) = x
  BY <1>4, Apart
<1> HIDE DEF r
<1>8. d1 = a /\ (x # <<>> => ms_path' = x)
  BY <1>1, <1>2, <1>6, <1>7
<1> HIDE DEF d1
<1>9. CASE q
  <2>1. p3 = Len(h) + 1 /\ p3 # npos /\ Before(d1, p3) = h /\ Atoi(From(d1, p3 + 1)) = n
    BY <1>5, <1>8, <1>9, PortFound
  <2> HIDE DEF p3
  <2>2. ms_host' = h
    BY <1>1, <2>1, Zenon
  <2>3. msh_port' = ToShort(n)
    BY <1>1, <2>1, Zenon
  <2> QED
    BY <1>8, <1>9, <2>2, <2>3, Zenon
<1>10. CASE ~ q
  <2>1. d1 = h
    BY <1>4, <1>8, <1>10
  <2>2. FirstOf(":", h, Find(Str(<<":">>), h))
    BY LettersAre, Pieced, FoundLetter
  <2>3. p3 = npos
    BY <2>1, <2>2 DEF FirstOf, Clean
  <2> HIDE DEF p3
  <2> QED
    BY <1>1, <1>2, <1>8, <1>10, <2>1, <2>3
<1> QED
  BY <1>9, <1>10


(* StandsForGiven says nothing of an object that took another URL than the  *)
(* one it was given; what it prints is taken apart again all the same.      *)
UrlInv ==
  /\ ms_host \in Seq(Pieces) /\ Clean(ms_host) /\ ms_path \in Seq(Pieces)
  /\ msh_port # NoPort => Short(msh_port)
  /\ StandsForGiven

(* Texts are joined in any order.                                          *)
LEMMA Grouped ==
  ASSUME NEW s \in Seq(Pieces), NEW t \in Seq(Pieces), NEW x \in Seq(Pieces)
  PROVE  (s \o t) \o x = s \o (t \o x) /\ s \o t \in Seq(Pieces)
<1>1. (s \o t) \o x = s \o (t \o x)
  BY ConcatAssociative
<1>2. s \o t \in Seq(Pieces)
  BY Joined DEF Joins
<1> QED
  BY <1>1, <1>2

(* The text of a URL is its scheme, its host and port, and its path.        *)
LEMMA TextIs ==
  ASSUME NEW u \in Urls
  PROVE  /\ u.port = NoPort =>
              UrlText(u) = SchemeText(u.https) \o (Authority(u.host, FALSE, 0) \o u.path)
         /\ u.port # NoPort =>
              UrlText(u) = SchemeText(u.https) \o (Authority(u.host, TRUE, u.port) \o u.path)
<1> DEFINE s == SchemeText(u.https)
           h == u.host
           x == u.path
           q == u.port # NoPort
           n == IF u.port # NoPort THEN u.port ELSE 0
           p == PortText(q, n)
<1>1. u.https \in BOOLEAN /\ h \in Seq(Pieces) /\ x \in Seq(Pieces) /\ n \in Int /\ q \in BOOLEAN
  <2>1. u.https \in BOOLEAN /\ h \in Seq(Pieces) /\ x \in Seq(Pieces) /\ u.port \in Ports \cup {NoPort}
    BY UrlAssumption
  <2> QED
    BY <2>1, PortIs
<1>2. s \in Seq(Pieces)
  BY <1>1, SchemeIs
<1>3. p \in Seq(Pieces)
  BY <1>1, PortTextIs
<1>4. UrlText(u) = ((s \o h) \o p) \o x
  BY DEF UrlText, SchemeText, PortText
<1>5. Authority(h, q, n) = h \o p
  BY DEF Authority
<1> HIDE DEF s, h, x, p
<1> DEFINE a == h \o p
<1>6. a \in Seq(Pieces)
  BY <1>1, <1>3, Grouped
<1>7. (s \o h) \o p = s \o a
  BY <1>1, <1>2, <1>3, Grouped, SMTT(30)
<1> HIDE DEF a
<1>8. (s \o a) \o x = s \o (a \o x)
  BY <1>1, <1>2, <1>6, Grouped, SMTT(30)
<1>9. UrlText(u) = s \o (Authority(h, q, n) \o x)
  BY <1>4, <1>5, <1>7, <1>8 DEF a
<1> QED
  BY <1>9 DEF s, h, x

(* whole_url() prints such a text too, with one more slash.                 *)
LEMMA WholeIs ==
  ASSUME UrlInv, msh_port # NoPort
  PROVE  /\ WholeUrl = SchemeText(FALSE) \o (Authority(ms_host, TRUE, msh_port) \o (slash \o ms_path))
         /\ slash \o ms_path \in Seq(Pieces)
         /\ slash \o ms_path # <<>> /\ (slash \o ms_path)[1] = Piece("/")
<1> DEFINE p == PortText(TRUE, msh_port)
           h == ms_host
           x == ms_path
           y == slash \o x
<1>1. h \in Seq(Pieces) /\ x \in Seq(Pieces) /\ msh_port \in Int
  BY DEF UrlInv, Short
<1>2. p \in Seq(Pieces) /\ http \in Seq(Pieces)
  BY <1>1, PortTextIs, Words
<1>3. slash \in Seq(Pieces) /\ Len(slash) = 1 /\ slash[1] = Piece("/")
  BY LettersAre, Pieced, Letter DEF slash
<1>4. WholeUrl = (((http \o h) \o p) \o slash) \o x
  BY DEF WholeUrl, PortText
<1>5. Authority(h, TRUE, msh_port) = h \o p /\ SchemeText(FALSE) = http
  BY DEF Authority, SchemeText
<1> HIDE DEF p, h, x
<1>6. Joins(y, slash, x)
  BY <1>1, <1>3, Joined
<1>7. y \in Seq(Pieces) /\ y # <<>> /\ y[1] = Piece("/")
  <2> HIDE DEF y
  <2>1. 1 \in 1..1
    OBVIOUS
  <2>2. y \in Seq(Pieces) /\ Len(y) >= 1
    BY <1>3, <1>6 DEF Joins
  <2>3. y[1] = Piece("/")
    BY <1>3, <1>6, <2>1 DEF Joins
  <2> QED
    BY <2>2, <2>3, EmptySeq
<1> DEFINE a == h \o p
           g == http \o a
<1>8. a \in Seq(Pieces)
  BY <1>1, <1>2, Grouped
<1>9. (http \o h) \o p = g
  BY <1>1, <1>2, Grouped, SMTT(30)
<1> HIDE DEF a
<1>10. g \in Seq(Pieces)
  BY <1>2, <1>8, Grouped
<1>11. slash \in Seq(Pieces) /\ x \in Seq(Pieces)
  BY <1>1, <1>3
<1> HIDE DEF g
<1>12. (g \o slash) \o x = g \o y
  BY <1>10, <1>11, Grouped
<1> HIDE DEF y
<1>13. g \o y = http \o (a \o y)
  BY <1>2, <1>7, <1>8, Grouped, SMTT(30) DEF g
<1>14. WholeUrl = http \o (a \o y)
  BY <1>4, <1>9, <1>12, <1>13, Zenon
<1>15. WholeUrl = SchemeText(FALSE) \o (Authority(h, TRUE, msh_port) \o y)
  BY <1>5, <1>14 DEF a
<1> QED
  BY <1>7, <1>15 DEF y, h, x

(* The ports of the schemes survive the unsigned short.                     *)
LEMMA Known ==
  ToUnsigned(443) = 443 /\ ToUnsigned(80) = 80 /\ ToUnsigned(0) = 0
<1> DEFINE w == Half + Half
<1>1. w \in Nat /\ 443 < w /\ 80 < w /\ 0 < w
  BY HalfLarge
<1>2. 443 % w = 443 /\ 80 % w = 80 /\ 0 % w = 0
  <2> HIDE DEF w
  <2> QED
    BY <1>1, Remainders
<1> QED
  BY <1>2, ToUnsignedIs

(* The object that rurl() makes has taken nothing yet.                      *)
LEMMA UrlInitInv == UrlInit => UrlInv
<1> SUFFICES ASSUME UrlInit PROVE UrlInv
  OBVIOUS
<1>1. ms_host \in Seq(Pieces) /\ ms_path \in Seq(Pieces) /\ Len(ms_host) = 0
  BY EmptySeq DEF UrlInit
<1>2. Clean(ms_host)
  BY <1>1 DEF Clean
<1> QED
  BY <1>1, <1>2 DEF UrlInit, UrlInv, StandsForGiven

(* A URL that is given is taken apart.                                      *)
LEMMA StandsInit ==
  ASSUME UrlInv, NEW u \in Urls, InitUrl(u)
  PROVE  UrlInv'
<1> DEFINE t == UrlText(u)
<1>1. /\ u.https \in BOOLEAN /\ u.port \in Ports \cup {NoPort}
      /\ u.host \in Seq(Pieces) /\ u.path \in Seq(Pieces)
      /\ u.path # <<>> => u.path[1] = Piece("/")
  BY UrlAssumption
<1>2. Clean(u.host)
  <2>1. \A k \in DOMAIN u.host : u.host[k] \notin {Piece("/"), Piece(":")}
    BY UrlAssumption
  <2>2. DOMAIN u.host = 1..Len(u.host)
    BY <1>1, LenProperties
  <2> QED
    BY <2>1, <2>2 DEF Clean
<1>3. Parse(t) /\ given' = u
  BY DEF InitUrl
<1> DEFINE q == u.port # NoPort
           n == IF u.port # NoPort THEN u.port ELSE 0
           s == SchemeText(u.https)
           a == Authority(u.host, q, n)
<1>4. n \in Int /\ q \in BOOLEAN
  BY <1>1, PortIs
<1>5. t = s \o (a \o u.path)
  BY TextIs
<1>6. t \in Seq(Pieces)
  <2>1. s \in Seq(Pieces)
    BY <1>1, SchemeIs
  <2>2. a \in Seq(Pieces)
    BY <1>1, <1>2, <1>4, AuthorityIs DEF AuthorityText
  <2> HIDE DEF s, a, t
  <2>3. a \o u.path \in Seq(Pieces)
    BY <1>1, <2>2, Joined DEF Joins
  <2> QED
    BY <1>5, <2>1, <2>3, Joined DEF Joins
<1>7. /\ ms_host' \in Seq(Pieces) /\ Clean(ms_host')
      /\ ms_path' \in Seq(Pieces) /\ Short(msh_port')
  <2> HIDE DEF t
  <2>1. ms_path \in Seq(Pieces)
    BY DEF UrlInv
  <2> QED
    BY <1>3, <1>6, <2>1, ParseAny
<1>8. ASSUME ~ NamesAnother(u)
      PROVE  /\ ms_host' = u.host
             /\ u.path # <<>> => ms_path' = u.path
             /\ msh_port' = IF q THEN ToShort(n) ELSE IF u.https THEN 443 ELSE 80
  <2>1. u.https => Find(http, u.path) = npos
    BY <1>8 DEF NamesAnother
  <2>2. Parse(s \o (a \o u.path))
    BY <1>3, <1>5
  <2> HIDE DEF q, n
  <2> QED
    BY <1>1, <1>2, <1>4, <2>1, <2>2, ParseOwn
<1>9. StandsForGiven'
  <2> SUFFICES ASSUME ~ NamesAnother(u)
               PROVE  /\ ms_host' = u.host
                      /\ u.path # <<>> => ms_path' = u.path
                      /\ ToUnsigned(msh_port') = IF u.port # NoPort THEN u.port
                                                 ELSE IF u.https THEN 443 ELSE 80
    BY <1>3 DEF StandsForGiven
  <2>1. CASE u.port # NoPort
    <3>1. u.port \in Ports /\ n = u.port /\ q
      BY <1>1, <2>1
    <3>2. msh_port' = ToShort(u.port)
      BY <1>8, <3>1
    <3>3. ToUnsigned(msh_port') = u.port
      BY <3>1, <3>2, PortStays
    <3> QED
      BY <1>8, <2>1, <3>3
  <2>2. CASE u.port = NoPort
    BY <1>8, <2>2, Known
  <2> QED
    BY <2>1, <2>2
<1> QED
  BY <1>7, <1>9 DEF UrlInv

(* What the object prints is taken apart: a path more, and the port as it   *)
(* was, whatever its sign.                                                  *)
LEMMA StandsReparsed ==
  ASSUME UrlInv, Reparse
  PROVE  UrlInv'
<1> DEFINE y == slash \o ms_path
           a == Authority(ms_host, TRUE, msh_port)
           s == SchemeText(FALSE)
<1>1. /\ ms_host \in Seq(Pieces) /\ Clean(ms_host) /\ ms_path \in Seq(Pieces)
      /\ msh_port # NoPort /\ Short(msh_port) /\ msh_port \in Int
  BY DEF UrlInv, Reparse, Short
<1>2. WholeUrl = s \o (a \o y) /\ y \in Seq(Pieces) /\ y # <<>> /\ y[1] = Piece("/")
  BY <1>1, WholeIs
<1>3. Parse(WholeUrl)
  BY DEF Reparse
<1>4. /\ given'.https = FALSE /\ given'.host = ms_host
      /\ given'.port = ToUnsigned(msh_port) /\ given'.path = y
  BY DEF Reparse
<1> HIDE DEF y
<1>5. WholeUrl \in Seq(Pieces)
  <2>1. s \in Seq(Pieces)
    BY SchemeIs
  <2>2. a \in Seq(Pieces)
    BY <1>1, AuthorityIs DEF AuthorityText
  <2> HIDE DEF s, a
  <2>3. a \o y \in Seq(Pieces)
    BY <1>2, <2>2, Joined DEF Joins
  <2> QED
    BY <1>2, <2>1, <2>3, Joined DEF Joins
<1>6. /\ ms_host' \in Seq(Pieces) /\ Clean(ms_host')
      /\ ms_path' \in Seq(Pieces) /\ Short(msh_port')
  BY <1>1, <1>3, <1>5, ParseAny
<1>7. ms_host' = ms_host /\ ms_path' = y /\ msh_port' = ToShort(msh_port)
  <2>1. Parse(s \o (a \o y))
    BY <1>2, <1>3
  <2>2. TRUE \in BOOLEAN /\ FALSE \in BOOLEAN
    OBVIOUS
  <2> QED
    BY <1>1, <1>2, <2>1, <2>2, ParseOwn
<1>8. msh_port' = msh_port
  BY <1>1, <1>7, ShortStays
<1>9. ToUnsigned(msh_port) # NoPort
  <2>1. Half + Half \in Nat /\ Half + Half > 0
    BY HalfLarge
  <2>2. ToUnsigned(msh_port) = msh_port % (Half + Half)
    BY <1>1, ToUnsignedIs
  <2>3. msh_port % (Half + Half) \in Int
    BY <1>1, <2>1, RemainderIs
  <2> QED
    BY <2>2, <2>3, PortAssumption
<1>10. StandsForGiven'
  BY <1>4, <1>7, <1>8, <1>9 DEF StandsForGiven
<1> QED
  BY <1>6, <1>10 DEF UrlInv

(* clear() leaves the object that stands for nothing.                       *)
LEMMA StandsCleared ==
  ASSUME Clear
  PROVE  UrlInv'
<1>1. ms_host' = <<>> /\ ms_path' = <<>> /\ msh_port' = 0 /\ given' = Nowhere
  BY DEF Clear
<1>2. ms_host' \in Seq(Pieces) /\ ms_path' \in Seq(Pieces) /\ Len(ms_host') = 0
  BY <1>1, EmptySeq
<1>3. Clean(ms_host') /\ Short(msh_port')
  BY <1>1, <1>2, WellKnown DEF Clean
<1>4. 0 # NoPort
  BY PortAssumption
<1>5. StandsForGiven'
  BY <1>1, <1>4, Known DEF StandsForGiven, Nowhere
<1> QED
  BY <1>2, <1>3, <1>5 DEF UrlInv

(* Whatever rurl::init() is given, one URL after another and its own       *)
(* whole_url() among them, host(), port() and path() are those of the URL  *)
(* it was given last (StandsForGiven), for every set of URLs whose hosts   *)
(* have no colon and no slash in them.                                     *)
THEOREM StandsForGivenAlways == UrlSpec => []StandsForGiven
<1>1. UrlInv /\ [UrlNext]_urlVars => UrlInv'
  <2> SUFFICES ASSUME UrlInv, [UrlNext]_urlVars PROVE UrlInv'
    OBVIOUS
  <2>1. CASE Clear
    BY <2>1, StandsCleared
  <2>2. CASE \E u \in Urls : InitUrl(u)
    BY <2>2, StandsInit
  <2>3. CASE Reparse
    BY <2>3, StandsReparsed
  <2>4. CASE UNCHANGED urlVars
    BY <2>4 DEF urlVars, UrlInv, StandsForGiven
  <2> QED
    BY <2>1, <2>2, <2>3, <2>4 DEF UrlNext
<1>2. UrlInv => StandsForGiven
  BY DEF UrlInv
<1> QED
  BY <1>1, <1>2, UrlInitInv, PTL DEF UrlSpec

-----------------------------------------------------------------------------
(***************************************************************************)
(* The request line for every set of requests.  get_vpath() finds the      *)
(* target (TargetRead), drops its host (HostEnds, HostOnly) and erases what *)
(* is in front of the path (OneErased, AllErased); an "&amp;" that becomes  *)
(* an "&" leaves the arguments as they are (Contracted, EntityGone), and    *)
(* where none is left nothing but one "&" is between two of them (Gap).     *)
(* parse_url() takes out one argument after the other (ArgumentIn,          *)
(* ArgumentEnds) and keeps what its map already has (ArgumentHeld).         *)
(***************************************************************************)

(* What lies in t from place a to place b.                                  *)
LEMMA Section ==
  ASSUME NEW t \in Seq(Pieces), NEW a \in Nat, NEW b \in Nat, 1 <= a, a <= b + 1, b <= Len(t)
  PROVE  /\ SubSeq(t, a, b) \in Seq(Pieces) /\ Len(SubSeq(t, a, b)) = b - a + 1
         /\ \A j \in 1..(b - a + 1) : SubSeq(t, a, b)[j] = t[a + j - 1]
<1>1. Len(t) \in Nat
  BY LenProperties
<1>2. \A j \in a..b : j \in 1..Len(t)
  BY <1>1
<1>3. \A j \in a..b : t[j] \in Pieces
  BY <1>2, ElementOfSeq
<1> DEFINE u == SubSeq(t, a, b)
<1>4. /\ u \in Seq(Pieces) /\ Len(u) = IF a <= b THEN b - a + 1 ELSE 0
      /\ \A j \in 1..(b - a + 1) : u[j] = t[a + j - 1]
  BY <1>3, SubSeqProperties
<1> HIDE DEF u
<1>5. Len(u) = b - a + 1
  BY <1>4
<1> QED
  BY <1>4, <1>5 DEF u

(* The parts of a request are texts.                                        *)
LEMMA RequestTexts ==
  ASSUME NEW r \in Requests
  PROVE  /\ r.host \in Seq(Pieces) /\ r.lead \in Seq(Pieces) /\ r.path \in Seq(Pieces)
         /\ r.query \in Seq(Pieces) /\ r.args \in Seq(Seq(Seq(Pieces)))
<1>1. Seq(Characters) \subseteq Seq(Pieces)
  <2>1. Characters \subseteq Pieces
    BY DEF Pieces
  <2> QED
    BY <2>1, SeqMonotonic
<1>2. Seq(Seq(Seq(Characters))) \subseteq Seq(Seq(Seq(Pieces)))
  BY <1>1, SeqMonotonic
<1>3. /\ r.host \in Seq(Characters) /\ r.lead \in Seq(Characters) /\ r.path \in Seq(Characters)
      /\ r.query \in Seq(Characters) /\ r.args \in Seq(Seq(Seq(Characters)))
  BY RequestAssumption
<1> QED
  BY <1>1, <1>2, <1>3

(* The characters and words that are looked for.                            *)
LEMMA Signs ==
  \A c \in {"/", "?", "&", "amp", "=", "SP", "HTTP", "VPath", "http"} :
    c \in Letters /\ Piece(c) \in Pieces
<1>1. {"/", "?", "&", "amp", "=", "SP", "HTTP", "VPath", "http"} \subseteq Letters
  BY LettersAssumption
<1> QED
  BY <1>1, Pieced

(* Pieces of different characters differ.                                   *)
LEMMA PieceSame ==
  ASSUME NEW a, NEW b, Piece(a) = Piece(b)
  PROVE  a = b
  BY DEF Piece

(* A text of one character, and one of two.                                 *)
LEMMA Marks ==
  /\ Question \in Seq(Pieces) /\ Len(Question) = 1 /\ Question[1] = Piece("?")
  /\ Amp \in Seq(Pieces) /\ Len(Amp) = 1 /\ Amp[1] = Piece("&")
  /\ Equals \in Seq(Pieces) /\ Len(Equals) = 1 /\ Equals[1] = Piece("=")
  /\ slash \in Seq(Pieces) /\ Len(slash) = 1 /\ slash[1] = Piece("/")
  /\ VPATH \in Seq(Pieces) /\ Len(VPATH) = 1 /\ VPATH[1] = Piece("VPath")
<1>1. \A c : Piece(c) \in Pieces =>
        Str(<<c>>) \in Seq(Pieces) /\ Len(Str(<<c>>)) = 1 /\ Str(<<c>>)[1] = Piece(c)
  BY Letter
<1>2. /\ Piece("?") \in Pieces /\ Piece("&") \in Pieces /\ Piece("=") \in Pieces
      /\ Piece("/") \in Pieces /\ Piece("VPath") \in Pieces
  BY Signs
<1> QED
  BY <1>1, <1>2 DEF Question, Amp, Equals, slash, VPATH

(* A text of two words.                                                     *)
LEMMA LetterPair ==
  ASSUME NEW a \in Letters, NEW b \in Letters
  PROVE  /\ Str(<<a, b>>) \in Seq(Pieces) /\ Len(Str(<<a, b>>)) = 2
         /\ Str(<<a, b>>)[1] = Piece(a) /\ Str(<<a, b>>)[2] = Piece(b)
<1> DEFINE w == <<a, b>>
<1>1. \A d \in Letters : Piece(d) \in Pieces
  BY Pieced
<1>2. w \in Seq(Letters) /\ Len(w) = 2 /\ w[1] = a /\ w[2] = b
  BY ListedPair
<1> HIDE DEF w
<1>3. Str(w) \in Seq(Pieces) /\ Len(Str(w)) = 2 /\ \A k \in 1..2 : Str(w)[k] = Piece(w[k])
  BY <1>1, <1>2, Spelled
<1>4. 1 \in 1..2 /\ 2 \in 1..2
  OBVIOUS
<1>5. Str(w)[1] = Piece(a) /\ Str(w)[2] = Piece(b)
  BY <1>2, <1>3, <1>4
<1> QED
  BY <1>3, <1>5 DEF w

(* A text of three words.                                                   *)
LEMMA LetterTriple ==
  ASSUME NEW a \in Letters, NEW b \in Letters, NEW c \in Letters
  PROVE  /\ Str(<<a, b, c>>) \in Seq(Pieces) /\ Len(Str(<<a, b, c>>)) = 3
         /\ Str(<<a, b, c>>)[1] = Piece(a) /\ Str(<<a, b, c>>)[2] = Piece(b)
         /\ Str(<<a, b, c>>)[3] = Piece(c)
<1> DEFINE w == <<a, b, c>>
<1>1. \A d \in Letters : Piece(d) \in Pieces
  BY Pieced
<1>2. w \in Seq(Letters) /\ Len(w) = 3 /\ w[1] = a /\ w[2] = b /\ w[3] = c
  OBVIOUS
<1> HIDE DEF w
<1>3. Str(w) \in Seq(Pieces) /\ Len(Str(w)) = 3 /\ \A k \in 1..3 : Str(w)[k] = Piece(w[k])
  BY <1>1, <1>2, Spelled
<1>4. 1 \in 1..3 /\ 2 \in 1..3 /\ 3 \in 1..3
  OBVIOUS
<1>5. Str(w)[1] = Piece(a) /\ Str(w)[2] = Piece(b) /\ Str(w)[3] = Piece(c)
  BY <1>2, <1>3, <1>4
<1> QED
  BY <1>3, <1>5 DEF w

(* What get_vpath() is to leave of a target before it replaces entities,    *)
(* and what stands behind the host.                                         *)
Rest(r) == r.path \o QueryText(r)
Front(r) == r.lead \o Rest(r)

(* How a target is put together.                                            *)
LEMMA TargetIs ==
  ASSUME NEW r \in Requests
  PROVE  /\ QueryText(r) \in Seq(Pieces) /\ Rest(r) \in Seq(Pieces) /\ Front(r) \in Seq(Pieces)
         /\ HostText(r) \in Seq(Pieces) /\ TargetText(r) \in Seq(Pieces)
         /\ Joins(Rest(r), r.path, QueryText(r))
         /\ Joins(Front(r), r.lead, Rest(r))
         /\ Joins(TargetText(r), HostText(r), Front(r))
         /\ r.host # <<>> => Joins(HostText(r), http, r.host)
<1>1. /\ r.host \in Seq(Pieces) /\ r.lead \in Seq(Pieces) /\ r.path \in Seq(Pieces)
      /\ r.query \in Seq(Pieces)
  BY RequestTexts
<1>2. Question \in Seq(Pieces) /\ http \in Seq(Pieces) /\ <<>> \in Seq(Pieces)
  BY Marks, Words, EmptySeq
<1>3. Question \o r.query \in Seq(Pieces) /\ http \o r.host \in Seq(Pieces)
  BY <1>1, <1>2, ConcatProperties
<1>4. QueryText(r) \in Seq(Pieces) /\ HostText(r) \in Seq(Pieces)
  BY <1>2, <1>3 DEF QueryText, HostText
<1>5. Joins(Rest(r), r.path, QueryText(r))
  BY <1>1, <1>4, Joined DEF Rest
<1>6. Rest(r) \in Seq(Pieces)
  BY <1>5 DEF Joins
<1>7. Joins(Front(r), r.lead, Rest(r))
  BY <1>1, <1>6, Joined DEF Front
<1>8. Front(r) \in Seq(Pieces)
  BY <1>7 DEF Joins
<1>9. TargetText(r) = HostText(r) \o Front(r)
  BY DEF TargetText, Front, Rest
<1>10. Joins(TargetText(r), HostText(r), Front(r))
  BY <1>4, <1>8, <1>9, Joined
<1>11. TargetText(r) \in Seq(Pieces)
  BY <1>10 DEF Joins
<1>12. r.host # <<>> => Joins(HostText(r), http, r.host)
  BY <1>1, <1>2, Joined DEF HostText
<1> QED
  BY <1>4, <1>5, <1>6, <1>7, <1>8, <1>10, <1>11, <1>12

(* The text s of a request for the target t of length n, piece by piece.    *)
Asks(s, t, n, method) ==
  /\ s \in Seq(Pieces) /\ n \in Nat /\ Len(s) = n + 5
  /\ s[1] = Piece(method) /\ s[2] = Piece("SP")
  /\ \A k \in 1..n : s[k + 2] = t[k]
  /\ s[n + 3] = Piece("SP") /\ s[n + 4] = Piece("HTTP") /\ s[n + 5] = Piece("/")

(* The text of a request is its method, its target and what ends it.        *)
LEMMA RequestIs ==
  ASSUME NEW r \in Requests
  PROVE  Asks(RequestText(r), TargetText(r), Len(TargetText(r)), r.method)
<1> DEFINE m == Str(<<r.method, "SP">>)
           w == Str(<<"SP", "HTTP", "/">>)
           t == TargetText(r)
           n == Len(t)
           s == RequestText(r)
           u == t \o w
<1>1. r.method \in Letters /\ "SP" \in Letters /\ "HTTP" \in Letters /\ "/" \in Letters
  BY RequestAssumption, Signs
<1>2. m \in Seq(Pieces) /\ Len(m) = 2 /\ m[1] = Piece(r.method) /\ m[2] = Piece("SP")
  BY <1>1, LetterPair
<1>3. /\ w \in Seq(Pieces) /\ Len(w) = 3
      /\ w[1] = Piece("SP") /\ w[2] = Piece("HTTP") /\ w[3] = Piece("/")
  BY <1>1, LetterTriple
<1>4. t \in Seq(Pieces) /\ Len(t) = n /\ n \in Nat
  BY TargetIs, LenProperties
<1>5. s = m \o u
  BY DEF RequestText
<1> HIDE DEF m, n, s, w, t
<1>6. Joins(u, t, w)
  BY <1>3, <1>4, Joined
<1> HIDE DEF u
<1>7. Joins(s, m, u)
  <2>1. u \in Seq(Pieces)
    BY <1>6 DEF Joins
  <2>2. Joins(m \o u, m, u)
    BY <1>2, <2>1, Joined
  <2> QED
    BY <1>5, <2>2, Zenon
<1>8. s \in Seq(Pieces) /\ Len(u) = n + 3 /\ Len(s) = n + 5
  <2>1. Len(u) = Len(t) + Len(w)
    BY <1>6 DEF Joins
  <2>2. s \in Seq(Pieces) /\ Len(s) = Len(m) + Len(u)
    BY <1>7 DEF Joins
  <2>3. Len(m) = 2 /\ Len(w) = 3
    BY <1>2, <1>3
  <2> QED
    BY <1>4, <2>1, <2>2, <2>3
<1>9. s[1] = m[1] /\ s[2] = m[2]
  <2>1. \A k \in 1..Len(m) : s[k] = m[k]
    BY <1>7 DEF Joins
  <2>2. Len(m) = 2
    BY <1>2
  <2>3. 1 \in 1..Len(m) /\ 2 \in 1..Len(m)
    BY <2>2
  <2> QED
    BY <2>1, <2>3
<1>10. \A k \in 1..(n + 3) : s[k + 2] = u[k]
  <2>1. ASSUME NEW k \in 1..(n + 3) PROVE s[k + 2] = u[k]
    <3>1. s[2 + k] = u[k]
      BY <1>2, <1>7, <1>8 DEF Joins
    <3>2. 2 + k = k + 2
      BY <1>4
    <3> QED
      BY <3>1, <3>2
  <2> QED
    BY <2>1
<1>11. \A k \in 1..n : u[k] = t[k]
  BY <1>4, <1>6 DEF Joins
<1>12. \A k \in 1..3 : u[n + k] = w[k]
  BY <1>3, <1>4, <1>6 DEF Joins
<1>13. \A k \in 1..n : s[k + 2] = t[k]
  <2>1. ASSUME NEW k \in 1..n PROVE s[k + 2] = t[k]
    <3>1. k \in 1..(n + 3)
      BY <1>4
    <3> QED
      BY <1>10, <1>11, <3>1
  <2> QED
    BY <2>1
<1>14. s[n + 3] = w[1] /\ s[n + 4] = w[2] /\ s[n + 5] = w[3]
  <2>1. n + 1 \in 1..(n + 3) /\ n + 2 \in 1..(n + 3) /\ n + 3 \in 1..(n + 3)
    BY <1>4
  <2>2. (n + 1) + 2 = n + 3 /\ (n + 2) + 2 = n + 4 /\ (n + 3) + 2 = n + 5
    BY <1>4
  <2>3. s[(n + 1) + 2] = u[n + 1] /\ s[(n + 2) + 2] = u[n + 2] /\ s[(n + 3) + 2] = u[n + 3]
    BY <1>10, <2>1
  <2>4. u[n + 1] = w[1] /\ u[n + 2] = w[2] /\ u[n + 3] = w[3]
    BY <1>12
  <2> QED
    BY <2>2, <2>3, <2>4
<1> QED
  <2>1. Asks(s, t, n, r.method)
    BY <1>2, <1>3, <1>4, <1>8, <1>9, <1>13, <1>14, Zenon DEF Asks
  <2> QED
    BY <2>1 DEF n, s, t

(* Two words stand where they are one behind the other.                     *)
LEMMA PairStands ==
  ASSUME NEW a \in Letters, NEW b \in Letters, NEW t \in Seq(Pieces), NEW k \in Nat
  PROVE  StandsAt(Str(<<a, b>>), t, k) <=>
           k \in 1..(Len(t) - 1) /\ t[k] = Piece(a) /\ t[k + 1] = Piece(b)
<1> DEFINE s == Str(<<a, b>>)
<1>1. Len(s) = 2 /\ s[1] = Piece(a) /\ s[2] = Piece(b)
  BY LetterPair
<1> HIDE DEF s
<1>2. Len(t) \in Nat
  BY LenProperties
<1>3. k + 1 - 1 = k /\ k + 2 - 1 = k + 1 /\ Len(t) - 2 + 1 = Len(t) - 1
  BY <1>2
<1>4. StandsAt(s, t, k) <=> k \in 1..(Len(t) - 2 + 1) /\ \A j \in 1..2 : t[k + j - 1] = s[j]
  BY <1>1 DEF StandsAt
<1>5. (\A j \in 1..2 : t[k + j - 1] = s[j]) <=> t[k + 1 - 1] = s[1] /\ t[k + 2 - 1] = s[2]
  OBVIOUS
<1> QED
  BY <1>1, <1>3, <1>4, <1>5, Zenon DEF s

(* Where the tail of a request stands that Substr() looks for.              *)
LEMMA TailFound ==
  ASSUME NEW r \in Requests
  PROVE  FindFrom(Str(<<"SP", "HTTP">>), RequestText(r), 3) = Len(TargetText(r)) + 3
<1> DEFINE t == TargetText(r)
           n == Len(t)
           s == RequestText(r)
           w == Str(<<"SP", "HTTP">>)
           f == FindFrom(w, s, 3)
<1>1. "SP" \in Letters /\ "HTTP" \in Letters /\ Piece("SP") # Piece("HTTP")
  BY Signs, PieceSame
<1>0. Asks(s, t, n, r.method)
  BY RequestIs
<1>2. /\ s \in Seq(Pieces) /\ n \in Nat /\ Len(s) = n + 5
      /\ \A k \in 1..n : s[k + 2] = t[k]
      /\ s[n + 3] = Piece("SP") /\ s[n + 4] = Piece("HTTP")
  <2> HIDE DEF n, s, t
  <2> QED
    BY <1>0, Zenon DEF Asks
<1>3. \A k \in 1..(n - 1) : t[k] = Piece("SP") => t[k + 1] # Piece("HTTP")
  BY RequestAssumption
<1>4. w \in Seq(Pieces) /\ Len(w) = 2
  BY <1>1, LetterPair
<1> HIDE DEF n, s, t
<1>5. \A k \in Nat : StandsAt(w, s, k) <=>
        k \in 1..(Len(s) - 1) /\ s[k] = Piece("SP") /\ s[k + 1] = Piece("HTTP")
  BY <1>1, <1>2, PairStands, SMTT(30)
<1> HIDE DEF w
<1>6. FindsFrom(w, s, 3, f)
  <2>1. s \in Seq(Pieces) /\ w \in Seq(Pieces) /\ Len(w) = 2
    BY <1>2, <1>4, Zenon
  <2>2. Len(w) >= 1 /\ 3 \in Nat /\ 3 >= 1
    BY <2>1
  <2> QED
    BY <2>1, <2>2, FoundFrom
<1> HIDE DEF f
<1>7. n + 3 \in Nat /\ 3 <= n + 3 /\ StandsAt(w, s, n + 3)
  <2>1. Len(s) = n + 5 /\ n \in Nat
    BY <1>2
  <2>2. n + 3 \in Nat /\ 3 <= n + 3 /\ n + 3 \in 1..(Len(s) - 1) /\ (n + 3) + 1 = n + 4
    BY <2>1
  <2> QED
    BY <1>2, <1>5, <2>2, Zenon
<1>8. ASSUME NEW k \in Nat, 3 <= k, StandsAt(w, s, k), ~ (n + 3 <= k)
      PROVE  FALSE
  <2>1. n \in Nat
    BY <1>2
  <2> DEFINE j == k - 2
  <2>2. j \in 1..n /\ j + 2 = k /\ (j = n => k + 1 = n + 3)
        /\ (j # n => j \in 1..(n - 1) /\ j + 1 \in 1..n /\ (j + 1) + 2 = k + 1)
    BY <1>8, <2>1
  <2> HIDE DEF j
  <2>3. s[k] = Piece("SP") /\ s[k + 1] = Piece("HTTP")
    BY <1>5, <1>8
  <2>4. t[j] = Piece("SP")
    BY <1>2, <2>2, <2>3, Zenon
  <2>5. CASE j = n
    BY <1>1, <1>2, <2>2, <2>3, <2>5, Zenon
  <2>6. CASE j # n
    BY <1>2, <1>3, <2>2, <2>3, <2>4, <2>6, Zenon
  <2> QED
    BY <2>5, <2>6
<1>9. f \in Nat /\ 3 <= f /\ StandsAt(w, s, f) /\ f <= n + 3
  BY <1>6, <1>7, Zenon DEF FindsFrom
<1>10. n + 3 <= f
  BY <1>8, <1>9
<1>11. f = n + 3
  <2>1. n \in Nat
    BY <1>2
  <2> QED
    BY <1>9, <1>10, <2>1
<1> QED
  BY <1>11 DEF f, w, s, n, t

(* The head of another method is not in a request.                          *)
LEMMA HeadMissed ==
  ASSUME NEW r \in Requests, r.type # r.method
  PROVE  Find(Str(<<r.type, "SP">>), RequestText(r)) = npos
<1> DEFINE t == TargetText(r)
           n == Len(t)
           s == RequestText(r)
           w == Str(<<r.type, "SP">>)
           f == Find(w, s)
<1>1. r.type \in Letters /\ "SP" \in Letters
  BY RequestAssumption, Signs
<1>2. /\ Piece(r.method) # Piece(r.type) /\ Piece("SP") # Piece(r.type)
      /\ Piece("HTTP") # Piece(r.type) /\ Piece("/") # Piece(r.type)
  <2>1. r.type # "SP" /\ r.type # "HTTP" /\ r.type # "/"
    <3>1. r.type \in {"GET", "POST"}
      BY RequestAssumption
    <3> QED
      BY <3>1
  <2> QED
    BY <2>1, PieceSame
<1>3. /\ s \in Seq(Pieces) /\ n \in Nat /\ Len(s) = n + 5
      /\ s[1] = Piece(r.method) /\ s[2] = Piece("SP")
      /\ \A k \in 1..n : s[k + 2] = t[k]
      /\ s[n + 3] = Piece("SP") /\ s[n + 4] = Piece("HTTP") /\ s[n + 5] = Piece("/")
  <2>1. Asks(s, t, n, r.method)
    BY RequestIs
  <2> HIDE DEF n, s, t
  <2> QED
    BY <2>1, Zenon DEF Asks
<1>4. \A k \in 1..n : t[k] # Piece(r.type)
  BY RequestAssumption
<1>5. w \in Seq(Pieces) /\ Len(w) = 2
  BY <1>1, LetterPair
<1> HIDE DEF n, s, t
<1>6. \A k \in Nat : StandsAt(w, s, k) => k \in 1..(Len(s) - 1) /\ s[k] = Piece(r.type)
  <2>1. s \in Seq(Pieces)
    BY <1>3, Zenon
  <2> QED
    BY <1>1, <2>1, PairStands DEF w
<1> HIDE DEF w
<1>7. Finds(w, s, f)
  <2>1. Len(w) >= 1
    BY <1>5
  <2> QED
    BY <1>3, <1>5, <2>1, Found
<1> HIDE DEF f
<1>8. ASSUME NEW k \in Nat, StandsAt(w, s, k) PROVE FALSE
  <2>1. n \in Nat /\ Len(s) = n + 5
    BY <1>3
  <2>2. k \in 1..(Len(s) - 1) /\ s[k] = Piece(r.type)
    BY <1>6, <1>8
  <2> DEFINE j == k - 2
  <2>3. k = 1 \/ k = 2 \/ (j \in 1..n /\ j + 2 = k) \/ k = n + 3 \/ k = n + 4
    BY <2>1, <2>2
  <2> HIDE DEF j
  <2>4. ~ (j \in 1..n /\ j + 2 = k)
    BY <1>3, <1>4, <2>2, Zenon
  <2> QED
    BY <1>2, <1>3, <2>2, <2>3, <2>4, Zenon
<1>9. f = npos
  BY <1>7, <1>8 DEF Finds
<1> QED
  BY <1>9 DEF f, w, s

(* Substr() finds the target of a request of the method that is asked for,  *)
(* and nothing of another.                                                  *)
LEMMA TargetRead ==
  ASSUME NEW r \in Requests
  PROVE  Between(RequestText(r), Str(<<r.type, "SP">>), Str(<<"SP", "HTTP">>)) =
           IF r.type = r.method THEN TargetText(r) ELSE <<>>
<1> DEFINE t == TargetText(r)
           n == Len(t)
           s == RequestText(r)
           h == Str(<<r.type, "SP">>)
           w == Str(<<"SP", "HTTP">>)
<1>1. CASE r.type # r.method
  BY <1>1, HeadMissed DEF Between
<1>2. CASE r.type = r.method
  <2>1. h \in Seq(Pieces) /\ Len(h) = 2
    BY RequestAssumption, Signs, LetterPair
  <2>2. Find(h, s) = 1
    <3> DEFINE u == TargetText(r) \o Str(<<"SP", "HTTP", "/">>)
    <3>1. s = h \o u
      BY <1>2 DEF RequestText
    <3>2. u \in Seq(Pieces)
      <4>1. "SP" \in Letters /\ "HTTP" \in Letters /\ "/" \in Letters
        BY Signs
      <4>2. Str(<<"SP", "HTTP", "/">>) \in Seq(Pieces)
        BY <4>1, LetterTriple
      <4> QED
        BY <4>2, TargetIs, ConcatProperties
    <3> HIDE DEF u, h, s
    <3>3. Len(h) >= 1
      BY <2>1
    <3> QED
      BY <2>1, <3>1, <3>2, <3>3, FoundFirst
  <2>3. FindFrom(w, s, 3) = n + 3
    BY TailFound
  <2>4. s \in Seq(Pieces) /\ n \in Nat /\ Len(s) = n + 5 /\ \A k \in 1..n : s[k + 2] = t[k]
    <3>1. Asks(s, t, n, r.method)
      BY RequestIs
    <3> HIDE DEF n, s, t
    <3> QED
      BY <3>1, Zenon DEF Asks
  <2>5. t \in Seq(Pieces)
    BY TargetIs
  <2> DEFINE u == SubSeq(s, 3, n + 2)
  <2>6. Between(s, h, w) = u
    <3> HIDE DEF h, s, w, n
    <3>1. 1 + Len(h) = 3 /\ 1 # npos /\ n + 3 # npos /\ (n + 3) - 1 = n + 2
      BY <2>1, <2>4 DEF npos
    <3> QED
      BY <2>2, <2>3, <3>1 DEF Between
  <2> HIDE DEF s, n, t
  <2>7. /\ u \in Seq(Pieces) /\ Len(u) = (n + 2) - 3 + 1
        /\ \A j \in 1..((n + 2) - 3 + 1) : u[j] = s[3 + j - 1]
    <3>1. 3 \in Nat /\ n + 2 \in Nat /\ 1 <= 3 /\ 3 <= (n + 2) + 1 /\ n + 2 <= Len(s)
      BY <2>4
    <3> QED
      BY <2>4, <3>1, Section
  <2> HIDE DEF u
  <2>8. Len(u) = n /\ (n + 2) - 3 + 1 = n
    BY <2>4, <2>7
  <2>9. ASSUME NEW j \in 1..Len(u) PROVE u[j] = t[j]
    <3>1. j \in 1..n /\ 3 + j - 1 = j + 2
      BY <2>4, <2>8
    <3> QED
      BY <2>4, <2>7, <2>8, <3>1, Zenon
  <2>10. u = t
    BY <2>5, <2>7, <2>8, <2>9, SeqEqual DEF n
  <2> QED
    BY <1>2, <2>6, <2>10 DEF s, t
<1> QED
  BY <1>1, <1>2

(* Words are counted with a natural number.                                 *)
LEMMA CountIs ==
  ASSUME NEW t \in Seq(Pieces), NEW W
  PROVE  /\ Count(t, W) \in Nat
         /\ (\E k \in 1..Len(t) : t[k] \in W) => Count(t, W) >= 1
<1> DEFINE K == {k \in 1..Len(t) : t[k] \in W}
<1>1. Len(t) \in Nat
  BY LenProperties
<1>2. IsFiniteSet(1..Len(t))
  BY <1>1, FS_Interval
<1>3. K \in SUBSET (1..Len(t))
  OBVIOUS
<1>4. Count(t, W) = Cardinality(K)
  BY DEF Count
<1>5. (\E k \in 1..Len(t) : t[k] \in W) => K # {}
  OBVIOUS
<1> HIDE DEF K
<1>6. IsFiniteSet(K)
  BY <1>2, <1>3, FS_Subset
<1>7. Cardinality(K) \in Nat /\ (K # {} => Cardinality(K) # 0)
  BY <1>6, FS_CardinalityType, FS_EmptySet
<1> QED
  BY <1>4, <1>5, <1>7

(* A text with "http" or "amp;" is longer than its pieces.                  *)
LEMMA SizeLong ==
  ASSUME NEW t \in Seq(Pieces)
  PROVE  /\ SizeOf(t) \in Nat
         /\ \A k \in 1..Len(t) :
              t[k] \in {Piece("http"), Piece("amp")} => SizeOf(t) >= Len(t) + 3
<1> DEFINE W == {Piece("http"), Piece("HTTP"), Piece("POST"), Piece("amp")}
           a == Count(t, {Piece("GET")})
           b == Count(t, W)
           c == Count(t, {Piece("VPath")})
<1>1. a \in Nat /\ b \in Nat /\ c \in Nat /\ Len(t) \in Nat
  BY CountIs, LenProperties
<1>2. SizeOf(t) = Len(t) + 2 * a + 3 * b + 4 * c
  BY DEF SizeOf
<1>3. ASSUME NEW k \in 1..Len(t), t[k] \in {Piece("http"), Piece("amp")}
      PROVE  b >= 1
  <2>1. t[k] \in W
    BY <1>3
  <2> HIDE DEF W
  <2> QED
    BY <2>1, CountIs
<1> HIDE DEF a, b, c
<1>4. SizeOf(t) \in Nat /\ (b >= 1 => SizeOf(t) >= Len(t) + 3)
  BY <1>1, <1>2
<1> QED
  BY <1>3, <1>4

(* The empty text has no size.                                              *)
LEMMA SizeNone == SizeOf(<<>>) = 0
<1>1. \A W : Count(<<>>, W) = 0
  <2>1. ASSUME NEW W PROVE Count(<<>>, W) = 0
    <3>1. {k \in 1..Len(<<>>) : <<>>[k] \in W} = {}
      <4>1. 1..Len(<<>>) = {}
        OBVIOUS
      <4> QED
        BY <4>1
    <3> QED
      BY <3>1, FS_EmptySet DEF Count
  <2> QED
    BY <2>1
<1> QED
  BY <1>1 DEF SizeOf

(* An argument, by what divides it.                                         *)
LEMMA ArgumentTexts ==
  ASSUME NEW a \in Seq(Seq(Pieces)), IsArgument(a)
  PROVE  /\ ArgText(a) \in Seq(Pieces) /\ Key(a) \in Seq(Pieces) /\ Value(a) \in Seq(Pieces)
         /\ \/ Len(a) = 1 /\ ArgText(a) = a[1] /\ Key(a) = <<>> /\ Value(a) = <<>>
            \/ Len(a) = 2 /\ ArgText(a) = Key(a) \o (Equals \o Value(a)) /\ Key(a) = a[1]
         /\ a[1] \in Seq(Pieces)
<1>1. Len(a) = 1 \/ Len(a) = 2
  BY DEF IsArgument
<1>2. <<>> \in Seq(Pieces) /\ Equals \in Seq(Pieces)
  BY EmptySeq, Marks
<1>3. CASE Len(a) = 1
  <2>1. a[1] \in Seq(Pieces)
    BY <1>3, ElementOfSeq
  <2> QED
    BY <1>2, <1>3, <2>1 DEF ArgText, Key, Value
<1>4. CASE Len(a) = 2
  <2>1. a[1] \in Seq(Pieces) /\ a[2] \in Seq(Pieces)
    <3>1. 1 \in 1..Len(a) /\ 2 \in 1..Len(a)
      BY <1>4
    <3> QED
      BY <3>1, ElementOfSeq
  <2>2. Len(a) # 1
    BY <1>4
  <2> DEFINE x == a[1]
             y == a[2]
  <2>3. Key(a) = x /\ Value(a) = y /\ ArgText(a) = (x \o Equals) \o y
    BY <2>2, Zenon DEF ArgText, Key, Value
  <2> HIDE DEF x, y
  <2>4. x \in Seq(Pieces) /\ y \in Seq(Pieces)
    BY <2>1 DEF x, y
  <2>5. (x \o Equals) \o y = x \o (Equals \o y) /\ x \o Equals \in Seq(Pieces)
    BY <1>2, <2>4, Grouped, SMTT(30)
  <2>6. (x \o Equals) \o y \in Seq(Pieces)
    BY <2>4, <2>5, Grouped
  <2>7. ArgText(a) \in Seq(Pieces) /\ ArgText(a) = Key(a) \o (Equals \o Value(a))
    BY <2>3, <2>5, <2>6, Zenon
  <2> QED
    BY <1>4, <2>1, <2>3, <2>4, <2>7 DEF x
<1> QED
  BY <1>1, <1>3, <1>4

(* divide_argument() takes it apart.                                        *)
LEMMA Divided ==
  ASSUME NEW a \in Seq(Seq(Pieces)), IsArgument(a)
  PROVE  DivideArgument(ArgText(a)) = <<Key(a), Value(a)>>
<1> DEFINE s == ArgText(a)
           f == Find(Equals, s)
<1>1. s \in Seq(Pieces) /\ Key(a) \in Seq(Pieces) /\ Value(a) \in Seq(Pieces) /\ a[1] \in Seq(Pieces)
  BY ArgumentTexts
<1>2. FirstOf("=", s, f)
  <2>1. Piece("=") \in Pieces
    BY Signs
  <2> HIDE DEF s
  <2> QED
    BY <1>1, <2>1, FoundLetter DEF Equals
<1>3. \A j \in 1..Len(a[1]) : a[1][j] # Piece("=")
  BY DEF IsArgument
<1>4. CASE Len(a) = 1 /\ s = a[1] /\ Key(a) = <<>> /\ Value(a) = <<>>
  <2> HIDE DEF s, f
  <2>1. f = npos
    <3>1. \A k \in 1..Len(s) : s[k] # Piece("=")
      BY <1>3, <1>4, Zenon
    <3> QED
      BY <1>2, <3>1 DEF FirstOf
  <2> QED
    BY <1>4, <2>1 DEF DivideArgument, f, s
<1>5. CASE s = Key(a) \o (Equals \o Value(a)) /\ Key(a) = a[1]
  <2> DEFINE key == Key(a)
             value == Value(a)
             u == Equals \o value
  <2>1. Joins(u, Equals, value)
    BY <1>1, Marks, Joined
  <2>2. u \in Seq(Pieces) /\ u[1] = Piece("=") /\ Len(u) = 1 + Len(value) /\ Len(value) \in Nat
    <3> HIDE DEF u, value
    <3>1. Len(Equals) = 1 /\ Equals[1] = Piece("=")
      BY Marks
    <3>2. 1 \in 1..Len(Equals)
      BY <3>1
    <3> QED
      BY <2>1, <3>1, <3>2 DEF Joins
  <2>3. s = key \o u
    BY <1>5
  <2> HIDE DEF s, f, u
  <2>4. Joins(s, key, u)
    <3>1. Joins(key \o u, key, u)
      BY <1>1, <2>2, Joined
    <3> QED
      BY <2>3, <3>1, Zenon
  <2>5. \A j \in 1..Len(key) : key[j] # Piece("=")
    BY <1>3, <1>5, Zenon
  <2> HIDE DEF key, value
  <2>6. Len(key) \in Nat /\ Len(s) = Len(key) + Len(u) /\ (\A k \in 1..Len(key) : s[k] = key[k])
        /\ (\A k \in 1..Len(u) : s[Len(key) + k] = u[k])
    BY <2>4 DEF Joins
  <2>7. s[Len(key) + 1] = Piece("=") /\ Len(key) + 1 \in 1..Len(s)
    <3>1. 1 \in 1..Len(u) /\ Len(key) + 1 \in 1..Len(s)
      BY <2>2, <2>6
    <3> QED
      BY <2>2, <2>6, <3>1
  <2>8. \A k \in 1..Len(key) : s[k] # Piece("=")
    BY <2>5, <2>6
  <2>9. f = Len(key) + 1
    <3>1. f \in 1..Len(s) /\ s[f] = Piece("=") /\ \A k \in 1..(f - 1) : s[k] # Piece("=")
      BY <1>2, <2>7 DEF FirstOf
    <3>2. Len(key) + 1 \notin 1..(f - 1) /\ f \notin 1..Len(key)
      BY <2>7, <2>8, <3>1
    <3> QED
      BY <2>6, <3>1, <3>2
  <2>10. f # npos
    BY <2>6, <2>9 DEF npos
  <2>11. Before(s, f) = key /\ From(s, f) = u
    BY <1>1, <2>2, <2>3, <2>9, Apart DEF key
  <2>12. From(s, f + 1) = value
    <3>0. key \in Seq(Pieces) /\ value \in Seq(Pieces) /\ Equals \in Seq(Pieces) /\ Len(Equals) = 1
      BY <1>1, Marks DEF key, value
    <3>1. s = (key \o Equals) \o value /\ key \o Equals \in Seq(Pieces)
      <4>1. (key \o Equals) \o value = key \o (Equals \o value) /\ key \o Equals \in Seq(Pieces)
        BY <3>0, Grouped, SMTT(30)
      <4> QED
        BY <2>3, <4>1, Zenon DEF u
    <3>2. Len(key \o Equals) = Len(key) + 1
      <4>1. Joins(key \o Equals, key, Equals)
        BY <3>0, Joined
      <4> DEFINE v == key \o Equals
      <4> HIDE DEF v
      <4>2. Len(v) = Len(key) + Len(Equals)
        BY <4>1 DEF Joins, v
      <4> QED
        BY <3>0, <4>2 DEF v
    <3>3. From(s, Len(key \o Equals) + 1) = value
      <4> DEFINE v == key \o Equals
      <4>1. v \in Seq(Pieces) /\ s = v \o value
        BY <3>1
      <4> HIDE DEF v
      <4>2. From(v \o value, Len(v) + 1) = value
        BY <3>0, <4>1, Apart
      <4>3. From(s, Len(v) + 1) = value
        BY <4>1, <4>2, Zenon
      <4> QED
        BY <4>3 DEF v
    <3> QED
      BY <2>9, <3>2, <3>3
  <2> QED
    BY <2>10, <2>11, <2>12 DEF DivideArgument, f, s, key, value
<1> QED
  BY <1>4, <1>5, ArgumentTexts

(* The arguments stand in q at the places at.                               *)
IsList(q, args, at) ==
  /\ q \in Seq(Pieces) /\ args \in Seq(Seq(Seq(Pieces))) /\ args # <<>>
  /\ \A k \in 1..Len(args) : IsArgument(args[k])
  /\ at \in [1..Len(args) -> 1..(Len(q) + 1)]
  /\ Lists(q, args, at)

(* Nothing but one "&" is between two of them.                              *)
Close(args, at) ==
  \A k \in 1..(Len(args) - 1) : at[k + 1] = EndOf(args, at, k) + 1

(* Where the arguments begin and end.                                       *)
Places(q, args, at) ==
  /\ Len(q) \in Nat /\ Len(args) \in Nat /\ Len(args) >= 1 /\ at[1] = 1
  /\ \A k \in 1..Len(args) :
       /\ at[k] \in Nat /\ 1 <= at[k] /\ EndOf(args, at, k) \in Nat
       /\ at[k] <= EndOf(args, at, k) /\ EndOf(args, at, k) <= Len(q) + 1
       /\ Len(ArgText(args[k])) \in Nat
       /\ EndOf(args, at, k) = at[k] + Len(ArgText(args[k]))
  /\ \A k \in 1..(Len(args) - 1) :
       EndOf(args, at, k) < at[k + 1] /\ at[k + 1] <= Len(q) + 1 /\ at[k + 1] \in Nat
  /\ EndOf(args, at, Len(args)) = Len(q) + 1

(* They lie in q one behind the other.                                      *)
LEMMA ListPlaces ==
  ASSUME NEW q, NEW args, NEW at, IsList(q, args, at)
  PROVE  Places(q, args, at)
<1> DEFINE n == Len(args)
           e(k) == EndOf(args, at, k)
<1>1. q \in Seq(Pieces) /\ args \in Seq(Seq(Seq(Pieces))) /\ args # <<>>
  BY DEF IsList
<1>2. Len(q) \in Nat /\ n \in Nat /\ n >= 1
  BY <1>1, LenProperties, EmptySeq
<1>3. at[1] = 1 /\ e(n) = Len(q) + 1 /\ \A k \in 1..(n - 1) : e(k) < at[k + 1]
  BY DEF IsList, Lists
<1>4. \A k \in 1..n : at[k] \in 1..(Len(q) + 1)
  BY DEF IsList
<1>5. \A k \in 1..n : Len(ArgText(args[k])) \in Nat
  <2>1. ASSUME NEW k \in 1..n PROVE Len(ArgText(args[k])) \in Nat
    <3>1. args[k] \in Seq(Seq(Pieces)) /\ IsArgument(args[k])
      BY <1>1, ElementOfSeq DEF IsList
    <3> QED
      BY <3>1, ArgumentTexts, LenProperties
  <2> QED
    BY <2>1
<1>6. \A k \in 1..n : e(k) = at[k] + Len(ArgText(args[k]))
  BY DEF EndOf
<1> HIDE DEF n, e
<1>7. \A k \in 1..n : e(k) \in Nat /\ at[k] \in Nat /\ 1 <= at[k] /\ at[k] <= e(k)
  BY <1>2, <1>4, <1>5, <1>6
<1>8. \A k \in 1..(n - 1) : k \in 1..n /\ k + 1 \in 1..n
  BY <1>2
<1>9. \A k \in 1..(n - 1) : at[k + 1] <= Len(q) + 1 /\ at[k + 1] \in Nat
  BY <1>2, <1>4, <1>8
<1>10. \A k \in 1..n : e(k) <= Len(q) + 1
  <2>1. ASSUME NEW k \in 1..n PROVE e(k) <= Len(q) + 1
    <3>1. CASE k = n
      BY <1>2, <1>3, <3>1
    <3>2. CASE k # n
      <4>1. k \in 1..(n - 1)
        BY <1>2, <3>2
      <4>2. e(k) \in Nat /\ e(k) < at[k + 1] /\ at[k + 1] <= Len(q) + 1 /\ at[k + 1] \in Nat
        BY <1>3, <1>7, <1>9, <4>1
      <4> QED
        BY <1>2, <4>2
    <3> QED
      BY <3>1, <3>2
  <2> QED
    BY <2>1
<1> QED
  BY <1>2, <1>3, <1>5, <1>6, <1>7, <1>9, <1>10, Zenon DEF Places, n, e

(* Neither "&" nor "amp;" is in an argument.                                *)
LEMMA ListLetters ==
  ASSUME NEW q, NEW args, NEW at, IsList(q, args, at), NEW k \in 1..Len(args), NEW j \in Nat,
         at[k] <= j, j < EndOf(args, at, k)
  PROVE  q[j] # Piece("&") /\ q[j] # Piece("amp")
<1> DEFINE t == ArgText(args[k])
           h == j - at[k] + 1
<1>1. at[k] \in Nat /\ Len(t) \in Nat /\ EndOf(args, at, k) = at[k] + Len(t)
  BY ListPlaces DEF Places
<1>2. \A m \in 1..Len(t) : q[at[k] + m - 1] = t[m]
  BY DEF IsList, Lists
<1>3. \A m \in 1..Len(t) : t[m] \notin {Piece("&"), Piece("amp")}
  <2>1. IsArgument(args[k])
    BY DEF IsList
  <2> QED
    BY <2>1 DEF IsArgument
<1> HIDE DEF t
<1>4. h \in 1..Len(t) /\ at[k] + h - 1 = j
  BY <1>1
<1> HIDE DEF h
<1>5. q[j] = t[h] /\ t[h] \notin {Piece("&"), Piece("amp")}
  BY <1>2, <1>3, <1>4
<1> QED
  BY <1>5

(* If more than one "&" is between two of them, it is an entity.            *)
LEMMA Gap ==
  ASSUME NEW q, NEW args, NEW at, IsList(q, args, at), ~ Close(args, at)
  PROVE  \E j \in 1..(Len(q) - 1) : q[j] = Piece("&") /\ q[j + 1] = Piece("amp")
<1>1. PICK k \in 1..(Len(args) - 1) : at[k + 1] # EndOf(args, at, k) + 1
  BY DEF Close
<1> DEFINE e == EndOf(args, at, k)
           b == at[k + 1]
<1>2. q[e] = Piece("&") /\ \A j \in (e + 1)..(b - 1) : q[j] = Piece("amp")
  BY DEF IsList, Lists
<1>3. Len(q) \in Nat /\ Len(args) \in Nat /\ e < b /\ b <= Len(q) + 1 /\ b \in Nat
  BY ListPlaces DEF Places
<1>4. at[k] \in Nat /\ 1 <= at[k] /\ e \in Nat /\ at[k] <= e
  <2>1. k \in 1..Len(args)
    BY <1>3
  <2> QED
    BY <2>1, ListPlaces DEF Places
<1>5. b # e + 1
  BY <1>1
<1> HIDE DEF e, b
<1>6. e \in 1..(Len(q) - 1) /\ e + 1 \in (e + 1)..(b - 1)
  BY <1>3, <1>4, <1>5
<1> QED
  BY <1>2, <1>6

(* u is q without what stands behind place p.                               *)
Shorter(u, q, p) ==
  /\ u \in Seq(Pieces) /\ Len(u) = Len(q) - 1
  /\ \A j \in 1..p : u[j] = q[j]
  /\ \A j \in (p + 1)..(Len(q) - 1) : u[j] = q[j + 1]

(* Every argument lies on one side of an "amp;".                            *)
LEMMA Beside ==
  ASSUME NEW q, NEW args, NEW at, IsList(q, args, at),
         NEW p \in 1..(Len(q) - 1), q[p + 1] = Piece("amp"), NEW k \in 1..Len(args)
  PROVE  at[k] > p + 1 \/ EndOf(args, at, k) < p + 1
<1> DEFINE e == EndOf(args, at, k)
           n == Len(args)
<1>1. /\ Len(q) \in Nat /\ n \in Nat /\ at[k] \in Nat /\ e \in Nat /\ at[k] <= e
      /\ EndOf(args, at, n) = Len(q) + 1
  BY ListPlaces DEF Places
<1>2. Piece("&") # Piece("amp")
  BY PieceSame
<1>3. k # n => q[e] = Piece("&")
  <2>1. ASSUME k # n PROVE q[e] = Piece("&")
    <3>1. k \in 1..(n - 1)
      BY <1>1, <2>1
    <3> QED
      BY <3>1 DEF IsList, Lists
  <2> QED
    BY <2>1
<1>4. k = n => e = Len(q) + 1
  BY <1>1
<1>5. at[k] <= p + 1 /\ p + 1 < e => FALSE
  BY <1>1, ListLetters
<1> HIDE DEF e, n
<1>6. e # p + 1
  BY <1>1, <1>2, <1>3, <1>4
<1> QED
  BY <1>1, <1>5, <1>6 DEF e

(* Where the arguments stand when the piece behind place p is gone.         *)
Moved(args, at, p) == [k \in 1..Len(args) |-> IF at[k] > p + 1 THEN at[k] - 1 ELSE at[k]]

(* The numbers of it.                                                       *)
LEMMA MovedPlaces ==
  ASSUME NEW q, NEW args, NEW at, IsList(q, args, at),
         NEW p \in 1..(Len(q) - 1), q[p + 1] = Piece("amp"), NEW k \in 1..Len(args)
  PROVE  LET b == Moved(args, at, p) IN
         \/ /\ at[k] > p + 1 /\ b[k] = at[k] - 1
            /\ EndOf(args, b, k) = EndOf(args, at, k) - 1
         \/ /\ at[k] < p + 1 /\ EndOf(args, at, k) < p + 1 /\ b[k] = at[k]
            /\ EndOf(args, b, k) = EndOf(args, at, k)
<1> DEFINE b == Moved(args, at, p)
           e == EndOf(args, at, k)
           f == EndOf(args, b, k)
           n == Len(ArgText(args[k]))
<1>1. at[k] \in Nat /\ e \in Nat /\ at[k] <= e /\ n \in Nat /\ e = at[k] + n
  BY ListPlaces DEF Places
<1>2. p \in Nat
  BY ListPlaces DEF Places
<1>3. at[k] > p + 1 \/ e < p + 1
  BY Beside
<1>4. b[k] = IF at[k] > p + 1 THEN at[k] - 1 ELSE at[k]
  BY DEF Moved
<1>5. f = b[k] + n
  BY DEF EndOf
<1> HIDE DEF b, e, f, n
<1>6. CASE at[k] > p + 1
  BY <1>1, <1>2, <1>4, <1>5, <1>6 DEF b, e, f
<1>7. CASE ~ (at[k] > p + 1)
  <2>1. e < p + 1 /\ at[k] < p + 1 /\ b[k] = at[k] /\ f = e
    BY <1>1, <1>2, <1>3, <1>4, <1>5, <1>7
  <2> QED
    BY <2>1 DEF b, e, f
<1> QED
  BY <1>6, <1>7

(* An "&amp;" that becomes an "&" leaves the arguments as they are.         *)
LEMMA Contracted ==
  ASSUME NEW q, NEW args, NEW at, IsList(q, args, at),
         NEW p \in 1..(Len(q) - 1), q[p + 1] = Piece("amp"), NEW u, Shorter(u, q, p)
  PROVE  IsList(u, args, Moved(args, at, p))
<1> DEFINE n == Len(args)
           m == Len(q)
           b == Moved(args, at, p)
           e(k) == EndOf(args, at, k)
           f(k) == EndOf(args, b, k)
<1>1. /\ m \in Nat /\ n \in Nat /\ n >= 1 /\ at[1] = 1 /\ e(n) = m + 1
      /\ \A k \in 1..n : /\ at[k] \in Nat /\ 1 <= at[k] /\ e(k) \in Nat
                         /\ at[k] <= e(k) /\ e(k) <= m + 1
                         /\ Len(ArgText(args[k])) \in Nat
                         /\ e(k) = at[k] + Len(ArgText(args[k]))
      /\ \A k \in 1..(n - 1) : e(k) < at[k + 1] /\ at[k + 1] <= m + 1 /\ at[k + 1] \in Nat
  BY ListPlaces DEF Places
<1>2. p \in Nat /\ 1 <= p /\ p + 1 <= m /\ m \in Nat
  BY <1>1
<1>3. u \in Seq(Pieces) /\ Len(u) = m - 1
      /\ (\A j \in 1..p : u[j] = q[j]) /\ (\A j \in (p + 1)..(m - 1) : u[j] = q[j + 1])
  BY DEF Shorter
<1>4. ASSUME NEW k \in 1..n
      PROVE  /\ b[k] \in Nat /\ f(k) \in Nat
             /\ \/ at[k] > p + 1 /\ b[k] + 1 = at[k] /\ f(k) + 1 = e(k)
                \/ at[k] < p + 1 /\ e(k) < p + 1 /\ b[k] = at[k] /\ f(k) = e(k)
  <2>1. \/ at[k] > p + 1 /\ b[k] = at[k] - 1 /\ f(k) = e(k) - 1
        \/ at[k] < p + 1 /\ e(k) < p + 1 /\ b[k] = at[k] /\ f(k) = e(k)
    BY MovedPlaces
  <2>2. at[k] \in Nat /\ 1 <= at[k] /\ e(k) \in Nat /\ at[k] <= e(k)
    BY <1>1
  <2> HIDE DEF b, e, f
  <2>3. CASE at[k] > p + 1 /\ b[k] = at[k] - 1 /\ f(k) = e(k) - 1
    BY <2>2, <2>3, SMTT(30)
  <2>4. CASE at[k] < p + 1 /\ e(k) < p + 1 /\ b[k] = at[k] /\ f(k) = e(k)
    BY <2>2, <2>4
  <2> QED
    BY <2>1, <2>3, <2>4
<1>5. \A k \in 1..n : \A j \in 1..Len(ArgText(args[k])) : q[at[k] + j - 1] = ArgText(args[k])[j]
  BY DEF IsList, Lists
<1>6. \A k \in 1..(n - 1) :
        q[e(k)] = Piece("&") /\ \A j \in (e(k) + 1)..(at[k + 1] - 1) : q[j] = Piece("amp")
  BY DEF IsList, Lists
<1>7. \A k \in 1..(n - 1) : k \in 1..n /\ k + 1 \in 1..n
  BY <1>1
<1>8. 1 \in 1..n /\ n \in 1..n
  BY <1>1
<1>9. q \in Seq(Pieces) /\ args \in Seq(Seq(Seq(Pieces))) /\ args # <<>>
      /\ \A k \in 1..n : IsArgument(args[k])
  BY DEF IsList
<1>10. DOMAIN b = 1..n /\ b = [k \in 1..n |-> b[k]]
  BY DEF Moved
<1> HIDE DEF n, m, b, e, f
<1>11. \A k \in 1..n : b[k] \in 1..(Len(u) + 1)
  <2>1. ASSUME NEW k \in 1..n PROVE b[k] \in 1..(Len(u) + 1)
    <3>1. Len(u) + 1 = m
      BY <1>1, <1>3
    <3>2. at[k] \in Nat /\ 1 <= at[k] /\ e(k) \in Nat /\ at[k] <= e(k) /\ e(k) <= m + 1
      BY <1>1
    <3>3. \/ at[k] > p + 1 /\ b[k] + 1 = at[k]
          \/ at[k] < p + 1 /\ b[k] = at[k]
      BY <1>4
    <3>6. b[k] \in Nat
      BY <1>4
    <3>4. CASE at[k] > p + 1 /\ b[k] + 1 = at[k]
      BY <1>2, <3>1, <3>2, <3>4, <3>6
    <3>5. CASE at[k] < p + 1 /\ b[k] = at[k]
      BY <1>2, <3>1, <3>2, <3>5
    <3> QED
      BY <3>3, <3>4, <3>5
  <2> QED
    BY <2>1
<1>12. b \in [1..n -> 1..(Len(u) + 1)]
  BY <1>10, <1>11
<1>13. b[1] = 1
  <2>1. \/ at[1] > p + 1 /\ b[1] + 1 = at[1]
        \/ at[1] < p + 1 /\ b[1] = at[1]
    BY <1>4, <1>8
  <2>2. at[1] = 1
    BY <1>1
  <2> QED
    BY <1>2, <2>1, <2>2
<1>14. ASSUME NEW k \in 1..(n - 1) PROVE f(k) < b[k + 1]
  <2>1. e(k) \in Nat /\ at[k] \in Nat /\ at[k + 1] \in Nat /\ e(k) < at[k + 1] /\ at[k] <= e(k)
    BY <1>1, <1>7
  <2>2. \/ at[k] > p + 1 /\ f(k) + 1 = e(k)
        \/ at[k] < p + 1 /\ e(k) < p + 1 /\ f(k) = e(k)
    BY <1>4, <1>7
  <2>3. \/ at[k + 1] > p + 1 /\ b[k + 1] + 1 = at[k + 1]
        \/ at[k + 1] < p + 1 /\ b[k + 1] = at[k + 1]
    BY <1>4, <1>7
  <2>4. f(k) \in Nat /\ b[k + 1] \in Nat
    BY <1>4, <1>7
  <2>5. CASE at[k] > p + 1 /\ f(k) + 1 = e(k)
    <3>1. at[k + 1] > p + 1
      BY <1>2, <2>1, <2>5
    <3>2. b[k + 1] + 1 = at[k + 1]
      BY <1>2, <2>1, <2>3, <3>1
    <3> QED
      BY <2>1, <2>4, <2>5, <3>2
  <2>6. CASE at[k] < p + 1 /\ e(k) < p + 1 /\ f(k) = e(k)
    <3>1. CASE at[k + 1] > p + 1 /\ b[k + 1] + 1 = at[k + 1]
      BY <1>2, <2>1, <2>4, <2>6, <3>1
    <3>2. CASE at[k + 1] < p + 1 /\ b[k + 1] = at[k + 1]
      BY <2>1, <2>4, <2>6, <3>2
    <3> QED
      BY <2>3, <3>1, <3>2
  <2> QED
    BY <2>2, <2>5, <2>6
<1>15. f(n) = Len(u) + 1
  <2>1. e(n) = m + 1 /\ m \in Nat /\ p + 1 <= m
    BY <1>1, <1>2
  <2>2. f(n) \in Nat /\ (f(n) + 1 = e(n) \/ e(n) < p + 1)
    BY <1>4, <1>8
  <2> QED
    BY <1>2, <1>3, <2>1, <2>2
<1>16. ASSUME NEW k \in 1..n, NEW j \in 1..Len(ArgText(args[k]))
       PROVE  u[b[k] + j - 1] = ArgText(args[k])[j]
  <2> DEFINE h == at[k] + j - 1
             t == ArgText(args[k])
  <2>1. q[h] = t[j]
    BY <1>5
  <2>2. at[k] \in Nat /\ 1 <= at[k] /\ e(k) \in Nat /\ e(k) <= m + 1 /\ Len(t) \in Nat /\ e(k) = at[k] + Len(t)
    BY <1>1
  <2>3. j \in Nat /\ 1 <= j /\ j <= Len(t)
    BY <2>2
  <2>4. \/ at[k] > p + 1 /\ b[k] + 1 = at[k]
        \/ e(k) < p + 1 /\ b[k] = at[k]
    BY <1>4
  <2>7. b[k] \in Nat
    BY <1>4
  <2> HIDE DEF t
  <2>5. CASE at[k] > p + 1 /\ b[k] + 1 = at[k]
    <3> DEFINE g == b[k] + j - 1
    <3>1. g \in (p + 1)..(m - 1) /\ g + 1 = h
      <4>1. at[k] >= p + 2 /\ at[k] + Len(t) <= m + 1
        BY <1>2, <2>2, <2>5
      <4>5. \A x, y, z \in Nat : x + 1 = y /\ 1 <= z =>
              x + z - 1 \in Nat /\ y + z - 1 \in Nat /\ (x + z - 1) + 1 = y + z - 1
        OBVIOUS
      <4>2. g \in Nat /\ h \in Nat /\ g + 1 = h
        BY <2>2, <2>3, <2>5, <2>7, <4>5, Zenon
      <4>3. p + 2 <= h
        BY <1>2, <2>2, <2>3, <4>1, SMTT(30)
      <4>4. h <= m
        BY <1>2, <2>2, <2>3, <4>1, SMTT(30)
      <4> HIDE DEF g, h
      <4> QED
        BY <1>2, <4>2, <4>3, <4>4
    <3> HIDE DEF g, h
    <3>2. u[g] = q[h]
      BY <1>3, <3>1
    <3> QED
      BY <2>1, <3>2 DEF g, t
  <2>6. CASE e(k) < p + 1 /\ b[k] = at[k]
    <3>1. h \in 1..p
      BY <1>2, <2>2, <2>3, <2>6, SMTT(30)
    <3> HIDE DEF h
    <3>2. u[h] = q[h]
      BY <1>3, <3>1
    <3> QED
      BY <2>1, <2>6, <3>2 DEF h, t
  <2> QED
    BY <2>4, <2>5, <2>6
<1>17. ASSUME NEW k \in 1..(n - 1)
       PROVE  /\ u[f(k)] = Piece("&")
              /\ \A j \in (f(k) + 1)..(b[k + 1] - 1) : u[j] = Piece("amp")
  <2>1. /\ e(k) \in Nat /\ at[k] \in Nat /\ 1 <= at[k] /\ at[k] <= e(k)
        /\ at[k + 1] \in Nat /\ e(k) < at[k + 1] /\ at[k + 1] <= m + 1
    BY <1>1, <1>7
  <2>2. \/ at[k] > p + 1 /\ f(k) + 1 = e(k)
        \/ at[k] < p + 1 /\ e(k) < p + 1 /\ f(k) = e(k)
    BY <1>4, <1>7
  <2>3. \/ at[k + 1] > p + 1 /\ b[k + 1] + 1 = at[k + 1]
        \/ at[k + 1] < p + 1 /\ b[k + 1] = at[k + 1]
    BY <1>4, <1>7
  <2>4. q[e(k)] = Piece("&") /\ \A j \in (e(k) + 1)..(at[k + 1] - 1) : q[j] = Piece("amp")
    BY <1>6
  <2>7. f(k) \in Nat /\ b[k + 1] \in Nat
    BY <1>4, <1>7
  <2>5. u[f(k)] = q[e(k)]
    <3>1. CASE at[k] > p + 1 /\ f(k) + 1 = e(k)
      <4>1. f(k) \in (p + 1)..(m - 1) /\ f(k) + 1 = e(k)
        BY <1>2, <2>1, <2>7, <3>1, SMTT(30)
      <4> QED
        BY <1>3, <4>1
    <3>2. CASE at[k] < p + 1 /\ e(k) < p + 1 /\ f(k) = e(k)
      <4>1. f(k) \in 1..p /\ f(k) = e(k)
        BY <1>2, <2>1, <2>7, <3>2
      <4> QED
        BY <1>3, <4>1
    <3> QED
      BY <2>2, <3>1, <3>2
  <2>6. ASSUME NEW j \in (f(k) + 1)..(b[k + 1] - 1) PROVE u[j] = Piece("amp")
    <3>1. CASE /\ at[k] > p + 1 /\ f(k) + 1 = e(k)
               /\ at[k + 1] > p + 1 /\ b[k + 1] + 1 = at[k + 1]
      <4>2. j \in Nat /\ f(k) + 1 <= j /\ j + 1 <= b[k + 1]
        BY <2>7
      <4>3. p + 1 <= f(k)
        BY <1>2, <2>1, <2>7, <3>1
      <4>4. j + 2 <= at[k + 1] /\ e(k) + 1 <= j + 1 /\ j <= m - 1 /\ p + 1 <= j
        BY <1>2, <2>1, <2>7, <3>1, <4>2, <4>3, SMTT(30)
      <4>1. j \in (p + 1)..(m - 1) /\ j + 1 \in (e(k) + 1)..(at[k + 1] - 1)
        BY <1>2, <2>1, <4>2, <4>4
      <4> QED
        BY <1>3, <2>4, <4>1
    <3>2. CASE /\ e(k) < p + 1 /\ f(k) = e(k)
               /\ at[k + 1] > p + 1 /\ b[k + 1] + 1 = at[k + 1]
      <4>1. \/ j \in 1..p /\ j \in (e(k) + 1)..(at[k + 1] - 1)
            \/ j \in (p + 1)..(m - 1) /\ j + 1 \in (e(k) + 1)..(at[k + 1] - 1)
        <5>1. j \in Nat /\ e(k) + 1 <= j /\ j <= b[k + 1] - 1
          BY <2>1, <2>7, <3>2
        <5>2. j + 2 <= at[k + 1] /\ j + 1 <= m
          BY <1>2, <2>1, <2>7, <3>2, <5>1, SMTT(30)
        <5>3. CASE j <= p
          BY <1>2, <2>1, <5>1, <5>2, <5>3, SMTT(30)
        <5>4. CASE p + 1 <= j
          BY <1>2, <2>1, <5>1, <5>2, <5>4, SMTT(30)
        <5> QED
          BY <1>2, <5>1, <5>3, <5>4
      <4> QED
        BY <1>3, <2>4, <4>1
    <3>3. CASE /\ e(k) < p + 1 /\ f(k) = e(k)
               /\ at[k + 1] < p + 1 /\ b[k + 1] = at[k + 1]
      <4>1. j \in 1..p /\ j \in (e(k) + 1)..(at[k + 1] - 1)
        BY <1>2, <2>1, <2>7, <3>3
      <4> QED
        BY <1>3, <2>4, <4>1
    <3>4. ~ (at[k] > p + 1 /\ at[k + 1] < p + 1)
      BY <1>2, <2>1
    <3> QED
      BY <2>2, <2>3, <3>1, <3>2, <3>3, <3>4
  <2> QED
    BY <2>4, <2>5, <2>6
<1>18. Lists(u, args, b)
  BY <1>13, <1>14, <1>15, <1>16, <1>17, Zenon DEF Lists, n, f
<1> QED
  BY <1>3, <1>9, <1>12, <1>18, Zenon DEF IsList, b, n

(* s is p, a question mark and q.                                           *)
Behind(s, p, q) ==
  /\ s \in Seq(Pieces) /\ p \in Seq(Pieces) /\ q \in Seq(Pieces)
  /\ Len(s) = Len(p) + 1 + Len(q) /\ Len(p) \in Nat /\ Len(q) \in Nat
  /\ \A k \in 1..Len(p) : s[k] = p[k]
  /\ s[Len(p) + 1] = Piece("?")
  /\ \A k \in 1..Len(q) : s[Len(p) + 1 + k] = q[k]

(* A path with its query, piece by piece.                                   *)
LEMMA BehindPath ==
  ASSUME NEW p \in Seq(Pieces), NEW q \in Seq(Pieces)
  PROVE  Behind(p \o (Question \o q), p, q)
<1> DEFINE u == Question \o q
           s == p \o u
<1>1. Joins(u, Question, q)
  BY Marks, Joined
<1>2. Question[1] = Piece("?") /\ Len(Question) = 1
  BY Marks
<1> HIDE DEF u
<1>3. u \in Seq(Pieces) /\ Len(u) = 1 + Len(q) /\ Len(q) \in Nat
      /\ (\A k \in 1..1 : u[k] = Question[k]) /\ \A k \in 1..Len(q) : u[1 + k] = q[k]
  BY <1>1, <1>2 DEF Joins
<1>4. Joins(s, p, u)
  BY <1>3, Joined
<1> HIDE DEF s
<1>5. s \in Seq(Pieces) /\ Len(s) = Len(p) + Len(u) /\ Len(p) \in Nat
      /\ (\A k \in 1..Len(p) : s[k] = p[k]) /\ \A k \in 1..Len(u) : s[Len(p) + k] = u[k]
  BY <1>4 DEF Joins
<1>6. Len(s) = Len(p) + 1 + Len(q)
  BY <1>3, <1>5
<1>7. s[Len(p) + 1] = Piece("?")
  <2>1. 1 \in 1..Len(u) /\ 1 \in 1..1
    BY <1>3
  <2>2. s[Len(p) + 1] = u[1] /\ u[1] = Question[1]
    BY <1>3, <1>5, <2>1
  <2> QED
    BY <1>2, <2>2
<1>8. ASSUME NEW k \in 1..Len(q) PROVE s[Len(p) + 1 + k] = q[k]
  <2>1. 1 + k \in 1..Len(u) /\ Len(p) + (1 + k) = Len(p) + 1 + k
    BY <1>3, <1>5
  <2>2. s[Len(p) + (1 + k)] = u[1 + k] /\ u[1 + k] = q[k]
    BY <1>3, <1>5, <2>1
  <2> QED
    BY <2>1, <2>2
<1>9. Behind(s, p, q)
  BY <1>3, <1>5, <1>6, <1>7, <1>8, Zenon DEF Behind
<1> QED
  BY <1>9 DEF s, u

(* There is one such text.                                                  *)
LEMMA BehindOne ==
  ASSUME NEW s, NEW p, NEW q, Behind(s, p, q)
  PROVE  s = p \o (Question \o q)
<1> DEFINE u == p \o (Question \o q)
<1>1. p \in Seq(Pieces) /\ q \in Seq(Pieces)
  BY DEF Behind
<1>2. Behind(u, p, q)
  BY <1>1, BehindPath
<1> HIDE DEF u
<1>3. ASSUME NEW k \in 1..Len(s) PROVE s[k] = u[k]
  <2>1. Len(p) \in Nat /\ Len(q) \in Nat /\ Len(s) = Len(p) + 1 + Len(q)
    BY DEF Behind
  <2> DEFINE j == k - Len(p) - 1
  <2>2. k \in 1..Len(p) \/ k = Len(p) + 1 \/ (j \in 1..Len(q) /\ k = Len(p) + 1 + j)
    BY <2>1
  <2> HIDE DEF j
  <2> QED
    BY <1>2, <2>2 DEF Behind
<1>4. s \in Seq(Pieces) /\ u \in Seq(Pieces) /\ Len(s) = Len(u)
  BY <1>2 DEF Behind
<1>5. s = u
  BY <1>3, <1>4, SeqEqual
<1> QED
  BY <1>5 DEF u

(* Joined texts are one text.                                               *)
LEMMA JoinedOne ==
  ASSUME NEW u, NEW s \in Seq(Pieces), NEW t \in Seq(Pieces), Joins(u, s, t)
  PROVE  u = s \o t
<1> DEFINE v == s \o t
<1>1. Joins(v, s, t)
  BY Joined
<1> HIDE DEF v
<1>2. u \in Seq(Pieces) /\ v \in Seq(Pieces) /\ Len(u) = Len(v)
  BY <1>1 DEF Joins
<1>3. ASSUME NEW k \in 1..Len(u) PROVE u[k] = v[k]
  <2>1. Len(s) \in Nat /\ Len(t) \in Nat /\ Len(u) = Len(s) + Len(t)
    BY DEF Joins
  <2> DEFINE j == k - Len(s)
  <2>2. k \in 1..Len(s) \/ (j \in 1..Len(t) /\ k = Len(s) + j)
    BY <2>1
  <2> HIDE DEF j
  <2> QED
    BY <1>1, <2>2 DEF Joins
<1>4. u = v
  BY <1>2, <1>3, SeqEqual
<1> QED
  BY <1>4 DEF v

(* What the loop of get_vpath() makes of an "&amp;" at f.                   *)
LEMMA Removed ==
  ASSUME NEW s \in Seq(Pieces), NEW f \in 1..(Len(s) - 1), s[f] = Piece("&")
  PROVE  Shorter(Before(s, f) \o Amp \o From(s, f + 2), s, f)
<1> DEFINE b == Before(s, f)
           c == From(s, f + 2)
           v == b \o Amp
           u == v \o c
           n == Len(s)
<1>1. n \in Nat /\ f \in Nat /\ 1 <= f /\ f + 1 <= n
  BY LenProperties
<1>2. f \in 1..(n + 1) /\ f + 2 \in 1..(n + 1)
  BY <1>1
<1>3. /\ b \in Seq(Pieces) /\ Len(b) = f - 1 /\ \A j \in 1..(f - 1) : b[j] = s[j]
  <2>1. Halves(b, From(s, f), s, f)
    BY <1>2, Cut
  <2> HIDE DEF b
  <2> QED
    BY <2>1 DEF Halves
<1>4. /\ c \in Seq(Pieces) /\ Len(c) = n - (f + 2) + 1
      /\ \A j \in 1..(n - (f + 2) + 1) : c[j] = s[(f + 2) + j - 1]
  <2>1. Halves(Before(s, f + 2), c, s, f + 2)
    BY <1>2, Cut
  <2> HIDE DEF c
  <2> QED
    BY <2>1 DEF Halves
<1> HIDE DEF b, c
<1>5. Joins(v, b, Amp)
  BY <1>3, Marks, Joined
<1> HIDE DEF v
<1>6. v \in Seq(Pieces) /\ Len(v) = Len(b) + 1 /\ (\A j \in 1..Len(b) : v[j] = b[j])
      /\ \A j \in 1..1 : v[Len(b) + j] = Amp[j]
  BY <1>5, Marks DEF Joins
<1>7. Len(v) = f
  BY <1>1, <1>3, <1>6
<1>8. Joins(u, v, c)
  BY <1>4, <1>6, Joined
<1> HIDE DEF u
<1>9. u \in Seq(Pieces) /\ Len(u) = f + Len(c) /\ (\A j \in 1..f : u[j] = v[j])
      /\ \A j \in 1..Len(c) : u[f + j] = c[j]
  BY <1>7, <1>8 DEF Joins
<1> HIDE DEF n
<1>10. Len(u) = n - 1
  BY <1>1, <1>4, <1>9
<1>11. v[f] = s[f]
  <2>1. 1 \in 1..1 /\ Len(b) + 1 = f
    BY <1>1, <1>3
  <2>2. v[Len(b) + 1] = Amp[1]
    BY <1>6, <2>1
  <2> QED
    BY <2>1, <2>2, Marks
<1>12. ASSUME NEW j \in 1..f PROVE u[j] = s[j]
  <2>1. u[j] = v[j]
    BY <1>9
  <2>2. j = f \/ j \in 1..(f - 1)
    BY <1>1
  <2>3. ASSUME j \in 1..(f - 1) PROVE v[j] = s[j]
    <3>1. j \in 1..Len(b)
      BY <1>3, <2>3
    <3> QED
      BY <1>3, <1>6, <2>3, <3>1
  <2> QED
    BY <1>11, <2>1, <2>2, <2>3
<1>13. ASSUME NEW j \in (f + 1)..(n - 1) PROVE u[j] = s[j + 1]
  <2> DEFINE h == j - f
  <2>1. h \in 1..(n - (f + 2) + 1) /\ f + h = j /\ (f + 2) + h - 1 = j + 1
    BY <1>1
  <2> HIDE DEF h
  <2>2. h \in 1..Len(c)
    BY <1>4, <2>1
  <2>3. u[f + h] = c[h] /\ c[h] = s[(f + 2) + h - 1]
    BY <1>4, <1>9, <2>1, <2>2
  <2> QED
    BY <2>1, <2>3
<1>14. Shorter(u, s, f)
  BY <1>9, <1>10, <1>12, <1>13, Zenon DEF Shorter, n
<1> QED
  BY <1>14 DEF u, v, b, c

(* A query behind its question mark.                                        *)
QText(args, q) == IF args = <<>> THEN <<>> ELSE Question \o q

(* s is the path p and a query that spells args; at the end, with nothing   *)
(* but one "&" between two of them.                                         *)
Made(s, p, args) ==
  \E q \in Seq(Pieces) :
    s = p \o QText(args, q) /\ (args # <<>> => \E at : IsList(q, args, at))
Ready(s, p, args) ==
  \E q \in Seq(Pieces) :
    s = p \o QText(args, q) /\ (args # <<>> => \E at : IsList(q, args, at) /\ Close(args, at))

(* The query of a request spells its arguments.                             *)
LEMMA QueryList ==
  ASSUME NEW r \in Requests, r.args # <<>>
  PROVE  \E at : IsList(r.query, r.args, at)
<1>1. r.query \in Seq(Pieces) /\ r.args \in Seq(Seq(Seq(Pieces)))
  BY RequestTexts
<1>2. Spells(r.query, r.args) /\ \A k \in 1..Len(r.args) : IsArgument(r.args[k])
  BY RequestAssumption
<1>3. PICK at \in [1..Len(r.args) -> 1..(Len(r.query) + 1)] : Lists(r.query, r.args, at)
  BY <1>2 DEF Spells
<1>4. IsList(r.query, r.args, at)
  BY <1>1, <1>2, <1>3, Zenon DEF IsList
<1> QED
  BY <1>4

(* So does what follows host and front.                                     *)
LEMMA RestMade ==
  ASSUME NEW r \in Requests
  PROVE  Made(Rest(r), r.path, r.args)
<1>1. Rest(r) = r.path \o QText(r.args, r.query) /\ r.query \in Seq(Pieces)
  BY RequestTexts DEF Rest, QueryText, QText
<1> QED
  BY <1>1, QueryList DEF Made

(* What is still to do is an entity.                                        *)
LEMMA MadeGap ==
  ASSUME NEW s, NEW p \in Seq(Pieces), NEW args, Made(s, p, args), ~ Ready(s, p, args)
  PROVE  \E q, at :
           /\ IsList(q, args, at) /\ Behind(s, p, q)
           /\ \E j \in 1..(Len(q) - 1) : q[j] = Piece("&") /\ q[j + 1] = Piece("amp")
<1>1. PICK q \in Seq(Pieces) :
        s = p \o QText(args, q) /\ (args # <<>> => \E at : IsList(q, args, at))
  BY DEF Made
<1>2. args # <<>>
  BY <1>1 DEF Ready
<1>3. PICK at : IsList(q, args, at)
  BY <1>1, <1>2
<1>4. ~ Close(args, at)
  BY <1>1, <1>3 DEF Ready
<1>5. \E j \in 1..(Len(q) - 1) : q[j] = Piece("&") /\ q[j + 1] = Piece("amp")
  BY <1>3, <1>4, Gap
<1>6. Behind(s, p, q)
  BY <1>1, <1>2, BehindPath DEF QText
<1> QED
  BY <1>3, <1>5, <1>6

(* A target that is a whole URL, piece by piece.                            *)
HostFront(r, t, m) ==
  /\ t \in Seq(Pieces) /\ m \in Nat /\ m = 4 + Len(r.host) /\ Len(r.host) \in Nat
  /\ Len(t) = m + Len(Front(r)) /\ Len(Front(r)) \in Nat
  /\ \A k \in 1..4 : t[k] = http[k]
  /\ \A k \in 1..Len(r.host) : t[4 + k] = r.host[k]
  /\ \A k \in 1..Len(Front(r)) : t[m + k] = Front(r)[k]

(* That is how its parts lie.                                               *)
LEMMA HostFrontIs ==
  ASSUME NEW r \in Requests, r.host # <<>>
  PROVE  HostFront(r, TargetText(r), Len(HostText(r)))
<1> DEFINE t == TargetText(r)
           h == HostText(r)
           g == Front(r)
<1>1. Joins(t, h, g) /\ Joins(h, http, r.host)
  BY TargetIs
<1>2. Len(http) = 4
  BY Words
<1> HIDE DEF t, h, g
<1>3. /\ Len(h) = 4 + Len(r.host) /\ Len(r.host) \in Nat /\ Len(h) \in Nat
      /\ (\A k \in 1..4 : h[k] = http[k]) /\ \A k \in 1..Len(r.host) : h[4 + k] = r.host[k]
  BY <1>1, <1>2 DEF Joins
<1>4. /\ t \in Seq(Pieces) /\ Len(t) = Len(h) + Len(g) /\ Len(g) \in Nat
      /\ (\A k \in 1..Len(h) : t[k] = h[k]) /\ \A k \in 1..Len(g) : t[Len(h) + k] = g[k]
  BY <1>1 DEF Joins
<1>5. ASSUME NEW k \in 1..4 PROVE t[k] = http[k]
  <2>1. k \in 1..Len(h)
    BY <1>3
  <2> QED
    BY <1>3, <1>4, <2>1
<1>6. ASSUME NEW k \in 1..Len(r.host) PROVE t[4 + k] = r.host[k]
  <2>1. 4 + k \in 1..Len(h)
    BY <1>3
  <2> QED
    BY <1>3, <1>4, <2>1
<1> QED
  BY <1>3, <1>4, <1>5, <1>6, Zenon DEF HostFront, t, h, g

(* It is not short.                                                         *)
LEMMA HostLong ==
  ASSUME NEW r \in Requests, r.host # <<>>
  PROVE  SizeOf(TargetText(r)) >= 7 /\ SizeOf(TargetText(r)) \in Nat
<1> DEFINE t == TargetText(r)
<1>1. HostFront(r, t, Len(HostText(r)))
  BY HostFrontIs
<1> HIDE DEF t
<1>2. t \in Seq(Pieces) /\ Len(t) >= 4 /\ Len(t) \in Nat
  BY <1>1 DEF HostFront
<1>3. t[1] = Piece("http")
  BY <1>1, Words DEF HostFront
<1>4. 1 \in 1..Len(t) /\ t[1] \in {Piece("http"), Piece("amp")}
  BY <1>2, <1>3
<1>5. SizeOf(t) \in Nat /\ SizeOf(t) >= Len(t) + 3
  BY <1>2, <1>4, SizeLong
<1> QED
  BY <1>2, <1>5 DEF t

(* A place of a joined text is in one of the two.                           *)
LEMMA Either ==
  ASSUME NEW u, NEW s, NEW t, Joins(u, s, t), NEW k \in 1..Len(u)
  PROVE  k \in 1..Len(s) \/ \E j \in 1..Len(t) : k = Len(s) + j
<1>1. Len(s) \in Nat /\ Len(t) \in Nat /\ Len(u) = Len(s) + Len(t)
  BY DEF Joins
<1> DEFINE j == k - Len(s)
<1>2. k \in 1..Len(s) \/ (j \in 1..Len(t) /\ k = Len(s) + j)
  BY <1>1
<1> HIDE DEF j
<1> QED
  BY <1>2

(* What is in neither is not in it.                                         *)
LEMMA Neither ==
  ASSUME NEW u, NEW s, NEW t, Joins(u, s, t), NEW c,
         \A k \in 1..Len(s) : s[k] # c, \A k \in 1..Len(t) : t[k] # c
  PROVE  \A k \in 1..Len(u) : u[k] # c
<1>1. ASSUME NEW k \in 1..Len(u) PROVE u[k] # c
  <2>1. k \in 1..Len(s) \/ \E j \in 1..Len(t) : k = Len(s) + j
    BY Either
  <2>2. CASE k \in 1..Len(s)
    BY <2>2 DEF Joins
  <2>3. CASE \E j \in 1..Len(t) : k = Len(s) + j
    BY <2>3 DEF Joins
  <2> QED
    BY <2>1, <2>2, <2>3
<1> QED
  BY <1>1

(* It is no shorter than its first part.                                    *)
LEMMA AtLeast ==
  ASSUME NEW u, NEW s, NEW t, Joins(u, s, t), Len(s) >= 1
  PROVE  Len(u) >= 1
  BY DEF Joins

(* The path that is asked for has no question mark.                         *)
LEMMA AskedPathIs ==
  ASSUME NEW r \in Requests
  PROVE  /\ AskedPath(r) \in Seq(Pieces)
         /\ \A k \in 1..Len(AskedPath(r)) : AskedPath(r)[k] # Piece("?")
<1>1. r.lead \in Seq(Pieces) /\ r.path \in Seq(Pieces)
  BY RequestTexts
<1>2. /\ \A k \in 1..Len(r.lead) : r.lead[k] \in {Piece("/"), Piece("SP")}
      /\ \A k \in 1..Len(r.path) : r.path[k] # Piece("?")
  BY RequestAssumption
<1>3. Piece("/") # Piece("?") /\ Piece("SP") # Piece("?")
  BY PieceSame
<1> DEFINE a == r.lead \o r.path
<1>4. a \in Seq(Pieces) /\ \A k \in 1..Len(a) : a[k] # Piece("?")
  <2>1. Joins(a, r.lead, r.path)
    BY <1>1, Joined
  <2> HIDE DEF a
  <2>2. \A k \in 1..Len(r.lead) : r.lead[k] # Piece("?")
    BY <1>2, <1>3
  <2>3. \A k \in 1..Len(a) : a[k] # Piece("?")
    BY <1>2, <2>1, <2>2, Neither, SMTT(30)
  <2> QED
    BY <2>1, <2>3 DEF Joins
<1> HIDE DEF a
<1>5. AskedPath(r) = a \/ AskedPath(r) = r.path
  BY DEF AskedPath, a
<1> QED
  BY <1>1, <1>2, <1>4, <1>5

(* A target that is not a whole URL.                                        *)
LEMMA NoHost ==
  ASSUME NEW r \in Requests, r.host = <<>>
  PROVE  TargetText(r) = r.lead \o Rest(r)
<1>1. Front(r) \in Seq(Pieces) /\ HostText(r) = <<>>
  BY TargetIs DEF HostText
<1>2. <<>> \o Front(r) = Front(r)
  BY <1>1, ConcatEmptySeq
<1>3. TargetText(r) = HostText(r) \o Front(r)
  BY Zenon DEF TargetText, Front, Rest
<1> QED
  BY <1>1, <1>2, <1>3, Zenon DEF Front

(* A short target keeps what is in front and has no entity.                 *)
LEMMA ShortReady ==
  ASSUME NEW r \in Requests, ~ (SizeOf(TargetText(r)) >= 7)
  PROVE  Ready(TargetText(r), AskedPath(r), r.args)
<1> DEFINE t == TargetText(r)
           a == r.lead \o r.path
<1>1. r.host = <<>>
  BY HostLong
<1>2. t \in Seq(Pieces) /\ SizeOf(t) \in Nat
  BY TargetIs, SizeLong
<1>3. AskedPath(r) = a
  <2>1. SizeOf(TargetText(r)) < 7
    BY <1>2
  <2> QED
    BY <2>1 DEF AskedPath
<1>4. r.lead \in Seq(Pieces) /\ r.path \in Seq(Pieces) /\ QueryText(r) \in Seq(Pieces)
      /\ r.query \in Seq(Pieces)
  BY RequestTexts, TargetIs
<1>5. r.lead \o (r.path \o QueryText(r)) = (r.lead \o r.path) \o QueryText(r)
  <2>1. \A x, y, z \in Seq(Pieces) : (x \o y) \o z = x \o (y \o z)
    BY ConcatAssociative
  <2> QED
    BY <1>4, <2>1, Zenon
<1>6. t = r.lead \o (r.path \o QueryText(r))
  BY <1>1, NoHost DEF Rest
<1>7. t = a \o QText(r.args, r.query)
  BY <1>5, <1>6, Zenon DEF QText, QueryText
<1>8. a \in Seq(Pieces)
  BY <1>3, AskedPathIs
<1> HIDE DEF t, a
<1>9. Made(t, a, r.args)
  BY <1>4, <1>7, QueryList DEF Made
<1>10. ASSUME ~ Ready(t, a, r.args) PROVE FALSE
  <2>1. PICK q, at :
          /\ IsList(q, r.args, at) /\ Behind(t, a, q)
          /\ \E j \in 1..(Len(q) - 1) : q[j] = Piece("&") /\ q[j + 1] = Piece("amp")
    BY <1>8, <1>9, <1>10, MadeGap
  <2>2. PICK j \in 1..(Len(q) - 1) : q[j] = Piece("&") /\ q[j + 1] = Piece("amp")
    BY <2>1
  <2>3. Len(t) = Len(a) + 1 + Len(q) /\ Len(a) \in Nat /\ Len(q) \in Nat
        /\ \A k \in 1..Len(q) : t[Len(a) + 1 + k] = q[k]
    BY <2>1 DEF Behind
  <2>4. a # <<>>
    <3>1. r.lead # <<>>
      BY <1>1, RequestAssumption
    <3>2. Joins(a, r.lead, r.path)
      BY <1>4, Joined DEF a
    <3>3. Len(r.lead) >= 1
      BY <1>4, <3>1, EmptySeq, LenProperties
    <3>4. Len(a) >= 1
      BY <3>2, <3>3, AtLeast
    <3> QED
      BY <3>4
  <2>5. Len(a) >= 1
    BY <1>8, <2>4, EmptySeq, LenProperties
  <2>6. j + 1 \in 1..Len(q) /\ Len(a) + 1 + (j + 1) \in 1..Len(t) /\ Len(t) >= 4 /\ Len(t) \in Nat
    BY <2>3, <2>5
  <2>7. t[Len(a) + 1 + (j + 1)] \in {Piece("http"), Piece("amp")}
    BY <2>2, <2>3, <2>6
  <2>8. SizeOf(t) >= Len(t) + 3
    BY <1>2, <2>6, <2>7, SizeLong
  <2> QED
    BY <1>2, <2>6, <2>8 DEF t
<1>11. Ready(t, a, r.args)
  BY <1>10
<1> QED
  BY <1>3, <1>11 DEF t

(* What get_vpath() still has to erase in front.                            *)
Slashes(l) == l \in Seq(Pieces) /\ \A k \in 1..Len(l) : l[k] \in {Piece("/"), Piece("SP")}
Erasing(s, r) == \E l : Slashes(l) /\ s = l \o Rest(r)

(* What a request has in front of its path is erased.                       *)
LEMMA LeadSlashes ==
  ASSUME NEW r \in Requests
  PROVE  Slashes(r.lead)
  BY RequestTexts, RequestAssumption DEF Slashes

(* A text that is not empty has a first piece.                              *)
LEMMA FirstPlace ==
  ASSUME NEW s \in Seq(Pieces), s # <<>>
  PROVE  1 \in 1..Len(s)
  BY EmptySeq, LenProperties

(* A target without host does not begin with "http://".                     *)
LEMMA NotWhole ==
  ASSUME NEW r \in Requests, r.host = <<>>
  PROVE  Find(http, TargetText(r)) # 1 /\ Erasing(TargetText(r), r)
<1> DEFINE t == TargetText(r)
<1>1. t = r.lead \o Rest(r) /\ Slashes(r.lead)
  BY NoHost, LeadSlashes
<1>2. r.lead \in Seq(Pieces) /\ r.lead # <<>> /\ Rest(r) \in Seq(Pieces) /\ t \in Seq(Pieces)
  BY RequestTexts, RequestAssumption, TargetIs
<1>3. 1 \in 1..Len(r.lead)
  BY <1>2, FirstPlace
<1>4. t[1] \in {Piece("/"), Piece("SP")}
  <2>1. Joins(t, r.lead, Rest(r))
    BY <1>1, <1>2, Joined
  <2>2. t[1] = r.lead[1]
    BY <1>3, <2>1 DEF Joins
  <2> QED
    BY <1>1, <1>3, <2>2 DEF Slashes
<1> HIDE DEF t
<1>5. ASSUME Find(http, t) = 1 PROVE FALSE
  <2>1. Len(http) >= 1 /\ http \in Seq(Pieces) /\ Len(http) = 4 /\ http[1] = Piece("http")
    BY Words
  <2>2. Finds(http, t, 1)
    BY <1>2, <1>5, <2>1, Found
  <2>3. StandsAt(http, t, 1)
    BY <2>2 DEF Finds, npos
  <2>4. t[1 + 1 - 1] = http[1]
    BY <2>1, <2>3 DEF StandsAt
  <2>5. Piece("/") # Piece("http") /\ Piece("SP") # Piece("http")
    BY PieceSame
  <2> QED
    BY <1>4, <2>1, <2>4, <2>5
<1>6. Erasing(t, r)
  BY <1>1 DEF Erasing
<1> QED
  BY <1>5, <1>6 DEF t

(* One with a host does.                                                    *)
LEMMA WholeStarts ==
  ASSUME NEW r \in Requests, r.host # <<>>
  PROVE  Find(http, TargetText(r)) = 1
<1> DEFINE t == TargetText(r)
<1>1. HostFront(r, t, Len(HostText(r)))
  BY HostFrontIs
<1> HIDE DEF t
<1>2. Len(http) = 4 /\ http \in Seq(Pieces) /\ Len(http) >= 1
  BY Words
<1>3. t \in Seq(Pieces) /\ Len(t) \in Nat /\ Len(t) >= 4
  BY <1>1 DEF HostFront
<1>4. StandsAt(http, t, 1)
  <2>1. 1 \in 1..(Len(t) - 4 + 1)
    BY <1>3
  <2>2. ASSUME NEW j \in 1..4 PROVE t[1 + j - 1] = http[j]
    <3>1. 1 + j - 1 = j
      OBVIOUS
    <3> QED
      BY <1>1, <3>1 DEF HostFront
  <2> QED
    BY <1>2, <2>1, <2>2 DEF StandsAt
<1>5. Finds(http, t, Find(http, t))
  BY <1>2, <1>3, Found
<1> DEFINE f == Find(http, t)
<1> HIDE DEF f
<1>6. f = 1
  <2>1. 1 \in Nat
    OBVIOUS
  <2>2. f \in Nat /\ f # 0 /\ f <= 1
    BY <1>4, <1>5, <2>1 DEF Finds, f, npos
  <2> QED
    BY <2>2
<1> QED
  BY <1>6 DEF f, t

(* Its host ends at the first slash behind that,                            *)
LEMMA HostEnds ==
  ASSUME NEW r \in Requests, r.host # <<>>, r.lead # <<>>
  PROVE  /\ FindFrom(slash, TargetText(r), Len(http) + 1) = Len(HostText(r)) + 1
         /\ From(TargetText(r), Len(HostText(r)) + 1) = Front(r)
<1> DEFINE t == TargetText(r)
           m == Len(HostText(r))
           f == FindFrom(slash, t, 5)
           n == Len(r.host)
           g == Front(r)
<1>1. HostFront(r, t, m)
  BY HostFrontIs
<1>2. t = HostText(r) \o Front(r) /\ HostText(r) \in Seq(Pieces) /\ Front(r) \in Seq(Pieces)
  BY TargetIs DEF TargetText, Front, Rest
<1>3. From(t, m + 1) = Front(r)
  BY <1>2, Apart
<1>4. Len(http) + 1 = 5
  BY Words
<1>5. FirstFrom("/", t, 5, f)
  <2>1. Piece("/") \in Pieces /\ t \in Seq(Pieces) /\ 5 \in Nat /\ 5 >= 1
    BY TargetIs, Signs
  <2> HIDE DEF t
  <2> QED
    BY <2>1, LetterFrom DEF slash
<1>6. r.lead[1] = Piece("/") /\ \A k \in 1..n : r.host[k] # Piece("/")
  BY RequestAssumption
<1>7. 1 \in 1..Len(g) /\ g[1] = r.lead[1]
  <2>1. Joins(g, r.lead, Rest(r)) /\ r.lead \in Seq(Pieces)
    BY TargetIs, RequestTexts
  <2> HIDE DEF g
  <2>2. 1 \in 1..Len(r.lead)
    BY <2>1, FirstPlace
  <2>3. g[1] = r.lead[1]
    BY <2>1, <2>2 DEF Joins
  <2>4. g \in Seq(Pieces) /\ Len(g) >= 1
    <3>1. Len(r.lead) >= 1
      BY <2>2
    <3> QED
      BY <2>1, <3>1, AtLeast DEF Joins
  <2> QED
    BY <2>3, <2>4, LenProperties
<1>8. /\ m \in Nat /\ m = 4 + n /\ n \in Nat /\ Len(t) = m + Len(g) /\ Len(g) \in Nat
      /\ (\A k \in 1..n : t[4 + k] = r.host[k]) /\ \A k \in 1..Len(g) : t[m + k] = g[k]
  BY <1>1 DEF HostFront
<1> HIDE DEF t, m, f, n, g
<1>9. t[m + 1] = Piece("/") /\ m + 1 \in 5..Len(t)
  <2>1. m + 1 \in 5..Len(t)
    BY <1>7, <1>8
  <2> QED
    BY <1>6, <1>7, <1>8, <2>1
<1>10. ASSUME NEW k \in 5..m PROVE t[k] # Piece("/")
  <2> DEFINE j == k - 4
  <2>1. j \in 1..n /\ 4 + j = k
    BY <1>8
  <2> HIDE DEF j
  <2> QED
    BY <1>6, <1>8, <2>1
<1>11. f # npos /\ f \in 5..Len(t) /\ t[f] = Piece("/") /\ \A k \in 5..(f - 1) : t[k] # Piece("/")
  BY <1>5, <1>9 DEF FirstFrom
<1>12. ~ (f <= m) /\ ~ (m + 1 <= f - 1)
  <2>1. ASSUME f <= m PROVE FALSE
    <3>1. f \in 5..m
      BY <1>8, <1>11, <2>1
    <3> QED
      BY <1>10, <1>11, <3>1
  <2>2. ASSUME m + 1 <= f - 1 PROVE FALSE
    <3>1. m + 1 \in 5..(f - 1)
      BY <1>8, <1>11, <2>2
    <3> QED
      BY <1>9, <1>11, <3>1
  <2> QED
    BY <2>1, <2>2
<1>13. f = m + 1
  BY <1>8, <1>11, <1>12
<1> QED
  BY <1>3, <1>4, <1>13 DEF f, t, m

(* if there is one.                                                         *)
LEMMA HostOnly ==
  ASSUME NEW r \in Requests, r.host # <<>>, r.lead = <<>>, r.args = <<>>
  PROVE  FindFrom(slash, TargetText(r), Len(http) + 1) = npos /\ r.path = <<>>
<1> DEFINE t == TargetText(r)
           f == FindFrom(slash, t, 5)
           n == Len(r.host)
<1>1. HostFront(r, t, Len(HostText(r)))
  BY HostFrontIs
<1>2. r.path = <<>> /\ \A k \in 1..n : r.host[k] # Piece("/")
  BY RequestAssumption
<1>3. Len(http) + 1 = 5
  BY Words
<1>4. FirstFrom("/", t, 5, f)
  <2>1. Piece("/") \in Pieces /\ t \in Seq(Pieces) /\ 5 \in Nat /\ 5 >= 1
    BY TargetIs, Signs
  <2> HIDE DEF t
  <2> QED
    BY <2>1, LetterFrom DEF slash
<1>5. Len(Front(r)) = 0
  <2>1. Joins(Front(r), r.lead, Rest(r)) /\ Joins(Rest(r), r.path, QueryText(r))
    BY TargetIs
  <2>2. Len(r.lead) = 0 /\ Len(r.path) = 0
    BY <1>2
  <2>3. Len(QueryText(r)) = 0
    BY DEF QueryText
  <2>4. Len(Rest(r)) = Len(r.path) + Len(QueryText(r)) /\ Len(Front(r)) = Len(r.lead) + Len(Rest(r))
    BY <2>1, Zenon DEF Joins
  <2>5. Len(Rest(r)) = 0
    BY <2>2, <2>3, <2>4
  <2> QED
    BY <2>2, <2>4, <2>5
<1>6. /\ n \in Nat /\ Len(t) = (4 + n) + Len(Front(r))
      /\ \A k \in 1..n : t[4 + k] = r.host[k]
  BY <1>1 DEF HostFront
<1> HIDE DEF t, f, n
<1>7. ASSUME NEW k \in 5..Len(t) PROVE t[k] # Piece("/")
  <2> DEFINE j == k - 4
  <2>1. j \in 1..n /\ 4 + j = k
    BY <1>5, <1>6
  <2> HIDE DEF j
  <2> QED
    BY <1>2, <1>6, <2>1
<1>8. f = npos
  BY <1>4, <1>7 DEF FirstFrom
<1> QED
  BY <1>2, <1>3, <1>8 DEF f, t

(* What is left when all is erased begins with neither slash nor blank.     *)
LEMMA RestStarts ==
  ASSUME NEW r \in Requests, Rest(r) # <<>>
  PROVE  Rest(r)[1] \notin {Piece("/"), Piece("SP")}
<1> DEFINE u == Rest(r)
<1>1. Joins(u, r.path, QueryText(r)) /\ QueryText(r) \in Seq(Pieces) /\ r.path \in Seq(Pieces)
  BY TargetIs, RequestTexts
<1>2. r.path # <<>> => r.path[1] \notin {Piece("/"), Piece("SP")}
  BY RequestAssumption
<1>3. CASE r.path # <<>>
  <2>1. 1 \in 1..Len(r.path)
    BY <1>1, <1>3, FirstPlace
  <2> HIDE DEF u
  <2>2. u[1] = r.path[1]
    BY <1>1, <2>1 DEF Joins
  <2> QED
    BY <1>2, <1>3, <2>2 DEF u
<1>4. CASE r.path = <<>>
  <2>1. u = QueryText(r)
    <3>1. u = r.path \o QueryText(r)
      BY DEF Rest
    <3>2. <<>> \o QueryText(r) = QueryText(r)
      BY <1>1, ConcatEmptySeq
    <3> QED
      BY <1>4, <3>1, <3>2, Zenon
  <2>2. QueryText(r) = Question \o r.query /\ r.query \in Seq(Pieces)
    BY <2>1, RequestTexts DEF QueryText
  <2>3. Joins(QueryText(r), Question, r.query)
    BY <2>2, Marks, Joined
  <2>4. Len(Question) = 1 /\ Question[1] = Piece("?") /\ 1 \in 1..1
    BY Marks
  <2>5. QueryText(r)[1] = Question[1]
    BY <2>3, <2>4 DEF Joins
  <2>6. Piece("?") # Piece("/") /\ Piece("?") # Piece("SP")
    BY PieceSame
  <2> QED
    BY <2>1, <2>4, <2>5, <2>6
<1> QED
  BY <1>3, <1>4

(* A text without its first piece.                                          *)
LEMMA BehindFirst ==
  ASSUME NEW l \in Seq(Pieces), l # <<>>, NEW u \in Seq(Pieces)
  PROVE  From(l \o u, 2) = From(l, 2) \o u
<1> DEFINE s == l \o u
           a == From(l, 2)
           b == From(s, 2)
<1>1. 1 \in 1..Len(l) /\ Len(l) \in Nat
  BY FirstPlace, LenProperties
<1>2. Joins(s, l, u)
  BY Joined
<1> HIDE DEF s
<1>3. s \in Seq(Pieces) /\ Len(s) = Len(l) + Len(u) /\ Len(u) \in Nat
      /\ (\A k \in 1..Len(l) : s[k] = l[k]) /\ \A k \in 1..Len(u) : s[Len(l) + k] = u[k]
  BY <1>2 DEF Joins
<1>4. Halves(Before(l, 2), a, l, 2)
  <2>1. 2 \in 1..(Len(l) + 1)
    BY <1>1
  <2> QED
    BY <2>1, Cut
<1>5. Halves(Before(s, 2), b, s, 2)
  <2>1. 2 \in 1..(Len(s) + 1)
    BY <1>1, <1>3
  <2> QED
    BY <1>3, <2>1, Cut
<1> HIDE DEF a, b
<1>6. a \in Seq(Pieces) /\ Len(a) = Len(l) - 2 + 1
      /\ \A j \in 1..(Len(l) - 2 + 1) : a[j] = l[2 + j - 1]
  BY <1>4 DEF Halves
<1>7. b \in Seq(Pieces) /\ Len(b) = Len(s) - 2 + 1
      /\ \A j \in 1..(Len(s) - 2 + 1) : b[j] = s[2 + j - 1]
  BY <1>5 DEF Halves
<1>8. Len(b) = Len(a) + Len(u) /\ Len(a) \in Nat /\ Len(a) = Len(l) - 1
  BY <1>1, <1>3, <1>6, <1>7
<1>9. ASSUME NEW k \in 1..Len(a) PROVE b[k] = a[k]
  <2>1. k \in 1..(Len(l) - 2 + 1) /\ k \in 1..(Len(s) - 2 + 1) /\ 2 + k - 1 \in 1..Len(l)
    BY <1>1, <1>3, <1>6
  <2>2. b[k] = s[2 + k - 1] /\ a[k] = l[2 + k - 1] /\ s[2 + k - 1] = l[2 + k - 1]
    BY <1>3, <1>6, <1>7, <2>1
  <2> QED
    BY <2>2
<1>10. ASSUME NEW k \in 1..Len(u) PROVE b[Len(a) + k] = u[k]
  <2> DEFINE h == Len(a) + k
  <2>1. h \in 1..(Len(s) - 2 + 1) /\ 2 + h - 1 = Len(l) + k
    BY <1>1, <1>3, <1>8
  <2> HIDE DEF h
  <2>2. b[h] = s[2 + h - 1] /\ s[Len(l) + k] = u[k]
    BY <1>3, <1>7, <2>1
  <2> QED
    BY <2>1, <2>2 DEF h
<1>11. Joins(b, a, u)
  BY <1>3, <1>7, <1>8, <1>9, <1>10, Zenon DEF Joins
<1>12. b = a \o u
  BY <1>6, <1>11, JoinedOne
<1> QED
  BY <1>12 DEF a, b, s

(* A turn of the loop that erases,                                          *)
LEMMA OneErased ==
  ASSUME NEW r \in Requests, NEW s, Erasing(s, r), s # <<>>, s[1] \in {Piece("/"), Piece("SP")}
  PROVE  Erasing(From(s, 2), r)
<1>1. PICK l : Slashes(l) /\ s = l \o Rest(r)
  BY DEF Erasing
<1>2. l \in Seq(Pieces) /\ Rest(r) \in Seq(Pieces)
  BY <1>1, TargetIs DEF Slashes
<1>3. l # <<>>
  <2>1. ASSUME l = <<>> PROVE FALSE
    <3>1. <<>> \o Rest(r) = Rest(r)
      BY <1>2, ConcatEmptySeq
    <3>2. s = Rest(r)
      BY <1>1, <2>1, <3>1
    <3> QED
      BY <3>2, RestStarts
  <2> QED
    BY <2>1
<1> DEFINE m == From(l, 2)
<1>4. From(s, 2) = m \o Rest(r)
  BY <1>1, <1>2, <1>3, BehindFirst
<1>5. Slashes(m)
  <2>1. 2 \in 1..(Len(l) + 1) /\ Len(l) \in Nat /\ Len(l) >= 1
    BY <1>2, <1>3, FirstPlace, LenProperties
  <2>2. Halves(Before(l, 2), m, l, 2)
    BY <1>2, <2>1, Cut
  <2> HIDE DEF m
  <2>3. m \in Seq(Pieces) /\ Len(m) = Len(l) - 2 + 1
        /\ \A j \in 1..(Len(l) - 2 + 1) : m[j] = l[2 + j - 1]
    BY <2>2 DEF Halves
  <2>4. ASSUME NEW k \in 1..Len(m) PROVE m[k] \in {Piece("/"), Piece("SP")}
    <3>1. k \in 1..(Len(l) - 2 + 1) /\ 2 + k - 1 \in 1..Len(l)
      BY <2>1, <2>3
    <3> QED
      BY <1>1, <2>3, <3>1 DEF Slashes
  <2> QED
    BY <2>3, <2>4 DEF Slashes
<1> HIDE DEF m
<1> QED
  BY <1>4, <1>5 DEF Erasing

(* and its end.                                                             *)
LEMMA AllErased ==
  ASSUME NEW r \in Requests, NEW s, Erasing(s, r),
         ~ (s # <<>> /\ s[1] \in {Piece("/"), Piece("SP")})
  PROVE  Made(s, r.path, r.args)
<1>1. PICK l : Slashes(l) /\ s = l \o Rest(r)
  BY DEF Erasing
<1>2. l \in Seq(Pieces) /\ Rest(r) \in Seq(Pieces)
  BY <1>1, TargetIs DEF Slashes
<1>3. l = <<>>
  <2>1. ASSUME l # <<>> PROVE FALSE
    <3>1. 1 \in 1..Len(l)
      BY <1>2, <2>1, FirstPlace
    <3>2. Joins(s, l, Rest(r))
      BY <1>1, <1>2, Joined
    <3>3. s[1] = l[1] /\ Len(s) >= 1
      <4>1. Len(l) >= 1
        BY <3>1
      <4>2. Len(s) >= 1
        BY <3>2, <4>1, AtLeast
      <4> QED
        BY <3>1, <3>2, <4>2 DEF Joins
    <3>4. s # <<>>
      BY <3>3
    <3> QED
      BY <1>1, <3>1, <3>3, <3>4 DEF Slashes
  <2> QED
    BY <2>1
<1>4. <<>> \o Rest(r) = Rest(r)
  BY <1>2, ConcatEmptySeq
<1>5. s = Rest(r)
  BY <1>1, <1>3, <1>4
<1> QED
  BY <1>5, RestMade

(* Where find() sees an entity.                                             *)
Entity == Str(<<"&", "amp">>)

(* It is an "&" with an "amp;" behind it.                                   *)
LEMMA EntityFound ==
  ASSUME NEW s \in Seq(Pieces)
  PROVE  LET f == Find(Entity, s) IN
         \/ f = npos /\ \A k \in 1..(Len(s) - 1) : ~ (s[k] = Piece("&") /\ s[k + 1] = Piece("amp"))
         \/ /\ f # npos /\ f \in 1..(Len(s) - 1)
            /\ s[f] = Piece("&") /\ s[f + 1] = Piece("amp")
<1> DEFINE f == Find(Entity, s)
           w == Entity
<1>1. "&" \in Letters /\ "amp" \in Letters
  BY Signs
<1>2. w \in Seq(Pieces) /\ Len(w) >= 1
  BY <1>1, LetterPair DEF Entity
<1>3. \A k \in Nat : StandsAt(w, s, k) <=>
        /\ k \in 1..Len(s) /\ k + 1 \in 1..Len(s) /\ s[k] = Piece("&") /\ s[k + 1] = Piece("amp")
  BY <1>1, PairStands DEF Entity
<1>4. Finds(w, s, f)
  BY <1>2, Found
<1>5. Len(s) \in Nat
  BY LenProperties
<1> HIDE DEF f, w
<1>6. CASE f = npos /\ \A k \in Nat : ~ StandsAt(w, s, k)
  <2>1. ASSUME NEW k \in 1..(Len(s) - 1) PROVE ~ (s[k] = Piece("&") /\ s[k + 1] = Piece("amp"))
    <3>1. k \in Nat /\ k \in 1..Len(s) /\ k + 1 \in 1..Len(s)
      BY <1>5
    <3> QED
      BY <1>3, <1>6, <3>1
  <2> QED
    BY <1>6, <2>1 DEF f
<1>7. CASE f \in Nat /\ f # npos /\ StandsAt(w, s, f)
  <2>1. f \in 1..Len(s) /\ f + 1 \in 1..Len(s) /\ s[f] = Piece("&") /\ s[f + 1] = Piece("amp")
    BY <1>3, <1>7
  <2>2. f \in 1..(Len(s) - 1)
    BY <1>5, <2>1
  <2> QED
    BY <1>7, <2>1, <2>2 DEF f
<1> QED
  BY <1>4, <1>6, <1>7 DEF Finds

(* No entity left: nothing but one "&" is between two arguments.            *)
LEMMA EntityNone ==
  ASSUME NEW s, NEW p \in Seq(Pieces), NEW args, Made(s, p, args), s \in Seq(Pieces),
         Find(Entity, s) = npos
  PROVE  Ready(s, p, args)
<1>1. ASSUME ~ Ready(s, p, args) PROVE FALSE
  <2>1. PICK q, at :
          /\ IsList(q, args, at) /\ Behind(s, p, q)
          /\ \E j \in 1..(Len(q) - 1) : q[j] = Piece("&") /\ q[j + 1] = Piece("amp")
    BY <1>1, MadeGap
  <2>2. PICK j \in 1..(Len(q) - 1) : q[j] = Piece("&") /\ q[j + 1] = Piece("amp")
    BY <2>1
  <2>3. Len(s) = Len(p) + 1 + Len(q) /\ Len(p) \in Nat /\ Len(q) \in Nat
        /\ \A k \in 1..Len(q) : s[Len(p) + 1 + k] = q[k]
    BY <2>1 DEF Behind
  <2> DEFINE h == Len(p) + 1 + j
  <2>4. j \in 1..Len(q) /\ j + 1 \in 1..Len(q) /\ h \in 1..(Len(s) - 1) /\ h + 1 = Len(p) + 1 + (j + 1)
    BY <2>3
  <2>5. s[h] = Piece("&")
    BY <2>2, <2>3, <2>4
  <2> HIDE DEF h
  <2>6. s[h + 1] = Piece("amp")
    BY <2>2, <2>3, <2>4
  <2>7. \A k \in 1..(Len(s) - 1) : ~ (s[k] = Piece("&") /\ s[k + 1] = Piece("amp"))
    BY EntityFound
  <2> QED
    BY <2>4, <2>5, <2>6, <2>7
<1> QED
  BY <1>1

(* The path and its query is a text.                                        *)
LEMMA MadeText ==
  ASSUME NEW s, NEW p \in Seq(Pieces), NEW args, Made(s, p, args)
  PROVE  s \in Seq(Pieces)
<1>1. PICK q \in Seq(Pieces) : s = p \o QText(args, q)
  BY DEF Made
<1>2. Question \o q \in Seq(Pieces) /\ <<>> \in Seq(Pieces)
  <2>1. Joins(Question \o q, Question, q)
    BY Marks, Joined
  <2> QED
    BY <2>1 DEF Joins
<1>3. QText(args, q) \in Seq(Pieces)
  BY <1>2, Zenon DEF QText
<1>4. Joins(s, p, QText(args, q))
  BY <1>1, <1>3, Joined
<1> QED
  BY <1>4 DEF Joins

(* A piece less in the query is one less in the whole.                      *)
LEMMA ShorterBehind ==
  ASSUME NEW s, NEW p, NEW q, Behind(s, p, q), NEW j \in 1..(Len(q) - 1),
         NEW u, Shorter(u, s, Len(p) + 1 + j), NEW v, Shorter(v, q, j)
  PROVE  Behind(u, p, v)
<1> DEFINE m == Len(p)
           n == Len(q)
           f == m + 1 + j
<1>1. /\ p \in Seq(Pieces) /\ Len(s) = m + 1 + n /\ m \in Nat /\ n \in Nat
      /\ (\A k \in 1..m : s[k] = p[k]) /\ s[m + 1] = Piece("?")
      /\ \A k \in 1..n : s[m + 1 + k] = q[k]
  BY DEF Behind
<1>2. u \in Seq(Pieces) /\ Len(u) = Len(s) - 1 /\ (\A k \in 1..f : u[k] = s[k])
      /\ \A k \in (f + 1)..(Len(s) - 1) : u[k] = s[k + 1]
  BY DEF Shorter
<1>3. v \in Seq(Pieces) /\ Len(v) = n - 1 /\ (\A k \in 1..j : v[k] = q[k])
      /\ \A k \in (j + 1)..(n - 1) : v[k] = q[k + 1]
  BY DEF Shorter
<1>4. j \in Nat /\ 1 <= j /\ j + 1 <= n
  BY <1>1
<1> HIDE DEF m, n
<1>5. Len(u) = m + 1 + Len(v) /\ Len(v) \in Nat
  BY <1>1, <1>2, <1>3, <1>4
<1>6. ASSUME NEW k \in 1..m PROVE u[k] = p[k]
  <2>1. k \in 1..f
    BY <1>1, <1>4
  <2> QED
    BY <1>1, <1>2, <2>1
<1>7. u[m + 1] = Piece("?")
  <2>1. m + 1 \in 1..f
    BY <1>1, <1>4
  <2> QED
    BY <1>1, <1>2, <2>1
<1>8. ASSUME NEW k \in 1..Len(v) PROVE u[m + 1 + k] = v[k]
  <2> DEFINE h == m + 1 + k
  <2>1. k \in Nat /\ k + 1 \in 1..n /\ k \in 1..n
    BY <1>1, <1>3
  <2>2. CASE k \in 1..j
    <3>1. h \in 1..f
      BY <1>1, <1>4, <2>2
    <3> HIDE DEF f
    <3>2. u[h] = s[h] /\ s[h] = q[k] /\ v[k] = q[k]
      BY <1>1, <1>2, <1>3, <2>1, <2>2, <3>1
    <3> QED
      BY <3>2
  <2>3. CASE ~ (k \in 1..j)
    <3>1. h \in (f + 1)..(Len(s) - 1) /\ k \in (j + 1)..(n - 1) /\ h + 1 = m + 1 + (k + 1)
      BY <1>1, <1>3, <1>4, <2>1, <2>3
    <3> HIDE DEF f
    <3>2. s[m + 1 + (k + 1)] = q[k + 1]
      BY <1>1, <2>1
    <3> HIDE DEF h
    <3>3. u[h] = s[h + 1] /\ v[k] = q[k + 1]
      BY <1>2, <1>3, <3>1
    <3>4. s[h + 1] = q[k + 1]
      BY <3>1, <3>2
    <3> QED
      BY <3>3, <3>4 DEF h
  <2> QED
    BY <2>2, <2>3
<1> QED
  BY <1>1, <1>2, <1>3, <1>5, <1>6, <1>7, <1>8, Zenon DEF Behind, m

(* An entity is between two arguments.                                      *)
LEMMA EntityIn ==
  ASSUME NEW s, NEW p, NEW q, Behind(s, p, q), \A k \in 1..Len(p) : p[k] # Piece("amp"),
         NEW f \in 1..(Len(s) - 1), s[f] = Piece("&"), s[f + 1] = Piece("amp")
  PROVE  \E j \in 1..(Len(q) - 1) : f = Len(p) + 1 + j /\ q[j + 1] = Piece("amp")
<1> DEFINE m == Len(p)
           n == Len(q)
           j == f - m - 1
<1>1. /\ Len(s) = m + 1 + n /\ m \in Nat /\ n \in Nat
      /\ (\A k \in 1..m : s[k] = p[k]) /\ s[m + 1] = Piece("?")
      /\ \A k \in 1..n : s[m + 1 + k] = q[k]
  BY DEF Behind
<1>2. Piece("?") # Piece("amp") /\ Piece("?") # Piece("&")
  BY PieceSame
<1>3. ~ (f + 1 <= m)
  <2>1. ASSUME f + 1 <= m PROVE FALSE
    <3>1. f + 1 \in 1..m
      BY <1>1, <2>1
    <3> QED
      BY <1>1, <3>1
  <2> QED
    BY <2>1
<1>4. f # m /\ f # m + 1
  BY <1>1, <1>2
<1> HIDE DEF m, n
<1>5. j \in 1..(n - 1) /\ f = m + 1 + j /\ f + 1 = m + 1 + (j + 1) /\ j + 1 \in 1..n
  BY <1>1, <1>3, <1>4
<1> HIDE DEF j
<1>6. s[m + 1 + (j + 1)] = q[j + 1]
  BY <1>1, <1>5
<1>7. q[j + 1] = Piece("amp")
  BY <1>5, <1>6
<1> QED
  BY <1>5, <1>7 DEF m, n

(* A turn of the loop.                                                      *)
LEMMA EntityGone ==
  ASSUME NEW s, NEW p \in Seq(Pieces), NEW args, Made(s, p, args),
         \A k \in 1..Len(p) : p[k] # Piece("amp"), Find(Entity, s) # npos
  PROVE  Made(Before(s, Find(Entity, s)) \o Amp \o From(s, Find(Entity, s) + 2), p, args)
<1> DEFINE f == Find(Entity, s)
           u == Before(s, f) \o Amp \o From(s, f + 2)
<1>1. s \in Seq(Pieces)
  BY MadeText
<1>2. f \in 1..(Len(s) - 1) /\ s[f] = Piece("&") /\ s[f + 1] = Piece("amp")
  BY <1>1, EntityFound
<1> HIDE DEF f
<1>3. Shorter(u, s, f)
  BY <1>1, <1>2, Removed
<1> HIDE DEF u
<1>4. PICK q \in Seq(Pieces) :
        s = p \o QText(args, q) /\ (args # <<>> => \E at : IsList(q, args, at))
  BY DEF Made
<1>5. args # <<>>
  <2>1. ASSUME args = <<>> PROVE FALSE
    <3>1. s = p \o <<>> /\ p \o <<>> = p
      BY <1>4, <2>1, ConcatEmptySeq DEF QText
    <3>2. s = p
      BY <3>1
    <3>3. f + 1 \in 1..Len(p)
      BY <1>1, <1>2, <3>2, LenProperties
    <3> QED
      BY <1>2, <3>2, <3>3
  <2> QED
    BY <2>1
<1>6. Behind(s, p, q)
  BY <1>4, <1>5, BehindPath DEF QText
<1>7. PICK at : IsList(q, args, at)
  BY <1>4, <1>5
<1>8. PICK j \in 1..(Len(q) - 1) : f = Len(p) + 1 + j /\ q[j + 1] = Piece("amp")
  BY <1>2, <1>6, EntityIn
<1> DEFINE v == Before(q, j) \o Amp \o From(q, j + 2)
<1>9. q[j] = Piece("&")
  <2>1. Len(q) \in Nat /\ \A k \in 1..Len(q) : s[Len(p) + 1 + k] = q[k]
    BY <1>6 DEF Behind
  <2>2. j \in 1..Len(q)
    BY <2>1
  <2> QED
    BY <1>2, <1>8, <2>1, <2>2
<1>10. Shorter(v, q, j)
  BY <1>9, Removed
<1> HIDE DEF v
<1>11. IsList(v, args, Moved(args, at, j))
  BY <1>7, <1>8, <1>10, Contracted
<1>12. Behind(u, p, v)
  BY <1>3, <1>6, <1>8, <1>10, ShorterBehind
<1>13. u = p \o (Question \o v)
  BY <1>12, BehindOne
<1>14. v \in Seq(Pieces)
  BY <1>10 DEF Shorter
<1>15. u = p \o QText(args, v)
  BY <1>5, <1>13, Zenon DEF QText
<1>16. Made(u, p, args)
  BY <1>11, <1>14, <1>15, Zenon DEF Made
<1> QED
  BY <1>16 DEF u, f

(* The first question mark of a text behind whose path a query stands.      *)
LEMMA QuestionFound ==
  ASSUME NEW s, NEW p, NEW q, Behind(s, p, q), \A k \in 1..Len(p) : p[k] # Piece("?")
  PROVE  Find(Question, s) = Len(p) + 1
<1> DEFINE f == Find(Question, s)
           m == Len(p)
<1>1. s \in Seq(Pieces) /\ Len(s) = m + 1 + Len(q) /\ m \in Nat /\ Len(q) \in Nat
      /\ (\A k \in 1..m : s[k] = p[k]) /\ s[m + 1] = Piece("?")
  BY DEF Behind
<1>2. FirstOf("?", s, f)
  BY <1>1, Signs, FoundLetter DEF Question
<1> HIDE DEF f, m
<1>3. m + 1 \in 1..Len(s)
  BY <1>1
<1>4. f \in 1..Len(s) /\ s[f] = Piece("?") /\ \A k \in 1..(f - 1) : s[k] # Piece("?")
  BY <1>1, <1>2, <1>3 DEF FirstOf
<1>5. ~ (f <= m)
  <2>1. ASSUME f <= m PROVE FALSE
    <3>1. f \in 1..m
      BY <1>1, <1>4, <2>1
    <3> QED
      BY <1>1, <1>4, <3>1 DEF m
  <2> QED
    BY <2>1
<1>6. ~ (m + 1 <= f - 1)
  <2>1. ASSUME m + 1 <= f - 1 PROVE FALSE
    <3>1. m + 1 \in 1..(f - 1)
      BY <1>1, <1>4, <2>1
    <3> QED
      BY <1>1, <1>4, <3>1
  <2> QED
    BY <2>1
<1>7. f = m + 1
  BY <1>1, <1>3, <1>4, <1>5, <1>6
<1> QED
  BY <1>7 DEF f, m

(* A path alone has none.                                                   *)
LEMMA QuestionMissed ==
  ASSUME NEW s \in Seq(Pieces), \A k \in 1..Len(s) : s[k] # Piece("?")
  PROVE  Find(Question, s) = npos
<1> DEFINE f == Find(Question, s)
<1>1. FirstOf("?", s, f)
  BY Signs, FoundLetter DEF Question
<1> HIDE DEF f
<1>2. f = npos
  BY <1>1 DEF FirstOf
<1> QED
  BY <1>2 DEF f

(* The cleared map with the path.                                           *)
LEMMA PathInserted ==
  ASSUME NEW u
  PROVE  Insert(<<>>, <<VPATH, u>>) = [key \in {VPATH} |-> u]
<1>1. DOMAIN <<>> = {}
  OBVIOUS
<1> DEFINE w == <<VPATH, u>>
<1>2. w[1] = VPATH /\ w[2] = u
  OBVIOUS
<1> HIDE DEF w
<1>3. Insert(<<>>, w) = [key \in {VPATH} |-> u]
  <2>1. Insert(<<>>, w) =
          [key \in {} \cup {w[1]} |-> IF key \in {} THEN <<>>[key] ELSE w[2]]
    BY <1>1, Zenon DEF Insert
  <2>2. {} \cup {w[1]} = {VPATH}
    BY <1>2
  <2>3. [key \in {VPATH} |-> IF key \in {} THEN <<>>[key] ELSE w[2]] = [key \in {VPATH} |-> u]
    <3>1. ASSUME NEW key \in {VPATH} PROVE (IF key \in {} THEN <<>>[key] ELSE w[2]) = u
      BY <1>2, Zenon
    <3> QED
      BY <3>1, Zenon
  <2> QED
    BY <2>1, <2>2, <2>3, Zenon
<1> QED
  BY <1>3 DEF w

(* It answers a request without arguments.                                  *)
LEMMA PathHeld ==
  ASSUME NEW r
  PROVE  Holds([key \in {VPATH} |-> AskedPath(r)], r, 0)
<1> DEFINE m == [key \in {VPATH} |-> AskedPath(r)]
<1>1. 1..0 = {}
  OBVIOUS
<1>2. DOMAIN m = {VPATH} /\ m[VPATH] = AskedPath(r)
  OBVIOUS
<1> HIDE DEF m
<1>3. {Key(r.args[k]) : k \in 1..0} = {}
  BY <1>1
<1>4. DOMAIN m = {VPATH} \cup {Key(r.args[k]) : k \in 1..0}
  BY <1>2, <1>3
<1>5. Holds(m, r, 0)
  BY <1>1, <1>2, <1>4 DEF Holds
<1> QED
  BY <1>5 DEF m

(* An argument that is inserted behind those before it.                     *)
LEMMA ArgumentHeld ==
  ASSUME NEW r, NEW map, NEW k \in Nat, k >= 1, Holds(map, r, k - 1)
  PROVE  Holds(Insert(map, <<Key(r.args[k]), Value(r.args[k])>>), r, k)
<1> DEFINE w == <<Key(r.args[k]), Value(r.args[k])>>
           u == Insert(map, w)
           D == DOMAIN map
           K(n) == {Key(r.args[j]) : j \in 1..n}
<1>1. w[1] = Key(r.args[k]) /\ w[2] = Value(r.args[k])
  OBVIOUS
<1> HIDE DEF w
<1>2. D = {VPATH} \cup K(k - 1) /\ map[VPATH] = AskedPath(r)
  BY DEF Holds
<1>3. \A j \in 1..(k - 1) :
        Key(r.args[j]) \notin {VPATH} \cup {Key(r.args[h]) : h \in 1..(j - 1)}
          => map[Key(r.args[j])] = Value(r.args[j])
  BY DEF Holds
<1>4. /\ DOMAIN u = D \cup {w[1]}
      /\ \A key \in D \cup {w[1]} : u[key] = IF key \in D THEN map[key] ELSE w[2]
  BY DEF Insert
<1> HIDE DEF u
<1>5. \A j : j \in 1..k <=> j \in 1..(k - 1) \/ j = k
  OBVIOUS
<1>6. K(k) = K(k - 1) \cup {Key(r.args[k])}
  BY <1>5, Zenon
<1>7. DOMAIN u = {VPATH} \cup K(k)
  <2> HIDE DEF K
  <2> QED
    BY <1>1, <1>2, <1>4, <1>6
<1>8. u[VPATH] = AskedPath(r)
  BY <1>2, <1>4
<1>9. ASSUME NEW j \in 1..k,
             Key(r.args[j]) \notin {VPATH} \cup {Key(r.args[h]) : h \in 1..(j - 1)}
      PROVE  u[Key(r.args[j])] = Value(r.args[j])
  <2>1. CASE j \in 1..(k - 1)
    <3>1. Key(r.args[j]) \in D
      BY <1>2, <2>1
    <3>2. u[Key(r.args[j])] = map[Key(r.args[j])]
      BY <1>4, <3>1
    <3> QED
      BY <1>3, <1>9, <2>1, <3>2
  <2>2. CASE j = k
    <3>1. Key(r.args[k]) \notin D
      BY <1>2, <1>9, <2>2
    <3> QED
      BY <1>1, <1>4, <2>2, <3>1
  <2> QED
    BY <1>5, <2>1, <2>2
<1>10. Holds(u, r, k)
  BY <1>7, <1>8, <1>9, Zenon DEF Holds
<1> QED
  BY <1>10 DEF u, w

(* What parse_url() finds of the path.                                      *)
LEMMA PathRead ==
  ASSUME NEW s, NEW p \in Seq(Pieces), NEW args, Ready(s, p, args),
         \A k \in 1..Len(p) : p[k] # Piece("?")
  PROVE  /\ args = <<>> => s = p /\ Find(Question, s) = npos
         /\ args # <<>> => Find(Question, s) = Len(p) + 1 /\ Before(s, Len(p) + 1) = p
<1>1. PICK q \in Seq(Pieces) : s = p \o QText(args, q)
  BY DEF Ready
<1>2. CASE args = <<>>
  <2>1. s = p \o <<>> /\ p \o <<>> = p
    BY <1>1, <1>2, ConcatEmptySeq DEF QText
  <2>2. s = p
    BY <2>1
  <2>3. Find(Question, s) = npos
    BY <2>2, QuestionMissed
  <2> QED
    BY <1>2, <2>2, <2>3
<1>3. CASE args # <<>>
  <2> DEFINE u == Question \o q
  <2>1. s = p \o u
    BY <1>1, <1>3 DEF QText
  <2>2. Behind(s, p, q)
    BY <2>1, BehindPath
  <2>3. Find(Question, s) = Len(p) + 1
    BY <2>2, QuestionFound
  <2>4. u \in Seq(Pieces)
    <3>1. Joins(u, Question, q)
      BY Marks, Joined
    <3> QED
      BY <3>1 DEF Joins
  <2> HIDE DEF u
  <2>5. Before(s, Len(p) + 1) = p
    BY <2>1, <2>4, Apart
  <2> QED
    BY <1>3, <2>3, <2>5
<1> QED
  BY <1>2, <1>3

(* s is p, a question mark and q, which lists the arguments.                *)
Listing(s, p, q, args, at) == Behind(s, p, q) /\ IsList(q, args, at)

(* Where an argument lies in s.                                             *)
LEMMA ArgumentPlaces ==
  ASSUME NEW s, NEW p, NEW q, NEW args, NEW at, Listing(s, p, q, args, at), NEW k \in 1..Len(args)
  PROVE  LET b == Len(p) + 1 + at[k]
             e == Len(p) + 1 + EndOf(args, at, k) IN
         /\ b \in Nat /\ e \in Nat /\ 1 <= b /\ b <= e /\ e <= Len(s) + 1 /\ Len(s) \in Nat
         /\ \A j \in b..(e - 1) : s[j] # Piece("&")
<1> DEFINE c == Len(p) + 1
           x == at[k]
           y == EndOf(args, at, k)
           b == c + x
           e == c + y
<1>1. Len(s) = c + Len(q) /\ Len(p) \in Nat /\ Len(q) \in Nat /\ \A j \in 1..Len(q) : s[c + j] = q[j]
  BY DEF Listing, Behind
<1>2. x \in Nat /\ y \in Nat /\ 1 <= x /\ x <= y /\ y <= Len(q) + 1
  BY ListPlaces DEF Listing, Places
<1>3. \A j \in Nat : x <= j /\ j < y => q[j] # Piece("&")
  BY ListLetters DEF Listing
<1> HIDE DEF x, y
<1>4. c \in Nat /\ c >= 1
  BY <1>1
<1> HIDE DEF c
<1>5. b \in Nat /\ e \in Nat /\ 1 <= b /\ b <= e /\ e <= Len(s) + 1 /\ Len(s) \in Nat
  BY <1>1, <1>2, <1>4
<1>6. ASSUME NEW j \in b..(e - 1) PROVE s[j] # Piece("&")
  <2> DEFINE h == j - c
  <2>1. h \in Nat /\ x <= h /\ h < y /\ c + h = j
    BY <1>2, <1>4
  <2> HIDE DEF h
  <2>2. h \in 1..Len(q)
    BY <1>1, <1>2, <2>1
  <2>3. s[c + h] = q[h] /\ q[h] # Piece("&")
    BY <1>1, <1>3, <2>1, <2>2
  <2> QED
    BY <2>1, <2>3
<1> QED
  BY <1>5, <1>6 DEF c, x, y

(* substr() takes it out,                                                   *)
LEMMA ArgumentIn ==
  ASSUME NEW s, NEW p, NEW q, NEW args, NEW at, Listing(s, p, q, args, at), NEW k \in 1..Len(args)
  PROVE  SubSeq(s, Len(p) + 1 + at[k], (Len(p) + 1 + EndOf(args, at, k)) - 1) = ArgText(args[k])
<1> DEFINE c == Len(p) + 1
           x == at[k]
           y == EndOf(args, at, k)
           b == c + x
           e == c + y
           t == ArgText(args[k])
           u == SubSeq(s, b, e - 1)
<1>1. s \in Seq(Pieces) /\ Len(s) = c + Len(q) /\ Len(p) \in Nat /\ Len(q) \in Nat
      /\ \A j \in 1..Len(q) : s[c + j] = q[j]
  BY DEF Listing, Behind
<1>2. x \in Nat /\ y \in Nat /\ 1 <= x /\ x <= y /\ y <= Len(q) + 1 /\ Len(t) \in Nat /\ y = x + Len(t)
  BY ListPlaces DEF Listing, Places
<1>3. \A j \in 1..Len(t) : q[x + j - 1] = t[j]
  BY DEF Listing, IsList, Lists
<1>4. t \in Seq(Pieces)
  <2>1. args \in Seq(Seq(Seq(Pieces))) /\ IsArgument(args[k])
    BY DEF Listing, IsList
  <2>2. args[k] \in Seq(Seq(Pieces))
    BY <2>1, ElementOfSeq
  <2> QED
    BY <2>1, <2>2, ArgumentTexts
<1> HIDE DEF x, y, t
<1>5. c \in Nat /\ c >= 1
  BY <1>1
<1> HIDE DEF c
<1>6. b \in Nat /\ e - 1 \in Nat /\ 1 <= b /\ b <= (e - 1) + 1 /\ e - 1 <= Len(s)
      /\ (e - 1) - b + 1 = Len(t)
  BY <1>1, <1>2, <1>5
<1>7. u \in Seq(Pieces) /\ Len(u) = Len(t) /\ \A j \in 1..Len(t) : u[j] = s[b + j - 1]
  <2> DEFINE f == e - 1
  <2>1. f \in Nat /\ b \in Nat /\ 1 <= b /\ b <= f + 1 /\ f <= Len(s) /\ f - b + 1 = Len(t)
    BY <1>6
  <2> HIDE DEF b, f
  <2>2. /\ SubSeq(s, b, f) \in Seq(Pieces) /\ Len(SubSeq(s, b, f)) = f - b + 1
        /\ \A j \in 1..(f - b + 1) : SubSeq(s, b, f)[j] = s[b + j - 1]
    BY <1>1, <2>1, Section
  <2> QED
    BY <2>1, <2>2 DEF f
<1> HIDE DEF u
<1>8. ASSUME NEW j \in 1..Len(t) PROVE u[j] = t[j]
  <2> DEFINE h == x + j - 1
  <2>1. h \in 1..Len(q) /\ b + j - 1 = c + h
    BY <1>1, <1>2, <1>5
  <2>2. q[h] = t[j]
    BY <1>3
  <2> HIDE DEF h, b
  <2>3. u[j] = s[c + h] /\ s[c + h] = q[h]
    BY <1>1, <1>7, <2>1
  <2> QED
    BY <2>2, <2>3
<1>9. u = t
  BY <1>4, <1>7, <1>8, SeqEqual
<1> QED
  BY <1>9 DEF u, t, c, x, y

(* whose end find() has found                                               *)
LEMMA ArgumentEnds ==
  ASSUME NEW s, NEW p, NEW q, NEW args, NEW at, Listing(s, p, q, args, at),
         NEW k \in 1..(Len(args) - 1)
  PROVE  /\ FindFrom(Amp, s, Len(p) + 1 + at[k]) = Len(p) + 1 + EndOf(args, at, k)
         /\ Len(p) + 1 + EndOf(args, at, k) # npos
<1> DEFINE b == Len(p) + 1 + at[k]
           e == Len(p) + 1 + EndOf(args, at, k)
           f == FindFrom(Amp, s, b)
<1>1. k \in 1..Len(args)
  BY ListPlaces DEF Listing, Places
<1>2. /\ b \in Nat /\ e \in Nat /\ 1 <= b /\ b <= e /\ Len(s) \in Nat
      /\ \A j \in b..(e - 1) : s[j] # Piece("&")
  BY <1>1, ArgumentPlaces
<1>3. s[e] = Piece("&") /\ e <= Len(s)
  <2> DEFINE y == EndOf(args, at, k)
  <2>1. q[y] = Piece("&")
    BY DEF Listing, IsList, Lists
  <2>2. y < at[k + 1] /\ at[k + 1] <= Len(q) + 1 /\ at[k + 1] \in Nat
    BY ListPlaces DEF Listing, Places
  <2>3. y \in Nat /\ 1 <= at[k] /\ at[k] <= y /\ at[k] \in Nat
    BY <1>1, ListPlaces DEF Listing, Places
  <2>4. Len(s) = Len(p) + 1 + Len(q) /\ Len(p) \in Nat /\ Len(q) \in Nat
        /\ \A j \in 1..Len(q) : s[Len(p) + 1 + j] = q[j]
    BY DEF Listing, Behind
  <2> HIDE DEF y
  <2>5. y \in 1..Len(q)
    BY <2>2, <2>3, <2>4
  <2> QED
    BY <2>1, <2>4, <2>5 DEF y
<1>4. s \in Seq(Pieces)
  BY DEF Listing, Behind
<1> HIDE DEF b, e
<1>5. FirstFrom("&", s, b, f)
  BY <1>2, <1>4, Signs, LetterFrom DEF Amp
<1> HIDE DEF f
<1>6. f # npos /\ f \in b..Len(s) /\ s[f] = Piece("&") /\ \A j \in b..(f - 1) : s[j] # Piece("&")
  BY <1>2, <1>3, <1>5 DEF FirstFrom
<1>7. ~ (f <= e - 1)
  <2>1. ASSUME f <= e - 1 PROVE FALSE
    <3>1. f \in b..(e - 1)
      BY <1>2, <1>6, <2>1
    <3> QED
      BY <1>2, <1>6, <3>1
  <2> QED
    BY <2>1
<1>8. ~ (e <= f - 1)
  <2>1. ASSUME e <= f - 1 PROVE FALSE
    <3>1. e \in b..(f - 1)
      BY <1>2, <1>6, <2>1
    <3> QED
      BY <1>3, <1>6, <3>1
  <2> QED
    BY <2>1
<1>9. f = e
  BY <1>2, <1>6, <1>7, <1>8
<1> QED
  BY <1>6, <1>9 DEF f, b, e

(* or, behind the last, not found.                                          *)
LEMMA ArgumentLast ==
  ASSUME NEW s, NEW p, NEW q, NEW args, NEW at, Listing(s, p, q, args, at)
  PROVE  /\ FindFrom(Amp, s, Len(p) + 1 + at[Len(args)]) = npos
         /\ (Len(p) + 1 + EndOf(args, at, Len(args))) - 1 = Len(s)
<1> DEFINE n == Len(args)
           b == Len(p) + 1 + at[n]
           e == Len(p) + 1 + EndOf(args, at, n)
           f == FindFrom(Amp, s, b)
<1>1. n \in 1..Len(args) /\ EndOf(args, at, n) = Len(q) + 1
  BY ListPlaces DEF Listing, Places
<1>2. /\ b \in Nat /\ e \in Nat /\ 1 <= b /\ b <= e /\ Len(s) \in Nat
      /\ \A j \in b..(e - 1) : s[j] # Piece("&")
  BY <1>1, ArgumentPlaces
<1>3. s \in Seq(Pieces) /\ Len(s) = Len(p) + 1 + Len(q) /\ Len(p) \in Nat /\ Len(q) \in Nat
  BY DEF Listing, Behind
<1>4. e - 1 = Len(s)
  BY <1>1, <1>3
<1> HIDE DEF b, e
<1>5. FirstFrom("&", s, b, f)
  BY <1>2, <1>3, Signs, LetterFrom DEF Amp
<1> HIDE DEF f
<1>6. f = npos
  BY <1>2, <1>4, <1>5 DEF FirstFrom
<1> QED
  BY <1>4, <1>6 DEF f, b, e, n

(* The inductive invariant of the request line.  While the arguments are    *)
(* read, pos2 stands at one of them and the map holds those before it.      *)
Arguing(s, map, pos, r) ==
  \E q, at : \E k \in 1..Len(r.args) :
    /\ r.args # <<>> /\ s = AskedPath(r) \o (Question \o q)
    /\ Listing(s, AskedPath(r), q, r.args, at) /\ Close(r.args, at)
    /\ pos = Len(AskedPath(r)) + 1 + at[k]
    /\ Holds(map, r, k - 1)

(* How far a request of the expected method is read,                        *)
Reads(r) ==
  /\ stage = "host" => s_vpath = TargetText(r)
  /\ stage = "front" => Erasing(s_vpath, r)
  /\ stage = "entities" => Made(s_vpath, r.path, r.args)
  /\ stage \in {"host", "front", "entities"} => SizeOf(TargetText(r)) >= 7
  /\ stage = "vpath" => Ready(s_vpath, AskedPath(r), r.args)
  /\ stage = "arguments" => Arguing(s_vpath, urlArgMap, pos2, r)
  /\ stage = "parsed" => Holds(urlArgMap, r, Len(r.args))

(* and one of the other method, of which nothing is kept.                   *)
Refuses ==
  /\ stage \in {"vpath", "parsed"} /\ s_vpath = <<>>
  /\ stage = "parsed" => urlArgMap = [key \in {VPATH} |-> <<>>]

QueryInv ==
  /\ stage \in {"start", "host", "front", "entities", "vpath", "arguments", "parsed"}
  /\ stage # "start" => request \in Requests
  /\ stage # "start" /\ ~ Pathless(request) =>
       IF request.type = request.method THEN Reads(request) ELSE Refuses

(* The invariant holds at the start,                                        *)
LEMMA QueryInitInv == QueryInit => QueryInv
  BY DEF QueryInit, QueryInv

(* when a target is read,                                                   *)
LEMMA ReadTargetInv ==
  ASSUME QueryInv, NEW r \in Requests, ReadTarget(r)
  PROVE  QueryInv'
<1>1. /\ s_vpath' = IF r.type = r.method THEN TargetText(r) ELSE <<>>
      /\ stage' = IF SizeOf(s_vpath') < 7 THEN "vpath" ELSE "host"
      /\ request' = r
  BY TargetRead DEF ReadTarget
<1>2. CASE r.type = r.method
  <2>1. s_vpath' = TargetText(r) /\ SizeOf(TargetText(r)) \in Nat
    BY <1>1, <1>2, TargetIs, SizeLong
  <2>2. CASE SizeOf(TargetText(r)) >= 7
    <3>1. stage' = "host"
      BY <1>1, <2>1, <2>2
    <3> QED
      BY <1>1, <1>2, <2>1, <2>2, <3>1 DEF QueryInv, Reads
  <2>3. CASE ~ (SizeOf(TargetText(r)) >= 7)
    <3>1. stage' = "vpath"
      BY <1>1, <2>1, <2>3
    <3>2. Ready(s_vpath', AskedPath(r), r.args)
      BY <2>1, <2>3, ShortReady
    <3> QED
      BY <1>1, <1>2, <3>1, <3>2 DEF QueryInv, Reads
  <2> QED
    BY <2>2, <2>3
<1>3. CASE r.type # r.method
  <2>1. s_vpath' = <<>> /\ stage' = "vpath"
    BY <1>1, <1>3, SizeNone
  <2> QED
    BY <1>1, <1>3, <2>1 DEF QueryInv, Refuses
<1> QED
  BY <1>2, <1>3

(* Behind a step of get_vpath() or parse_url() the request is the same.     *)
LEMMA SameRequest ==
  ASSUME QueryInv, stage \notin {"start", "vpath", "parsed"}, ~ Pathless(request)
  PROVE  request \in Requests /\ request.type = request.method /\ Reads(request)
  BY DEF QueryInv, Refuses

(* when its host is dropped,                                                *)
LEMMA DropHostInv ==
  ASSUME QueryInv, DropHost
  PROVE  QueryInv'
<1> DEFINE r == request
           pos == FindFrom(slash, s_vpath, Len(http) + 1)
<1>1. /\ stage = "host" /\ request' = request /\ stage' \in {"front", "vpath"}
      /\ \/ Find(http, s_vpath) # 1 /\ stage' = "front" /\ s_vpath' = s_vpath
         \/ Find(http, s_vpath) = 1 /\ pos = npos /\ stage' = "vpath" /\ s_vpath' = <<>>
         \/ Find(http, s_vpath) = 1 /\ pos # npos /\ stage' = "front" /\ s_vpath' = From(s_vpath, pos)
  BY Zenon DEF DropHost
<1>2. r \in Requests
  BY <1>1 DEF QueryInv
<1>3. ASSUME ~ Pathless(r)
      PROVE  r.type = r.method /\ Reads(r)'
  <2>1. r.type = r.method /\ Reads(r)
    BY <1>1, <1>3, SameRequest
  <2>2. s_vpath = TargetText(r) /\ SizeOf(TargetText(r)) >= 7
    BY <1>1, <2>1 DEF Reads
  <2>3. CASE r.host = <<>>
    <3>1. Find(http, s_vpath) # 1 /\ Erasing(s_vpath, r)
      BY <1>2, <2>2, <2>3, NotWhole
    <3>2. stage' = "front" /\ s_vpath' = s_vpath
      BY <1>1, <3>1
    <3> QED
      BY <1>1, <2>1, <2>2, <3>1, <3>2 DEF Reads
  <2>4. CASE r.host # <<>> /\ r.lead # <<>>
    <3>1. Find(http, s_vpath) = 1
      BY <1>2, <2>2, <2>4, WholeStarts
    <3>2. pos = Len(HostText(r)) + 1 /\ From(s_vpath, pos) = Front(r)
      BY <1>2, <2>2, <2>4, HostEnds
    <3>3. pos # npos
      <4>1. Len(HostText(r)) \in Nat
        BY <1>2, TargetIs, LenProperties
      <4> QED
        BY <3>2, <4>1 DEF npos
    <3> HIDE DEF pos
    <3>4. stage' = "front" /\ s_vpath' = Front(r)
      BY <1>1, <3>1, <3>2, <3>3
    <3>5. Erasing(s_vpath', r)
      BY <1>2, <3>4, LeadSlashes DEF Erasing, Front
    <3> QED
      BY <1>1, <2>1, <2>2, <3>4, <3>5 DEF Reads
  <2>5. CASE r.host # <<>> /\ r.lead = <<>>
    <3>1. r.args = <<>>
      BY <1>3, <2>5 DEF Pathless
    <3>2. Find(http, s_vpath) = 1
      BY <1>2, <2>2, <2>5, WholeStarts
    <3>3. pos = npos /\ r.path = <<>>
      BY <1>2, <2>2, <2>5, <3>1, HostOnly
    <3> HIDE DEF pos
    <3>4. stage' = "vpath" /\ s_vpath' = <<>>
      BY <1>1, <3>2, <3>3
    <3>5. AskedPath(r) = <<>>
      <4>1. SizeOf(TargetText(r)) \in Nat
        BY <1>2, HostLong, <2>5
      <4>2. ~ (SizeOf(TargetText(r)) < 7)
        BY <2>2, <4>1
      <4> QED
        BY <3>3, <4>2 DEF AskedPath
    <3>6. Ready(<<>>, <<>>, <<>>)
      <4>1. <<>> \in Seq(Pieces) /\ <<>> \o <<>> = <<>>
        BY ConcatEmptySeq
      <4>2. QText(<<>>, <<>>) = <<>>
        BY DEF QText
      <4> QED
        BY <4>1, <4>2, Zenon DEF Ready
    <3> QED
      BY <1>1, <2>1, <2>2, <3>1, <3>4, <3>5, <3>6 DEF Reads
  <2> QED
    BY <2>3, <2>4, <2>5
<1> QED
  BY <1>1, <1>2, <1>3 DEF QueryInv

(* what is in front of the path erased,                                     *)
LEMMA EraseFrontInv ==
  ASSUME QueryInv, EraseFront
  PROVE  QueryInv'
<1> DEFINE r == request
<1>1. /\ stage = "front" /\ request' = request
      /\ s_vpath' = IF InFront THEN From(s_vpath, 2) ELSE s_vpath
      /\ stage' = IF InFront THEN stage ELSE "entities"
  BY DEF EraseFront
<1>2. r \in Requests
  BY <1>1 DEF QueryInv
<1>3. ASSUME ~ Pathless(r)
      PROVE  r.type = r.method /\ Reads(r)'
  <2>1. r.type = r.method /\ Reads(r)
    BY <1>1, <1>3, SameRequest
  <2>2. Erasing(s_vpath, r) /\ SizeOf(TargetText(r)) >= 7
    BY <1>1, <2>1 DEF Reads
  <2>3. CASE InFront
    <3>1. stage' = "front" /\ s_vpath' = From(s_vpath, 2)
      BY <1>1, <2>3
    <3>2. Erasing(s_vpath', r)
      BY <1>2, <2>2, <2>3, <3>1, OneErased DEF InFront
    <3> QED
      BY <1>1, <2>1, <2>2, <3>1, <3>2 DEF Reads
  <2>4. CASE ~ InFront
    <3>1. stage' = "entities" /\ s_vpath' = s_vpath
      BY <1>1, <2>4
    <3>2. Made(s_vpath, r.path, r.args)
      BY <1>2, <2>2, <2>4, AllErased DEF InFront
    <3> QED
      BY <1>1, <2>1, <2>2, <3>1, <3>2 DEF Reads
  <2> QED
    BY <2>3, <2>4
<1>4. stage' \in {"front", "entities"}
  BY <1>1
<1> QED
  BY <1>1, <1>2, <1>3, <1>4 DEF QueryInv

(* an entity replaced,                                                      *)
LEMMA ReplaceEntityInv ==
  ASSUME QueryInv, ReplaceEntity
  PROVE  QueryInv'
<1> DEFINE r == request
           f == Find(Entity, s_vpath)
           u == Before(s_vpath, f) \o Amp \o From(s_vpath, f + 2)
<1>1. /\ stage = "entities" /\ request' = request
      /\ s_vpath' = IF f = npos THEN s_vpath ELSE u
      /\ stage' = IF f = npos THEN "vpath" ELSE stage
  BY Zenon DEF ReplaceEntity, Entity
<1>2. r \in Requests
  BY <1>1 DEF QueryInv
<1>3. ASSUME ~ Pathless(r)
      PROVE  r.type = r.method /\ Reads(r)'
  <2>1. r.type = r.method /\ Reads(r)
    BY <1>1, <1>3, SameRequest
  <2>2. Made(s_vpath, r.path, r.args) /\ SizeOf(TargetText(r)) >= 7
    BY <1>1, <2>1 DEF Reads
  <2>3. r.path \in Seq(Pieces) /\ \A k \in 1..Len(r.path) : r.path[k] # Piece("amp")
    BY <1>2, RequestTexts, RequestAssumption
  <2>4. CASE f = npos
    <3>1. Ready(s_vpath, r.path, r.args)
      BY <2>2, <2>3, <2>4, MadeText, EntityNone
    <3>2. AskedPath(r) = r.path
      <4>1. SizeOf(TargetText(r)) \in Nat
        BY <1>2, TargetIs, SizeLong
      <4>2. ~ (SizeOf(TargetText(r)) < 7)
        BY <2>2, <4>1
      <4> QED
        BY <4>2 DEF AskedPath
    <3> HIDE DEF f, u
    <3>3. stage' = "vpath" /\ s_vpath' = s_vpath
      BY <1>1, <2>4
    <3> QED
      BY <1>1, <2>1, <3>1, <3>2, <3>3 DEF Reads
  <2>5. CASE f # npos
    <3>1. Made(u, r.path, r.args)
      BY <2>2, <2>3, <2>5, EntityGone
    <3> HIDE DEF f, u
    <3>2. stage' = "entities" /\ s_vpath' = u
      BY <1>1, <2>5
    <3> QED
      BY <1>1, <2>1, <2>2, <3>1, <3>2 DEF Reads
  <2> QED
    BY <2>4, <2>5
<1>4. stage' \in {"entities", "vpath"}
  <2> HIDE DEF f, u
  <2> QED
    BY <1>1
<1> QED
  BY <1>1, <1>2, <1>3, <1>4 DEF QueryInv

(* when the path goes into the map,                                         *)
LEMMA ParseUrlInv ==
  ASSUME QueryInv, ParseUrl
  PROVE  QueryInv'
<1> DEFINE r == request
           f == Find(Question, s_vpath)
           a == AskedPath(r)
<1>1. /\ stage = "vpath" /\ request' = request /\ s_vpath' = s_vpath
      /\ urlArgMap' = Insert(<<>>, <<VPATH, IF f = npos THEN s_vpath ELSE Before(s_vpath, f)>>)
      /\ pos2' = IF f = npos THEN npos ELSE f + 1
      /\ stage' = IF f = npos THEN "parsed" ELSE "arguments"
  BY Zenon DEF ParseUrl
<1>2. r \in Requests
  BY <1>1 DEF QueryInv
<1>3. stage' \in {"parsed", "arguments"}
  <2> HIDE DEF f
  <2> QED
    BY <1>1
<1>4. \A u : Insert(<<>>, <<VPATH, u>>) = [key \in {VPATH} |-> u]
  BY PathInserted
<1>5. ASSUME ~ Pathless(r), r.type = r.method
      PROVE  Reads(r)'
  <2>1. Ready(s_vpath, a, r.args)
    BY <1>1, <1>5 DEF QueryInv, Reads
  <2>2. a \in Seq(Pieces) /\ \A k \in 1..Len(a) : a[k] # Piece("?")
    BY <1>2, AskedPathIs
  <2>3. Holds([key \in {VPATH} |-> a], r, 0)
    BY PathHeld
  <2>4. CASE r.args = <<>>
    <3>1. s_vpath = a /\ f = npos
      BY <2>1, <2>2, <2>4, PathRead
    <3> HIDE DEF f
    <3>2. stage' = "parsed" /\ urlArgMap' = Insert(<<>>, <<VPATH, s_vpath>>)
      BY <1>1, <3>1
    <3>3. urlArgMap' = [key \in {VPATH} |-> a]
      BY <1>4, <3>1, <3>2, Zenon
    <3>4. Holds(urlArgMap', r, Len(r.args))
      <4>1. Len(r.args) = 0
        BY <2>4
      <4> QED
        BY <2>3, <3>3, <4>1, Zenon
    <3> QED
      BY <1>1, <3>2, <3>4 DEF Reads
  <2>5. CASE r.args # <<>>
    <3>1. f = Len(a) + 1 /\ Before(s_vpath, Len(a) + 1) = a
      BY <2>1, <2>2, <2>5, PathRead
    <3> HIDE DEF a
    <3>2. Len(a) \in Nat /\ f # npos
      BY <2>2, <3>1, LenProperties DEF npos
    <3> HIDE DEF f
    <3>3. /\ stage' = "arguments" /\ pos2' = f + 1
          /\ urlArgMap' = Insert(<<>>, <<VPATH, Before(s_vpath, f)>>)
      BY <1>1, <3>2
    <3>4. urlArgMap' = [key \in {VPATH} |-> a]
      BY <1>4, <3>1, <3>3, Zenon
    <3>5. PICK q \in Seq(Pieces) :
            /\ s_vpath = a \o QText(r.args, q)
            /\ \E at : IsList(q, r.args, at) /\ Close(r.args, at)
      BY <2>1, <2>5 DEF Ready
    <3>6. PICK at : IsList(q, r.args, at) /\ Close(r.args, at)
      BY <3>5
    <3>7. s_vpath = a \o (Question \o q)
      BY <2>5, <3>5 DEF QText
    <3>8. Listing(s_vpath, a, q, r.args, at)
      BY <2>2, <3>6, <3>7, BehindPath DEF Listing
    <3>9. at[1] = 1 /\ 1 \in 1..Len(r.args)
      BY <3>6, ListPlaces DEF Places
    <3>10. pos2' = Len(a) + 1 + at[1]
      BY <3>1, <3>2, <3>3, <3>9
    <3>11. Holds(urlArgMap', r, 1 - 1)
      <4>1. 1 - 1 = 0
        OBVIOUS
      <4> QED
        BY <2>3, <3>4, <4>1, Zenon
    <3>12. Arguing(s_vpath, urlArgMap', pos2', r)
      BY <2>5, <3>6, <3>7, <3>8, <3>9, <3>10, <3>11, Zenon DEF Arguing, a
    <3> QED
      BY <1>1, <3>3, <3>12 DEF Reads
  <2> QED
    BY <2>4, <2>5
<1>6. ASSUME ~ Pathless(r), r.type # r.method
      PROVE  Refuses'
  <2>1. s_vpath = <<>>
    BY <1>1, <1>6 DEF QueryInv, Refuses
  <2>2. f = npos
    <3>1. <<>> \in Seq(Pieces) /\ \A k \in 1..Len(<<>>) : <<>>[k] # Piece("?")
      OBVIOUS
    <3> QED
      BY <2>1, <3>1, QuestionMissed
  <2> HIDE DEF f
  <2>3. stage' = "parsed" /\ urlArgMap' = Insert(<<>>, <<VPATH, s_vpath>>)
    BY <1>1, <2>2
  <2>4. urlArgMap' = [key \in {VPATH} |-> <<>>]
    BY <1>4, <2>1, <2>3, Zenon
  <2> QED
    BY <1>1, <2>1, <2>3, <2>4 DEF Refuses
<1> HIDE DEF f, a
<1> QED
  BY <1>1, <1>2, <1>3, <1>5, <1>6 DEF QueryInv

(* and an argument behind it:                                               *)
LEMMA ParseArgumentInv ==
  ASSUME QueryInv, ParseArgument
  PROVE  QueryInv'
<1> DEFINE r == request
           f == FindFrom(Amp, s_vpath, pos2)
           a == AskedPath(r)
           m == Len(a) + 1
           w == IF f = npos THEN From(s_vpath, pos2) ELSE SubSeq(s_vpath, pos2, f - 1)
<1>1. /\ stage = "arguments" /\ request' = request /\ s_vpath' = s_vpath
      /\ urlArgMap' = Insert(urlArgMap, DivideArgument(w))
      /\ pos2' = IF f = npos THEN npos ELSE f + 1
      /\ stage' = IF f = npos THEN "parsed" ELSE stage
  BY Zenon DEF ParseArgument
<1>2. r \in Requests
  BY <1>1 DEF QueryInv
<1>3. stage' \in {"parsed", "arguments"}
  <2> HIDE DEF f, w
  <2> QED
    BY <1>1
<1>4. ASSUME ~ Pathless(r)
      PROVE  r.type = r.method /\ Reads(r)'
  <2>1. r.type = r.method /\ Reads(r)
    BY <1>1, <1>4, SameRequest
  <2>2. PICK q, at :
          \E k \in 1..Len(r.args) :
            /\ r.args # <<>> /\ s_vpath = a \o (Question \o q)
            /\ Listing(s_vpath, a, q, r.args, at) /\ Close(r.args, at)
            /\ pos2 = m + at[k]
            /\ Holds(urlArgMap, r, k - 1)
    BY <1>1, <2>1, Zenon DEF Reads, Arguing
  <2>3. PICK k \in 1..Len(r.args) :
          /\ r.args # <<>> /\ s_vpath = a \o (Question \o q)
          /\ Listing(s_vpath, a, q, r.args, at) /\ Close(r.args, at)
          /\ pos2 = m + at[k]
          /\ Holds(urlArgMap, r, k - 1)
    BY <2>2
  <2> DEFINE n == Len(r.args)
             e == EndOf(r.args, at, k)
             t == ArgText(r.args[k])
  <2>4. k \in Nat /\ 1 <= k /\ n \in Nat /\ k <= n /\ Len(a) \in Nat /\ at[k] \in Nat /\ e \in Nat
    <3>1. n \in Nat /\ at[k] \in Nat /\ e \in Nat
      BY <2>3, ListPlaces DEF Listing, Places
    <3>2. Len(a) \in Nat
      BY <2>3 DEF Listing, Behind
    <3> HIDE DEF n
    <3> QED
      BY <2>3, <3>1, <3>2 DEF n
  <2>5. SubSeq(s_vpath, m + at[k], (m + e) - 1) = t
    <3>1. Listing(s_vpath, a, q, r.args, at)
      BY <2>3
    <3>2. k \in 1..Len(r.args)
      BY <2>3
    <3> HIDE DEF a, r
    <3> QED
      BY <3>1, <3>2, ArgumentIn
  <2>6. DivideArgument(t) = <<Key(r.args[k]), Value(r.args[k])>>
    <3>1. r.args \in Seq(Seq(Seq(Pieces))) /\ IsArgument(r.args[k])
      BY <2>3 DEF Listing, IsList
    <3>2. r.args[k] \in Seq(Seq(Pieces))
      BY <3>1, ElementOfSeq
    <3> QED
      BY <3>1, <3>2, Divided
  <2>7. Holds(Insert(urlArgMap, <<Key(r.args[k]), Value(r.args[k])>>), r, k)
    BY <2>3, <2>4, ArgumentHeld
  <2>8. CASE k # n
    <3>1. k \in 1..(n - 1)
      BY <2>4, <2>8
    <3>2. f = m + e /\ m + e # npos
      BY <2>3, <3>1, ArgumentEnds
    <3>3. w = t
      <4> HIDE DEF f, t, e
      <4>1. w = SubSeq(s_vpath, m + at[k], (m + e) - 1)
        BY <2>3, <3>2
      <4> QED
        BY <2>5, <4>1
    <3> HIDE DEF f, w
    <3>4. stage' = "arguments" /\ pos2' = f + 1 /\ urlArgMap' = Insert(urlArgMap, DivideArgument(w))
      BY <1>1, <3>2
    <3>5. Holds(urlArgMap', r, k)
      BY <2>6, <2>7, <3>3, <3>4, Zenon
    <3>6. at[k + 1] = e + 1
      BY <2>3, <3>1 DEF Close
    <3> HIDE DEF a, e, n
    <3>7. pos2' = m + at[k + 1]
      BY <2>4, <3>2, <3>4, <3>6
    <3>8. k + 1 \in 1..n /\ (k + 1) - 1 = k
      BY <2>4, <3>1
    <3>9. Holds(urlArgMap', r, (k + 1) - 1)
      BY <3>5, <3>8, Zenon
    <3>10. Arguing(s_vpath, urlArgMap', pos2', r)
      BY <2>3, <3>7, <3>8, <3>9, Zenon DEF Arguing, a, n
    <3> QED
      BY <1>1, <2>1, <3>4, <3>10 DEF Reads
  <2>9. CASE k = n
    <3>1. FindFrom(Amp, s_vpath, m + at[n]) = npos
          /\ (m + EndOf(r.args, at, n)) - 1 = Len(s_vpath)
      <4>1. Listing(s_vpath, a, q, r.args, at)
        BY <2>3
      <4> HIDE DEF a, r
      <4> QED
        BY <4>1, ArgumentLast
    <3>2. f = npos
      <4>1. pos2 = m + at[n]
        BY <2>3, <2>9, Zenon
      <4> QED
        BY <3>1, <4>1, Zenon
    <3>3. (m + e) - 1 = Len(s_vpath)
      BY <2>9, <3>1, Zenon
    <3>4. w = t
      <4> HIDE DEF f, t, e
      <4>1. w = SubSeq(s_vpath, m + at[k], Len(s_vpath))
        BY <2>3, <3>2 DEF From
      <4> QED
        BY <2>5, <3>3, <4>1
    <3> HIDE DEF f, w
    <3>5. stage' = "parsed" /\ urlArgMap' = Insert(urlArgMap, DivideArgument(w))
      BY <1>1, <3>2
    <3>6. Holds(urlArgMap', r, n)
      BY <2>6, <2>7, <2>9, <3>4, <3>5, Zenon
    <3> QED
      BY <1>1, <2>1, <3>5, <3>6 DEF Reads
  <2> QED
    BY <2>8, <2>9
<1> HIDE DEF f, w, a
<1> QED
  BY <1>1, <1>2, <1>3, <1>4 DEF QueryInv

(* every step keeps it,                                                     *)
LEMMA QueryStepInv == QueryInv /\ [QueryNext]_queryVars => QueryInv'
<1> SUFFICES ASSUME QueryInv, [QueryNext]_queryVars
             PROVE  QueryInv'
  OBVIOUS
<1>1. ASSUME NEW r \in Requests, ReadTarget(r) PROVE QueryInv'
  BY <1>1, ReadTargetInv
<1>2. CASE DropHost
  BY <1>2, DropHostInv
<1>3. CASE EraseFront
  BY <1>3, EraseFrontInv
<1>4. CASE ReplaceEntity
  BY <1>4, ReplaceEntityInv
<1>5. CASE ParseUrl
  BY <1>5, ParseUrlInv
<1>6. CASE ParseArgument
  BY <1>6, ParseArgumentInv
<1>7. CASE UNCHANGED queryVars
  BY <1>7 DEF queryVars, QueryInv, Reads, Refuses
<1> QED
  BY <1>1, <1>2, <1>3, <1>4, <1>5, <1>6, <1>7 DEF QueryNext

(* and what is parsed answers the request.                                  *)
LEMMA QueryAnswers == QueryInv => AnswersRequest
<1> SUFFICES ASSUME QueryInv, stage = "parsed", ~ Pathless(request)
             PROVE  IF request.type = request.method
                    THEN Holds(urlArgMap, request, Len(request.args))
                    ELSE urlArgMap = [key \in {VPATH} |-> <<>>]
  BY DEF AnswersRequest
<1> QED
  BY DEF QueryInv, Reads, Refuses

(* The map that get_vpath() and parse_url() make of a request has its path  *)
(* and each key of its arguments with the value it is first given, nothing  *)
(* else and nothing of an earlier request.                                  *)
THEOREM AnswersRequestAlways == QuerySpec => []AnswersRequest
<1>1. QueryInit => QueryInv
  BY QueryInitInv
<1>2. QueryInv /\ [QueryNext]_queryVars => QueryInv'
  BY QueryStepInv
<1>3. QueryInv => AnswersRequest
  BY QueryAnswers
<1> QED
  BY <1>1, <1>2, <1>3, PTL DEF QuerySpec
=============================================================================
