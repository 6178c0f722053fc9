-------------------------- MODULE JsonChannelProofs ---------------------------
(***************************************************************************)
(* What json::read() returns is what json::write() was given, for any      *)
(* messages that fit into the buffer of write(), any keys, and wherever     *)
(* ::read() and ::write() cut the stream.  The invariant gives the reader   *)
(* its place: until a short ::read() loses it, the bytes on their way, and  *)
(* those that are still to be written, are what is missing of the message   *)
(* it is in, followed by the frames of the messages after it.              *)
(***************************************************************************)
EXTENDS JsonChannel, CodecProofs, SequenceTheorems

(* A message that write() does not refuse, and those of them there are.     *)
Sendable == {m \in Seq(Chars) : m # <<>> /\ 4 + Len(m) <= SOCKET_BUFFER_SIZE}
Message == {Messages[k] : k \in DOMAIN Messages} \ {<<>>}

JsonType ==
  /\ encoded \in BOOLEAN /\ timed \in BOOLEAN
  /\ calls \in 0..Len(Messages)
  /\ out \in Seq(Octets)
  /\ wpc \in {"idle", "write", "closed"}
  /\ wpc # "write" => out = <<>>
  /\ wire \in Seq(Octets) /\ Len(wire) <= SndBuf
  /\ broken \in BOOLEAN
  /\ rpc \in {"idle", "header", "body", "closed"}
  /\ length \in Int
  /\ v_data \in Seq(Octets)
  /\ rpc = "header" => v_data = <<>>
  /\ ret \in {"SMOOTH", "TIMEOUT", "CLOSE", "ERROR"}
  /\ sent \in Seq(Sendable \cap Message)
  /\ got \in Seq(Seq(Octets))
  /\ split \in BOOLEAN /\ cut \in BOOLEAN

(* What write() makes of a message for a reader of the same kind.           *)
FrameOf(m, enc) == Header(Len(m)) \o (IF enc THEN encode(m) ELSE m)

(* The frame of m lies in s behind byte p and ends with byte q; p is        *)
(* negative if the reader has had a part of it.                             *)
FrameAt(p, q, s, m, enc) ==
  /\ q = p + 4 + Len(m)
  /\ q <= Len(s)
  /\ \A i \in 1..(4 + Len(m)) : p + i > 0 => s[p + i] = FrameOf(m, enc)[i]

(* The messages ms from the first-th on lie in s one after the other.       *)
Framed(at, s, first, ms, enc) ==
  /\ at \in [Int -> Int]
  /\ at[Len(ms) + 1] = Len(s)
  /\ \A k \in first..Len(ms) : FrameAt(at[k], at[k + 1], s, ms[k], enc)

InStep == ~ (split \/ cut)
Stream == wire \o out
Current == Len(got) + 1

(* The next byte is the first of a frame, or the first that read() does not *)
(* have of the message it is in.                                            *)
Placed ==
  \E at : /\ Framed(at, Stream, Current, sent, encoded)
          /\ at[IF rpc = "body" THEN Current + 1 ELSE Current] = IF rpc = "body" THEN length ELSE 0

(* What read() has of the message it is in.                                 *)
InBody ==
  /\ Len(got) < Len(sent)
  /\ length \in 1..Len(sent[Current])
  /\ encoded => length = Len(sent[Current])
  /\ ~ encoded => /\ Len(v_data) = Len(sent[Current]) - length
                  /\ \A i \in 1..Len(v_data) : v_data[i] = sent[Current][i]

Steady ==
  /\ Len(got) <= Len(sent) /\ \A k \in 1..Len(got) : got[k] = sent[k]
  /\ rpc = "body" => InBody
  /\ rpc = "closed" /\ ret = "CLOSE" => wpc = "closed" /\ got = sent
  /\ rpc # "closed" /\ ~ broken => Placed

JsonInv == JsonType /\ (InStep => Steady)

-----------------------------------------------------------------------------
(* The int behind the bytes of a byte's bits, and the byte behind its int.  *)
LEMMA IntOfByteType ==
  ASSUME NEW b \in Byte
  PROVE  IntOfByte(b) \in 0..255
  BY DEF IntOfByte, Bit

LEMMA ByteOfInt ==
  ASSUME NEW b \in Byte
  PROVE  ByteOf(IntOfByte(b)) = b
<1> DEFINE n == IntOfByte(b)
<1>1. /\ ((n \div 1) % 2 = 1 <=> 0 \in b) /\ ((n \div 2) % 2 = 1 <=> 1 \in b)
      /\ ((n \div 4) % 2 = 1 <=> 2 \in b) /\ ((n \div 8) % 2 = 1 <=> 3 \in b)
  BY DEF IntOfByte, Bit
<1>2. /\ ((n \div 16) % 2 = 1 <=> 4 \in b) /\ ((n \div 32) % 2 = 1 <=> 5 \in b)
      /\ ((n \div 64) % 2 = 1 <=> 6 \in b) /\ ((n \div 128) % 2 = 1 <=> 7 \in b)
  BY DEF IntOfByte, Bit
<1> HIDE DEF n
<1>3. ASSUME NEW j \in 0..7 PROVE (n \div 2^j) % 2 = 1 <=> j \in b
  <2>0. CASE j = 0
    BY <1>1, <2>0, PowersOf2
  <2>1. CASE j = 1
    BY <1>1, <2>1, PowersOf2
  <2>2. CASE j = 2
    BY <1>1, <2>2, PowersOf2
  <2>3. CASE j = 3
    BY <1>1, <2>3, PowersOf2
  <2>4. CASE j = 4
    BY <1>2, <2>4, PowersOf2
  <2>5. CASE j = 5
    BY <1>2, <2>5, PowersOf2
  <2>6. CASE j = 6
    BY <1>2, <2>6, PowersOf2
  <2>7. CASE j = 7
    BY <1>2, <2>7, PowersOf2
  <2> QED
    BY <2>0, <2>1, <2>2, <2>3, <2>4, <2>5, <2>6, <2>7
<1>4. ByteOf(n) = b
  BY <1>3 DEF ByteOf, Byte, Bits
<1> QED
  BY <1>4 DEF n

LEMMA IntOfByteOf ==
  ASSUME NEW n \in 0..255
  PROVE  IntOfByte(ByteOf(n)) = n
<1>0. Bit(ByteOf(n), 0) = (n \div 1) % 2
  <2>1. 0 \in ByteOf(n) <=> (n \div 1) % 2 = 1
    BY PowersOf2 DEF ByteOf, Bits
  <2> QED
    BY <2>1 DEF Bit
<1>1. Bit(ByteOf(n), 1) = (n \div 2) % 2
  <2>1. 1 \in ByteOf(n) <=> (n \div 2) % 2 = 1
    BY PowersOf2 DEF ByteOf, Bits
  <2> QED
    BY <2>1 DEF Bit
<1>2. Bit(ByteOf(n), 2) = (n \div 4) % 2
  <2>1. 2 \in ByteOf(n) <=> (n \div 4) % 2 = 1
    BY PowersOf2 DEF ByteOf, Bits
  <2> QED
    BY <2>1 DEF Bit
<1>3. Bit(ByteOf(n), 3) = (n \div 8) % 2
  <2>1. 3 \in ByteOf(n) <=> (n \div 8) % 2 = 1
    BY PowersOf2 DEF ByteOf, Bits
  <2> QED
    BY <2>1 DEF Bit
<1>4. Bit(ByteOf(n), 4) = (n \div 16) % 2
  <2>1. 4 \in ByteOf(n) <=> (n \div 16) % 2 = 1
    BY PowersOf2 DEF ByteOf, Bits
  <2> QED
    BY <2>1 DEF Bit
<1>5. Bit(ByteOf(n), 5) = (n \div 32) % 2
  <2>1. 5 \in ByteOf(n) <=> (n \div 32) % 2 = 1
    BY PowersOf2 DEF ByteOf, Bits
  <2> QED
    BY <2>1 DEF Bit
<1>6. Bit(ByteOf(n), 6) = (n \div 64) % 2
  <2>1. 6 \in ByteOf(n) <=> (n \div 64) % 2 = 1
    BY PowersOf2 DEF ByteOf, Bits
  <2> QED
    BY <2>1 DEF Bit
<1>7. Bit(ByteOf(n), 7) = (n \div 128) % 2
  <2>1. 7 \in ByteOf(n) <=> (n \div 128) % 2 = 1
    BY PowersOf2 DEF ByteOf, Bits
  <2> QED
    BY <2>1 DEF Bit
<1>8. n = ((n \div 1) % 2) + 2 * ((n \div 2) % 2) + 4 * ((n \div 4) % 2) + 8 * ((n \div 8) % 2) +
          16 * ((n \div 16) % 2) + 32 * ((n \div 32) % 2) + 64 * ((n \div 64) % 2) +
          128 * ((n \div 128) % 2)
  <2>1. /\ n = ((n \div 1) % 2) + 2 * (n \div 2)
        /\ n \div 2 = ((n \div 2) % 2) + 2 * (n \div 4)
    OBVIOUS
  <2>2. /\ n \div 4 = ((n \div 4) % 2) + 2 * (n \div 8)
        /\ n \div 8 = ((n \div 8) % 2) + 2 * (n \div 16)
    OBVIOUS
  <2>3. /\ n \div 16 = ((n \div 16) % 2) + 2 * (n \div 32)
        /\ n \div 32 = ((n \div 32) % 2) + 2 * (n \div 64)
    OBVIOUS
  <2>4. /\ n \div 64 = ((n \div 64) % 2) + 2 * (n \div 128)
        /\ n \div 128 = (n \div 128) % 2
    OBVIOUS
  <2> QED
    BY <2>1, <2>2, <2>3, <2>4
<1> QED
  BY <1>0, <1>1, <1>2, <1>3, <1>4, <1>5, <1>6, <1>7, <1>8 DEF IntOfByte

(* read_decoded() of a byte that write_encoded() wrote.                     *)
LEMMA CodedByte ==
  ASSUME NEW n \in Octets, NEW x
  PROVE  /\ IntOfByte(EncodeByte(ByteOf(n), x, encode_key)) \in Octets
         /\ IntOfByte(DecodeByte(ByteOf(n), x, decode_key)) \in Octets
         /\ IntOfByte(DecodeByte(ByteOf(IntOfByte(EncodeByte(ByteOf(n), x, encode_key))),
                                 x, decode_key)) = n
<1>1. ByteOf(n) \in Byte
  BY ByteOfType
<1>2. /\ EncodeByte(ByteOf(n), x, encode_key) \in Byte
      /\ DecodeByte(ByteOf(n), x, decode_key) \in Byte
  BY <1>1, ByteOps
<1>3. encode_key \in 0..7 /\ decode_key \in 0..7 /\ (encode_key + decode_key) % 8 = 0
  BY KeyAssumption
<1>4. DecodeByte(EncodeByte(ByteOf(n), x, encode_key), x, decode_key) = ByteOf(n)
  BY <1>1, <1>3, RoundTripByte
<1>5. ByteOf(IntOfByte(EncodeByte(ByteOf(n), x, encode_key))) = EncodeByte(ByteOf(n), x, encode_key)
  BY <1>2, ByteOfInt
<1>6. IntOfByte(ByteOf(n)) = n
  BY IntOfByteOf DEF Octets
<1> QED
  BY <1>2, <1>4, <1>5, <1>6, IntOfByteType DEF Octets

(* The same of a string.                                                    *)
LEMMA CodeTypes ==
  ASSUME NEW s \in Seq(Octets)
  PROVE  /\ encode(s) \in Seq(Octets) /\ Len(encode(s)) = Len(s)
         /\ decode(s) \in Seq(Octets) /\ Len(decode(s)) = Len(s)
<1>1. Len(s) \in Nat /\ \A k \in 1..Len(s) : s[k] \in Octets
  OBVIOUS
<1>2. \A k \in 1..Len(s) :
        /\ IntOfByte(EncodeByte(ByteOf(s[k]), keystream[k], encode_key)) \in Octets
        /\ IntOfByte(DecodeByte(ByteOf(s[k]), keystream[k], decode_key)) \in Octets
  BY <1>1, CodedByte
<1>3. encode(s) \in Seq(Octets) /\ Len(encode(s)) = Len(s)
  BY <1>1, <1>2 DEF encode
<1>4. decode(s) \in Seq(Octets) /\ Len(decode(s)) = Len(s)
  BY <1>1, <1>2 DEF decode
<1> QED
  BY <1>3, <1>4

LEMMA DecodeEncode ==
  ASSUME NEW s \in Seq(Octets)
  PROVE  decode(encode(s)) = s
<1>1. /\ encode(s) \in Seq(Octets) /\ Len(encode(s)) = Len(s)
      /\ decode(encode(s)) \in Seq(Octets) /\ Len(decode(encode(s))) = Len(s)
  BY CodeTypes
<1>2. ASSUME NEW k \in 1..Len(s) PROVE decode(encode(s))[k] = s[k]
  <2>1. encode(s)[k] = IntOfByte(EncodeByte(ByteOf(s[k]), keystream[k], encode_key))
    BY DEF encode
  <2>2. decode(encode(s))[k] = IntOfByte(DecodeByte(ByteOf(encode(s)[k]), keystream[k], decode_key))
    BY <1>1 DEF decode
  <2>3. s[k] \in Octets
    OBVIOUS
  <2> QED
    BY <2>1, <2>2, <2>3, CodedByte
<1> QED
  BY <1>1, <1>2, SeqEqual

(* The buffer of write(), and the length of a frame, which is read back as   *)
(* it was written.                                                          *)
LEMMA BufferSize == SOCKET_BUFFER_SIZE \in Nat /\ SOCKET_BUFFER_SIZE < 16777216
  BY DEF SOCKET_BUFFER_SIZE

LEMMA HeaderBack ==
  ASSUME NEW n \in 0..SOCKET_BUFFER_SIZE
  PROVE  /\ Header(n) \in Seq(Octets) /\ Len(Header(n)) = 4
         /\ IntOf(Header(n)) = n
<1>1. n \in Nat /\ n < 16777216
  BY BufferSize
<1>2. Header(n)[1] = (n \div 1) % 256
  BY PowersOf256 DEF Header
<1>3. Header(n)[2] = (n \div 256) % 256
  BY PowersOf256 DEF Header
<1>4. Header(n)[3] = (n \div 65536) % 256
  BY PowersOf256 DEF Header
<1>5. Header(n)[4] = (n \div 16777216) % 256
  BY PowersOf256 DEF Header
<1>6. ASSUME NEW k \in 1..4 PROVE (n \div 256^(k - 1)) % 256 \in Octets
  <2>1. \A d \in Nat \ {0} : (n \div d) % 256 \in Octets
    BY <1>1 DEF Octets
  <2>2. CASE k = 1
    BY <2>1, <2>2, PowersOf256
  <2>3. CASE k = 2
    BY <2>1, <2>3, PowersOf256
  <2>4. CASE k = 3
    BY <2>1, <2>4, PowersOf256
  <2>5. CASE k = 4
    BY <2>1, <2>5, PowersOf256
  <2> QED
    BY <2>2, <2>3, <2>4, <2>5
<1>7. Header(n) \in Seq(Octets) /\ Len(Header(n)) = 4
  BY <1>6 DEF Header
<1>8. /\ n = ((n \div 1) % 256) + 256 * ((n \div 256) % 256) + 65536 * ((n \div 65536) % 256)
             + 16777216 * ((n \div 16777216) % 256)
      /\ (n \div 16777216) % 256 < 128
  <2>1. n \div 16777216 = 0 /\ n \div 65536 < 256
    BY <1>1
  <2>2. /\ n = ((n \div 1) % 256) + 256 * (n \div 256)
        /\ n \div 256 = ((n \div 256) % 256) + 256 * (n \div 65536)
    BY <1>1
  <2>3. (n \div 65536) % 256 = n \div 65536 /\ (n \div 16777216) % 256 = 0
    BY <1>1, <2>1
  <2> QED
    BY <1>1, <2>1, <2>2, <2>3
<1>9. IntOf(Header(n)) = n
  BY <1>2, <1>3, <1>4, <1>5, <1>8 DEF IntOf
<1> QED
  BY <1>7, <1>9

(* A sequence of few values is one of more.                                 *)
LEMMA SeqOf ==
  ASSUME NEW S, NEW T, S \subseteq T, NEW s \in Seq(S)
  PROVE  s \in Seq(T)
  OBVIOUS

(* One sequence behind another.                                             *)
LEMMA Joined ==
  ASSUME NEW s \in Seq(Octets), NEW t \in Seq(Octets)
  PROVE  /\ s \o t \in Seq(Octets)
         /\ Len(s \o t) = Len(s) + Len(t) /\ Len(s) \in Nat /\ Len(t) \in Nat
         /\ \A i \in 1..Len(s) : (s \o t)[i] = s[i]
         /\ \A i \in 1..Len(t) : (s \o t)[Len(s) + i] = t[i]
  OBVIOUS

LEMMA Associative ==
  ASSUME NEW s \in Seq(Octets), NEW t \in Seq(Octets), NEW u \in Seq(Octets)
  PROVE  (s \o t) \o u = s \o (t \o u)
  BY ConcatAssociative

(* A frame is the length, then the message or its code.                     *)
LEMMA FrameParts ==
  ASSUME NEW m \in Sendable, NEW enc \in BOOLEAN
  PROVE  /\ FrameOf(m, enc) \in Seq(Octets) /\ Len(FrameOf(m, enc)) = 4 + Len(m)
         /\ \A i \in 1..4 : FrameOf(m, enc)[i] = Header(Len(m))[i]
         /\ \A i \in 1..Len(m) : FrameOf(m, enc)[4 + i] = IF enc THEN encode(m)[i] ELSE m[i]
         /\ Len(m) \in 1..SOCKET_BUFFER_SIZE /\ m \in Seq(Octets)
<1> DEFINE h == Header(Len(m))
           b == IF enc THEN encode(m) ELSE m
<1>1. m \in Seq(Chars) /\ m # <<>> /\ 4 + Len(m) <= SOCKET_BUFFER_SIZE
  BY DEF Sendable
<1>2. m \in Seq(Octets)
  BY <1>1, SeqOf DEF Octets, Chars
<1>3. SOCKET_BUFFER_SIZE \in Nat
  BY BufferSize
<1>4. Len(m) \in 1..SOCKET_BUFFER_SIZE
  BY <1>1, <1>3, EmptySeq
<1>5. h \in Seq(Octets) /\ Len(h) = 4
  BY <1>3, <1>4, HeaderBack
<1>6. b \in Seq(Octets) /\ Len(b) = Len(m)
  BY <1>2, CodeTypes
<1>7. FrameOf(m, enc) = h \o b
  BY DEF FrameOf
<1> HIDE DEF h, b
<1>8. /\ h \o b \in Seq(Octets) /\ Len(h \o b) = Len(h) + Len(b)
      /\ \A i \in 1..Len(h) : (h \o b)[i] = h[i]
      /\ \A i \in 1..Len(b) : (h \o b)[Len(h) + i] = b[i]
  BY <1>5, <1>6, Joined
<1>9. \A i \in 1..4 : FrameOf(m, enc)[i] = h[i]
  BY <1>5, <1>7, <1>8
<1>10. \A i \in 1..Len(m) : FrameOf(m, enc)[4 + i] = b[i]
  BY <1>5, <1>6, <1>7, <1>8
<1>11. FrameOf(m, enc) \in Seq(Octets) /\ Len(FrameOf(m, enc)) = 4 + Len(m)
  BY <1>5, <1>6, <1>7, <1>8
<1> QED
  BY <1>2, <1>4, <1>9, <1>10, <1>11 DEF h, b

(* What ::read() leaves in the connection.                                  *)
LEMMA Drop ==
  ASSUME NEW w \in Seq(Octets), NEW o \in Seq(Octets), NEW n \in 1..Len(w)
  PROVE  /\ SubSeq(w, n + 1, Len(w)) \in Seq(Octets)
         /\ Len(SubSeq(w, n + 1, Len(w))) = Len(w) - n
         /\ w \o o \in Seq(Octets) /\ Len(w \o o) = Len(w) + Len(o)
         /\ Len(SubSeq(w, n + 1, Len(w)) \o o) = Len(w \o o) - n
         /\ \A i \in 1..(Len(w \o o) - n) : (SubSeq(w, n + 1, Len(w)) \o o)[i] = (w \o o)[i + n]
<1> DEFINE r == SubSeq(w, n + 1, Len(w))
<1>1. Len(w) \in Nat /\ Len(o) \in Nat
  OBVIOUS
<1>2. \A i \in (n + 1)..Len(w) : w[i] \in Octets
  OBVIOUS
<1>3. r \in Seq(Octets) /\ Len(r) = Len(w) - n /\ \A i \in 1..(Len(w) - n) : r[i] = w[i + n]
  BY <1>1, <1>2, SubSeqProperties
<1> HIDE DEF r
<1>4. /\ w \o o \in Seq(Octets) /\ Len(w \o o) = Len(w) + Len(o)
      /\ \A i \in 1..(Len(w) + Len(o)) : (w \o o)[i] = IF i <= Len(w) THEN w[i] ELSE o[i - Len(w)]
  BY ConcatProperties
<1>5. /\ Len(r \o o) = Len(r) + Len(o)
      /\ \A i \in 1..(Len(r) + Len(o)) : (r \o o)[i] = IF i <= Len(r) THEN r[i] ELSE o[i - Len(r)]
  BY <1>3, ConcatProperties
<1>6. ASSUME NEW i \in 1..(Len(w \o o) - n) PROVE (r \o o)[i] = (w \o o)[i + n]
  <2>1. (r \o o)[i] = IF i <= Len(r) THEN r[i] ELSE o[i - Len(r)]
    BY <1>1, <1>3, <1>4, <1>5
  <2>2. (w \o o)[i + n] = IF i + n <= Len(w) THEN w[i + n] ELSE o[i + n - Len(w)]
    BY <1>1, <1>4
  <2>3. i + n - Len(w) = i - Len(r)
    BY <1>1, <1>3
  <2> QED
    BY <1>1, <1>3, <2>1, <2>2, <2>3
<1>7. Len(r \o o) = Len(w \o o) - n
  BY <1>1, <1>3, <1>4, <1>5
<1> QED
  BY <1>3, <1>4, <1>6, <1>7 DEF r

(* A frame moves forward with what is read in front of it, or of it.        *)
LEMMA FrameForward ==
  ASSUME NEW p \in Int, NEW q \in Int, NEW s \in Seq(Octets), NEW t, NEW m \in Sendable,
         NEW enc, NEW n \in Nat, FrameAt(p, q, s, m, enc),
         Len(t) = Len(s) - n, \A i \in 1..(Len(s) - n) : t[i] = s[i + n]
  PROVE  FrameAt(p - n, q - n, t, m, enc)
<1>1. Len(m) \in Nat /\ Len(s) \in Nat
  BY DEF Sendable
<1>2. q = p + 4 + Len(m) /\ q <= Len(s)
  BY DEF FrameAt
<1>3. ASSUME NEW i \in 1..(4 + Len(m)), (p - n) + i > 0
      PROVE  t[(p - n) + i] = FrameOf(m, enc)[i]
  <2>1. (p - n) + i \in 1..(Len(s) - n) /\ ((p - n) + i) + n = p + i /\ p + i > 0
    BY <1>1, <1>2, <1>3
  <2>2. t[(p - n) + i] = s[p + i]
    BY <2>1
  <2>3. s[p + i] = FrameOf(m, enc)[i]
    BY <2>1 DEF FrameAt
  <2> QED
    BY <2>2, <2>3
<1>4. q - n = (p - n) + 4 + Len(m) /\ q - n <= Len(t)
  BY <1>1, <1>2
<1> QED
  BY <1>3, <1>4 DEF FrameAt

(* One more frame is handed to net::write(), behind the others.             *)
LEMMA FrameBefore ==
  ASSUME NEW p \in Int, NEW q \in Int, NEW s \in Seq(Octets), NEW t \in Seq(Octets),
         NEW m \in Sendable, NEW enc, FrameAt(p, q, s, m, enc)
  PROVE  FrameAt(p, q, s \o t, m, enc)
<1>1. Len(m) \in Nat /\ Len(s) \in Nat /\ Len(t) \in Nat
  BY DEF Sendable
<1>2. q = p + 4 + Len(m) /\ q <= Len(s)
  BY DEF FrameAt
<1>3. Len(s \o t) = Len(s) + Len(t) /\ \A i \in 1..Len(s) : (s \o t)[i] = s[i]
  OBVIOUS
<1>4. ASSUME NEW i \in 1..(4 + Len(m)), p + i > 0 PROVE (s \o t)[p + i] = FrameOf(m, enc)[i]
  <2>1. p + i \in 1..Len(s)
    BY <1>1, <1>2, <1>4
  <2> QED
    BY <1>3, <1>4, <2>1 DEF FrameAt
<1> QED
  BY <1>1, <1>2, <1>3, <1>4 DEF FrameAt

LEMMA FrameLast ==
  ASSUME NEW s \in Seq(Octets), NEW m \in Sendable, NEW enc \in BOOLEAN
  PROVE  /\ FrameAt(Len(s), Len(s) + 4 + Len(m), s \o FrameOf(m, enc), m, enc)
         /\ Len(s \o FrameOf(m, enc)) = Len(s) + 4 + Len(m)
<1> DEFINE f == FrameOf(m, enc)
<1>1. f \in Seq(Octets) /\ Len(f) = 4 + Len(m) /\ Len(m) \in Nat /\ Len(s) \in Nat
  <2>1. Len(m) \in Nat
    BY DEF Sendable
  <2> QED
    BY <2>1, FrameParts
<1> HIDE DEF f
<1>2. /\ Len(s \o f) = Len(s) + Len(f)
      /\ \A i \in 1..Len(f) : (s \o f)[Len(s) + i] = f[i]
  BY <1>1
<1>4. Len(s \o f) = Len(s) + 4 + Len(m)
  BY <1>1, <1>2
<1>5. \A i \in 1..(4 + Len(m)) : Len(s) + i > 0 => (s \o f)[Len(s) + i] = f[i]
  BY <1>1, <1>2
<1> QED
  BY <1>1, <1>4, <1>5 DEF FrameAt, f

LEMMA Behind ==
  ASSUME NEW at, NEW s \in Seq(Octets), NEW first \in Nat \ {0}, NEW ms \in Seq(Sendable),
         NEW enc \in BOOLEAN, NEW m \in Sendable, Framed(at, s, first, ms, enc)
  PROVE  Framed([at EXCEPT ![Len(ms) + 2] = Len(s) + 4 + Len(m)],
                s \o FrameOf(m, enc), first, Append(ms, m), enc)
<1> DEFINE at2 == [at EXCEPT ![Len(ms) + 2] = Len(s) + 4 + Len(m)]
           t == s \o FrameOf(m, enc)
           ms2 == Append(ms, m)
<1>1. at \in [Int -> Int] /\ at[Len(ms) + 1] = Len(s)
  BY DEF Framed
<1>2. Len(ms) \in Nat /\ Len(s) \in Nat /\ Len(m) \in Nat
  BY DEF Sendable
<1>3. /\ Len(ms2) = Len(ms) + 1 /\ ms2[Len(ms) + 1] = m
      /\ \A k \in 1..Len(ms) : ms2[k] = ms[k]
  OBVIOUS
<1>4. /\ at2 \in [Int -> Int] /\ at2[Len(ms) + 2] = Len(s) + 4 + Len(m)
      /\ \A k \in Int : k # Len(ms) + 2 => at2[k] = at[k]
  BY <1>1, <1>2
<1>5. FrameAt(Len(s), Len(s) + 4 + Len(m), t, m, enc) /\ Len(t) = Len(s) + 4 + Len(m)
  BY FrameLast
<1>6. FrameOf(m, enc) \in Seq(Octets)
  BY FrameParts
<1>7. ASSUME NEW k \in first..Len(ms) PROVE FrameAt(at[k], at[k + 1], t, ms[k], enc)
  <2>1. FrameAt(at[k], at[k + 1], s, ms[k], enc)
    BY DEF Framed
  <2>2. k \in Int /\ k + 1 \in Int /\ k \in 1..Len(ms)
    BY <1>2
  <2>3. at[k] \in Int /\ at[k + 1] \in Int
    BY <1>1, <2>2
  <2>4. ms[k] \in Sendable
    BY <2>2, ElementOfSeq
  <2> QED
    BY <1>6, <2>1, <2>3, <2>4, FrameBefore
<1> HIDE DEF at2, t, ms2
<1>8. ASSUME NEW k \in first..Len(ms2) PROVE FrameAt(at2[k], at2[k + 1], t, ms2[k], enc)
  <2>1. k \in Int /\ k + 1 \in Int /\ k >= 1 /\ k <= Len(ms) + 1
    BY <1>2, <1>3
  <2>2. CASE k = Len(ms) + 1
    <3>1. at2[k] = Len(s) /\ at2[k + 1] = Len(s) + 4 + Len(m) /\ ms2[k] = m
      <4>1. k + 1 = Len(ms) + 2 /\ k # Len(ms) + 2
        BY <1>2, <2>2
      <4> QED
        BY <1>1, <1>3, <1>4, <2>1, <2>2, <4>1
    <3> QED
      BY <1>5, <3>1
  <2>3. CASE k # Len(ms) + 1
    <3>1. k \in first..Len(ms) /\ k \in 1..Len(ms) /\ k # Len(ms) + 2 /\ k + 1 # Len(ms) + 2
      BY <1>2, <2>1, <2>3
    <3>2. at2[k] = at[k] /\ at2[k + 1] = at[k + 1] /\ ms2[k] = ms[k]
      BY <1>3, <1>4, <2>1, <3>1
    <3> QED
      BY <1>7, <3>1, <3>2
  <2> QED
    BY <2>2, <2>3
<1>9. at2[Len(ms2) + 1] = Len(t)
  <2>1. Len(ms2) + 1 = Len(ms) + 2
    BY <1>2, <1>3
  <2> QED
    BY <1>4, <1>5, <2>1
<1> QED
  BY <1>4, <1>8, <1>9 DEF Framed, at2, t, ms2

-----------------------------------------------------------------------------
(* What is passed to write() and not refused.                               *)
LEMMA Handed ==
  ASSUME JsonType, Write
  PROVE  /\ Messages[calls + 1] \in Sendable \cap Message
         /\ calls + 1 \in 0..Len(Messages)
         /\ out' = FrameOf(Messages[calls + 1], encoded) /\ out' \in Seq(Octets)
<1> DEFINE m == Messages[calls + 1]
<1>1. Messages \in Seq(Seq(Chars)) /\ Len(Messages) \in Nat /\ DOMAIN Messages = 1..Len(Messages)
  BY ChannelAssumption
<1>2. calls + 1 \in 1..Len(Messages) /\ m # <<>>
  BY <1>1 DEF JsonType, Write
<1>3. m \in Seq(Chars)
  BY <1>1, <1>2, ElementOfSeq
<1>4. 4 + Len(m) <= SOCKET_BUFFER_SIZE
  BY <1>1, <1>2, ChannelAssumption
<1>5. m \in Sendable \cap Message
  BY <1>1, <1>2, <1>3, <1>4 DEF Sendable, Message
<1>6. out' = FrameOf(m, encoded) /\ encoded \in BOOLEAN
  BY DEF Write, Frame, FrameOf, JsonType
<1>7. out' \in Seq(Octets)
  BY <1>5, <1>6, FrameParts
<1> QED
  BY <1>1, <1>2, <1>5, <1>6, <1>7

(* What ::read() of n bytes takes and leaves.                               *)
LEMMA Taken ==
  ASSUME JsonType, NEW n \in 1..Len(wire)
  PROVE  /\ SubSeq(wire, 1, n) \in Seq(Octets) /\ Len(SubSeq(wire, 1, n)) = n
         /\ \A i \in 1..n : SubSeq(wire, 1, n)[i] = wire[i]
         /\ SubSeq(wire, n + 1, Len(wire)) \in Seq(Octets)
         /\ Len(SubSeq(wire, n + 1, Len(wire))) = Len(wire) - n
<1>1. wire \in Seq(Octets)
  BY DEF JsonType
<1>2. Len(wire) \in Nat
  BY <1>1, LenProperties
<1>3. \A i \in 1..Len(wire) : wire[i] \in Octets
  BY <1>1
<1>4. /\ SubSeq(wire, 1, n) \in Seq(Octets) /\ Len(SubSeq(wire, 1, n)) = n
      /\ \A i \in 1..n : SubSeq(wire, 1, n)[i] = wire[i]
  <2>1. \A i \in 1..n : wire[i] \in Octets
    BY <1>2, <1>3
  <2> QED
    BY <1>2, <2>1, SubSeqProperties
<1>5. /\ SubSeq(wire, n + 1, Len(wire)) \in Seq(Octets)
      /\ Len(SubSeq(wire, n + 1, Len(wire))) = Len(wire) - n
  <2>1. \A i \in (n + 1)..Len(wire) : wire[i] \in Octets
    BY <1>2, <1>3
  <2> QED
    BY <1>2, <2>1, SubSeqProperties
<1> QED
  BY <1>4, <1>5

(* ... and what ::write() does with the rest of a frame.                    *)
LEMMA Given ==
  ASSUME JsonType, NEW n \in 1..Len(out)
  PROVE  /\ SubSeq(out, 1, n) \in Seq(Octets) /\ Len(SubSeq(out, 1, n)) = n
         /\ SubSeq(out, n + 1, Len(out)) \in Seq(Octets)
         /\ wire \o SubSeq(out, 1, n) \in Seq(Octets)
         /\ Len(wire \o SubSeq(out, 1, n)) = Len(wire) + n
         /\ (wire \o SubSeq(out, 1, n)) \o SubSeq(out, n + 1, Len(out)) = wire \o out
<1> DEFINE a == SubSeq(out, 1, n)
           b == SubSeq(out, n + 1, Len(out))
<1>1. wire \in Seq(Octets) /\ out \in Seq(Octets)
  BY DEF JsonType
<1>2. Len(out) \in Nat /\ Len(wire) \in Nat
  BY <1>1, LenProperties
<1>3. \A i \in 1..Len(out) : out[i] \in Octets
  BY <1>1
<1>4. a \in Seq(Octets) /\ Len(a) = n
  <2>1. \A i \in 1..n : out[i] \in Octets
    BY <1>2, <1>3
  <2> QED
    BY <1>2, <2>1, SubSeqProperties
<1>5. b \in Seq(Octets)
  <2>1. \A i \in (n + 1)..Len(out) : out[i] \in Octets
    BY <1>2, <1>3
  <2> QED
    BY <1>2, <2>1, SubSeqProperties
<1>6. a \o b = out
  <2>1. SubSeq(out, 1, n) \o SubSeq(out, n + 1, Len(out)) = SubSeq(out, 1, Len(out))
    <3>1. 1 \in 1..(Len(out) + 1) /\ n \in (1 - 1)..Len(out) /\ Len(out) \in n..Len(out)
      BY <1>2
    <3> QED
      BY <1>1, <3>1, ConcatAdjacentSubSeq
  <2>2. SubSeq(out, 1, Len(out)) = out
    BY <1>1, SubSeqFull
  <2> QED
    BY <2>1, <2>2, Zenon
<1> HIDE DEF a, b
<1>7. wire \o a \in Seq(Octets) /\ Len(wire \o a) = Len(wire) + n
  BY <1>1, <1>4, Joined
<1>8. (wire \o a) \o b = wire \o (a \o b)
  <2>1. a \in Seq(Octets) /\ b \in Seq(Octets)
    BY <1>4, <1>5
  <2> QED
    BY <1>1, <2>1, Associative
<1>9. (wire \o a) \o b = wire \o out
  BY <1>6, <1>8
<1>10. /\ SubSeq(out, 1, n) \in Seq(Octets) /\ Len(SubSeq(out, 1, n)) = n
       /\ SubSeq(out, n + 1, Len(out)) \in Seq(Octets)
  BY <1>4, <1>5 DEF a, b
<1>11. /\ wire \o SubSeq(out, 1, n) \in Seq(Octets)
       /\ Len(wire \o SubSeq(out, 1, n)) = Len(wire) + n
  BY <1>7 DEF a
<1>12. (wire \o SubSeq(out, 1, n)) \o SubSeq(out, n + 1, Len(out)) = wire \o out
  BY <1>9 DEF a, b
<1> QED
  BY <1>10, <1>11, <1>12

LEMMA TypeStep ==
  ASSUME JsonType, [Next]_vars
  PROVE  JsonType'
<1>1. CASE WriteEmpty
  <2>1. calls + 1 \in 0..Len(Messages)
    <3>1. Len(Messages) \in Nat
      BY ChannelAssumption, LenProperties
    <3>2. calls \in 0..Len(Messages) /\ calls < Len(Messages)
      BY <1>1 DEF WriteEmpty, JsonType
    <3> QED
      BY <3>1, <3>2
  <2> QED
    BY <1>1, <2>1 DEF WriteEmpty, reader, JsonType
<1>2. CASE Write
  <2>1. /\ Messages[calls + 1] \in Sendable \cap Message
        /\ calls + 1 \in 0..Len(Messages)
        /\ out' \in Seq(Octets)
    BY <1>2, Handed
  <2>2. sent' \in Seq(Sendable \cap Message)
    BY <1>2, <2>1, AppendProperties DEF Write, JsonType
  <2> QED
    BY <1>2, <2>1, <2>2 DEF Write, reader, JsonType
<1>3. CASE WriteSome
  <2>1. PICK n \in 1..Len(out) :
          /\ Len(wire) + n <= SndBuf
          /\ wire' = wire \o SubSeq(out, 1, n)
          /\ out' = SubSeq(out, n + 1, Len(out))
    BY <1>3 DEF WriteSome
  <2>2. out' \in Seq(Octets) /\ wire' \in Seq(Octets) /\ Len(wire') <= SndBuf
    BY <2>1, Given
  <2> QED
    BY <1>3, <2>2 DEF WriteSome, reader, JsonType
<1>4. CASE WriteReturn
  BY <1>4 DEF WriteReturn, reader, JsonType
<1>5. CASE WriteError
  <2>1. out' \in Seq(Octets)
    BY <1>5, EmptySeq DEF WriteError
  <2> QED
    BY <1>5, <2>1 DEF WriteError, reader, JsonType
<1>6. CASE WriterCloses
  BY <1>6 DEF WriterCloses, reader, JsonType
<1>7. CASE Reset
  <2>1. wire' \in Seq(Octets) /\ Len(wire') <= SndBuf
    BY <1>7, EmptySeq, ChannelAssumption DEF Reset
  <2> QED
    BY <1>7, <2>1 DEF Reset, reader, writer, JsonType
<1>8. CASE Read
  <2>1. v_data' \in Seq(Octets)
    BY <1>8, EmptySeq DEF Read
  <2> QED
    BY <1>8, <2>1 DEF Read, writer, JsonType
<1>9. CASE SelectTimeout
  BY <1>9 DEF SelectTimeout, Return, writer, JsonType
<1>10. CASE SelectError
  BY <1>10 DEF SelectError, Return, writer, JsonType
<1>11. CASE ReadError
  BY <1>11 DEF ReadError, Return, writer, JsonType
<1>12. CASE ReadZero
  BY <1>12 DEF ReadZero, Return, writer, JsonType
<1>13. CASE ReadHeader
  <2>1. PICK n \in Counts(4) :
          /\ length' = IntOf([k \in 1..4 |-> IF k <= n THEN wire[k] ELSE 0])
          /\ wire' = SubSeq(wire, n + 1, Len(wire))
          /\ split' = (split \/ n < 4)
    BY <1>13 DEF ReadHeader
  <2>2. n \in 1..Len(wire) /\ n \in 1..4
    BY <2>1 DEF Counts
  <2>3. wire' \in Seq(Octets) /\ Len(wire') <= SndBuf
    <3>1. Len(wire') = Len(wire) - n /\ wire' \in Seq(Octets)
      BY <2>1, <2>2, Taken
    <3>2. Len(wire) <= SndBuf /\ Len(wire) \in Nat /\ SndBuf \in Nat
      BY LenProperties, ChannelAssumption DEF JsonType
    <3> QED
      BY <2>2, <3>1, <3>2
  <2>4. length' \in Int
    <3> DEFINE b == [k \in 1..4 |-> IF k <= n THEN wire[k] ELSE 0]
    <3>1. ASSUME NEW k \in 1..4 PROVE b[k] \in Int
      <4>1. k <= n => wire[k] \in Octets
        BY <2>2, LenProperties, ElementOfSeq DEF JsonType
      <4> QED
        BY <4>1 DEF Octets
    <3> HIDE DEF b
    <3>2. b[1] \in Int /\ b[2] \in Int /\ b[3] \in Int /\ b[4] \in Int
      BY <3>1
    <3>3. length' = IntOf(b)
      BY <2>1 DEF b
    <3> QED
      BY <3>2, <3>3 DEF IntOf
  <2> QED
    BY <1>13, <2>1, <2>3, <2>4 DEF ReadHeader, writer, JsonType
<1>14. CASE ReadBody
  <2>1. PICK n \in Counts(length) :
          /\ v_data' = v_data \o SubSeq(wire, 1, n)
          /\ wire' = SubSeq(wire, n + 1, Len(wire))
          /\ length' = length - n
          /\ IF length' > 0
             THEN UNCHANGED <<rpc, ret, got>>
             ELSE Return("SMOOTH") /\ got' = Append(got, v_data')
    BY <1>14 DEF ReadBody
  <2>2. n \in 1..Len(wire)
    BY <2>1 DEF Counts
  <2>3. wire' \in Seq(Octets) /\ Len(wire') <= SndBuf
    <3>1. Len(wire') = Len(wire) - n /\ wire' \in Seq(Octets)
      BY <2>1, <2>2, Taken
    <3>2. Len(wire) <= SndBuf /\ Len(wire) \in Nat /\ SndBuf \in Nat
      BY LenProperties, ChannelAssumption DEF JsonType
    <3> QED
      BY <2>2, <3>1, <3>2
  <2>4. v_data' \in Seq(Octets)
    BY <2>1, <2>2, Taken, Joined DEF JsonType
  <2>5. length' \in Int
    <3>1. length \in Int
      BY DEF JsonType
    <3>2. n \in Int
      BY <2>1 DEF Counts
    <3>3. length' = length - n
      BY <2>1
    <3> QED
      BY <3>1, <3>2, <3>3
  <2>6. got' \in Seq(Seq(Octets)) /\ rpc' \in {"idle", "body"} /\ ret' \in {ret, "SMOOTH"}
    <3>1. got \in Seq(Seq(Octets)) /\ rpc = "body"
      BY <1>14 DEF ReadBody, JsonType
    <3>2. Append(got, v_data') \in Seq(Seq(Octets))
      BY <2>4, <3>1, AppendProperties
    <3>3. CASE length' > 0
      BY <2>1, <3>1, <3>3
    <3>4. CASE ~ (length' > 0)
      BY <2>1, <3>2, <3>4 DEF Return
    <3> QED
      BY <3>3, <3>4
  <2> QED
    BY <1>14, <2>3, <2>4, <2>5, <2>6 DEF ReadBody, writer, JsonType
<1>15. CASE ReadBodyDecoded
  <2>1. PICK n \in Counts(length) :
          /\ v_data' = decode(SubSeq(wire, 1, n))
          /\ wire' = SubSeq(wire, n + 1, Len(wire))
          /\ split' = (split \/ n # length)
    BY <1>15 DEF ReadBodyDecoded
  <2>2. n \in 1..Len(wire)
    BY <2>1 DEF Counts
  <2>3. wire' \in Seq(Octets) /\ Len(wire') <= SndBuf
    <3>1. Len(wire') = Len(wire) - n /\ wire' \in Seq(Octets)
      BY <2>1, <2>2, Taken
    <3>2. Len(wire) <= SndBuf /\ Len(wire) \in Nat /\ SndBuf \in Nat
      BY LenProperties, ChannelAssumption DEF JsonType
    <3> QED
      BY <2>2, <3>1, <3>2
  <2>4. v_data' \in Seq(Octets)
    BY <2>1, <2>2, Taken, CodeTypes
  <2>5. got' \in Seq(Seq(Octets))
    BY <1>15, <2>4, AppendProperties DEF ReadBodyDecoded, JsonType
  <2> QED
    BY <1>15, <2>1, <2>3, <2>4, <2>5 DEF ReadBodyDecoded, Return, writer, JsonType
<1>16. CASE UNCHANGED vars
  BY <1>16 DEF vars, JsonType
<1> QED
  BY <1>1, <1>2, <1>3, <1>4, <1>5, <1>6, <1>7, <1>8, <1>9, <1>10, <1>11, <1>12, <1>13, <1>14, <1>15,
     <1>16 DEF Next, WriterStep, ReaderStep

-----------------------------------------------------------------------------
(* A step that leaves the reader where it is in the stream, or ends.        *)
LEMMA Same ==
  ASSUME Steady, UNCHANGED <<encoded, sent, got>>,
         wpc = "closed" => wpc' = "closed",
         rpc' = "body" => rpc = "body" /\ UNCHANGED <<length, v_data>>,
         rpc' = "closed" /\ ret' = "CLOSE" => rpc = "closed" /\ ret = "CLOSE",
         rpc' # "closed" /\ ~ broken' => /\ rpc # "closed" /\ ~ broken
                                         /\ Stream' = Stream
                                         /\ rpc' = "body" <=> rpc = "body"
  PROVE  Steady'
<1>1. Len(got) <= Len(sent) /\ \A k \in 1..Len(got) : got[k] = sent[k]
  BY DEF Steady
<1>2. rpc' = "body" => InBody'
  <2>1. rpc' = "body" => InBody
    BY DEF Steady
  <2> QED
    BY <2>1 DEF InBody, Current
<1>3. rpc' = "closed" /\ ret' = "CLOSE" => wpc' = "closed" /\ got' = sent'
  BY DEF Steady
<1>4. rpc' # "closed" /\ ~ broken' => Placed'
  <2> SUFFICES ASSUME rpc' # "closed", ~ broken'
               PROVE  Placed'
    OBVIOUS
  <2>1. PICK at : /\ Framed(at, Stream, Current, sent, encoded)
                  /\ at[IF rpc = "body" THEN Current + 1 ELSE Current]
                       = IF rpc = "body" THEN length ELSE 0
    BY DEF Steady, Placed
  <2>2. Current' = Current
    BY DEF Current
  <2>3. Framed(at, Stream', Current', sent', encoded')
    BY <2>1, <2>2
  <2>4. at[IF rpc' = "body" THEN Current' + 1 ELSE Current'] = IF rpc' = "body" THEN length' ELSE 0
    BY <2>1, <2>2
  <2> QED
    BY <2>3, <2>4 DEF Placed
<1> QED
  BY <1>1, <1>2, <1>3, <1>4 DEF Steady

(* write(): the new frame lies behind what is on its way.                   *)
LEMMA SteadyWrite ==
  ASSUME JsonType, Steady, Write
  PROVE  Steady'
<1> DEFINE m == Messages[calls + 1]
<1>1. sent \in Seq(Sendable) /\ got \in Seq(Seq(Octets)) /\ Len(sent) \in Nat /\ Len(got) \in Nat
  <2>1. sent \in Seq(Sendable \cap Message) /\ got \in Seq(Seq(Octets))
    BY DEF JsonType
  <2> QED
    BY <2>1, SeqMonotonic, LenProperties
<1>2. m \in Sendable /\ out' = FrameOf(m, encoded)
  BY Handed
<1>3. sent' = Append(sent, m)
  BY DEF Write
<1> HIDE DEF m
<1>4. Len(sent') = Len(sent) + 1 /\ \A k \in 1..Len(sent) : sent'[k] = sent[k]
  BY <1>1, <1>2, <1>3, AppendProperties
<1>5. /\ UNCHANGED <<encoded, wire, broken, rpc, length, v_data, ret, got>>
      /\ wpc = "idle" /\ out = <<>>
  BY DEF Write, reader, JsonType
<1>6. Len(got') <= Len(sent') /\ \A k \in 1..Len(got') : got'[k] = sent'[k]
  BY <1>1, <1>4, <1>5 DEF Steady
<1>7. rpc' = "body" => InBody'
  <2> SUFFICES ASSUME rpc = "body"
               PROVE  InBody'
    BY <1>5
  <2>1. InBody
    BY DEF Steady
  <2>2. Current' = Current /\ Current \in 1..Len(sent)
    BY <1>1, <1>5, <2>1 DEF Current, InBody
  <2>3. sent'[Current'] = sent[Current]
    BY <1>4, <2>2
  <2> QED
    BY <1>1, <1>4, <1>5, <2>1, <2>3 DEF InBody
<1>8. ~ (rpc' = "closed" /\ ret' = "CLOSE")
  BY <1>5 DEF Steady
<1>9. rpc' # "closed" /\ ~ broken' => Placed'
  <2> SUFFICES ASSUME rpc # "closed", ~ broken
               PROVE  Placed'
    BY <1>5
  <2> DEFINE j == IF rpc = "body" THEN Current + 1 ELSE Current
  <2>1. PICK at : /\ Framed(at, Stream, Current, sent, encoded)
                  /\ at[j] = IF rpc = "body" THEN length ELSE 0
    BY DEF Steady, Placed
  <2> DEFINE at2 == [at EXCEPT ![Len(sent) + 2] = Len(Stream) + 4 + Len(m)]
  <2>2. wire \in Seq(Octets) /\ encoded \in BOOLEAN
    BY DEF JsonType
  <2>3. Stream = wire /\ Stream' = wire \o FrameOf(m, encoded)
    BY <1>2, <1>5, <2>2, ConcatEmptySeq DEF Stream
  <2>4. Current \in Nat \ {0} /\ Current' = Current
    BY <1>1, <1>5 DEF Current
  <2>5. Framed(at2, Stream', Current', sent', encoded')
    <3>1. Framed(at2, Stream \o FrameOf(m, encoded), Current, Append(sent, m), encoded)
      BY <1>1, <1>2, <2>1, <2>2, <2>3, <2>4, Behind
    <3> QED
      BY <1>3, <1>5, <2>3, <2>4, <3>1
  <2>6. j \in Int /\ j # Len(sent) + 2
    BY <1>1, <2>4 DEF Steady, InBody, Current
  <2>7. at2[j] = at[j]
    <3>1. at \in [Int -> Int]
      BY <2>1 DEF Framed
    <3> QED
      BY <2>6, <3>1
  <2>8. at2[IF rpc' = "body" THEN Current' + 1 ELSE Current'] = IF rpc' = "body" THEN length' ELSE 0
    BY <1>5, <2>1, <2>4, <2>7
  <2> HIDE DEF at2
  <2> QED
    BY <2>5, <2>8 DEF Placed
<1> QED
  BY <1>6, <1>7, <1>8, <1>9 DEF Steady

(* What JsonType says of the sequences.                                     *)
LEMMA SeqTypes ==
  ASSUME JsonType
  PROVE  /\ sent \in Seq(Sendable) /\ sent \in Seq(Seq(Octets)) /\ got \in Seq(Seq(Octets))
         /\ Len(sent) \in Nat /\ Len(got) \in Nat /\ encoded \in BOOLEAN
         /\ wire \in Seq(Octets) /\ out \in Seq(Octets) /\ Len(wire) \in Nat
         /\ Stream \in Seq(Octets) /\ Len(Stream) \in Nat /\ Len(wire) <= Len(Stream)
         /\ \A i \in 1..Len(wire) : Stream[i] = wire[i]
<1>1. /\ sent \in Seq(Sendable \cap Message) /\ got \in Seq(Seq(Octets))
      /\ wire \in Seq(Octets) /\ out \in Seq(Octets) /\ encoded \in BOOLEAN
  BY DEF JsonType
<1>2. \A m \in Sendable : m \in Seq(Octets)
  BY FrameParts
<1>3. sent \in Seq(Sendable)
  BY <1>1, SeqMonotonic
<1>4. sent \in Seq(Seq(Octets))
  BY <1>2, <1>3, SeqMonotonic
<1>5. Len(sent) \in Nat /\ Len(got) \in Nat
  BY <1>1, LenProperties
<1>6. /\ wire \o out \in Seq(Octets)
      /\ Len(wire \o out) = Len(wire) + Len(out) /\ Len(wire) \in Nat /\ Len(out) \in Nat
      /\ \A i \in 1..Len(wire) : (wire \o out)[i] = wire[i]
  BY <1>1, Joined
<1>7. /\ Stream \in Seq(Octets) /\ Len(Stream) \in Nat /\ Len(wire) <= Len(Stream)
      /\ \A i \in 1..Len(wire) : Stream[i] = wire[i]
  BY <1>6 DEF Stream
<1> QED
  BY <1>1, <1>3, <1>4, <1>5, <1>6, <1>7

(* Before the length of a message read() is at the end of the stream, or at *)
(* the first byte of the frame of the next message.                         *)
LEMMA AtHeader ==
  ASSUME JsonType, NEW at, Framed(at, Stream, Current, sent, encoded), at[Current] = 0,
         Len(got) <= Len(sent)
  PROVE  \/ Len(got) = Len(sent) /\ Len(Stream) = 0
         \/ /\ Current \in 1..Len(sent) /\ sent[Current] \in Sendable
            /\ FrameAt(0, at[Current + 1], Stream, sent[Current], encoded)
            /\ at[Current + 1] = 4 + Len(sent[Current]) /\ 4 + Len(sent[Current]) <= Len(Stream)
<1>1. CASE Len(got) = Len(sent)
  <2>1. Current = Len(sent) + 1
    BY <1>1 DEF Current
  <2> QED
    BY <1>1, <2>1 DEF Framed
<1>2. CASE Len(got) # Len(sent)
  <2>1. Current \in 1..Len(sent) /\ Current \in Current..Len(sent)
    BY <1>2, SeqTypes DEF Current
  <2>2. FrameAt(0, at[Current + 1], Stream, sent[Current], encoded)
    BY <2>1 DEF Framed
  <2>3. sent[Current] \in Sendable
    BY <2>1, SeqTypes, ElementOfSeq
  <2>4. Len(sent[Current]) \in Nat
    BY <2>3, FrameParts
  <2> QED
    BY <2>1, <2>2, <2>3, <2>4 DEF FrameAt
<1> QED
  BY <1>1, <1>2

(* In a message, the rest of it lies at the start of the stream.            *)
LEMMA AtBody ==
  ASSUME JsonType, InBody,
         NEW at, Framed(at, Stream, Current, sent, encoded), at[Current + 1] = length
  PROVE  /\ Current \in 1..Len(sent) /\ sent[Current] \in Sendable
         /\ length \in 1..Len(sent[Current]) /\ Len(sent[Current]) \in Nat
         /\ length <= Len(Stream)
         /\ \A i \in 1..length : Stream[i] = FrameOf(sent[Current], encoded)
                                               [4 + (Len(sent[Current]) - length) + i]
<1> DEFINE m == sent[Current]
<1>1. Current \in 1..Len(sent) /\ Current \in Current..Len(sent)
  BY SeqTypes DEF Current, InBody
<1>2. FrameAt(at[Current], at[Current + 1], Stream, m, encoded)
  BY <1>1 DEF Framed
<1>3. m \in Sendable
  BY <1>1, SeqTypes, ElementOfSeq
<1>4. Len(m) \in Nat
  BY <1>3, FrameParts
<1>5. length \in 1..Len(m)
  BY DEF InBody
<1>6. at[Current] \in Int
  BY <1>1 DEF Framed
<1> HIDE DEF m
<1>7. at[Current] = length - 4 - Len(m) /\ length <= Len(Stream)
  <2>1. length = at[Current] + 4 + Len(m) /\ length <= Len(Stream)
    BY <1>2 DEF FrameAt
  <2> QED
    BY <1>4, <1>5, <1>6, <2>1
<1>8. ASSUME NEW i \in 1..length
      PROVE  Stream[i] = FrameOf(m, encoded)[4 + (Len(m) - length) + i]
  <2> DEFINE j == 4 + (Len(m) - length) + i
  <2>1. j \in 1..(4 + Len(m)) /\ at[Current] + j = i /\ i > 0
    BY <1>4, <1>5, <1>7
  <2> HIDE DEF j
  <2>2. Stream[at[Current] + j] = FrameOf(m, encoded)[j]
    BY <1>2, <2>1 DEF FrameAt
  <2> QED
    BY <2>1, <2>2 DEF j
<1> QED
  BY <1>1, <1>3, <1>4, <1>5, <1>7, <1>8 DEF m

(* read() is told of the close where the last message ends.                 *)
LEMMA SteadyReadZero ==
  ASSUME JsonType, Steady, ReadZero
  PROVE  Steady'
<1>1. /\ UNCHANGED <<encoded, wpc, sent, wire, out, broken, length, v_data, got>>
      /\ rpc \in {"header", "body"} /\ ~ broken /\ rpc' = "closed" /\ ret' = "CLOSE"
      /\ (wire = <<>> /\ wpc = "closed") \/ (rpc = "body" /\ length = 0)
  BY DEF ReadZero, Return, writer
<1>2. PICK at : /\ Framed(at, Stream, Current, sent, encoded)
                /\ at[IF rpc = "body" THEN Current + 1 ELSE Current]
                     = IF rpc = "body" THEN length ELSE 0
  BY <1>1 DEF Steady, Placed
<1>3. wpc = "closed" /\ wire = <<>> => Len(Stream) = 0
  <2>1. wpc = "closed" => out = <<>>
    BY DEF JsonType
  <2> QED
    BY <2>1, ConcatEmptySeq, EmptySeq DEF Stream
<1>4. rpc # "body"
  <2> SUFFICES ASSUME rpc = "body"
               PROVE  FALSE
    OBVIOUS
  <2>1. InBody
    BY DEF Steady
  <2>2. length \in 1..Len(sent[Current]) /\ length <= Len(Stream) /\ Len(sent[Current]) \in Nat
    BY <1>2, <2>1, AtBody
  <2> QED
    BY <1>1, <1>3, <2>2
<1>5. wpc = "closed" /\ Len(Stream) = 0
  BY <1>1, <1>3, <1>4
<1>6. Len(got) <= Len(sent) /\ \A k \in 1..Len(got) : got[k] = sent[k]
  BY DEF Steady
<1>7. Len(got) = Len(sent)
  <2>1. SUFFICES ASSUME /\ Current \in 1..Len(sent) /\ sent[Current] \in Sendable
                        /\ 4 + Len(sent[Current]) <= Len(Stream)
                 PROVE  FALSE
    BY <1>2, <1>4, <1>6, AtHeader
  <2>2. Len(sent[Current]) \in Nat
    BY <2>1, FrameParts
  <2> QED
    BY <1>5, <2>1, <2>2
<1>8. got = sent
  BY <1>6, <1>7, SeqTypes, SeqEqual
<1> QED
  BY <1>1, <1>5, <1>6, <1>8 DEF Steady

(* The stream after ::read() took n bytes.                                  *)
LEMMA Advanced ==
  ASSUME JsonType, NEW n \in 1..Len(wire), wire' = SubSeq(wire, n + 1, Len(wire)), out' = out
  PROVE  /\ Len(Stream') = Len(Stream) - n
         /\ \A i \in 1..(Len(Stream) - n) : Stream'[i] = Stream[i + n]
<1>1. wire \in Seq(Octets) /\ out \in Seq(Octets)
  BY DEF JsonType
<1>2. /\ Len(SubSeq(wire, n + 1, Len(wire)) \o out) = Len(wire \o out) - n
      /\ \A i \in 1..(Len(wire \o out) - n) :
           (SubSeq(wire, n + 1, Len(wire)) \o out)[i] = (wire \o out)[i + n]
  BY <1>1, Drop
<1> QED
  BY <1>2 DEF Stream

(* ... and the frames in it.                                                *)
LEMMA Forward ==
  ASSUME JsonType, NEW n \in 1..Len(wire), wire' = SubSeq(wire, n + 1, Len(wire)), out' = out,
         NEW at, Framed(at, Stream, Current, sent, encoded),
         NEW at2, at2 = [k \in Int |-> at[k] - n]
  PROVE  /\ Framed(at2, Stream', Current, sent, encoded)
         /\ \A k \in Int : at2[k] = at[k] - n
<1>1. at \in [Int -> Int] /\ at[Len(sent) + 1] = Len(Stream)
  BY DEF Framed
<1>2. /\ Len(sent) \in Nat /\ Len(Stream) \in Nat /\ Stream \in Seq(Octets)
      /\ Current \in Nat \ {0} /\ n \in Nat
  BY SeqTypes DEF Current
<1>3. at2 \in [Int -> Int] /\ \A k \in Int : at2[k] = at[k] - n
  BY <1>1
<1>4. /\ Len(Stream') = Len(Stream) - n
      /\ \A i \in 1..(Len(Stream) - n) : Stream'[i] = Stream[i + n]
  BY Advanced
<1>5. at2[Len(sent) + 1] = Len(Stream')
  <2>1. Len(sent) + 1 \in Int
    BY <1>2
  <2>2. at2[Len(sent) + 1] = at[Len(sent) + 1] - n
    BY <1>3, <2>1
  <2> QED
    BY <1>1, <1>4, <2>2
<1>6. ASSUME NEW k \in Current..Len(sent)
      PROVE  FrameAt(at2[k], at2[k + 1], Stream', sent[k], encoded)
  <2>1. FrameAt(at[k], at[k + 1], Stream, sent[k], encoded)
    BY DEF Framed
  <2>2. k \in Int /\ k + 1 \in Int /\ k \in 1..Len(sent)
    BY <1>2
  <2>3. at[k] \in Int /\ at[k + 1] \in Int
    BY <1>1, <2>2
  <2>4. at2[k] = at[k] - n /\ at2[k + 1] = at[k + 1] - n
    BY <1>3, <2>2
  <2>5. sent[k] \in Sendable
    BY <2>2, SeqTypes, ElementOfSeq
  <2>6. FrameAt(at[k] - n, at[k + 1] - n, Stream', sent[k], encoded)
    BY <1>2, <1>4, <2>1, <2>3, <2>5, FrameForward
  <2> QED
    BY <2>4, <2>6
<1>7. Framed(at2, Stream', Current, sent, encoded)
  BY <1>3, <1>5, <1>6 DEF Framed
<1> QED
  BY <1>3, <1>7

(* The length, if it came in one piece, is the length of the next message.  *)
LEMMA SteadyReadHeader ==
  ASSUME JsonType, Steady, ReadHeader, ~ split'
  PROVE  Steady'
<1>1. /\ UNCHANGED <<encoded, wpc, sent, out, broken, v_data, got>>
      /\ rpc = "header" /\ ~ broken /\ rpc' = "body" /\ v_data = <<>>
  BY DEF ReadHeader, writer, JsonType
<1>2. PICK n \in Counts(4) :
        /\ length' = IntOf([k \in 1..4 |-> IF k <= n THEN wire[k] ELSE 0])
        /\ wire' = SubSeq(wire, n + 1, Len(wire))
        /\ split' = (split \/ n < 4)
  BY DEF ReadHeader
<1>3. n = 4 /\ 4 \in 1..Len(wire)
  <2>1. ~ (n < 4)
    BY <1>2
  <2>2. n \in 1..Len(wire) /\ (4 < 0 \/ n <= 4)
    BY DEF Counts
  <2> QED
    BY <2>1, <2>2
<1>4. PICK at : Framed(at, Stream, Current, sent, encoded) /\ at[Current] = 0
  BY <1>1 DEF Steady, Placed
<1> DEFINE m == sent[Current]
<1>5. Len(got) <= Len(sent) /\ \A k \in 1..Len(got) : got[k] = sent[k]
  BY DEF Steady
<1>6. /\ Current \in 1..Len(sent) /\ m \in Sendable
      /\ FrameAt(0, at[Current + 1], Stream, m, encoded)
      /\ at[Current + 1] = 4 + Len(m)
  <2>1. Len(Stream) # 0
    BY <1>3, SeqTypes
  <2> QED
    BY <1>4, <1>5, <2>1, AtHeader
<1>7. /\ Len(m) \in 1..SOCKET_BUFFER_SIZE /\ encoded \in BOOLEAN
      /\ \A i \in 1..4 : FrameOf(m, encoded)[i] = Header(Len(m))[i]
  BY <1>6, SeqTypes, FrameParts
<1> HIDE DEF m
<1>8. Header(Len(m)) \in Seq(Octets) /\ Len(Header(Len(m))) = 4 /\ IntOf(Header(Len(m))) = Len(m)
  <2>1. Len(m) \in 0..SOCKET_BUFFER_SIZE
    BY <1>7
  <2> QED
    BY <2>1, HeaderBack
<1>9. ASSUME NEW k \in 1..4 PROVE wire[k] = Header(Len(m))[k]
  <2>1. 0 + k > 0 /\ k \in 1..(4 + Len(m)) /\ 0 + k = k
    BY <1>7
  <2>2. Stream[k] = FrameOf(m, encoded)[k]
    BY <1>6, <2>1 DEF FrameAt
  <2>3. Stream[k] = wire[k]
    <3>1. k \in 1..Len(wire)
      BY <1>3, SeqTypes
    <3> QED
      BY <3>1, SeqTypes
  <2> QED
    BY <1>7, <2>2, <2>3
<1>10. length' = Len(m)
  <2> DEFINE b == [k \in 1..4 |-> IF k <= n THEN wire[k] ELSE 0]
  <2>1. b[1] = wire[1] /\ b[2] = wire[2] /\ b[3] = wire[3] /\ b[4] = wire[4]
    BY <1>3
  <2>2. length' = IntOf(b)
    BY <1>2
  <2> HIDE DEF b
  <2>3. /\ b[1] = Header(Len(m))[1] /\ b[2] = Header(Len(m))[2]
        /\ b[3] = Header(Len(m))[3] /\ b[4] = Header(Len(m))[4]
    BY <1>9, <2>1
  <2>4. IntOf(b) = IntOf(Header(Len(m)))
    BY <2>3 DEF IntOf
  <2> QED
    BY <1>8, <2>2, <2>4
<1>11. Current' = Current /\ Current \in Nat \ {0} /\ sent'[Current'] = m
  BY <1>1, <1>6 DEF Current, m
<1>12. InBody'
  <2>1. Len(got') < Len(sent')
    BY <1>1, <1>6, SeqTypes DEF Current
  <2>2. Len(v_data') = 0
    BY <1>1, EmptySeq
  <2> QED
    BY <1>1, <1>7, <1>10, <1>11, <2>1, <2>2 DEF InBody
<1>13. Placed'
  <2> DEFINE at2 == [k \in Int |-> at[k] - 4]
  <2>1. /\ Framed(at2, Stream', Current, sent, encoded)
        /\ \A k \in Int : at2[k] = at[k] - 4
    BY <1>1, <1>2, <1>3, <1>4, Forward
  <2>2. at2[Current + 1] = length'
    <3>1. at2[Current + 1] = at[Current + 1] - 4 /\ Len(m) \in Nat
      BY <1>7, <1>11, <2>1
    <3> QED
      BY <1>6, <1>10, <3>1
  <2> HIDE DEF at2
  <2> QED
    BY <1>1, <1>11, <2>1, <2>2 DEF Placed
<1> QED
  BY <1>1, <1>5, <1>12, <1>13 DEF Steady

(* What follows the message that is returned.                               *)
LEMMA Next1 ==
  ASSUME JsonType, Steady, UNCHANGED <<encoded, sent>>, rpc' = "idle",
         NEW m, got' = Append(got, m), m = sent[Current], Current \in 1..Len(sent),
         NEW at, Framed(at, Stream', Current, sent, encoded), at[Current + 1] = 0,
         m \in Seq(Octets)
  PROVE  Steady'
<1>1. Len(got) <= Len(sent) /\ \A k \in 1..Len(got) : got[k] = sent[k]
  BY DEF Steady
<1>2. /\ Len(got') = Len(got) + 1 /\ got'[Len(got) + 1] = m
      /\ \A k \in 1..Len(got) : got'[k] = got[k]
  BY SeqTypes, AppendProperties
<1>3. Current' = Current + 1 /\ Current = Len(got) + 1 /\ Len(got) \in Nat /\ Len(sent) \in Nat
  BY <1>2, SeqTypes DEF Current
<1>4. Len(got') <= Len(sent') /\ \A k \in 1..Len(got') : got'[k] = sent'[k]
  <2>1. Len(got') <= Len(sent')
    BY <1>2, <1>3
  <2>2. ASSUME NEW k \in 1..Len(got') PROVE got'[k] = sent'[k]
    <3>1. CASE k = Len(got) + 1
      BY <1>2, <1>3, <3>1
    <3>2. CASE k # Len(got) + 1
      <4>1. k \in 1..Len(got)
        BY <1>2, <1>3, <3>2
      <4> QED
        BY <1>1, <1>2, <4>1
    <3> QED
      BY <3>1, <3>2
  <2> QED
    BY <2>1, <2>2
<1>5. Placed'
  <2>1. Framed(at, Stream', Current + 1, sent, encoded)
    <3>1. \A k \in (Current + 1)..Len(sent) : k \in Current..Len(sent)
      BY <1>3
    <3> QED
      BY <3>1 DEF Framed
  <2>2. at[Current'] = 0
    BY <1>3
  <2> QED
    BY <1>3, <2>1, <2>2 DEF Placed
<1> QED
  BY <1>4, <1>5 DEF Steady

(* read() in a body adds what it gets to what it has.                       *)
LEMMA SteadyReadBody ==
  ASSUME JsonType, Steady, ReadBody
  PROVE  Steady'
<1>1. /\ UNCHANGED <<encoded, wpc, sent, out, broken>>
      /\ rpc = "body" /\ ~ broken /\ ~ encoded
  BY DEF ReadBody, writer
<1>2. PICK n \in Counts(length) :
        /\ v_data' = v_data \o SubSeq(wire, 1, n)
        /\ wire' = SubSeq(wire, n + 1, Len(wire))
        /\ length' = length - n
        /\ IF length' > 0
           THEN UNCHANGED <<rpc, ret, got>>
           ELSE Return("SMOOTH") /\ got' = Append(got, v_data')
  BY DEF ReadBody
<1> DEFINE m == sent[Current]
           a == SubSeq(wire, 1, n)
<1>3. InBody /\ Len(got) <= Len(sent) /\ \A k \in 1..Len(got) : got[k] = sent[k]
  BY <1>1 DEF Steady
<1>4. PICK at : Framed(at, Stream, Current, sent, encoded) /\ at[Current + 1] = length
  BY <1>1 DEF Steady, Placed
<1>5. /\ Current \in 1..Len(sent) /\ m \in Sendable
      /\ length \in 1..Len(m) /\ Len(m) \in Nat /\ length <= Len(Stream)
      /\ \A i \in 1..length : Stream[i] = FrameOf(m, encoded)[4 + (Len(m) - length) + i]
  BY <1>3, <1>4, AtBody
<1>6. m \in Seq(Octets) /\ \A i \in 1..Len(m) : FrameOf(m, encoded)[4 + i] = m[i]
  <2>1. \A i \in 1..Len(m) : FrameOf(m, encoded)[4 + i] = IF encoded THEN encode(m)[i] ELSE m[i]
    BY <1>5, SeqTypes, FrameParts
  <2>2. m \in Seq(Octets)
    BY <1>5, FrameParts
  <2> QED
    BY <1>1, <2>1, <2>2
<1>7. n \in 1..Len(wire) /\ n \in 1..length
  <2>1. n \in 1..Len(wire) /\ (length < 0 \/ n <= length)
    BY DEF Counts
  <2> QED
    BY <1>5, <2>1
<1>8. /\ a \in Seq(Octets) /\ Len(a) = n /\ v_data \in Seq(Octets)
      /\ \A i \in 1..n : a[i] = wire[i]
  BY <1>7, Taken DEF JsonType
<1>9. /\ Len(v_data) = Len(m) - length /\ \A i \in 1..Len(v_data) : v_data[i] = m[i]
  BY <1>1, <1>3 DEF InBody
<1> HIDE DEF m, a
<1>10. /\ v_data' \in Seq(Octets) /\ Len(v_data') = Len(v_data) + n /\ Len(v_data) \in Nat
       /\ \A i \in 1..Len(v_data) : v_data'[i] = v_data[i]
       /\ \A i \in 1..n : v_data'[Len(v_data) + i] = a[i]
  <2>1. v_data' = v_data \o a
    BY <1>2 DEF a
  <2> QED
    BY <1>8, <2>1, Joined
<1>11. Len(v_data') = Len(m) - length' /\ length' = length - n
  <2>1. length' = length - n
    BY <1>2
  <2>2. Len(m) \in Nat /\ length \in Int /\ n \in Int
    BY <1>5, <1>7
  <2>3. Len(v_data') = (Len(m) - length) + n
    BY <1>9, <1>10
  <2> QED
    BY <2>1, <2>2, <2>3
<1>12. ASSUME NEW i \in 1..Len(v_data') PROVE v_data'[i] = m[i]
  <2>1. CASE i \in 1..Len(v_data)
    BY <1>9, <1>10, <2>1
  <2>2. CASE i \notin 1..Len(v_data)
    <3> DEFINE j == i - Len(v_data)
    <3>1. j \in 1..n /\ Len(v_data) + j = i /\ (Len(m) - length) + j = i
      BY <1>5, <1>7, <1>9, <1>10, <2>2
    <3>2. j \in 1..length /\ j \in 1..Len(wire) /\ i \in 1..Len(m)
      <4>1. j \in 1..Len(wire)
        BY <1>7, <3>1, SeqTypes
      <4>2. j \in 1..length
        BY <1>5, <1>7, <3>1
      <4>3. i \in 1..Len(m)
        BY <1>5, <3>1, <4>2
      <4> QED
        BY <4>1, <4>2, <4>3
    <3> HIDE DEF j
    <3>3. v_data'[i] = wire[j]
      BY <1>8, <1>10, <3>1
    <3>4. wire[j] = Stream[j]
      BY <3>2, SeqTypes
    <3>5. Stream[j] = FrameOf(m, encoded)[4 + i]
      <4>1. 4 + (Len(m) - length) + j = 4 + i
        <5>1. Len(m) \in Int /\ length \in Int /\ j \in Int
          BY <1>5, <3>2
        <5> QED
          BY <3>1, <5>1
      <4>2. Stream[j] = FrameOf(m, encoded)[4 + (Len(m) - length) + j]
        BY <1>5, <3>2
      <4> QED
        BY <4>1, <4>2
    <3> QED
      BY <1>6, <3>2, <3>3, <3>4, <3>5
  <2> QED
    BY <2>1, <2>2
<1> DEFINE at2 == [k \in Int |-> at[k] - n]
<1>13. /\ Framed(at2, Stream', Current, sent, encoded)
       /\ \A k \in Int : at2[k] = at[k] - n
  BY <1>1, <1>2, <1>4, <1>7, Forward
<1> HIDE DEF at2
<1>14. at2[Current + 1] = length'
  <2>1. Current + 1 \in Int
    BY <1>5
  <2>2. at2[Current + 1] = at[Current + 1] - n
    BY <1>13, <2>1
  <2> QED
    BY <1>4, <1>11, <2>2
<1>15. CASE length' > 0
  <2>1. UNCHANGED <<rpc, ret, got>> /\ Current' = Current /\ sent'[Current'] = m
    BY <1>1, <1>2, <1>15 DEF Current, m
  <2>2. InBody'
    <3>1. length' \in 1..Len(m)
      BY <1>5, <1>7, <1>11, <1>15
    <3> QED
      BY <1>1, <1>3, <1>11, <1>12, <2>1, <3>1 DEF InBody
  <2>3. Placed'
    BY <1>1, <1>13, <1>14, <2>1 DEF Placed
  <2> QED
    BY <1>1, <1>3, <2>1, <2>2, <2>3 DEF Steady
<1>16. CASE ~ (length' > 0)
  <2>1. length' = 0
    BY <1>5, <1>7, <1>11, <1>16
  <2>2. v_data' = m
    <3>1. Len(v_data') = Len(m)
      BY <1>5, <1>11, <2>1
    <3> QED
      BY <1>6, <1>10, <1>12, <3>1, SeqEqual
  <2>3. got' = Append(got, m) /\ rpc' = "idle"
    BY <1>2, <1>16, <2>2 DEF Return
  <2> QED
    BY <1>1, <1>5, <1>6, <1>13, <1>14, <2>1, <2>3, Next1 DEF m
<1> QED
  BY <1>15, <1>16

(* read_decoded() that got the body in one piece decodes all of it.         *)
LEMMA SteadyReadBodyDecoded ==
  ASSUME JsonType, Steady, ReadBodyDecoded, ~ split'
  PROVE  Steady'
<1>1. /\ UNCHANGED <<encoded, wpc, sent, out, broken>>
      /\ rpc = "body" /\ ~ broken /\ encoded
      /\ got' = Append(got, v_data') /\ rpc' = "idle"
  BY DEF ReadBodyDecoded, Return, writer
<1>2. PICK n \in Counts(length) :
        /\ v_data' = decode(SubSeq(wire, 1, n))
        /\ wire' = SubSeq(wire, n + 1, Len(wire))
        /\ split' = (split \/ n # length)
  BY DEF ReadBodyDecoded
<1> DEFINE m == sent[Current]
           a == SubSeq(wire, 1, n)
<1>3. InBody
  BY <1>1 DEF Steady
<1>4. PICK at : Framed(at, Stream, Current, sent, encoded) /\ at[Current + 1] = length
  BY <1>1 DEF Steady, Placed
<1>5. /\ Current \in 1..Len(sent) /\ m \in Sendable
      /\ length \in 1..Len(m) /\ Len(m) \in Nat /\ length <= Len(Stream)
      /\ \A i \in 1..length : Stream[i] = FrameOf(m, encoded)[4 + (Len(m) - length) + i]
  BY <1>3, <1>4, AtBody
<1>6. m \in Seq(Octets) /\ \A i \in 1..Len(m) : FrameOf(m, encoded)[4 + i] = encode(m)[i]
  BY <1>1, <1>5, FrameParts
<1>7. n \in 1..Len(wire) /\ n = length /\ n = Len(m)
  <2>1. n \in 1..Len(wire)
    BY DEF Counts
  <2>2. n = length
    BY <1>2
  <2>3. length = Len(m)
    BY <1>1, <1>3 DEF InBody
  <2> QED
    BY <2>1, <2>2, <2>3
<1>8. a \in Seq(Octets) /\ Len(a) = n /\ \A i \in 1..n : a[i] = wire[i]
  BY <1>7, Taken
<1>9. encode(m) \in Seq(Octets) /\ Len(encode(m)) = Len(m)
  BY <1>6, CodeTypes
<1>10. v_data' = decode(a)
  BY <1>2
<1> HIDE DEF m, a
<1>11. ASSUME NEW i \in 1..n PROVE a[i] = encode(m)[i]
  <2>1. 4 + (Len(m) - length) + i = 4 + i /\ i \in 1..Len(m) /\ i \in 1..length /\ i \in 1..Len(wire)
    BY <1>5, <1>7, SeqTypes
  <2>2. Stream[i] = FrameOf(m, encoded)[4 + i]
    BY <1>5, <2>1
  <2>3. Stream[i] = wire[i]
    BY <2>1, SeqTypes
  <2> QED
    BY <1>6, <1>8, <2>1, <2>2, <2>3
<1>12. a = encode(m)
  BY <1>7, <1>8, <1>9, <1>11, SeqEqual
<1>13. v_data' = m
  BY <1>6, <1>10, <1>12, DecodeEncode
<1> DEFINE at2 == [k \in Int |-> at[k] - n]
<1>14. /\ Framed(at2, Stream', Current, sent, encoded)
       /\ \A k \in Int : at2[k] = at[k] - n
  BY <1>1, <1>2, <1>4, <1>7, Forward
<1> HIDE DEF at2
<1>15. at2[Current + 1] = 0
  <2>1. Current + 1 \in Int /\ length \in Int
    BY <1>5
  <2>2. at2[Current + 1] = at[Current + 1] - n
    BY <1>14, <2>1
  <2>3. at[Current + 1] = n /\ n \in Int
    BY <1>4, <1>7, <2>1
  <2> QED
    BY <2>2, <2>3
<1> QED
  BY <1>1, <1>5, <1>6, <1>13, <1>14, <1>15, Next1 DEF m

-----------------------------------------------------------------------------
LEMMA SteadyStep ==
  ASSUME JsonType, InStep => Steady, [Next]_vars, InStep'
  PROVE  Steady'
<1>0. ~ split' /\ ~ cut'
  BY DEF InStep
<1> SUFFICES ASSUME ~ split => (~ cut => Steady)
             PROVE  Steady'
  BY DEF InStep
<1>1. CASE WriteEmpty \/ WriteReturn \/ WriterCloses
  <2>1. /\ UNCHANGED <<encoded, out, wire, broken, sent, rpc, length, v_data, ret, got, split, cut>>
        /\ wpc = "closed" => wpc' = "closed"
    BY <1>1 DEF WriteEmpty, WriteReturn, WriterCloses, reader
  <2>2. Stream' = Stream
    BY <2>1 DEF Stream
  <2> QED
    BY <1>0, <2>1, <2>2, Same
<1>2. CASE Write
  <2>1. UNCHANGED <<split, cut>>
    BY <1>2 DEF Write, reader
  <2> QED
    BY <1>0, <1>2, <2>1, SteadyWrite
<1>3. CASE WriteSome
  <2>1. UNCHANGED <<encoded, wpc, broken, sent, rpc, length, v_data, ret, got, split, cut>>
    BY <1>3 DEF WriteSome, reader
  <2>2. PICK n \in 1..Len(out) :
          wire' = wire \o SubSeq(out, 1, n) /\ out' = SubSeq(out, n + 1, Len(out))
    BY <1>3 DEF WriteSome
  <2>3. Stream' = Stream
    BY <2>2, Given DEF Stream
  <2> QED
    BY <1>0, <2>1, <2>3, Same
<1>4. CASE WriteError
  <2>1. /\ UNCHANGED <<encoded, broken, sent, rpc, length, v_data, ret, got, split, cut>>
        /\ wpc' = "closed" /\ (broken \/ rpc = "closed")
    BY <1>4 DEF WriteError, reader
  <2> QED
    BY <1>0, <2>1, Same
<1>5. CASE Reset
  <2>1. /\ UNCHANGED <<encoded, wpc, sent, rpc, length, v_data, ret, got, split, cut>>
        /\ broken'
    BY <1>5 DEF Reset, reader, writer
  <2> QED
    BY <1>0, <2>1, Same
<1>6. CASE Read
  <2>1. /\ UNCHANGED <<encoded, out, wpc, wire, broken, sent, ret, got, split, cut>>
        /\ rpc = "idle" /\ rpc' = "header"
    BY <1>6 DEF Read, writer
  <2>2. Stream' = Stream
    BY <2>1 DEF Stream
  <2> QED
    BY <1>0, <2>1, <2>2, Same
<1>7. CASE SelectTimeout
  <2>1. /\ UNCHANGED <<encoded, out, wpc, wire, broken, sent, got, split>>
        /\ rpc \in {"header", "body"} /\ rpc' = "idle" /\ cut' = (cut \/ rpc = "body")
    BY <1>7 DEF SelectTimeout, Return, writer
  <2>2. Stream' = Stream
    BY <2>1 DEF Stream
  <2>3. rpc = "header" /\ ~ cut /\ ~ split
    BY <1>0, <2>1
  <2> QED
    BY <2>1, <2>2, <2>3, Same
<1>8. CASE SelectError \/ ReadError
  <2>1. /\ UNCHANGED <<encoded, wpc, sent, got, split, cut>>
        /\ rpc' = "closed" /\ ret' = "ERROR"
    BY <1>8 DEF SelectError, ReadError, Return, writer
  <2> QED
    BY <1>0, <2>1, Same
<1>9. CASE ReadZero
  <2>1. UNCHANGED <<split, cut>>
    BY <1>9 DEF ReadZero
  <2> QED
    BY <1>0, <1>9, <2>1, SteadyReadZero
<1>10. CASE ReadHeader
  <2>1. ~ split /\ ~ cut
    BY <1>0, <1>10 DEF ReadHeader
  <2> QED
    BY <1>0, <1>10, <2>1, SteadyReadHeader
<1>11. CASE ReadBody
  <2>1. ~ split /\ ~ cut
    BY <1>0, <1>11 DEF ReadBody
  <2> QED
    BY <1>11, <2>1, SteadyReadBody
<1>12. CASE ReadBodyDecoded
  <2>1. ~ split /\ ~ cut
    BY <1>0, <1>12 DEF ReadBodyDecoded
  <2> QED
    BY <1>0, <1>12, <2>1, SteadyReadBodyDecoded
<1>13. CASE UNCHANGED vars
  <2>1. UNCHANGED <<encoded, out, wpc, wire, broken, sent, rpc, length, v_data, ret, got, split, cut>>
    BY <1>13 DEF vars
  <2>2. Stream' = Stream
    BY <2>1 DEF Stream
  <2> QED
    BY <1>0, <2>1, <2>2, Same
<1> QED
  BY <1>1, <1>2, <1>3, <1>4, <1>5, <1>6, <1>7, <1>8, <1>9, <1>10, <1>11, <1>12, <1>13
     DEF Next, WriterStep, ReaderStep

(* At the start nothing is on its way and nothing was read.                 *)
LEMMA JsonInit == Init => JsonInv
<1> SUFFICES ASSUME Init
             PROVE  JsonInv
  OBVIOUS
<1>1. JsonType
  <2>1. /\ out \in Seq(Octets) /\ wire \in Seq(Octets) /\ v_data \in Seq(Octets) /\ Len(wire) = 0
        /\ sent \in Seq(Sendable \cap Message) /\ got \in Seq(Seq(Octets))
    BY EmptySeq DEF Init
  <2>2. Len(Messages) \in Nat /\ SndBuf \in Nat
    BY ChannelAssumption, LenProperties
  <2>3. calls \in 0..Len(Messages) /\ Len(wire) <= SndBuf
    BY <2>1, <2>2 DEF Init
  <2>4. /\ encoded \in BOOLEAN /\ timed \in BOOLEAN /\ broken \in BOOLEAN
        /\ split \in BOOLEAN /\ cut \in BOOLEAN
    BY DEF Init
  <2> QED
    BY <2>1, <2>3, <2>4 DEF Init, JsonType
<1>2. Placed
  <2> DEFINE at == [k \in Int |-> 0]
  <2>1. Len(got) = 0 /\ Len(sent) = 0 /\ Current = 1
    BY EmptySeq DEF Init, Current
  <2>2. Len(Stream) = 0
    BY ConcatEmptySeq, EmptySeq DEF Init, Stream
  <2>3. Framed(at, Stream, Current, sent, encoded)
    BY <2>1, <2>2 DEF Framed
  <2>4. at[Current] = 0 /\ rpc # "body"
    BY <2>1 DEF Init
  <2> HIDE DEF at
  <2> QED
    BY <2>3, <2>4 DEF Placed
<1>3. Steady
  BY <1>2, EmptySeq DEF Init, Steady
<1> QED
  BY <1>1, <1>3 DEF JsonInv

LEMMA JsonInvariant == Spec => []JsonInv
<1>1. JsonInv /\ [Next]_vars => JsonInv'
  BY TypeStep, SteadyStep DEF JsonInv
<1> QED
  BY <1>1, JsonInit, PTL DEF Spec

(* Every variable keeps its type; a body is read with a length, until a     *)
(* short or repeated read loses the place in the stream.                    *)
THEOREM JsonTypes == Spec => []TypeOK
<1>1. JsonInv => TypeOK
  <2> SUFFICES ASSUME JsonInv
               PROVE  TypeOK
    OBVIOUS
  <2>1. sent \in Seq(Seq(Chars))
    <3>1. \A m \in Sendable : m \in Seq(Chars)
      BY DEF Sendable
    <3>2. sent \in Seq(Sendable)
      BY SeqTypes DEF JsonInv
    <3> QED
      BY <3>1, <3>2, SeqMonotonic
  <2>2. rpc = "body" => length > 0 \/ split \/ cut
    <3> SUFFICES ASSUME rpc = "body", ~ split, ~ cut
                 PROVE  length > 0
      OBVIOUS
    <3>1. InBody
      BY DEF JsonInv, InStep, Steady
    <3> QED
      BY <3>1 DEF InBody
  <2> QED
    BY <2>1, <2>2 DEF JsonInv, JsonType, TypeOK
<1> QED
  BY <1>1, JsonInvariant, PTL

(* What json::read() returned is what json::write() was given, whole and in *)
(* order, for all messages that fit into the buffer, and all keys.          *)
THEOREM JsonInOrder == Spec => []InOrder
<1>1. JsonInv => InOrder
  BY DEF JsonInv, InStep, Steady, InOrder
<1> QED
  BY <1>1, JsonInvariant, PTL

-----------------------------------------------------------------------------
(* A place in the stream that is lost is not found again.                   *)
LEMMA Lost ==
  ASSUME [Next]_vars, InStep'
  PROVE  InStep
<1>1. CASE WriteEmpty \/ Write \/ WriteSome \/ WriteReturn \/ WriteError \/ WriterCloses
  <2>1. UNCHANGED <<split, cut>>
    BY <1>1 DEF WriteEmpty, Write, WriteSome, WriteReturn, WriteError, WriterCloses, reader
  <2> QED
    BY <2>1 DEF InStep
<1>2. CASE Reset \/ Read \/ SelectError \/ ReadError \/ ReadZero \/ ReadBody
  <2>1. UNCHANGED <<split, cut>>
    BY <1>2 DEF Reset, Read, SelectError, ReadError, ReadZero, ReadBody, reader
  <2> QED
    BY <2>1 DEF InStep
<1>3. CASE SelectTimeout
  BY <1>3 DEF SelectTimeout, InStep
<1>4. CASE ReadHeader \/ ReadBodyDecoded
  BY <1>4 DEF ReadHeader, ReadBodyDecoded, InStep
<1>5. CASE UNCHANGED vars
  BY <1>5 DEF vars, InStep
<1> QED
  BY <1>1, <1>2, <1>3, <1>4, <1>5 DEF Next, WriterStep, ReaderStep

(* Every step of json::read() and json::write() is a step of the channel.   *)
LEMMA ChannelStep ==
  ASSUME JsonInv, JsonInv', [Next]_vars
  PROVE  [Channel!ChannelNext]_(Channel!channel)
<1> DEFINE status == IF rpc # "closed" THEN "open" ELSE IF ret = "CLOSE" THEN "closed" ELSE "failed"
<1>1. CASE ~ InStep'
  BY <1>1 DEF InStep, Channel!ChannelNext, Channel!Garbled
<1>2. CASE InStep'
  <2>1. InStep /\ (split \/ cut)' = (split \/ cut)
    BY <1>2, Lost DEF InStep
  <2>2. JsonType /\ Steady /\ Steady'
    BY <1>2, <2>1 DEF JsonInv
  <2>3. ASSUME UNCHANGED <<sent, got>>,
               (rpc' = rpc /\ ret' = ret) \/ (rpc # "closed" /\ rpc' # "closed")
        PROVE  UNCHANGED Channel!channel
    <3>1. status' = status
      BY <2>3
    <3> QED
      BY <2>1, <2>3, <3>1 DEF Channel!channel
  <2>4. ASSUME UNCHANGED <<sent, got>>, rpc # "closed", rpc' = "closed", ret' = "ERROR"
        PROVE  Channel!GiveUp
    BY <2>1, <2>4 DEF Channel!GiveUp
  <2>5. ASSUME UNCHANGED sent, got' = Append(got, v_data'), rpc # "closed", rpc' # "closed"
        PROVE  Channel!Return
    <3>1. Len(got') = Len(got) + 1 /\ got'[Len(got) + 1] = v_data' /\ Len(got) \in Nat
      <4>1. v_data' \in Seq(Octets)
        BY DEF JsonInv, JsonType
      <4> QED
        BY <2>2, <2>5, <4>1, SeqTypes, AppendProperties
    <3>2. Len(got) < Len(sent) /\ v_data' = sent[Len(got) + 1]
      <4>1. Len(got') <= Len(sent) /\ Len(sent) \in Nat
        BY <2>2, <2>5, SeqTypes DEF Steady
      <4>2. got'[Len(got) + 1] = sent[Len(got) + 1]
        BY <2>2, <2>5, <3>1 DEF Steady
      <4> QED
        BY <3>1, <4>1, <4>2
    <3> QED
      BY <2>1, <2>5, <3>2 DEF Channel!Return
  <2>6. CASE WriteEmpty \/ WriteSome \/ WriteReturn \/ WriteError \/ WriterCloses \/ Reset \/ Read
    BY <2>3, <2>6
       DEF WriteEmpty, WriteSome, WriteReturn, WriteError, WriterCloses, Reset, Read, reader, writer
  <2>7. CASE Write
    <3>1. Messages[calls + 1] \in Message /\ sent' = Append(sent, Messages[calls + 1])
      BY <2>2, <2>7, Handed DEF Write
    <3>2. UNCHANGED <<got, rpc, ret>> /\ wpc = "idle"
      BY <2>7 DEF Write, reader
    <3>3. ~ (rpc = "closed" /\ ret = "CLOSE")
      BY <2>2, <3>2 DEF Steady
    <3>4. status # "closed" /\ status' = status
      BY <3>2, <3>3
    <3>5. Channel!Write
      BY <2>1, <3>1, <3>2, <3>4 DEF Channel!Write, Message
    <3> QED
      BY <3>5 DEF Channel!ChannelNext
  <2>8. CASE SelectTimeout \/ ReadHeader
    BY <2>3, <2>8 DEF SelectTimeout, ReadHeader, Return, writer
  <2>9. CASE SelectError \/ ReadError
    BY <2>4, <2>9 DEF SelectError, ReadError, Return, writer, Channel!ChannelNext
  <2>10. CASE ReadZero
    <3>1. UNCHANGED <<sent, got>> /\ rpc # "closed" /\ rpc' = "closed" /\ ret' = "CLOSE"
      BY <2>10 DEF ReadZero, Return, writer
    <3>2. got = sent
      BY <2>2, <3>1 DEF Steady
    <3>3. Channel!PeerClosed
      BY <2>1, <3>1, <3>2 DEF Channel!PeerClosed
    <3> QED
      BY <3>3 DEF Channel!ChannelNext
  <2>11. CASE ReadBody
    <3>1. /\ UNCHANGED sent /\ rpc = "body"
          /\ IF length' > 0
             THEN UNCHANGED <<rpc, ret, got>>
             ELSE rpc' = "idle" /\ got' = Append(got, v_data')
      BY <2>11 DEF ReadBody, Return, writer
    <3>2. CASE length' > 0
      BY <2>3, <3>1, <3>2
    <3>3. CASE ~ (length' > 0)
      BY <2>5, <3>1, <3>3 DEF Channel!ChannelNext
    <3> QED
      BY <3>2, <3>3
  <2>12. CASE ReadBodyDecoded
    BY <2>5, <2>12 DEF ReadBodyDecoded, Return, writer, Channel!ChannelNext
  <2>13. CASE UNCHANGED vars
    BY <2>3, <2>13 DEF vars
  <2> QED
    BY <2>6, <2>7, <2>8, <2>9, <2>10, <2>11, <2>12, <2>13 DEF Next, WriterStep, ReaderStep
<1> QED
  BY <1>1, <1>2

(* json::read() and json::write() are a channel: messages whole, in order,  *)
(* and all of them when the reader is told of the close.                    *)
THEOREM JsonImplementsChannel == Spec => ImplementsChannel
<1>1. Init => Channel!ChannelInit
  BY DEF Init, Channel!ChannelInit
<1> QED
  BY <1>1, JsonInvariant, ChannelStep, PTL DEF Spec, ImplementsChannel, Channel!ChannelSpec
=============================================================================
