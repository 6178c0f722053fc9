----------------------------- MODULE JsonChannel -----------------------------
(***************************************************************************)
(* The length-prefixed channel of rui::json (net.cpp): one thread sends    *)
(* messages with write() or write_encoded(), which loop in net::write();   *)
(* the peer receives them with read() or read_decoded().  Between them is  *)
(* the byte stream of a TCP connection, which cuts the data anywhere, may  *)
(* keep it back beyond a timeout, and may break.                           *)
(*                                                                         *)
(* ::read(), ::write() and select() are modelled by what they return.      *)
(* EINTR and EAGAIN make the loops of the code turn once more and change   *)
(* nothing.  Bounds: Messages, and room for SndBuf bytes in the stream; a  *)
(* frame fits into the buffer of write().                                  *)
(***************************************************************************)
EXTENDS Codec, Sequences

CONSTANTS
  Messages,    \* the strings written, in order: sequences of 0..127
  SndBuf,      \* bytes the connection holds before ::write() cannot go on
  i_xor,       \* the xor seed of both ends
  encode_key,
  decode_key

SOCKET_BUFFER_SIZE == 87380
Octets == 0..255
Chars == 0..127

ASSUME ChannelAssumption ==
  /\ Messages \in Seq(Seq(Chars))
  /\ \A k \in DOMAIN Messages : 4 + Len(Messages[k]) <= SOCKET_BUFFER_SIZE
  /\ SndBuf \in Nat \ {0}

ASSUME SeedAssumption == i_xor \in -46000..46000

ASSUME KeyAssumption ==
  /\ encode_key \in 0..7 /\ decode_key \in 0..7
  /\ (encode_key + decode_key) % 8 = 0

VARIABLES
  encoded,    \* the two ends use write_encoded() and read_decoded(), or
              \* write() and read()
  timed,      \* i_second # 0: select_rdset() before every read; neither changes
  calls,      \* how many messages were passed to write()
  out,        \* what is left to ::write() of the current frame
  wpc,        \* the writer: "idle", in "write", "closed"
  wire,       \* the bytes in the connection
  broken,     \* the connection was reset
  rpc,        \* the reader: "idle", reading the "header" or "body", "closed"
  length,     \* read()'s local length
  v_data,     \* what read() collected
  ret,        \* what the last read() returned
  sent,       \* history: the messages that write() did not refuse
  got,        \* history: the messages read() returned with SMOOTH
  split,      \* history: one ::read() got only a part of what read() takes whole
  cut         \* history: read() returned TIMEOUT in the middle of a frame

vars == <<encoded, timed, calls, out, wpc, wire, broken, rpc, length, v_data, ret, sent, got, split,
          cut>>
writer == <<encoded, timed, calls, out, wpc, sent>>
reader == <<rpc, length, v_data, ret, got, split, cut>>

Init ==
  /\ encoded \in BOOLEAN /\ timed \in BOOLEAN
  /\ calls = 0 /\ out = <<>> /\ wpc = "idle" /\ sent = <<>>
  /\ wire = <<>> /\ broken = FALSE
  /\ rpc = "idle" /\ length = 0 /\ v_data = <<>> /\ ret = "SMOOTH"
  /\ got = <<>> /\ split = FALSE /\ cut = FALSE

(***************************************************************************)
(* Data                                                                    *)
(***************************************************************************)
(* An unsigned int as the machine stores it, and an int read back from it.  *)
Header(n) == [k \in 1..4 |-> (n \div 256^(k - 1)) % 256]
IntOf(b) == b[1] + 256 * b[2] + 65536 * b[3] +
            16777216 * (IF b[4] < 128 THEN b[4] ELSE b[4] - 256)

(* The running ixor of the n-th byte, counting from 0 for the seed.         *)
keystream[n \in Nat] == IF n = 0 THEN i_xor ELSE NextXor(keystream[n - 1])

Bit(b, j) == IF j \in b THEN 1 ELSE 0
IntOfByte(b) == Bit(b, 0) + 2 * Bit(b, 1) + 4 * Bit(b, 2) + 8 * Bit(b, 3) +
                16 * Bit(b, 4) + 32 * Bit(b, 5) + 64 * Bit(b, 6) + 128 * Bit(b, 7)

encode(s) == [k \in 1..Len(s) |->
                IntOfByte(EncodeByte(ByteOf(s[k]), keystream[k], encode_key))]
decode(s) == [k \in 1..Len(s) |->
                IntOfByte(DecodeByte(ByteOf(s[k]), keystream[k], decode_key))]

(* The buffer handed to net::write().                                       *)
Frame(s) == Header(Len(s)) \o (IF encoded THEN encode(s) ELSE s)

(***************************************************************************)
(* json::write(), json::write_encoded()                                    *)
(***************************************************************************)
(* Empty data is refused: ERROR, nothing is sent.                           *)
WriteEmpty ==
  /\ wpc = "idle" /\ calls < Len(Messages) /\ Messages[calls + 1] = <<>>
  /\ calls' = calls + 1
  /\ UNCHANGED <<encoded, timed, out, wpc, sent, wire, broken, reader>>

(* Mutant: empty data is framed like any other.                             *)
WriteAny ==
  /\ wpc = "idle" /\ calls < Len(Messages)
  /\ calls' = calls + 1
  /\ out' = Frame(Messages[calls + 1])
  /\ sent' = Append(sent, Messages[calls + 1])
  /\ wpc' = "write"
  /\ UNCHANGED <<encoded, timed, wire, broken, reader>>

Write ==
  /\ wpc = "idle" /\ calls < Len(Messages) /\ Messages[calls + 1] # <<>>
  /\ calls' = calls + 1
  /\ out' = Frame(Messages[calls + 1])
  /\ sent' = Append(sent, Messages[calls + 1])
  /\ wpc' = "write"
  /\ UNCHANGED <<encoded, timed, wire, broken, reader>>

(* One ::write() of net::write() takes some of the bytes.  Without room it  *)
(* blocks, or fails with EAGAIN and is repeated at once.                    *)
WriteSome ==
  /\ wpc = "write" /\ out # <<>> /\ ~ broken
  /\ \E n \in 1..Len(out) :
       /\ Len(wire) + n <= SndBuf
       /\ wire' = wire \o SubSeq(out, 1, n)
       /\ out' = SubSeq(out, n + 1, Len(out))
  /\ UNCHANGED <<encoded, timed, calls, wpc, sent, broken, reader>>

WriteReturn ==
  /\ wpc = "write" /\ out = <<>>
  /\ wpc' = "idle"
  /\ UNCHANGED <<encoded, timed, calls, out, sent, wire, broken, reader>>

(* Mutant: every error of ::write() is retried, as EAGAIN is.               *)
WriteErrorRetried == FALSE

(* The connection is reset, or the reader closed its end: ERROR, and the    *)
(* caller closes the socket, as test/client/main.cpp does.                  *)
WriteError ==
  /\ wpc = "write" /\ out # <<>>
  /\ broken \/ rpc = "closed"
  /\ out' = <<>>
  /\ wpc' = "closed"
  /\ UNCHANGED <<encoded, timed, calls, sent, wire, broken, reader>>

(* Everything was written and the caller closes.                            *)
WriterCloses ==
  /\ wpc = "idle" /\ calls = Len(Messages)
  /\ wpc' = "closed"
  /\ UNCHANGED <<encoded, timed, calls, out, sent, wire, broken, reader>>

(* The connection is reset and what it held is lost.                        *)
Reset ==
  /\ ~ broken
  /\ broken' = TRUE
  /\ wire' = <<>>
  /\ UNCHANGED <<writer, reader>>

(***************************************************************************)
(* json::read(), json::read_decoded()                                      *)
(***************************************************************************)
Read ==
  /\ rpc = "idle"
  /\ rpc' = "header"
  /\ v_data' = <<>> /\ length' = 0
  /\ UNCHANGED <<writer, wire, broken, ret, got, split, cut>>

Return(status) ==
  /\ ret' = status
  /\ rpc' = IF status \in {"SMOOTH", "TIMEOUT"} THEN "idle" ELSE "closed"

(* select_rdset() found nothing that has arrived yet: TIMEOUT, wherever     *)
(* read() is.  The caller may call again.                                   *)
SelectTimeout ==
  /\ timed /\ rpc \in {"header", "body"} /\ ~ broken
  /\ wire = <<>> => wpc # "closed"
  /\ Return("TIMEOUT")
  /\ cut' = (cut \/ rpc = "body")
  /\ UNCHANGED <<writer, wire, broken, length, v_data, got, split>>

(* A signal interrupts select(): ERROR, although the connection is whole.   *)
SelectError ==
  /\ timed /\ rpc \in {"header", "body"}
  /\ Return("ERROR")
  /\ UNCHANGED <<writer, wire, broken, length, v_data, got, split, cut>>

(* ::read() fails with what is neither EINTR nor EAGAIN.                    *)
ReadError ==
  /\ rpc \in {"header", "body"} /\ broken
  /\ Return("ERROR")
  /\ UNCHANGED <<writer, wire, broken, length, v_data, got, split, cut>>

(* Mutant: in the body, a read of 0 bytes is repeated.                      *)
ReadZeroRetried ==
  /\ ~ broken
  /\ rpc = "header" /\ wire = <<>> /\ wpc = "closed"
  /\ Return("CLOSE")
  /\ UNCHANGED <<writer, wire, broken, length, v_data, got, split, cut>>

(* Mutant: EAGAIN is taken for a close.                                     *)
ReadZeroOnEagain ==
  /\ ~ broken
  /\ \/ rpc \in {"header", "body"} /\ wire = <<>>
     \/ rpc = "body" /\ length = 0
  /\ Return("CLOSE")
  /\ UNCHANGED <<writer, wire, broken, length, v_data, got, split, cut>>

(* ::read() returns 0: the peer closed, or no byte was asked for.           *)
ReadZero ==
  /\ ~ broken
  /\ \/ rpc \in {"header", "body"} /\ wire = <<>> /\ wpc = "closed"
     \/ rpc = "body" /\ length = 0
  /\ Return("CLOSE")
  /\ UNCHANGED <<writer, wire, broken, length, v_data, got, split, cut>>

(* How many bytes ::read() of count bytes may return; a negative count is   *)
(* a huge size_t.                                                           *)
Counts(count) ==
  {n \in 1..Len(wire) : count < 0 \/ n <= count}

(* The four bytes of the length, or those of them that are there: the rest  *)
(* of the buffer is zero.                                                   *)
ReadHeader ==
  /\ rpc = "header" /\ ~ broken
  /\ \E n \in Counts(4) :
       /\ length' = IntOf([k \in 1..4 |-> IF k <= n THEN wire[k] ELSE 0])
       /\ wire' = SubSeq(wire, n + 1, Len(wire))
       /\ split' = (split \/ n < 4)
  /\ rpc' = "body"
  /\ UNCHANGED <<writer, broken, v_data, ret, got, cut>>

(* Mutant: read() takes the first part of the body for all of it.           *)
ReadBodyOnce ==
  /\ rpc = "body" /\ ~ broken /\ ~ encoded
  /\ \E n \in Counts(length) :
       /\ v_data' = v_data \o SubSeq(wire, 1, n)
       /\ wire' = SubSeq(wire, n + 1, Len(wire))
       /\ length' = length - n
       /\ Return("SMOOTH") /\ got' = Append(got, v_data')
  /\ UNCHANGED <<writer, broken, split, cut>>

(* read() goes on until the length is used up.                              *)
ReadBody ==
  /\ rpc = "body" /\ ~ broken /\ ~ encoded
  /\ \E n \in Counts(length) :
       /\ v_data' = v_data \o SubSeq(wire, 1, n)
       /\ wire' = SubSeq(wire, n + 1, Len(wire))
       /\ length' = length - n
       /\ IF length' > 0
          THEN UNCHANGED <<rpc, ret, got>>
          ELSE Return("SMOOTH") /\ got' = Append(got, v_data')
  /\ UNCHANGED <<writer, broken, split, cut>>

(* read_decoded() does not: it decodes what one ::read() returned.          *)
ReadBodyDecoded ==
  /\ rpc = "body" /\ ~ broken /\ encoded
  /\ \E n \in Counts(length) :
       /\ v_data' = decode(SubSeq(wire, 1, n))
       /\ wire' = SubSeq(wire, n + 1, Len(wire))
       /\ split' = (split \/ n # length)
  /\ Return("SMOOTH") /\ got' = Append(got, v_data')
  /\ UNCHANGED <<writer, broken, length, cut>>

-----------------------------------------------------------------------------
WriterStep == WriteEmpty \/ Write \/ WriteSome \/ WriteReturn \/ WriteError
ReaderStep == Read \/ ReadError \/ ReadZero \/ ReadHeader \/ ReadBody \/ ReadBodyDecoded

Next == WriterStep \/ WriterCloses \/ Reset \/ ReaderStep \/ SelectTimeout \/ SelectError

Spec == Init /\ [][Next]_vars

(* Both threads are scheduled, and the reader keeps calling read().  Data in *)
(* the connection arrives: not every repeated read() can time out before it. *)
FairSpec ==
  /\ Spec
  /\ WF_vars(WriterStep)
  /\ WF_vars(ReaderStep)
  /\ SF_vars(ReadHeader \/ ReadBody \/ ReadBodyDecoded)

-----------------------------------------------------------------------------
TypeOK ==
  /\ encoded \in BOOLEAN /\ timed \in BOOLEAN
  /\ calls \in 0..Len(Messages)
  /\ out \in Seq(Octets)
  /\ wpc \in {"idle", "write", "closed"}
  /\ wire \in Seq(Octets) /\ Len(wire) <= SndBuf
  /\ broken \in BOOLEAN
  /\ rpc \in {"idle", "header", "body", "closed"}
  /\ length \in Int
  /\ rpc = "body" => length > 0 \/ split \/ cut
  /\ v_data \in Seq(Octets)
  /\ ret \in {"SMOOTH", "TIMEOUT", "CLOSE", "ERROR"}
  /\ sent \in Seq(Seq(Chars))
  /\ got \in Seq(Seq(Octets))
  /\ split \in BOOLEAN /\ cut \in BOOLEAN

(* Whatever the sizes of the ::read() and ::write() calls, the messages     *)
(* read() returns are those that were written, whole and in order, until a  *)
(* short ::read() falls on the four bytes of the length (for read_decoded() *)
(* on the body too), or a read() that timed out inside a frame is repeated. *)
InOrder ==
  \/ Len(got) <= Len(sent) /\ \A k \in 1..Len(got) : got[k] = sent[k]
  \/ split \/ cut

(* json::read() and json::write() are a channel of messages, of which this   *)
(* says more than InOrder: whatever fails, and whatever is left undelivered *)
(* by that, a reader that is told of the peer's close has got everything.   *)
Channel == INSTANCE MessageChannel WITH
  Message  <- {Messages[k] : k \in DOMAIN Messages} \ {<<>>},
  written  <- sent,
  returned <- got,
  reader   <- IF rpc # "closed" THEN "open" ELSE IF ret = "CLOSE" THEN "closed" ELSE "failed",
  garbled  <- split \/ cut

ImplementsChannel == Channel!ChannelSpec

(* A write() returns as long as the peer reads, or the connection breaks.   *)
WriteReturns == wpc = "write" ~> wpc # "write"

(* A reader does not hang on a peer that has closed, in whatever frame.     *)
CloseSeen == wpc = "closed" ~> rpc = "closed"
=============================================================================
