----------------------------- MODULE HttpReader ------------------------------
(***************************************************************************)
(* rui::http::read() of net.cpp: a head read byte by byte, then a body of   *)
(* known length or in chunks, for the messages a peer sends one after       *)
(* another on one connection.  The three parts share the byte stream: each  *)
(* must leave it where the next one starts.                                 *)
(*                                                                          *)
(* A byte is a pair.  What matters in a head is one such byte: that the     *)
(* body has a length, is chunked, or neither; what matters in a chunk's     *)
(* size line is its number.  ::read() and select() are modelled by what     *)
(* they return.  Bounds: Messages; the loop limits HeadTurns (10000 in the  *)
(* code) and LineTurns (1000); the limits of 10000000 chunks and of         *)
(* SOCKET_BUFFER_SIZE bytes in one ::read() are not reached.                *)
(***************************************************************************)
EXTENDS Naturals, Sequences, SequencesExt

CONSTANTS
  Messages,    \* what the peer sends: [mode, chunks]
  HeadTurns,   \* turns of the loop in read_head()
  LineTurns    \* turns of the loop around a chunk's size line

Mode == {"length", "chunked", "none"}
Data == {"data", "cr", "lf"} \X Nat

(* A chunk without data would end the body; the turns around a size line are *)
(* more than the bytes of one, and of the line break in front of it.        *)
ASSUME HttpAssumption ==
  /\ Messages \in Seq([mode : Mode, chunks : Seq(Seq(Data))])
  /\ \A k \in DOMAIN Messages : Messages[k].mode = "chunked" =>
       \A c \in DOMAIN Messages[k].chunks : Messages[k].chunks[c] # <<>>
  /\ HeadTurns \in Nat \ {0}
  /\ LineTurns \in Nat /\ LineTurns >= 5

VARIABLES
  timed,      \* i_second # 0: select_rdset() before every ::read(); never changes
  pipelines,  \* the peer does not wait for a message to be read before it
              \* sends the next; never changes
  sent,       \* how many messages the peer sent
  peer,       \* "open" or "closed"
  wire,       \* bytes in the connection
  broken,     \* the connection was reset
  rpc,        \* the reader: "idle", in the "head", in a body of known "length",
              \* in the size "line" of a chunk, in a "chunk", or "closed"
  i,          \* the turn of the innermost counted loop
  v_head, v_body,
  i_content_length,
  line,       \* sChunckLengthWithEnd
  iChunckLength,
  chunckData,
  ret,        \* what read() returned last
  got,        \* history: the bodies read() returned with SMOOTH
  over,       \* history: a ::read() took bytes beyond the content length
  spent,      \* history: LineTurns turns passed without a complete size line
  cut         \* history: TIMEOUT was returned inside a message

conn == <<sent, peer, wire, broken>>
call == <<i, v_head, v_body, i_content_length, line, iChunckLength, chunckData>>
history == <<got, over, spent, cut>>
vars == <<timed, pipelines, conn, rpc, call, ret, history>>

Cr == <<"cr", 0>>
Lf == <<"lf", 0>>
CrLf == <<Cr, Lf>>

Init ==
  /\ timed \in BOOLEAN /\ pipelines \in BOOLEAN
  /\ sent = 0 /\ peer = "open" /\ wire = <<>> /\ broken = FALSE
  /\ rpc = "idle" /\ i = 0 /\ v_head = <<>> /\ v_body = <<>>
  /\ i_content_length = 0 /\ line = <<>> /\ iChunckLength = 0 /\ chunckData = <<>>
  /\ ret = "SMOOTH" /\ got = <<>>
  /\ over = FALSE /\ spent = FALSE /\ cut = FALSE

(***************************************************************************)
(* The peer                                                                 *)
(***************************************************************************)
Body(m) == FlattenSeq(m.chunks)

HeadOf(m) == << <<m.mode, IF m.mode = "length" THEN Len(Body(m)) ELSE 0>>, Cr, Lf, Cr, Lf >>

Chunk(c) == << <<"size", Len(c)>>, Cr, Lf >> \o c \o CrLf

(* http::write() makes messages of known length; a peer may also use chunks, *)
(* which end with an empty one.                                              *)
InChunks(m) ==
  FlattenSeq([k \in 1..Len(m.chunks) |-> Chunk(m.chunks[k])]) \o Chunk(<<>>)

Frame(m) ==
  HeadOf(m) \o (IF m.mode = "length" THEN Body(m)
                 ELSE IF m.mode = "chunked" THEN InChunks(m) ELSE <<>>)

PeerMaySend ==
  /\ peer = "open" /\ ~ broken /\ sent < Len(Messages)
  /\ pipelines \/ sent = Len(got)

Send ==
  /\ PeerMaySend
  /\ wire' = wire \o Frame(Messages[sent + 1])
  /\ sent' = sent + 1
  /\ UNCHANGED <<timed, pipelines, peer, broken, rpc, call, ret, history>>

(* The bytes of a message that a reader needs to return it: http::read()     *)
(* leaves the line break after the last chunk in the stream.                *)
Needed(m) == Len(Frame(m)) - (IF m.mode = "chunked" THEN 2 ELSE 0)

(* The peer closes: between messages, or having written a part of one.      *)
PeerCloses ==
  /\ peer = "open"
  /\ peer' = "closed"
  /\ \/ UNCHANGED <<wire, sent>>
     \/ /\ PeerMaySend
        /\ LET m == Messages[sent + 1] IN
             \E n \in 1..(Len(Frame(m)) - 1) :
               /\ wire' = wire \o SubSeq(Frame(m), 1, n)
               /\ sent' = IF n >= Needed(m) THEN sent + 1 ELSE sent
  /\ UNCHANGED <<timed, pipelines, broken, rpc, call, ret, history>>

(* The connection is reset and what it held is lost.                        *)
Reset ==
  /\ ~ broken
  /\ broken' = TRUE /\ wire' = <<>>
  /\ UNCHANGED <<timed, pipelines, sent, peer, rpc, call, ret, history>>

(***************************************************************************)
(* http::read()                                                             *)
(***************************************************************************)
Reading == rpc \in {"head", "length", "line", "chunk"}

(* The caller reads on after SMOOTH and, as a server polling an idle         *)
(* connection does, after TIMEOUT; after anything else it closes.            *)
Return(status) ==
  /\ ret' = status
  /\ rpc' = IF status \in {"SMOOTH", "TIMEOUT"} THEN "idle" ELSE "closed"

Read ==
  /\ rpc = "idle"
  /\ rpc' = "head" /\ i' = 0 /\ v_head' = <<>>
  /\ UNCHANGED <<timed, pipelines, conn, v_body, i_content_length, line,
                 iChunckLength, chunckData, ret, history>>

(* Data has arrived and one ::read() of at most count bytes returns n of it. *)
Receives(n, count) ==
  /\ ~ broken /\ n \in 1..count /\ n <= Len(wire)
  /\ wire' = SubSeq(wire, n + 1, Len(wire))
  /\ UNCHANGED <<timed, pipelines, sent, peer, broken>>

(* What a ::read() or a select() can meet before data: nothing has arrived. *)
Waits == ~ broken /\ (wire = <<>> => peer = "open")

(* select_rdset() gives up, in whichever loop.                              *)
SelectTimeout ==
  /\ timed /\ Reading /\ Waits
  /\ Return("TIMEOUT")
  /\ cut' = (cut \/ rpc # "head" \/ \E k \in DOMAIN v_head : v_head[k] \notin {Cr, Lf})
  /\ UNCHANGED <<timed, pipelines, conn, call, got, over, spent>>

(* A signal interrupts select(): ERROR, although the connection is whole.   *)
SelectError ==
  /\ timed /\ Reading
  /\ Return("ERROR")
  /\ UNCHANGED <<timed, pipelines, conn, call, history>>

(* ::read() fails with what is neither EINTR nor EAGAIN.                    *)
ReadError ==
  /\ Reading /\ broken
  /\ Return("ERROR")
  /\ UNCHANGED <<timed, pipelines, conn, call, history>>

(* Mutant: between the chunks, a read of 0 bytes is repeated.               *)
ReadZeroRetried ==
  /\ Reading /\ ~ broken /\ wire = <<>> /\ peer = "closed" /\ rpc # "line"
  /\ Return("CLOSE")
  /\ UNCHANGED <<timed, pipelines, conn, call, history>>

ReadZero ==
  /\ Reading /\ ~ broken /\ wire = <<>> /\ peer = "closed"
  /\ Return("CLOSE")
  /\ UNCHANGED <<timed, pipelines, conn, call, history>>

(* A head is complete: which body follows?  The first match decides, and a   *)
(* length is looked for before chunks.                                      *)
Found(head, kind) == {k \in DOMAIN head : head[k][1] = kind}

ReadInLengthMode(head) ==
  LET n == head[Min(Found(head, "length"))][2] IN
  /\ Found(head, "length") # {}
  /\ i_content_length' = n /\ v_body' = <<>>
  /\ IF n = 0
     THEN Return("SMOOTH") /\ got' = Append(got, <<>>)
     ELSE rpc' = "length" /\ UNCHANGED <<ret, got>>
  /\ UNCHANGED <<i, line, iChunckLength, chunckData>>

ReadInChunkMode(head) ==
  /\ Found(head, "length") = {} /\ Found(head, "chunked") # {}
  /\ rpc' = "line" /\ i' = 0 /\ line' = <<>> /\ iChunckLength' = 0
  /\ v_body' = <<>> /\ chunckData' = <<>>
  /\ UNCHANGED <<i_content_length, ret, got>>

ModeError(head) ==
  /\ Found(head, "length") = {} /\ Found(head, "chunked") = {}
  /\ Return("PROTOCOL")
  /\ UNCHANGED <<i, v_body, i_content_length, line, iChunckLength, chunckData, got>>

(* One turn of the loop in read_head() that does not end it; the last turn   *)
(* ends it even so.                                                         *)
HeadTurn ==
  /\ i' = i + 1
  /\ IF i + 1 = HeadTurns THEN Return("PROTOCOL") ELSE UNCHANGED <<rpc, ret>>
  /\ UNCHANGED <<v_body, i_content_length, line, iChunckLength, chunckData, got>>

ReadHead ==
  /\ rpc = "head" /\ Receives(1, 1)
  /\ v_head' = Append(v_head, wire[1])
  /\ IF IsSuffix(CrLf \o CrLf, v_head')
     THEN IF i >= HeadTurns - 1
          THEN /\ Return("PROTOCOL")
               /\ UNCHANGED <<i, v_body, i_content_length, line, iChunckLength,
                              chunckData, got>>
          ELSE \/ ReadInLengthMode(v_head')
               \/ ReadInChunkMode(v_head')
               \/ ModeError(v_head')
     ELSE HeadTurn
  /\ UNCHANGED <<over, spent, cut>>

(* Mutant: the loop goes on until there is more than the content length.    *)
ReadLengthPast ==
  /\ rpc = "length"
  /\ \E n \in 1..Len(wire) :
       /\ Receives(n, Len(wire))
       /\ v_body' = v_body \o SubSeq(wire, 1, n)
  /\ over' = (over \/ Len(v_body') > i_content_length)
  /\ IF Len(v_body') > i_content_length
     THEN Return("SMOOTH") /\ got' = Append(got, v_body')
     ELSE UNCHANGED <<rpc, ret, got>>
  /\ UNCHANGED <<i, v_head, i_content_length, line, iChunckLength, chunckData, spent, cut>>

(* read_in_length_mode() asks for a full buffer, not for what is missing.   *)
ReadLength ==
  /\ rpc = "length"
  /\ \E n \in 1..Len(wire) :
       /\ Receives(n, Len(wire))
       /\ v_body' = v_body \o SubSeq(wire, 1, n)
  /\ over' = (over \/ Len(v_body') > i_content_length)
  /\ IF Len(v_body') >= i_content_length
     THEN Return("SMOOTH") /\ got' = Append(got, v_body')
     ELSE UNCHANGED <<rpc, ret, got>>
  /\ UNCHANGED <<i, v_head, i_content_length, line, iChunckLength, chunckData, spent, cut>>

(* What strtol() makes of a size line.                                      *)
Number(s) == IF s[1][1] = "size" THEN s[1][2] ELSE 0

(* The line break that ends the previous chunk is dropped when it leads.    *)
WithoutBreak(s) == IF s = CrLf THEN <<>> ELSE s

(* One turn of the loop around the size line that finds no size; after the   *)
(* last one the length is still 0, which ends the body.                     *)
LineTurn ==
  /\ i' = i + 1
  /\ IF i + 1 = LineTurns
     THEN Return("SMOOTH") /\ got' = Append(got, v_body) /\ spent' = TRUE
     ELSE UNCHANGED <<rpc, ret, got, spent>>
  /\ UNCHANGED <<v_head, v_body, i_content_length, iChunckLength, chunckData, over, cut>>

(* A byte of the size line.  A size of 0 ends the body and leaves the line   *)
(* break of the last chunk in the stream, in front of the next head.  (The   *)
(* test for "\r\n\r\n" before the line break is dropped never succeeds.)     *)
ReadLine ==
  /\ rpc = "line" /\ Receives(1, 1)
  /\ line' = WithoutBreak(Append(line, wire[1]))
  /\ IF IsSuffix(CrLf, line')
     THEN /\ iChunckLength' = Number(line')
          /\ IF Number(line') > 0
             THEN rpc' = "chunk" /\ chunckData' = <<>> /\ UNCHANGED <<ret, got>>
             ELSE Return("SMOOTH") /\ got' = Append(got, v_body) /\ UNCHANGED chunckData
          /\ UNCHANGED <<i, v_head, v_body, i_content_length, over, spent, cut>>
     ELSE LineTurn

(* Mutant: the loop over a chunk goes on until there is more than its size.  *)
ReadChunkPast ==
  /\ rpc = "chunk"
  /\ \E n \in 1..Len(wire) :
       /\ Receives(n, iChunckLength - Len(chunckData))
       /\ chunckData' = chunckData \o SubSeq(wire, 1, n)
  /\ IF Len(chunckData') > iChunckLength
     THEN /\ v_body' = v_body \o chunckData'
          /\ rpc' = "line" /\ i' = 0 /\ line' = <<>> /\ iChunckLength' = 0
     ELSE UNCHANGED <<v_body, rpc, i, line, iChunckLength>>
  /\ UNCHANGED <<v_head, i_content_length, ret, history>>

(* Mutant: a full buffer is asked for, as in read_in_length_mode().         *)
ReadChunkGreedy ==
  /\ rpc = "chunk"
  /\ \E n \in 1..Len(wire) :
       /\ Receives(n, Len(wire))
       /\ chunckData' = chunckData \o SubSeq(wire, 1, n)
  /\ IF Len(chunckData') >= iChunckLength
     THEN /\ v_body' = v_body \o chunckData'
          /\ rpc' = "line" /\ i' = 0 /\ line' = <<>> /\ iChunckLength' = 0
     ELSE UNCHANGED <<v_body, rpc, i, line, iChunckLength>>
  /\ UNCHANGED <<v_head, i_content_length, ret, history>>

(* The data of a chunk: what is missing of it, and no more.                 *)
ReadChunk ==
  /\ rpc = "chunk"
  /\ \E n \in 1..Len(wire) :
       /\ Receives(n, iChunckLength - Len(chunckData))
       /\ chunckData' = chunckData \o SubSeq(wire, 1, n)
  /\ IF Len(chunckData') >= iChunckLength
     THEN /\ v_body' = v_body \o chunckData'
          /\ rpc' = "line" /\ i' = 0 /\ line' = <<>> /\ iChunckLength' = 0
     ELSE UNCHANGED <<v_body, rpc, i, line, iChunckLength>>
  /\ UNCHANGED <<v_head, i_content_length, ret, history>>

(* ::read() fails with EAGAIN or EINTR, which select_rdset() keeps away: the *)
(* loop takes another turn.  The loops over a body do not count it.         *)
Again ==
  /\ ~ timed /\ Waits
  /\ \/ rpc = "head" /\ HeadTurn /\ UNCHANGED <<v_head, over, spent, cut>>
     \/ rpc = "line" /\ LineTurn /\ UNCHANGED line
  /\ UNCHANGED <<timed, pipelines, conn>>

-----------------------------------------------------------------------------
ReadData == ReadHead \/ ReadLength \/ ReadLine \/ ReadChunk
ReaderStep == Read \/ ReadError \/ ReadZero \/ ReadData

Next == Send \/ PeerCloses \/ Reset \/ ReaderStep \/ SelectTimeout \/ SelectError \/ Again

Spec == Init /\ [][Next]_vars

(* The reader is scheduled and keeps calling read(); data in the connection  *)
(* arrives: not every wait can end without it.                              *)
FairSpec == Spec /\ WF_vars(ReaderStep) /\ SF_vars(ReadData)

-----------------------------------------------------------------------------
Bodies == [k \in 1..Len(Messages) |-> Body(Messages[k])]

TypeOK ==
  /\ timed \in BOOLEAN /\ pipelines \in BOOLEAN
  /\ sent \in 0..Len(Messages) /\ peer \in {"open", "closed"} /\ broken \in BOOLEAN
  /\ rpc \in {"idle", "head", "length", "line", "chunk", "closed"}
  /\ rpc = "head" => i < HeadTurns /\ Len(v_head) <= i
  /\ rpc = "length" => Len(v_body) < i_content_length
  /\ rpc = "line" => i < LineTurns /\ Len(line) <= i
  /\ rpc = "chunk" => Len(chunckData) < iChunckLength
  /\ ret \in {"SMOOTH", "TIMEOUT", "CLOSE", "ERROR", "PROTOCOL"}
  /\ over \in BOOLEAN /\ spent \in BOOLEAN /\ cut \in BOOLEAN

(* What makes the reader lose its place: a peer that pipelines, whose next   *)
(* message read_in_length_mode() may take for a part of the body; a socket   *)
(* without a timeout, on which failed reads use up the turns of a size line; *)
(* a call repeated after a timeout in a message.                             *)
Garbled == (over /\ pipelines) \/ (spent /\ ~ timed) \/ cut

(* Wherever the ::read() calls cut the stream, the bodies that http::read()  *)
(* returns with SMOOTH are those that were sent, whole and in order, unless  *)
(* it is garbled: a head, a body of known length, a size line and a chunk    *)
(* never take a byte that belongs to what follows.                           *)
InOrder == IsPrefix(got, Bodies) \/ Garbled

(* http::read() reads a channel of messages, of which this says more than    *)
(* InOrder: a body is not returned before it was sent, and a reader that is  *)
(* told of the peer's close has got every message sent before it.            *)
Channel == INSTANCE MessageChannel WITH
  Message  <- {Bodies[k] : k \in DOMAIN Messages},
  written  <- SubSeq(Bodies, 1, sent),
  returned <- got,
  reader   <- IF rpc # "closed" THEN "open" ELSE IF ret = "CLOSE" THEN "closed" ELSE "failed",
  garbled  <- Garbled

ImplementsChannel == Channel!ChannelSpec

(* A reader that goes on calling http::read() does not hang on a peer that   *)
(* closed, whatever part of a message it was in.                            *)
CloseSeen == peer = "closed" ~> rpc = "closed"
=============================================================================
