--------------------------- MODULE MessageChannel ----------------------------
(***************************************************************************)
(* What a reader of a connection may rely on, whatever the format: it gets  *)
(* the messages that were written, whole and in order, until it has to give *)
(* the connection up; when it is told that the peer closed, it has got them *)
(* all.  A reader that has lost its place in the stream is garbled, and     *)
(* nothing is promised to it any more.  JsonChannel and HttpReader say when *)
(* that happens, and implement this module.                                 *)
(***************************************************************************)
EXTENDS Naturals, Sequences

CONSTANT Message

VARIABLES
  written,     \* the messages handed to the connection
  returned,    \* the messages the reader got
  reader,      \* "open", "closed" by the peer, "failed"
  garbled

channel == <<written, returned, reader, garbled>>

ChannelInit ==
  /\ written = <<>> /\ returned = <<>>
  /\ reader = "open" /\ garbled = FALSE

(* A peer that has closed writes no more.                                   *)
Write ==
  /\ reader # "closed"
  /\ \E m \in Message : written' = Append(written, m)
  /\ UNCHANGED <<returned, reader, garbled>>

Return ==
  /\ reader = "open"
  /\ Len(returned) < Len(written)
  /\ returned' = Append(returned, written[Len(returned) + 1])
  /\ UNCHANGED <<written, reader, garbled>>

PeerClosed ==
  /\ reader = "open"
  /\ returned = written
  /\ reader' = "closed"
  /\ UNCHANGED <<written, returned, garbled>>

(* A reset, a signal, a message of no known format.                         *)
GiveUp ==
  /\ reader = "open"
  /\ reader' = "failed"
  /\ UNCHANGED <<written, returned, garbled>>

Garbled == garbled'

ChannelNext == Garbled \/ Write \/ Return \/ PeerClosed \/ GiveUp

ChannelSpec == ChannelInit /\ [][ChannelNext]_channel

-----------------------------------------------------------------------------
(* Until the reader is garbled it has got a prefix of what was written ...  *)
ReturnedInOrder ==
  ~ garbled =>
    /\ Len(returned) <= Len(written)
    /\ \A k \in 1..Len(returned) : returned[k] = written[k]

(* ... and all of it when it sees the peer's close.                         *)
AllAtClose == ~ garbled /\ reader = "closed" => returned = written
=============================================================================
