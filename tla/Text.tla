-------------------------------- MODULE Text ---------------------------------
(***************************************************************************)
(* Strings, as far as the URL code looks into them: a string is a sequence  *)
(* of pieces, <<text, number>>, where a piece is one character (SP a blank) *)
(* or a word that the code looks for or copies whole ("amp" for "amp;").    *)
(* Num(n) is the decimal text of n.                                         *)
(***************************************************************************)
EXTENDS Integers, Sequences

CONSTANT Letters    \* the characters and the words

ASSUME LettersAssumption ==
  {"http", "s", ":", "/", "?", "&", "amp", "=", "SP", "HTTP", "VPath"} \subseteq Letters

Piece(c) == <<c, 0>>
Num(n) == <<"number", n>>

(* What a text is made of.                                                  *)
Characters == Letters \X {0}
Pieces == Characters \cup ({"number"} \X Int)

Str(pieces) == [k \in DOMAIN pieces |-> Piece(pieces[k])]

(* string::npos *)
npos == 0

(* find(): where s first occurs in t, at pos or later.                      *)
FindFrom(s, t, pos) ==
  LET at == {k \in pos..(Len(t) - Len(s) + 1) : SubSeq(t, k, k + Len(s) - 1) = s}
  IN IF at = {} THEN npos ELSE CHOOSE k \in at : \A j \in at : k <= j

Find(s, t) == FindFrom(s, t, 1)

(* substr(): what comes before position k, and what comes from there on.    *)
Before(t, k) == SubSeq(t, 1, k - 1)
From(t, k) == SubSeq(t, k, Len(t))

slash == Str(<<"/">>)
http == Str(<<"http", ":", "/", "/">>)
https == Str(<<"http", "s", ":", "/", "/">>)
=============================================================================
