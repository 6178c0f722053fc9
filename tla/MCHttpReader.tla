----------------------------- MODULE MCHttpReader -----------------------------
(* HttpReader with a body of two bytes, two chunks whose first looks like    *)
(* line breaks, an empty body and a message that is neither.                 *)
EXTENDS HttpReader

Token(n) == <<"data", n>>

MCMessages ==
  << [mode |-> "length",  chunks |-> << <<Token(1), Token(2)>> >>],
     [mode |-> "chunked", chunks |-> << CrLf, <<Token(3)>> >>],
     [mode |-> "length",  chunks |-> << <<>> >>],
     [mode |-> "none",    chunks |-> <<>>] >>
==============================================================================
