---------------------------- MODULE MCJsonChannel ----------------------------
(* JsonChannel with three messages, the middle one empty. *)
EXTENDS JsonChannel

MCMessages == << <<65, 66>>, <<>>, <<2>> >>
==============================================================================
