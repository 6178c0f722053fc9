--------------------------- MODULE MCMainService ---------------------------
(* MainService on small instances. *)
EXTENDS MainService, TLC

(* Workers and connections are interchangeable among themselves. *)
MCSymmetry == Permutations(Workers) \cup Permutations(Conns)

(* The invariants promise nothing after the first overlap, and nothing      *)
(* undoes it, so the states behind it need not be explored.                 *)
MCUnshared == ~ shared
=============================================================================
