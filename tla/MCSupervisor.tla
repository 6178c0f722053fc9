---------------------------- MODULE MCSupervisor ----------------------------
(* Supervisor on small instances. *)
EXTENDS Supervisor, TLC

(* Instances and process slots are interchangeable among themselves. *)
MCSymmetry == Permutations(Roots) \cup Permutations(Kids)
=============================================================================
