----------------------------- MODULE MCStartup ------------------------------
(* Startup on a small instance. *)
EXTENDS Startup
=============================================================================
