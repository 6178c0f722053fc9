---------------------------- MODULE MCThreadPool ----------------------------
(* ThreadPool on small instances; the cfgs give its constants. *)
EXTENDS ThreadPool
=============================================================================
