------------------------------ MODULE TaskPool ------------------------------
(***************************************************************************)
(* What a pool of worker threads promises to the code that hands it tasks, *)
(* with the mutex, the condition variable and the threads themselves left  *)
(* out: tasks are accepted once, started in the order in which they were   *)
(* accepted, at most MaxRunning at a time, and each ends at most once.     *)
(* ThreadPool implements this specification.                               *)
(***************************************************************************)
EXTENDS Naturals, Sequences, FiniteSets

CONSTANTS
  Tasks,       \* the task objects that may be submitted
  MaxRunning   \* the number of tasks that may run at the same time

VARIABLES
  pending,     \* tasks accepted and not yet started, oldest first
  running,     \* tasks being run
  ended        \* tasks that ran to their end or were thrown away

vars == <<pending, running, ended>>

InUse == {pending[i] : i \in DOMAIN pending} \cup running \cup ended

Init ==
  /\ pending = <<>>
  /\ running = {}
  /\ ended = {}

(* A task is accepted once, behind every task accepted before it. *)
Accept(k) ==
  /\ k \notin InUse
  /\ pending' = Append(pending, k)
  /\ UNCHANGED <<running, ended>>

(* The oldest pending task starts, if fewer than MaxRunning tasks run. *)
Begin ==
  /\ pending # <<>>
  /\ Head(pending) \notin running
  /\ Cardinality(running) < MaxRunning
  /\ running' = running \cup {Head(pending)}
  /\ pending' = Tail(pending)
  /\ UNCHANGED ended

(* A running task ends; it never runs again. *)
End(k) ==
  /\ k \in running
  /\ k \notin ended
  /\ running' = running \ {k}
  /\ ended' = ended \cup {k}
  /\ UNCHANGED pending

(* The pool goes away: what is still pending is thrown away unrun. *)
Discard ==
  /\ pending # <<>>
  /\ ended' = ended \cup {pending[i] : i \in DOMAIN pending}
  /\ pending' = <<>>
  /\ UNCHANGED running

Next ==
  \/ \E k \in Tasks : Accept(k) \/ End(k)
  \/ Begin
  \/ Discard

Spec == Init /\ [][Next]_vars
=============================================================================
