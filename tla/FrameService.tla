---------------------------- MODULE FrameService -----------------------------
(***************************************************************************)
(* What the server promises to its clients, with descriptors, task objects, *)
(* epoll and threads left out: a connection is accepted once and closed at  *)
(* most once, and while it is open the frames that arrived on it are handed *)
(* out one after the other, none before it is complete and none again.      *)
(* Nothing is promised once two threads have met in a task object.          *)
(* MainService implements this specification.                               *)
(***************************************************************************)
EXTENDS Naturals

CONSTANT Conns   \* the connections of the clients

VARIABLES
  phase,       \* conn -> "new", "backlog", "open" or "closed" by the server
  gone,        \* conn -> the client closed or reset its side
  units,       \* conn -> units the client has sent, two to a frame
  handed,      \* conn -> frames handed out
  spoiled,     \* something else was handed out or closed
  overlapped   \* two threads have met in a task object

service == <<phase, gone, units, handed, spoiled, overlapped>>

ServiceInit ==
  /\ phase = [c \in Conns |-> "new"]
  /\ gone = [c \in Conns |-> FALSE]
  /\ units = [c \in Conns |-> 0]
  /\ handed = [c \in Conns |-> 0]
  /\ spoiled = FALSE
  /\ overlapped = FALSE

Advance(c, from, to) ==
  /\ phase[c] = from
  /\ phase' = [phase EXCEPT ![c] = to]

Arrive(c) ==
  /\ Advance(c, "new", "backlog")
  /\ UNCHANGED <<gone, units, handed, spoiled, overlapped>>

Accept(c) ==
  /\ Advance(c, "backlog", "open")
  /\ UNCHANGED <<gone, units, handed, spoiled, overlapped>>

Send(c) ==
  /\ phase[c] \in {"backlog", "open"} /\ ~ gone[c]
  /\ units' = [units EXCEPT ![c] = @ + 1]
  /\ UNCHANGED <<phase, gone, handed, spoiled, overlapped>>

Leave(c) ==
  /\ phase[c] \in {"backlog", "open"} /\ ~ gone[c]
  /\ gone' = [gone EXCEPT ![c] = TRUE]
  /\ UNCHANGED <<phase, units, handed, spoiled, overlapped>>

(* The next frame, once it is complete; also of a client that has left.     *)
Hand(c) ==
  /\ phase[c] = "open"
  /\ 2 * handed[c] + 2 <= units[c]
  /\ handed' = [handed EXCEPT ![c] = @ + 1]
  /\ UNCHANGED <<phase, gone, units, spoiled, overlapped>>

(* What was not handed out by then is lost.                                 *)
Close(c) ==
  /\ Advance(c, "open", "closed")
  /\ gone' = [gone EXCEPT ![c] = FALSE]
  /\ units' = [units EXCEPT ![c] = 0]
  /\ UNCHANGED <<handed, spoiled, overlapped>>

Overlap == overlapped'

ServiceNext ==
  \/ \E c \in Conns :
       Arrive(c) \/ Accept(c) \/ Send(c) \/ Leave(c) \/ Hand(c) \/ Close(c)
  \/ Overlap

ServiceSpec == ServiceInit /\ [][ServiceNext]_service
=============================================================================
