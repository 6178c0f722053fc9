------------------------------- MODULE Startup -------------------------------
(***************************************************************************)
(* How the server gets hold of its port, and what a failure on the way      *)
(* leaves behind.  A forked process runs work_process() (main.cpp), which   *)
(* starts the thread pool and the main service (main_service.cpp): socket,  *)
(* bind, listen, epoll (epoll.cpp), then three threads.  When one of them   *)
(* fails, work_process() returns, nothing is closed, and the process goes   *)
(* on in the loop of main(): it forks, and its child inherits what is open. *)
(*                                                                          *)
(* Supervisor has the lock file and the signals of the same processes; here *)
(* are their sockets.  The kernel's side of fork(), bind() and listen() is  *)
(* modelled by what it does.  Bounds: the slots Kids are the limit of       *)
(* processes, beyond which fork() fails; at most MaxFaults system calls     *)
(* fail and processes crash.                                                *)
(***************************************************************************)
EXTENDS Naturals

CONSTANTS
  Root,        \* the process started by hand
  Kids,        \* slots for forked processes
  Clients,     \* users of net::connect()
  MaxFaults

Procs == Kids \cup {Root}

ASSUME StartupAssumption == Root \notin Kids /\ MaxFaults \in Nat

VARIABLES
  pc,        \* proc -> where its main thread is
  parent,    \* kid -> the process that forked it; itself if that is gone
  fds,       \* proc -> the sockets it has open; a socket is named after the
             \* process that made it
  sock,      \* kid -> what has been done to its socket
  threads,   \* kid -> the threads that main_service::start() created in it
  conn,      \* client -> how its connection is doing
  at,        \* client -> the socket it connected to
  faults

vars == <<pc, parent, fds, sock, threads, conn, at, faults>>

Dead == {"absent", "zombie"}
Loop == {"fork", "waitpid", "sleep"}
Start == {"pool", "socket", "bind", "listen", "epoll", "clear", "wait", "accept"}

Init ==
  /\ pc = [p \in Procs |-> IF p = Root THEN "fork" ELSE "absent"]
  /\ parent = [q \in Kids |-> q]
  /\ fds = [p \in Procs |-> {}]
  /\ sock = [q \in Kids |-> "none"]
  /\ threads = [q \in Kids |-> {}]
  /\ conn = [c \in Clients |-> "none"]
  /\ at = [c \in Clients |-> Root]
  /\ faults = 0

Goto(p, from, to) ==
  /\ pc[p] = from
  /\ pc' = [pc EXCEPT ![p] = to]

ChildOf(p) == {q \in Kids : parent[q] = p /\ pc[q] # "absent" /\ q # p}

(***************************************************************************)
(* main(): fork, wait, sleep, fork again ...                               *)
(***************************************************************************)
(* The name of a process that left a socket behind is not given again.      *)
Free(q) == pc[q] = "absent" /\ sock[q] = "none"

Fork(p, q) ==
  /\ pc[p] = "fork" /\ Free(q)
  /\ pc' = [pc EXCEPT ![p] = "waitpid", ![q] = "pool"]
  /\ parent' = [parent EXCEPT ![q] = p]
  /\ fds' = [fds EXCEPT ![q] = fds[p]]
  /\ UNCHANGED <<sock, threads, conn, at, faults>>

(* A process keeps only these sockets; gone are those that no other has     *)
(* open, and their connections are reset.                                   *)
Keeps(p, kept) ==
  LET open == kept \cup UNION {fds[o] : o \in Procs \ {p}} IN
  /\ fds' = [fds EXCEPT ![p] = kept]
  /\ sock' = [q \in Kids |-> IF q \in open THEN sock[q] ELSE "none"]
  /\ conn' = [c \in Clients |->
                IF \/ conn[c] = "queued" /\ at[c] \notin open
                   \/ conn[c] = "accepted" /\ at[c] = p
                THEN "reset" ELSE conn[c]]
  /\ UNCHANGED at

(* A process is gone.  Its zombie waits for its parent's waitpid(); its own *)
(* children become orphans.                                                 *)
End(p) ==
  /\ pc' = [o \in Procs |->
              CASE o = p -> IF p \in Kids /\ parent[p] # p THEN "zombie" ELSE "absent"
                [] o \in ChildOf(p) /\ pc[o] = "zombie" -> "absent"
                [] OTHER -> pc[o]]
  /\ parent' = [q \in Kids |-> IF parent[q] = p THEN q ELSE parent[q]]
  /\ threads' = [q \in Kids |-> IF q = p THEN {} ELSE threads[q]]
  /\ Keeps(p, {})

(* exit() of a forked process may hang in ~threadpool(), after ~epoll() has *)
(* closed the socket that its object names: its own, or an inherited one.   *)
ExitHangs(p) ==
  /\ p \in Kids
  /\ pc' = [pc EXCEPT ![p] = "hung"]
  /\ \E s \in fds[p] \cup {p} : Keeps(p, fds[p] \ {s})
  /\ UNCHANGED <<parent, threads>>

(* fork() fails, at the limit of processes or by a fault: main() returns.   *)
ForkFails(p) ==
  /\ pc[p] = "fork"
  /\ \/ (\A q \in Kids : ~ Free(q)) /\ UNCHANGED faults
     \/ faults < MaxFaults /\ faults' = faults + 1
  /\ End(p) \/ ExitHangs(p)

Waitpid(p) ==
  /\ pc[p] = "waitpid"
  /\ \E q \in ChildOf(p) :
       /\ pc[q] = "zombie"
       /\ pc' = [pc EXCEPT ![p] = "sleep", ![q] = "absent"]
       /\ parent' = [parent EXCEPT ![q] = q]
  /\ UNCHANGED <<fds, sock, threads, conn, at, faults>>

(* Mutant: only the process started by hand forks again.                    *)
SleepAtRoot(p) ==
  /\ p = Root
  /\ Goto(p, "sleep", "fork")
  /\ UNCHANGED <<parent, fds, sock, threads, conn, at, faults>>

Sleep(p) ==
  /\ Goto(p, "sleep", "fork")
  /\ UNCHANGED <<parent, fds, sock, threads, conn, at, faults>>

(* A forked process is killed or crashes.                                   *)
Crash(q) ==
  /\ pc[q] \notin Dead
  /\ faults < MaxFaults /\ faults' = faults + 1
  /\ End(q)

(***************************************************************************)
(* work_process()                                                          *)
(***************************************************************************)
PoolStart(q) ==
  /\ Goto(q, "pool", "socket")
  /\ UNCHANGED <<parent, fds, sock, threads, conn, at, faults>>

(* epoll::create().                                                         *)
Socket(q) ==
  /\ Goto(q, "socket", "bind")
  /\ sock' = [sock EXCEPT ![q] = "new"]
  /\ fds' = [fds EXCEPT ![q] = @ \cup {q}]
  /\ UNCHANGED <<parent, threads, conn, at, faults>>

(* Mutant: SO_REUSEPORT instead of SO_REUSEADDR.                            *)
NeverTaken(q) == FALSE

(* With SO_REUSEADDR a port is taken only by a socket that listens on it.   *)
PortTaken(q) == \E s \in Kids \ {q} : sock[s] = "listening"

Bind(q) ==
  /\ ~ PortTaken(q)
  /\ Goto(q, "bind", "listen")
  /\ sock' = [sock EXCEPT ![q] = "bound"]
  /\ UNCHANGED <<parent, fds, threads, conn, at, faults>>

Listen(q) ==
  /\ ~ PortTaken(q)
  /\ Goto(q, "listen", "epoll")
  /\ sock' = [sock EXCEPT ![q] = "listening"]
  /\ UNCHANGED <<parent, fds, threads, conn, at, faults>>

EpollCreate(q) ==
  /\ Goto(q, "epoll", "clear")
  /\ UNCHANGED <<parent, fds, sock, threads, conn, at, faults>>

Spawn(q, routine, next) ==
  /\ Goto(q, routine, next)
  /\ threads' = [threads EXCEPT ![q] = @ \cup {routine}]
  /\ UNCHANGED <<parent, fds, sock, conn, at, faults>>

(* Mutant: the acceptor is created before the waiter.                       *)
AcceptFirst(q) ==
  \/ Spawn(q, "clear", "accept")
  \/ Spawn(q, "accept", "wait")
  \/ Spawn(q, "wait", "serve")

(* main_service::start(): the cleaner, the waiter, last the acceptor.       *)
CreateThreads(q) ==
  \/ Spawn(q, "clear", "wait")
  \/ Spawn(q, "wait", "accept")
  \/ Spawn(q, "accept", "serve")

(* bind() or listen() finds the port taken, or any of the calls fails: both *)
(* start() functions return false and work_process() returns.               *)
StartFails(q) ==
  /\ pc[q] \in Start
  /\ \/ pc[q] \in {"bind", "listen"} /\ PortTaken(q) /\ UNCHANGED faults
     \/ faults < MaxFaults /\ faults' = faults + 1
  /\ Goto(q, pc[q], "sleep")
  /\ UNCHANGED <<parent, fds, sock, threads, conn, at>>

(***************************************************************************)
(* Clients                                                                 *)
(***************************************************************************)
(* net::connect() is answered by the kernel as soon as a socket listens,    *)
(* and refused otherwise; the client closes its descriptor and gives up.    *)
(* A client may be started again, and an accepted connection may end.       *)
Connect(c) ==
  /\ conn[c] # "queued"
  /\ \/ \E s \in Kids :
          /\ sock[s] = "listening"
          /\ conn' = [conn EXCEPT ![c] = "queued"]
          /\ at' = [at EXCEPT ![c] = s]
     \/ /\ \A s \in Kids : sock[s] # "listening"
        /\ conn' = [conn EXCEPT ![c] = "refused"]
        /\ UNCHANGED at
  /\ UNCHANGED <<pc, parent, fds, sock, threads, faults>>

(* Mutant: the loop of the acceptor ends after a connection.                *)
AcceptOnce(q) ==
  \E c \in Clients :
    /\ "accept" \in threads[q] /\ conn[c] = "queued" /\ at[c] = q
    /\ conn' = [conn EXCEPT ![c] = "accepted"]
    /\ threads' = [threads EXCEPT ![q] = @ \ {"accept"}]
    /\ UNCHANGED <<pc, parent, fds, sock, at, faults>>

(* epoll::accept(), by the acceptor thread.                                 *)
Accept(q) ==
  \E c \in Clients :
    /\ "accept" \in threads[q] /\ conn[c] = "queued" /\ at[c] = q
    /\ conn' = [conn EXCEPT ![c] = "accepted"]
    /\ UNCHANGED <<pc, parent, fds, sock, threads, at, faults>>

-----------------------------------------------------------------------------
LoopStep(p) == (\E q \in Kids : Fork(p, q)) \/ ForkFails(p) \/ Waitpid(p) \/ Sleep(p)
WorkStep(q) ==
  \/ PoolStart(q) \/ Socket(q) \/ Bind(q) \/ Listen(q) \/ EpollCreate(q)
  \/ CreateThreads(q) \/ StartFails(q)

Next ==
  \/ \E p \in Procs : LoopStep(p)
  \/ \E q \in Kids : WorkStep(q) \/ Accept(q) \/ Crash(q)
  \/ \E c \in Clients : Connect(c)

Spec == Init /\ [][Next]_vars

(* The system schedules every process and every thread; nothing is assumed  *)
(* of clients, and of faults only that they end (MaxFaults).                *)
FairSpec ==
  /\ Spec
  /\ \A p \in Procs : WF_vars(LoopStep(p))
  /\ \A q \in Kids : WF_vars(WorkStep(q)) /\ WF_vars(Accept(q))

-----------------------------------------------------------------------------
Served == \E q \in Kids : "accept" \in threads[q]

(* Some socket listens for a process that will never accept: its start()    *)
(* failed after listen(), or it died and left the socket to its children.   *)
Held ==
  \E s \in Kids : sock[s] = "listening" /\ pc[s] \notin Start \cup {"serve"}

TypeOK ==
  /\ pc \in [Procs -> Dead \cup Loop \cup Start \cup {"serve", "hung"}]
  /\ parent \in [Kids -> Procs]
  /\ \A p \in Procs : pc[p] = "waitpid" => ChildOf(p) # {}
  /\ fds \in [Procs -> SUBSET Kids] /\ fds[Root] = {}
  /\ sock \in [Kids -> {"none", "new", "bound", "listening"}]
  /\ \A q \in Kids : sock[q] # "none" <=> \E p \in Procs : q \in fds[p]
  /\ threads \in [Kids -> SUBSET {"clear", "wait", "accept"}]
  /\ conn \in [Clients -> {"none", "refused", "queued", "accepted", "reset"}]
  /\ at \in [Clients -> Procs]
  /\ faults \in 0..MaxFaults

(* However many processes try to start the service at the same time, one at *)
(* most accepts connections, and only when every part of its service is     *)
(* there: a connection is never accepted by a process whose start() failed. *)
OneAcceptor ==
  \A q \in Kids : "accept" \in threads[q] =>
    /\ threads[q] = {"clear", "wait", "accept"} /\ pc[q] = "serve"
    /\ \A s \in Kids : sock[s] = "listening" <=> s = q

Hung == \E q \in Kids : pc[q] = "hung"

(* The service comes back after a crash or a failed start, as long as there *)
(* is a process to fork, with two exceptions.  A socket is held: no other   *)
(* can bind to the port.  Or a process hangs in its exit, and those above   *)
(* it wait for it.                                                          *)
Recovers == []<>(Served \/ Held \/ Hung \/ pc[Root] = "absent")

(* Unless a socket is held, whoever got through net::connect() is accepted  *)
(* or told that the connection is gone.                                     *)
NobodyHangs == \A c \in Clients : conn[c] = "queued" ~> conn[c] # "queued" \/ Held
=============================================================================
