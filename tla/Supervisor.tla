----------------------------- MODULE Supervisor -----------------------------
(***************************************************************************)
(* test/server/main.cpp: the single-instance lock, the loop that forks and *)
(* re-forks the worker process, and the signal handlers.  A process is a   *)
(* program counter, its globals and what it inherited from fork(): the     *)
(* signal handlers, the lock's descriptor and the atexit handler.          *)
(*                                                                         *)
(* The file system, flock() and the process table are modelled by what     *)
(* they do.  A lock file's inode is named after the process that created   *)
(* it.  A flock() belongs to the open file description, so it lasts until  *)
(* the last process of the family that inherited the descriptor closes it. *)
(***************************************************************************)
EXTENDS FiniteSets

CONSTANTS
  Roots,     \* processes started by hand, each an attempt to run the server
  Kids,      \* process slots for fork()
  NoFile,    \* no file at the path; a descriptor of -1
  NoProc     \* gpid_child = 0

Procs == Roots \cup Kids

ASSUME ProcAssumption ==
  /\ Roots \cap Kids = {}
  /\ NoFile \notin Procs
  /\ NoProc \notin Procs

VARIABLES
  path,        \* the inode at g_sLockFile
  lock_fd,     \* proc -> the inode behind g_single_proc_inst_lock_fd
  gpid_child,  \* proc -> gpid_child
  handler,     \* proc -> what SIGTERM and SIGINT do
  parent,      \* proc -> the process that forked it
  pc,          \* proc -> where it is
  pending,     \* processes with a SIGTERM or SIGINT not yet delivered
  stolen,      \* history: a lock file was removed that a process had open
  early,       \* history: roots signalled between fork() and its assignment
  failed       \* history: some work_process() returned

vars == <<path, lock_fd, gpid_child, handler, parent, pc, pending, stolen,
          early, failed>>

Dead == {"absent", "zombie", "gone"}
Exiting == {"onterm", "close", "hung", "remove"}
MainPC == {"open", "flock", "signals", "fork", "assign", "waitpid", "sleep",
           "setup", "start", "serve"}

Init ==
  /\ path = NoFile
  /\ lock_fd = [p \in Procs |-> NoFile]
  /\ gpid_child = [p \in Procs |-> NoProc]
  /\ handler = [p \in Procs |-> "default"]
  /\ parent = [p \in Procs |-> NoProc]
  /\ pc = [p \in Procs |-> "absent"]
  /\ pending = {}
  /\ stolen = FALSE
  /\ early = {}
  /\ failed = FALSE

Live(p) == pc[p] \notin Dead
Children(p) == {q \in Kids : parent[q] = p /\ pc[q] # "absent"}

(* A process ends.  Its zombie waits for its parent, or is taken by init;   *)
(* its own zombies are taken by init, its live children become orphans.     *)
End(p) ==
  /\ pc' = [q \in Procs |->
              CASE q = p -> IF p \in Roots THEN "gone"
                            ELSE IF parent[p] # NoProc THEN "zombie" ELSE "absent"
                [] q \in Children(p) /\ pc[q] = "zombie" -> "absent"
                [] OTHER -> pc[q]]
  /\ parent' = [q \in Procs |-> IF parent[q] = p THEN NoProc ELSE parent[q]]
  /\ lock_fd' = [lock_fd EXCEPT ![p] = NoFile]
  /\ gpid_child' = [gpid_child EXCEPT ![p] = NoProc]
  /\ handler' = [handler EXCEPT ![p] = "default"]
  /\ pending' = pending \ {p}

Goto(p, from, to) ==
  /\ pc[p] = from
  /\ pc' = [pc EXCEPT ![p] = to]

(***************************************************************************)
(* is_single_proc_inst_running()                                           *)
(***************************************************************************)
Start(r) ==
  /\ Goto(r, "absent", "open")
  /\ UNCHANGED <<path, lock_fd, gpid_child, handler, parent, pending, stolen,
                 early, failed>>

(* open(O_CREAT): the file at the path, or a new one.                       *)
Open(r) ==
  /\ Goto(r, "open", "flock")
  /\ path' = IF path = NoFile THEN r ELSE path
  /\ lock_fd' = [lock_fd EXCEPT ![r] = path']
  /\ UNCHANGED <<gpid_child, handler, parent, pending, stolen, early, failed>>

(* open() fails: reported as "system is running already".                   *)
OpenFails(r) ==
  /\ pc[r] = "open"
  /\ End(r)
  /\ UNCHANGED <<path, stolen, early, failed>>

(* Someone past flock() still has the locked description open.              *)
Locked(i) == \E p \in Procs : Live(p) /\ pc[p] # "flock" /\ lock_fd[p] = i

(* Mutant: LOCK_SH instead of LOCK_EX.                                      *)
FlockShared(r) ==
  /\ Goto(r, "flock", "signals")
  /\ UNCHANGED <<path, lock_fd, gpid_child, handler, parent, pending, stolen,
                 early, failed>>

(* flock(LOCK_EX | LOCK_NB) succeeds; the cleanup is registered to atexit.  *)
Flock(r) ==
  /\ ~ Locked(lock_fd[r])
  /\ Goto(r, "flock", "signals")
  /\ UNCHANGED <<path, lock_fd, gpid_child, handler, parent, pending, stolen,
                 early, failed>>

(* "system is running already. exit..."                                     *)
FlockRefused(r) ==
  /\ pc[r] = "flock"
  /\ Locked(lock_fd[r])
  /\ End(r)
  /\ UNCHANGED <<path, stolen, early, failed>>

(***************************************************************************)
(* main(): install the handlers, then fork, wait, sleep, fork again ...    *)
(***************************************************************************)
InstallParent(r) ==
  /\ Goto(r, "signals", "fork")
  /\ handler' = [handler EXCEPT ![r] = "parent"]
  /\ UNCHANGED <<path, lock_fd, gpid_child, parent, pending, stolen, early, failed>>

(* The child is there, with gpid_child = 0; the parent's gpid_child is      *)
(* assigned in its next step.  A pid is not reused at once.                 *)
Fork(p, q) ==
  /\ pc[p] = "fork"
  /\ pc[q] = "absent"
  /\ q # gpid_child[p]
  /\ pc' = [pc EXCEPT ![p] = "assign", ![q] = "setup"]
  /\ parent' = [parent EXCEPT ![q] = p]
  /\ handler' = [handler EXCEPT ![q] = handler[p]]
  /\ lock_fd' = [lock_fd EXCEPT ![q] = lock_fd[p]]
  /\ gpid_child' = [gpid_child EXCEPT ![q] = NoProc]
  /\ UNCHANGED <<path, pending, stolen, early, failed>>

(* fork() fails: main returns, which runs the atexit handler.               *)
ForkFails(p) ==
  /\ Goto(p, "fork", "close")
  /\ UNCHANGED <<path, lock_fd, gpid_child, handler, parent, pending, stolen,
                 early, failed>>

Newest(p, q) == parent[q] = p /\ pc[q] # "absent"

Assign(p, q) ==
  /\ Newest(p, q)
  /\ Goto(p, "assign", "waitpid")
  /\ gpid_child' = [gpid_child EXCEPT ![p] = q]
  /\ UNCHANGED <<path, lock_fd, handler, parent, pending, stolen, early, failed>>

(* waitpid() returns and the zombie's process slot is free.                 *)
Waitpid(p, q) ==
  /\ gpid_child[p] = q /\ pc[q] = "zombie"
  /\ pc[p] = "waitpid"
  /\ pc' = [pc EXCEPT ![p] = "sleep", ![q] = "absent"]
  /\ parent' = [parent EXCEPT ![q] = NoProc]
  /\ UNCHANGED <<path, lock_fd, gpid_child, handler, pending, stolen, early, failed>>

(* Mutant: after the sleep the loop waits again instead of forking.         *)
SleepThenWait(p) ==
  /\ Goto(p, "sleep", "waitpid")
  /\ UNCHANGED <<path, lock_fd, gpid_child, handler, parent, pending, stolen,
                 early, failed>>

Sleep(p) ==
  /\ Goto(p, "sleep", "fork")
  /\ UNCHANGED <<path, lock_fd, gpid_child, handler, parent, pending, stolen,
                 early, failed>>

(***************************************************************************)
(* work_process(), in the child                                            *)
(***************************************************************************)
InstallChild(q) ==
  /\ Goto(q, "setup", "start")
  /\ handler' = [handler EXCEPT ![q] = "child"]
  /\ UNCHANGED <<path, lock_fd, gpid_child, parent, pending, stolen, early, failed>>

(* bind() succeeds only while no other process listens on the port.         *)
ServiceStarts(q) ==
  /\ \A p \in Procs : pc[p] # "serve"
  /\ Goto(q, "start", "serve")
  /\ UNCHANGED <<path, lock_fd, gpid_child, handler, parent, pending, stolen,
                 early, failed>>

(* threadpool or main_service start() fails: work_process() returns into    *)
(* the loop of main(), and the child goes on as if it were the parent.      *)
ServiceFails(q) ==
  /\ Goto(q, "start", "sleep")
  /\ failed' = TRUE
  /\ UNCHANGED <<path, lock_fd, gpid_child, handler, parent, pending, stolen, early>>

(* The worker process crashes: no atexit handler runs.                      *)
Crash(q) ==
  /\ pc[q] = "serve"
  /\ End(q)
  /\ UNCHANGED <<path, stolen, early, failed>>

(***************************************************************************)
(* SIGTERM, SIGINT and exit()                                              *)
(***************************************************************************)
(* Someone signals a process: the operator, a terminal, the system.         *)
Kill(p) ==
  /\ Live(p)
  /\ p \notin pending
  /\ pending' = pending \cup {p}
  /\ UNCHANGED <<path, lock_fd, gpid_child, handler, parent, pc, stolen, early, failed>>

Interruptible(p) == p \in pending /\ pc[p] \in MainPC

DeliverDefault(p) ==
  /\ Interruptible(p) /\ handler[p] = "default"
  /\ End(p)
  /\ UNCHANGED <<path, stolen, early, failed>>

(* sig_handler_child: exit(0).                                              *)
DeliverChild(p) ==
  /\ Interruptible(p) /\ handler[p] = "child"
  /\ pc' = [pc EXCEPT ![p] = "close"]
  /\ pending' = pending \ {p}
  /\ UNCHANGED <<path, lock_fd, gpid_child, handler, parent, stolen, early, failed>>

(* Mutant: sig_handler_parent exits without waitpid().                      *)
DeliverUnwaited(p) ==
  /\ Interruptible(p) /\ handler[p] = "parent"
  /\ pc' = [pc EXCEPT ![p] = "close"]
  /\ pending' = (pending \ {p}) \cup
                (IF gpid_child[p] # NoProc /\ Live(gpid_child[p])
                 THEN {gpid_child[p]} ELSE {})
  /\ early' = IF pc[p] = "assign" THEN early \cup {p} ELSE early
  /\ UNCHANGED <<path, lock_fd, gpid_child, handler, parent, stolen, failed>>

(* Mutant: sig_handler_parent does not pass the signal on to the child.     *)
DeliverUnkilled(p) ==
  /\ Interruptible(p) /\ handler[p] = "parent"
  /\ pc' = [pc EXCEPT ![p] = "onterm"]
  /\ pending' = pending \ {p}
  /\ early' = IF pc[p] = "assign" THEN early \cup {p} ELSE early
  /\ UNCHANGED <<path, lock_fd, gpid_child, handler, parent, stolen, failed>>

(* sig_handler_parent: signal the child, then wait for it.                  *)
DeliverParent(p) ==
  /\ Interruptible(p) /\ handler[p] = "parent"
  /\ pc' = [pc EXCEPT ![p] = "onterm"]
  /\ pending' = (pending \ {p}) \cup
                (IF gpid_child[p] # NoProc /\ Live(gpid_child[p])
                 THEN {gpid_child[p]} ELSE {})
  /\ early' = IF pc[p] = "assign" THEN early \cup {p} ELSE early
  /\ UNCHANGED <<path, lock_fd, gpid_child, handler, parent, stolen, failed>>

(* waitpid(gpid_child) in the handler, then exit(0).  waitpid(0) waits for  *)
(* a child of any pid; waitpid() of what is no child returns at once.       *)
WaitDone(p) ==
  /\ IF gpid_child[p] = NoProc
     THEN Children(p) = {} \/ \E q \in Children(p) : pc[q] = "zombie"
     ELSE gpid_child[p] \in Children(p) => pc[gpid_child[p]] = "zombie"
  /\ Goto(p, "onterm", "close")
  /\ UNCHANGED <<path, lock_fd, gpid_child, handler, parent, pending, stolen,
                 early, failed>>

(* exit() of a process that has a thread pool runs ~threadpool() first,     *)
(* which may never return (see ThreadPool): a worker of the pool went to    *)
(* sleep after the broadcast, or the condition variable was copied by       *)
(* fork() with workers asleep on it.                                        *)
ExitHangs(q) ==
  /\ handler[q] = "child"
  /\ Goto(q, "close", "hung")
  /\ UNCHANGED <<path, lock_fd, gpid_child, handler, parent, pending, stolen,
                 early, failed>>

(* single_proc_inst_lockfile_cleanup(), in whichever process exits: close   *)
(* the descriptor, then remove what is at the path by then.                 *)
CleanupClose(p) ==
  /\ Goto(p, "close", "remove")
  /\ lock_fd' = [lock_fd EXCEPT ![p] = NoFile]
  /\ UNCHANGED <<path, gpid_child, handler, parent, pending, stolen, early, failed>>

Opened(i) == \E q \in Procs : Live(q) /\ lock_fd[q] = i

CleanupRemove(p) ==
  /\ pc[p] = "remove"
  /\ path' = NoFile
  /\ stolen' = (stolen \/ (path # NoFile /\ Opened(path)))
  /\ End(p)
  /\ UNCHANGED <<early, failed>>

-----------------------------------------------------------------------------
ProcStep(p) ==
  \/ Open(p) \/ Flock(p) \/ FlockRefused(p) \/ InstallParent(p)
  \/ \E q \in Kids : Fork(p, q) \/ Assign(p, q) \/ Waitpid(p, q)
  \/ Sleep(p) \/ InstallChild(p)
  \/ WaitDone(p) \/ CleanupClose(p) \/ CleanupRemove(p)

Deliver(p) == DeliverDefault(p) \/ DeliverChild(p) \/ DeliverParent(p)

Next ==
  \/ \E r \in Roots : Start(r) \/ OpenFails(r)
  \/ \E p \in Procs : ProcStep(p) \/ Deliver(p) \/ ForkFails(p) \/ Kill(p)
  \/ \E q \in Kids : ServiceStarts(q) \/ ServiceFails(q) \/ Crash(q) \/ ExitHangs(q)

Spec == Init /\ [][Next]_vars

(* The system schedules every process and delivers its signals.  Nothing is *)
(* assumed of operators, of crashes or of how long work_process() takes.    *)
Fairness == \A p \in Procs : WF_vars(ProcStep(p)) /\ WF_vars(Deliver(p))

FairSpec == Spec /\ Fairness

-----------------------------------------------------------------------------
TypeOK ==
  /\ path \in Roots \cup {NoFile}
  /\ lock_fd \in [Procs -> Roots \cup {NoFile}]
  /\ gpid_child \in [Procs -> Kids \cup {NoProc}]
  /\ handler \in [Procs -> {"default", "parent", "child"}]
  /\ parent \in [Procs -> Procs \cup {NoProc}]
  /\ pc \in [Procs -> MainPC \cup Exiting \cup Dead]
  /\ \A p \in Procs : pc[p] = "waitpid" => gpid_child[p] \in Children(p)
  /\ pending \subseteq Procs

(* r got past the lock and has not given it up.                             *)
Running(r) == Live(r) /\ pc[r] \notin {"open", "flock", "remove"}

(* main.cpp:116 "system is running already. exit...": a second instance     *)
(* does not get past the lock while one is running.                         *)
OneInstance ==
  \A r, s \in Roots : Running(r) /\ Running(s) => r = s

(* The lock itself is sound: two instances run only after the cleanup of    *)
(* some exit() removed a lock file that another process still had open:     *)
(* its own supervisor, an instance that took over in between, or one that   *)
(* was about to call flock().                                               *)
OneInstanceUnlessStolen == OneInstance \/ stolen

(* Stopping an instance stops its worker: no worker process survives the    *)
(* exit of the process that forked it, unless the signal came between       *)
(* fork() and the assignment of gpid_child, or a work_process() returned    *)
(* and its process became a supervisor without a supervisor's handler.      *)
NoOrphan ==
  \A q \in Kids : Live(q) /\ parent[q] = NoProc => early # {} \/ failed

(* A worker that crashed or exited is replaced, until the supervisor is     *)
(* told to stop (or there is no process slot left in the bounded model).    *)
Full(r) == \A q \in Kids : pc[q] # "absent" \/ q = gpid_child[r]
WorkerReplaced ==
  \A r \in Roots :
    pc[r] = "waitpid" /\ pc[gpid_child[r]] = "zombie" ~>
      \/ \E q \in Kids : parent[q] = r /\ Live(q)
      \/ pc[r] \in Exiting \cup Dead
      \/ Full(r)

(* A supervisor told to stop does stop, with two exceptions: the signal     *)
(* came between fork() and the assignment of gpid_child, and it waits for a *)
(* child that it never signalled; or a child of its hangs in its own exit.  *)
TermCompletes ==
  \A r \in Roots :
    pc[r] = "onterm" ~>
      pc[r] = "gone" \/ r \in early \/ \E q \in Children(r) : pc[q] = "hung"
=============================================================================
