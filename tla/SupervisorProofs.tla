-------------------------- MODULE SupervisorProofs --------------------------
(***************************************************************************)
(* What TLAPS proves of Supervisor, for any number of instances and of     *)
(* process slots: the shape of the state, that two instances run only      *)
(* after a lock file was removed under a process that had it open, and     *)
(* that stopping an instance stops its worker, with the exceptions that    *)
(* NoOrphan names.                                                         *)
(*                                                                         *)
(* The invariant has two independent parts.  Locks follows the lock file:  *)
(* until one is stolen, whoever has a lock file open has the one at the    *)
(* path, so that flock() tells the instances apart.  Families follows the  *)
(* children of an instance from fork() to waitpid(): until a signal comes  *)
(* early or a work_process() returns, an instance has one child at most,   *)
(* knows which one it is when it waits for it, and gives up its lock only  *)
(* without a live one.                                                     *)
(***************************************************************************)
EXTENDS Supervisor, TLAPS

Loop == {"fork", "assign", "waitpid", "sleep"}
Locking == {"flock", "signals"} \cup Loop \cup {"onterm", "close"}
RootPC == {"absent", "open"} \cup Locking \cup {"remove", "gone"}
KidPC == {"absent", "zombie", "setup", "start", "serve"} \cup Loop
         \cup {"onterm", "close", "hung", "remove"}

SupervisorType ==
  /\ path \in Roots \cup {NoFile}
  /\ lock_fd \in [Procs -> Roots \cup {NoFile}]
  /\ gpid_child \in [Procs -> Kids \cup {NoProc}]
  /\ handler \in [Procs -> {"default", "parent", "child"}]
  /\ parent \in [Procs -> Procs \cup {NoProc}]
  /\ pc \in [Procs -> RootPC \cup KidPC]
  /\ \A r \in Roots : pc[r] \in RootPC
  /\ \A q \in Kids : pc[q] \in KidPC
  /\ pending \subseteq Procs

(* waitpid() has a child to wait for.                                       *)
Waits == \A p \in Procs : pc[p] = "waitpid" => gpid_child[p] \in Children(p)

(* An instance has the supervisor's handler in the loop of main(), and none *)
(* before it.                                                               *)
Handlers ==
  \A r \in Roots : /\ handler[r] \in {"default", "parent"}
                   /\ pc[r] \in Loop => handler[r] = "parent"
                   /\ handler[r] = "parent" => pc[r] \in Loop \cup Exiting

(* Where an instance has the lock file open, and who may have it open.      *)
Locks ==
  /\ \A p \in Procs : ~ Live(p) => lock_fd[p] = NoFile
  /\ \A r \in Roots : pc[r] \in Locking => lock_fd[r] # NoFile
  /\ \A r \in Roots : pc[r] \in {"absent", "open"} => lock_fd[r] = NoFile
  /\ ~ stolen => \A p \in Procs : lock_fd[p] \in {path, NoFile}
  /\ OneInstanceUnlessStolen

Calm == early = {} /\ ~ failed

Family(r) ==
  /\ pc[r] \in RootPC \ {"assign", "waitpid", "onterm", "close", "remove"} => Children(r) = {}
  /\ pc[r] = "assign" => \E q \in Kids : Children(r) = {q}
  /\ pc[r] \in {"waitpid", "onterm"} => Children(r) \subseteq {gpid_child[r]}
  /\ pc[r] \in {"close", "remove"} => \A q \in Children(r) : ~ Live(q)

Related(q) == pc[q] # "absent" => parent[q] \in Roots /\ pc[q] \notin Loop

Kin == (\A q \in Kids : Related(q)) /\ (\A r \in Roots : Family(r))

Families == Calm => Kin

SupervisorInv == SupervisorType /\ Waits /\ Handlers /\ Locks /\ Families

-----------------------------------------------------------------------------
(* What the end of a process does to it and to all others: its zombies are  *)
(* gone, its live children have no parent, and nobody else notices.         *)
LEMMA EndOthers ==
  ASSUME SupervisorType, NEW p \in Procs, Live(p), End(p)
  PROVE  /\ pc' \in [Procs -> RootPC \cup KidPC]
         /\ p \in Roots => pc'[p] = "gone"
         /\ p \in Kids => pc'[p] \in {"zombie", "absent"}
         /\ \A x \in Procs : x # p =>
              pc'[x] = pc[x] \/ (x \in Kids /\ pc[x] = "zombie" /\ pc'[x] = "absent")
         /\ \A x \in Children(p) : x # p /\ pc[x] = "zombie" => pc'[x] = "absent"
         /\ Children(p)' = {}
         /\ \A x \in Procs : x # p => Children(x)' = Children(x)
<1> USE ProcAssumption DEF SupervisorType, Procs
<1>1. \A x \in Procs :
        pc'[x] = CASE x = p -> IF p \in Roots THEN "gone"
                               ELSE IF parent[p] # NoProc THEN "zombie" ELSE "absent"
                   [] x \in Children(p) /\ pc[x] = "zombie" -> "absent"
                   [] OTHER -> pc[x]
  BY DEF End
<1>2. \A x \in Procs : parent'[x] = IF parent[x] = p THEN NoProc ELSE parent[x]
  BY DEF End
<1>3. p \in Roots => pc'[p] = "gone"
  BY <1>1 DEF Live, Dead
<1>4. p \in Kids => pc'[p] = IF parent[p] # NoProc THEN "zombie" ELSE "absent"
  BY <1>1 DEF Live, Dead
<1>5. \A x \in Procs : x # p /\ x \in Children(p) /\ pc[x] = "zombie" => pc'[x] = "absent"
  BY <1>1
<1>6. \A x \in Procs : x # p /\ ~ (x \in Children(p) /\ pc[x] = "zombie") => pc'[x] = pc[x]
  BY <1>1
<1>7. \A x \in Children(p) : x \in Kids
  BY DEF Children
<1>8. \A x \in Procs : pc'[x] \in RootPC \cup KidPC
  BY <1>3, <1>4, <1>5, <1>6 DEF RootPC, KidPC
<1>9. pc' \in [Procs -> RootPC \cup KidPC]
  <2>1. pc' = [x \in Procs |-> pc'[x]]
    BY DEF End
  <2> QED
    BY <1>8, <2>1
<1>10. Children(p)' = {}
  BY <1>2 DEF Children
<1>11. ASSUME NEW x \in Procs, x # p PROVE Children(x)' = Children(x)
  <2>1. ASSUME NEW q \in Kids, parent[q] = x, pc[q] # "absent"
        PROVE  parent'[q] = x /\ pc'[q] # "absent"
    BY <1>2, <1>4, <1>6, <1>11, <2>1 DEF Children
  <2>2. ASSUME NEW q \in Kids, parent'[q] = x, pc'[q] # "absent"
        PROVE  parent[q] = x /\ pc[q] # "absent"
    BY <1>2, <1>5, <1>6, <1>11, <2>2 DEF Children, Live, Dead
  <2> QED
    BY <2>1, <2>2 DEF Children
<1> QED
  BY <1>3, <1>4, <1>5, <1>6, <1>7, <1>9, <1>10, <1>11

(* The shape of the state; which process is where.                          *)
LEMMA EndType ==
  ASSUME SupervisorType, NEW p \in Procs, Live(p), End(p), path' \in Roots \cup {NoFile}
  PROVE  SupervisorType'
<1> USE ProcAssumption DEF Procs
<1>1. /\ pc' \in [Procs -> RootPC \cup KidPC]
      /\ p \in Roots => pc'[p] = "gone"
      /\ p \in Kids => pc'[p] \in {"zombie", "absent"}
      /\ \A x \in Procs : x # p =>
           pc'[x] = pc[x] \/ (x \in Kids /\ pc[x] = "zombie" /\ pc'[x] = "absent")
  BY EndOthers
<1>2. (\A r \in Roots : pc'[r] \in RootPC) /\ (\A q \in Kids : pc'[q] \in KidPC)
  BY <1>1 DEF SupervisorType, RootPC, KidPC
<1> QED
  BY <1>1, <1>2 DEF End, SupervisorType

(* Every step of every process keeps the shape of the state.                *)
LEMMA TypeStep ==
  ASSUME SupervisorType, [Next]_vars
  PROVE  SupervisorType'
<1> USE ProcAssumption DEF Procs
<1>1. ASSUME NEW r \in Roots, Start(r) PROVE SupervisorType'
  BY <1>1 DEF Start, Goto, SupervisorType, RootPC, KidPC, Locking, Loop
<1>2. ASSUME NEW r \in Roots, OpenFails(r) PROVE SupervisorType'
  <2>1. r \in Procs /\ Live(r) /\ End(r) /\ path' \in Roots \cup {NoFile}
    BY <1>2 DEF OpenFails, SupervisorType, Live, Dead, Interruptible, MainPC
  <2> QED
    BY <2>1, EndType
<1>3. ASSUME NEW p \in Procs, Open(p) PROVE SupervisorType'
  BY <1>3 DEF Open, Goto, SupervisorType, RootPC, KidPC, Locking, Loop
<1>4. ASSUME NEW p \in Procs, Flock(p) PROVE SupervisorType'
  BY <1>4 DEF Flock, Goto, SupervisorType, RootPC, KidPC, Locking, Loop
<1>5. ASSUME NEW p \in Procs, FlockRefused(p) PROVE SupervisorType'
  <2>1. p \in Procs /\ Live(p) /\ End(p) /\ path' \in Roots \cup {NoFile}
    BY <1>5 DEF FlockRefused, SupervisorType, Live, Dead, Interruptible, MainPC
  <2> QED
    BY <2>1, EndType
<1>6. ASSUME NEW p \in Procs, InstallParent(p) PROVE SupervisorType'
  BY <1>6 DEF InstallParent, Goto, SupervisorType, RootPC, KidPC, Locking, Loop
<1>7. ASSUME NEW p \in Procs, NEW q \in Kids, Fork(p, q) PROVE SupervisorType'
  BY <1>7 DEF Fork, SupervisorType, RootPC, KidPC, Locking, Loop
<1>8. ASSUME NEW p \in Procs, NEW q \in Kids, Assign(p, q) PROVE SupervisorType'
  BY <1>8 DEF Assign, Goto, SupervisorType, RootPC, KidPC, Locking, Loop
<1>9. ASSUME NEW p \in Procs, NEW q \in Kids, Waitpid(p, q) PROVE SupervisorType'
  BY <1>9 DEF Waitpid, Goto, SupervisorType, RootPC, KidPC, Locking, Loop
<1>10. ASSUME NEW p \in Procs, Sleep(p) PROVE SupervisorType'
  BY <1>10 DEF Sleep, Goto, SupervisorType, RootPC, KidPC, Locking, Loop
<1>11. ASSUME NEW p \in Procs, InstallChild(p) PROVE SupervisorType'
  BY <1>11 DEF InstallChild, Goto, SupervisorType, RootPC, KidPC, Locking, Loop
<1>12. ASSUME NEW p \in Procs, WaitDone(p) PROVE SupervisorType'
  BY <1>12 DEF WaitDone, Goto, SupervisorType, RootPC, KidPC, Locking, Loop
<1>13. ASSUME NEW p \in Procs, CleanupClose(p) PROVE SupervisorType'
  BY <1>13 DEF CleanupClose, Goto, SupervisorType, RootPC, KidPC, Locking, Loop
<1>14. ASSUME NEW p \in Procs, CleanupRemove(p) PROVE SupervisorType'
  <2>1. p \in Procs /\ Live(p) /\ End(p) /\ path' \in Roots \cup {NoFile}
    BY <1>14 DEF CleanupRemove, SupervisorType, Live, Dead, Interruptible, MainPC
  <2> QED
    BY <2>1, EndType
<1>15. ASSUME NEW p \in Procs, DeliverDefault(p) PROVE SupervisorType'
  <2>1. p \in Procs /\ Live(p) /\ End(p) /\ path' \in Roots \cup {NoFile}
    BY <1>15 DEF DeliverDefault, SupervisorType, Live, Dead, Interruptible, MainPC
  <2> QED
    BY <2>1, EndType
<1>16. ASSUME NEW p \in Procs, DeliverChild(p) PROVE SupervisorType'
  BY <1>16 DEF DeliverChild, Goto, SupervisorType, RootPC, KidPC, Locking, Loop,
     Interruptible, MainPC, Live, Dead
<1>17. ASSUME NEW p \in Procs, DeliverParent(p) PROVE SupervisorType'
  BY <1>17 DEF DeliverParent, Goto, SupervisorType, RootPC, KidPC, Locking, Loop,
     Interruptible, MainPC, Live, Dead
<1>18. ASSUME NEW p \in Procs, ForkFails(p) PROVE SupervisorType'
  BY <1>18 DEF ForkFails, Goto, SupervisorType, RootPC, KidPC, Locking, Loop
<1>19. ASSUME NEW p \in Procs, Kill(p) PROVE SupervisorType'
  BY <1>19 DEF Kill, Goto, SupervisorType, RootPC, KidPC, Locking, Loop
<1>20. ASSUME NEW q \in Kids, ServiceStarts(q) PROVE SupervisorType'
  BY <1>20 DEF ServiceStarts, Goto, SupervisorType, RootPC, KidPC, Locking, Loop
<1>21. ASSUME NEW q \in Kids, ServiceFails(q) PROVE SupervisorType'
  BY <1>21 DEF ServiceFails, Goto, SupervisorType, RootPC, KidPC, Locking, Loop
<1>22. ASSUME NEW q \in Kids, Crash(q) PROVE SupervisorType'
  <2>1. q \in Procs /\ Live(q) /\ End(q) /\ path' \in Roots \cup {NoFile}
    BY <1>22 DEF Crash, SupervisorType, Live, Dead, Interruptible, MainPC
  <2> QED
    BY <2>1, EndType
<1>23. ASSUME NEW q \in Kids, ExitHangs(q) PROVE SupervisorType'
  BY <1>23 DEF ExitHangs, Goto, SupervisorType, RootPC, KidPC, Locking, Loop
<1>24. CASE UNCHANGED vars
  BY <1>24 DEF vars, SupervisorType
<1> QED
  BY <1>1, <1>2, <1>3, <1>4, <1>5, <1>6, <1>7, <1>8, <1>9, <1>10, <1>11, <1>12, <1>13,
     <1>14, <1>15, <1>16, <1>17, <1>18, <1>19, <1>20, <1>21, <1>22, <1>23, <1>24
  DEF Next, ProcStep, Deliver

-----------------------------------------------------------------------------
(* One process moves and no process comes or goes: every family stays.      *)
LEMMA SameChildren ==
  ASSUME NEW p \in Procs, \A x \in Procs : x # p => pc'[x] = pc[x],
         p \in Kids => (pc'[p] = "absent" <=> pc[p] = "absent"), parent' = parent
  PROVE  \A x : Children(x)' = Children(x)
<1>1. \A q \in Kids : (pc'[q] = "absent" <=> pc[q] = "absent")
  BY DEF Procs
<1> QED
  BY <1>1 DEF Children

(* What fork() and waitpid() do to the families.                            *)
LEMMA ForkChildren ==
  ASSUME SupervisorType, NEW p \in Procs, NEW q \in Kids, Fork(p, q)
  PROVE  /\ Children(p)' = Children(p) \cup {q}
         /\ \A x : x # p => Children(x)' = Children(x)
<1>1. /\ pc[q] = "absent" /\ pc'[q] = "setup" /\ parent'[q] = p /\ p # q
      /\ \A x \in Kids : x # q => parent'[x] = parent[x] /\ (pc'[x] = "absent" <=> pc[x] = "absent")
  BY DEF Fork, SupervisorType, Procs
<1> QED
  BY <1>1 DEF Children

(* waitpid() takes the child from whatever family it was in.                *)
LEMMA WaitpidChildren ==
  ASSUME SupervisorType, NEW p \in Procs, NEW q \in Kids, Waitpid(p, q)
  PROVE  \A x : Children(x)' = Children(x) \ {q}
<1>1. /\ pc'[q] = "absent" /\ p # q
      /\ \A x \in Kids : x # q => parent'[x] = parent[x] /\ (pc'[x] = "absent" <=> pc[x] = "absent")
  BY DEF Waitpid, SupervisorType, Procs
<1> QED
  BY <1>1 DEF Children

(* A process in waitpid() keeps the child it waits for.                     *)
LEMMA WaitsStep ==
  ASSUME SupervisorType, Waits, [Next]_vars
  PROVE  Waits'
<1> USE ProcAssumption DEF Procs
<1>e. ASSUME NEW p \in Procs, Live(p), End(p) PROVE Waits'
  <2>1. ASSUME NEW x \in Procs, pc'[x] = "waitpid" PROVE gpid_child'[x] \in Children(x)'
    <3>1. x # p /\ pc[x] = "waitpid" /\ Children(x)' = Children(x)
      BY <1>e, <2>1, EndOthers
    <3>2. gpid_child'[x] = gpid_child[x]
      BY <1>e, <3>1 DEF End, SupervisorType
    <3> QED
      BY <3>1, <3>2 DEF Waits
  <2> QED
    BY <2>1 DEF Waits
<1>q. ASSUME NEW p \in Procs, \A x \in Procs : x # p => pc'[x] = pc[x],
             p \in Kids => (pc'[p] = "absent" <=> pc[p] = "absent"),
             parent' = parent, gpid_child' = gpid_child,
             pc'[p] = "waitpid" => pc[p] = "waitpid"
      PROVE  Waits'
  <2>1. \A x \in Procs : Children(x)' = Children(x)
    BY <1>q, SameChildren
  <2>2. \A x \in Procs : pc'[x] = "waitpid" => pc[x] = "waitpid"
    BY <1>q
  <2> QED
    BY <1>q, <2>1, <2>2 DEF Waits
<1>1. ASSUME NEW r \in Roots, Start(r) PROVE Waits'
  BY <1>q, <1>1 DEF Start, Goto, SupervisorType
<1>2. ASSUME NEW r \in Roots, OpenFails(r) PROVE Waits'
  <2>1. r \in Procs /\ Live(r) /\ End(r)
    BY <1>2 DEF OpenFails, Live, Dead, Interruptible, MainPC
  <2> QED
    BY <1>e, <2>1
<1>3. ASSUME NEW p \in Procs, Open(p) PROVE Waits'
  BY <1>q, <1>3 DEF Open, Goto, SupervisorType
<1>4. ASSUME NEW p \in Procs, Flock(p) PROVE Waits'
  BY <1>q, <1>4 DEF Flock, Goto, SupervisorType
<1>5. ASSUME NEW p \in Procs, FlockRefused(p) PROVE Waits'
  <2>1. p \in Procs /\ Live(p) /\ End(p)
    BY <1>5 DEF FlockRefused, Live, Dead, Interruptible, MainPC
  <2> QED
    BY <1>e, <2>1
<1>6. ASSUME NEW p \in Procs, InstallParent(p) PROVE Waits'
  BY <1>q, <1>6 DEF InstallParent, Goto, SupervisorType
<1>7. ASSUME NEW p \in Procs, NEW q \in Kids, Fork(p, q) PROVE Waits'
  <2>1. ASSUME NEW x \in Procs, pc'[x] = "waitpid" PROVE gpid_child'[x] \in Children(x)'
    <3>1. x # p /\ x # q /\ pc[x] = "waitpid" /\ gpid_child'[x] = gpid_child[x]
      BY <1>7, <2>1 DEF Fork, SupervisorType
    <3> QED
      BY <1>7, <3>1, ForkChildren DEF Waits
  <2> QED
    BY <2>1 DEF Waits
<1>8. ASSUME NEW p \in Procs, NEW q \in Kids, Assign(p, q) PROVE Waits'
  <2>1. ASSUME NEW x \in Procs, pc'[x] = "waitpid" PROVE gpid_child'[x] \in Children(x)'
    <3>1. \A y \in Procs : Children(y)' = Children(y)
      BY <1>8, SameChildren DEF Assign, Goto, SupervisorType
    <3>2. CASE x = p
      BY <1>8, <3>1, <3>2 DEF Assign, Newest, Children, SupervisorType
    <3>3. CASE x # p
      BY <1>8, <2>1, <3>1, <3>3 DEF Assign, Goto, Waits, SupervisorType
    <3> QED
      BY <3>2, <3>3
  <2> QED
    BY <2>1 DEF Waits
<1>9. ASSUME NEW p \in Procs, NEW q \in Kids, Waitpid(p, q) PROVE Waits'
  <2>1. ASSUME NEW x \in Procs, pc'[x] = "waitpid" PROVE gpid_child'[x] \in Children(x)'
    <3>1. x # p /\ x # q /\ pc[x] = "waitpid" /\ gpid_child'[x] = gpid_child[x]
      BY <1>9, <2>1 DEF Waitpid, SupervisorType
    <3>2. q \in Children(p) /\ gpid_child[x] \in Children(x)
      BY <1>9, <3>1 DEF Waitpid, Waits
    <3>3. gpid_child[x] # q
      BY <3>1, <3>2 DEF Children
    <3> QED
      BY <1>9, <3>1, <3>2, <3>3, WaitpidChildren
  <2> QED
    BY <2>1 DEF Waits
<1>10. ASSUME NEW p \in Procs, Sleep(p) PROVE Waits'
  BY <1>q, <1>10 DEF Sleep, Goto, SupervisorType
<1>11. ASSUME NEW p \in Procs, InstallChild(p) PROVE Waits'
  BY <1>q, <1>11 DEF InstallChild, Goto, SupervisorType
<1>12. ASSUME NEW p \in Procs, WaitDone(p) PROVE Waits'
  BY <1>q, <1>12 DEF WaitDone, Goto, SupervisorType
<1>13. ASSUME NEW p \in Procs, CleanupClose(p) PROVE Waits'
  BY <1>q, <1>13 DEF CleanupClose, Goto, SupervisorType
<1>14. ASSUME NEW p \in Procs, CleanupRemove(p) PROVE Waits'
  <2>1. p \in Procs /\ Live(p) /\ End(p)
    BY <1>14 DEF CleanupRemove, Live, Dead, Interruptible, MainPC
  <2> QED
    BY <1>e, <2>1
<1>15. ASSUME NEW p \in Procs, DeliverDefault(p) PROVE Waits'
  <2>1. p \in Procs /\ Live(p) /\ End(p)
    BY <1>15 DEF DeliverDefault, Live, Dead, Interruptible, MainPC
  <2> QED
    BY <1>e, <2>1
<1>16. ASSUME NEW p \in Procs, DeliverChild(p) PROVE Waits'
  BY <1>q, <1>16 DEF DeliverChild, Goto, SupervisorType, Interruptible, MainPC
<1>17. ASSUME NEW p \in Procs, DeliverParent(p) PROVE Waits'
  BY <1>q, <1>17 DEF DeliverParent, Goto, SupervisorType, Interruptible, MainPC
<1>18. ASSUME NEW p \in Procs, ForkFails(p) PROVE Waits'
  BY <1>q, <1>18 DEF ForkFails, Goto, SupervisorType
<1>19. ASSUME NEW p \in Procs, Kill(p) PROVE Waits'
  BY <1>q, <1>19 DEF Kill, Goto, SupervisorType
<1>20. ASSUME NEW q \in Kids, ServiceStarts(q) PROVE Waits'
  BY <1>q, <1>20 DEF ServiceStarts, Goto, SupervisorType
<1>21. ASSUME NEW q \in Kids, ServiceFails(q) PROVE Waits'
  BY <1>q, <1>21 DEF ServiceFails, Goto, SupervisorType
<1>22. ASSUME NEW q \in Kids, Crash(q) PROVE Waits'
  <2>1. q \in Procs /\ Live(q) /\ End(q)
    BY <1>22 DEF Crash, Live, Dead, Interruptible, MainPC
  <2> QED
    BY <1>e, <2>1
<1>23. ASSUME NEW q \in Kids, ExitHangs(q) PROVE Waits'
  BY <1>q, <1>23 DEF ExitHangs, Goto, SupervisorType
<1>24. CASE UNCHANGED vars
  BY <1>24 DEF vars, Waits, Children
<1> QED
  BY <1>1, <1>2, <1>3, <1>4, <1>5, <1>6, <1>7, <1>8, <1>9, <1>10, <1>11, <1>12, <1>13,
     <1>14, <1>15, <1>16, <1>17, <1>18, <1>19, <1>20, <1>21, <1>22, <1>23, <1>24
  DEF Next, ProcStep, Deliver

(* The handler of an instance is installed before the loop and stays.       *)
LEMMA HandlersStep ==
  ASSUME SupervisorType, Handlers, [Next]_vars
  PROVE  Handlers'
<1> USE ProcAssumption DEF Procs
<1>e. ASSUME NEW p \in Procs, Live(p), End(p) PROVE Handlers'
  <2>1. \A x \in Procs : x # p => pc'[x] = pc[x] \/ x \in Kids
    BY <1>e, EndOthers
  <2>2. p \in Roots => pc'[p] = "gone"
    BY <1>e, EndOthers
  <2>3. handler' = [handler EXCEPT ![p] = "default"]
    BY <1>e DEF End
  <2> QED
    BY <2>1, <2>2, <2>3 DEF Handlers, SupervisorType, Loop, Exiting
<1>1. ASSUME NEW r \in Roots, Start(r) PROVE Handlers'
  BY <1>1 DEF Start, Goto, Handlers, SupervisorType, Exiting, RootPC, KidPC, Locking, Loop
<1>2. ASSUME NEW r \in Roots, OpenFails(r) PROVE Handlers'
  <2>1. r \in Procs /\ Live(r) /\ End(r)
    BY <1>2 DEF OpenFails, Live, Dead, Interruptible, MainPC
  <2> QED
    BY <1>e, <2>1
<1>3. ASSUME NEW p \in Procs, Open(p) PROVE Handlers'
  BY <1>3 DEF Open, Goto, Handlers, SupervisorType, Exiting, RootPC, KidPC, Locking, Loop
<1>4. ASSUME NEW p \in Procs, Flock(p) PROVE Handlers'
  BY <1>4 DEF Flock, Goto, Handlers, SupervisorType, Exiting, RootPC, KidPC, Locking, Loop
<1>5. ASSUME NEW p \in Procs, FlockRefused(p) PROVE Handlers'
  <2>1. p \in Procs /\ Live(p) /\ End(p)
    BY <1>5 DEF FlockRefused, Live, Dead, Interruptible, MainPC
  <2> QED
    BY <1>e, <2>1
<1>6. ASSUME NEW p \in Procs, InstallParent(p) PROVE Handlers'
  BY <1>6 DEF InstallParent, Goto, Handlers, SupervisorType, Exiting, RootPC, KidPC,
     Locking, Loop
<1>7. ASSUME NEW p \in Procs, NEW q \in Kids, Fork(p, q) PROVE Handlers'
  BY <1>7 DEF Fork, Goto, Handlers, SupervisorType, Exiting, RootPC, KidPC, Locking, Loop
<1>8. ASSUME NEW p \in Procs, NEW q \in Kids, Assign(p, q) PROVE Handlers'
  BY <1>8 DEF Assign, Goto, Handlers, SupervisorType, Exiting, RootPC, KidPC, Locking,
     Loop
<1>9. ASSUME NEW p \in Procs, NEW q \in Kids, Waitpid(p, q) PROVE Handlers'
  BY <1>9 DEF Waitpid, Goto, Handlers, SupervisorType, Exiting, RootPC, KidPC, Locking,
     Loop
<1>10. ASSUME NEW p \in Procs, Sleep(p) PROVE Handlers'
  BY <1>10 DEF Sleep, Goto, Handlers, SupervisorType, Exiting, RootPC, KidPC, Locking,
     Loop
<1>11. ASSUME NEW p \in Procs, InstallChild(p) PROVE Handlers'
  BY <1>11 DEF InstallChild, Goto, Handlers, SupervisorType, Exiting, RootPC, KidPC,
     Locking, Loop
<1>12. ASSUME NEW p \in Procs, WaitDone(p) PROVE Handlers'
  BY <1>12 DEF WaitDone, Goto, Handlers, SupervisorType, Exiting, RootPC, KidPC,
     Locking, Loop
<1>13. ASSUME NEW p \in Procs, CleanupClose(p) PROVE Handlers'
  BY <1>13 DEF CleanupClose, Goto, Handlers, SupervisorType, Exiting, RootPC, KidPC,
     Locking, Loop
<1>14. ASSUME NEW p \in Procs, CleanupRemove(p) PROVE Handlers'
  <2>1. p \in Procs /\ Live(p) /\ End(p)
    BY <1>14 DEF CleanupRemove, Live, Dead, Interruptible, MainPC
  <2> QED
    BY <1>e, <2>1
<1>15. ASSUME NEW p \in Procs, DeliverDefault(p) PROVE Handlers'
  <2>1. p \in Procs /\ Live(p) /\ End(p)
    BY <1>15 DEF DeliverDefault, Live, Dead, Interruptible, MainPC
  <2> QED
    BY <1>e, <2>1
<1>16. ASSUME NEW p \in Procs, DeliverChild(p) PROVE Handlers'
  BY <1>16 DEF DeliverChild, Goto, Handlers, SupervisorType, Exiting, RootPC, KidPC,
     Locking, Loop, Interruptible
<1>17. ASSUME NEW p \in Procs, DeliverParent(p) PROVE Handlers'
  BY <1>17 DEF DeliverParent, Goto, Handlers, SupervisorType, Exiting, RootPC, KidPC,
     Locking, Loop, Interruptible
<1>18. ASSUME NEW p \in Procs, ForkFails(p) PROVE Handlers'
  BY <1>18 DEF ForkFails, Goto, Handlers, SupervisorType, Exiting, RootPC, KidPC,
     Locking, Loop
<1>19. ASSUME NEW p \in Procs, Kill(p) PROVE Handlers'
  BY <1>19 DEF Kill, Goto, Handlers, SupervisorType, Exiting, RootPC, KidPC, Locking, Loop
<1>20. ASSUME NEW q \in Kids, ServiceStarts(q) PROVE Handlers'
  BY <1>20 DEF ServiceStarts, Goto, Handlers, SupervisorType, Exiting, RootPC, KidPC,
     Locking, Loop
<1>21. ASSUME NEW q \in Kids, ServiceFails(q) PROVE Handlers'
  BY <1>21 DEF ServiceFails, Goto, Handlers, SupervisorType, Exiting, RootPC, KidPC,
     Locking, Loop
<1>22. ASSUME NEW q \in Kids, Crash(q) PROVE Handlers'
  <2>1. q \in Procs /\ Live(q) /\ End(q)
    BY <1>22 DEF Crash, Live, Dead, Interruptible, MainPC
  <2> QED
    BY <1>e, <2>1
<1>23. ASSUME NEW q \in Kids, ExitHangs(q) PROVE Handlers'
  BY <1>23 DEF ExitHangs, Goto, Handlers, SupervisorType, Exiting, RootPC, KidPC,
     Locking, Loop
<1>24. CASE UNCHANGED vars
  BY <1>24 DEF vars, Handlers
<1> QED
  BY <1>1, <1>2, <1>3, <1>4, <1>5, <1>6, <1>7, <1>8, <1>9, <1>10, <1>11, <1>12, <1>13,
     <1>14, <1>15, <1>16, <1>17, <1>18, <1>19, <1>20, <1>21, <1>22, <1>23, <1>24
  DEF Next, ProcStep, Deliver

-----------------------------------------------------------------------------
(* The end of a process takes it off the lock file it had open.             *)
LEMMA EndLocks ==
  ASSUME SupervisorType, Locks, NEW p \in Procs, Live(p), End(p), UNCHANGED <<path, stolen>>
  PROVE  Locks'
<1> USE ProcAssumption DEF Procs
<1>1. /\ p \in Roots => pc'[p] = "gone"
      /\ p \in Kids => pc'[p] \in {"zombie", "absent"}
      /\ \A x \in Procs : x # p =>
           pc'[x] = pc[x] \/ (x \in Kids /\ pc[x] = "zombie" /\ pc'[x] = "absent")
  BY EndOthers
<1>2. lock_fd'[p] = NoFile /\ \A x \in Procs : x # p => lock_fd'[x] = lock_fd[x]
  BY DEF End, SupervisorType
<1>3. ~ Live(p)' /\ \A x \in Procs : x # p => (Live(x)' <=> Live(x))
  BY <1>1 DEF Live, Dead
<1>4. \A r \in Roots : r # p => pc'[r] = pc[r]
  BY <1>1
<1>5. \A x \in Procs : ~ Live(x)' => lock_fd'[x] = NoFile
  BY <1>2, <1>3 DEF Locks
<1>6. \A r \in Roots :
        /\ pc'[r] \in Locking => lock_fd'[r] # NoFile
        /\ pc'[r] \in {"absent", "open"} => lock_fd'[r] = NoFile
  BY <1>1, <1>2, <1>4 DEF Locks, Locking, Loop
<1>7. ~ stolen' => \A x \in Procs : lock_fd'[x] \in {path', NoFile}
  BY <1>2 DEF Locks
<1>8. \A r \in Roots : Running(r)' => Running(r)
  BY <1>3, <1>4 DEF Running
<1>9. OneInstanceUnlessStolen'
  BY <1>8 DEF Locks, OneInstanceUnlessStolen, OneInstance
<1> QED
  BY <1>5, <1>6, <1>7, <1>9 DEF Locks

(* A process moves on with the lock file as it has it.                      *)
LEMMA MoveLocks ==
  ASSUME SupervisorType, Locks, UNCHANGED <<path, lock_fd, stolen>>,
         \A x \in Procs : Live(x) => Live(x)',
         \A r \in Roots :
                 /\ pc'[r] \in Locking => pc[r] \in Locking
                 /\ pc'[r] \in {"absent", "open"} => pc[r] \in {"absent", "open"}
                 /\ Running(r)' => Running(r)
  PROVE  Locks'
<1>1. OneInstanceUnlessStolen'
  BY DEF Locks, OneInstanceUnlessStolen, OneInstance
<1> QED
  BY <1>1 DEF Locks

(* flock() refuses whoever has the locked file open: under ~ stolen that is *)
(* everyone who has opened a lock file at all.                              *)
LEMMA LocksStep ==
  ASSUME SupervisorType, Handlers, Locks, [Next]_vars
  PROVE  Locks'
<1> USE ProcAssumption DEF Procs
<1>t. /\ pc \in [Procs -> RootPC \cup KidPC] /\ lock_fd \in [Procs -> Roots \cup {NoFile}]
      /\ (\A r \in Roots : pc[r] \in RootPC) /\ (\A q \in Kids : pc[q] \in KidPC)
  BY DEF SupervisorType
<1>1. ASSUME NEW r \in Roots, Start(r) PROVE Locks'
  <2>1. UNCHANGED <<path, lock_fd, stolen>>
    BY <1>1 DEF Start
  <2>2. \A x \in Procs : Live(x) => Live(x)'
    BY <1>t, <1>1 DEF Start, Goto, Live, Dead
  <2>3. \A s \in Roots :
          /\ pc'[s] \in Locking => pc[s] \in Locking
          /\ pc'[s] \in {"absent", "open"} => pc[s] \in {"absent", "open"}
          /\ Running(s)' => Running(s)
    BY <1>t, <1>1 DEF Start, Goto, RootPC, KidPC, Locking, Loop, Running, Live, Dead
  <2> QED
    BY <2>1, <2>2, <2>3, MoveLocks
<1>2. ASSUME NEW r \in Roots, OpenFails(r) PROVE Locks'
  <2>1. r \in Procs /\ Live(r) /\ End(r) /\ UNCHANGED <<path, stolen>>
    BY <1>2 DEF OpenFails, Live, Dead, Interruptible, MainPC
  <2> QED
    BY <2>1, EndLocks
<1>3. ASSUME NEW p \in Procs, Open(p) PROVE Locks'
  <2>1. /\ p \in Roots /\ pc[p] = "open" /\ pc'[p] = "flock" /\ UNCHANGED stolen
        /\ \A x \in Procs : x # p => pc'[x] = pc[x] /\ lock_fd'[x] = lock_fd[x]
        /\ path' = IF path = NoFile THEN p ELSE path
        /\ lock_fd'[p] = path' /\ path' # NoFile
    BY <1>t, <1>3 DEF Open, Goto, KidPC, Loop
  <2>2. \A x \in Procs : Live(x)' <=> Live(x)
    BY <2>1 DEF Live, Dead
  <2>3. \A r \in Roots : Running(r)' => Running(r)
    BY <2>1, <2>2 DEF Running
  <2>4. /\ \A x \in Procs : ~ Live(x)' => lock_fd'[x] = NoFile
        /\ \A r \in Roots : pc'[r] \in Locking => lock_fd'[r] # NoFile
        /\ \A r \in Roots : pc'[r] \in {"absent", "open"} => lock_fd'[r] = NoFile
    BY <2>1, <2>2 DEF Locks, Live, Dead
  <2>5. ~ stolen' => \A x \in Procs : lock_fd'[x] \in {path', NoFile}
    BY <2>1 DEF Locks
  <2>6. OneInstanceUnlessStolen'
    BY <2>1, <2>3 DEF Locks, OneInstanceUnlessStolen, OneInstance
  <2> QED
    BY <2>4, <2>5, <2>6 DEF Locks
<1>4. ASSUME NEW p \in Procs, Flock(p) PROVE Locks'
  <2>1. /\ p \in Roots /\ pc[p] = "flock" /\ pc'[p] = "signals" /\ ~ Locked(lock_fd[p])
        /\ \A x \in Procs : x # p => pc'[x] = pc[x]
        /\ UNCHANGED <<path, lock_fd, stolen>>
    BY <1>t, <1>4 DEF Flock, Goto, KidPC, Loop
  <2>2. \A x \in Procs : Live(x)' <=> Live(x)
    BY <2>1 DEF Live, Dead
  <2>3. /\ \A x \in Procs : ~ Live(x)' => lock_fd'[x] = NoFile
        /\ \A r \in Roots : pc'[r] \in Locking => lock_fd'[r] # NoFile
        /\ \A r \in Roots : pc'[r] \in {"absent", "open"} => lock_fd'[r] = NoFile
    BY <2>1, <2>2 DEF Locks, Locking
  <2>4. ~ stolen' => \A x \in Procs : lock_fd'[x] \in {path', NoFile}
    BY <2>1 DEF Locks
  <2>5. OneInstanceUnlessStolen'
    <3>1. ASSUME ~ stolen, NEW r \in Roots, Running(r) PROVE FALSE
      <4>1. pc[r] \in Locking \ {"flock"} /\ Live(r)
        BY <1>t, <3>1 DEF Running, RootPC, Live, Dead
      <4>2. lock_fd[r] = path /\ lock_fd[p] = path
        BY <2>1, <3>1, <4>1 DEF Locks, Locking
      <4> QED
        BY <2>1, <4>1, <4>2 DEF Locked
    <3>2. \A r \in Roots : r # p => (Running(r)' => Running(r))
      BY <2>1, <2>2 DEF Running
    <3> QED
      BY <2>1, <3>1, <3>2 DEF OneInstanceUnlessStolen, OneInstance
  <2> QED
    BY <2>3, <2>4, <2>5 DEF Locks
<1>5. ASSUME NEW p \in Procs, FlockRefused(p) PROVE Locks'
  <2>1. p \in Procs /\ Live(p) /\ End(p) /\ UNCHANGED <<path, stolen>>
    BY <1>5 DEF FlockRefused, Live, Dead, Interruptible, MainPC
  <2> QED
    BY <2>1, EndLocks
<1>6. ASSUME NEW p \in Procs, InstallParent(p) PROVE Locks'
  <2>1. UNCHANGED <<path, lock_fd, stolen>>
    BY <1>6 DEF InstallParent
  <2>2. \A x \in Procs : Live(x) => Live(x)'
    BY <1>t, <1>6 DEF InstallParent, Goto, Live, Dead
  <2>3. \A s \in Roots :
          /\ pc'[s] \in Locking => pc[s] \in Locking
          /\ pc'[s] \in {"absent", "open"} => pc[s] \in {"absent", "open"}
          /\ Running(s)' => Running(s)
    BY <1>t, <1>6 DEF InstallParent, Goto, RootPC, KidPC, Locking, Loop, Running, Live,
       Dead
  <2> QED
    BY <2>1, <2>2, <2>3, MoveLocks
<1>7. ASSUME NEW p \in Procs, NEW q \in Kids, Fork(p, q) PROVE Locks'
  <2>1. /\ pc[p] = "fork" /\ pc'[p] = "assign" /\ pc[q] = "absent" /\ pc'[q] = "setup" /\ p # q
        /\ \A x \in Procs : x # p /\ x # q => pc'[x] = pc[x]
        /\ lock_fd'[q] = lock_fd[p] /\ \A x \in Procs : x # q => lock_fd'[x] = lock_fd[x]
        /\ UNCHANGED <<path, stolen>>
    BY <1>t, <1>7 DEF Fork
  <2>2. \A x \in Procs : x # q => (Live(x)' <=> Live(x))
    BY <2>1 DEF Live, Dead
  <2>3. Live(q)'
    BY <2>1 DEF Live, Dead
  <2>4. \A r \in Roots : r # q /\ (pc'[r] = pc[r] \/ (pc[r] = "fork" /\ pc'[r] = "assign"))
    BY <2>1
  <2>5. /\ \A x \in Procs : ~ Live(x)' => lock_fd'[x] = NoFile
        /\ \A r \in Roots : pc'[r] \in Locking => lock_fd'[r] # NoFile
        /\ \A r \in Roots : pc'[r] \in {"absent", "open"} => lock_fd'[r] = NoFile
    BY <2>1, <2>2, <2>3, <2>4 DEF Locks, Locking, Loop
  <2>6. ~ stolen' => \A x \in Procs : lock_fd'[x] \in {path', NoFile}
    BY <2>1 DEF Locks
  <2>7. \A r \in Roots : Running(r)' => Running(r)
    BY <2>2, <2>4 DEF Running
  <2>8. OneInstanceUnlessStolen'
    BY <2>1, <2>7 DEF Locks, OneInstanceUnlessStolen, OneInstance
  <2> QED
    BY <2>5, <2>6, <2>8 DEF Locks
<1>8. ASSUME NEW p \in Procs, NEW q \in Kids, Assign(p, q) PROVE Locks'
  <2>1. UNCHANGED <<path, lock_fd, stolen>>
    BY <1>8 DEF Assign
  <2>2. \A x \in Procs : Live(x) => Live(x)'
    BY <1>t, <1>8 DEF Assign, Goto, Live, Dead
  <2>3. \A s \in Roots :
          /\ pc'[s] \in Locking => pc[s] \in Locking
          /\ pc'[s] \in {"absent", "open"} => pc[s] \in {"absent", "open"}
          /\ Running(s)' => Running(s)
    BY <1>t, <1>8 DEF Assign, Goto, RootPC, KidPC, Locking, Loop, Running, Live, Dead
  <2> QED
    BY <2>1, <2>2, <2>3, MoveLocks
<1>9. ASSUME NEW p \in Procs, NEW q \in Kids, Waitpid(p, q) PROVE Locks'
  <2>1. UNCHANGED <<path, lock_fd, stolen>>
    BY <1>9 DEF Waitpid
  <2>2. \A x \in Procs : Live(x) => Live(x)'
    BY <1>t, <1>9 DEF Waitpid, Live, Dead
  <2>3. \A s \in Roots :
          /\ pc'[s] \in Locking => pc[s] \in Locking
          /\ pc'[s] \in {"absent", "open"} => pc[s] \in {"absent", "open"}
          /\ Running(s)' => Running(s)
    BY <1>t, <1>9 DEF Waitpid, RootPC, KidPC, Locking, Loop, Running, Live, Dead
  <2> QED
    BY <2>1, <2>2, <2>3, MoveLocks
<1>10. ASSUME NEW p \in Procs, Sleep(p) PROVE Locks'
  <2>1. UNCHANGED <<path, lock_fd, stolen>>
    BY <1>10 DEF Sleep
  <2>2. \A x \in Procs : Live(x) => Live(x)'
    BY <1>t, <1>10 DEF Sleep, Goto, Live, Dead
  <2>3. \A s \in Roots :
          /\ pc'[s] \in Locking => pc[s] \in Locking
          /\ pc'[s] \in {"absent", "open"} => pc[s] \in {"absent", "open"}
          /\ Running(s)' => Running(s)
    BY <1>t, <1>10 DEF Sleep, Goto, RootPC, KidPC, Locking, Loop, Running, Live, Dead
  <2> QED
    BY <2>1, <2>2, <2>3, MoveLocks
<1>11. ASSUME NEW p \in Procs, InstallChild(p) PROVE Locks'
  <2>1. UNCHANGED <<path, lock_fd, stolen>>
    BY <1>11 DEF InstallChild
  <2>2. \A x \in Procs : Live(x) => Live(x)'
    BY <1>t, <1>11 DEF InstallChild, Goto, Live, Dead
  <2>3. \A s \in Roots :
          /\ pc'[s] \in Locking => pc[s] \in Locking
          /\ pc'[s] \in {"absent", "open"} => pc[s] \in {"absent", "open"}
          /\ Running(s)' => Running(s)
    BY <1>t, <1>11 DEF InstallChild, Goto, RootPC, KidPC, Locking, Loop, Running, Live,
       Dead
  <2> QED
    BY <2>1, <2>2, <2>3, MoveLocks
<1>12. ASSUME NEW p \in Procs, WaitDone(p) PROVE Locks'
  <2>1. UNCHANGED <<path, lock_fd, stolen>>
    BY <1>12 DEF WaitDone
  <2>2. \A x \in Procs : Live(x) => Live(x)'
    BY <1>t, <1>12 DEF WaitDone, Goto, Live, Dead
  <2>3. \A s \in Roots :
          /\ pc'[s] \in Locking => pc[s] \in Locking
          /\ pc'[s] \in {"absent", "open"} => pc[s] \in {"absent", "open"}
          /\ Running(s)' => Running(s)
    BY <1>t, <1>12 DEF WaitDone, Goto, RootPC, KidPC, Locking, Loop, Running, Live, Dead
  <2> QED
    BY <2>1, <2>2, <2>3, MoveLocks
<1>13. ASSUME NEW p \in Procs, CleanupClose(p) PROVE Locks'
  <2>1. /\ pc[p] = "close" /\ pc'[p] = "remove"
        /\ \A x \in Procs : x # p => pc'[x] = pc[x] /\ lock_fd'[x] = lock_fd[x]
        /\ lock_fd'[p] = NoFile
        /\ UNCHANGED <<path, stolen>>
    BY <1>t, <1>13 DEF CleanupClose, Goto
  <2>2. \A x \in Procs : Live(x)' <=> Live(x)
    BY <2>1 DEF Live, Dead
  <2>3. \A r \in Roots : Running(r)' => Running(r)
    BY <2>1, <2>2 DEF Running
  <2>4. /\ \A x \in Procs : ~ Live(x)' => lock_fd'[x] = NoFile
        /\ \A r \in Roots : pc'[r] \in Locking => lock_fd'[r] # NoFile
        /\ \A r \in Roots : pc'[r] \in {"absent", "open"} => lock_fd'[r] = NoFile
    BY <2>1, <2>2 DEF Locks, Locking, Loop
  <2>5. ~ stolen' => \A x \in Procs : lock_fd'[x] \in {path', NoFile}
    BY <2>1 DEF Locks
  <2>6. OneInstanceUnlessStolen'
    BY <2>1, <2>3 DEF Locks, OneInstanceUnlessStolen, OneInstance
  <2> QED
    BY <2>4, <2>5, <2>6 DEF Locks
<1>14. ASSUME NEW p \in Procs, CleanupRemove(p) PROVE Locks'
  <2>1. Live(p) /\ End(p) /\ path' = NoFile /\ stolen' = (stolen \/ (path # NoFile /\ Opened(path)))
    BY <1>14 DEF CleanupRemove, Live, Dead
  <2>2. /\ p \in Roots => pc'[p] = "gone"
        /\ p \in Kids => pc'[p] \in {"zombie", "absent"}
        /\ \A x \in Procs : x # p =>
             pc'[x] = pc[x] \/ (x \in Kids /\ pc[x] = "zombie" /\ pc'[x] = "absent")
    BY <2>1, EndOthers
  <2>3. lock_fd'[p] = NoFile /\ \A x \in Procs : x # p => lock_fd'[x] = lock_fd[x]
    BY <1>t, <2>1 DEF End
  <2>4. ~ Live(p)' /\ \A x \in Procs : x # p => (Live(x)' <=> Live(x))
    BY <2>2 DEF Live, Dead
  <2>5. \A r \in Roots : r # p => pc'[r] = pc[r]
    BY <2>2
  <2>6. \A x \in Procs : ~ Live(x)' => lock_fd'[x] = NoFile
    BY <2>3, <2>4 DEF Locks
  <2>7. \A r \in Roots :
          /\ pc'[r] \in Locking => lock_fd'[r] # NoFile
          /\ pc'[r] \in {"absent", "open"} => lock_fd'[r] = NoFile
    BY <2>2, <2>3, <2>5 DEF Locks, Locking, Loop
  <2>8. ~ stolen' => \A x \in Procs : lock_fd'[x] \in {path', NoFile}
    <3>1. SUFFICES ASSUME ~ stolen', NEW x \in Procs, lock_fd'[x] # NoFile PROVE FALSE
      OBVIOUS
    <3>2. ~ stolen /\ ~ (path # NoFile /\ Opened(path))
      BY <2>1, <3>1
    <3>3. lock_fd[x] # NoFile /\ Live(x) /\ lock_fd[x] = path
      BY <2>3, <3>1, <3>2 DEF Locks
    <3> QED
      BY <3>2, <3>3 DEF Opened
  <2>9. OneInstanceUnlessStolen'
    <3>1. \A r \in Roots : Running(r)' => Running(r)
      BY <2>4, <2>5 DEF Running
    <3> QED
      BY <2>1, <3>1 DEF Locks, OneInstanceUnlessStolen, OneInstance
  <2> QED
    BY <2>6, <2>7, <2>8, <2>9 DEF Locks
<1>15. ASSUME NEW p \in Procs, DeliverDefault(p) PROVE Locks'
  <2>1. p \in Procs /\ Live(p) /\ End(p) /\ UNCHANGED <<path, stolen>>
    BY <1>15 DEF DeliverDefault, Live, Dead, Interruptible, MainPC
  <2> QED
    BY <2>1, EndLocks
<1>16. ASSUME NEW p \in Procs, DeliverChild(p) PROVE Locks'
  <2>1. UNCHANGED <<path, lock_fd, stolen>>
    BY <1>16 DEF DeliverChild
  <2>2. \A x \in Procs : Live(x) => Live(x)'
    BY <1>t, <1>16 DEF DeliverChild, Interruptible, MainPC, Handlers, Exiting, Live, Dead
  <2>3. \A s \in Roots :
          /\ pc'[s] \in Locking => pc[s] \in Locking
          /\ pc'[s] \in {"absent", "open"} => pc[s] \in {"absent", "open"}
          /\ Running(s)' => Running(s)
    BY <1>t, <1>16 DEF DeliverChild, Interruptible, MainPC, Handlers, Exiting, RootPC,
       KidPC, Locking, Loop, Running, Live, Dead
  <2> QED
    BY <2>1, <2>2, <2>3, MoveLocks
<1>17. ASSUME NEW p \in Procs, DeliverParent(p) PROVE Locks'
  <2>1. UNCHANGED <<path, lock_fd, stolen>>
    BY <1>17 DEF DeliverParent
  <2>2. \A x \in Procs : Live(x) => Live(x)'
    BY <1>t, <1>17 DEF DeliverParent, Interruptible, MainPC, Handlers, Exiting, Live, Dead
  <2>3. \A s \in Roots :
          /\ pc'[s] \in Locking => pc[s] \in Locking
          /\ pc'[s] \in {"absent", "open"} => pc[s] \in {"absent", "open"}
          /\ Running(s)' => Running(s)
    BY <1>t, <1>17 DEF DeliverParent, Interruptible, MainPC, Handlers, Exiting, RootPC,
       KidPC, Locking, Loop, Running, Live, Dead
  <2> QED
    BY <2>1, <2>2, <2>3, MoveLocks
<1>18. ASSUME NEW p \in Procs, ForkFails(p) PROVE Locks'
  <2>1. UNCHANGED <<path, lock_fd, stolen>>
    BY <1>18 DEF ForkFails
  <2>2. \A x \in Procs : Live(x) => Live(x)'
    BY <1>t, <1>18 DEF ForkFails, Goto, Live, Dead
  <2>3. \A s \in Roots :
          /\ pc'[s] \in Locking => pc[s] \in Locking
          /\ pc'[s] \in {"absent", "open"} => pc[s] \in {"absent", "open"}
          /\ Running(s)' => Running(s)
    BY <1>t, <1>18 DEF ForkFails, Goto, RootPC, KidPC, Locking, Loop, Running, Live, Dead
  <2> QED
    BY <2>1, <2>2, <2>3, MoveLocks
<1>19. ASSUME NEW p \in Procs, Kill(p) PROVE Locks'
  <2>1. UNCHANGED <<path, lock_fd, stolen>>
    BY <1>19 DEF Kill
  <2>2. \A x \in Procs : Live(x) => Live(x)'
    BY <1>t, <1>19 DEF Kill, Live, Dead
  <2>3. \A s \in Roots :
          /\ pc'[s] \in Locking => pc[s] \in Locking
          /\ pc'[s] \in {"absent", "open"} => pc[s] \in {"absent", "open"}
          /\ Running(s)' => Running(s)
    BY <1>t, <1>19 DEF Kill, RootPC, KidPC, Locking, Loop, Running, Live, Dead
  <2> QED
    BY <2>1, <2>2, <2>3, MoveLocks
<1>20. ASSUME NEW q \in Kids, ServiceStarts(q) PROVE Locks'
  <2>1. UNCHANGED <<path, lock_fd, stolen>>
    BY <1>20 DEF ServiceStarts
  <2>2. \A x \in Procs : Live(x) => Live(x)'
    BY <1>t, <1>20 DEF ServiceStarts, Goto, Live, Dead
  <2>3. \A s \in Roots :
          /\ pc'[s] \in Locking => pc[s] \in Locking
          /\ pc'[s] \in {"absent", "open"} => pc[s] \in {"absent", "open"}
          /\ Running(s)' => Running(s)
    BY <1>t, <1>20 DEF ServiceStarts, Goto, RootPC, KidPC, Locking, Loop, Running,
       Live, Dead
  <2> QED
    BY <2>1, <2>2, <2>3, MoveLocks
<1>21. ASSUME NEW q \in Kids, ServiceFails(q) PROVE Locks'
  <2>1. UNCHANGED <<path, lock_fd, stolen>>
    BY <1>21 DEF ServiceFails
  <2>2. \A x \in Procs : Live(x) => Live(x)'
    BY <1>t, <1>21 DEF ServiceFails, Goto, Live, Dead
  <2>3. \A s \in Roots :
          /\ pc'[s] \in Locking => pc[s] \in Locking
          /\ pc'[s] \in {"absent", "open"} => pc[s] \in {"absent", "open"}
          /\ Running(s)' => Running(s)
    BY <1>t, <1>21 DEF ServiceFails, Goto, RootPC, KidPC, Locking, Loop, Running, Live,
       Dead
  <2> QED
    BY <2>1, <2>2, <2>3, MoveLocks
<1>22. ASSUME NEW q \in Kids, Crash(q) PROVE Locks'
  <2>1. q \in Procs /\ Live(q) /\ End(q) /\ UNCHANGED <<path, stolen>>
    BY <1>22 DEF Crash, Live, Dead, Interruptible, MainPC
  <2> QED
    BY <2>1, EndLocks
<1>23. ASSUME NEW q \in Kids, ExitHangs(q) PROVE Locks'
  <2>1. UNCHANGED <<path, lock_fd, stolen>>
    BY <1>23 DEF ExitHangs
  <2>2. \A x \in Procs : Live(x) => Live(x)'
    BY <1>t, <1>23 DEF ExitHangs, Goto, Live, Dead
  <2>3. \A s \in Roots :
          /\ pc'[s] \in Locking => pc[s] \in Locking
          /\ pc'[s] \in {"absent", "open"} => pc[s] \in {"absent", "open"}
          /\ Running(s)' => Running(s)
    BY <1>t, <1>23 DEF ExitHangs, Goto, RootPC, KidPC, Locking, Loop, Running, Live, Dead
  <2> QED
    BY <2>1, <2>2, <2>3, MoveLocks
<1>24. CASE UNCHANGED vars
  BY <1>24 DEF vars, Locks, Live, OneInstanceUnlessStolen, OneInstance, Running
<1> QED
  BY <1>1, <1>2, <1>3, <1>4, <1>5, <1>6, <1>7, <1>8, <1>9, <1>10, <1>11, <1>12, <1>13,
     <1>14, <1>15, <1>16, <1>17, <1>18, <1>19, <1>20, <1>21, <1>22, <1>23, <1>24
  DEF Next, ProcStep, Deliver

-----------------------------------------------------------------------------
(* A process ends that has no live child, if it is an instance: nobody is   *)
(* orphaned.                                                                *)
LEMMA EndFamilies ==
  ASSUME SupervisorType, Kin, NEW p \in Procs, Live(p), End(p),
         p \in Roots => \A q \in Children(p) : ~ Live(q)
  PROVE  Kin'
<1> USE ProcAssumption DEF Procs
<1>1. /\ p \in Roots => pc'[p] = "gone"
      /\ p \in Kids => pc'[p] \in {"zombie", "absent"}
      /\ \A x \in Procs : x # p =>
           pc'[x] = pc[x] \/ (x \in Kids /\ pc[x] = "zombie" /\ pc'[x] = "absent")
      /\ \A x \in Children(p) : x # p /\ pc[x] = "zombie" => pc'[x] = "absent"
      /\ Children(p)' = {}
      /\ \A x \in Procs : x # p => Children(x)' = Children(x)
  BY EndOthers
<1>2. \A x \in Procs : parent'[x] = IF parent[x] = p THEN NoProc ELSE parent[x]
  BY DEF End
<1>3. \A x \in Procs : x # p => gpid_child'[x] = gpid_child[x]
  BY DEF End, SupervisorType
<1>4. ASSUME NEW q \in Kids, pc'[q] # "absent" PROVE parent'[q] \in Roots /\ pc'[q] \notin Loop
  <2>1. CASE q = p
    <3>1. parent[q] \in Roots
      BY <2>1 DEF Kin, Related, Live, Dead
    <3> QED
      BY <1>1, <1>2, <2>1, <3>1, <1>4 DEF Loop
  <2>2. CASE q # p
    <3>1. pc'[q] = pc[q] /\ parent[q] \in Roots /\ pc[q] \notin Loop
      BY <1>1, <1>4, <2>2 DEF Kin, Related
    <3>2. parent[q] # p
      <4>1. SUFFICES ASSUME parent[q] = p PROVE FALSE
        OBVIOUS
      <4>2. q \in Children(p) /\ p \in Roots
        BY <1>4, <3>1, <4>1 DEF Children
      <4>3. pc[q] = "zombie"
        BY <4>2, <1>4, <3>1 DEF SupervisorType, KidPC, Loop, Live, Dead
      <4> QED
        BY <1>1, <1>4, <2>2, <4>2, <4>3
    <3> QED
      BY <1>2, <3>1, <3>2
  <2> QED
    BY <2>1, <2>2
<1>5. ASSUME NEW r \in Roots PROVE Family(r)'
  <2>1. CASE r = p
    BY <1>1, <2>1 DEF Family
  <2>2. CASE r # p
    <3>1. pc'[r] = pc[r] /\ gpid_child'[r] = gpid_child[r] /\ Children(r)' = Children(r)
      BY <1>1, <1>3, <2>2
    <3>2. \A q \in Children(r) : ~ Live(q) => ~ Live(q)'
      BY <1>1 DEF Children, Live, Dead
    <3> QED
      BY <3>1, <3>2 DEF Kin, Family
  <2> QED
    BY <2>1, <2>2
<1> QED
  BY <1>4, <1>5 DEF Kin, Related

(* A process moves on, and no process comes or goes.                        *)
LEMMA MoveFamilies ==
  ASSUME SupervisorType, Kin, NEW p \in Procs, \A x \in Procs : x # p => pc'[x] = pc[x],
         UNCHANGED <<parent, gpid_child>>,
         p \in Kids => Live(p) /\ pc'[p] \notin {"absent"} \cup Loop,
         p \in Roots => (Children(p)' = Children(p) => Family(p)')
  PROVE  Kin'
<1> USE ProcAssumption DEF Procs
<1>1. \A x : Children(x)' = Children(x)
  BY SameChildren DEF Live, Dead
<1>2. \A q \in Kids : Related(q)'
  BY DEF Kin, Related, Live, Dead
<1>3. ASSUME NEW r \in Roots PROVE Family(r)'
  <2>1. CASE r = p
    BY <1>1, <2>1
  <2>2. CASE r # p
    <3>1. pc'[r] = pc[r] /\ gpid_child'[r] = gpid_child[r]
      BY <2>2
    <3>2. \A q \in Children(r) : ~ Live(q) => ~ Live(q)'
      BY DEF Children, Live
    <3> QED
      BY <1>1, <3>1, <3>2 DEF Kin, Family
  <2> QED
    BY <2>1, <2>2
<1> QED
  BY <1>2, <1>3 DEF Kin

(* Nothing makes calm of what was not: the histories only grow.             *)
LEMMA CalmBefore ==
  ASSUME [Next]_vars, Calm'
  PROVE  Calm
<1>1. ASSUME NEW r \in Roots, Start(r) PROVE Calm
  BY <1>1 DEF Calm, Start
<1>2. ASSUME NEW r \in Roots, OpenFails(r) PROVE Calm
  BY <1>2 DEF Calm, OpenFails
<1>3. ASSUME NEW p \in Procs, Open(p) PROVE Calm
  BY <1>3 DEF Calm, Open
<1>4. ASSUME NEW p \in Procs, Flock(p) PROVE Calm
  BY <1>4 DEF Calm, Flock
<1>5. ASSUME NEW p \in Procs, FlockRefused(p) PROVE Calm
  BY <1>5 DEF Calm, FlockRefused
<1>6. ASSUME NEW p \in Procs, InstallParent(p) PROVE Calm
  BY <1>6 DEF Calm, InstallParent
<1>7. ASSUME NEW p \in Procs, NEW q \in Kids, Fork(p, q) PROVE Calm
  BY <1>7 DEF Calm, Fork
<1>8. ASSUME NEW p \in Procs, NEW q \in Kids, Assign(p, q) PROVE Calm
  BY <1>8 DEF Calm, Assign
<1>9. ASSUME NEW p \in Procs, NEW q \in Kids, Waitpid(p, q) PROVE Calm
  BY <1>9 DEF Calm, Waitpid
<1>10. ASSUME NEW p \in Procs, Sleep(p) PROVE Calm
  BY <1>10 DEF Calm, Sleep
<1>11. ASSUME NEW p \in Procs, InstallChild(p) PROVE Calm
  BY <1>11 DEF Calm, InstallChild
<1>12. ASSUME NEW p \in Procs, WaitDone(p) PROVE Calm
  BY <1>12 DEF Calm, WaitDone
<1>13. ASSUME NEW p \in Procs, CleanupClose(p) PROVE Calm
  BY <1>13 DEF Calm, CleanupClose
<1>14. ASSUME NEW p \in Procs, CleanupRemove(p) PROVE Calm
  BY <1>14 DEF Calm, CleanupRemove
<1>15. ASSUME NEW p \in Procs, DeliverDefault(p) PROVE Calm
  BY <1>15 DEF Calm, DeliverDefault
<1>16. ASSUME NEW p \in Procs, DeliverChild(p) PROVE Calm
  BY <1>16 DEF Calm, DeliverChild
<1>17. ASSUME NEW p \in Procs, DeliverParent(p) PROVE Calm
  BY <1>17 DEF Calm, DeliverParent
<1>18. ASSUME NEW p \in Procs, ForkFails(p) PROVE Calm
  BY <1>18 DEF Calm, ForkFails
<1>19. ASSUME NEW p \in Procs, Kill(p) PROVE Calm
  BY <1>19 DEF Calm, Kill
<1>20. ASSUME NEW q \in Kids, ServiceStarts(q) PROVE Calm
  BY <1>20 DEF Calm, ServiceStarts
<1>21. ASSUME NEW q \in Kids, ServiceFails(q) PROVE Calm
  BY <1>21 DEF Calm, ServiceFails
<1>22. ASSUME NEW q \in Kids, Crash(q) PROVE Calm
  BY <1>22 DEF Calm, Crash
<1>23. ASSUME NEW q \in Kids, ExitHangs(q) PROVE Calm
  BY <1>23 DEF Calm, ExitHangs
<1>24. CASE UNCHANGED vars
  BY <1>24 DEF vars, Calm
<1> QED
  BY <1>1, <1>2, <1>3, <1>4, <1>5, <1>6, <1>7, <1>8, <1>9, <1>10, <1>11, <1>12, <1>13,
     <1>14, <1>15, <1>16, <1>17, <1>18, <1>19, <1>20, <1>21, <1>22, <1>23, <1>24
  DEF Next, ProcStep, Deliver

(* The families stay in order while all is calm.                            *)
LEMMA FamiliesStep ==
  ASSUME SupervisorType, Waits, Handlers, Families, [Next]_vars
  PROVE  Families'
<1> USE ProcAssumption DEF Procs
<1> SUFFICES ASSUME Calm' PROVE Kin'
  BY DEF Families
<1>k. Kin
  BY CalmBefore DEF Families
<1>t. /\ pc \in [Procs -> RootPC \cup KidPC] /\ gpid_child \in [Procs -> Kids \cup {NoProc}]
      /\ (\A r \in Roots : pc[r] \in RootPC) /\ (\A q \in Kids : pc[q] \in KidPC)
  BY DEF SupervisorType
<1>r. \A r \in Roots : Family(r)
  BY <1>k DEF Kin
<1>q. \A q \in Kids : pc[q] \notin Loop
  <2>1. \A q \in Kids : pc[q] # "absent" => pc[q] \notin Loop
    BY <1>k DEF Kin, Related
  <2> QED
    BY <2>1 DEF Loop
<1>1. ASSUME NEW r \in Roots, Start(r) PROVE Kin'
  <2>1. /\ UNCHANGED <<parent, gpid_child>> /\ r \in Procs
        /\ \A x \in Procs : x # r => pc'[x] = pc[x]
    BY <1>t, <1>1 DEF Start, Goto
  <2>2. r \in Kids => Live(r) /\ pc'[r] \notin {"absent"} \cup Loop
    BY <1>t, <1>q, <1>1 DEF Start, Goto, RootPC, KidPC, Locking, Loop, Live, Dead
  <2>3. ASSUME r \in Roots, Children(r)' = Children(r) PROVE Family(r)'
    <3>1. Family(r)
      BY <1>r, <2>3
    <3>2. \A x \in Children(r) : ~ Live(x) => ~ Live(x)'
      BY <2>1, <2>3 DEF Children, Live
    <3> QED
      BY <1>t, <1>1, <2>1, <2>3, <3>1, <3>2 DEF Start, Goto, Family, RootPC, Locking, Loop
  <2> QED
    BY <1>k, <2>1, <2>2, <2>3, MoveFamilies
<1>2. ASSUME NEW r \in Roots, OpenFails(r) PROVE Kin'
  <2>1. r \in Procs /\ Live(r) /\ End(r)
    BY <1>2 DEF OpenFails, Live, Dead, Interruptible, MainPC
  <2>2. ASSUME r \in Roots PROVE \A x \in Children(r) : ~ Live(x)
    BY <1>t, <1>r, <1>2, <2>2 DEF OpenFails, Family, RootPC, Locking, Loop
  <2> QED
    BY <1>k, <2>1, <2>2, EndFamilies
<1>3. ASSUME NEW p \in Procs, Open(p) PROVE Kin'
  <2>1. /\ UNCHANGED <<parent, gpid_child>> /\ p \in Procs
        /\ \A x \in Procs : x # p => pc'[x] = pc[x]
    BY <1>t, <1>3 DEF Open, Goto
  <2>2. p \in Kids => Live(p) /\ pc'[p] \notin {"absent"} \cup Loop
    BY <1>t, <1>q, <1>3 DEF Open, Goto, RootPC, KidPC, Locking, Loop, Live, Dead
  <2>3. ASSUME p \in Roots, Children(p)' = Children(p) PROVE Family(p)'
    <3>1. Family(p)
      BY <1>r, <2>3
    <3>2. \A x \in Children(p) : ~ Live(x) => ~ Live(x)'
      BY <2>1, <2>3 DEF Children, Live
    <3> QED
      BY <1>t, <1>3, <2>1, <2>3, <3>1, <3>2 DEF Open, Goto, Family, RootPC, Locking, Loop
  <2> QED
    BY <1>k, <2>1, <2>2, <2>3, MoveFamilies
<1>4. ASSUME NEW p \in Procs, Flock(p) PROVE Kin'
  <2>1. /\ UNCHANGED <<parent, gpid_child>> /\ p \in Procs
        /\ \A x \in Procs : x # p => pc'[x] = pc[x]
    BY <1>t, <1>4 DEF Flock, Goto
  <2>2. p \in Kids => Live(p) /\ pc'[p] \notin {"absent"} \cup Loop
    BY <1>t, <1>q, <1>4 DEF Flock, Goto, RootPC, KidPC, Locking, Loop, Live, Dead
  <2>3. ASSUME p \in Roots, Children(p)' = Children(p) PROVE Family(p)'
    <3>1. Family(p)
      BY <1>r, <2>3
    <3>2. \A x \in Children(p) : ~ Live(x) => ~ Live(x)'
      BY <2>1, <2>3 DEF Children, Live
    <3> QED
      BY <1>t, <1>4, <2>1, <2>3, <3>1, <3>2 DEF Flock, Goto, Family, RootPC, Locking, Loop
  <2> QED
    BY <1>k, <2>1, <2>2, <2>3, MoveFamilies
<1>5. ASSUME NEW p \in Procs, FlockRefused(p) PROVE Kin'
  <2>1. p \in Procs /\ Live(p) /\ End(p)
    BY <1>5 DEF FlockRefused, Live, Dead, Interruptible, MainPC
  <2>2. ASSUME p \in Roots PROVE \A x \in Children(p) : ~ Live(x)
    BY <1>t, <1>r, <1>5, <2>2 DEF FlockRefused, Family, RootPC, Locking, Loop
  <2> QED
    BY <1>k, <2>1, <2>2, EndFamilies
<1>6. ASSUME NEW p \in Procs, InstallParent(p) PROVE Kin'
  <2>1. /\ UNCHANGED <<parent, gpid_child>> /\ p \in Procs
        /\ \A x \in Procs : x # p => pc'[x] = pc[x]
    BY <1>t, <1>6 DEF InstallParent, Goto
  <2>2. p \in Kids => Live(p) /\ pc'[p] \notin {"absent"} \cup Loop
    BY <1>t, <1>q, <1>6 DEF InstallParent, Goto, RootPC, KidPC, Locking, Loop, Live, Dead
  <2>3. ASSUME p \in Roots, Children(p)' = Children(p) PROVE Family(p)'
    <3>1. Family(p)
      BY <1>r, <2>3
    <3>2. \A x \in Children(p) : ~ Live(x) => ~ Live(x)'
      BY <2>1, <2>3 DEF Children, Live
    <3> QED
      BY <1>t, <1>6, <2>1, <2>3, <3>1, <3>2 DEF InstallParent, Goto, Family, RootPC,
         Locking, Loop
  <2> QED
    BY <1>k, <2>1, <2>2, <2>3, MoveFamilies
<1>7. ASSUME NEW p \in Procs, NEW q \in Kids, Fork(p, q) PROVE Kin'
  <2>1. /\ pc[p] = "fork" /\ pc'[p] = "assign" /\ pc[q] = "absent" /\ pc'[q] = "setup" /\ p # q
        /\ \A x \in Procs : x # p /\ x # q => pc'[x] = pc[x]
        /\ parent'[q] = p /\ \A x \in Procs : x # q => parent'[x] = parent[x]
        /\ \A x \in Procs : x # q => gpid_child'[x] = gpid_child[x]
    BY <1>t, <1>7 DEF Fork, SupervisorType
  <2>2. p \in Roots
    BY <1>q, <2>1 DEF Loop
  <2>3. Children(p)' = Children(p) \cup {q} /\ \A x : x # p => Children(x)' = Children(x)
    BY <1>7, ForkChildren
  <2>4. \A x \in Kids : Related(x)'
    BY <1>k, <2>1, <2>2 DEF Kin, Related, Loop
  <2>5. ASSUME NEW r \in Roots PROVE Family(r)'
    <3>1. CASE r = p
      <4>1. Children(p) = {}
        BY <1>r, <2>1, <2>2 DEF Family, RootPC, Locking, Loop
      <4> QED
        BY <2>1, <2>3, <3>1, <4>1 DEF Family
    <3>2. CASE r # p
      <4>1. pc'[r] = pc[r] /\ gpid_child'[r] = gpid_child[r] /\ Children(r)' = Children(r)
        BY <2>1, <2>3, <3>2
      <4>2. \A x \in Children(r) : ~ Live(x) => ~ Live(x)'
        BY <2>1, <2>2 DEF Children, Live
      <4> QED
        BY <1>r, <4>1, <4>2 DEF Family
    <3> QED
      BY <3>1, <3>2
  <2> QED
    BY <2>4, <2>5 DEF Kin
<1>8. ASSUME NEW p \in Procs, NEW q \in Kids, Assign(p, q) PROVE Kin'
  <2>1. /\ pc[p] = "assign" /\ pc'[p] = "waitpid" /\ q \in Children(p) /\ parent' = parent
        /\ \A x \in Procs : x # p => pc'[x] = pc[x] /\ gpid_child'[x] = gpid_child[x]
        /\ gpid_child'[p] = q
    BY <1>t, <1>8 DEF Assign, Goto, Newest, Children
  <2>2. p \in Roots
    BY <1>q, <2>1 DEF Loop
  <2>3. \A x : Children(x)' = Children(x)
    BY <2>1, SameChildren
  <2>4. \A x \in Kids : Related(x)'
    BY <1>k, <2>1, <2>2 DEF Kin, Related
  <2>5. ASSUME NEW r \in Roots PROVE Family(r)'
    <3>1. CASE r = p
      <4>1. Children(p) = {q}
        BY <1>r, <2>1, <2>2 DEF Family
      <4> QED
        BY <2>1, <2>3, <3>1, <4>1 DEF Family
    <3>2. CASE r # p
      <4>1. pc'[r] = pc[r] /\ gpid_child'[r] = gpid_child[r]
        BY <2>1, <3>2
      <4>2. \A x \in Children(r) : ~ Live(x) => ~ Live(x)'
        BY <2>1, <2>2 DEF Children, Live
      <4> QED
        BY <1>r, <2>3, <4>1, <4>2 DEF Family
    <3> QED
      BY <3>1, <3>2
  <2> QED
    BY <2>4, <2>5 DEF Kin
<1>9. ASSUME NEW p \in Procs, NEW q \in Kids, Waitpid(p, q) PROVE Kin'
  <2>1. /\ pc[p] = "waitpid" /\ pc'[p] = "sleep" /\ pc[q] = "zombie" /\ pc'[q] = "absent" /\ p # q
        /\ \A x \in Procs : x # p /\ x # q => pc'[x] = pc[x]
        /\ \A x \in Procs : x # q => parent'[x] = parent[x]
        /\ gpid_child' = gpid_child /\ gpid_child[p] = q
    BY <1>t, <1>9 DEF Waitpid, SupervisorType
  <2>2. p \in Roots
    BY <1>q, <2>1 DEF Loop
  <2>3. \A x : Children(x)' = Children(x) \ {q}
    BY <1>9, WaitpidChildren
  <2>4. \A x \in Kids : Related(x)'
    BY <1>k, <2>1, <2>2 DEF Kin, Related
  <2>5. ASSUME NEW r \in Roots PROVE Family(r)'
    <3>1. CASE r = p
      <4>1. Children(p) \subseteq {q}
        BY <1>r, <2>1, <2>2 DEF Family
      <4> QED
        BY <2>1, <2>3, <3>1, <4>1 DEF Family
    <3>2. CASE r # p
      <4>1. pc'[r] = pc[r] /\ gpid_child'[r] = gpid_child[r]
        BY <2>1, <3>2
      <4>2. q \notin Children(r)
        <5>1. q \in Children(p)
          BY <2>1, <2>2 DEF Waits
        <5> QED
          BY <3>2, <5>1 DEF Children
      <4>3. \A x \in Children(r) : ~ Live(x) => ~ Live(x)'
        BY <2>1, <2>2, <4>2 DEF Children, Live
      <4> QED
        BY <1>r, <2>3, <4>1, <4>2, <4>3 DEF Family
    <3> QED
      BY <3>1, <3>2
  <2> QED
    BY <2>4, <2>5 DEF Kin
<1>10. ASSUME NEW p \in Procs, Sleep(p) PROVE Kin'
  <2>1. /\ UNCHANGED <<parent, gpid_child>> /\ p \in Procs
        /\ \A x \in Procs : x # p => pc'[x] = pc[x]
    BY <1>t, <1>10 DEF Sleep, Goto
  <2>2. p \in Kids => Live(p) /\ pc'[p] \notin {"absent"} \cup Loop
    BY <1>t, <1>q, <1>10 DEF Sleep, Goto, RootPC, KidPC, Locking, Loop, Live, Dead
  <2>3. ASSUME p \in Roots, Children(p)' = Children(p) PROVE Family(p)'
    <3>1. Family(p)
      BY <1>r, <2>3
    <3>2. \A x \in Children(p) : ~ Live(x) => ~ Live(x)'
      BY <2>1, <2>3 DEF Children, Live
    <3> QED
      BY <1>t, <1>10, <2>1, <2>3, <3>1, <3>2 DEF Sleep, Goto, Family, RootPC, Locking,
         Loop
  <2> QED
    BY <1>k, <2>1, <2>2, <2>3, MoveFamilies
<1>11. ASSUME NEW p \in Procs, InstallChild(p) PROVE Kin'
  <2>1. /\ UNCHANGED <<parent, gpid_child>> /\ p \in Procs
        /\ \A x \in Procs : x # p => pc'[x] = pc[x]
    BY <1>t, <1>11 DEF InstallChild, Goto
  <2>2. p \in Kids => Live(p) /\ pc'[p] \notin {"absent"} \cup Loop
    BY <1>t, <1>q, <1>11 DEF InstallChild, Goto, RootPC, KidPC, Locking, Loop, Live, Dead
  <2>3. ASSUME p \in Roots, Children(p)' = Children(p) PROVE Family(p)'
    <3>1. Family(p)
      BY <1>r, <2>3
    <3>2. \A x \in Children(p) : ~ Live(x) => ~ Live(x)'
      BY <2>1, <2>3 DEF Children, Live
    <3> QED
      BY <1>t, <1>11, <2>1, <2>3, <3>1, <3>2 DEF InstallChild, Goto, Family, RootPC,
         Locking, Loop
  <2> QED
    BY <1>k, <2>1, <2>2, <2>3, MoveFamilies
<1>12. ASSUME NEW p \in Procs, WaitDone(p) PROVE Kin'
  <2>1. /\ pc[p] = "onterm" /\ pc'[p] = "close" /\ UNCHANGED <<parent, gpid_child>>
        /\ \A x \in Procs : x # p => pc'[x] = pc[x]
    BY <1>t, <1>12 DEF WaitDone, Goto
  <2>2. ASSUME p \in Roots, Children(p)' = Children(p) PROVE Family(p)'
    <3>1. \A x \in Children(p) : x = gpid_child[p] /\ pc[x] = "zombie"
      <4>1. Children(p) \subseteq {gpid_child[p]} /\ NoProc \notin Children(p)
        BY <1>r, <2>1, <2>2 DEF Family, Children
      <4> QED
        BY <1>12, <4>1 DEF WaitDone
    <3>2. \A x \in Children(p) : x # p /\ x \in Procs
      BY <2>2 DEF Children
    <3>3. \A x \in Children(p) : ~ Live(x)'
      BY <2>1, <3>1, <3>2 DEF Live, Dead
    <3> QED
      BY <2>1, <2>2, <3>3 DEF Family
  <2> QED
    BY <1>k, <2>1, <2>2, MoveFamilies DEF Live, Dead, Loop
<1>13. ASSUME NEW p \in Procs, CleanupClose(p) PROVE Kin'
  <2>1. /\ UNCHANGED <<parent, gpid_child>> /\ p \in Procs
        /\ \A x \in Procs : x # p => pc'[x] = pc[x]
    BY <1>t, <1>13 DEF CleanupClose, Goto
  <2>2. p \in Kids => Live(p) /\ pc'[p] \notin {"absent"} \cup Loop
    BY <1>t, <1>q, <1>13 DEF CleanupClose, Goto, RootPC, KidPC, Locking, Loop, Live, Dead
  <2>3. ASSUME p \in Roots, Children(p)' = Children(p) PROVE Family(p)'
    <3>1. Family(p)
      BY <1>r, <2>3
    <3>2. \A x \in Children(p) : ~ Live(x) => ~ Live(x)'
      BY <2>1, <2>3 DEF Children, Live
    <3> QED
      BY <1>t, <1>13, <2>1, <2>3, <3>1, <3>2 DEF CleanupClose, Goto, Family, RootPC,
         Locking, Loop
  <2> QED
    BY <1>k, <2>1, <2>2, <2>3, MoveFamilies
<1>14. ASSUME NEW p \in Procs, CleanupRemove(p) PROVE Kin'
  <2>1. p \in Procs /\ Live(p) /\ End(p)
    BY <1>14 DEF CleanupRemove, Live, Dead, Interruptible, MainPC
  <2>2. ASSUME p \in Roots PROVE \A x \in Children(p) : ~ Live(x)
    BY <1>t, <1>r, <1>14, <2>2 DEF CleanupRemove, Family
  <2> QED
    BY <1>k, <2>1, <2>2, EndFamilies
<1>15. ASSUME NEW p \in Procs, DeliverDefault(p) PROVE Kin'
  <2>1. p \in Procs /\ Live(p) /\ End(p)
    BY <1>15 DEF DeliverDefault, Live, Dead, Interruptible, MainPC
  <2>2. ASSUME p \in Roots PROVE \A x \in Children(p) : ~ Live(x)
    BY <1>t, <1>r, <1>15, <2>2 DEF DeliverDefault, Interruptible, Handlers, Family,
       RootPC, Locking, Loop, MainPC
  <2> QED
    BY <1>k, <2>1, <2>2, EndFamilies
<1>16. ASSUME NEW p \in Procs, DeliverChild(p) PROVE Kin'
  <2>1. /\ UNCHANGED <<parent, gpid_child>> /\ p \in Procs
        /\ \A x \in Procs : x # p => pc'[x] = pc[x]
    BY <1>t, <1>16 DEF DeliverChild
  <2>2. p \in Kids => Live(p) /\ pc'[p] \notin {"absent"} \cup Loop
    BY <1>t, <1>q, <1>16 DEF DeliverChild, Interruptible, MainPC, RootPC, KidPC,
       Locking, Loop, Live, Dead
  <2>3. ASSUME p \in Roots, Children(p)' = Children(p) PROVE Family(p)'
    <3>1. Family(p)
      BY <1>r, <2>3
    <3>2. \A x \in Children(p) : ~ Live(x) => ~ Live(x)'
      BY <2>1, <2>3 DEF Children, Live
    <3> QED
      BY <1>t, <1>16, <2>1, <2>3, <3>1, <3>2 DEF DeliverChild, Interruptible, MainPC,
         Handlers, Family, RootPC, Locking, Loop
  <2> QED
    BY <1>k, <2>1, <2>2, <2>3, MoveFamilies
<1>17. ASSUME NEW p \in Procs, DeliverParent(p) PROVE Kin'
  <2>1. /\ UNCHANGED <<parent, gpid_child>> /\ p \in Procs
        /\ \A x \in Procs : x # p => pc'[x] = pc[x]
    BY <1>t, <1>17 DEF DeliverParent
  <2>2. p \in Kids => Live(p) /\ pc'[p] \notin {"absent"} \cup Loop
    BY <1>t, <1>q, <1>17 DEF DeliverParent, Interruptible, MainPC, Exiting, RootPC,
       KidPC, Locking, Loop, Live, Dead
  <2>3. ASSUME p \in Roots, Children(p)' = Children(p) PROVE Family(p)'
    <3>1. Family(p)
      BY <1>r, <2>3
    <3>2. \A x \in Children(p) : ~ Live(x) => ~ Live(x)'
      BY <2>1, <2>3 DEF Children, Live
    <3> QED
      BY <1>t, <1>17, <2>1, <2>3, <3>1, <3>2 DEF DeliverParent, Interruptible, MainPC,
         Handlers, Calm, Exiting, Family, RootPC, Locking, Loop
  <2> QED
    BY <1>k, <2>1, <2>2, <2>3, MoveFamilies
<1>18. ASSUME NEW p \in Procs, ForkFails(p) PROVE Kin'
  <2>1. /\ UNCHANGED <<parent, gpid_child>> /\ p \in Procs
        /\ \A x \in Procs : x # p => pc'[x] = pc[x]
    BY <1>t, <1>18 DEF ForkFails, Goto
  <2>2. p \in Kids => Live(p) /\ pc'[p] \notin {"absent"} \cup Loop
    BY <1>t, <1>q, <1>18 DEF ForkFails, Goto, RootPC, KidPC, Locking, Loop, Live, Dead
  <2>3. ASSUME p \in Roots, Children(p)' = Children(p) PROVE Family(p)'
    <3>1. Family(p)
      BY <1>r, <2>3
    <3>2. \A x \in Children(p) : ~ Live(x) => ~ Live(x)'
      BY <2>1, <2>3 DEF Children, Live
    <3> QED
      BY <1>t, <1>18, <2>1, <2>3, <3>1, <3>2 DEF ForkFails, Goto, Family, RootPC,
         Locking, Loop
  <2> QED
    BY <1>k, <2>1, <2>2, <2>3, MoveFamilies
<1>19. ASSUME NEW p \in Procs, Kill(p) PROVE Kin'
  <2>1. /\ UNCHANGED <<parent, gpid_child>> /\ p \in Procs
        /\ \A x \in Procs : x # p => pc'[x] = pc[x]
    BY <1>t, <1>19 DEF Kill
  <2>2. p \in Kids => Live(p) /\ pc'[p] \notin {"absent"} \cup Loop
    BY <1>t, <1>q, <1>19 DEF Kill, RootPC, KidPC, Locking, Loop, Live, Dead
  <2>3. ASSUME p \in Roots, Children(p)' = Children(p) PROVE Family(p)'
    <3>1. Family(p)
      BY <1>r, <2>3
    <3>2. \A x \in Children(p) : ~ Live(x) => ~ Live(x)'
      BY <2>1, <2>3 DEF Children, Live
    <3> QED
      BY <1>t, <1>19, <2>1, <2>3, <3>1, <3>2 DEF Kill, Family, RootPC, Locking, Loop
  <2> QED
    BY <1>k, <2>1, <2>2, <2>3, MoveFamilies
<1>20. ASSUME NEW q \in Kids, ServiceStarts(q) PROVE Kin'
  <2>1. /\ UNCHANGED <<parent, gpid_child>> /\ q \in Procs
        /\ \A x \in Procs : x # q => pc'[x] = pc[x]
    BY <1>t, <1>20 DEF ServiceStarts, Goto
  <2>2. q \in Kids => Live(q) /\ pc'[q] \notin {"absent"} \cup Loop
    BY <1>t, <1>q, <1>20 DEF ServiceStarts, Goto, RootPC, KidPC, Locking, Loop, Live, Dead
  <2>3. ASSUME q \in Roots, Children(q)' = Children(q) PROVE Family(q)'
    <3>1. Family(q)
      BY <1>r, <2>3
    <3>2. \A x \in Children(q) : ~ Live(x) => ~ Live(x)'
      BY <2>1, <2>3 DEF Children, Live
    <3> QED
      BY <1>t, <1>20, <2>1, <2>3, <3>1, <3>2 DEF ServiceStarts, Goto, Family, RootPC,
         Locking, Loop
  <2> QED
    BY <1>k, <2>1, <2>2, <2>3, MoveFamilies
<1>21. ASSUME NEW q \in Kids, ServiceFails(q) PROVE Kin'
  BY <1>21 DEF ServiceFails, Calm
<1>22. ASSUME NEW q \in Kids, Crash(q) PROVE Kin'
  <2>1. q \in Procs /\ Live(q) /\ End(q)
    BY <1>22 DEF Crash, Live, Dead, Interruptible, MainPC
  <2>2. ASSUME q \in Roots PROVE \A x \in Children(q) : ~ Live(x)
    BY <1>t, <1>r, <1>22, <2>2 DEF Crash
  <2> QED
    BY <1>k, <2>1, <2>2, EndFamilies
<1>23. ASSUME NEW q \in Kids, ExitHangs(q) PROVE Kin'
  <2>1. /\ UNCHANGED <<parent, gpid_child>> /\ q \in Procs
        /\ \A x \in Procs : x # q => pc'[x] = pc[x]
    BY <1>t, <1>23 DEF ExitHangs, Goto
  <2>2. q \in Kids => Live(q) /\ pc'[q] \notin {"absent"} \cup Loop
    BY <1>t, <1>q, <1>23 DEF ExitHangs, Goto, RootPC, KidPC, Locking, Loop, Live, Dead
  <2>3. ASSUME q \in Roots, Children(q)' = Children(q) PROVE Family(q)'
    <3>1. Family(q)
      BY <1>r, <2>3
    <3>2. \A x \in Children(q) : ~ Live(x) => ~ Live(x)'
      BY <2>1, <2>3 DEF Children, Live
    <3> QED
      BY <1>t, <1>23, <2>1, <2>3, <3>1, <3>2 DEF ExitHangs, Goto, Family, RootPC,
         Locking, Loop
  <2> QED
    BY <1>k, <2>1, <2>2, <2>3, MoveFamilies
<1>24. CASE UNCHANGED vars
  BY <1>k, <1>24 DEF vars, Kin, Related, Family, Children, Live
<1> QED
  BY <1>1, <1>2, <1>3, <1>4, <1>5, <1>6, <1>7, <1>8, <1>9, <1>10, <1>11, <1>12, <1>13,
     <1>14, <1>15, <1>16, <1>17, <1>18, <1>19, <1>20, <1>21, <1>22, <1>23, <1>24
  DEF Next, ProcStep, Deliver

-----------------------------------------------------------------------------
(* Before anything is started every process slot is free.                   *)
LEMMA SupervisorInit == Init => SupervisorInv
<1> USE ProcAssumption DEF Procs
<1> SUFFICES ASSUME Init PROVE SupervisorInv
  OBVIOUS
<1>1. SupervisorType
  BY DEF Init, SupervisorType, RootPC, KidPC
<1>2. \A p \in Procs : pc[p] = "absent" /\ lock_fd[p] = NoFile /\ handler[p] = "default"
  BY DEF Init
<1>3. Waits /\ Handlers
  BY <1>2 DEF Waits, Handlers, Loop
<1>4. Locks
  BY <1>2 DEF Locks, Locking, Loop, OneInstanceUnlessStolen, OneInstance, Running,
     Live, Dead
<1>5. Families
  BY <1>2 DEF Families, Kin, Related, Family, Children
<1> QED
  BY <1>1, <1>3, <1>4, <1>5 DEF SupervisorInv

(* The parts of the invariant, put together.                                *)
LEMMA SupervisorStep == SupervisorInv /\ [Next]_vars => SupervisorInv'
  BY TypeStep, WaitsStep, HandlersStep, LocksStep, FamiliesStep DEF SupervisorInv

(* The invariant that the theorems follow from.                             *)
LEMMA Supervised == Spec => []SupervisorInv
  BY SupervisorInit, SupervisorStep, PTL DEF Spec

(* The shape of the state: a process is at a place of main(), of a handler  *)
(* or of the table of processes, and one in waitpid() waits for a child     *)
(* that it has, not for a pid that is gone (main.cpp's loop and handlers).  *)
THEOREM SupervisorTypes == Spec => []TypeOK
<1>1. SupervisorInv => TypeOK
  <2>1. RootPC \cup KidPC \subseteq MainPC \cup Exiting \cup Dead
    BY DEF RootPC, KidPC, Locking, Loop, MainPC, Exiting, Dead
  <2>2. ASSUME SupervisorInv PROVE pc \in [Procs -> MainPC \cup Exiting \cup Dead]
    BY <2>1, <2>2 DEF SupervisorInv, SupervisorType
  <2> QED
    BY <2>2 DEF SupervisorInv, SupervisorType, Waits, TypeOK
<1> QED
  BY <1>1, Supervised, PTL

(* is_single_proc_inst_running(): while no exit() has removed a lock file   *)
(* that a process still had open, one instance at most is past the lock,    *)
(* however many are started and whenever they are signalled.                *)
THEOREM OneInstanceAtATime == Spec => []OneInstanceUnlessStolen
  BY Supervised, PTL DEF SupervisorInv, Locks

(* sig_handler_parent() and the loop of main(): no worker process outlives  *)
(* the process that forked it, unless a signal came between fork() and the  *)
(* assignment of gpid_child or a work_process() returned.                   *)
THEOREM WorkersStop == Spec => []NoOrphan
<1>1. SupervisorInv => NoOrphan
  <2>1. ASSUME SupervisorInv, Calm, NEW q \in Kids, Live(q) PROVE parent[q] # NoProc
    <3>1. parent[q] \in Roots
      BY <2>1 DEF SupervisorInv, Families, Kin, Related, Live, Dead
    <3> QED
      BY <3>1, ProcAssumption DEF Procs
  <2> QED
    BY <2>1 DEF NoOrphan, Calm
<1> QED
  BY <1>1, Supervised, PTL
=============================================================================
