---------------------------- MODULE StartupProofs -----------------------------
(***************************************************************************)
(* One process at most accepts connections, for any number of processes,    *)
(* faults and clients.  The invariant follows a socket from its process     *)
(* through bind() and listen() and keeps two facts apart: who has a socket  *)
(* open, and what has been done to it.  A process that serves has its own   *)
(* socket open and listening; since the kernel lets only one socket listen, *)
(* there is no other such process.                                          *)
(***************************************************************************)
EXTENDS Startup, TLAPS

Places == Dead \cup Loop \cup Start \cup {"serve", "hung"}
Parts == {"clear", "wait", "accept"}

(* Where a process has its own socket, and where that one listens.          *)
Owning == {"bind", "listen", "epoll", "clear", "wait", "accept", "serve"}
Listening == {"epoll", "clear", "wait", "accept", "serve"}
Early == {"absent", "zombie", "pool", "socket", "bind", "listen", "epoll", "clear"}

ThreadsFit(place, created) ==
  /\ place \in Early => created = {}
  /\ place = "wait" => created = {"clear"}
  /\ place = "accept" => created = {"clear", "wait"}
  /\ place = "serve" => created = Parts
  /\ "accept" \in created => place = "serve"

StartupType ==
  /\ pc \in [Procs -> Places]
  /\ parent \in [Kids -> Procs]
  /\ fds \in [Procs -> SUBSET Kids] /\ fds[Root] = {}
  /\ sock \in [Kids -> {"none", "new", "bound", "listening"}]
  /\ threads \in [Kids -> SUBSET Parts]
  /\ conn \in [Clients -> {"none", "refused", "queued", "accepted", "reset"}]
  /\ at \in [Clients -> Procs]
  /\ faults \in 0..MaxFaults

WaitsForChild == \A p \in Procs : pc[p] = "waitpid" => ChildOf(p) # {}
OpenSockets == \A q \in Kids : sock[q] # "none" <=> \E p \in Procs : q \in fds[p]
DeadClosed == \A p \in Procs : pc[p] \in Dead => fds[p] = {}
OwnSocket == \A q \in Kids : pc[q] \in Owning => q \in fds[q]
SocketListens == \A q \in Kids : pc[q] \in Listening => sock[q] = "listening"
OneListener ==
  \A q, s \in Kids : sock[q] = "listening" /\ sock[s] = "listening" => q = s
ThreadsCreated == \A q \in Kids : ThreadsFit(pc[q], threads[q])

StartupInv ==
  /\ StartupType
  /\ WaitsForChild
  /\ OpenSockets
  /\ DeadClosed
  /\ OwnSocket
  /\ SocketListens
  /\ OneListener
  /\ ThreadsCreated

USE DEF Places, Parts, Owning, Listening, Early, Dead, Loop, Start, Procs

-----------------------------------------------------------------------------
(* Only the process started by hand is there at the beginning.              *)
LEMMA StartupInitInv == Init => StartupInv
<1> SUFFICES ASSUME Init PROVE StartupInv
  OBVIOUS
<1> USE StartupAssumption DEF Init
<1>1. StartupType
  BY DEF StartupType
<1>2. WaitsForChild /\ OpenSockets /\ DeadClosed
  BY DEF WaitsForChild, OpenSockets, DeadClosed
<1>3. OwnSocket /\ SocketListens /\ OneListener
  BY DEF OwnSocket, SocketListens, OneListener
<1>4. ThreadsCreated
  BY DEF ThreadsCreated, ThreadsFit
<1> QED
  BY <1>1, <1>2, <1>3, <1>4 DEF StartupInv

(* A process goes on to another place and nothing else happens.             *)
LEMMA GotoInv ==
  ASSUME StartupInv, NEW p \in Procs,
         NEW from \in Places \ Dead, NEW to \in Places \ (Dead \cup {"waitpid"}),
         Goto(p, from, to),
         UNCHANGED <<parent, fds, sock, threads, conn, at>>, faults' \in 0..MaxFaults,
         to \in Owning => from \in Owning,
         to \in Listening => from \in Listening,
         p \in Kids => ThreadsFit(to, threads[p])
  PROVE  StartupInv'
<1> USE StartupAssumption
<1>1. /\ pc[p] = from /\ pc'[p] = to
      /\ \A o \in Procs : o # p => pc'[o] = pc[o]
      /\ pc' \in [Procs -> Places]
  BY DEF StartupInv, StartupType, Goto
<1>2. StartupType'
  BY <1>1 DEF StartupInv, StartupType
<1>3. WaitsForChild'
  BY <1>1 DEF StartupInv, WaitsForChild, ChildOf
<1>4. OpenSockets' /\ OneListener'
  BY DEF StartupInv, OpenSockets, OneListener
<1>5. DeadClosed'
  BY <1>1 DEF StartupInv, DeadClosed
<1>6. OwnSocket'
  BY <1>1 DEF StartupInv, OwnSocket
<1>7. SocketListens'
  BY <1>1 DEF StartupInv, SocketListens
<1>8. ThreadsCreated'
  <2> SUFFICES ASSUME NEW q \in Kids PROVE ThreadsFit(pc'[q], threads[q])
    BY DEF ThreadsCreated
  <2>1. CASE q = p
    BY <1>1, <2>1
  <2>2. CASE q # p
    BY <1>1, <2>2 DEF StartupInv, ThreadsCreated
  <2> QED
    BY <2>1, <2>2
<1> QED
  BY <1>2, <1>3, <1>4, <1>5, <1>6, <1>7, <1>8 DEF StartupInv

(* A start that fails goes to the sleep with whatever it has created.       *)
LEMMA StartFailsInv ==
  ASSUME StartupInv, NEW q \in Kids, StartFails(q)
  PROVE  StartupInv'
<1> USE StartupAssumption DEF StartFails
<1>1. pc[q] \in Start /\ Goto(q, pc[q], "sleep")
  OBVIOUS
<1>2. faults' \in 0..MaxFaults
  BY DEF StartupInv, StartupType
<1>3. ThreadsFit("sleep", threads[q])
  <2>1. ThreadsFit(pc[q], threads[q]) /\ pc[q] # "serve"
    BY <1>1 DEF StartupInv, ThreadsCreated
  <2> QED
    BY <2>1 DEF ThreadsFit
<1> QED
  BY <1>1, <1>2, <1>3, GotoInv

(* The loop of main() and the steps of work_process() without a socket or a *)
(* thread.                                                                  *)
LEMMA PlainInv ==
  ASSUME StartupInv,
         \/ \E p \in Procs : Sleep(p)
         \/ \E q \in Kids : PoolStart(q) \/ EpollCreate(q)
  PROVE  StartupInv'
<1> USE StartupAssumption
<1>0. faults \in 0..MaxFaults
  BY DEF StartupInv, StartupType
<1>1. ASSUME NEW p \in Procs, Sleep(p) PROVE StartupInv'
  <2>1. Goto(p, "sleep", "fork") /\ UNCHANGED <<parent, fds, sock, threads, conn, at, faults>>
    BY <1>1 DEF Sleep
  <2>2. p \in Kids => ThreadsFit("fork", threads[p])
    BY <2>1 DEF StartupInv, ThreadsCreated, ThreadsFit, Goto
  <2> QED
    BY <1>0, <2>1, <2>2, GotoInv
<1>2. ASSUME NEW q \in Kids, PoolStart(q) PROVE StartupInv'
  <2>1. Goto(q, "pool", "socket") /\ UNCHANGED <<parent, fds, sock, threads, conn, at, faults>>
    BY <1>2 DEF PoolStart
  <2>2. ThreadsFit("socket", threads[q])
    BY <2>1 DEF StartupInv, ThreadsCreated, ThreadsFit, Goto
  <2> QED
    BY <1>0, <2>1, <2>2, GotoInv
<1>3. ASSUME NEW q \in Kids, EpollCreate(q) PROVE StartupInv'
  <2>1. /\ pc[q] = "epoll" /\ pc' = [pc EXCEPT ![q] = "clear"]
        /\ UNCHANGED <<parent, fds, sock, threads, conn, at, faults>>
    BY <1>3 DEF EpollCreate, Goto
  <2>2. ThreadsFit("clear", threads[q])
    BY <2>1 DEF StartupInv, ThreadsCreated, ThreadsFit
  <2>3. Goto(q, "epoll", "clear")
    BY <2>1 DEF Goto
  <2> QED
    BY <1>0, <2>1, <2>2, <2>3, GotoInv
<1> QED
  BY <1>1, <1>2, <1>3

-----------------------------------------------------------------------------
(* The calls of epoll::create() on the process's own socket.                *)
LEMMA SocketInv ==
  ASSUME StartupInv, NEW q \in Kids, Socket(q)
  PROVE  StartupInv'
<1> USE StartupAssumption
<1>1. /\ pc[q] = "socket" /\ pc'[q] = "bind"
      /\ \A o \in Procs : o # q => pc'[o] = pc[o]
      /\ pc' \in [Procs -> Places]
  BY DEF StartupInv, StartupType, Socket, Goto
<1>2. /\ sock'[q] = "new"
      /\ \A s \in Kids : s # q => sock'[s] = sock[s]
      /\ fds'[q] = fds[q] \cup {q}
      /\ \A o \in Procs : o # q => fds'[o] = fds[o]
      /\ UNCHANGED <<parent, threads, conn, at, faults>>
  BY DEF StartupInv, StartupType, Socket
<1>3. StartupType'
  <2>1. fds' \in [Procs -> SUBSET Kids] /\ fds'[Root] = {}
    BY <1>2 DEF StartupInv, StartupType, Socket
  <2>2. sock' \in [Kids -> {"none", "new", "bound", "listening"}]
    BY DEF StartupInv, StartupType, Socket
  <2> QED
    BY <1>1, <1>2, <2>1, <2>2 DEF StartupInv, StartupType
<1>4. WaitsForChild'
  BY <1>1, <1>2 DEF StartupInv, WaitsForChild, ChildOf
<1>5. OpenSockets'
  BY <1>2 DEF StartupInv, OpenSockets
<1>6. DeadClosed' /\ OwnSocket'
  BY <1>1, <1>2 DEF StartupInv, DeadClosed, OwnSocket
<1>7. SocketListens' /\ OneListener'
  BY <1>1, <1>2 DEF StartupInv, SocketListens, OneListener
<1>8. ThreadsCreated'
  <2> SUFFICES ASSUME NEW o \in Kids PROVE ThreadsFit(pc'[o], threads[o])
    BY <1>2 DEF ThreadsCreated
  <2>1. ThreadsFit(pc[o], threads[o])
    BY DEF StartupInv, ThreadsCreated
  <2> QED
    BY <1>1, <2>1 DEF ThreadsFit
<1> QED
  BY <1>3, <1>4, <1>5, <1>6, <1>7, <1>8 DEF StartupInv

(* The port is free; the socket is bound to it but does not listen.         *)
LEMMA BindInv ==
  ASSUME StartupInv, NEW q \in Kids, Bind(q)
  PROVE  StartupInv'
<1> USE StartupAssumption
<1>1. /\ pc[q] = "bind" /\ pc'[q] = "listen"
      /\ \A o \in Procs : o # q => pc'[o] = pc[o]
      /\ pc' \in [Procs -> Places]
  BY DEF StartupInv, StartupType, Bind, Goto
<1>2. /\ sock'[q] = "bound"
      /\ \A s \in Kids : s # q => sock'[s] = sock[s]
      /\ UNCHANGED <<parent, fds, threads, conn, at, faults>>
  BY DEF StartupInv, StartupType, Bind
<1>3. StartupType'
  BY <1>1, <1>2 DEF StartupInv, StartupType, Bind
<1>4. WaitsForChild'
  BY <1>1, <1>2 DEF StartupInv, WaitsForChild, ChildOf
<1>5. OpenSockets'
  BY <1>1, <1>2 DEF StartupInv, OpenSockets, OwnSocket
<1>6. DeadClosed' /\ OwnSocket'
  BY <1>1, <1>2 DEF StartupInv, DeadClosed, OwnSocket
<1>7. SocketListens' /\ OneListener'
  BY <1>1, <1>2 DEF StartupInv, SocketListens, OneListener
<1>8. ThreadsCreated'
  <2> SUFFICES ASSUME NEW o \in Kids PROVE ThreadsFit(pc'[o], threads[o])
    BY <1>2 DEF ThreadsCreated
  <2>1. ThreadsFit(pc[o], threads[o])
    BY DEF StartupInv, ThreadsCreated
  <2> QED
    BY <1>1, <2>1 DEF ThreadsFit
<1> QED
  BY <1>3, <1>4, <1>5, <1>6, <1>7, <1>8 DEF StartupInv

(* Nobody else listens when listen() succeeds.                              *)
LEMMA ListenInv ==
  ASSUME StartupInv, NEW q \in Kids, Listen(q)
  PROVE  StartupInv'
<1> USE StartupAssumption
<1>1. /\ pc[q] = "listen" /\ pc'[q] = "epoll"
      /\ \A o \in Procs : o # q => pc'[o] = pc[o]
      /\ pc' \in [Procs -> Places]
  BY DEF StartupInv, StartupType, Listen, Goto
<1>2. /\ sock'[q] = "listening"
      /\ \A s \in Kids : s # q => sock'[s] = sock[s] /\ sock[s] # "listening"
      /\ UNCHANGED <<parent, fds, threads, conn, at, faults>>
  BY DEF StartupInv, StartupType, Listen, PortTaken
<1>3. StartupType'
  BY <1>1, <1>2 DEF StartupInv, StartupType, Listen
<1>4. WaitsForChild'
  BY <1>1, <1>2 DEF StartupInv, WaitsForChild, ChildOf
<1>5. OpenSockets'
  BY <1>1, <1>2 DEF StartupInv, OpenSockets, OwnSocket
<1>6. DeadClosed' /\ OwnSocket'
  BY <1>1, <1>2 DEF StartupInv, DeadClosed, OwnSocket
<1>7. SocketListens'
  BY <1>1, <1>2 DEF StartupInv, SocketListens
<1>8. OneListener'
  BY <1>2 DEF OneListener
<1>9. ThreadsCreated'
  <2> SUFFICES ASSUME NEW o \in Kids PROVE ThreadsFit(pc'[o], threads[o])
    BY <1>2 DEF ThreadsCreated
  <2>1. ThreadsFit(pc[o], threads[o])
    BY DEF StartupInv, ThreadsCreated
  <2> QED
    BY <1>1, <2>1 DEF ThreadsFit
<1> QED
  BY <1>3, <1>4, <1>5, <1>6, <1>7, <1>8, <1>9 DEF StartupInv

(* main_service::start(): the threads come one after another.               *)
LEMMA CreateThreadsInv ==
  ASSUME StartupInv, NEW q \in Kids, CreateThreads(q)
  PROVE  StartupInv'
<1> USE StartupAssumption
<1>1. PICK routine \in Parts, next \in {"wait", "accept", "serve"} :
        /\ Spawn(q, routine, next)
        /\ \/ routine = "clear" /\ next = "wait"
           \/ routine = "wait" /\ next = "accept"
           \/ routine = "accept" /\ next = "serve"
  BY DEF CreateThreads
<1>2. /\ pc[q] = routine /\ pc'[q] = next
      /\ \A o \in Procs : o # q => pc'[o] = pc[o]
      /\ pc' \in [Procs -> Places]
  BY <1>1 DEF StartupInv, StartupType, Spawn, Goto
<1>3. /\ threads'[q] = threads[q] \cup {routine}
      /\ \A o \in Kids : o # q => threads'[o] = threads[o]
      /\ threads' \in [Kids -> SUBSET Parts]
      /\ UNCHANGED <<parent, fds, sock, conn, at, faults>>
  BY <1>1 DEF StartupInv, StartupType, Spawn
<1>4. StartupType'
  BY <1>2, <1>3 DEF StartupInv, StartupType
<1>5. WaitsForChild'
  BY <1>2, <1>3 DEF StartupInv, WaitsForChild, ChildOf
<1>6. OpenSockets' /\ OneListener'
  BY <1>3 DEF StartupInv, OpenSockets, OneListener
<1>7. DeadClosed' /\ OwnSocket'
  BY <1>2, <1>3 DEF StartupInv, DeadClosed, OwnSocket
<1>8. SocketListens'
  BY <1>2, <1>3 DEF StartupInv, SocketListens
<1>9. ThreadsCreated'
  <2> SUFFICES ASSUME NEW o \in Kids PROVE ThreadsFit(pc'[o], threads'[o])
    BY DEF ThreadsCreated
  <2>1. ThreadsFit(pc[o], threads[o])
    BY DEF StartupInv, ThreadsCreated
  <2>2. CASE o # q
    BY <1>2, <1>3, <2>1, <2>2
  <2>3. CASE o = q
    BY <1>1, <1>2, <1>3, <2>1, <2>3 DEF ThreadsFit
  <2> QED
    BY <2>2, <2>3
<1> QED
  BY <1>4, <1>5, <1>6, <1>7, <1>8, <1>9 DEF StartupInv

(* Clients and the acceptor change connections only.                        *)
LEMMA ConnectionInv ==
  ASSUME StartupInv,
         (\E c \in Clients : Connect(c)) \/ (\E q \in Kids : Accept(q))
  PROVE  StartupInv'
<1>1. UNCHANGED <<pc, parent, fds, sock, threads, faults>>
  BY DEF Connect, Accept
<1>2. /\ conn' \in [Clients -> {"none", "refused", "queued", "accepted", "reset"}]
      /\ at' \in [Clients -> Procs]
  BY DEF StartupInv, StartupType, Connect, Accept
<1>3. StartupType'
  BY <1>1, <1>2 DEF StartupInv, StartupType
<1> QED
  BY <1>1, <1>3 DEF StartupInv, WaitsForChild, ChildOf, OpenSockets, DeadClosed, OwnSocket,
                    SocketListens, OneListener, ThreadsCreated

-----------------------------------------------------------------------------
(* What a process that closes some of its sockets leaves to the others: a   *)
(* socket that another one has open stays as it was.                        *)
LEMMA KeepsSockets ==
  ASSUME StartupInv, NEW p \in Procs, NEW kept \in SUBSET fds[p], Keeps(p, kept)
  PROVE  /\ fds' \in [Procs -> SUBSET Kids] /\ fds'[Root] = {}
         /\ fds'[p] = kept
         /\ \A o \in Procs : o # p => fds'[o] = fds[o]
         /\ sock' \in [Kids -> {"none", "new", "bound", "listening"}]
         /\ \A q \in Kids : sock'[q] \in {sock[q], "none"}
         /\ \A q \in Kids : (\E o \in Procs \ {p} : q \in fds[o]) => sock'[q] = sock[q]
         /\ conn' \in [Clients -> {"none", "refused", "queued", "accepted", "reset"}]
         /\ at' = at
         /\ OpenSockets' /\ OneListener'
<1> USE StartupAssumption
<1> DEFINE open == kept \cup UNION {fds[o] : o \in Procs \ {p}}
<1>1. /\ fds' = [fds EXCEPT ![p] = kept]
      /\ sock' = [q \in Kids |-> IF q \in open THEN sock[q] ELSE "none"]
      /\ at' = at
  BY DEF Keeps
<1>2. /\ fds \in [Procs -> SUBSET Kids] /\ fds[Root] = {}
      /\ sock \in [Kids -> {"none", "new", "bound", "listening"}]
  BY DEF StartupInv, StartupType
<1>3. /\ fds' \in [Procs -> SUBSET Kids] /\ fds'[Root] = {}
      /\ fds'[p] = kept
      /\ \A o \in Procs : o # p => fds'[o] = fds[o]
  BY <1>1, <1>2
<1>4. \A q \in Kids : sock'[q] = IF q \in open THEN sock[q] ELSE "none"
  BY <1>1
<1>5. /\ sock' \in [Kids -> {"none", "new", "bound", "listening"}]
      /\ \A q \in Kids : sock'[q] \in {sock[q], "none"}
  BY <1>1, <1>2
<1>6. \A q \in Kids : (\E o \in Procs \ {p} : q \in fds[o]) => q \in open
  OBVIOUS
<1>7. conn' \in [Clients -> {"none", "refused", "queued", "accepted", "reset"}]
  <2> DEFINE lost(c) == \/ conn[c] = "queued" /\ at[c] \notin open
                        \/ conn[c] = "accepted" /\ at[c] = p
  <2>1. conn' = [c \in Clients |-> IF lost(c) THEN "reset" ELSE conn[c]]
    BY DEF Keeps
  <2>2. conn \in [Clients -> {"none", "refused", "queued", "accepted", "reset"}]
    BY DEF StartupInv, StartupType
  <2> HIDE DEF lost
  <2> QED
    BY <2>1, <2>2
<1>8. \A q \in Kids : q \in open <=> \E o \in Procs : q \in fds'[o]
  <2> SUFFICES ASSUME NEW q \in Kids PROVE q \in open <=> \E o \in Procs : q \in fds'[o]
    OBVIOUS
  <2>1. ASSUME q \in open PROVE \E o \in Procs : q \in fds'[o]
    BY <2>1, <1>3
  <2>2. ASSUME NEW o \in Procs, q \in fds'[o] PROVE q \in open
    BY <2>2, <1>3
  <2> QED
    BY <2>1, <2>2
<1>9. \A q \in open : q \in Kids => sock[q] # "none"
  <2>1. \A q \in Kids : sock[q] # "none" <=> \E o \in Procs : q \in fds[o]
    BY DEF StartupInv, OpenSockets
  <2> QED
    BY <2>1
<1> HIDE DEF open
<1>10. OpenSockets'
  BY <1>4, <1>8, <1>9 DEF OpenSockets
<1>11. OneListener'
  BY <1>5 DEF StartupInv, OneListener
<1> QED
  BY <1>1, <1>3, <1>4, <1>5, <1>6, <1>7, <1>10, <1>11

(* A process that ends closes what it has open; its children lose their     *)
(* parent, and the zombies among them are gone.                             *)
LEMMA EndInv ==
  ASSUME StartupInv, NEW p \in Procs, pc[p] \notin Dead, End(p), faults' \in 0..MaxFaults
  PROVE  StartupInv'
<1> USE StartupAssumption
<1>1. {} \in SUBSET fds[p] /\ Keeps(p, {})
  BY DEF End
<1>2. /\ pc' \in [Procs -> Places]
      /\ pc'[p] \in Dead
      /\ p \in Kids /\ parent[p] # p => pc'[p] = "zombie"
      /\ \A o \in Procs : o # p =>
           \/ pc'[o] = pc[o]
           \/ o \in Kids /\ parent[o] = p /\ pc[o] = "zombie" /\ pc'[o] = "absent"
  BY DEF StartupInv, StartupType, End, ChildOf
<1>3. /\ parent' \in [Kids -> Procs]
      /\ \A q \in Kids : parent[q] # p => parent'[q] = parent[q]
  BY DEF StartupInv, StartupType, End
<1>4. /\ threads' \in [Kids -> SUBSET Parts]
      /\ p \in Kids => threads'[p] = {}
      /\ \A q \in Kids : q # p => threads'[q] = threads[q]
  BY DEF StartupInv, StartupType, End
<1>5. StartupType'
  BY <1>1, <1>2, <1>3, <1>4, KeepsSockets DEF StartupInv, StartupType
<1>6. WaitsForChild'
  <2> SUFFICES ASSUME NEW o \in Procs, pc'[o] = "waitpid" PROVE ChildOf(o)' # {}
    BY DEF WaitsForChild
  <2>1. o # p /\ pc[o] = "waitpid"
    BY <1>2
  <2>2. PICK q \in Kids : parent[q] = o /\ pc[q] # "absent" /\ q # o
    BY <2>1 DEF StartupInv, WaitsForChild, ChildOf
  <2>3. parent'[q] = o
    BY <1>3, <2>1, <2>2
  <2>4. pc'[q] # "absent"
    BY <1>2, <2>1, <2>2
  <2> QED
    BY <2>2, <2>3, <2>4 DEF ChildOf
<1>7. OpenSockets' /\ OneListener'
  BY <1>1, KeepsSockets
<1>8. DeadClosed'
  BY <1>1, <1>2, KeepsSockets DEF StartupInv, DeadClosed
<1>9. OwnSocket'
  BY <1>1, <1>2, KeepsSockets DEF StartupInv, OwnSocket
<1>10. SocketListens'
  <2> SUFFICES ASSUME NEW q \in Kids, pc'[q] \in Listening PROVE sock'[q] = "listening"
    BY DEF SocketListens
  <2>1. q # p /\ pc[q] = pc'[q]
    BY <1>2
  <2>2. q \in fds[q] /\ sock[q] = "listening"
    BY <2>1 DEF StartupInv, OwnSocket, SocketListens
  <2> QED
    BY <1>1, <2>1, <2>2, KeepsSockets
<1>11. ThreadsCreated'
  <2> SUFFICES ASSUME NEW q \in Kids PROVE ThreadsFit(pc'[q], threads'[q])
    BY DEF ThreadsCreated
  <2>1. CASE q = p
    BY <1>2, <1>4, <2>1 DEF ThreadsFit
  <2>2. CASE q # p
    <3>1. ThreadsFit(pc[q], threads[q]) /\ threads'[q] = threads[q]
      BY <1>4, <2>2 DEF StartupInv, ThreadsCreated
    <3> QED
      BY <1>2, <2>2, <3>1 DEF ThreadsFit
  <2> QED
    BY <2>1, <2>2
<1> QED
  BY <1>5, <1>6, <1>7, <1>8, <1>9, <1>10, <1>11 DEF StartupInv

(* A process that hangs in its exit has closed a socket, perhaps its own;   *)
(* it neither listens nor accepts any more.                                 *)
LEMMA ExitHangsInv ==
  ASSUME StartupInv, NEW p \in Procs, pc[p] = "fork", ExitHangs(p), faults' \in 0..MaxFaults
  PROVE  StartupInv'
<1> USE StartupAssumption
<1>1. /\ p \in Kids
      /\ pc'[p] = "hung"
      /\ \A o \in Procs : o # p => pc'[o] = pc[o]
      /\ pc' \in [Procs -> Places]
      /\ UNCHANGED <<parent, threads>>
  BY DEF StartupInv, StartupType, ExitHangs
<1>2. PICK kept \in SUBSET fds[p] : Keeps(p, kept)
  BY DEF ExitHangs
<1>3. StartupType'
  BY <1>1, <1>2, KeepsSockets DEF StartupInv, StartupType
<1>4. WaitsForChild'
  BY <1>1 DEF StartupInv, WaitsForChild, ChildOf
<1>5. OpenSockets' /\ OneListener'
  BY <1>2, KeepsSockets
<1>6. DeadClosed' /\ OwnSocket'
  BY <1>1, <1>2, KeepsSockets DEF StartupInv, DeadClosed, OwnSocket
<1>7. SocketListens'
  <2> SUFFICES ASSUME NEW q \in Kids, pc'[q] \in Listening PROVE sock'[q] = "listening"
    BY DEF SocketListens
  <2>1. q # p /\ pc[q] = pc'[q]
    BY <1>1
  <2>2. q \in fds[q] /\ sock[q] = "listening"
    BY <2>1 DEF StartupInv, OwnSocket, SocketListens
  <2> QED
    BY <1>2, <2>1, <2>2, KeepsSockets
<1>8. ThreadsCreated'
  <2> SUFFICES ASSUME NEW q \in Kids PROVE ThreadsFit(pc'[q], threads[q])
    BY <1>1 DEF ThreadsCreated
  <2>1. ThreadsFit(pc[q], threads[q])
    BY DEF StartupInv, ThreadsCreated
  <2> QED
    BY <1>1, <2>1 DEF ThreadsFit
<1> QED
  BY <1>3, <1>4, <1>5, <1>6, <1>7, <1>8 DEF StartupInv

(* The two ways to end: a fork() that fails, and a crash.                   *)
LEMMA EndsInv ==
  ASSUME StartupInv, (\E p \in Procs : ForkFails(p)) \/ (\E q \in Kids : Crash(q))
  PROVE  StartupInv'
<1>1. faults \in 0..MaxFaults /\ MaxFaults \in Nat
  BY StartupAssumption DEF StartupInv, StartupType
<1>2. ASSUME NEW p \in Procs, ForkFails(p) PROVE StartupInv'
  <2>1. pc[p] = "fork" /\ faults' \in 0..MaxFaults /\ (End(p) \/ ExitHangs(p))
    BY <1>1, <1>2 DEF ForkFails
  <2> QED
    BY <2>1, EndInv, ExitHangsInv
<1>3. ASSUME NEW q \in Kids, Crash(q) PROVE StartupInv'
  <2>1. pc[q] \notin Dead /\ faults' \in 0..MaxFaults /\ End(q)
    BY <1>1, <1>3 DEF Crash
  <2> QED
    BY <2>1, EndInv
<1> QED
  BY <1>2, <1>3

-----------------------------------------------------------------------------
(* The child of a fork has what its parent has open, and nothing else yet.  *)
LEMMA ForkInv ==
  ASSUME StartupInv, NEW p \in Procs, NEW q \in Kids, Fork(p, q)
  PROVE  StartupInv'
<1> USE StartupAssumption
<1>1. /\ pc[p] = "fork" /\ pc[q] = "absent" /\ sock[q] = "none" /\ p # q
      /\ pc'[p] = "waitpid" /\ pc'[q] = "pool"
      /\ \A o \in Procs : o # p /\ o # q => pc'[o] = pc[o]
      /\ pc' \in [Procs -> Places]
  BY DEF StartupInv, StartupType, Fork, Free
<1>2. /\ parent'[q] = p
      /\ \A o \in Kids : o # q => parent'[o] = parent[o]
      /\ parent' \in [Kids -> Procs]
  BY DEF StartupInv, StartupType, Fork
<1>3. /\ fds'[q] = fds[p]
      /\ \A o \in Procs : o # q => fds'[o] = fds[o]
      /\ fds' \in [Procs -> SUBSET Kids] /\ fds'[Root] = {}
  BY DEF StartupInv, StartupType, Fork
<1>4. UNCHANGED <<sock, threads, conn, at, faults>>
  BY DEF Fork
<1>5. StartupType'
  BY <1>1, <1>2, <1>3, <1>4 DEF StartupInv, StartupType
<1>6. WaitsForChild'
  <2> SUFFICES ASSUME NEW o \in Procs, pc'[o] = "waitpid" PROVE ChildOf(o)' # {}
    BY DEF WaitsForChild
  <2>1. CASE o = p
    BY <1>1, <1>2, <2>1 DEF ChildOf
  <2>2. CASE o # p
    <3>1. pc[o] = "waitpid"
      BY <1>1, <2>2
    <3>2. PICK r \in Kids : parent[r] = o /\ pc[r] # "absent" /\ r # o
      BY <3>1 DEF StartupInv, WaitsForChild, ChildOf
    <3>3. parent'[r] = o /\ pc'[r] # "absent"
      BY <1>1, <1>2, <3>2
    <3> QED
      BY <3>2, <3>3 DEF ChildOf
  <2> QED
    BY <2>1, <2>2
<1>7. OpenSockets'
  <2>1. fds[q] = {}
    BY <1>1 DEF StartupInv, DeadClosed
  <2>2. \A s \in Kids : (\E o \in Procs : s \in fds'[o]) <=> \E o \in Procs : s \in fds[o]
    BY <1>3, <2>1
  <2> QED
    BY <1>4, <2>2 DEF StartupInv, OpenSockets
<1>8. DeadClosed' /\ OwnSocket'
  BY <1>1, <1>3 DEF StartupInv, DeadClosed, OwnSocket
<1>9. SocketListens' /\ OneListener'
  BY <1>1, <1>4 DEF StartupInv, SocketListens, OneListener
<1>10. ThreadsCreated'
  <2> SUFFICES ASSUME NEW o \in Kids PROVE ThreadsFit(pc'[o], threads[o])
    BY <1>4 DEF ThreadsCreated
  <2>1. ThreadsFit(pc[o], threads[o])
    BY DEF StartupInv, ThreadsCreated
  <2> QED
    BY <1>1, <2>1 DEF ThreadsFit
<1> QED
  BY <1>5, <1>6, <1>7, <1>8, <1>9, <1>10 DEF StartupInv

(* waitpid() of a process that has a dead child.                            *)
LEMMA WaitpidInv ==
  ASSUME StartupInv, NEW p \in Procs, Waitpid(p)
  PROVE  StartupInv'
<1> USE StartupAssumption
<1>1. PICK q \in Kids :
        /\ parent[q] = p /\ q # p /\ pc[q] = "zombie"
        /\ pc' = [pc EXCEPT ![p] = "sleep", ![q] = "absent"]
        /\ parent' = [parent EXCEPT ![q] = q]
  BY DEF Waitpid, ChildOf
<1>2. /\ pc[p] = "waitpid" /\ pc'[p] = "sleep" /\ pc'[q] = "absent"
      /\ \A o \in Procs : o # p /\ o # q => pc'[o] = pc[o]
      /\ pc' \in [Procs -> Places]
  BY <1>1 DEF StartupInv, StartupType, Waitpid
<1>3. /\ \A o \in Kids : o # q => parent'[o] = parent[o]
      /\ parent' \in [Kids -> Procs]
  BY <1>1 DEF StartupInv, StartupType
<1>4. UNCHANGED <<fds, sock, threads, conn, at, faults>>
  BY DEF Waitpid
<1>5. StartupType'
  BY <1>2, <1>3, <1>4 DEF StartupInv, StartupType
<1>6. WaitsForChild'
  <2> SUFFICES ASSUME NEW o \in Procs, pc'[o] = "waitpid" PROVE ChildOf(o)' # {}
    BY DEF WaitsForChild
  <2>1. o # p /\ pc[o] = "waitpid"
    BY <1>2
  <2>2. PICK r \in Kids : parent[r] = o /\ pc[r] # "absent" /\ r # o
    BY <2>1 DEF StartupInv, WaitsForChild, ChildOf
  <2>3. r # q /\ parent'[r] = o /\ pc'[r] # "absent"
    BY <1>1, <1>2, <1>3, <2>1, <2>2
  <2> QED
    BY <2>2, <2>3 DEF ChildOf
<1>7. OpenSockets' /\ OneListener'
  BY <1>4 DEF StartupInv, OpenSockets, OneListener
<1>8. DeadClosed' /\ OwnSocket' /\ SocketListens'
  BY <1>1, <1>2, <1>4 DEF StartupInv, DeadClosed, OwnSocket, SocketListens
<1>9. ThreadsCreated'
  <2> SUFFICES ASSUME NEW o \in Kids PROVE ThreadsFit(pc'[o], threads[o])
    BY <1>4 DEF ThreadsCreated
  <2>1. ThreadsFit(pc[o], threads[o])
    BY DEF StartupInv, ThreadsCreated
  <2> QED
    BY <1>1, <1>2, <2>1 DEF ThreadsFit
<1> QED
  BY <1>5, <1>6, <1>7, <1>8, <1>9 DEF StartupInv

-----------------------------------------------------------------------------
(* Every step of every process and client keeps the invariant.              *)
LEMMA StartupStepInv ==
  ASSUME StartupInv, [Next]_vars
  PROVE  StartupInv'
<1>1. ASSUME NEW p \in Procs, LoopStep(p) PROVE StartupInv'
  BY <1>1, ForkInv, EndsInv, WaitpidInv, PlainInv DEF LoopStep
<1>2. ASSUME NEW q \in Kids, WorkStep(q) PROVE StartupInv'
  BY <1>2, PlainInv, SocketInv, BindInv, ListenInv, CreateThreadsInv, StartFailsInv
     DEF WorkStep
<1>3. ASSUME NEW q \in Kids, Accept(q) \/ Crash(q) PROVE StartupInv'
  BY <1>3, ConnectionInv, EndsInv
<1>4. ASSUME NEW c \in Clients, Connect(c) PROVE StartupInv'
  BY <1>4, ConnectionInv
<1>5. CASE UNCHANGED vars
  BY <1>5 DEF vars, StartupInv, StartupType, WaitsForChild, ChildOf, OpenSockets, DeadClosed,
              OwnSocket, SocketListens, OneListener, ThreadsCreated
<1> QED
  BY <1>1, <1>2, <1>3, <1>4, <1>5 DEF Next

LEMMA StartupInvariant == Spec => []StartupInv
<1>1. Init => StartupInv
  BY StartupInitInv
<1>2. StartupInv /\ [Next]_vars => StartupInv'
  BY StartupStepInv
<1> QED
  BY <1>1, <1>2, PTL DEF Spec

(* Every state is well-formed; in particular a process in waitpid() has a   *)
(* child, and a socket is there as long as some process has it open.        *)
THEOREM TypeCorrect == Spec => []TypeOK
<1>1. StartupInv => TypeOK
  BY DEF StartupInv, StartupType, WaitsForChild, OpenSockets, TypeOK
<1> QED
  BY <1>1, StartupInvariant, PTL

(* main_service::start() of however many processes, however they fail: only *)
(* one accepts, its service is complete and the port is its own.            *)
THEOREM OneAcceptorAlways == Spec => []OneAcceptor
<1>1. StartupInv => OneAcceptor
  <2> SUFFICES ASSUME StartupInv, NEW q \in Kids, "accept" \in threads[q]
               PROVE  /\ threads[q] = Parts /\ pc[q] = "serve"
                      /\ \A s \in Kids : sock[s] = "listening" <=> s = q
    BY DEF OneAcceptor
  <2>1. threads[q] = Parts /\ pc[q] = "serve"
    BY DEF StartupInv, ThreadsCreated, ThreadsFit
  <2>2. sock[q] = "listening"
    BY <2>1 DEF StartupInv, SocketListens
  <2> QED
    BY <2>1, <2>2 DEF StartupInv, OneListener
<1> QED
  BY <1>1, StartupInvariant, PTL
=============================================================================
