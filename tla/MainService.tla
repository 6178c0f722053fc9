---------------------------- MODULE MainService ----------------------------
(***************************************************************************)
(* The server of test/server over the library's task, epoll and threadpool:*)
(* an acceptor, an epoll waiter and an idle cleaner (main_service.cpp) and *)
(* the pool's workers, which run read_task and parse_task, share one       *)
(* rui::task object per descriptor and the map mm_task that holds them.    *)
(*                                                                         *)
(* The statement rui::mutex(p_task.get()->m_lock), without a variable      *)
(* name, locks and unlocks on the spot, so it excludes nothing and is not  *)
(* modelled: any two threads may be inside the same task object.  Each     *)
(* action is one access to shared state, or a few of which only one        *)
(* matters to another thread.  The kernel side of a connection (backlog,   *)
(* descriptor table, edge-triggered epoll) is modelled by what it does.    *)
(*                                                                         *)
(* A connection carries units; a frame (4 byte length + JSON) is two of    *)
(* them.  Unit <<c, n>> is the n-th unit sent on connection c.             *)
(***************************************************************************)
EXTENDS Naturals, Sequences, FiniteSets

CONSTANTS
  Workers,    \* the pool's worker threads
  Acceptor, Waiter, Cleaner,   \* the three threads of main_service::start()
  Fds,        \* descriptors the kernel may hand out; -1 is NoFd
  NoFd,
  Conns,      \* connections that clients may open
  NoConn,
  MaxUnits    \* bound: units a client sends on one connection

Threads == Workers \cup {Acceptor, Waiter, Cleaner}

ASSUME NameAssumption ==
  /\ NoFd \notin Fds
  /\ NoConn \notin Conns
  /\ Acceptor # Waiter /\ Waiter # Cleaner /\ Cleaner # Acceptor
  /\ Workers \cap {Acceptor, Waiter, Cleaner} = {}

ASSUME BoundAssumption == MaxUnits \in Nat /\ IsFiniteSet(Fds)

VARIABLES
  stage,      \* conn -> "new", "backlog", "open" or "closed" by the server
  sent,       \* conn -> units sent by the client
  got,        \* conn -> units taken out of the receive buffer
  fin,        \* conn -> the client closed its side
  rst,        \* conn -> the client reset the connection
  file,       \* fd -> the connection behind an open descriptor
  interest,   \* descriptors registered with epoll
  ready,      \* registered descriptors with an edge not yet reported
  mm_task,    \* the keys of main_service::mm_task; entries are never erased
  mi_fd, mb_closed, mv_data, idle,   \* the task object of each fd
  batch,      \* the part of mresult_event not yet dispatched
  queue,      \* the pool's queue of read_tasks and parse_tasks
  pc, job,    \* where each thread is, and on the task object of which fd
  buf,        \* a thread's local units: read's buffer or parse_task's frame
  alive,      \* FALSE once the process crashed
  taken,      \* history: conn -> whole frames handed to parse_tasks
  torn,       \* history: a parse_task got something else than the next frame
  owner,      \* history: fd -> the connection its task was last init()ed for
  crossed,    \* history: a close() hit another connection than the owner
  shared      \* history: two threads were inside one task object at once

kernel == <<stage, sent, got, fin, rst, file, interest, ready>>
object == <<mi_fd, mb_closed, mv_data, idle>>
system == <<kernel, mm_task, object, batch, queue, pc, job, buf, alive, taken,
            torn, owner, crossed>>
vars == <<system, shared>>

Kinds == {"read_task", "parse_task"}
TearDown == {"event_del", "test", "close", "unset", "wipe"}
Reading == {"check", "read", "append"}
WorkerPC == {"free", "extract", "parse"} \cup Reading \cup TearDown
Initialising == {"init_fd", "init_rest", "event_add"}
AcceptorPC == {"accept", "insert"} \cup Initialising
WaiterPC == {"wait", "dispatch"} \cup TearDown
CleanerPC == {"scan"} \cup TearDown

Init ==
  /\ stage = [c \in Conns |-> "new"]
  /\ sent = [c \in Conns |-> 0]
  /\ got = [c \in Conns |-> 0]
  /\ fin = [c \in Conns |-> FALSE]
  /\ rst = [c \in Conns |-> FALSE]
  /\ file = [f \in Fds |-> NoConn]
  /\ interest = {}
  /\ ready = {}
  /\ mm_task = {}
  /\ mi_fd = [f \in Fds |-> NoFd]
  /\ mb_closed = [f \in Fds |-> FALSE]
  /\ mv_data = [f \in Fds |-> <<>>]
  /\ idle = [f \in Fds |-> FALSE]
  /\ batch = {}
  /\ queue = <<>>
  /\ pc = [t \in Threads |->
             CASE t = Acceptor -> "accept" [] t = Waiter -> "wait"
               [] t = Cleaner -> "scan" [] OTHER -> "free"]
  /\ job = [t \in Threads |-> NoFd]
  /\ buf = [t \in Threads |-> <<>>]
  /\ alive = TRUE
  /\ taken = [c \in Conns |-> 0]
  /\ torn = FALSE
  /\ owner = [f \in Fds |-> NoConn]
  /\ crossed = FALSE
  /\ shared = FALSE

history == <<taken, torn, owner, crossed>>

Goto(t, from, to) ==
  /\ pc[t] = from
  /\ pc' = [pc EXCEPT ![t] = to]

(* The kernel puts a registered descriptor on the ready list at an event.   *)
Edge(c) == ready' = ready \cup {f \in interest : file[f] = c}

Readable(c) == got[c] < sent[c] \/ fin[c] \/ rst[c]

(***************************************************************************)
(* The clients                                                             *)
(***************************************************************************)
ClientUnchanged == UNCHANGED <<got, file, interest, mm_task, object, batch,
                               queue, pc, job, buf, alive, history>>

Connect(c) ==
  /\ stage[c] = "new"
  /\ stage' = [stage EXCEPT ![c] = "backlog"]
  /\ UNCHANGED <<sent, fin, rst, ready>>
  /\ ClientUnchanged

Online(c) == stage[c] \in {"backlog", "open"} /\ ~ fin[c] /\ ~ rst[c]

Send(c) ==
  /\ Online(c)
  /\ sent[c] < MaxUnits
  /\ sent' = [sent EXCEPT ![c] = @ + 1]
  /\ Edge(c)
  /\ UNCHANGED <<stage, fin, rst>>
  /\ ClientUnchanged

ClientCloses(c) ==
  /\ Online(c)
  /\ fin' = [fin EXCEPT ![c] = TRUE]
  /\ Edge(c)
  /\ UNCHANGED <<stage, sent, rst>>
  /\ ClientUnchanged

ClientResets(c) ==
  /\ Online(c)
  /\ rst' = [rst EXCEPT ![c] = TRUE]
  /\ Edge(c)
  /\ UNCHANGED <<stage, sent, fin>>
  /\ ClientUnchanged

(* More than gi_client_idle seconds pass since the task's m_time.           *)
GrowsIdle(f) ==
  /\ ~ idle[f]
  /\ idle' = [idle EXCEPT ![f] = TRUE]
  /\ UNCHANGED <<kernel, mm_task, mi_fd, mb_closed, mv_data, batch, queue, pc,
                 job, buf, alive, history>>

(***************************************************************************)
(* The acceptor: epoll::accept() and main_service::add_task(int)           *)
(***************************************************************************)
Accept(c, f) ==
  /\ stage[c] = "backlog"
  /\ file[f] = NoConn
  /\ Goto(Acceptor, "accept", "insert")
  /\ job' = [job EXCEPT ![Acceptor] = f]
  /\ file' = [file EXCEPT ![f] = c]
  /\ stage' = [stage EXCEPT ![c] = "open"]
  /\ UNCHANGED <<sent, got, fin, rst, interest, ready, mm_task, object, batch,
                 queue, buf, alive, history>>

(* Mutant: the test of mm_task.find() is inverted; a new fd gets no task.   *)
InsertInverted ==
  /\ Goto(Acceptor, "insert", "init_fd")
  /\ UNCHANGED <<kernel, mm_task, object, batch, queue, job, buf, alive, history>>

(* mm_task.find(), and a new rui::task() when there is none yet.            *)
Insert ==
  /\ Goto(Acceptor, "insert", "init_fd")
  /\ mm_task' = mm_task \cup {job[Acceptor]}
  /\ UNCHANGED <<kernel, object, batch, queue, job, buf, alive, history>>

(* task::init(), first and last assignments.                                *)
InitFd ==
  /\ Goto(Acceptor, "init_fd", "init_rest")
  /\ mi_fd' = [mi_fd EXCEPT ![job[Acceptor]] = job[Acceptor]]
  /\ owner' = [owner EXCEPT ![job[Acceptor]] = file[job[Acceptor]]]
  /\ UNCHANGED <<kernel, mm_task, mb_closed, mv_data, idle, batch, queue, job,
                 buf, alive, taken, torn, crossed>>

(* Mutant: init() does not reset mb_closed.                                 *)
InitKeepsClosed ==
  LET f == job[Acceptor] IN
  /\ Goto(Acceptor, "init_rest", "event_add")
  /\ idle' = [idle EXCEPT ![f] = FALSE]
  /\ mv_data' = [mv_data EXCEPT ![f] = <<>>]
  /\ UNCHANGED <<kernel, mm_task, mi_fd, mb_closed, batch, queue, job, buf, alive,
                 history>>

InitRest ==
  LET f == job[Acceptor] IN
  /\ Goto(Acceptor, "init_rest", "event_add")
  /\ idle' = [idle EXCEPT ![f] = FALSE]
  /\ mv_data' = [mv_data EXCEPT ![f] = <<>>]
  /\ mb_closed' = [mb_closed EXCEPT ![f] = FALSE]
  /\ UNCHANGED <<kernel, mm_task, mi_fd, batch, queue, job, buf, alive, history>>

(* EPOLL_CTL_ADD fails on a closed descriptor; it reports what has already  *)
(* arrived as an edge.                                                      *)
EventAdd ==
  LET f == job[Acceptor] IN
  /\ Goto(Acceptor, "event_add", "accept")
  /\ job' = [job EXCEPT ![Acceptor] = NoFd]
  /\ IF file[f] = NoConn
     THEN UNCHANGED <<interest, ready>>
     ELSE /\ interest' = interest \cup {f}
          /\ ready' = IF Readable(file[f]) THEN ready \cup {f} ELSE ready
  /\ UNCHANGED <<stage, sent, got, fin, rst, file, mm_task, object, batch, queue,
                 buf, alive, history>>

(***************************************************************************)
(* The waiter: epoll::wait() and the dispatch of its events                *)
(***************************************************************************)
Wait ==
  /\ ready # {}
  /\ Goto(Waiter, "wait", "dispatch")
  /\ batch' = {[fd |-> f, err |-> rst[file[f]]] : f \in ready}
  /\ ready' = {}
  /\ UNCHANGED <<stage, sent, got, fin, rst, file, interest, mm_task, object,
                 queue, job, buf, alive, history>>

DispatchError(e) ==
  /\ e \in batch /\ e.err
  /\ batch' = batch \ {e}
  /\ IF e.fd \in mm_task
     THEN /\ Goto(Waiter, "dispatch", "event_del")
          /\ job' = [job EXCEPT ![Waiter] = e.fd]
     ELSE /\ pc[Waiter] = "dispatch"
          /\ UNCHANGED <<pc, job>>
  /\ UNCHANGED <<kernel, mm_task, object, queue, buf, alive, history>>

DispatchRead(e) ==
  /\ e \in batch /\ ~ e.err
  /\ pc[Waiter] = "dispatch"
  /\ batch' = batch \ {e}
  /\ queue' = Append(queue, [kind |-> "read_task", fd |-> e.fd, frame |-> <<>>])
  /\ UNCHANGED <<kernel, mm_task, object, pc, job, buf, alive, history>>

BatchDone ==
  /\ batch = {}
  /\ Goto(Waiter, "dispatch", "wait")
  /\ UNCHANGED <<kernel, mm_task, object, batch, queue, job, buf, alive, history>>

(***************************************************************************)
(* The cleaner: one visit of epoll_clear_entry() to the task of fd f.  The *)
(* write_failure() in between goes to the client and leaves no trace here. *)
(***************************************************************************)
(* Mutant: the test mi_fd == -1 is inverted.                                *)
ExpireInverted(f) ==
  /\ f \in mm_task
  /\ mi_fd[f] = NoFd
  /\ idle[f]
  /\ Goto(Cleaner, "scan", "event_del")
  /\ job' = [job EXCEPT ![Cleaner] = f]
  /\ UNCHANGED <<kernel, mm_task, object, batch, queue, buf, alive, history>>

Expire(f) ==
  /\ f \in mm_task
  /\ mi_fd[f] # NoFd
  /\ idle[f]
  /\ Goto(Cleaner, "scan", "event_del")
  /\ job' = [job EXCEPT ![Cleaner] = f]
  /\ UNCHANGED <<kernel, mm_task, object, batch, queue, buf, alive, history>>

(***************************************************************************)
(* The workers: read_task::run() and parse_task::run()                     *)
(***************************************************************************)
(* The pool starts the oldest task (module TaskPool); read_task first sets  *)
(* m_time.                                                                  *)
Begin(w) ==
  /\ queue # <<>>
  /\ LET k == Head(queue) IN
     /\ Goto(w, "free", IF k.kind = "read_task" THEN "check" ELSE "parse")
     /\ job' = [job EXCEPT ![w] = k.fd]
     /\ buf' = [buf EXCEPT ![w] = k.frame]
     /\ idle' = IF k.kind = "read_task" THEN [idle EXCEPT ![k.fd] = FALSE] ELSE idle
  /\ queue' = Tail(queue)
  /\ UNCHANGED <<kernel, mm_task, mi_fd, mb_closed, mv_data, batch, alive, history>>

CheckClosed(w) ==
  /\ Goto(w, "check", IF mb_closed[job[w]] THEN "event_del" ELSE "read")
  /\ UNCHANGED <<kernel, mm_task, object, batch, queue, job, buf, alive, history>>

(* The connection that ::read() finds behind mi_fd.                         *)
Peer(w) == IF mi_fd[job[w]] = NoFd THEN NoConn ELSE file[job[w]]
Streaming == {c \in Conns : ~ rst[c] /\ (got[c] < sent[c] \/ ~ fin[c])}

(* ::read() on a closed descriptor, a reset or a finished connection: the   *)
(* loop ends with mb_closed set.                                            *)
ReadEnds(w) ==
  /\ Goto(w, "read", "extract")
  /\ Peer(w) \notin Streaming
  /\ mb_closed' = [mb_closed EXCEPT ![job[w]] = TRUE]
  /\ UNCHANGED <<kernel, mm_task, mi_fd, mv_data, idle, batch, queue, job, buf,
                 alive, history>>

(* Mutant: EAGAIN is taken for an error.                                    *)
ReadAgainFails(w) ==
  /\ Goto(w, "read", "extract")
  /\ Peer(w) \in Streaming
  /\ got[Peer(w)] = sent[Peer(w)]
  /\ mb_closed' = [mb_closed EXCEPT ![job[w]] = TRUE]
  /\ UNCHANGED <<kernel, mm_task, mi_fd, mv_data, idle, batch, queue, job, buf,
                 alive, history>>

(* EAGAIN: everything that has arrived was read.                            *)
ReadAgain(w) ==
  /\ Goto(w, "read", "extract")
  /\ Peer(w) \in Streaming
  /\ got[Peer(w)] = sent[Peer(w)]
  /\ UNCHANGED <<kernel, mm_task, object, batch, queue, job, buf, alive, history>>

(* Up to SOCKET_BUFFER_SIZE bytes.                                          *)
ReadData(w) ==
  LET c == Peer(w) IN
  /\ Goto(w, "read", "append")
  /\ c \in Streaming
  /\ \E n \in 1..(sent[c] - got[c]) :
       /\ buf' = [buf EXCEPT ![w] = [i \in 1..n |-> <<c, got[c] + i>>]]
       /\ got' = [got EXCEPT ![c] = @ + n]
  /\ UNCHANGED <<stage, sent, fin, rst, file, interest, ready, mm_task, object,
                 batch, queue, job, alive, history>>

(* Mutant: the whole zeroed buffer is appended, not the ret bytes read.     *)
AppendWholeBuffer(w) ==
  /\ Goto(w, "append", "check")
  /\ mv_data' = [mv_data EXCEPT ![job[w]] = @ \o buf[w] \o <<<<NoConn, 0>>>>]
  /\ buf' = [buf EXCEPT ![w] = <<>>]
  /\ UNCHANGED <<kernel, mm_task, mi_fd, mb_closed, idle, batch, queue, job,
                 alive, history>>

(* Mutant: one read per event instead of reading until EAGAIN.              *)
ReadOnce(w) ==
  /\ Goto(w, "append", "extract")
  /\ mv_data' = [mv_data EXCEPT ![job[w]] = @ \o buf[w]]
  /\ buf' = [buf EXCEPT ![w] = <<>>]
  /\ UNCHANGED <<kernel, mm_task, mi_fd, mb_closed, idle, batch, queue, job,
                 alive, history>>

(* Mutant: what was read is inserted in front of what was left over.        *)
InsertInFront(w) ==
  /\ Goto(w, "append", "check")
  /\ mv_data' = [mv_data EXCEPT ![job[w]] = buf[w] \o @]
  /\ buf' = [buf EXCEPT ![w] = <<>>]
  /\ UNCHANGED <<kernel, mm_task, mi_fd, mb_closed, idle, batch, queue, job,
                 alive, history>>

AppendData(w) ==
  /\ Goto(w, "append", "check")
  /\ mv_data' = [mv_data EXCEPT ![job[w]] = @ \o buf[w]]
  /\ buf' = [buf EXCEPT ![w] = <<>>]
  /\ UNCHANGED <<kernel, mm_task, mi_fd, mb_closed, idle, batch, queue, job,
                 alive, history>>

(* The first unit of a frame holds its length; anything else at the front   *)
(* is a garbage length that may or may not be satisfied.                    *)
MayBeShort(s) == Len(s) >= 2 => s[1][2] % 2 = 0

Finish(t, from) ==
  /\ Goto(t, from, IF t \in Workers THEN "free"
                   ELSE IF t = Waiter THEN "dispatch" ELSE "scan")
  /\ job' = [job EXCEPT ![t] = NoFd]
  /\ buf' = [buf EXCEPT ![t] = <<>>]

(* Mutant: with mb_closed set the task returns without goto quit.           *)
ReturnUnquit(w) ==
  /\ pc[w] = "extract"
  /\ MayBeShort(mv_data[job[w]])
  /\ Finish(w, "extract")
  /\ UNCHANGED <<kernel, mm_task, object, batch, queue, alive, history>>

NoFrame(w) ==
  LET f == job[w] IN
  /\ pc[w] = "extract"
  /\ MayBeShort(mv_data[f])
  /\ \/ /\ mb_closed[f]
        /\ Goto(w, "extract", "event_del")
        /\ UNCHANGED <<job, buf>>
     \/ /\ ~ mb_closed[f]
        /\ Finish(w, "extract")
  /\ UNCHANGED <<kernel, mm_task, object, batch, queue, alive, history>>

IsNext(s, c) == s = <<<<c, 2 * taken[c] + 1>>, <<c, 2 * taken[c] + 2>>>>

(* Mutant: the length is left behind when the frame is erased.              *)
TakeBodyOnly(w) ==
  LET f == job[w]
      frame == SubSeq(mv_data[f], 1, 2)
      c == frame[1][1]
  IN
  /\ pc[w] = "extract"
  /\ Len(mv_data[f]) >= 2
  /\ idle' = [idle EXCEPT ![f] = FALSE]
  /\ mv_data' = [mv_data EXCEPT ![f] = SubSeq(@, 2, Len(@))]
  /\ queue' = Append(queue, [kind |-> "parse_task", fd |-> f, frame |-> frame])
  /\ IF IsNext(frame, c)
     THEN taken' = [taken EXCEPT ![c] = @ + 1] /\ UNCHANGED torn
     ELSE torn' = TRUE /\ UNCHANGED taken
  /\ UNCHANGED <<kernel, mm_task, mi_fd, mb_closed, batch, pc, job, buf, alive,
                 owner, crossed>>

TakeFrame(w) ==
  LET f == job[w]
      frame == SubSeq(mv_data[f], 1, 2)
      c == frame[1][1]
  IN
  /\ pc[w] = "extract"
  /\ Len(mv_data[f]) >= 2
  /\ idle' = [idle EXCEPT ![f] = FALSE]
  /\ mv_data' = [mv_data EXCEPT ![f] = SubSeq(@, 3, Len(@))]
  /\ queue' = Append(queue, [kind |-> "parse_task", fd |-> f, frame |-> frame])
  /\ IF IsNext(frame, c)
     THEN taken' = [taken EXCEPT ![c] = @ + 1] /\ UNCHANGED torn
     ELSE torn' = TRUE /\ UNCHANGED taken
  /\ UNCHANGED <<kernel, mm_task, mi_fd, mb_closed, batch, pc, job, buf, alive,
                 owner, crossed>>

(* parse_task::run(): the JSON is fine, and nothing more is done with it.   *)
ParseSucceeds(w) ==
  /\ Finish(w, "parse")
  /\ ~ mb_closed[job[w]]
  /\ UNCHANGED <<kernel, mm_task, object, batch, queue, alive, history>>

(* The task is closed already, or the JSON is bad and write_failure() has   *)
(* told whoever is behind mi_fd.                                            *)
ParseQuits(w) ==
  /\ Goto(w, "parse", "event_del")
  /\ UNCHANGED <<kernel, mm_task, object, batch, queue, job, buf, alive, history>>

(***************************************************************************)
(* main_service::del_task(task) and task::clear(), by any thread            *)
(***************************************************************************)
EventDel(t) ==
  /\ Goto(t, "event_del", "test")
  /\ interest' = interest \ {mi_fd[job[t]]}
  /\ ready' = ready \ {mi_fd[job[t]]}
  /\ UNCHANGED <<stage, sent, got, fin, rst, file, mm_task, object, batch, queue,
                 job, buf, alive, history>>

TestFd(t) ==
  /\ Goto(t, "test", IF mi_fd[job[t]] = NoFd THEN "wipe" ELSE "close")
  /\ UNCHANGED <<kernel, mm_task, object, batch, queue, job, buf, alive, history>>

(* close() of an open descriptor also takes it out of epoll; the connection *)
(* is gone with what it still held.                                         *)
Close(t) ==
  LET f == mi_fd[job[t]]
      c == file[f]
  IN
  /\ Goto(t, "close", "unset")
  /\ IF f = NoFd \/ c = NoConn
     THEN UNCHANGED <<kernel, crossed>>
     ELSE /\ stage' = [stage EXCEPT ![c] = "closed"]
          /\ sent' = [sent EXCEPT ![c] = 0]
          /\ got' = [got EXCEPT ![c] = 0]
          /\ fin' = [fin EXCEPT ![c] = FALSE]
          /\ rst' = [rst EXCEPT ![c] = FALSE]
          /\ file' = [file EXCEPT ![f] = NoConn]
          /\ interest' = interest \ {f}
          /\ ready' = ready \ {f}
          /\ crossed' = (crossed \/ c # owner[f])
  /\ UNCHANGED <<mm_task, object, batch, queue, job, buf, alive, taken, torn, owner>>

(* Mutant: mi_fd is not set to -1 after the close.                          *)
ForgetUnset(t) ==
  /\ Goto(t, "unset", "wipe")
  /\ UNCHANGED <<kernel, mm_task, object, batch, queue, job, buf, alive, history>>

Unset(t) ==
  /\ Goto(t, "unset", "wipe")
  /\ mi_fd' = [mi_fd EXCEPT ![job[t]] = NoFd]
  /\ UNCHANGED <<kernel, mm_task, mb_closed, mv_data, idle, batch, queue, job,
                 buf, alive, history>>

Wipe(t) ==
  LET f == job[t] IN
  /\ Finish(t, "wipe")
  /\ idle' = [idle EXCEPT ![f] = FALSE]
  /\ mv_data' = [mv_data EXCEPT ![f] = <<>>]
  /\ mb_closed' = [mb_closed EXCEPT ![f] = TRUE]
  /\ UNCHANGED <<kernel, mm_task, mi_fd, batch, queue, alive, history>>

(***************************************************************************)
(* Undefined behaviour: std::map and std::vector are changed by one thread *)
(* while another uses them.                                                *)
(***************************************************************************)
MapRace == pc[Acceptor] = "insert" /\ job[Acceptor] \notin mm_task

VectorPC == {"append", "extract", "init_rest", "wipe"}
VectorRace ==
  \E t, u \in Threads :
    t # u /\ job[t] = job[u] /\ pc[t] \in VectorPC /\ pc[u] \in VectorPC

Crash ==
  /\ MapRace \/ VectorRace
  /\ alive' = FALSE
  /\ UNCHANGED <<kernel, mm_task, object, batch, queue, pc, job, buf, history>>

-----------------------------------------------------------------------------
AcceptorStep == Insert \/ InitFd \/ InitRest \/ EventAdd
                \/ \E c \in Conns, f \in Fds : Accept(c, f)
TearDownStep(t) == EventDel(t) \/ TestFd(t) \/ Close(t) \/ Unset(t) \/ Wipe(t)
WaiterStep == \/ Wait \/ BatchDone
              \/ \E e \in batch : DispatchError(e) \/ DispatchRead(e)
              \/ TearDownStep(Waiter)
CleanerStep == TearDownStep(Cleaner) \/ \E f \in Fds : Expire(f)
ReadStep(w) == CheckClosed(w) \/ ReadEnds(w) \/ ReadAgain(w) \/ ReadData(w)
               \/ AppendData(w) \/ NoFrame(w) \/ TakeFrame(w)
WorkerStep(w) == Begin(w) \/ ReadStep(w) \/ ParseSucceeds(w) \/ ParseQuits(w)
                 \/ TearDownStep(w)
ClientStep(c) == Connect(c) \/ Send(c) \/ ClientCloses(c) \/ ClientResets(c)

(* t is inside the task object of f: where the code names the task's mutex. *)
Inside(t, f) == job[t] = f /\ pc[t] # "insert"
SharedNow == \E t, u \in Threads : t # u /\ \E f \in Fds : Inside(t, f) /\ Inside(u, f)

Step ==
  \/ \E c \in Conns : ClientStep(c)
  \/ \E f \in Fds : GrowsIdle(f)
  \/ AcceptorStep \/ WaiterStep \/ CleanerStep
  \/ \E w \in Workers : WorkerStep(w)
  \/ Crash

Next == alive /\ Step /\ shared' = (shared \/ SharedNow')

Spec == Init /\ [][Next]_vars

(* Every thread of the process keeps running; the cleaner comes back to     *)
(* every task.  Clients and the clock may do as they please.                *)
Fairness ==
  /\ WF_system(alive /\ AcceptorStep)
  /\ WF_system(alive /\ WaiterStep)
  /\ WF_system(alive /\ CleanerStep)
  /\ \A f \in Fds : SF_system(alive /\ Expire(f))
  /\ \A w \in Workers : WF_system(alive /\ WorkerStep(w))

FairSpec == Spec /\ Fairness

-----------------------------------------------------------------------------
Units == Conns \X (1..MaxUnits)

TypeOK ==
  /\ stage \in [Conns -> {"new", "backlog", "open", "closed"}]
  /\ sent \in [Conns -> 0..MaxUnits]
  /\ got \in [Conns -> 0..MaxUnits]
  /\ fin \in [Conns -> BOOLEAN]
  /\ rst \in [Conns -> BOOLEAN]
  /\ file \in [Fds -> Conns \cup {NoConn}]
  /\ ready \subseteq interest
  /\ interest \subseteq {f \in Fds : file[f] # NoConn}
  /\ mm_task \subseteq Fds
  /\ mi_fd \in [Fds -> Fds \cup {NoFd}]
  /\ \A f \in Fds : mi_fd[f] \in {f, NoFd}
  /\ mb_closed \in [Fds -> BOOLEAN]
  /\ mv_data \in [Fds -> Seq(Units)]
  /\ idle \in [Fds -> BOOLEAN]
  /\ batch \subseteq [fd : Fds, err : BOOLEAN]
  /\ queue \in Seq([kind : Kinds, fd : Fds, frame : Seq(Units)])
  /\ pc \in [Threads -> WorkerPC \cup AcceptorPC \cup WaiterPC \cup CleanerPC]
  /\ \A w \in Workers : pc[w] \in WorkerPC
  /\ pc[Acceptor] \in AcceptorPC
  /\ pc[Waiter] \in WaiterPC
  /\ pc[Cleaner] \in CleanerPC
  /\ job \in [Threads -> Fds \cup {NoFd}]
  /\ buf \in [Threads -> Seq(Units)]

(* epoll reports a descriptor only after add_task(int) put its task in the  *)
(* map, so that mm_task[i_socket] in the dispatch (main_service.cpp:167)    *)
(* never makes an empty entry, whose null pointer read_task would follow.   *)
EventsHaveTasks ==
  /\ interest \subseteq mm_task
  /\ \A e \in batch : e.fd \in mm_task
  /\ \A i \in DOMAIN queue : queue[i].fd \in mm_task

Queued(f) == \E i \in DOMAIN queue : queue[i].fd = f /\ queue[i].kind = "read_task"
TearingDown(f) == \E t \in Threads : job[t] = f /\ pc[t] \in TearDown
Accepting(f) == job[Acceptor] = f

(* Edge-triggered epoll reports news once.  Whatever a client sent or did   *)
(* that the server has not read yet has an event, a read_task or a thread   *)
(* on its way to it, or the descriptor is being opened or torn down: no     *)
(* request is left in the socket with nobody to look (read_task.cpp:20-48). *)
NothingStranded ==
  \A f \in Fds :
    file[f] # NoConn /\ Readable(file[f]) /\ ~ shared =>
      \/ f \in ready
      \/ \E e \in batch : e.fd = f
      \/ Queued(f)
      \/ \E w \in Workers : job[w] = f /\ pc[w] \in Reading
      \/ \E w \in Workers : job[w] = f /\ pc[w] = "extract" /\ mb_closed[f]
      \/ TearingDown(f)
      \/ Accepting(f)

(* As long as no two threads are inside one task object at the same time,   *)
(* every parse_task gets one whole frame of one connection, and a           *)
(* connection's frames come in the order in which they were sent, whatever  *)
(* became of the descriptor's earlier connections.                          *)
FramesWhole == torn => shared

(* Under the same condition, close() in clear() never hits a connection     *)
(* accepted on the same descriptor for which the task was not yet set up.   *)
ClosesItsOwn == crossed => shared

(* Under the same condition, a connection with nobody at work on it is      *)
(* known to its task as open, so an event or the idle scan can end it.      *)
NoneOrphaned ==
  \A f \in Fds :
    file[f] # NoConn /\ ~ TearingDown(f) /\ ~ Accepting(f)
    /\ ~ (\E w \in Workers : job[w] = f) /\ ~ shared
    => mi_fd[f] = f /\ ~ mb_closed[f] /\ f \in interest

(* Under the same condition, the task of an open connection is marked       *)
(* closed only when its client closed or reset it, or by a thread that is   *)
(* tearing it down or has to set it up: a parse_task that finds mb_closed   *)
(* (parse_task.cpp:16) drops no request of a client that is still there.    *)
ClosedByPeer ==
  \A f \in Fds :
    file[f] # NoConn /\ mb_closed[f] /\ ~ shared =>
      fin[file[f]] \/ rst[file[f]] \/ TearingDown(f) \/ Accepting(f)

(* A client that closed or reset its connection is closed by the server.    *)
PeerCloseReclaimed ==
  \A c \in Conns :
    (fin[c] \/ rst[c]) /\ stage[c] = "open" ~>
      stage[c] = "closed" \/ shared \/ ~ alive

(* A connection that stays idle is closed by the cleaner.                   *)
IdleReclaimed ==
  \A f \in Fds :
    file[f] # NoConn /\ idle[f] ~>
      file[f] = NoConn \/ ~ idle[f] \/ shared \/ ~ alive

(* test/server/read_task.cpp:13, parse_task.cpp:11, main_service.cpp:64,    *)
(* 85, 198: the task's mutex is locked by everyone who works on the task,   *)
(* so two threads never do so at the same time.                             *)
TaskExclusive == ~ shared

-----------------------------------------------------------------------------
(* The server keeps the promises of FrameService: a frame is handed out     *)
(* when TakeFrame makes a parse_task of it, a connection closed when        *)
(* close() hits it.                                                         *)
Promised == INSTANCE FrameService WITH
  phase <- stage,
  gone <- [c \in Conns |-> fin[c] \/ rst[c]],
  units <- sent,
  handed <- taken,
  spoiled <- torn \/ crossed,
  overlapped <- shared

ImplementsFrameService == Promised!ServiceSpec
=============================================================================
