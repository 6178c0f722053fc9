----------------------------- MODULE ThreadPool -----------------------------
(***************************************************************************)
(* rui::threadpool (threadpool.h, threadpool.cpp): detached worker threads *)
(* share a queue of unique_ptr<threadtask> under one mutex and one         *)
(* condition variable.  One action is one statement, or a few statements   *)
(* of which only one touches shared state.                                 *)
(*                                                                         *)
(* The threads are the Workers that start() creates, the Clients (the      *)
(* service threads, created only after start() returned true) and the main *)
(* thread, which runs start() and, from exit(), the destructor of the      *)
(* static instance.  A mutex or condition variable of pthread is modelled  *)
(* by what it does; a thread that locks the destroyed mutex is "undefined" *)
(* from there on and is not followed.                                      *)
(***************************************************************************)
EXTENDS Naturals, Sequences, FiniteSets

CONSTANTS
  Workers,    \* the threads of start(threadCount), one per iteration of its loop
  Clients,    \* threads outside the pool that call add_task
  Tasks,      \* threadtask objects
  NoTask,     \* an empty unique_ptr
  NoThread,   \* owner of an unlocked mutex
  Destroyed   \* "owner" of a destroyed mutex

Threads == Workers \cup Clients

ASSUME ThreadAssumption ==
  /\ Workers \cap Clients = {}
  /\ NoThread \notin Threads
  /\ Destroyed \notin Threads
  /\ NoThread # Destroyed

ASSUME TaskAssumption == NoTask \notin Tasks

ASSUME FiniteAssumption == IsFiniteSet(Threads)

VARIABLES
  mb_shutdown,    \* threadpool::mb_shutdown
  mq_task,        \* threadpool::mq_task
  m_mutex_lock,   \* owner of threadpool::m_mutex_lock
  m_cond_lock,    \* threads blocked in pthread_cond_wait(&m_cond_lock)
  pc,             \* where each thread is
  ptask,          \* entry()'s local unique_ptr, per worker
  arg,            \* add_task()'s parameter, per thread
  heap,           \* what became of each task object
  main_pc         \* where the main thread is

vars == <<mb_shutdown, mq_task, m_mutex_lock, m_cond_lock, pc, ptask, arg,
          heap, main_pc>>

AddPC == {"add_lock", "add_push", "add_unlock", "add_signal", "undefined"}
WorkerPC == AddPC \cup {"unborn", "lock", "test", "enter_wait", "waiting",
                        "relock", "unlock", "run", "exited"}
ClientPC == AddPC \cup {"unborn", "idle"}
MainPC == {"start", "failed", "serve", "flag", "broadcast", "mutex", "gone"}

(* "owned" by some unique_ptr; "released" by unique_ptr::release() without  *)
(* being deleted; "deleted" by the destructor of a unique_ptr.              *)
Fate == {"fresh", "owned", "released", "deleted"}

Init ==
  /\ mb_shutdown = FALSE
  /\ mq_task = <<>>
  /\ m_mutex_lock = NoThread
  /\ m_cond_lock = {}
  /\ pc = [t \in Threads |-> "unborn"]
  /\ ptask = [w \in Workers |-> NoTask]
  /\ arg = [t \in Threads |-> NoTask]
  /\ heap = [k \in Tasks |-> "fresh"]
  /\ main_pc = "start"

(* A thread moves on.  Once the pool's members are gone the process is about *)
(* to end and no thread is followed any further.                            *)
Transition(t, from, to) ==
  /\ main_pc # "gone"
  /\ pc[t] = from
  /\ pc' = [pc EXCEPT ![t] = to]

(* pthread_mutex_lock: waits for the mutex and takes it.                    *)
MutexLock(t, from, to) ==
  \/ /\ m_mutex_lock = NoThread
     /\ m_mutex_lock' = t
     /\ Transition(t, from, to)
  \/ /\ m_mutex_lock = Destroyed
     /\ Transition(t, from, "undefined")
     /\ UNCHANGED m_mutex_lock

InQueue(k) == \E i \in DOMAIN mq_task : mq_task[i] = k

(***************************************************************************)
(* start() and the threads it creates                                      *)
(***************************************************************************)
CreateThread(w) ==
  /\ main_pc = "start"
  /\ Transition(w, "unborn", "lock")
  /\ UNCHANGED <<mb_shutdown, mq_task, m_mutex_lock, m_cond_lock, ptask, arg,
                 heap, main_pc>>

(* Every thread exists; start() returns true and the service threads of     *)
(* main_service::start() come into being.                                   *)
StartSucceeds ==
  /\ main_pc = "start"
  /\ \A w \in Workers : pc[w] # "unborn"
  /\ main_pc' = "serve"
  /\ pc' = [t \in Threads |-> IF t \in Clients THEN "idle" ELSE pc[t]]
  /\ UNCHANGED <<mb_shutdown, mq_task, m_mutex_lock, m_cond_lock, ptask, arg, heap>>

(* pthread_create() fails: start() returns false, the threads created so    *)
(* far stay, and no service thread is started.                              *)
StartFails ==
  /\ main_pc = "start"
  /\ \E w \in Workers : pc[w] = "unborn"
  /\ main_pc' = "failed"
  /\ UNCHANGED <<mb_shutdown, mq_task, m_mutex_lock, m_cond_lock, pc, ptask,
                 arg, heap>>

(***************************************************************************)
(* entry(): the loop of a worker                                           *)
(***************************************************************************)
Lock(w) ==
  /\ MutexLock(w, "lock", "test")
  /\ UNCHANGED <<mb_shutdown, mq_task, m_cond_lock, ptask, arg, heap, main_pc>>

(* Mutant: pthread_exit without pthread_mutex_unlock.                       *)
ExitLocked(w) ==
  /\ mq_task = <<>>
  /\ mb_shutdown
  /\ Transition(w, "test", "exited")
  /\ UNCHANGED <<mb_shutdown, mq_task, m_mutex_lock, m_cond_lock, ptask, arg,
                 heap, main_pc>>

(* while(mq_task.empty()) if(mb_shutdown): unlock and pthread_exit.         *)
ExitOnShutdown(w) ==
  /\ mq_task = <<>>
  /\ mb_shutdown
  /\ Transition(w, "test", "exited")
  /\ m_mutex_lock' = NoThread
  /\ UNCHANGED <<mb_shutdown, mq_task, m_cond_lock, ptask, arg, heap, main_pc>>

(* The flag was read as false; the wait itself is the next step, and the    *)
(* destructor, which takes no lock, can run in between.                     *)
DecideToWait(w) ==
  /\ mq_task = <<>>
  /\ ~ mb_shutdown
  /\ Transition(w, "test", "enter_wait")
  /\ UNCHANGED <<mb_shutdown, mq_task, m_mutex_lock, m_cond_lock, ptask, arg,
                 heap, main_pc>>

(* pthread_cond_wait releases the mutex and blocks in one atomic step.      *)
CondWait(w) ==
  /\ Transition(w, "enter_wait", "waiting")
  /\ m_mutex_lock' = NoThread
  /\ m_cond_lock' = m_cond_lock \cup {w}
  /\ UNCHANGED <<mb_shutdown, mq_task, ptask, arg, heap, main_pc>>

(* POSIX allows pthread_cond_wait to wake without a signal.                 *)
SpuriousWakeup(w) ==
  /\ Transition(w, "waiting", "relock")
  /\ m_cond_lock' = m_cond_lock \ {w}
  /\ UNCHANGED <<mb_shutdown, mq_task, m_mutex_lock, ptask, arg, heap, main_pc>>

(* pthread_cond_wait returns with the mutex held, back to the while test.   *)
Relock(w) ==
  /\ MutexLock(w, "relock", "test")
  /\ UNCHANGED <<mb_shutdown, mq_task, m_cond_lock, ptask, arg, heap, main_pc>>

(* Mutant: mq_task.front() is taken but mq_task.pop() is forgotten.         *)
FrontWithoutPop(w) ==
  /\ mq_task # <<>>
  /\ Transition(w, "test", "unlock")
  /\ ptask' = [ptask EXCEPT ![w] = Head(mq_task)]
  /\ UNCHANGED <<mb_shutdown, mq_task, m_mutex_lock, m_cond_lock, arg, heap,
                 main_pc>>

(* Mutant: the newest task is taken first.                                  *)
PopNewest(w) ==
  /\ mq_task # <<>>
  /\ Transition(w, "test", "unlock")
  /\ ptask' = [ptask EXCEPT ![w] = mq_task[Len(mq_task)]]
  /\ mq_task' = SubSeq(mq_task, 1, Len(mq_task) - 1)
  /\ UNCHANGED <<mb_shutdown, m_mutex_lock, m_cond_lock, arg, heap, main_pc>>

Pop(w) ==
  /\ mq_task # <<>>
  /\ Transition(w, "test", "unlock")
  /\ ptask' = [ptask EXCEPT ![w] = Head(mq_task)]
  /\ mq_task' = Tail(mq_task)
  /\ UNCHANGED <<mb_shutdown, m_mutex_lock, m_cond_lock, arg, heap, main_pc>>

Unlock(w) ==
  /\ Transition(w, "unlock", "run")
  /\ m_mutex_lock' = NoThread
  /\ UNCHANGED <<mb_shutdown, mq_task, m_cond_lock, ptask, arg, heap, main_pc>>

(* run() returned: ptask.release() gives up the object without deleting it. *)
RunReturns(w) ==
  /\ Transition(w, "run", "lock")
  /\ heap' = [heap EXCEPT ![ptask[w]] = "released"]
  /\ ptask' = [ptask EXCEPT ![w] = NoTask]
  /\ UNCHANGED <<mb_shutdown, mq_task, m_mutex_lock, m_cond_lock, arg, main_pc>>

(* run() threw: catch(...) logs, and ptask's destructor deletes the object. *)
RunThrows(w) ==
  /\ Transition(w, "run", "lock")
  /\ heap' = [heap EXCEPT ![ptask[w]] = "deleted"]
  /\ ptask' = [ptask EXCEPT ![w] = NoTask]
  /\ UNCHANGED <<mb_shutdown, mq_task, m_mutex_lock, m_cond_lock, arg, main_pc>>

(***************************************************************************)
(* add_task(), called by a client or, from inside run(), by a worker       *)
(***************************************************************************)
AfterAdd(t) == IF t \in Workers THEN "run" ELSE "idle"

AddTask(t, k) ==
  /\ heap[k] = "fresh"
  /\ Transition(t, AfterAdd(t), "add_lock")
  /\ arg' = [arg EXCEPT ![t] = k]
  /\ heap' = [heap EXCEPT ![k] = "owned"]
  /\ UNCHANGED <<mb_shutdown, mq_task, m_mutex_lock, m_cond_lock, ptask, main_pc>>

AddLock(t) ==
  /\ MutexLock(t, "add_lock", "add_push")
  /\ UNCHANGED <<mb_shutdown, mq_task, m_cond_lock, ptask, arg, heap, main_pc>>

(* Mutant: the argument is moved from before it is pushed.                  *)
PushMovedFrom(t) ==
  /\ Transition(t, "add_push", "add_unlock")
  /\ mq_task' = Append(mq_task, NoTask)
  /\ arg' = [arg EXCEPT ![t] = NoTask]
  /\ UNCHANGED <<mb_shutdown, m_mutex_lock, m_cond_lock, ptask, heap, main_pc>>

AddPush(t) ==
  /\ Transition(t, "add_push", "add_unlock")
  /\ mq_task' = Append(mq_task, arg[t])
  /\ arg' = [arg EXCEPT ![t] = NoTask]
  /\ UNCHANGED <<mb_shutdown, m_mutex_lock, m_cond_lock, ptask, heap, main_pc>>

AddUnlock(t) ==
  /\ Transition(t, "add_unlock", "add_signal")
  /\ m_mutex_lock' = NoThread
  /\ UNCHANGED <<mb_shutdown, mq_task, m_cond_lock, ptask, arg, heap, main_pc>>

(* Mutant: signal only when the queue has gone from empty to non-empty.     *)
SignalFirstOnly(t) ==
  /\ main_pc # "gone"
  /\ pc[t] = "add_signal"
  /\ \/ /\ m_cond_lock = {} \/ Len(mq_task) > 1
        /\ pc' = [pc EXCEPT ![t] = AfterAdd(t)]
        /\ UNCHANGED m_cond_lock
     \/ /\ Len(mq_task) <= 1
        /\ \E w \in m_cond_lock :
             /\ pc' = [pc EXCEPT ![t] = AfterAdd(t), ![w] = "relock"]
             /\ m_cond_lock' = m_cond_lock \ {w}
  /\ UNCHANGED <<mb_shutdown, mq_task, m_mutex_lock, ptask, arg, heap, main_pc>>

(* Mutant: add_task does not signal at all.                                 *)
NeverSignal(t) ==
  /\ Transition(t, "add_signal", AfterAdd(t))
  /\ UNCHANGED <<mb_shutdown, mq_task, m_mutex_lock, m_cond_lock, ptask, arg,
                 heap, main_pc>>

(* pthread_cond_signal: one blocked thread, if there is one, is woken.      *)
AddSignal(t) ==
  /\ main_pc # "gone"
  /\ pc[t] = "add_signal"
  /\ \/ /\ m_cond_lock = {}
        /\ pc' = [pc EXCEPT ![t] = AfterAdd(t)]
        /\ UNCHANGED m_cond_lock
     \/ \E w \in m_cond_lock :
          /\ pc' = [pc EXCEPT ![t] = AfterAdd(t), ![w] = "relock"]
          /\ m_cond_lock' = m_cond_lock \ {w}
  /\ UNCHANGED <<mb_shutdown, mq_task, m_mutex_lock, ptask, arg, heap, main_pc>>

(***************************************************************************)
(* ~threadpool(), run by exit() while every other thread keeps running     *)
(***************************************************************************)
SetShutdown ==
  /\ main_pc \in {"start", "failed", "serve"}
  /\ main_pc' = "flag"
  /\ mb_shutdown' = TRUE
  /\ UNCHANGED <<mq_task, m_mutex_lock, m_cond_lock, pc, ptask, arg, heap>>

(* Mutant: the destructor signals one worker instead of all.                *)
SignalOne ==
  /\ main_pc = "flag"
  /\ main_pc' = "broadcast"
  /\ \/ /\ m_cond_lock = {}
        /\ UNCHANGED <<pc, m_cond_lock>>
     \/ \E w \in m_cond_lock :
          /\ pc' = [pc EXCEPT ![w] = "relock"]
          /\ m_cond_lock' = m_cond_lock \ {w}
  /\ UNCHANGED <<mb_shutdown, mq_task, m_mutex_lock, ptask, arg, heap>>

Broadcast ==
  /\ main_pc = "flag"
  /\ main_pc' = "broadcast"
  /\ pc' = [t \in Threads |-> IF t \in m_cond_lock THEN "relock" ELSE pc[t]]
  /\ m_cond_lock' = {}
  /\ UNCHANGED <<mb_shutdown, mq_task, m_mutex_lock, ptask, arg, heap>>

(* pthread_mutex_destroy leaves a locked mutex as it is (EBUSY).            *)
DestroyMutex ==
  /\ main_pc = "broadcast"
  /\ main_pc' = "mutex"
  /\ m_mutex_lock' = IF m_mutex_lock = NoThread THEN Destroyed ELSE m_mutex_lock
  /\ UNCHANGED <<mb_shutdown, mq_task, m_cond_lock, pc, ptask, arg, heap>>

(* pthread_cond_destroy, then the members: the unique_ptrs left in mq_task  *)
(* delete their tasks.  With a thread still blocked on the condition        *)
(* variable the call may return or may block, so only the call without one  *)
(* is fair.                                                                 *)
DestroyCond ==
  /\ main_pc = "mutex"
  /\ main_pc' = "gone"
  /\ heap' = [k \in Tasks |-> IF InQueue(k) THEN "deleted" ELSE heap[k]]
  /\ mq_task' = <<>>
  /\ UNCHANGED <<mb_shutdown, m_mutex_lock, m_cond_lock, pc, ptask, arg>>

-----------------------------------------------------------------------------
WorkerStep(w) ==
  \/ Lock(w) \/ ExitOnShutdown(w) \/ DecideToWait(w) \/ CondWait(w)
  \/ Relock(w) \/ Pop(w) \/ Unlock(w)

AddStep(t) == AddLock(t) \/ AddPush(t) \/ AddUnlock(t) \/ AddSignal(t)

Next ==
  \/ StartSucceeds \/ StartFails
  \/ SetShutdown \/ Broadcast \/ DestroyMutex \/ DestroyCond
  \/ \E w \in Workers :
       CreateThread(w) \/ WorkerStep(w) \/ SpuriousWakeup(w)
       \/ RunReturns(w) \/ RunThrows(w)
  \/ \E t \in Threads :
       AddStep(t) \/ \E k \in Tasks : AddTask(t, k)

Spec == Init /\ [][Next]_vars

(* Every thread keeps executing its own statements.  Nothing is assumed of  *)
(* run(): a task may never end.  Nothing is assumed of spurious wakeups, of *)
(* callers of add_task, or of exit() ever being called.                     *)
Fairness ==
  /\ \A w \in Workers : WF_vars(WorkerStep(w))
  /\ \A t \in Threads : WF_vars(AddStep(t))
  /\ WF_vars(Broadcast)
  /\ WF_vars(DestroyMutex)
  /\ WF_vars(m_cond_lock = {} /\ DestroyCond)

FairSpec == Spec /\ Fairness

-----------------------------------------------------------------------------
(* The shape of the state; in particular the queue never holds an empty     *)
(* unique_ptr, and a worker between tasks holds none.                       *)
TypeOK ==
  /\ mb_shutdown \in BOOLEAN
  /\ mq_task \in Seq(Tasks)
  /\ m_mutex_lock \in Threads \cup {NoThread, Destroyed}
  /\ m_cond_lock \subseteq Workers
  /\ pc \in [Threads -> WorkerPC \cup ClientPC]
  /\ \A w \in Workers : pc[w] \in WorkerPC
  /\ \A c \in Clients : pc[c] \in ClientPC
  /\ ptask \in [Workers -> Tasks \cup {NoTask}]
  /\ arg \in [Threads -> Tasks \cup {NoTask}]
  /\ heap \in [Tasks -> Fate]
  /\ main_pc \in MainPC

Critical == {"test", "enter_wait", "unlock", "add_push", "add_unlock"}

(* The statements that use mq_task (threadpool.cpp:69-83, 100-101) are      *)
(* executed by the owner of the mutex and by nobody else, and a thread owns *)
(* the mutex nowhere else: not while it runs a task (which may itself call  *)
(* add_task), not after it exited, not while it signals.                    *)
QueueGuarded == \A t \in Threads : pc[t] \in Critical <=> m_mutex_lock = t

Passed(k) == \E t \in Threads : arg[t] = k
Popped(k) == \E w \in Workers : ptask[w] = k

(* A task object has one owner from the call of add_task until its run is   *)
(* over: it is never in the queue twice, never run by two workers, never    *)
(* run while still queued, and never lost between push and pop.             *)
SoleOwner ==
  /\ \A i, j \in DOMAIN mq_task : mq_task[i] = mq_task[j] => i = j
  /\ \A v, w \in Workers : ptask[v] = ptask[w] /\ ptask[v] # NoTask => v = w
  /\ \A t, u \in Threads : arg[t] = arg[u] /\ arg[t] # NoTask => t = u
  /\ \A k \in Tasks :
       /\ ~ (InQueue(k) /\ Popped(k))
       /\ ~ (InQueue(k) /\ Passed(k))
       /\ ~ (Popped(k) /\ Passed(k))
       /\ heap[k] = "owned" <=> InQueue(k) \/ Popped(k) \/ Passed(k)

Signalling == {t \in Threads : pc[t] \in {"add_unlock", "add_signal"}}
Awake == {w \in Workers : pc[w] \in {"lock", "relock", "test"}}

(* add_task signals after it unlocked, and a signal with nobody waiting is  *)
(* lost; still, as long as a worker sleeps, every queued task has a signal  *)
(* on its way or an awake worker of its own heading for the queue.  No task *)
(* waits for a running one to end while a worker sleeps.                    *)
WorkConserving ==
  m_mutex_lock # Destroyed /\ m_cond_lock # {} =>
    Len(mq_task) <= Cardinality(Signalling) + Cardinality(Awake)

(* A worker that is alive and holds no task.                                *)
Free(w) == ptask[w] = NoTask /\ pc[w] \notin {"unborn", "exited", "undefined"}

(* If workers become free again and again, every queued task is started,    *)
(* however the signals and the workers' locking interleave, unless exit()   *)
(* is called.                                                               *)
Served ==
  []<>(\E w \in Workers : Free(w)) =>
    \A k \in Tasks : InQueue(k) ~> (~ InQueue(k) \/ mb_shutdown)

(* ~threadpool() does not hang if, once it has set mb_shutdown, no worker   *)
(* is between its test of the flag and its wait: everyone who sleeps is     *)
(* woken and nobody sleeps again.  (A worker in that window, which exists   *)
(* because the flag is set without the mutex, may go to sleep after the     *)
(* broadcast and keep pthread_cond_destroy blocked.)                        *)
ShutdownCompletes ==
  main_pc = "flag" /\ (\A w \in Workers : pc[w] # "enter_wait")
  ~> main_pc = "gone"

(* threadpool.cpp:17: the tasks of the pool are held by smart pointers, so  *)
(* that nothing has to delete them by hand.  That requires that none ever   *)
(* leaves its smart pointer undeleted.                                      *)
ReclaimedBySmartPointer == \A k \in Tasks : heap[k] # "released"

-----------------------------------------------------------------------------
(* The pool keeps the promises of TaskPool: a task is accepted when it is   *)
(* pushed, begins when it is popped and ends when its run returns or throws *)
(* or its queue is destroyed.                                               *)
Abstract == INSTANCE TaskPool WITH
  MaxRunning <- Cardinality(Workers),
  pending <- mq_task,
  running <- {ptask[w] : w \in Workers} \ {NoTask},
  ended <- {k \in Tasks : heap[k] \in {"released", "deleted"}}

ImplementsTaskPool == Abstract!Spec
=============================================================================
