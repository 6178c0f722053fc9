-------------------------- MODULE ThreadPoolProofs --------------------------
(***************************************************************************)
(* What TLAPS proves of ThreadPool, for any number of workers, clients and *)
(* tasks.  The inductive invariant is IInv; its parts beyond the checked   *)
(* invariants say what a program counter implies about the thread's own    *)
(* unique_ptrs, the wait set and the queue.                                *)
(***************************************************************************)
EXTENDS ThreadPool, FiniteSetTheorems, TLAPS

(* The threads blocked on the condition variable are those inside          *)
(* pthread_cond_wait.                                                      *)
WaitSet == m_cond_lock = {w \in Workers : pc[w] = "waiting"}

(* The service threads are created after start() returned.                 *)
NoEarlyClient == main_pc = "start" => \A c \in Clients : pc[c] = "unborn"

(* A worker about to wait still holds the mutex under which it saw the     *)
(* queue empty, so the queue is still empty.                               *)
WaitsOnEmpty == \A w \in Workers : pc[w] = "enter_wait" => mq_task = <<>>

(* From Pop to the end of its run a worker holds a task, and otherwise it  *)
(* holds none (an undefined thread may be either).                         *)
HoldPC == {"unlock", "run", "add_lock", "add_push", "add_unlock", "add_signal"}
WorkerHolds ==
  \A w \in Workers :
    /\ pc[w] \in HoldPC => ptask[w] # NoTask
    /\ ptask[w] # NoTask => pc[w] \in HoldPC \cup {"undefined"}

(* The parameter of add_task holds the task until it is moved away.        *)
ArgHolds ==
  \A t \in Threads :
    /\ pc[t] \in {"add_lock", "add_push"} => arg[t] # NoTask
    /\ arg[t] # NoTask => pc[t] \in {"add_lock", "add_push", "undefined"}

IInv ==
  /\ TypeOK
  /\ NoEarlyClient
  /\ QueueGuarded
  /\ WaitSet
  /\ WaitsOnEmpty
  /\ WorkerHolds
  /\ ArgHolds
  /\ SoleOwner
  /\ WorkConserving

-----------------------------------------------------------------------------
(* The state keeps its shape; that AddPush pushes a task and not an empty
   pointer is what ArgHolds is for. *)
LEMMA TypeStep ==
  TypeOK /\ WorkerHolds /\ ArgHolds /\ [Next]_vars => TypeOK'
<1> SUFFICES ASSUME TypeOK, WorkerHolds, ArgHolds, [Next]_vars
             PROVE  TypeOK'
  OBVIOUS
<1> USE ThreadAssumption, TaskAssumption DEF TypeOK, WorkerHolds, ArgHolds, HoldPC, Fate, MainPC,
            Threads, AddPC, WorkerPC, ClientPC
<1>1. CASE StartSucceeds
  BY <1>1 DEF StartSucceeds
<1>2. CASE StartFails
  BY <1>2 DEF StartFails
<1>3. CASE SetShutdown
  BY <1>3 DEF SetShutdown
<1>4. CASE Broadcast
  BY <1>4 DEF Broadcast
<1>5. CASE DestroyMutex
  BY <1>5 DEF DestroyMutex
<1>6. CASE DestroyCond
  BY <1>6 DEF DestroyCond, InQueue
<1>7. ASSUME NEW w \in Workers, CreateThread(w) PROVE TypeOK'
  BY <1>7 DEF CreateThread, Transition
<1>8. ASSUME NEW w \in Workers, Lock(w) PROVE TypeOK'
  BY <1>8 DEF Lock, MutexLock, Transition
<1>9. ASSUME NEW w \in Workers, ExitOnShutdown(w) PROVE TypeOK'
  BY <1>9 DEF ExitOnShutdown, Transition
<1>10. ASSUME NEW w \in Workers, DecideToWait(w) PROVE TypeOK'
  BY <1>10 DEF DecideToWait, Transition
<1>11. ASSUME NEW w \in Workers, CondWait(w) PROVE TypeOK'
  BY <1>11 DEF CondWait, Transition
<1>12. ASSUME NEW w \in Workers, Relock(w) PROVE TypeOK'
  BY <1>12 DEF Relock, MutexLock, Transition
<1>13. ASSUME NEW w \in Workers, Pop(w) PROVE TypeOK'
  BY <1>13 DEF Pop, Transition
<1>14. ASSUME NEW w \in Workers, Unlock(w) PROVE TypeOK'
  BY <1>14 DEF Unlock, Transition
<1>15. ASSUME NEW w \in Workers, SpuriousWakeup(w) PROVE TypeOK'
  BY <1>15 DEF SpuriousWakeup, Transition
<1>16. ASSUME NEW w \in Workers, RunReturns(w) PROVE TypeOK'
  BY <1>16 DEF RunReturns, Transition
<1>17. ASSUME NEW w \in Workers, RunThrows(w) PROVE TypeOK'
  BY <1>17 DEF RunThrows, Transition
<1>18. ASSUME NEW t \in Threads, AddLock(t) PROVE TypeOK'
  BY <1>18, SMTT(30) DEF AddLock, MutexLock, Transition
<1>19. ASSUME NEW t \in Threads, AddPush(t) PROVE TypeOK'
  BY <1>19 DEF AddPush, Transition
<1>20. ASSUME NEW t \in Threads, AddUnlock(t) PROVE TypeOK'
  BY <1>20 DEF AddUnlock, Transition
<1>21. ASSUME NEW t \in Threads, AddSignal(t) PROVE TypeOK'
  BY <1>21 DEF AddSignal, AfterAdd
<1>22. ASSUME NEW t \in Threads, NEW k \in Tasks, AddTask(t, k)
      PROVE  TypeOK'
  BY <1>22 DEF AddTask, AfterAdd, Transition
<1>23. CASE UNCHANGED vars
  BY <1>23 DEF vars
<1> QED
  BY <1>1, <1>2, <1>3, <1>4, <1>5, <1>6, <1>7, <1>8, <1>9, <1>10, <1>11,
     <1>12, <1>13, <1>14, <1>15, <1>16, <1>17, <1>18, <1>19, <1>20, <1>21,
     <1>22, <1>23 DEF Next, WorkerStep, AddStep

(* No client appears before start() is over. *)
LEMMA NoEarlyClientStep ==
  TypeOK /\ WaitSet /\ NoEarlyClient /\ [Next]_vars => NoEarlyClient'
<1> SUFFICES ASSUME TypeOK, WaitSet, NoEarlyClient, [Next]_vars
             PROVE  NoEarlyClient'
  OBVIOUS
<1> USE ThreadAssumption, TaskAssumption DEF TypeOK, WaitSet, NoEarlyClient, Threads, AddPC, WorkerPC, ClientPC
<1>1. CASE StartSucceeds
  BY <1>1 DEF StartSucceeds
<1>2. CASE StartFails
  BY <1>2 DEF StartFails
<1>3. CASE SetShutdown
  BY <1>3 DEF SetShutdown
<1>4. CASE Broadcast
  BY <1>4 DEF Broadcast
<1>5. CASE DestroyMutex
  BY <1>5 DEF DestroyMutex
<1>6. CASE DestroyCond
  BY <1>6 DEF DestroyCond, InQueue
<1>7. ASSUME NEW w \in Workers, CreateThread(w) PROVE NoEarlyClient'
  BY <1>7 DEF CreateThread, Transition
<1>8. ASSUME NEW w \in Workers, Lock(w) PROVE NoEarlyClient'
  BY <1>8 DEF Lock, MutexLock, Transition
<1>9. ASSUME NEW w \in Workers, ExitOnShutdown(w) PROVE NoEarlyClient'
  BY <1>9 DEF ExitOnShutdown, Transition
<1>10. ASSUME NEW w \in Workers, DecideToWait(w) PROVE NoEarlyClient'
  BY <1>10 DEF DecideToWait, Transition
<1>11. ASSUME NEW w \in Workers, CondWait(w) PROVE NoEarlyClient'
  BY <1>11 DEF CondWait, Transition
<1>12. ASSUME NEW w \in Workers, Relock(w) PROVE NoEarlyClient'
  BY <1>12 DEF Relock, MutexLock, Transition
<1>13. ASSUME NEW w \in Workers, Pop(w) PROVE NoEarlyClient'
  BY <1>13 DEF Pop, Transition
<1>14. ASSUME NEW w \in Workers, Unlock(w) PROVE NoEarlyClient'
  BY <1>14 DEF Unlock, Transition
<1>15. ASSUME NEW w \in Workers, SpuriousWakeup(w) PROVE NoEarlyClient'
  BY <1>15 DEF SpuriousWakeup, Transition
<1>16. ASSUME NEW w \in Workers, RunReturns(w) PROVE NoEarlyClient'
  BY <1>16 DEF RunReturns, Transition
<1>17. ASSUME NEW w \in Workers, RunThrows(w) PROVE NoEarlyClient'
  BY <1>17 DEF RunThrows, Transition
<1>18. ASSUME NEW t \in Threads, AddLock(t) PROVE NoEarlyClient'
  BY <1>18 DEF AddLock, MutexLock, Transition
<1>19. ASSUME NEW t \in Threads, AddPush(t) PROVE NoEarlyClient'
  BY <1>19 DEF AddPush, Transition
<1>20. ASSUME NEW t \in Threads, AddUnlock(t) PROVE NoEarlyClient'
  BY <1>20 DEF AddUnlock, Transition
<1>21. ASSUME NEW t \in Threads, AddSignal(t) PROVE NoEarlyClient'
  BY <1>21 DEF AddSignal, AfterAdd
<1>22. ASSUME NEW t \in Threads, NEW k \in Tasks, AddTask(t, k)
      PROVE  NoEarlyClient'
  BY <1>22 DEF AddTask, AfterAdd, Transition
<1>23. CASE UNCHANGED vars
  BY <1>23 DEF vars
<1> QED
  BY <1>1, <1>2, <1>3, <1>4, <1>5, <1>6, <1>7, <1>8, <1>9, <1>10, <1>11,
     <1>12, <1>13, <1>14, <1>15, <1>16, <1>17, <1>18, <1>19, <1>20, <1>21,
     <1>22, <1>23 DEF Next, WorkerStep, AddStep

(* The mutex is owned exactly inside the critical statements. *)
LEMMA GuardStep ==
  TypeOK /\ NoEarlyClient /\ WaitSet /\ QueueGuarded /\ [Next]_vars => QueueGuarded'
<1> SUFFICES ASSUME TypeOK, NoEarlyClient, WaitSet, QueueGuarded, [Next]_vars
             PROVE  QueueGuarded'
  OBVIOUS
<1> USE ThreadAssumption, TaskAssumption DEF TypeOK, NoEarlyClient, WaitSet, QueueGuarded, Critical,
            Threads, AddPC, WorkerPC, ClientPC
<1>1. CASE StartSucceeds
  BY <1>1 DEF StartSucceeds
<1>2. CASE StartFails
  BY <1>2 DEF StartFails
<1>3. CASE SetShutdown
  BY <1>3 DEF SetShutdown
<1>4. CASE Broadcast
  BY <1>4 DEF Broadcast
<1>5. CASE DestroyMutex
  BY <1>5 DEF DestroyMutex
<1>6. CASE DestroyCond
  BY <1>6 DEF DestroyCond, InQueue
<1>7. ASSUME NEW w \in Workers, CreateThread(w) PROVE QueueGuarded'
  BY <1>7 DEF CreateThread, Transition
<1>8. ASSUME NEW w \in Workers, Lock(w) PROVE QueueGuarded'
  BY <1>8 DEF Lock, MutexLock, Transition
<1>9. ASSUME NEW w \in Workers, ExitOnShutdown(w) PROVE QueueGuarded'
  BY <1>9 DEF ExitOnShutdown, Transition
<1>10. ASSUME NEW w \in Workers, DecideToWait(w) PROVE QueueGuarded'
  BY <1>10 DEF DecideToWait, Transition
<1>11. ASSUME NEW w \in Workers, CondWait(w) PROVE QueueGuarded'
  BY <1>11 DEF CondWait, Transition
<1>12. ASSUME NEW w \in Workers, Relock(w) PROVE QueueGuarded'
  BY <1>12 DEF Relock, MutexLock, Transition
<1>13. ASSUME NEW w \in Workers, Pop(w) PROVE QueueGuarded'
  BY <1>13 DEF Pop, Transition
<1>14. ASSUME NEW w \in Workers, Unlock(w) PROVE QueueGuarded'
  BY <1>14 DEF Unlock, Transition
<1>15. ASSUME NEW w \in Workers, SpuriousWakeup(w) PROVE QueueGuarded'
  BY <1>15 DEF SpuriousWakeup, Transition
<1>16. ASSUME NEW w \in Workers, RunReturns(w) PROVE QueueGuarded'
  BY <1>16 DEF RunReturns, Transition
<1>17. ASSUME NEW w \in Workers, RunThrows(w) PROVE QueueGuarded'
  BY <1>17 DEF RunThrows, Transition
<1>18. ASSUME NEW t \in Threads, AddLock(t) PROVE QueueGuarded'
  BY <1>18 DEF AddLock, MutexLock, Transition
<1>19. ASSUME NEW t \in Threads, AddPush(t) PROVE QueueGuarded'
  BY <1>19 DEF AddPush, Transition
<1>20. ASSUME NEW t \in Threads, AddUnlock(t) PROVE QueueGuarded'
  BY <1>20 DEF AddUnlock, Transition
<1>21. ASSUME NEW t \in Threads, AddSignal(t) PROVE QueueGuarded'
  BY <1>21 DEF AddSignal, AfterAdd
<1>22. ASSUME NEW t \in Threads, NEW k \in Tasks, AddTask(t, k)
      PROVE  QueueGuarded'
  BY <1>22 DEF AddTask, AfterAdd, Transition
<1>23. CASE UNCHANGED vars
  BY <1>23 DEF vars
<1> QED
  BY <1>1, <1>2, <1>3, <1>4, <1>5, <1>6, <1>7, <1>8, <1>9, <1>10, <1>11,
     <1>12, <1>13, <1>14, <1>15, <1>16, <1>17, <1>18, <1>19, <1>20, <1>21,
     <1>22, <1>23 DEF Next, WorkerStep, AddStep

(* Threads enter and leave the wait set with pthread_cond_wait. *)
LEMMA WaitSetStep ==
  TypeOK /\ WaitSet /\ [Next]_vars => WaitSet'
<1> SUFFICES ASSUME TypeOK, WaitSet, [Next]_vars
             PROVE  WaitSet'
  OBVIOUS
<1> USE ThreadAssumption, TaskAssumption DEF TypeOK, WaitSet, Threads, AddPC, WorkerPC, ClientPC
<1>1. CASE StartSucceeds
  BY <1>1 DEF StartSucceeds
<1>2. CASE StartFails
  BY <1>2 DEF StartFails
<1>3. CASE SetShutdown
  BY <1>3 DEF SetShutdown
<1>4. CASE Broadcast
  BY <1>4 DEF Broadcast
<1>5. CASE DestroyMutex
  BY <1>5 DEF DestroyMutex
<1>6. CASE DestroyCond
  BY <1>6 DEF DestroyCond, InQueue
<1>7. ASSUME NEW w \in Workers, CreateThread(w) PROVE WaitSet'
  BY <1>7 DEF CreateThread, Transition
<1>8. ASSUME NEW w \in Workers, Lock(w) PROVE WaitSet'
  BY <1>8 DEF Lock, MutexLock, Transition
<1>9. ASSUME NEW w \in Workers, ExitOnShutdown(w) PROVE WaitSet'
  BY <1>9 DEF ExitOnShutdown, Transition
<1>10. ASSUME NEW w \in Workers, DecideToWait(w) PROVE WaitSet'
  BY <1>10 DEF DecideToWait, Transition
<1>11. ASSUME NEW w \in Workers, CondWait(w) PROVE WaitSet'
  BY <1>11 DEF CondWait, Transition
<1>12. ASSUME NEW w \in Workers, Relock(w) PROVE WaitSet'
  BY <1>12 DEF Relock, MutexLock, Transition
<1>13. ASSUME NEW w \in Workers, Pop(w) PROVE WaitSet'
  BY <1>13 DEF Pop, Transition
<1>14. ASSUME NEW w \in Workers, Unlock(w) PROVE WaitSet'
  BY <1>14 DEF Unlock, Transition
<1>15. ASSUME NEW w \in Workers, SpuriousWakeup(w) PROVE WaitSet'
  BY <1>15 DEF SpuriousWakeup, Transition
<1>16. ASSUME NEW w \in Workers, RunReturns(w) PROVE WaitSet'
  BY <1>16 DEF RunReturns, Transition
<1>17. ASSUME NEW w \in Workers, RunThrows(w) PROVE WaitSet'
  BY <1>17 DEF RunThrows, Transition
<1>18. ASSUME NEW t \in Threads, AddLock(t) PROVE WaitSet'
  BY <1>18 DEF AddLock, MutexLock, Transition
<1>19. ASSUME NEW t \in Threads, AddPush(t) PROVE WaitSet'
  BY <1>19 DEF AddPush, Transition
<1>20. ASSUME NEW t \in Threads, AddUnlock(t) PROVE WaitSet'
  BY <1>20 DEF AddUnlock, Transition
<1>21. ASSUME NEW t \in Threads, AddSignal(t) PROVE WaitSet'
  BY <1>21 DEF AddSignal, AfterAdd
<1>22. ASSUME NEW t \in Threads, NEW k \in Tasks, AddTask(t, k)
      PROVE  WaitSet'
  BY <1>22 DEF AddTask, AfterAdd, Transition
<1>23. CASE UNCHANGED vars
  BY <1>23 DEF vars
<1> QED
  BY <1>1, <1>2, <1>3, <1>4, <1>5, <1>6, <1>7, <1>8, <1>9, <1>10, <1>11,
     <1>12, <1>13, <1>14, <1>15, <1>16, <1>17, <1>18, <1>19, <1>20, <1>21,
     <1>22, <1>23 DEF Next, WorkerStep, AddStep

(* Nobody can push between a worker's test of the queue and its wait. *)
LEMMA WaitsOnEmptyStep ==
  TypeOK /\ QueueGuarded /\ WaitSet /\ WaitsOnEmpty /\ [Next]_vars => WaitsOnEmpty'
<1> SUFFICES ASSUME TypeOK, QueueGuarded, WaitSet, WaitsOnEmpty, [Next]_vars
             PROVE  WaitsOnEmpty'
  OBVIOUS
<1> USE ThreadAssumption, TaskAssumption DEF TypeOK, QueueGuarded, WaitSet, WaitsOnEmpty, Critical,
            Threads, AddPC, WorkerPC, ClientPC
<1>1. CASE StartSucceeds
  BY <1>1 DEF StartSucceeds
<1>2. CASE StartFails
  BY <1>2 DEF StartFails
<1>3. CASE SetShutdown
  BY <1>3 DEF SetShutdown
<1>4. CASE Broadcast
  BY <1>4 DEF Broadcast
<1>5. CASE DestroyMutex
  BY <1>5 DEF DestroyMutex
<1>6. CASE DestroyCond
  BY <1>6 DEF DestroyCond, InQueue
<1>7. ASSUME NEW w \in Workers, CreateThread(w) PROVE WaitsOnEmpty'
  BY <1>7 DEF CreateThread, Transition
<1>8. ASSUME NEW w \in Workers, Lock(w) PROVE WaitsOnEmpty'
  BY <1>8 DEF Lock, MutexLock, Transition
<1>9. ASSUME NEW w \in Workers, ExitOnShutdown(w) PROVE WaitsOnEmpty'
  BY <1>9 DEF ExitOnShutdown, Transition
<1>10. ASSUME NEW w \in Workers, DecideToWait(w) PROVE WaitsOnEmpty'
  BY <1>10 DEF DecideToWait, Transition
<1>11. ASSUME NEW w \in Workers, CondWait(w) PROVE WaitsOnEmpty'
  BY <1>11 DEF CondWait, Transition
<1>12. ASSUME NEW w \in Workers, Relock(w) PROVE WaitsOnEmpty'
  BY <1>12 DEF Relock, MutexLock, Transition
<1>13. ASSUME NEW w \in Workers, Pop(w) PROVE WaitsOnEmpty'
  BY <1>13 DEF Pop, Transition
<1>14. ASSUME NEW w \in Workers, Unlock(w) PROVE WaitsOnEmpty'
  BY <1>14 DEF Unlock, Transition
<1>15. ASSUME NEW w \in Workers, SpuriousWakeup(w) PROVE WaitsOnEmpty'
  BY <1>15 DEF SpuriousWakeup, Transition
<1>16. ASSUME NEW w \in Workers, RunReturns(w) PROVE WaitsOnEmpty'
  BY <1>16 DEF RunReturns, Transition
<1>17. ASSUME NEW w \in Workers, RunThrows(w) PROVE WaitsOnEmpty'
  BY <1>17 DEF RunThrows, Transition
<1>18. ASSUME NEW t \in Threads, AddLock(t) PROVE WaitsOnEmpty'
  BY <1>18 DEF AddLock, MutexLock, Transition
<1>19. ASSUME NEW t \in Threads, AddPush(t) PROVE WaitsOnEmpty'
  BY <1>19 DEF AddPush, Transition
<1>20. ASSUME NEW t \in Threads, AddUnlock(t) PROVE WaitsOnEmpty'
  BY <1>20 DEF AddUnlock, Transition
<1>21. ASSUME NEW t \in Threads, AddSignal(t) PROVE WaitsOnEmpty'
  BY <1>21 DEF AddSignal, AfterAdd
<1>22. ASSUME NEW t \in Threads, NEW k \in Tasks, AddTask(t, k)
      PROVE  WaitsOnEmpty'
  BY <1>22 DEF AddTask, AfterAdd, Transition
<1>23. CASE UNCHANGED vars
  BY <1>23 DEF vars
<1> QED
  BY <1>1, <1>2, <1>3, <1>4, <1>5, <1>6, <1>7, <1>8, <1>9, <1>10, <1>11,
     <1>12, <1>13, <1>14, <1>15, <1>16, <1>17, <1>18, <1>19, <1>20, <1>21,
     <1>22, <1>23 DEF Next, WorkerStep, AddStep

(* A worker's ptask is set and cleared with its place in entry(). *)
LEMMA WorkerHoldsStep ==
  TypeOK /\ WaitSet /\ WorkerHolds /\ [Next]_vars => WorkerHolds'
<1> SUFFICES ASSUME TypeOK, WaitSet, WorkerHolds, [Next]_vars
             PROVE  WorkerHolds'
  OBVIOUS
<1> USE ThreadAssumption, TaskAssumption DEF TypeOK, WaitSet, WorkerHolds, HoldPC, Threads, AddPC, WorkerPC, ClientPC
<1>1. CASE StartSucceeds
  BY <1>1 DEF StartSucceeds
<1>2. CASE StartFails
  BY <1>2 DEF StartFails
<1>3. CASE SetShutdown
  BY <1>3 DEF SetShutdown
<1>4. CASE Broadcast
  BY <1>4 DEF Broadcast
<1>5. CASE DestroyMutex
  BY <1>5 DEF DestroyMutex
<1>6. CASE DestroyCond
  BY <1>6 DEF DestroyCond, InQueue
<1>7. ASSUME NEW w \in Workers, CreateThread(w) PROVE WorkerHolds'
  BY <1>7 DEF CreateThread, Transition
<1>8. ASSUME NEW w \in Workers, Lock(w) PROVE WorkerHolds'
  BY <1>8 DEF Lock, MutexLock, Transition
<1>9. ASSUME NEW w \in Workers, ExitOnShutdown(w) PROVE WorkerHolds'
  BY <1>9 DEF ExitOnShutdown, Transition
<1>10. ASSUME NEW w \in Workers, DecideToWait(w) PROVE WorkerHolds'
  BY <1>10 DEF DecideToWait, Transition
<1>11. ASSUME NEW w \in Workers, CondWait(w) PROVE WorkerHolds'
  BY <1>11 DEF CondWait, Transition
<1>12. ASSUME NEW w \in Workers, Relock(w) PROVE WorkerHolds'
  BY <1>12 DEF Relock, MutexLock, Transition
<1>13. ASSUME NEW w \in Workers, Pop(w) PROVE WorkerHolds'
  BY <1>13 DEF Pop, Transition
<1>14. ASSUME NEW w \in Workers, Unlock(w) PROVE WorkerHolds'
  BY <1>14 DEF Unlock, Transition
<1>15. ASSUME NEW w \in Workers, SpuriousWakeup(w) PROVE WorkerHolds'
  BY <1>15 DEF SpuriousWakeup, Transition
<1>16. ASSUME NEW w \in Workers, RunReturns(w) PROVE WorkerHolds'
  BY <1>16 DEF RunReturns, Transition
<1>17. ASSUME NEW w \in Workers, RunThrows(w) PROVE WorkerHolds'
  BY <1>17 DEF RunThrows, Transition
<1>18. ASSUME NEW t \in Threads, AddLock(t) PROVE WorkerHolds'
  BY <1>18 DEF AddLock, MutexLock, Transition
<1>19. ASSUME NEW t \in Threads, AddPush(t) PROVE WorkerHolds'
  BY <1>19 DEF AddPush, Transition
<1>20. ASSUME NEW t \in Threads, AddUnlock(t) PROVE WorkerHolds'
  BY <1>20 DEF AddUnlock, Transition
<1>21. ASSUME NEW t \in Threads, AddSignal(t) PROVE WorkerHolds'
  BY <1>21 DEF AddSignal, AfterAdd
<1>22. ASSUME NEW t \in Threads, NEW k \in Tasks, AddTask(t, k)
      PROVE  WorkerHolds'
  BY <1>22 DEF AddTask, AfterAdd, Transition
<1>23. CASE UNCHANGED vars
  BY <1>23 DEF vars
<1> QED
  BY <1>1, <1>2, <1>3, <1>4, <1>5, <1>6, <1>7, <1>8, <1>9, <1>10, <1>11,
     <1>12, <1>13, <1>14, <1>15, <1>16, <1>17, <1>18, <1>19, <1>20, <1>21,
     <1>22, <1>23 DEF Next, WorkerStep, AddStep

(* The parameter of add_task is set by the call and cleared by the push. *)
LEMMA ArgHoldsStep ==
  TypeOK /\ NoEarlyClient /\ WaitSet /\ ArgHolds /\ [Next]_vars => ArgHolds'
<1> SUFFICES ASSUME TypeOK, NoEarlyClient, WaitSet, ArgHolds, [Next]_vars
             PROVE  ArgHolds'
  OBVIOUS
<1> USE ThreadAssumption, TaskAssumption DEF TypeOK, NoEarlyClient, WaitSet, ArgHolds, Threads, AddPC, WorkerPC, ClientPC
<1>1. CASE StartSucceeds
  BY <1>1 DEF StartSucceeds
<1>2. CASE StartFails
  BY <1>2 DEF StartFails
<1>3. CASE SetShutdown
  BY <1>3 DEF SetShutdown
<1>4. CASE Broadcast
  BY <1>4 DEF Broadcast
<1>5. CASE DestroyMutex
  BY <1>5 DEF DestroyMutex
<1>6. CASE DestroyCond
  BY <1>6 DEF DestroyCond, InQueue
<1>7. ASSUME NEW w \in Workers, CreateThread(w) PROVE ArgHolds'
  BY <1>7 DEF CreateThread, Transition
<1>8. ASSUME NEW w \in Workers, Lock(w) PROVE ArgHolds'
  BY <1>8 DEF Lock, MutexLock, Transition
<1>9. ASSUME NEW w \in Workers, ExitOnShutdown(w) PROVE ArgHolds'
  BY <1>9 DEF ExitOnShutdown, Transition
<1>10. ASSUME NEW w \in Workers, DecideToWait(w) PROVE ArgHolds'
  BY <1>10 DEF DecideToWait, Transition
<1>11. ASSUME NEW w \in Workers, CondWait(w) PROVE ArgHolds'
  BY <1>11 DEF CondWait, Transition
<1>12. ASSUME NEW w \in Workers, Relock(w) PROVE ArgHolds'
  BY <1>12 DEF Relock, MutexLock, Transition
<1>13. ASSUME NEW w \in Workers, Pop(w) PROVE ArgHolds'
  BY <1>13 DEF Pop, Transition
<1>14. ASSUME NEW w \in Workers, Unlock(w) PROVE ArgHolds'
  BY <1>14 DEF Unlock, Transition
<1>15. ASSUME NEW w \in Workers, SpuriousWakeup(w) PROVE ArgHolds'
  BY <1>15 DEF SpuriousWakeup, Transition
<1>16. ASSUME NEW w \in Workers, RunReturns(w) PROVE ArgHolds'
  BY <1>16 DEF RunReturns, Transition
<1>17. ASSUME NEW w \in Workers, RunThrows(w) PROVE ArgHolds'
  BY <1>17 DEF RunThrows, Transition
<1>18. ASSUME NEW t \in Threads, AddLock(t) PROVE ArgHolds'
  BY <1>18 DEF AddLock, MutexLock, Transition
<1>19. ASSUME NEW t \in Threads, AddPush(t) PROVE ArgHolds'
  BY <1>19 DEF AddPush, Transition
<1>20. ASSUME NEW t \in Threads, AddUnlock(t) PROVE ArgHolds'
  BY <1>20 DEF AddUnlock, Transition
<1>21. ASSUME NEW t \in Threads, AddSignal(t) PROVE ArgHolds'
  BY <1>21 DEF AddSignal, AfterAdd
<1>22. ASSUME NEW t \in Threads, NEW k \in Tasks, AddTask(t, k)
      PROVE  ArgHolds'
  BY <1>22 DEF AddTask, AfterAdd, Transition
<1>23. CASE UNCHANGED vars
  BY <1>23 DEF vars
<1> QED
  BY <1>1, <1>2, <1>3, <1>4, <1>5, <1>6, <1>7, <1>8, <1>9, <1>10, <1>11,
     <1>12, <1>13, <1>14, <1>15, <1>16, <1>17, <1>18, <1>19, <1>20, <1>21,
     <1>22, <1>23 DEF Next, WorkerStep, AddStep

(* A task passes from add_task to the queue to one worker, never to two owners. *)
LEMMA SoleOwnerStep ==
  TypeOK /\ QueueGuarded /\ WaitSet /\ WorkerHolds /\ ArgHolds /\ SoleOwner /\ [Next]_vars => SoleOwner'
<1> SUFFICES ASSUME TypeOK, QueueGuarded, WaitSet, WorkerHolds, ArgHolds, SoleOwner, [Next]_vars
             PROVE  SoleOwner'
  OBVIOUS
<1> USE ThreadAssumption, TaskAssumption DEF TypeOK, QueueGuarded, WaitSet, WorkerHolds, ArgHolds,
            HoldPC, Critical, SoleOwner, InQueue, Passed, Popped, Threads, AddPC, WorkerPC, ClientPC
<1>1. CASE StartSucceeds
  BY <1>1 DEF StartSucceeds
<1>2. CASE StartFails
  BY <1>2 DEF StartFails
<1>3. CASE SetShutdown
  BY <1>3 DEF SetShutdown
<1>4. CASE Broadcast
  BY <1>4 DEF Broadcast
<1>5. CASE DestroyMutex
  BY <1>5 DEF DestroyMutex
<1>6. CASE DestroyCond
  BY <1>6 DEF DestroyCond, InQueue
<1>7. ASSUME NEW w \in Workers, CreateThread(w) PROVE SoleOwner'
  BY <1>7 DEF CreateThread, Transition
<1>8. ASSUME NEW w \in Workers, Lock(w) PROVE SoleOwner'
  BY <1>8 DEF Lock, MutexLock, Transition
<1>9. ASSUME NEW w \in Workers, ExitOnShutdown(w) PROVE SoleOwner'
  BY <1>9 DEF ExitOnShutdown, Transition
<1>10. ASSUME NEW w \in Workers, DecideToWait(w) PROVE SoleOwner'
  BY <1>10 DEF DecideToWait, Transition
<1>11. ASSUME NEW w \in Workers, CondWait(w) PROVE SoleOwner'
  BY <1>11 DEF CondWait, Transition
<1>12. ASSUME NEW w \in Workers, Relock(w) PROVE SoleOwner'
  BY <1>12 DEF Relock, MutexLock, Transition
<1>13. ASSUME NEW w \in Workers, Pop(w) PROVE SoleOwner'
  <2> DEFINE k == Head(mq_task)
  <2>1. /\ mq_task # <<>> /\ mq_task' = Tail(mq_task)
        /\ ptask' = [ptask EXCEPT ![w] = k]
        /\ arg' = arg /\ heap' = heap /\ ptask[w] = NoTask
    BY <1>13 DEF Pop, Transition
  <2>2. /\ DOMAIN mq_task = 1..Len(mq_task) /\ Len(mq_task) \in Nat \ {0}
        /\ DOMAIN mq_task' = 1..(Len(mq_task) - 1)
        /\ \A i \in DOMAIN mq_task' : mq_task'[i] = mq_task[i + 1]
        /\ k = mq_task[1] /\ k \in Tasks
    BY <2>1
  <2>3. \A j \in Tasks : InQueue(j)' <=> InQueue(j) /\ j # k
    <3>1. ASSUME NEW j \in Tasks, InQueue(j)' PROVE InQueue(j) /\ j # k
      <4>1. PICK i \in 1..(Len(mq_task) - 1) : mq_task[i + 1] = j
        BY <3>1, <2>2
      <4>2. i + 1 \in DOMAIN mq_task /\ 1 \in DOMAIN mq_task /\ i + 1 # 1
        BY <4>1, <2>2
      <4> QED
        BY <4>1, <4>2, <2>2
    <3>2. ASSUME NEW j \in Tasks, InQueue(j), j # k PROVE InQueue(j)'
      <4>1. PICK i \in 1..Len(mq_task) : mq_task[i] = j
        BY <3>2, <2>2
      <4>2. i - 1 \in DOMAIN mq_task' /\ mq_task'[i - 1] = j
        BY <4>1, <3>2, <2>2, SMTT(30)
      <4> QED
        BY <4>2
    <3> QED
      BY <3>1, <3>2
  <2>4. \A i, j \in DOMAIN mq_task' : mq_task'[i] = mq_task'[j] => i = j
    BY <2>2, SMTT(30)
  <2>5. ~ Popped(k) /\ ~ Passed(k) /\ InQueue(k) /\ heap[k] = "owned"
    BY <2>2
  <2>6. \A j \in Tasks : Popped(j)' <=> Popped(j) \/ j = k
    BY <2>1, <2>2
  <2>7. \A u, v \in Workers : ptask'[u] = ptask'[v] /\ ptask'[u] # NoTask => u = v
    BY <2>1, <2>2, <2>5
  <2>8. \A j \in Tasks : Passed(j)' <=> Passed(j)
    BY <2>1
  <2> HIDE DEF k, InQueue, Passed, Popped
  <2>9. \A j \in Tasks :
          /\ ~ (InQueue(j)' /\ Popped(j)')
          /\ ~ (InQueue(j)' /\ Passed(j)')
          /\ ~ (Popped(j)' /\ Passed(j)')
          /\ heap'[j] = "owned" <=> InQueue(j)' \/ Popped(j)' \/ Passed(j)'
    BY <2>1, <2>2, <2>3, <2>5, <2>6, <2>8
  <2> QED
    BY <2>1, <2>4, <2>7, <2>9
<1>14. ASSUME NEW w \in Workers, Unlock(w) PROVE SoleOwner'
  BY <1>14 DEF Unlock, Transition
<1>15. ASSUME NEW w \in Workers, SpuriousWakeup(w) PROVE SoleOwner'
  <2>1. UNCHANGED <<mq_task, ptask, arg, heap>>
    BY <1>15 DEF SpuriousWakeup
  <2> QED
    BY <2>1, ZenonT(30)
<1>16. ASSUME NEW w \in Workers, RunReturns(w) PROVE SoleOwner'
  BY <1>16 DEF RunReturns, Transition
<1>17. ASSUME NEW w \in Workers, RunThrows(w) PROVE SoleOwner'
  BY <1>17 DEF RunThrows, Transition
<1>18. ASSUME NEW t \in Threads, AddLock(t) PROVE SoleOwner'
  BY <1>18 DEF AddLock, MutexLock, Transition
<1>19. ASSUME NEW t \in Threads, AddPush(t) PROVE SoleOwner'
  <2> DEFINE k == arg[t]
  <2>1. /\ mq_task' = Append(mq_task, k) /\ k \in Tasks
        /\ arg' = [arg EXCEPT ![t] = NoTask]
        /\ ptask' = ptask /\ heap' = heap
    BY <1>19 DEF AddPush, Transition
  <2>2. ~ InQueue(k) /\ ~ Popped(k) /\ Passed(k) /\ heap[k] = "owned"
    BY <2>1
  <2>3. /\ DOMAIN mq_task = 1..Len(mq_task) /\ Len(mq_task) \in Nat
        /\ DOMAIN mq_task' = 1..(Len(mq_task) + 1)
        /\ \A i \in DOMAIN mq_task' :
             mq_task'[i] = IF i = Len(mq_task) + 1 THEN k ELSE mq_task[i]
    BY <2>1
  <2>4. \A j \in Tasks : InQueue(j)' <=> InQueue(j) \/ j = k
    <3>1. ASSUME NEW j \in Tasks, InQueue(j) \/ j = k PROVE InQueue(j)'
      <4>1. CASE j = k
        BY <4>1, <2>3
      <4>2. CASE InQueue(j)
        <5>1. PICK i \in DOMAIN mq_task : mq_task[i] = j
          BY <4>2
        <5> QED
          BY <5>1, <2>3
      <4> QED
        BY <3>1, <4>1, <4>2
    <3>2. ASSUME NEW j \in Tasks, InQueue(j)' PROVE InQueue(j) \/ j = k
      BY <3>2, <2>3
    <3> QED
      BY <3>1, <3>2
  <2>5. \A i, j \in DOMAIN mq_task' : mq_task'[i] = mq_task'[j] => i = j
    BY <2>2, <2>3
  <2>6. \A j \in Tasks : Popped(j)' <=> Popped(j)
    BY <2>1
  <2>7. \A j \in Tasks : Passed(j)' <=> Passed(j) /\ j # k
    BY <2>1
  <2>8. \A u, v \in Threads : arg'[u] = arg'[v] /\ arg'[u] # NoTask => u = v
    BY <2>1
  <2> HIDE DEF k, InQueue, Passed, Popped
  <2>9. \A j \in Tasks :
          /\ ~ (InQueue(j)' /\ Popped(j)')
          /\ ~ (InQueue(j)' /\ Passed(j)')
          /\ ~ (Popped(j)' /\ Passed(j)')
          /\ heap'[j] = "owned" <=> InQueue(j)' \/ Popped(j)' \/ Passed(j)'
    BY <2>1, <2>2, <2>4, <2>6, <2>7
  <2>10. \A u, v \in Workers : ptask'[u] = ptask'[v] /\ ptask'[u] # NoTask => u = v
    BY <2>1
  <2> QED
    BY <2>5, <2>8, <2>9, <2>10
<1>20. ASSUME NEW t \in Threads, AddUnlock(t) PROVE SoleOwner'
  BY <1>20 DEF AddUnlock, Transition
<1>21. ASSUME NEW t \in Threads, AddSignal(t) PROVE SoleOwner'
  BY <1>21 DEF AddSignal, AfterAdd
<1>22. ASSUME NEW t \in Threads, NEW k \in Tasks, AddTask(t, k)
      PROVE  SoleOwner'
  BY <1>22 DEF AddTask, AfterAdd, Transition
<1>23. CASE UNCHANGED vars
  BY <1>23 DEF vars
<1> QED
  BY <1>1, <1>2, <1>3, <1>4, <1>5, <1>6, <1>7, <1>8, <1>9, <1>10, <1>11,
     <1>12, <1>13, <1>14, <1>15, <1>16, <1>17, <1>18, <1>19, <1>20, <1>21,
     <1>22, <1>23 DEF Next, WorkerStep, AddStep

(* There are finitely many threads, so the two counts of WorkConserving are *)
(* natural numbers.                                                         *)
LEMMA Counts ==
  /\ IsFiniteSet(Signalling) /\ Cardinality(Signalling) \in Nat
  /\ IsFiniteSet(Awake) /\ Cardinality(Awake) \in Nat
<1>1. Signalling \in SUBSET Threads /\ Awake \in SUBSET Threads
  BY DEF Signalling, Awake, Threads
<1>2. IsFiniteSet(Signalling) /\ IsFiniteSet(Awake)
  BY <1>1, FS_Subset, FiniteAssumption
<1> QED
  BY <1>2, FS_CardinalityType

(* The same counts after a step.                                            *)
LEMMA CountsAfter ==
  /\ IsFiniteSet(Signalling') /\ Cardinality(Signalling') \in Nat
  /\ IsFiniteSet(Awake') /\ Cardinality(Awake') \in Nat
<1>1. Signalling' \in SUBSET Threads /\ Awake' \in SUBSET Threads
  BY DEF Signalling, Awake, Threads
<1>2. IsFiniteSet(Signalling') /\ IsFiniteSet(Awake')
  BY <1>1, FS_Subset, FiniteAssumption
<1> QED
  BY <1>2, FS_CardinalityType

(* A step that leaves the queue alone and takes nobody out of the two sets  *)
(* keeps WorkConserving, unless it puts the first thread to sleep.          *)
LEMMA QuietStep ==
  ASSUME TypeOK, WorkConserving, mq_task' = mq_task,
         Signalling \subseteq Signalling', Awake \subseteq Awake',
         m_mutex_lock' # Destroyed => m_mutex_lock # Destroyed,
         m_cond_lock' # {} => m_cond_lock # {}
  PROVE  WorkConserving'
<1>1. /\ Cardinality(Signalling) <= Cardinality(Signalling')
      /\ Cardinality(Awake) <= Cardinality(Awake')
  BY CountsAfter, FS_Subset
<1>2. Len(mq_task') = Len(mq_task) /\ Len(mq_task) \in Nat
  BY DEF TypeOK
<1> QED
  BY <1>1, <1>2, Counts, CountsAfter DEF WorkConserving

(* Every step keeps enough signals and awake workers for the queued tasks.  *)
LEMMA WorkConservingStep ==
  TypeOK /\ NoEarlyClient /\ QueueGuarded /\ WaitSet /\ WaitsOnEmpty
    /\ WorkConserving /\ [Next]_vars => WorkConserving'
<1> SUFFICES ASSUME TypeOK, NoEarlyClient, QueueGuarded, WaitSet, WaitsOnEmpty,
                    WorkConserving, [Next]_vars
             PROVE  WorkConserving'
  OBVIOUS
<1> USE ThreadAssumption
<1> DEFINE Quiet == /\ mq_task' = mq_task
                    /\ Signalling \subseteq Signalling'
                    /\ Awake \subseteq Awake'
                    /\ m_mutex_lock' # Destroyed => m_mutex_lock # Destroyed
                    /\ m_cond_lock' # {} => m_cond_lock # {}
<1>q. Quiet => WorkConserving'
  BY QuietStep
<1>e. mq_task' = <<>> => WorkConserving'
  <2>1. Len(<<>>) = 0
    OBVIOUS
  <2> QED
    BY <2>1, CountsAfter DEF WorkConserving
<1>s. m_cond_lock' = {} \/ m_mutex_lock' = Destroyed => WorkConserving'
  BY DEF WorkConserving
<1> USE DEF TypeOK, Signalling, Awake, Threads, AddPC, WorkerPC, ClientPC
<1> HIDE DEF Quiet
<1>1. CASE StartSucceeds
  <2>1. Quiet
    BY <1>1 DEF Quiet, StartSucceeds, NoEarlyClient
  <2> QED
    BY <2>1, <1>q
<1>2. CASE StartFails
  <2>1. Quiet
    BY <1>2 DEF Quiet, StartFails
  <2> QED
    BY <2>1, <1>q
<1>3. CASE SetShutdown
  <2>1. Quiet
    BY <1>3 DEF Quiet, SetShutdown
  <2> QED
    BY <2>1, <1>q
<1>4. CASE DestroyMutex
  <2>1. Quiet
    BY <1>4 DEF Quiet, DestroyMutex
  <2> QED
    BY <2>1, <1>q
<1>5. CASE Broadcast
  BY <1>5, <1>s DEF Broadcast
<1>6. CASE DestroyCond
  BY <1>6, <1>e DEF DestroyCond
<1>7. ASSUME NEW w \in Workers, CreateThread(w) PROVE WorkConserving'
  <2>1. Quiet
    BY <1>7 DEF Quiet, CreateThread, Transition
  <2> QED
    BY <2>1, <1>q
<1>8. ASSUME NEW w \in Workers, Unlock(w) PROVE WorkConserving'
  <2>1. Quiet
    BY <1>8 DEF Quiet, Unlock, Transition, QueueGuarded, Critical
  <2> QED
    BY <2>1, <1>q
<1>9. ASSUME NEW w \in Workers, SpuriousWakeup(w) PROVE WorkConserving'
  <2>1. Quiet
    BY <1>9 DEF Quiet, SpuriousWakeup, Transition, WaitSet
  <2> QED
    BY <2>1, <1>q
<1>10. ASSUME NEW w \in Workers, RunReturns(w) PROVE WorkConserving'
  <2>1. Quiet
    BY <1>10 DEF Quiet, RunReturns, Transition
  <2> QED
    BY <2>1, <1>q
<1>11. ASSUME NEW w \in Workers, RunThrows(w) PROVE WorkConserving'
  <2>1. Quiet
    BY <1>11 DEF Quiet, RunThrows, Transition
  <2> QED
    BY <2>1, <1>q
<1>12. ASSUME NEW w \in Workers, Lock(w) PROVE WorkConserving'
  <2>1. m_mutex_lock' = Destroyed \/ Quiet
    BY <1>12 DEF Quiet, Lock, MutexLock, Transition
  <2> QED
    BY <2>1, <1>q, <1>s
<1>13. ASSUME NEW w \in Workers, Relock(w) PROVE WorkConserving'
  <2>1. m_mutex_lock' = Destroyed \/ Quiet
    BY <1>13 DEF Quiet, Relock, MutexLock, Transition
  <2> QED
    BY <2>1, <1>q, <1>s
<1>14. ASSUME NEW t \in Threads, AddLock(t) PROVE WorkConserving'
  <2>1. m_mutex_lock' = Destroyed \/ Quiet
    BY <1>14 DEF Quiet, AddLock, MutexLock, Transition
  <2> QED
    BY <2>1, <1>q, <1>s
<1>15. ASSUME NEW w \in Workers, ExitOnShutdown(w) PROVE WorkConserving'
  BY <1>15, <1>e DEF ExitOnShutdown
<1>16. ASSUME NEW w \in Workers, DecideToWait(w) PROVE WorkConserving'
  BY <1>16, <1>e DEF DecideToWait
<1>17. ASSUME NEW w \in Workers, CondWait(w) PROVE WorkConserving'
  BY <1>17, <1>e DEF CondWait, Transition, WaitsOnEmpty
<1>18. ASSUME NEW t \in Threads, AddUnlock(t) PROVE WorkConserving'
  <2>1. Quiet
    BY <1>18 DEF Quiet, AddUnlock, Transition, QueueGuarded, Critical
  <2> QED
    BY <2>1, <1>q
<1>19. ASSUME NEW t \in Threads, NEW k \in Tasks, AddTask(t, k)
      PROVE  WorkConserving'
  <2>1. Quiet
    BY <1>19 DEF Quiet, AddTask, AfterAdd, Transition
  <2> QED
    BY <2>1, <1>q
<1>20. ASSUME NEW w \in Workers, Pop(w) PROVE WorkConserving'
  <2>1. /\ w \in Awake /\ Awake' = Awake \ {w}
        /\ Signalling' = Signalling
    BY <1>20 DEF Pop, Transition
  <2>2. Len(mq_task') = Len(mq_task) - 1 /\ Len(mq_task) \in Nat
    BY <1>20 DEF Pop
  <2> HIDE DEF Signalling, Awake
  <2>3. Cardinality(Awake') = Cardinality(Awake) - 1
    BY <2>1, Counts, FS_RemoveElement
  <2>4. m_mutex_lock' = m_mutex_lock /\ m_cond_lock' = m_cond_lock
    BY <1>20 DEF Pop
  <2> QED
    BY <2>1, <2>2, <2>3, <2>4, Counts DEF WorkConserving
<1>21. ASSUME NEW t \in Threads, AddPush(t) PROVE WorkConserving'
  <2>1. /\ t \notin Signalling /\ Signalling' = Signalling \cup {t}
        /\ Awake' = Awake
    BY <1>21 DEF AddPush, Transition
  <2>2. Len(mq_task') = Len(mq_task) + 1 /\ Len(mq_task) \in Nat
    BY <1>21 DEF AddPush
  <2> HIDE DEF Signalling, Awake
  <2>3. Cardinality(Signalling') = Cardinality(Signalling) + 1
    BY <2>1, Counts, FS_AddElement
  <2>4. m_mutex_lock' = m_mutex_lock /\ m_cond_lock' = m_cond_lock
    BY <1>21 DEF AddPush
  <2> QED
    BY <2>1, <2>2, <2>3, <2>4, Counts DEF WorkConserving
<1>22. ASSUME NEW t \in Threads, AddSignal(t) PROVE WorkConserving'
  <2>1. CASE m_cond_lock = {}
    BY <1>22, <2>1, <1>s DEF AddSignal
  <2>2. CASE m_cond_lock # {}
    <3>1. PICK w \in m_cond_lock :
            /\ pc' = [pc EXCEPT ![t] = AfterAdd(t), ![w] = "relock"]
            /\ pc[t] = "add_signal"
      BY <1>22, <2>2 DEF AddSignal
    <3>2. w \in Workers /\ pc[w] = "waiting"
      BY <3>1 DEF WaitSet
    <3>3. /\ t \in Signalling /\ Signalling' = Signalling \ {t}
          /\ w \notin Awake /\ Awake' = Awake \cup {w}
      BY <3>1, <3>2 DEF AfterAdd
    <3> HIDE DEF Signalling, Awake
    <3>4. /\ Cardinality(Signalling') = Cardinality(Signalling) - 1
          /\ Cardinality(Awake') = Cardinality(Awake) + 1
      BY <3>3, Counts, FS_AddElement, FS_RemoveElement
    <3>5. mq_task' = mq_task /\ m_mutex_lock' = m_mutex_lock
      BY <1>22 DEF AddSignal
    <3>6. Len(mq_task) \in Nat
      OBVIOUS
    <3> QED
      BY <2>2, <3>4, <3>5, <3>6, Counts DEF WorkConserving
  <2> QED
    BY <2>1, <2>2
<1>23. CASE UNCHANGED vars
  BY <1>23 DEF vars, WorkConserving
<1> QED
  BY <1>1, <1>2, <1>3, <1>4, <1>5, <1>6, <1>7, <1>8, <1>9, <1>10, <1>11,
     <1>12, <1>13, <1>14, <1>15, <1>16, <1>17, <1>18, <1>19, <1>20, <1>21,
     <1>22, <1>23 DEF Next, WorkerStep, AddStep

-----------------------------------------------------------------------------
LEMMA InitInvariant == Init => IInv
<1> SUFFICES ASSUME Init PROVE IInv
  OBVIOUS
<1> USE ThreadAssumption, TaskAssumption DEF Init, Threads
<1>1. TypeOK
  <2>1. mq_task \in Seq(Tasks)
    OBVIOUS
  <2>2. "unborn" \in WorkerPC /\ "unborn" \in ClientPC
    BY DEF WorkerPC, ClientPC
  <2>3. "fresh" \in Fate /\ main_pc \in MainPC
    BY DEF Fate, MainPC
  <2> QED
    BY <2>1, <2>2, <2>3 DEF TypeOK
<1>2. NoEarlyClient /\ QueueGuarded /\ WaitSet /\ WaitsOnEmpty
  BY DEF NoEarlyClient, QueueGuarded, Critical, WaitSet, WaitsOnEmpty
<1>3. WorkerHolds /\ ArgHolds
  BY DEF WorkerHolds, HoldPC, ArgHolds
<1>4. SoleOwner
  BY DEF SoleOwner, InQueue, Passed, Popped
<1>5. WorkConserving
  BY DEF WorkConserving
<1> QED
  BY <1>1, <1>2, <1>3, <1>4, <1>5 DEF IInv

LEMMA NextInvariant == IInv /\ [Next]_vars => IInv'
BY TypeStep, NoEarlyClientStep, GuardStep, WaitSetStep, WaitsOnEmptyStep,
   WorkerHoldsStep, ArgHoldsStep, SoleOwnerStep, WorkConservingStep DEF IInv

(* IInv holds in every reachable state.                                     *)
THEOREM Invariance == Spec => []IInv
BY InitInvariant, NextInvariant, PTL DEF Spec

(* The state keeps its shape: in particular the queue (mq_task) holds only  *)
(* task objects, never an empty unique_ptr that entry() would dereference.  *)
THEOREM TypeCorrect == Spec => []TypeOK
<1>1. IInv => TypeOK
  BY DEF IInv
<1> QED
  BY <1>1, Invariance, PTL

(* Mutual exclusion: only the owner of m_mutex_lock is in the statements of *)
(* entry() and add_task() that use mq_task, and nobody owns it elsewhere.   *)
THEOREM MutualExclusion == Spec => []QueueGuarded
<1>1. IInv => QueueGuarded
  BY DEF IInv
<1> QED
  BY <1>1, Invariance, PTL

(* A task handed to add_task has one owner until its run is over: it is not *)
(* queued twice, run twice, or lost between add_task() and entry().         *)
THEOREM Ownership == Spec => []SoleOwner
<1>1. IInv => SoleOwner
  BY DEF IInv
<1> QED
  BY <1>1, Invariance, PTL

(* No lost wakeup: add_task's signal after the unlock, entry()'s while loop *)
(* and the wait together never leave a task queued behind a running one     *)
(* while a worker sleeps with nobody on the way to wake it.                 *)
THEOREM NoLostWakeup == Spec => []WorkConserving
<1>1. IInv => WorkConserving
  BY DEF IInv
<1> QED
  BY <1>1, Invariance, PTL

-----------------------------------------------------------------------------
(* The values of the refinement mapping.                                    *)
Running == {ptask[w] : w \in Workers} \ {NoTask}
Ended == {k \in Tasks : heap[k] \in {"released", "deleted"}}

(* A worker that holds no task leaves room for one more running task.       *)
LEMMA RoomForOne ==
  ASSUME NEW w \in Workers, ptask[w] = NoTask
  PROVE  Cardinality(Running) < Cardinality(Workers)
<1> DEFINE Busy == {v \in Workers : ptask[v] # NoTask}
           f == [v \in Busy |-> ptask[v]]
<1>1. IsFiniteSet(Workers)
  BY FiniteAssumption, FS_Subset DEF Threads
<1>2. /\ IsFiniteSet(Workers \ {w})
      /\ Cardinality(Workers \ {w}) = Cardinality(Workers) - 1
      /\ Cardinality(Workers) \in Nat
  BY <1>1, FS_RemoveElement, FS_CardinalityType
<1>3. Busy \in SUBSET (Workers \ {w})
  OBVIOUS
<1>4. /\ IsFiniteSet(Busy) /\ Cardinality(Busy) \in Nat
      /\ Cardinality(Busy) <= Cardinality(Workers \ {w})
  BY <1>2, <1>3, FS_Subset, FS_CardinalityType
<1>5. f \in Surjection(Busy, Running)
  BY DEF Surjection, Running
<1>6. IsFiniteSet(Running) /\ Cardinality(Running) <= Cardinality(Busy)
  BY <1>4, <1>5, FS_Surjection
<1>7. Cardinality(Running) \in Nat
  BY <1>6, FS_CardinalityType
<1> QED
  BY <1>2, <1>4, <1>6, <1>7

(* Both modules count with the same operator.                               *)
LEMMA SameCardinality == \A S : Abstract!Cardinality(S) = Cardinality(S)
BY Zenon DEF Abstract!Cardinality, Cardinality

(* Every step of the pool is a step of TaskPool or leaves what TaskPool     *)
(* talks about unchanged.                                                   *)
LEMMA StepRefines == IInv /\ [Next]_vars => [Abstract!Next]_(Abstract!vars)
<1> SUFFICES ASSUME IInv, [Next]_vars
             PROVE  [Abstract!Next]_(Abstract!vars)
  OBVIOUS
<1> USE ThreadAssumption, TaskAssumption DEF IInv
<1> DEFINE Same == mq_task' = mq_task /\ Running' = Running /\ Ended' = Ended
<1>a. Same => [Abstract!Next]_(Abstract!vars)
  BY DEF Abstract!vars, Running, Ended
<1>b. UNCHANGED <<mq_task, ptask, heap>> => Same
  BY DEF Running, Ended
<1> HIDE DEF Same
<1>1. CASE StartSucceeds
  BY <1>1, <1>a, <1>b DEF StartSucceeds
<1>2. CASE StartFails
  BY <1>2, <1>a, <1>b DEF StartFails
<1>3. CASE SetShutdown
  BY <1>3, <1>a, <1>b DEF SetShutdown
<1>4. CASE Broadcast
  BY <1>4, <1>a, <1>b DEF Broadcast
<1>5. CASE DestroyMutex
  BY <1>5, <1>a, <1>b DEF DestroyMutex
<1>6. ASSUME NEW w \in Workers, CreateThread(w) PROVE [Abstract!Next]_(Abstract!vars)
  BY <1>6, <1>a, <1>b DEF CreateThread
<1>7. ASSUME NEW w \in Workers, Lock(w) PROVE [Abstract!Next]_(Abstract!vars)
  BY <1>7, <1>a, <1>b DEF Lock
<1>8. ASSUME NEW w \in Workers, ExitOnShutdown(w) PROVE [Abstract!Next]_(Abstract!vars)
  BY <1>8, <1>a, <1>b DEF ExitOnShutdown
<1>9. ASSUME NEW w \in Workers, DecideToWait(w) PROVE [Abstract!Next]_(Abstract!vars)
  BY <1>9, <1>a, <1>b DEF DecideToWait
<1>10. ASSUME NEW w \in Workers, CondWait(w) PROVE [Abstract!Next]_(Abstract!vars)
  BY <1>10, <1>a, <1>b DEF CondWait
<1>11. ASSUME NEW w \in Workers, SpuriousWakeup(w) PROVE [Abstract!Next]_(Abstract!vars)
  BY <1>11, <1>a, <1>b DEF SpuriousWakeup
<1>12. ASSUME NEW w \in Workers, Relock(w) PROVE [Abstract!Next]_(Abstract!vars)
  BY <1>12, <1>a, <1>b DEF Relock
<1>13. ASSUME NEW w \in Workers, Unlock(w) PROVE [Abstract!Next]_(Abstract!vars)
  BY <1>13, <1>a, <1>b DEF Unlock
<1>14. ASSUME NEW t \in Threads, AddLock(t) PROVE [Abstract!Next]_(Abstract!vars)
  BY <1>14, <1>a, <1>b DEF AddLock
<1>15. ASSUME NEW t \in Threads, AddUnlock(t) PROVE [Abstract!Next]_(Abstract!vars)
  BY <1>15, <1>a, <1>b DEF AddUnlock
<1>16. ASSUME NEW t \in Threads, AddSignal(t) PROVE [Abstract!Next]_(Abstract!vars)
  BY <1>16, <1>a, <1>b DEF AddSignal
<1>17. ASSUME NEW t \in Threads, NEW k \in Tasks, AddTask(t, k)
      PROVE  [Abstract!Next]_(Abstract!vars)
  <2>1. mq_task' = mq_task /\ ptask' = ptask
    BY <1>17 DEF AddTask
  <2>2. heap[k] = "fresh" /\ heap' = [heap EXCEPT ![k] = "owned"]
    BY <1>17 DEF AddTask
  <2>3. Running' = Running
    BY <2>1 DEF Running
  <2>4. Ended' = Ended
    BY <2>2 DEF Ended, TypeOK
  <2> QED
    BY <2>1, <2>3, <2>4, <1>a DEF Same
<1>18. ASSUME NEW t \in Threads, AddPush(t) PROVE [Abstract!Next]_(Abstract!vars)
  <2> DEFINE k == arg[t]
  <2>1. k \in Tasks /\ mq_task' = Append(mq_task, k)
    BY <1>18 DEF AddPush, Transition, TypeOK, ArgHolds
  <2>2. Running' = Running /\ Ended' = Ended
    BY <1>18 DEF AddPush, Running, Ended
  <2>3. ~ InQueue(k) /\ ~ Popped(k) /\ heap[k] = "owned"
    BY <2>1 DEF SoleOwner, Passed, Popped, InQueue
  <2>4. k \notin Abstract!InUse
    BY <2>3 DEF Abstract!InUse, InQueue, Popped
  <2>5. Abstract!Accept(k)
    BY <2>1, <2>2, <2>4 DEF Abstract!Accept, Running, Ended
  <2> QED
    BY <2>1, <2>5 DEF Abstract!Next
<1>19. ASSUME NEW w \in Workers, Pop(w) PROVE [Abstract!Next]_(Abstract!vars)
  <2> DEFINE k == Head(mq_task)
  <2>1. /\ mq_task # <<>> /\ mq_task' = Tail(mq_task)
        /\ ptask' = [ptask EXCEPT ![w] = k] /\ heap' = heap
        /\ ptask[w] = NoTask
    BY <1>19 DEF Pop, Transition, WorkerHolds, HoldPC
  <2>2. k \in Tasks /\ InQueue(k)
    <3>1. 1 \in DOMAIN mq_task /\ k = mq_task[1]
      BY <2>1 DEF TypeOK
    <3> QED
      BY <3>1 DEF InQueue, TypeOK
  <2>3. k \notin Running
    BY <2>2 DEF SoleOwner, Popped, Running
  <2>4. Running' = Running \cup {k} /\ Ended' = Ended
    BY <2>1, <2>2 DEF Running, Ended, TypeOK
  <2>5. Cardinality(Running) < Cardinality(Workers)
    BY <2>1, RoomForOne
  <2>6. Abstract!Begin
    <3>1. Cardinality({ptask[v] : v \in Workers} \ {NoTask}) < Cardinality(Workers)
      BY <2>5, Zenon DEF Running
    <3>2. Head(mq_task) \notin {ptask[v] : v \in Workers} \ {NoTask}
      BY <2>3, Zenon DEF Running
    <3>3. ({ptask[v] : v \in Workers} \ {NoTask})'
            = ({ptask[v] : v \in Workers} \ {NoTask}) \cup {Head(mq_task)}
      BY <2>4, Zenon DEF Running
    <3>4. UNCHANGED {j \in Tasks : heap[j] \in {"released", "deleted"}}
      BY <2>4, Zenon DEF Ended
    <3> QED
      BY <2>1, <3>1, <3>2, <3>3, <3>4, SameCardinality, Zenon DEF Abstract!Begin
  <2> QED
    BY <2>6 DEF Abstract!Next
<1>20. ASSUME NEW w \in Workers, RunReturns(w) PROVE [Abstract!Next]_(Abstract!vars)
  <2>k. PICK k : k = ptask[w]
    OBVIOUS
  <2>1. /\ mq_task' = mq_task /\ heap' = [heap EXCEPT ![k] = "released"]
        /\ ptask' = [ptask EXCEPT ![w] = NoTask]
        /\ k # NoTask
    BY <1>20, <2>k DEF RunReturns, Transition, WorkerHolds, HoldPC
  <2>2. k \in Tasks /\ heap[k] = "owned"
    BY <2>k, <2>1 DEF TypeOK, SoleOwner, Popped
  <2>3. \A v \in Workers : ptask[v] = k => v = w
    BY <2>k, <2>1 DEF SoleOwner
  <2>4. k \in Running /\ k \notin Ended
    BY <2>k, <2>1, <2>2 DEF Running, Ended
  <2>5. Running' = Running \ {k}
    BY <2>k, <2>1, <2>3 DEF Running, TypeOK
  <2>6. Ended' = Ended \cup {k}
    BY <2>k, <2>1, <2>2 DEF Ended, TypeOK
  <2>7. Abstract!End(k)
    BY <2>1, <2>4, <2>5, <2>6 DEF Abstract!End, Running, Ended
  <2> QED
    BY <2>2, <2>7, Zenon DEF Abstract!Next
<1>21. ASSUME NEW w \in Workers, RunThrows(w) PROVE [Abstract!Next]_(Abstract!vars)
  <2>k. PICK k : k = ptask[w]
    OBVIOUS
  <2>1. /\ mq_task' = mq_task /\ heap' = [heap EXCEPT ![k] = "deleted"]
        /\ ptask' = [ptask EXCEPT ![w] = NoTask]
        /\ k # NoTask
    BY <1>21, <2>k DEF RunThrows, Transition, WorkerHolds, HoldPC
  <2>2. k \in Tasks /\ heap[k] = "owned"
    BY <2>k, <2>1 DEF TypeOK, SoleOwner, Popped
  <2>3. \A v \in Workers : ptask[v] = k => v = w
    BY <2>k, <2>1 DEF SoleOwner
  <2>4. k \in Running /\ k \notin Ended
    BY <2>k, <2>1, <2>2 DEF Running, Ended
  <2>5. Running' = Running \ {k}
    BY <2>k, <2>1, <2>3 DEF Running, TypeOK
  <2>6. Ended' = Ended \cup {k}
    BY <2>k, <2>1, <2>2 DEF Ended, TypeOK
  <2>7. Abstract!End(k)
    BY <2>1, <2>4, <2>5, <2>6 DEF Abstract!End, Running, Ended
  <2> QED
    BY <2>2, <2>7, Zenon DEF Abstract!Next
<1>22. CASE DestroyCond
  <2>1. mq_task' = <<>> /\ ptask' = ptask
    BY <1>22 DEF DestroyCond
  <2>2. Running' = Running
    BY <2>1 DEF Running
  <2>3. Ended' = Ended \cup {mq_task[i] : i \in DOMAIN mq_task}
    <3>1. \A k \in Tasks : heap'[k] = IF InQueue(k) THEN "deleted" ELSE heap[k]
      BY <1>22 DEF DestroyCond
    <3>2. \A k : InQueue(k) => k \in Tasks
      BY DEF InQueue, TypeOK
    <3> QED
      BY <3>1, <3>2 DEF Ended, InQueue
  <2>4. CASE mq_task = <<>>
    BY <2>1, <2>2, <2>3, <2>4, <1>a DEF Same
  <2>5. CASE mq_task # <<>>
    <3>1. Abstract!Discard
      BY <2>1, <2>2, <2>3, <2>5 DEF Abstract!Discard, Running, Ended
    <3> QED
      BY <3>1 DEF Abstract!Next
  <2> QED
    BY <2>4, <2>5
<1>23. CASE UNCHANGED vars
  BY <1>23, <1>a, <1>b DEF vars
<1> QED
  BY <1>1, <1>2, <1>3, <1>4, <1>5, <1>6, <1>7, <1>8, <1>9, <1>10, <1>11,
     <1>12, <1>13, <1>14, <1>15, <1>16, <1>17, <1>18, <1>19, <1>20, <1>21,
     <1>22, <1>23 DEF Next, WorkerStep, AddStep

LEMMA InitRefines == Init => Abstract!Init
BY TaskAssumption DEF Init, Abstract!Init

(* The pool implements TaskPool: tasks start in the order of their pushes,  *)
(* each at most once, never more at a time than there are workers, and each *)
(* ends at most once, whatever the interleaving of entry() and add_task().  *)
THEOREM Refinement == Spec => ImplementsTaskPool
<1>1. Spec => [][Abstract!Next]_(Abstract!vars)
  BY Invariance, StepRefines, PTL DEF Spec
<1>2. Spec => Abstract!Init
  BY InitRefines DEF Spec
<1> QED
  BY <1>1, <1>2 DEF ImplementsTaskPool, Abstract!Spec
=============================================================================
