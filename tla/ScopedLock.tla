----------------------------- MODULE ScopedLock ------------------------------
(***************************************************************************)
(* The guards of lock.h: rui::rwlock and rui::mutex lock in the constructor *)
(* and unlock in the destructor.  A thread may nest guards on the same      *)
(* lock: the constructor of rwlock notes whether it got the lock, and says  *)
(* so to nobody but its own destructor.                                     *)
(*                                                                          *)
(* The locks are those of the C library.  It counts the read locks; here    *)
(* each is named after the guard that took it.  It refuses a thread that    *)
(* holds the write lock and a reader too many; a read lock held by the      *)
(* thread itself makes pthread_rwlock_wrlock() wait like any other, and a   *)
(* mutex waits for itself.                                                  *)
(***************************************************************************)
EXTENDS Naturals, FiniteSets

CONSTANTS
  Owners,
  NoOwner,
  MaxDepth,      \* bound: how deep a thread nests its guards
  MaxReaders     \* the limit of read locks

ASSUME ScopedLockAssumption ==
  /\ NoOwner \notin Owners
  /\ MaxDepth \in Nat /\ MaxReaders \in Nat

VARIABLES
  depth,       \* thread -> how many guards it has in scope
  guard,       \* thread, d -> what its d-th guard got: "read", "write",
               \* "mutex", or "refused" (success = false)
  readers,     \* the read locks: the <<thread, d>> that took them
  writer,      \* the thread with the write lock
  locker       \* the thread with the mutex

lockVars == <<depth, guard, readers, writer, locker>>

LockInit ==
  /\ depth = [t \in Owners |-> 0]
  /\ guard = [t \in Owners |-> [d \in 1..MaxDepth |-> "none"]]
  /\ readers = {}
  /\ writer = NoOwner
  /\ locker = NoOwner

Enters(t, got) ==
  /\ depth[t] < MaxDepth
  /\ depth' = [depth EXCEPT ![t] = @ + 1]
  /\ guard' = [guard EXCEPT ![t][depth[t] + 1] = got]

(* rwlock( lock, READ )                                                     *)
ReadGuard(t) ==
  /\ writer = NoOwner /\ Cardinality(readers) < MaxReaders
  /\ Enters(t, "read")
  /\ readers' = readers \cup {<<t, depth[t] + 1>>}
  /\ UNCHANGED <<writer, locker>>

(* rwlock( lock, WRITE )                                                    *)
WriteGuard(t) ==
  /\ writer = NoOwner /\ readers = {}
  /\ Enters(t, "write")
  /\ writer' = t
  /\ UNCHANGED <<readers, locker>>

(* EDEADLK for the writer, EAGAIN for a reader too many.                    *)
Refused(t) ==
  /\ \/ writer = t
     \/ writer = NoOwner /\ Cardinality(readers) >= MaxReaders
  /\ Enters(t, "refused")
  /\ UNCHANGED <<readers, writer, locker>>

(* mutex( lock )                                                            *)
MutexGuard(t) ==
  /\ locker = NoOwner
  /\ Enters(t, "mutex")
  /\ locker' = t
  /\ UNCHANGED <<readers, writer>>

(* pthread_rwlock_unlock(): the caller's write lock or one read lock.       *)
Unlock(t) ==
  IF writer = t
  THEN writer' = NoOwner /\ UNCHANGED readers
  ELSE readers' = readers \ {<<t, depth[t]>>} /\ UNCHANGED writer

Top(t) == guard[t][depth[t]]

Leaves(t) ==
  /\ depth[t] > 0
  /\ depth' = [depth EXCEPT ![t] = @ - 1]
  /\ guard' = [guard EXCEPT ![t][depth[t]] = "none"]

(* Mutant: ~rwlock() unlocks whether it got the lock or not.                *)
DestroyAlways(t) ==
  /\ Leaves(t)
  /\ IF Top(t) = "mutex"
     THEN locker' = NoOwner /\ UNCHANGED <<readers, writer>>
     ELSE Unlock(t) /\ UNCHANGED locker

(* The guard declared last goes out of scope.                               *)
Destroy(t) ==
  /\ Leaves(t)
  /\ \/ Top(t) \in {"read", "write"} /\ Unlock(t) /\ UNCHANGED locker
     \/ Top(t) = "mutex" /\ locker' = NoOwner /\ UNCHANGED <<readers, writer>>
     \/ Top(t) = "refused" /\ UNCHANGED <<readers, writer, locker>>

LockNext ==
  \E t \in Owners :
    \/ ReadGuard(t) \/ WriteGuard(t) \/ Refused(t) \/ MutexGuard(t) \/ Destroy(t)

LockSpec == LockInit /\ [][LockNext]_lockVars

-----------------------------------------------------------------------------
LockTypeOK ==
  /\ depth \in [Owners -> 0..MaxDepth]
  /\ guard \in [Owners -> [1..MaxDepth -> {"none", "read", "write", "mutex", "refused"}]]
  /\ readers \in SUBSET (Owners \X (1..MaxDepth))
  /\ writer \in Owners \cup {NoOwner}
  /\ locker \in Owners \cup {NoOwner}

(* A thread has a guard in scope that got this lock.                        *)
Has(t, got) == \E d \in 1..MaxDepth : guard[t][d] = got

(* However the threads nest their guards, and also after an inner guard was *)
(* refused and destroyed: while a write guard is in scope no other thread   *)
(* has a guard that got the lock, and one thread at most has the mutex.     *)
GuardsExclude ==
  \A t, u \in Owners : t # u =>
    /\ Has(t, "write") => ~ Has(u, "write") /\ ~ Has(u, "read")
    /\ ~ (Has(t, "mutex") /\ Has(u, "mutex"))
=============================================================================
