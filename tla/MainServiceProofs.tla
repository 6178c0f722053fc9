-------------------------- MODULE MainServiceProofs --------------------------
(***************************************************************************)
(* What TLAPS proves of MainService, for any number of workers,            *)
(* descriptors and connections: the shape of the state; that whatever epoll *)
(* reports has its task in mm_task; and, as long as no two threads are in  *)
(* one task object, that frames stay whole, that clear() closes its own    *)
(* connection, that no connection is orphaned, no news is stranded and no  *)
(* client's request dropped while it is there; and so that the server is a *)
(* FrameService.                                                           *)
(***************************************************************************)
EXTENDS MainService, SequenceTheorems, TLAPS

(* The parts of TypeOK, and what it takes to preserve them: nothing is read *)
(* that was not sent, and a thread inside a task object has a descriptor.   *)
KernelType ==
  /\ stage \in [Conns -> {"new", "backlog", "open", "closed"}]
  /\ sent \in [Conns -> 0..MaxUnits]
  /\ got \in [Conns -> 0..MaxUnits]
  /\ \A c \in Conns : got[c] <= sent[c]
  /\ fin \in [Conns -> BOOLEAN]
  /\ rst \in [Conns -> BOOLEAN]
  /\ file \in [Fds -> Conns \cup {NoConn}]
  /\ ready \subseteq interest
  /\ interest \subseteq {f \in Fds : file[f] # NoConn}

ObjectType ==
  /\ mm_task \subseteq Fds
  /\ mi_fd \in [Fds -> Fds \cup {NoFd}]
  /\ \A f \in Fds : mi_fd[f] \in {f, NoFd}
  /\ mb_closed \in [Fds -> BOOLEAN]
  /\ mv_data \in [Fds -> Seq(Units)]
  /\ idle \in [Fds -> BOOLEAN]

DataType ==
  /\ batch \subseteq [fd : Fds, err : BOOLEAN]
  /\ queue \in Seq([kind : Kinds, fd : Fds, frame : Seq(Units)])
  /\ buf \in [Threads -> Seq(Units)]

Working == {"insert", "extract", "parse"} \cup Initialising \cup Reading \cup TearDown

ThreadType ==
  /\ pc \in [Threads -> WorkerPC \cup AcceptorPC \cup WaiterPC \cup CleanerPC]
  /\ \A w \in Workers : pc[w] \in WorkerPC
  /\ pc[Acceptor] \in AcceptorPC
  /\ pc[Waiter] \in WaiterPC
  /\ pc[Cleaner] \in CleanerPC
  /\ job \in [Threads -> Fds \cup {NoFd}]
  /\ \A t \in Threads : pc[t] \in Working => job[t] \in Fds

TInv == KernelType /\ ObjectType /\ DataType /\ ThreadType

-----------------------------------------------------------------------------

(* The kernel's side: a descriptor with epoll interest is open, and what has
   been read was sent. *)
LEMMA KernelStep ==
  ASSUME TInv, [Next]_vars
  PROVE  KernelType'
<1> USE NameAssumption, BoundAssumption DEF TInv, KernelType
<1>0. UNCHANGED kernel => KernelType'
  BY DEF KernelType, kernel
<1>1. ASSUME NEW c \in Conns, Connect(c) PROVE KernelType'
  BY <1>1 DEF Connect, ClientUnchanged
<1>2. ASSUME NEW c \in Conns, Send(c) PROVE KernelType'
  BY <1>2 DEF Send, ClientUnchanged, Edge, Online
<1>3. ASSUME NEW c \in Conns, ClientCloses(c) PROVE KernelType'
  BY <1>3 DEF ClientCloses, ClientUnchanged, Edge, Online
<1>4. ASSUME NEW c \in Conns, ClientResets(c) PROVE KernelType'
  BY <1>4 DEF ClientResets, ClientUnchanged, Edge, Online
<1>5. ASSUME NEW f \in Fds, GrowsIdle(f) PROVE KernelType'
  BY <1>0, <1>5 DEF GrowsIdle
<1>6. ASSUME NEW c \in Conns, NEW f \in Fds, Accept(c, f) PROVE KernelType'
  BY <1>6 DEF Accept
<1>7. CASE Insert
  BY <1>0, <1>7 DEF Insert
<1>8. CASE InitFd
  BY <1>0, <1>8 DEF InitFd
<1>9. CASE InitRest
  BY <1>0, <1>9 DEF InitRest
<1>10. CASE EventAdd
  BY <1>10 DEF EventAdd, ThreadType, Working, Initialising, Threads, Goto
<1>11. CASE Wait
  BY <1>11 DEF Wait
<1>12. CASE BatchDone
  BY <1>0, <1>12 DEF BatchDone
<1>13. ASSUME NEW e \in batch, DispatchError(e) PROVE KernelType'
  BY <1>0, <1>13 DEF DispatchError
<1>14. ASSUME NEW e \in batch, DispatchRead(e) PROVE KernelType'
  BY <1>0, <1>14 DEF DispatchRead
<1>15. ASSUME NEW f \in Fds, Expire(f) PROVE KernelType'
  BY <1>0, <1>15 DEF Expire
<1>16. ASSUME NEW w \in Workers, Begin(w) PROVE KernelType'
  BY <1>0, <1>16 DEF Begin
<1>17. ASSUME NEW w \in Workers, CheckClosed(w) PROVE KernelType'
  BY <1>0, <1>17 DEF CheckClosed
<1>18. ASSUME NEW w \in Workers, ReadEnds(w) PROVE KernelType'
  BY <1>0, <1>18 DEF ReadEnds
<1>19. ASSUME NEW w \in Workers, ReadAgain(w) PROVE KernelType'
  BY <1>0, <1>19 DEF ReadAgain
<1>20. ASSUME NEW w \in Workers, ReadData(w) PROVE KernelType'
  BY <1>20 DEF ReadData, Streaming
<1>21. ASSUME NEW w \in Workers, AppendData(w) PROVE KernelType'
  BY <1>0, <1>21 DEF AppendData
<1>22. ASSUME NEW w \in Workers, NoFrame(w) PROVE KernelType'
  BY <1>0, <1>22 DEF NoFrame
<1>23. ASSUME NEW w \in Workers, TakeFrame(w) PROVE KernelType'
  BY <1>0, <1>23 DEF TakeFrame
<1>24. ASSUME NEW w \in Workers, ParseSucceeds(w) PROVE KernelType'
  BY <1>0, <1>24 DEF ParseSucceeds
<1>25. ASSUME NEW w \in Workers, ParseQuits(w) PROVE KernelType'
  BY <1>0, <1>25 DEF ParseQuits
<1>26. ASSUME NEW t \in Threads, EventDel(t) PROVE KernelType'
  BY <1>26 DEF EventDel
<1>27. ASSUME NEW t \in Threads, TestFd(t) PROVE KernelType'
  BY <1>0, <1>27 DEF TestFd
<1>28. ASSUME NEW t \in Threads, Close(t) PROVE KernelType'
  <2> DEFINE f == mi_fd[job[t]]
  <2>1. CASE f = NoFd \/ file[f] = NoConn
    BY <1>28, <2>1, <1>0 DEF Close
  <2>2. CASE f # NoFd /\ file[f] # NoConn
    <3>1. f \in Fds /\ file[f] \in Conns
      BY <1>28, <2>2 DEF Close, ObjectType, ThreadType, Working, TearDown, Goto
    <3>2. /\ stage' = [stage EXCEPT ![file[f]] = "closed"]
          /\ file' = [file EXCEPT ![f] = NoConn]
          /\ interest' = interest \ {f} /\ ready' = ready \ {f}
          /\ sent' = [sent EXCEPT ![file[f]] = 0] /\ got' = [got EXCEPT ![file[f]] = 0]
          /\ fin' = [fin EXCEPT ![file[f]] = FALSE]
          /\ rst' = [rst EXCEPT ![file[f]] = FALSE]
      BY <1>28, <2>2 DEF Close
    <3> HIDE DEF f
    <3> QED
      BY <3>1, <3>2
  <2> QED
    BY <2>1, <2>2
<1>29. ASSUME NEW t \in Threads, Unset(t) PROVE KernelType'
  BY <1>0, <1>29 DEF Unset
<1>30. ASSUME NEW t \in Threads, Wipe(t) PROVE KernelType'
  BY <1>0, <1>30 DEF Wipe
<1>31. CASE Crash
  BY <1>0, <1>31 DEF Crash
<1>32. CASE UNCHANGED vars
  BY <1>0, <1>32 DEF vars, system
<1> QED
  BY <1>1, <1>2, <1>3, <1>4, <1>5, <1>6, <1>7, <1>8, <1>9, <1>10, <1>11, <1>12, <1>13, <1>14,
     <1>15, <1>16, <1>17, <1>18, <1>19, <1>20, <1>21, <1>22, <1>23, <1>24, <1>25, <1>26, <1>27, <1>28,
     <1>29, <1>30, <1>31, <1>32
  DEF Next, Step, ClientStep, AcceptorStep, WaiterStep, CleanerStep, WorkerStep, ReadStep,
      TearDownStep, Threads

(* The task objects: each belongs to one descriptor, and holds units only. *)
LEMMA ObjectStep ==
  ASSUME TInv, [Next]_vars
  PROVE  ObjectType'
<1> USE NameAssumption DEF TInv, ObjectType
<1>0. UNCHANGED <<mm_task, object>> => ObjectType'
  BY DEF ObjectType, object
<1>1. ASSUME NEW c \in Conns, Connect(c) PROVE ObjectType'
  BY <1>0, <1>1 DEF Connect, ClientUnchanged
<1>2. ASSUME NEW c \in Conns, Send(c) PROVE ObjectType'
  BY <1>0, <1>2 DEF Send, ClientUnchanged
<1>3. ASSUME NEW c \in Conns, ClientCloses(c) PROVE ObjectType'
  BY <1>0, <1>3 DEF ClientCloses, ClientUnchanged
<1>4. ASSUME NEW c \in Conns, ClientResets(c) PROVE ObjectType'
  BY <1>0, <1>4 DEF ClientResets, ClientUnchanged
<1>5. ASSUME NEW f \in Fds, GrowsIdle(f) PROVE ObjectType'
  BY <1>5 DEF GrowsIdle
<1>6. ASSUME NEW c \in Conns, NEW f \in Fds, Accept(c, f) PROVE ObjectType'
  BY <1>0, <1>6 DEF Accept
<1>7. CASE Insert
  BY <1>7 DEF Insert, ThreadType, Working, Threads, Goto, object
<1>8. CASE InitFd
  BY <1>8 DEF InitFd, ThreadType, Working, Initialising, Threads, Goto
<1>9. CASE InitRest
  <2>1. mv_data' \in [Fds -> Seq(Units)]
    BY <1>9, <<>> \in Seq(Units) DEF InitRest
  <2> QED
    BY <1>9, <2>1 DEF InitRest
<1>10. CASE EventAdd
  BY <1>0, <1>10 DEF EventAdd
<1>11. CASE Wait
  BY <1>0, <1>11 DEF Wait
<1>12. CASE BatchDone
  BY <1>0, <1>12 DEF BatchDone
<1>13. ASSUME NEW e \in batch, DispatchError(e) PROVE ObjectType'
  BY <1>0, <1>13 DEF DispatchError
<1>14. ASSUME NEW e \in batch, DispatchRead(e) PROVE ObjectType'
  BY <1>0, <1>14 DEF DispatchRead
<1>15. ASSUME NEW f \in Fds, Expire(f) PROVE ObjectType'
  BY <1>0, <1>15 DEF Expire
<1>16. ASSUME NEW w \in Workers, Begin(w) PROVE ObjectType'
  BY <1>16 DEF Begin, DataType
<1>17. ASSUME NEW w \in Workers, CheckClosed(w) PROVE ObjectType'
  BY <1>0, <1>17 DEF CheckClosed
<1>18. ASSUME NEW w \in Workers, ReadEnds(w) PROVE ObjectType'
  BY <1>18 DEF ReadEnds
<1>19. ASSUME NEW w \in Workers, ReadAgain(w) PROVE ObjectType'
  BY <1>0, <1>19 DEF ReadAgain
<1>20. ASSUME NEW w \in Workers, ReadData(w) PROVE ObjectType'
  BY <1>0, <1>20 DEF ReadData
<1>21. ASSUME NEW w \in Workers, AppendData(w) PROVE ObjectType'
  <2>1. ASSUME NEW f \in Fds, f = job[w]
        PROVE  mv_data[f] \o buf[w] \in Seq(Units)
    BY ConcatProperties DEF DataType, Threads
  <2>2. mv_data' \in [Fds -> Seq(Units)]
    BY <1>21, <2>1 DEF AppendData
  <2> QED
    BY <1>21, <2>2 DEF AppendData
<1>22. ASSUME NEW w \in Workers, NoFrame(w) PROVE ObjectType'
  BY <1>0, <1>22 DEF NoFrame
<1>23. ASSUME NEW w \in Workers, TakeFrame(w) PROVE ObjectType'
  <2>1. job[w] \in Fds /\ Len(mv_data[job[w]]) >= 2
    BY <1>23 DEF TakeFrame, ThreadType, Working, Threads
  <2>2. SubSeq(mv_data[job[w]], 3, Len(mv_data[job[w]])) \in Seq(Units)
    BY <2>1, SubSeqProperties, LenProperties
  <2>3. mv_data' \in [Fds -> Seq(Units)]
    BY <1>23, <2>1, <2>2 DEF TakeFrame
  <2> QED
    BY <1>23, <2>3 DEF TakeFrame
<1>24. ASSUME NEW w \in Workers, ParseSucceeds(w) PROVE ObjectType'
  BY <1>0, <1>24 DEF ParseSucceeds
<1>25. ASSUME NEW w \in Workers, ParseQuits(w) PROVE ObjectType'
  BY <1>0, <1>25 DEF ParseQuits
<1>26. ASSUME NEW t \in Threads, EventDel(t) PROVE ObjectType'
  BY <1>0, <1>26 DEF EventDel
<1>27. ASSUME NEW t \in Threads, TestFd(t) PROVE ObjectType'
  BY <1>0, <1>27 DEF TestFd
<1>28. ASSUME NEW t \in Threads, Close(t) PROVE ObjectType'
  BY <1>0, <1>28 DEF Close
<1>29. ASSUME NEW t \in Threads, Unset(t) PROVE ObjectType'
  BY <1>29 DEF Unset
<1>30. ASSUME NEW t \in Threads, Wipe(t) PROVE ObjectType'
  <2>1. mv_data' \in [Fds -> Seq(Units)]
    BY <1>30, <<>> \in Seq(Units) DEF Wipe
  <2> QED
    BY <1>30, <2>1 DEF Wipe
<1>31. CASE Crash
  BY <1>0, <1>31 DEF Crash
<1>32. CASE UNCHANGED vars
  BY <1>0, <1>32 DEF vars, system
<1> QED
  BY <1>1, <1>2, <1>3, <1>4, <1>5, <1>6, <1>7, <1>8, <1>9, <1>10, <1>11, <1>12, <1>13, <1>14,
     <1>15, <1>16, <1>17, <1>18, <1>19, <1>20, <1>21, <1>22, <1>23, <1>24, <1>25, <1>26, <1>27, <1>28,
     <1>29, <1>30, <1>31, <1>32
  DEF Next, Step, ClientStep, AcceptorStep, WaiterStep, CleanerStep, WorkerStep, ReadStep,
      TearDownStep, Threads

(* What is on its way between threads: events, queued tasks and buffers. *)
LEMMA DataStep ==
  ASSUME TInv, [Next]_vars
  PROVE  DataType'
<1> USE DEF TInv, DataType
<1>0. UNCHANGED <<batch, queue, buf>> => DataType'
  BY DEF DataType
<1>1. ASSUME NEW c \in Conns, Connect(c) PROVE DataType'
  BY <1>0, <1>1 DEF Connect, ClientUnchanged
<1>2. ASSUME NEW c \in Conns, Send(c) PROVE DataType'
  BY <1>0, <1>2 DEF Send, ClientUnchanged
<1>3. ASSUME NEW c \in Conns, ClientCloses(c) PROVE DataType'
  BY <1>0, <1>3 DEF ClientCloses, ClientUnchanged
<1>4. ASSUME NEW c \in Conns, ClientResets(c) PROVE DataType'
  BY <1>0, <1>4 DEF ClientResets, ClientUnchanged
<1>5. ASSUME NEW f \in Fds, GrowsIdle(f) PROVE DataType'
  BY <1>0, <1>5 DEF GrowsIdle
<1>6. ASSUME NEW c \in Conns, NEW f \in Fds, Accept(c, f) PROVE DataType'
  BY <1>0, <1>6 DEF Accept
<1>7. CASE Insert
  BY <1>0, <1>7 DEF Insert
<1>8. CASE InitFd
  BY <1>0, <1>8 DEF InitFd
<1>9. CASE InitRest
  BY <1>0, <1>9 DEF InitRest
<1>10. CASE EventAdd
  BY <1>0, <1>10 DEF EventAdd
<1>11. CASE Wait
  BY <1>11 DEF Wait, KernelType
<1>12. CASE BatchDone
  BY <1>0, <1>12 DEF BatchDone
<1>13. ASSUME NEW e \in batch, DispatchError(e) PROVE DataType'
  BY <1>13 DEF DispatchError
<1>14. ASSUME NEW e \in batch, DispatchRead(e) PROVE DataType'
  BY <1>14 DEF DispatchRead, Kinds
<1>15. ASSUME NEW f \in Fds, Expire(f) PROVE DataType'
  BY <1>0, <1>15 DEF Expire
<1>16. ASSUME NEW w \in Workers, Begin(w) PROVE DataType'
  <2>1. /\ Head(queue) \in [kind : Kinds, fd : Fds, frame : Seq(Units)]
        /\ Tail(queue) \in Seq([kind : Kinds, fd : Fds, frame : Seq(Units)])
    BY <1>16, HeadTailProperties DEF Begin
  <2>2. buf' \in [Threads -> Seq(Units)]
    BY <1>16, <2>1 DEF Begin
  <2> QED
    BY <1>16, <2>1, <2>2 DEF Begin
<1>17. ASSUME NEW w \in Workers, CheckClosed(w) PROVE DataType'
  BY <1>0, <1>17 DEF CheckClosed
<1>18. ASSUME NEW w \in Workers, ReadEnds(w) PROVE DataType'
  BY <1>0, <1>18 DEF ReadEnds
<1>19. ASSUME NEW w \in Workers, ReadAgain(w) PROVE DataType'
  BY <1>0, <1>19 DEF ReadAgain
<1>20. ASSUME NEW w \in Workers, ReadData(w) PROVE DataType'
  <2> DEFINE c == Peer(w)
  <2>1. PICK n \in 1..(sent[c] - got[c]) :
          buf' = [buf EXCEPT ![w] = [i \in 1..n |-> <<c, got[c] + i>>]]
    BY <1>20 DEF ReadData
  <2>2. c \in Conns /\ sent[c] \in 0..MaxUnits /\ got[c] \in 0..MaxUnits
    BY <1>20 DEF ReadData, Streaming, KernelType
  <2>3. \A i \in 1..n : <<c, got[c] + i>> \in Units
    BY <2>1, <2>2, BoundAssumption DEF Units
  <2>4. [i \in 1..n |-> <<c, got[c] + i>>] \in Seq(Units)
    BY <2>1, <2>2, <2>3, IsASeq, BoundAssumption
  <2> HIDE DEF c
  <2>5. buf' \in [Threads -> Seq(Units)]
    BY <2>1, <2>4
  <2> QED
    BY <1>20, <2>5 DEF ReadData
<1>21. ASSUME NEW w \in Workers, AppendData(w) PROVE DataType'
  <2>1. buf' \in [Threads -> Seq(Units)]
    BY <1>21, <<>> \in Seq(Units) DEF AppendData
  <2> QED
    BY <1>21, <2>1 DEF AppendData
<1>22. ASSUME NEW w \in Workers, NoFrame(w) PROVE DataType'
  <2>1. buf' \in [Threads -> Seq(Units)]
    BY <1>22, <<>> \in Seq(Units) DEF NoFrame, Finish
  <2> QED
    BY <1>22, <2>1 DEF NoFrame
<1>23. ASSUME NEW w \in Workers, TakeFrame(w) PROVE DataType'
  BY <1>23 DEF TakeFrame, ObjectType, ThreadType, Working, Threads, Kinds
<1>24. ASSUME NEW w \in Workers, ParseSucceeds(w) PROVE DataType'
  <2>1. buf' \in [Threads -> Seq(Units)]
    BY <1>24, <<>> \in Seq(Units) DEF ParseSucceeds, Finish
  <2> QED
    BY <1>24, <2>1 DEF ParseSucceeds
<1>25. ASSUME NEW w \in Workers, ParseQuits(w) PROVE DataType'
  BY <1>0, <1>25 DEF ParseQuits
<1>26. ASSUME NEW t \in Threads, EventDel(t) PROVE DataType'
  BY <1>0, <1>26 DEF EventDel
<1>27. ASSUME NEW t \in Threads, TestFd(t) PROVE DataType'
  BY <1>0, <1>27 DEF TestFd
<1>28. ASSUME NEW t \in Threads, Close(t) PROVE DataType'
  BY <1>0, <1>28 DEF Close
<1>29. ASSUME NEW t \in Threads, Unset(t) PROVE DataType'
  BY <1>0, <1>29 DEF Unset
<1>30. ASSUME NEW t \in Threads, Wipe(t) PROVE DataType'
  BY <1>30 DEF Wipe, Finish, Goto
<1>31. CASE Crash
  BY <1>0, <1>31 DEF Crash
<1>32. CASE UNCHANGED vars
  BY <1>0, <1>32 DEF vars, system
<1> QED
  BY <1>1, <1>2, <1>3, <1>4, <1>5, <1>6, <1>7, <1>8, <1>9, <1>10, <1>11, <1>12, <1>13, <1>14,
     <1>15, <1>16, <1>17, <1>18, <1>19, <1>20, <1>21, <1>22, <1>23, <1>24, <1>25, <1>26, <1>27, <1>28,
     <1>29, <1>30, <1>31, <1>32
  DEF Next, Step, ClientStep, AcceptorStep, WaiterStep, CleanerStep, WorkerStep, ReadStep,
      TearDownStep, Threads

(* The threads: each stays in its own code and has a descriptor where it needs one. *)
LEMMA ThreadStep ==
  ASSUME TInv, [Next]_vars
  PROVE  ThreadType'
<1> USE NameAssumption DEF TInv, ThreadType, Threads, Working, WorkerPC, AcceptorPC, WaiterPC, CleanerPC, Initialising, Reading, TearDown
<1>0. UNCHANGED <<pc, job>> => ThreadType'
  BY DEF ThreadType
<1>1. ASSUME NEW c \in Conns, Connect(c) PROVE ThreadType'
  BY <1>0, <1>1 DEF Connect, ClientUnchanged
<1>2. ASSUME NEW c \in Conns, Send(c) PROVE ThreadType'
  BY <1>0, <1>2 DEF Send, ClientUnchanged
<1>3. ASSUME NEW c \in Conns, ClientCloses(c) PROVE ThreadType'
  BY <1>0, <1>3 DEF ClientCloses, ClientUnchanged
<1>4. ASSUME NEW c \in Conns, ClientResets(c) PROVE ThreadType'
  BY <1>0, <1>4 DEF ClientResets, ClientUnchanged
<1>5. ASSUME NEW f \in Fds, GrowsIdle(f) PROVE ThreadType'
  BY <1>0, <1>5 DEF GrowsIdle
<1>6. ASSUME NEW c \in Conns, NEW f \in Fds, Accept(c, f) PROVE ThreadType'
  BY <1>6 DEF Accept, Goto
<1>7. CASE Insert
  BY <1>7 DEF Insert, Goto
<1>8. CASE InitFd
  BY <1>8 DEF InitFd, Goto
<1>9. CASE InitRest
  BY <1>9 DEF InitRest, Goto
<1>10. CASE EventAdd
  BY <1>10 DEF EventAdd, Goto
<1>11. CASE Wait
  BY <1>11 DEF Wait, Goto
<1>12. CASE BatchDone
  BY <1>12 DEF BatchDone, Goto
<1>13. ASSUME NEW e \in batch, DispatchError(e) PROVE ThreadType'
  BY <1>13 DEF DispatchError, Goto, DataType
<1>14. ASSUME NEW e \in batch, DispatchRead(e) PROVE ThreadType'
  BY <1>0, <1>14 DEF DispatchRead
<1>15. ASSUME NEW f \in Fds, Expire(f) PROVE ThreadType'
  BY <1>15 DEF Expire, Goto
<1>16. ASSUME NEW w \in Workers, Begin(w) PROVE ThreadType'
  <2>1. queue # <<>> /\ queue \in Seq([kind : Kinds, fd : Fds, frame : Seq(Units)])
    BY <1>16 DEF Begin, DataType
  <2>2. Head(queue) \in [kind : Kinds, fd : Fds, frame : Seq(Units)]
    BY <2>1, HeadTailProperties
  <2>3. Head(queue).fd \in Fds
    BY <2>2
  <2>4. job' = [job EXCEPT ![w] = Head(queue).fd]
    BY <1>16 DEF Begin
  <2>5. pc' = [pc EXCEPT ![w] = IF Head(queue).kind = "read_task" THEN "check" ELSE "parse"]
    BY <1>16 DEF Begin, Goto
  <2> QED
    BY <2>3, <2>4, <2>5
<1>17. ASSUME NEW w \in Workers, CheckClosed(w) PROVE ThreadType'
  BY <1>17 DEF CheckClosed, Goto
<1>18. ASSUME NEW w \in Workers, ReadEnds(w) PROVE ThreadType'
  BY <1>18 DEF ReadEnds, Goto
<1>19. ASSUME NEW w \in Workers, ReadAgain(w) PROVE ThreadType'
  BY <1>19 DEF ReadAgain, Goto
<1>20. ASSUME NEW w \in Workers, ReadData(w) PROVE ThreadType'
  BY <1>20 DEF ReadData, Goto
<1>21. ASSUME NEW w \in Workers, AppendData(w) PROVE ThreadType'
  BY <1>21 DEF AppendData, Goto
<1>22. ASSUME NEW w \in Workers, NoFrame(w) PROVE ThreadType'
  BY <1>22 DEF NoFrame, Goto, Finish
<1>23. ASSUME NEW w \in Workers, TakeFrame(w) PROVE ThreadType'
  BY <1>0, <1>23 DEF TakeFrame
<1>24. ASSUME NEW w \in Workers, ParseSucceeds(w) PROVE ThreadType'
  BY <1>24 DEF ParseSucceeds, Goto, Finish
<1>25. ASSUME NEW w \in Workers, ParseQuits(w) PROVE ThreadType'
  BY <1>25 DEF ParseQuits, Goto
<1>26. ASSUME NEW t \in Threads, EventDel(t) PROVE ThreadType'
  BY <1>26 DEF EventDel, Goto
<1>27. ASSUME NEW t \in Threads, TestFd(t) PROVE ThreadType'
  BY <1>27 DEF TestFd, Goto
<1>28. ASSUME NEW t \in Threads, Close(t) PROVE ThreadType'
  BY <1>28 DEF Close, Goto
<1>29. ASSUME NEW t \in Threads, Unset(t) PROVE ThreadType'
  BY <1>29 DEF Unset, Goto
<1>30. ASSUME NEW t \in Threads, Wipe(t) PROVE ThreadType'
  BY <1>30 DEF Wipe, Goto, Finish
<1>31. CASE Crash
  BY <1>0, <1>31 DEF Crash
<1>32. CASE UNCHANGED vars
  BY <1>0, <1>32 DEF vars, system
<1> QED
  BY <1>1, <1>2, <1>3, <1>4, <1>5, <1>6, <1>7, <1>8, <1>9, <1>10, <1>11, <1>12, <1>13, <1>14,
     <1>15, <1>16, <1>17, <1>18, <1>19, <1>20, <1>21, <1>22, <1>23, <1>24, <1>25, <1>26, <1>27, <1>28,
     <1>29, <1>30, <1>31, <1>32
  DEF Next, Step, ClientStep, AcceptorStep, WaiterStep, CleanerStep, WorkerStep, ReadStep,
      TearDownStep, Threads

LEMMA InitTypes == Init => TInv
  BY NameAssumption, BoundAssumption
  DEF Init, TInv, KernelType, ObjectType, DataType, ThreadType, Threads, Working, WorkerPC,
      AcceptorPC, WaiterPC, CleanerPC, Initialising, Reading, TearDown

(* The type invariant of MainService.                                      *)
THEOREM TypeCorrect == Spec => []TypeOK
<1>1. Init => TInv
  BY InitTypes
<1>2. TInv /\ [Next]_vars => TInv'
  BY KernelStep, ObjectStep, DataStep, ThreadStep DEF TInv
<1>3. TInv => TypeOK
  BY DEF TInv, KernelType, ObjectType, DataType, ThreadType, TypeOK
<1> QED
  BY <1>1, <1>2, <1>3, PTL DEF Spec

-----------------------------------------------------------------------------
(* Where the keys of mm_task are on their way: besides the events and the   *)
(* queued tasks, the descriptor the acceptor is about to register, and the  *)
(* ones the workers are working on.                                         *)
Known ==
  /\ EventsHaveTasks
  /\ pc[Acceptor] \in Initialising => job[Acceptor] \in mm_task
  /\ \A w \in Workers : pc[w] # "free" => job[w] \in mm_task

(* What is appended to the queue is the only new entry.                     *)
LEMMA AppendedFd ==
  ASSUME NEW S, NEW M, NEW q \in Seq(S), \A i \in DOMAIN q : q[i].fd \in M,
         NEW k, k.fd \in M
  PROVE  \A i \in DOMAIN Append(q, k) : Append(q, k)[i].fd \in M
<1> SUFFICES ASSUME NEW i \in DOMAIN Append(q, k)
             PROVE  Append(q, k)[i].fd \in M
  OBVIOUS
<1>1. q \in Seq(S \cup {k}) /\ k \in S \cup {k}
  OBVIOUS
<1>2. CASE i = Len(q) + 1
  BY <1>1, <1>2, AppendProperties
<1>3. CASE i \in DOMAIN q
  BY <1>1, <1>3, AppendProperties
<1> QED
  BY <1>1, <1>2, <1>3, AppendProperties

(* A key gets into epoll only behind the acceptor, and from there to everyone
   else; it is never erased from mm_task. *)
LEMMA KnownStep ==
  ASSUME TInv, Known, [Next]_vars
  PROVE  Known'
<1> USE NameAssumption DEF TInv, Known, EventsHaveTasks, Initialising
<1>0. UNCHANGED <<interest, batch, queue, mm_task, pc, job>> => Known'
  BY DEF Known, EventsHaveTasks
<1>1. ASSUME NEW c \in Conns, Connect(c) PROVE Known'
  BY <1>0, <1>1 DEF Connect, ClientUnchanged
<1>2. ASSUME NEW c \in Conns, Send(c) PROVE Known'
  BY <1>0, <1>2 DEF Send, ClientUnchanged
<1>3. ASSUME NEW c \in Conns, ClientCloses(c) PROVE Known'
  BY <1>0, <1>3 DEF ClientCloses, ClientUnchanged
<1>4. ASSUME NEW c \in Conns, ClientResets(c) PROVE Known'
  BY <1>0, <1>4 DEF ClientResets, ClientUnchanged
<1>5. ASSUME NEW f \in Fds, GrowsIdle(f) PROVE Known'
  BY <1>0, <1>5 DEF GrowsIdle, kernel
<1>6. ASSUME NEW c \in Conns, NEW f \in Fds, Accept(c, f) PROVE Known'
  BY <1>6 DEF Accept, Goto, kernel, ThreadType, Threads
<1>7. CASE Insert
  BY <1>7 DEF Insert, Goto, kernel, ThreadType, Threads
<1>8. CASE InitFd
  BY <1>8 DEF InitFd, Goto, kernel, ThreadType, Threads
<1>9. CASE InitRest
  BY <1>9 DEF InitRest, Goto, kernel, ThreadType, Threads
<1>10. CASE EventAdd
  BY <1>10 DEF EventAdd, Goto, kernel, ThreadType, Threads
<1>11. CASE Wait
  <2>1. \A e \in batch' : e.fd \in ready
    BY <1>11 DEF Wait
  <2> QED
    BY <1>11, <2>1 DEF Wait, Goto, KernelType, ThreadType, Threads
<1>12. CASE BatchDone
  BY <1>12 DEF BatchDone, Goto, kernel, ThreadType, Threads
<1>13. ASSUME NEW e \in batch, DispatchError(e) PROVE Known'
  BY <1>13 DEF DispatchError, Goto, kernel, ThreadType, Threads
<1>14. ASSUME NEW e \in batch, DispatchRead(e) PROVE Known'
  <2>1. /\ queue' = Append(queue, [kind |-> "read_task", fd |-> e.fd, frame |-> <<>>])
        /\ e.fd \in mm_task
    BY <1>14 DEF DispatchRead, EventsHaveTasks
  <2>2. \A i \in DOMAIN queue' : queue'[i].fd \in mm_task
    BY <2>1, AppendedFd DEF DataType, EventsHaveTasks
  <2> QED
    BY <1>14, <2>2 DEF DispatchRead, kernel
<1>15. ASSUME NEW f \in Fds, Expire(f) PROVE Known'
  BY <1>15 DEF Expire, Goto, kernel, ThreadType, Threads
<1>16. ASSUME NEW w \in Workers, Begin(w) PROVE Known'
  <2>1. queue # <<>> /\ queue \in Seq([kind : Kinds, fd : Fds, frame : Seq(Units)])
    BY <1>16 DEF Begin, DataType
  <2>2. Head(queue) = queue[1] /\ queue' = Tail(queue) /\ 1 \in DOMAIN queue
    BY <1>16, <2>1, HeadTailProperties DEF Begin
  <2>3. \A i \in DOMAIN queue' : i + 1 \in DOMAIN queue /\ queue'[i] = queue[i + 1]
    BY <2>1, <2>2, HeadTailProperties
  <2>4. Head(queue).fd \in mm_task
    BY <2>2 DEF EventsHaveTasks
  <2>5. \A i \in DOMAIN queue' : queue'[i].fd \in mm_task
    BY <2>3 DEF EventsHaveTasks
  <2> QED
    BY <1>16, <2>4, <2>5 DEF Begin, Goto, kernel, ThreadType
<1>17. ASSUME NEW w \in Workers, CheckClosed(w) PROVE Known'
  BY <1>17 DEF CheckClosed, Goto, kernel, ThreadType, Threads
<1>18. ASSUME NEW w \in Workers, ReadEnds(w) PROVE Known'
  BY <1>18 DEF ReadEnds, Goto, kernel, ThreadType, Threads
<1>19. ASSUME NEW w \in Workers, ReadAgain(w) PROVE Known'
  BY <1>19 DEF ReadAgain, Goto, kernel, ThreadType, Threads
<1>20. ASSUME NEW w \in Workers, ReadData(w) PROVE Known'
  BY <1>20 DEF ReadData, Goto, kernel, ThreadType, Threads
<1>21. ASSUME NEW w \in Workers, AppendData(w) PROVE Known'
  BY <1>21 DEF AppendData, Goto, kernel, ThreadType, Threads
<1>22. ASSUME NEW w \in Workers, NoFrame(w) PROVE Known'
  BY <1>22 DEF NoFrame, Goto, Finish, kernel, ThreadType, Threads
<1>23. ASSUME NEW w \in Workers, TakeFrame(w) PROVE Known'
  <2>1. job[w] \in mm_task
    BY <1>23 DEF TakeFrame
  <2>2. PICK frame : queue' = Append(queue, [kind |-> "parse_task", fd |-> job[w], frame |-> frame])
    BY <1>23 DEF TakeFrame
  <2>3. \A i \in DOMAIN queue' : queue'[i].fd \in mm_task
    BY <2>1, <2>2, AppendedFd DEF DataType, EventsHaveTasks
  <2> QED
    BY <1>23, <2>3 DEF TakeFrame, kernel
<1>24. ASSUME NEW w \in Workers, ParseSucceeds(w) PROVE Known'
  BY <1>24 DEF ParseSucceeds, Goto, Finish, kernel, ThreadType, Threads
<1>25. ASSUME NEW w \in Workers, ParseQuits(w) PROVE Known'
  BY <1>25 DEF ParseQuits, Goto, kernel, ThreadType, Threads
<1>26. ASSUME NEW t \in Threads, EventDel(t) PROVE Known'
  BY <1>26 DEF EventDel, Goto, kernel, ThreadType, Threads
<1>27. ASSUME NEW t \in Threads, TestFd(t) PROVE Known'
  BY <1>27 DEF TestFd, Goto, kernel, ThreadType, Threads
<1>28. ASSUME NEW t \in Threads, Close(t) PROVE Known'
  BY <1>28 DEF Close, Goto, kernel, ThreadType, Threads
<1>29. ASSUME NEW t \in Threads, Unset(t) PROVE Known'
  BY <1>29 DEF Unset, Goto, kernel, ThreadType, Threads
<1>30. ASSUME NEW t \in Threads, Wipe(t) PROVE Known'
  BY <1>30 DEF Wipe, Goto, Finish, kernel, ThreadType, Threads
<1>31. CASE Crash
  BY <1>0, <1>31 DEF Crash, kernel
<1>32. CASE UNCHANGED vars
  BY <1>0, <1>32 DEF vars, system, kernel
<1> QED
  BY <1>1, <1>2, <1>3, <1>4, <1>5, <1>6, <1>7, <1>8, <1>9, <1>10, <1>11, <1>12, <1>13, <1>14,
     <1>15, <1>16, <1>17, <1>18, <1>19, <1>20, <1>21, <1>22, <1>23, <1>24, <1>25, <1>26, <1>27, <1>28,
     <1>29, <1>30, <1>31, <1>32
  DEF Next, Step, ClientStep, AcceptorStep, WaiterStep, CleanerStep, WorkerStep, ReadStep,
      TearDownStep, Threads

(* main_service.cpp:167 never makes an empty entry in mm_task: a descriptor *)
(* that epoll reports, or that a queued task works on, has its task object, *)
(* also when threads have overlapped in one.                                *)
THEOREM DispatchSafe == Spec => []EventsHaveTasks
<1>1. Init => Known
  BY NameAssumption DEF Init, Known, EventsHaveTasks, Initialising, Threads
<1>2. Init => TInv
  BY InitTypes
<1>3. TInv /\ Known /\ [Next]_vars => TInv' /\ Known'
  BY KernelStep, ObjectStep, DataStep, ThreadStep, KnownStep DEF TInv
<1>4. Known => EventsHaveTasks
  BY DEF Known
<1> QED
  BY <1>1, <1>2, <1>3, <1>4, PTL DEF Spec

-----------------------------------------------------------------------------
(* The order the task objects are in as long as no two threads share one.   *)
(* Four facts depend on each other: where a thread may be (Placed), what    *)
(* the object of an open or a closed descriptor says (Bound), that epoll    *)
(* knows every open one (Watched), and that what was read off a connection  *)
(* is in its object or was taken from it, in order (Streamed).              *)

(* Nobody shares a task object now.                                         *)
Alone ==
  \A f \in Fds : \A t, u \in Threads : Inside(t, f) /\ Inside(u, f) => t = u

(* An accepted descriptor whose task is not yet init()ed for it; any other  *)
(* open one is set up.                                                      *)
Fresh(f) == job[Acceptor] = f /\ pc[Acceptor] \in {"insert", "init_fd"}
SetUp(f) == file[f] # NoConn /\ ~ Fresh(f)

(* A thread is at one of these places with the task of f.                   *)
Visited(f, places) == \E t \in Threads : job[t] = f /\ pc[t] \in places

(* What a thread may rely on where it is.                                   *)
Placed(t) ==
  /\ pc[t] \in {"read", "append", "extract", "close", "init_rest", "event_add"} => SetUp(job[t])
  /\ pc[t] \in {"insert", "init_fd"} => file[job[t]] # NoConn
  /\ pc[t] \in {"unset", "wipe"} => ~ SetUp(job[t])
  /\ pc[t] = "wipe" => mi_fd[job[t]] = NoFd
  /\ pc[t] = "init_rest" => mv_data[job[t]] = <<>>
  /\ pc[t] = "event_add" => ~ mb_closed[job[t]]

(* The object of an open descriptor names it; any other is blank and closed *)
(* but for the thread that opens or clears it.                              *)
Bound(f) ==
  /\ SetUp(f) => mi_fd[f] = f /\ owner[f] = file[f]
  /\ ~ SetUp(f) /\ ~ Visited(f, {"unset", "wipe"}) => mi_fd[f] = NoFd /\ mv_data[f] = <<>>
  /\ ~ SetUp(f) /\ ~ Visited(f, {"unset", "wipe", "init_fd"}) => mb_closed[f] \/ f \notin mm_task

(* Only a reader that is about to tear it down has an open one closed.      *)
Watched(f) ==
  SetUp(f) /\ ~ Accepting(f) /\ ~ TearingDown(f) =>
    /\ f \in interest
    /\ mb_closed[f] => \E w \in Workers : job[w] = f /\ pc[w] = "extract"

(* The units after the n-th of connection c.                                *)
Run(s, c, n) == \A i \in 1..Len(s) : s[i] = <<c, n + i>>

(* The units read from f's connection are the whole frames taken, then      *)
(* mv_data, then the buffer of a reader that has not appended it yet.       *)
Streamed(f) ==
  /\ Fresh(f) => got[file[f]] = 0 /\ taken[file[f]] = 0
  /\ SetUp(f) =>
       /\ Run(mv_data[f], file[f], 2 * taken[file[f]])
       /\ ~ Visited(f, {"append"}) => got[file[f]] = 2 * taken[file[f]] + Len(mv_data[f])
       /\ \A w \in Workers : job[w] = f /\ pc[w] = "append" =>
            /\ got[file[f]] = 2 * taken[file[f]] + Len(mv_data[f]) + Len(buf[w])
            /\ Run(buf[w], file[f], 2 * taken[file[f]] + Len(mv_data[f]))

(* Nothing was read from a connection that was not accepted yet.            *)
Untouched == \A c \in Conns : stage[c] \in {"new", "backlog"} => got[c] = 0 /\ taken[c] = 0

Steady ==
  /\ \A t \in Threads : Placed(t)
  /\ \A f \in Fds : Bound(f) /\ Watched(f) /\ Streamed(f)
  /\ Untouched

(* Whoever shares what: descriptors are on connections of their own.        *)
ConnsApart ==
  /\ \A c \in Conns : stage[c] \in {"new", "backlog"} => \A f \in Fds : file[f] # c
  /\ \A f, g \in Fds : file[f] = file[g] /\ file[f] # NoConn => f = g
  /\ pc[Waiter] = "wait" => batch = {}
  /\ pc[Acceptor] = "accept" => job[Acceptor] = NoFd

(* The shape of the history variables.                                      *)
HistoryType ==
  /\ taken \in [Conns -> Nat]
  /\ owner \in [Fds -> Conns \cup {NoConn}]

(* Every other thread stays where it is.                                    *)
Others(t) == \A u \in Threads : u # t => pc'[u] = pc[u] /\ job'[u] = job[u]

(* A thread moves from one place in the code to another and touches nothing *)
(* but its own locals.                                                      *)
LEMMA MoveSteady ==
  ASSUME Steady, NEW t \in Threads, t # Acceptor, Others(t),
         UNCHANGED <<got, file, interest, mm_task, mi_fd, mb_closed, mv_data, taken, owner>>,
         \A c \in Conns : stage'[c] \in {"new", "backlog"} => stage[c] \in {"new", "backlog"},
         \A u \in Threads : pc[u] = "append" => buf'[u] = buf[u],
         Placed(t)',
         pc[t] \notin {"append", "unset", "wipe", "init_fd"}, pc'[t] # "append",
         pc[t] \in TearDown => pc'[t] \in TearDown /\ job'[t] = job[t],
         pc[t] = "extract" /\ mb_closed[job[t]] => pc'[t] \in TearDown /\ job'[t] = job[t]
  PROVE  Steady'
<1> USE DEF Others
<1>1. pc'[Acceptor] = pc[Acceptor] /\ job'[Acceptor] = job[Acceptor]
  BY DEF Threads
<1>2. \A f : (Fresh(f)' <=> Fresh(f)) /\ (SetUp(f)' <=> SetUp(f)) /\ (Accepting(f)' <=> Accepting(f))
  BY <1>1 DEF Fresh, SetUp, Accepting
<1>3. ASSUME NEW u \in Threads PROVE Placed(u)'
  BY <1>2 DEF Steady, Placed
<1>4. ASSUME NEW f \in Fds PROVE Bound(f)'
  <2>1. Visited(f, {"unset", "wipe"}) => Visited(f, {"unset", "wipe"})'
    BY DEF Visited
  <2>2. Visited(f, {"unset", "wipe", "init_fd"}) => Visited(f, {"unset", "wipe", "init_fd"})'
    BY DEF Visited
  <2> QED
    BY <1>2, <2>1, <2>2 DEF Steady, Bound
<1>5. ASSUME NEW f \in Fds PROVE Watched(f)'
  <2>1. TearingDown(f) => TearingDown(f)'
    BY DEF TearingDown
  <2>2. ASSUME NEW w \in Workers, mb_closed[f], job[w] = f, pc[w] = "extract", ~ TearingDown(f)'
        PROVE  job'[w] = f /\ pc'[w] = "extract"
    BY <2>2 DEF TearingDown, Threads
  <2> QED
    BY <1>2, <2>1, <2>2 DEF Steady, Watched
<1>6. ASSUME NEW f \in Fds PROVE Streamed(f)'
  <2>1. Visited(f, {"append"})' <=> Visited(f, {"append"})
    BY DEF Visited
  <2>2. \A w \in Workers : pc'[w] = "append" =>
          pc[w] = "append" /\ job'[w] = job[w] /\ buf'[w] = buf[w]
    BY DEF Threads
  <2> QED
    BY <1>2, <2>1, <2>2 DEF Steady, Streamed, Run
<1>7. Untouched'
  BY DEF Steady, Untouched
<1> QED
  BY <1>3, <1>4, <1>5, <1>6, <1>7 DEF Steady

(* Nothing happens inside the server.                                       *)
LEMMA CalmSteady ==
  ASSUME Steady, Untouched',
         UNCHANGED <<got, file, interest, mm_task, mi_fd, mb_closed, mv_data, pc, job, buf, taken, owner>>
  PROVE  Steady'
<1>1. \A f : (Fresh(f)' <=> Fresh(f)) /\ (SetUp(f)' <=> SetUp(f)) /\ (Accepting(f)' <=> Accepting(f))
             /\ (TearingDown(f)' <=> TearingDown(f))
             /\ \A places : Visited(f, places)' <=> Visited(f, places)
  BY DEF Fresh, SetUp, Accepting, TearingDown, Visited
<1>2. ASSUME NEW u \in Threads PROVE Placed(u)'
  BY <1>1 DEF Steady, Placed
<1>3. ASSUME NEW f \in Fds PROVE Bound(f)' /\ Watched(f)'
  BY <1>1 DEF Steady, Bound, Watched
<1>4. ASSUME NEW f \in Fds PROVE Streamed(f)'
  BY <1>1 DEF Steady, Streamed, Run
<1> QED
  BY <1>2, <1>3, <1>4 DEF Steady

(* The steps of a thread from one place to another.                         *)
LEMMA PlainSteady ==
  ASSUME TInv, Known, Alone, Steady,
         \/ Wait \/ BatchDone
         \/ \E e \in batch : DispatchError(e)
         \/ \E f \in Fds : Expire(f)
         \/ \E w \in Workers : Begin(w) \/ CheckClosed(w) \/ ReadAgain(w) \/ NoFrame(w)
                               \/ ParseSucceeds(w) \/ ParseQuits(w)
         \/ \E t \in Threads : TestFd(t)
  PROVE  Steady'
<1> USE NameAssumption DEF TInv, ThreadType, Threads
<1>0. ASSUME NEW t \in Threads, t # Acceptor, Others(t),
             UNCHANGED <<kernel, mm_task, mi_fd, mb_closed, mv_data, taken, owner>>,
             \A u \in Threads : u # t => buf'[u] = buf[u],
             Placed(t)',
             pc[t] \notin {"append", "unset", "wipe", "init_fd"}, pc'[t] # "append",
             pc[t] \in TearDown => pc'[t] \in TearDown /\ job'[t] = job[t],
             pc[t] = "extract" /\ mb_closed[job[t]] => pc'[t] \in TearDown /\ job'[t] = job[t]
      PROVE  Steady'
  <2>1. \A u \in Threads : pc[u] = "append" => buf'[u] = buf[u]
    BY <1>0
  <2> QED
    BY <1>0, <2>1, MoveSteady DEF kernel
<1>1. CASE Wait \/ BatchDone
  <2>1. /\ pc[Waiter] \in {"wait", "dispatch"} /\ pc'[Waiter] \in {"wait", "dispatch"}
        /\ Others(Waiter)
        /\ UNCHANGED <<got, file, interest, mm_task, mi_fd, mb_closed, mv_data, taken, owner,
                       stage, buf>>
    BY <1>1 DEF Wait, BatchDone, Goto, kernel, object, history, Others
  <2>2. Placed(Waiter)'
    BY <2>1 DEF Placed
  <2> QED
    BY <2>1, <2>2, MoveSteady DEF TearDown
<1>2. ASSUME NEW e \in batch, DispatchError(e) PROVE Steady'
  <2>1. /\ pc[Waiter] = "dispatch" /\ pc'[Waiter] \in {"dispatch", "event_del"}
        /\ Others(Waiter)
        /\ UNCHANGED <<kernel, mm_task, object, buf, taken, owner>>
    BY <1>2 DEF DispatchError, Goto, history, Others
  <2>2. Placed(Waiter)'
    BY <2>1 DEF Placed
  <2> QED
    BY <1>0, <2>1, <2>2 DEF TearDown, object
<1>3. ASSUME NEW f \in Fds, Expire(f) PROVE Steady'
  <2>1. /\ pc[Cleaner] = "scan" /\ pc'[Cleaner] = "event_del"
        /\ Others(Cleaner)
        /\ UNCHANGED <<kernel, mm_task, object, buf, taken, owner>>
    BY <1>3 DEF Expire, Goto, history, Others
  <2>2. Placed(Cleaner)'
    BY <2>1 DEF Placed
  <2> QED
    BY <1>0, <2>1, <2>2 DEF TearDown, object
<1>4. ASSUME NEW w \in Workers, Begin(w) PROVE Steady'
  <2>1. /\ pc[w] = "free" /\ pc'[w] \in {"check", "parse"}
        /\ Others(w)
        /\ UNCHANGED <<kernel, mm_task, mi_fd, mb_closed, mv_data, taken, owner>>
        /\ \A u \in Threads : u # w => buf'[u] = buf[u]
    BY <1>4 DEF Begin, Goto, history, Others, DataType
  <2>2. Placed(w)'
    BY <2>1 DEF Placed
  <2> QED
    BY <1>0, <2>1, <2>2 DEF TearDown
<1>5. ASSUME NEW w \in Workers, CheckClosed(w) PROVE Steady'
  <2>1. /\ pc[w] = "check" /\ job[w] \in Fds /\ job[w] \in mm_task
        /\ pc'[w] = IF mb_closed[job[w]] THEN "event_del" ELSE "read"
        /\ Others(w)
        /\ UNCHANGED <<kernel, mm_task, object, job, buf, taken, owner>>
    BY <1>5 DEF CheckClosed, Goto, history, Others, Known, Working, Reading
  <2>2. SetUp(job[w]) \/ mb_closed[job[w]]
    <3>1. ~ Visited(job[w], {"unset", "wipe", "init_fd"})
      BY <2>1 DEF Alone, Inside, Visited
    <3> QED
      BY <2>1, <3>1 DEF Steady, Bound
  <2>3. SetUp(job[w])' <=> SetUp(job[w])
    BY <2>1 DEF SetUp, Fresh, Others, kernel
  <2>4. Placed(w)'
    BY <2>1, <2>2, <2>3 DEF Placed
  <2> QED
    BY <1>0, <2>1, <2>4 DEF TearDown, object
<1>6. ASSUME NEW w \in Workers, ReadAgain(w) PROVE Steady'
  <2>1. /\ pc[w] = "read" /\ pc'[w] = "extract" /\ job'[w] = job[w]
        /\ Others(w)
        /\ UNCHANGED <<kernel, mm_task, object, job, buf, taken, owner>>
    BY <1>6 DEF ReadAgain, Goto, history, Others
  <2>2. SetUp(job[w])' <=> SetUp(job[w])
    BY <2>1 DEF SetUp, Fresh, Others, kernel
  <2>3. Placed(w)'
    BY <2>1, <2>2 DEF Placed, Steady
  <2> QED
    BY <1>0, <2>1, <2>3 DEF TearDown, object
<1>7. ASSUME NEW w \in Workers, NoFrame(w) PROVE Steady'
  <2>1. /\ pc[w] = "extract"
        /\ Others(w)
        /\ UNCHANGED <<kernel, mm_task, object, taken, owner>>
        /\ \A u \in Threads : u # w => buf'[u] = buf[u]
        /\ \/ pc'[w] = "event_del" /\ job'[w] = job[w]
           \/ pc'[w] = "free" /\ ~ mb_closed[job[w]]
    BY <1>7 DEF NoFrame, Finish, Goto, history, Others, DataType
  <2>2. Placed(w)'
    BY <2>1 DEF Placed
  <2> QED
    BY <1>0, <2>1, <2>2 DEF TearDown, object
<1>8. ASSUME NEW w \in Workers, ParseSucceeds(w) \/ ParseQuits(w) PROVE Steady'
  <2>1. /\ pc[w] = "parse" /\ pc'[w] \in {"free", "event_del"}
        /\ Others(w)
        /\ UNCHANGED <<kernel, mm_task, object, taken, owner>>
        /\ \A u \in Threads : u # w => buf'[u] = buf[u]
    BY <1>8 DEF ParseSucceeds, ParseQuits, Finish, Goto, history, Others, DataType
  <2>2. Placed(w)'
    BY <2>1 DEF Placed
  <2> QED
    BY <1>0, <2>1, <2>2 DEF TearDown, object
<1>9. ASSUME NEW t \in Threads, TestFd(t) PROVE Steady'
  <2>1. /\ pc[t] = "test" /\ job[t] \in Fds /\ job'[t] = job[t] /\ t # Acceptor
        /\ pc'[t] = IF mi_fd[job[t]] = NoFd THEN "wipe" ELSE "close"
        /\ Others(t)
        /\ UNCHANGED <<kernel, mm_task, object, job, buf, taken, owner>>
    BY <1>9 DEF TestFd, Goto, history, Others, Working, TearDown, AcceptorPC, Initialising
  <2>2. SetUp(job[t]) <=> mi_fd[job[t]] # NoFd
    <3>1. ~ Visited(job[t], {"unset", "wipe"})
      BY <2>1 DEF Alone, Inside, Visited
    <3> QED
      BY <2>1, <3>1 DEF Steady, Bound
  <2>3. SetUp(job[t])' <=> SetUp(job[t])
    BY <2>1 DEF SetUp, Fresh, Others, kernel
  <2>4. Placed(t)'
    BY <2>1, <2>2, <2>3 DEF Placed, object
  <2> QED
    BY <1>0, <2>1, <2>4 DEF TearDown, object
<1> QED
  BY <1>1, <1>2, <1>3, <1>4, <1>5, <1>6, <1>7, <1>8, <1>9

-----------------------------------------------------------------------------
(* The acceptor: accept() makes a descriptor fresh, init() sets it up.      *)
LEMMA AcceptSteady ==
  ASSUME TInv, ConnsApart, Steady, NEW c \in Conns, NEW f \in Fds, Accept(c, f)
  PROVE  Steady'
<1> USE NameAssumption
<1>1. /\ stage[c] = "backlog" /\ file[f] = NoConn
      /\ pc[Acceptor] = "accept" /\ pc'[Acceptor] = "insert" /\ job'[Acceptor] = f
      /\ Others(Acceptor)
      /\ file'[f] = c /\ \A g \in Fds : g # f => file'[g] = file[g]
      /\ stage'[c] = "open" /\ \A d \in Conns : d # c => stage'[d] = stage[d]
      /\ UNCHANGED <<got, interest, mm_task, mi_fd, mb_closed, mv_data, buf, taken, owner>>
  BY DEF Accept, Goto, TInv, ThreadType, KernelType, Threads, Others, object, history
<1>2. \A g \in Fds : /\ SetUp(g)' <=> SetUp(g)
                     /\ Fresh(g)' <=> g = f
                     /\ ~ Fresh(g)
                     /\ g # f => (Accepting(g)' => Accepting(g))
  BY <1>1 DEF SetUp, Fresh, Accepting
<1>3. ~ SetUp(f)
  BY <1>1 DEF SetUp
<1>4. \A u \in Threads : u # Acceptor /\ pc[u] \in Working => job[u] \in Fds
  BY DEF TInv, ThreadType
<1>5. ASSUME NEW u \in Threads PROVE Placed(u)'
  <2>1. CASE u = Acceptor
    BY <1>1, <2>1 DEF Placed
  <2>2. CASE u # Acceptor
    <3>1. pc'[u] = pc[u] /\ job'[u] = job[u]
      BY <1>1, <2>2 DEF Others
    <3>2. Placed(u) /\ pc[u] \notin {"insert", "init_fd"}
      BY <2>2 DEF Steady, TInv, ThreadType, Threads, WorkerPC, WaiterPC, CleanerPC, TearDown, Reading
    <3> QED
      BY <1>1, <1>2, <1>4, <2>2, <3>1, <3>2
      DEF Placed, Working, TearDown, Reading, Initialising
  <2> QED
    BY <2>1, <2>2
<1>6. ASSUME NEW g \in Fds PROVE Bound(g)'
  <2>1. \A u \in Threads : u # Acceptor => pc'[u] = pc[u] /\ job'[u] = job[u]
    BY <1>1 DEF Others
  <2>2. /\ Visited(g, {"unset", "wipe"})' <=> Visited(g, {"unset", "wipe"})
        /\ Visited(g, {"unset", "wipe", "init_fd"})' <=> Visited(g, {"unset", "wipe", "init_fd"})
    BY <1>1, <2>1 DEF Visited
  <2> QED
    BY <1>1, <1>2, <1>3, <2>2 DEF Steady, Bound
<1>7. ASSUME NEW g \in Fds PROVE Watched(g)'
  <2>1. \A u \in Threads : u # Acceptor => pc'[u] = pc[u] /\ job'[u] = job[u]
    BY <1>1 DEF Others
  <2>2. TearingDown(g) => TearingDown(g)'
    BY <1>1, <2>1 DEF TearingDown, TearDown
  <2>3. \A w \in Workers : pc'[w] = pc[w] /\ job'[w] = job[w]
    BY <2>1 DEF Threads
  <2>4. SetUp(g)' => ~ Accepting(g)
    BY <1>1, <1>2, <1>3 DEF Accepting, ConnsApart
  <2> QED
    BY <1>1, <1>2, <2>2, <2>3, <2>4 DEF Steady, Watched
<1>8. ASSUME NEW g \in Fds PROVE Streamed(g)'
  <2>1. Visited(g, {"append"})' <=> Visited(g, {"append"})
    BY <1>1 DEF Visited, Others
  <2>2. \A w \in Workers : pc'[w] = pc[w] /\ job'[w] = job[w]
    BY <1>1 DEF Others, Threads
  <2>3. got[c] = 0 /\ taken[c] = 0
    BY <1>1 DEF Steady, Untouched
  <2> QED
    BY <1>1, <1>2, <1>3, <2>1, <2>2, <2>3 DEF Steady, Streamed, Run
<1>9. Untouched'
  BY <1>1 DEF Steady, Untouched
<1> QED
  BY <1>5, <1>6, <1>7, <1>8, <1>9 DEF Steady

(* What a thread does to the task object it works on leaves all others      *)
(* alone, and the threads in them.                                          *)
LEMMA OthersSteady ==
  ASSUME TInv, Steady, NEW t \in Threads, NEW f \in Fds,
         job[t] = f, job'[t] \in {f, NoFd}, Others(t),
         \A u \in Threads : u # t /\ job[u] = f /\ pc[u] \in Working =>
           pc[u] = "insert" /\ file'[f] # NoConn,
         \A g \in Fds : g # f =>
           /\ file'[g] = file[g] /\ mi_fd'[g] = mi_fd[g] /\ owner'[g] = owner[g]
           /\ mb_closed'[g] = mb_closed[g] /\ mv_data'[g] = mv_data[g]
           /\ (g \in mm_task' <=> g \in mm_task) /\ (g \in interest' <=> g \in interest)
           /\ file[g] # NoConn => got'[file[g]] = got[file[g]] /\ taken'[file[g]] = taken[file[g]],
         \A u \in Threads : u # t => buf'[u] = buf[u]
  PROVE  /\ \A u \in Threads : u # t => Placed(u)'
         /\ \A g \in Fds : g # f => Bound(g)' /\ Watched(g)' /\ Streamed(g)'
<1> USE NameAssumption DEF Others
<1>1. ASSUME NEW g \in Fds, g # f
      PROVE  /\ Fresh(g)' <=> Fresh(g)
             /\ SetUp(g)' <=> SetUp(g)
             /\ Accepting(g)' <=> Accepting(g)
             /\ \A u \in Threads : job'[u] = g \/ job[u] = g =>
                  u # t /\ job'[u] = job[u] /\ pc'[u] = pc[u] /\ buf'[u] = buf[u]
  <2>1. \A u \in Threads : job'[u] = g \/ job[u] = g =>
          u # t /\ job'[u] = job[u] /\ pc'[u] = pc[u] /\ buf'[u] = buf[u]
    BY <1>1
  <2>2. Acceptor \in Threads
    BY DEF Threads
  <2> QED
    BY <1>1, <2>1, <2>2 DEF Fresh, SetUp, Accepting
<1>2. ASSUME NEW u \in Threads, u # t PROVE Placed(u)'
  <2>1. pc'[u] = pc[u] /\ job'[u] = job[u] /\ Placed(u)
    BY <1>2 DEF Steady
  <2>2. CASE pc[u] \notin Working
    BY <2>1, <2>2 DEF Placed, Working, Initialising, Reading, TearDown
  <2>3. CASE pc[u] \in Working /\ job[u] = f
    BY <1>2, <2>1, <2>3 DEF Placed
  <2>4. CASE pc[u] \in Working /\ job[u] # f
    <3>1. job[u] \in Fds
      BY <2>4 DEF TInv, ThreadType
    <3> QED
      BY <1>1, <2>1, <2>4, <3>1 DEF Placed
  <2> QED
    BY <2>2, <2>3, <2>4
<1>3. ASSUME NEW g \in Fds, g # f PROVE Bound(g)'
  <2>1. \A places : Visited(g, places)' <=> Visited(g, places)
    BY <1>1, <1>3 DEF Visited
  <2> QED
    BY <1>1, <1>3, <2>1 DEF Steady, Bound
<1>4. ASSUME NEW g \in Fds, g # f PROVE Watched(g)'
  <2>1. TearingDown(g)' <=> TearingDown(g)
    BY <1>1, <1>4 DEF TearingDown
  <2>2. \A w \in Workers : job[w] = g => job'[w] = g /\ pc'[w] = pc[w]
    BY <1>1, <1>4 DEF Threads
  <2> QED
    BY <1>1, <1>4, <2>1, <2>2 DEF Steady, Watched
<1>5. ASSUME NEW g \in Fds, g # f PROVE Streamed(g)'
  <2>1. Visited(g, {"append"})' <=> Visited(g, {"append"})
    BY <1>1, <1>5 DEF Visited
  <2>2. \A w \in Workers : job'[w] = g => job[w] = g /\ pc'[w] = pc[w] /\ buf'[w] = buf[w]
    BY <1>1, <1>5 DEF Threads
  <2>3. Fresh(g) \/ SetUp(g) => file[g] # NoConn
    <3>1. Fresh(g) => Placed(Acceptor)
      BY DEF Steady, Threads
    <3> QED
      BY <3>1 DEF Fresh, SetUp, Placed
  <2> QED
    BY <1>1, <1>5, <2>1, <2>2, <2>3 DEF Steady, Streamed, Run
<1> QED
  BY <1>2, <1>3, <1>4, <1>5

(* A thread inside a task object is alone with it, but for an acceptor that *)
(* has accepted its descriptor again and comes to look for the task.        *)
LEMMA Solo ==
  ASSUME TInv, Alone, NEW t \in Threads, NEW u \in Threads, u # t,
         pc[t] \in Working \ {"insert"}, job[u] = job[t], pc[u] \in Working
  PROVE  pc[u] = "insert"
BY DEF TInv, ThreadType, Alone, Inside

-----------------------------------------------------------------------------
(* mm_task.find(), and the first and the last assignments of init().        *)
LEMMA InsertSteady ==
  ASSUME TInv, Alone', Steady, Insert, NEW f \in Fds, job[Acceptor] = f
  PROVE  Steady'
<1> USE NameAssumption
<1>0. Acceptor \in Threads
  BY DEF Threads
<1>1. /\ pc[Acceptor] = "insert" /\ pc'[Acceptor] = "init_fd"
      /\ job'[Acceptor] = f
      /\ Others(Acceptor)
      /\ UNCHANGED <<stage, got, file, interest, mi_fd, mb_closed, mv_data, job, buf, taken, owner>>
      /\ mm_task' = mm_task \cup {f}
  BY DEF Insert, Goto, TInv, ThreadType, Working, Threads, Others, object, history, kernel
<1>2. \A u \in Threads : u # Acceptor => ~ (job[u] = f /\ pc[u] \in Working)
  <2>1. \A u \in Threads : u # Acceptor => pc[u] # "insert"
    BY DEF TInv, ThreadType, Threads, WorkerPC, WaiterPC, CleanerPC, TearDown, Reading
  <2> QED
    BY <1>0, <1>1, <2>1 DEF Alone, Inside, Others
<1>3. Placed(Acceptor)
  BY <1>0 DEF Steady
<1>4. Fresh(f) /\ Fresh(f)' /\ ~ SetUp(f) /\ ~ SetUp(f)' /\ Placed(Acceptor)'
  BY <1>1, <1>3 DEF Fresh, SetUp, Placed
<1>5. Bound(f)'
  <2>1. ~ Visited(f, {"unset", "wipe"}) /\ Visited(f, {"unset", "wipe", "init_fd"})'
    BY <1>0, <1>1, <1>2 DEF Visited, Working, TearDown
  <2> QED
    BY <1>1, <1>4, <2>1 DEF Steady, Bound
<1>6. Watched(f)' /\ Streamed(f)' /\ Untouched'
  BY <1>1, <1>4 DEF Steady, Watched, Streamed, Untouched
<1>7. /\ \A u \in Threads : u # Acceptor => Placed(u)'
      /\ \A g \in Fds : g # f => Bound(g)' /\ Watched(g)' /\ Streamed(g)'
  BY <1>0, <1>1, <1>2, OthersSteady
<1> QED
  BY <1>4, <1>5, <1>6, <1>7 DEF Steady

(* Whoever else works on the descriptor of a thread inside its task.        *)
LEMMA Lone ==
  ASSUME TInv, Alone, Steady, NEW t \in Threads, NEW f \in Fds, job[t] = f,
         pc[t] \in Working \ {"insert"}
  PROVE  \A u \in Threads : u # t /\ job[u] = f /\ pc[u] \in Working =>
           u = Acceptor /\ pc[u] = "insert" /\ file[f] # NoConn
<1>1. SUFFICES ASSUME NEW u \in Threads, u # t, job[u] = f, pc[u] \in Working
               PROVE  u = Acceptor /\ pc[u] = "insert" /\ file[f] # NoConn
  OBVIOUS
<1>2. pc[u] = "insert"
  BY <1>1, Solo
<1>3. u = Acceptor
  BY <1>2 DEF TInv, ThreadType, Threads, WorkerPC, WaiterPC, CleanerPC, TearDown, Reading
<1>4. Placed(u)
  BY DEF Steady
<1> QED
  BY <1>1, <1>2, <1>3, <1>4 DEF Placed

(* init() begins: mi_fd is the descriptor, and the object is as clear() left *)
(* it or as new, so that no data of an earlier connection is in it.         *)
LEMMA InitFdSteady ==
  ASSUME TInv, HistoryType, Alone, Steady, InitFd, NEW f \in Fds, job[Acceptor] = f
  PROVE  Steady'
<1> USE NameAssumption
<1>0. Acceptor \in Threads
  BY DEF Threads
<1>1. /\ pc[Acceptor] = "init_fd" /\ pc'[Acceptor] = "init_rest"
      /\ job'[Acceptor] = f
      /\ Others(Acceptor)
      /\ UNCHANGED <<stage, got, file, interest, mm_task, mb_closed, mv_data, job, buf, taken>>
      /\ mi_fd'[f] = f /\ \A g \in Fds : g # f => mi_fd'[g] = mi_fd[g]
      /\ owner'[f] = file[f] /\ \A g \in Fds : g # f => owner'[g] = owner[g]
  BY DEF InitFd, Goto, TInv, ThreadType, ObjectType, HistoryType, Threads, Others, kernel
<1>2. \A u \in Threads : u # Acceptor => ~ (job[u] = f /\ pc[u] \in Working)
  BY <1>0, <1>1, Lone DEF Working, Initialising
<1>3. Placed(Acceptor) /\ Bound(f) /\ Streamed(f)
  BY <1>0 DEF Steady
<1>4. file[f] # NoConn /\ Fresh(f) /\ ~ SetUp(f) /\ ~ Fresh(f)' /\ SetUp(f)'
  BY <1>1, <1>3 DEF Fresh, SetUp, Placed
<1>5. mv_data[f] = <<>>
  <2>1. ~ Visited(f, {"unset", "wipe"})
    BY <1>0, <1>1, <1>2 DEF Visited, Working, TearDown
  <2> QED
    BY <1>3, <1>4, <2>1 DEF Bound
<1>6. Placed(Acceptor)' /\ Bound(f)'
  BY <1>1, <1>4, <1>5 DEF Placed, Bound
<1>7. Watched(f)'
  BY <1>1 DEF Watched, Accepting
<1>8. Streamed(f)'
  <2>1. got[file[f]] = 0 /\ taken[file[f]] = 0
    BY <1>3, <1>4 DEF Streamed
  <2>2. \A w \in Workers : ~ (job'[w] = f /\ pc'[w] = "append")
    BY <1>1, <1>2 DEF Others, Threads, Working, Reading
  <2> QED
    BY <1>1, <1>4, <1>5, <2>1, <2>2 DEF Streamed, Run
<1>9. Untouched'
  BY <1>1 DEF Steady, Untouched
<1>10. /\ \A u \in Threads : u # Acceptor => Placed(u)'
       /\ \A g \in Fds : g # f => Bound(g)' /\ Watched(g)' /\ Streamed(g)'
  BY <1>0, <1>1, <1>2, OthersSteady
<1> QED
  BY <1>6, <1>7, <1>8, <1>9, <1>10 DEF Steady

(* The rest of init(), and EPOLL_CTL_ADD.                                   *)
LEMMA InitRestSteady ==
  ASSUME TInv, Alone, Steady, InitRest, NEW f \in Fds, job[Acceptor] = f
  PROVE  Steady'
<1> USE NameAssumption
<1>0. Acceptor \in Threads
  BY DEF Threads
<1>1. /\ pc[Acceptor] = "init_rest" /\ pc'[Acceptor] = "event_add"
      /\ job'[Acceptor] = f
      /\ Others(Acceptor)
      /\ UNCHANGED <<stage, got, file, interest, mm_task, mi_fd, job, buf, taken, owner>>
      /\ ~ mb_closed'[f] /\ \A g \in Fds : g # f => mb_closed'[g] = mb_closed[g]
      /\ mv_data'[f] = <<>> /\ \A g \in Fds : g # f => mv_data'[g] = mv_data[g]
  BY DEF InitRest, Goto, TInv, ThreadType, ObjectType, Threads, Others, kernel, history
<1>2. \A u \in Threads : u # Acceptor => ~ (job[u] = f /\ pc[u] \in Working)
  BY <1>0, <1>1, Lone DEF Working, Initialising
<1>3. Placed(Acceptor) /\ Bound(f) /\ Streamed(f)
  BY <1>0 DEF Steady
<1>4. SetUp(f) /\ ~ Fresh(f) /\ mv_data[f] = <<>> /\ ~ Fresh(f)' /\ SetUp(f)'
  BY <1>1, <1>3 DEF Fresh, SetUp, Placed
<1>5. Placed(Acceptor)' /\ Bound(f)'
  BY <1>1, <1>3, <1>4 DEF Placed, Bound
<1>6. Watched(f)'
  BY <1>1 DEF Watched, Accepting
<1>7. Streamed(f)'
  <2>1. \A w \in Workers : ~ (job'[w] = f /\ pc'[w] = "append")
    BY <1>1, <1>2 DEF Others, Threads, Working, Reading
  <2>2. ~ Visited(f, {"append"})
    BY <1>1, <1>2 DEF Visited, Working, Reading
  <2> QED
    BY <1>1, <1>3, <1>4, <2>1, <2>2 DEF Streamed, Run
<1>8. Untouched'
  BY <1>1 DEF Steady, Untouched
<1>9. /\ \A u \in Threads : u # Acceptor => Placed(u)'
      /\ \A g \in Fds : g # f => Bound(g)' /\ Watched(g)' /\ Streamed(g)'
  BY <1>0, <1>1, <1>2, OthersSteady
<1> QED
  BY <1>5, <1>6, <1>7, <1>8, <1>9 DEF Steady

(* Only here others get to know of the descriptor.                          *)
LEMMA EventAddSteady ==
  ASSUME TInv, Alone, Steady, EventAdd, NEW f \in Fds, job[Acceptor] = f
  PROVE  Steady'
<1> USE NameAssumption
<1>0. Acceptor \in Threads
  BY DEF Threads
<1>1. /\ pc[Acceptor] = "event_add" /\ pc'[Acceptor] = "accept"
      /\ job'[Acceptor] = NoFd
      /\ Others(Acceptor)
      /\ UNCHANGED <<stage, got, file, mm_task, mi_fd, mb_closed, mv_data, buf, taken, owner>>
      /\ file[f] # NoConn => interest' = interest \cup {f}
      /\ file[f] = NoConn => interest' = interest
  BY DEF EventAdd, Goto, TInv, ThreadType, Threads, Others, object, history
<1>2. \A u \in Threads : u # Acceptor => ~ (job[u] = f /\ pc[u] \in Working)
  BY <1>0, <1>1, Lone DEF Working, Initialising
<1>3. Placed(Acceptor) /\ Bound(f) /\ Streamed(f)
  BY <1>0 DEF Steady
<1>4. SetUp(f) /\ ~ mb_closed[f] /\ ~ Fresh(f) /\ ~ Fresh(f)' /\ SetUp(f)'
  BY <1>1, <1>3 DEF Fresh, SetUp, Placed
<1>5. Placed(Acceptor)' /\ Bound(f)'
  BY <1>1, <1>3, <1>4 DEF Placed, Bound
<1>6. Watched(f)'
  BY <1>1, <1>4 DEF Watched, SetUp
<1>7. Streamed(f)'
  <2>1. \A w \in Workers : ~ (job'[w] = f /\ pc'[w] = "append")
    BY <1>1, <1>2 DEF Others, Threads, Working, Reading
  <2>2. ~ Visited(f, {"append"})
    BY <1>1, <1>2 DEF Visited, Working, Reading
  <2> QED
    BY <1>1, <1>3, <1>4, <2>1, <2>2 DEF Streamed, Run
<1>8. Untouched'
  BY <1>1 DEF Steady, Untouched
<1>9. /\ \A u \in Threads : u # Acceptor => Placed(u)'
      /\ \A g \in Fds : g # f => Bound(g)' /\ Watched(g)' /\ Streamed(g)'
  BY <1>0, <1>1, <1>2, OthersSteady
<1> QED
  BY <1>5, <1>6, <1>7, <1>8, <1>9 DEF Steady

-----------------------------------------------------------------------------
(* The steps of read_task on the task object: the end of the stream, a read *)
(* from the socket, the insert into mv_data, a whole frame taken out.       *)
LEMMA ReadEndsSteady ==
  ASSUME TInv, Alone, Steady, NEW w \in Workers, ReadEnds(w), NEW f \in Fds, job[w] = f
  PROVE  Steady'
<1> USE NameAssumption
<1>0. w \in Threads /\ w # Acceptor
  BY DEF Threads
<1>1. /\ pc[w] = "read" /\ pc'[w] = "extract" /\ job'[w] = f
      /\ Others(w)
      /\ UNCHANGED <<stage, got, file, interest, mm_task, mi_fd, mv_data, job, buf, taken, owner>>
      /\ mb_closed'[f] /\ \A g \in Fds : g # f => mb_closed'[g] = mb_closed[g]
  BY DEF ReadEnds, Goto, TInv, ThreadType, ObjectType, Threads, Others, kernel, history
<1>2. \A u \in Threads : u # w /\ job[u] = f /\ pc[u] \in Working => pc[u] = "insert" /\ file[f] # NoConn
  BY <1>0, <1>1, Lone DEF Working, Reading
<1>3. Placed(w) /\ Bound(f) /\ Watched(f) /\ Streamed(f)
  BY <1>0 DEF Steady
<1>4. SetUp(f) /\ SetUp(f)' /\ ~ Fresh(f)'
  BY <1>0, <1>1, <1>3 DEF Placed, SetUp, Fresh, Others, Threads
<1>5. Placed(w)' /\ Bound(f)' /\ Watched(f)'
  <2>1. Placed(w)' /\ Bound(f)'
    BY <1>1, <1>3, <1>4 DEF Placed, Bound
  <2>2. ~ TearingDown(f)
    BY <1>0, <1>1, <1>2 DEF TearingDown, TearDown, Working
  <2>3. Accepting(f)' <=> Accepting(f)
    BY <1>1 DEF Accepting
  <2> QED
    BY <1>1, <1>3, <1>4, <2>1, <2>2, <2>3 DEF Watched
<1>6. Streamed(f)'
  <2>1. Visited(f, {"append"})' <=> Visited(f, {"append"})
    BY <1>1 DEF Visited, Others
  <2>2. \A u \in Workers : pc'[u] = "append" => pc[u] = "append" /\ job'[u] = job[u]
    BY <1>1 DEF Others, Threads
  <2> QED
    BY <1>1, <1>3, <1>4, <2>1, <2>2 DEF Streamed, Run
<1>7. Untouched'
  BY <1>1 DEF Steady, Untouched
<1>8. /\ \A u \in Threads : u # w => Placed(u)'
      /\ \A g \in Fds : g # f => Bound(g)' /\ Watched(g)' /\ Streamed(g)'
  BY <1>0, <1>1, <1>2, OthersSteady
<1> QED
  BY <1>5, <1>6, <1>7, <1>8 DEF Steady

(* The buffer continues what is in mv_data.                                 *)
LEMMA ReadDataSteady ==
  ASSUME TInv, ConnsApart, Alone, Steady, NEW w \in Workers, ReadData(w), NEW f \in Fds, job[w] = f
  PROVE  Steady'
<1> USE NameAssumption
<1>0. w \in Threads /\ w # Acceptor
  BY DEF Threads
<1>1. /\ pc[w] = "read" /\ pc'[w] = "append" /\ job'[w] = f
      /\ Others(w)
      /\ UNCHANGED <<stage, file, interest, mm_task, mi_fd, mb_closed, mv_data, job, taken, owner>>
      /\ \A u \in Threads : u # w => buf'[u] = buf[u]
  BY DEF ReadData, Goto, TInv, ThreadType, DataType, Threads, Others, object, history
<1>2. \A u \in Threads : u # w /\ job[u] = f /\ pc[u] \in Working => pc[u] = "insert" /\ file[f] # NoConn
  BY <1>0, <1>1, Lone DEF Working, Reading
<1>3. Placed(w) /\ Bound(f) /\ Watched(f) /\ Streamed(f)
  BY <1>0 DEF Steady
<1>4. SetUp(f) /\ SetUp(f)' /\ ~ Fresh(f)' /\ mi_fd[f] = f /\ file[f] \in Conns
  BY <1>0, <1>1, <1>3 DEF Placed, Bound, SetUp, Fresh, Others, Threads, TInv, KernelType
<1>5. Peer(w) = file[f]
  BY <1>4 DEF Peer
<1>6. PICK n \in Nat :
        /\ buf'[w] = [i \in 1..n |-> <<file[f], got[file[f]] + i>>]
        /\ got'[file[f]] = got[file[f]] + n
        /\ \A d \in Conns : d # file[f] => got'[d] = got[d]
  BY <1>0, <1>4, <1>5 DEF ReadData, TInv, DataType, KernelType
<1>7. Placed(w)' /\ Bound(f)'
  BY <1>1, <1>3, <1>4 DEF Placed, Bound
<1>8. Watched(f)'
  <2>1. ~ TearingDown(f)
    BY <1>0, <1>1, <1>2 DEF TearingDown, TearDown, Working
  <2>2. Accepting(f)' <=> Accepting(f)
    BY <1>1 DEF Accepting
  <2>3. \A u \in Workers : ~ (job[u] = f /\ pc[u] = "extract")
    BY <1>1, <1>2 DEF Threads, Working
  <2> QED
    BY <1>1, <1>3, <1>4, <2>1, <2>2, <2>3 DEF Watched
<1>9. Streamed(f)'
  <2>1. Visited(f, {"append"})'
    BY <1>0, <1>1 DEF Visited
  <2>2. \A u \in Threads : u # w => ~ (job[u] = f /\ pc[u] = "append")
    BY <1>2 DEF Working, Reading
  <2>3. \A u \in Workers : job'[u] = f /\ pc'[u] = "append" => u = w
    BY <1>1, <2>2 DEF Others, Threads
  <2>4. got[file[f]] = 2 * taken[file[f]] + Len(mv_data[f])
    BY <1>1, <1>3, <1>4, <2>2 DEF Streamed, Visited
  <2>5. Len(buf'[w]) = n
    BY <1>6
  <2>6. Run(buf'[w], file[f], got[file[f]])
    BY <1>6, <2>5 DEF Run
  <2>7. Run(mv_data[f], file[f], 2 * taken[file[f]])
    BY <1>3, <1>4 DEF Streamed
  <2> QED
    BY <1>1, <1>4, <1>6, <2>1, <2>3, <2>4, <2>5, <2>6, <2>7 DEF Streamed, Run
<1>10. Untouched'
  <2>1. stage[file[f]] \notin {"new", "backlog"}
    BY <1>4 DEF ConnsApart
  <2> QED
    BY <1>1, <1>4, <1>6, <2>1 DEF Steady, Untouched
<1>11. /\ \A u \in Threads : u # w => Placed(u)'
       /\ \A g \in Fds : g # f => Bound(g)' /\ Watched(g)' /\ Streamed(g)'
  <2>1. \A g \in Fds : g # f /\ file[g] # NoConn => got'[file[g]] = got[file[g]]
    BY <1>4, <1>6 DEF ConnsApart, TInv, KernelType
  <2> QED
    BY <1>0, <1>1, <1>2, <2>1, OthersSteady
<1> QED
  BY <1>7, <1>8, <1>9, <1>10, <1>11 DEF Steady

(* A run of units with the next run behind it is a run.                     *)
LEMMA RunJoined ==
  ASSUME NEW S, NEW s \in Seq(S), NEW r \in Seq(S), NEW c, NEW n \in Nat,
         Run(s, c, n), Run(r, c, n + Len(s))
  PROVE  Run(s \o r, c, n) /\ Len(s \o r) = Len(s) + Len(r)
<1>1. /\ Len(s \o r) = Len(s) + Len(r)
      /\ \A i \in 1..(Len(s) + Len(r)) : (s \o r)[i] = IF i <= Len(s) THEN s[i] ELSE r[i - Len(s)]
  BY ConcatProperties
<1>2. ASSUME NEW i \in 1..(Len(s) + Len(r)) PROVE (s \o r)[i] = <<c, n + i>>
  <2>1. CASE i <= Len(s)
    BY <1>1, <2>1 DEF Run
  <2>2. CASE i > Len(s)
    <3>1. i - Len(s) \in 1..Len(r) /\ n + Len(s) + (i - Len(s)) = n + i
      BY <2>2
    <3>2. r[i - Len(s)] = <<c, n + Len(s) + (i - Len(s))>>
      BY <3>1 DEF Run
    <3> QED
      BY <1>1, <2>2, <3>1, <3>2
  <2> QED
    BY <2>1, <2>2
<1> QED
  BY <1>1, <1>2 DEF Run

(* The buffer goes behind what is left in mv_data.                          *)
LEMMA AppendSteady ==
  ASSUME TInv, HistoryType, Alone, Steady, NEW w \in Workers, AppendData(w),
         NEW f \in Fds, job[w] = f
  PROVE  Steady'
<1> USE NameAssumption
<1>0. w \in Threads /\ w # Acceptor
  BY DEF Threads
<1>1. /\ pc[w] = "append" /\ pc'[w] = "check" /\ job'[w] = f
      /\ Others(w)
      /\ UNCHANGED <<stage, got, file, interest, mm_task, mi_fd, mb_closed, job, taken, owner>>
      /\ mv_data'[f] = mv_data[f] \o buf[w] /\ \A g \in Fds : g # f => mv_data'[g] = mv_data[g]
      /\ \A u \in Threads : u # w => buf'[u] = buf[u]
  BY DEF AppendData, Goto, TInv, ThreadType, ObjectType, DataType, Threads, Others, kernel, history
<1>2. \A u \in Threads : u # w /\ job[u] = f /\ pc[u] \in Working => pc[u] = "insert" /\ file[f] # NoConn
  BY <1>0, <1>1, Lone DEF Working, Reading
<1>3. Placed(w) /\ Bound(f) /\ Watched(f) /\ Streamed(f)
  BY <1>0 DEF Steady
<1>4. SetUp(f) /\ SetUp(f)' /\ ~ Fresh(f)' /\ file[f] \in Conns
  BY <1>0, <1>1, <1>3 DEF Placed, SetUp, Fresh, Others, Threads, TInv, KernelType
<1>5. Placed(w)' /\ Bound(f)'
  BY <1>1, <1>3, <1>4 DEF Placed, Bound
<1>6. Watched(f)'
  <2>1. ~ TearingDown(f)
    BY <1>0, <1>1, <1>2 DEF TearingDown, TearDown, Working
  <2>2. Accepting(f)' <=> Accepting(f)
    BY <1>1 DEF Accepting
  <2>3. \A u \in Workers : ~ (job[u] = f /\ pc[u] = "extract")
    BY <1>1, <1>2 DEF Threads, Working
  <2> QED
    BY <1>1, <1>3, <1>4, <2>1, <2>2, <2>3 DEF Watched
<1>7. Streamed(f)'
  <2>1. \A u \in Threads : u # w => ~ (job[u] = f /\ pc[u] = "append")
    BY <1>2 DEF Working, Reading
  <2>2. \A u \in Workers : ~ (job'[u] = f /\ pc'[u] = "append")
    BY <1>1, <2>1 DEF Others, Threads
  <2>3. /\ Run(mv_data[f], file[f], 2 * taken[file[f]])
        /\ got[file[f]] = 2 * taken[file[f]] + Len(mv_data[f]) + Len(buf[w])
        /\ Run(buf[w], file[f], 2 * taken[file[f]] + Len(mv_data[f]))
    BY <1>1, <1>3, <1>4 DEF Streamed
  <2>4. mv_data[f] \in Seq(Units) /\ buf[w] \in Seq(Units) /\ taken[file[f]] \in Nat
    BY <1>0, <1>4 DEF TInv, ObjectType, DataType, HistoryType
  <2>5. /\ Run(mv_data'[f], file[f], 2 * taken[file[f]])
        /\ Len(mv_data'[f]) = Len(mv_data[f]) + Len(buf[w])
    <3> DEFINE n == 2 * taken[file[f]]
    <3>1. n \in Nat
      BY <2>4
    <3> HIDE DEF n
    <3>2. Run(mv_data[f], file[f], n) /\ Run(buf[w], file[f], n + Len(mv_data[f]))
      BY <2>3 DEF n
    <3>3. /\ Run(mv_data[f] \o buf[w], file[f], n)
          /\ Len(mv_data[f] \o buf[w]) = Len(mv_data[f]) + Len(buf[w])
      BY <2>4, <3>1, <3>2, RunJoined
    <3> QED
      BY <1>1, <3>3 DEF n
  <2>6. got[file[f]] = 2 * taken[file[f]] + Len(mv_data'[f])
    <3> DEFINE n == 2 * taken[file[f]]
               l == Len(mv_data[f])
               m == Len(buf[w])
    <3>1. n \in Nat /\ l \in Nat /\ m \in Nat
      BY <2>4, LenProperties
    <3>2. got[file[f]] = n + l + m /\ Len(mv_data'[f]) = l + m
      BY <2>3, <2>5
    <3> HIDE DEF n, l, m
    <3>3. got[file[f]] = n + Len(mv_data'[f])
      BY <3>1, <3>2
    <3> QED
      BY <3>3 DEF n
  <2> QED
    BY <1>1, <1>4, <2>2, <2>5, <2>6 DEF Streamed, Run
<1>8. Untouched'
  BY <1>1 DEF Steady, Untouched
<1>9. /\ \A u \in Threads : u # w => Placed(u)'
      /\ \A g \in Fds : g # f => Bound(g)' /\ Watched(g)' /\ Streamed(g)'
  BY <1>0, <1>1, <1>2, OthersSteady
<1> QED
  BY <1>5, <1>6, <1>7, <1>8, <1>9 DEF Steady

(* The first two units of a run, and the run behind them.                   *)
LEMMA RunSplit ==
  ASSUME NEW S, NEW s \in Seq(S), NEW c, NEW n \in Nat, Run(s, c, n), Len(s) >= 2
  PROVE  /\ SubSeq(s, 1, 2) = <<<<c, n + 1>>, <<c, n + 2>>>>
         /\ Len(SubSeq(s, 3, Len(s))) = Len(s) - 2
         /\ Run(SubSeq(s, 3, Len(s)), c, n + 2)
<1>1. /\ SubSeq(s, 1, 2) \in Seq(S) /\ Len(SubSeq(s, 1, 2)) = 2
      /\ SubSeq(s, 1, 2)[1] = s[1] /\ SubSeq(s, 1, 2)[2] = s[2]
  BY SubSeqProperties
<1>2. s[1] = <<c, n + 1>> /\ s[2] = <<c, n + 2>>
  <2>1. 1 \in 1..Len(s) /\ 2 \in 1..Len(s)
    BY LenProperties
  <2> QED
    BY <2>1 DEF Run
<1>3. SubSeq(s, 1, 2) = <<s[1], s[2]>>
  <2>1. s[1] \in S /\ s[2] \in S
    BY ElementOfSeq
  <2>2. <<s[1], s[2]>> \in Seq(S) /\ Len(<<s[1], s[2]>>) = 2
    BY <2>1
  <2>3. \A i \in 1..2 : SubSeq(s, 1, 2)[i] = <<s[1], s[2]>>[i]
    BY <1>1
  <2> QED
    BY <1>1, <2>2, <2>3, SeqEqual
<1>4. /\ Len(SubSeq(s, 3, Len(s))) = Len(s) - 2
      /\ \A i \in 1..(Len(s) - 2) : SubSeq(s, 3, Len(s))[i] = s[i + 2]
  <2>1. Len(s) \in Nat /\ \A i \in 3..Len(s) : s[i] \in S
    BY LenProperties
  <2> DEFINE m == Len(s)
  <2>2. m \in Int /\ 3 \in Int /\ \A i \in 3..m : s[i] \in S
    BY <2>1
  <2>3. m \in Nat /\ m >= 2
    BY <2>1
  <2> HIDE DEF m
  <2>4. /\ Len(SubSeq(s, 3, m)) = IF 3 <= m THEN m - 3 + 1 ELSE 0
        /\ \A i \in 1..(m - 3 + 1) : SubSeq(s, 3, m)[i] = s[3 + i - 1]
    BY <2>2, SubSeqProperties
  <2>5. Len(SubSeq(s, 3, m)) = m - 2
    BY <2>3, <2>4
  <2>6. ASSUME NEW i \in 1..(m - 2) PROVE SubSeq(s, 3, m)[i] = s[i + 2]
    <3>1. i \in 1..(m - 3 + 1) /\ 3 + i - 1 = i + 2
      BY <2>3
    <3>2. SubSeq(s, 3, m)[i] = s[3 + i - 1]
      BY <2>4, <3>1
    <3> QED
      BY <3>1, <3>2, Zenon
  <2> QED
    BY <2>5, <2>6 DEF m
<1>5. ASSUME NEW i \in 1..(Len(s) - 2) PROVE SubSeq(s, 3, Len(s))[i] = <<c, n + 2 + i>>
  <2>1. i + 2 \in 1..Len(s) /\ n + (i + 2) = n + 2 + i
    OBVIOUS
  <2> QED
    BY <1>4, <2>1 DEF Run
<1> QED
  BY <1>2, <1>3, <1>4, <1>5 DEF Run

(* What is taken from the front of mv_data is the connection's next frame.  *)
LEMMA TakeFrameSteady ==
  ASSUME TInv, ConnsApart, HistoryType, Alone, Steady, NEW w \in Workers, TakeFrame(w),
         NEW f \in Fds, job[w] = f
  PROVE  Steady' /\ torn' = torn
<1> USE NameAssumption
<1>0. w \in Threads /\ w # Acceptor
  BY DEF Threads
<1> DEFINE c == file[f]
<1>1. /\ pc[w] = "extract"
      /\ UNCHANGED <<stage, got, file, interest, mm_task, mi_fd, mb_closed, pc, job, buf, owner>>
      /\ Len(mv_data[f]) >= 2
      /\ mv_data'[f] = SubSeq(mv_data[f], 3, Len(mv_data[f]))
      /\ \A g \in Fds : g # f => mv_data'[g] = mv_data[g]
  BY DEF TakeFrame, TInv, ObjectType, kernel
<1>2. \A u \in Threads : u # w /\ job[u] = f /\ pc[u] \in Working => pc[u] = "insert" /\ file[f] # NoConn
  BY <1>0, <1>1, Lone DEF Working
<1>3. Placed(w) /\ Bound(f) /\ Watched(f) /\ Streamed(f)
  BY <1>0 DEF Steady
<1>4. SetUp(f) /\ SetUp(f)' /\ ~ Fresh(f)' /\ c \in Conns
  BY <1>1, <1>3 DEF Placed, SetUp, Fresh, TInv, KernelType
<1>5. mv_data[f] \in Seq(Units) /\ taken[c] \in Nat /\ Run(mv_data[f], c, 2 * taken[c])
  BY <1>3, <1>4 DEF TInv, ObjectType, HistoryType, Streamed
<1>6. /\ SubSeq(mv_data[f], 1, 2) = <<<<c, 2 * taken[c] + 1>>, <<c, 2 * taken[c] + 2>>>>
      /\ Len(mv_data'[f]) = Len(mv_data[f]) - 2
      /\ Run(mv_data'[f], c, 2 * taken[c] + 2)
  BY <1>1, <1>5, RunSplit
<1>7. taken' = [taken EXCEPT ![c] = @ + 1] /\ torn' = torn
  <2> DEFINE frame == SubSeq(mv_data[f], 1, 2)
  <2>1. frame[1][1] = c
    <3>1. frame = <<<<c, 2 * taken[c] + 1>>, <<c, 2 * taken[c] + 2>>>>
      BY <1>6
    <3> HIDE DEF frame, c
    <3> QED
      BY <3>1
  <2> HIDE DEF c
  <2>2. IsNext(frame, c)
    BY <1>6 DEF IsNext
  <2> QED
    BY <2>1, <2>2 DEF TakeFrame
<1>8. taken'[c] = taken[c] + 1 /\ \A d \in Conns : d # c => taken'[d] = taken[d]
  BY <1>4, <1>7 DEF HistoryType
<1>9. Placed(w)' /\ Bound(f)' /\ Watched(f)'
  <2>1. TearingDown(f)' <=> TearingDown(f)
    BY <1>1 DEF TearingDown
  <2>2. Accepting(f)' <=> Accepting(f)
    BY <1>1 DEF Accepting
  <2> QED
    BY <1>1, <1>3, <1>4, <2>1, <2>2 DEF Placed, Bound, Watched
<1>10. Streamed(f)'
  <2>1. \A u \in Threads : ~ (job[u] = f /\ pc[u] = "append")
    BY <1>0, <1>1, <1>2 DEF Working, Reading
  <2>2. \A u \in Workers : ~ (job'[u] = f /\ pc'[u] = "append")
    BY <1>1, <2>1 DEF Threads
  <2>3. got[c] = 2 * taken[c] + Len(mv_data[f])
    BY <1>3, <1>4, <2>1 DEF Streamed, Visited
  <2>4. got[c] = 2 * taken'[c] + Len(mv_data'[f]) /\ Run(mv_data'[f], c, 2 * taken'[c])
    <3>1. 2 * taken'[c] = 2 * taken[c] + 2 /\ Len(mv_data[f]) \in Nat
      BY <1>5, <1>8, LenProperties
    <3>2. Run(mv_data'[f], c, 2 * taken'[c])
      BY <1>6, <3>1
    <3>3. got[c] = 2 * taken'[c] + Len(mv_data'[f])
      <4> DEFINE n == 2 * taken[c]
                 l == Len(mv_data[f])
      <4>1. n \in Nat /\ l \in Nat /\ got[c] = n + l
        BY <1>5, <2>3, <3>1
      <4>2. 2 * taken'[c] = n + 2 /\ Len(mv_data'[f]) = l - 2
        BY <1>6, <3>1
      <4> HIDE DEF n, l
      <4> QED
        BY <4>1, <4>2
    <3> QED
      BY <3>2, <3>3
  <2> QED
    BY <1>1, <1>4, <2>2, <2>4 DEF Streamed
<1>11. Untouched'
  <2>1. stage[c] \notin {"new", "backlog"}
    BY <1>4 DEF ConnsApart
  <2> QED
    BY <1>1, <1>4, <1>8, <2>1 DEF Steady, Untouched
<1>12. /\ \A u \in Threads : u # w => Placed(u)'
       /\ \A g \in Fds : g # f => Bound(g)' /\ Watched(g)' /\ Streamed(g)'
  <2>1. \A g \in Fds : g # f /\ file[g] # NoConn => taken'[file[g]] = taken[file[g]]
    BY <1>4, <1>8 DEF ConnsApart, TInv, KernelType
  <2>2. Others(w)
    BY <1>1 DEF Others
  <2> QED
    BY <1>0, <1>1, <1>2, <2>1, <2>2, OthersSteady
<1> QED
  BY <1>7, <1>9, <1>10, <1>11, <1>12 DEF Steady

-----------------------------------------------------------------------------
(* The steps of del_task(task) and clear(): out of epoll, the close(), and  *)
(* the task object back as it was.                                          *)
LEMMA EventDelSteady ==
  ASSUME TInv, Alone, Steady, NEW t \in Threads, EventDel(t), NEW f \in Fds, job[t] = f
  PROVE  Steady'
<1> USE NameAssumption
<1>0. t # Acceptor
  BY DEF TInv, ThreadType, AcceptorPC, Initialising, EventDel, Goto
<1>1. /\ pc[t] = "event_del" /\ pc'[t] = "test" /\ job'[t] = f
      /\ Others(t)
      /\ UNCHANGED <<stage, got, file, mm_task, mi_fd, mb_closed, mv_data, job, buf, taken, owner>>
      /\ interest' = interest \ {mi_fd[f]} /\ mi_fd[f] \in {f, NoFd}
  BY DEF EventDel, Goto, TInv, ThreadType, ObjectType, Threads, Others, object, history
<1>2. \A u \in Threads : u # t /\ job[u] = f /\ pc[u] \in Working => pc[u] = "insert" /\ file[f] # NoConn
  BY <1>1, Lone DEF Working, TearDown
<1>3. Placed(t) /\ Bound(f) /\ Streamed(f)
  BY DEF Steady
<1>4. (SetUp(f)' <=> SetUp(f)) /\ (Fresh(f)' <=> Fresh(f))
  BY <1>0, <1>1 DEF SetUp, Fresh, Others, Threads
<1>5. /\ \A places : "event_del" \notin places /\ "test" \notin places =>
           (Visited(f, places)' <=> Visited(f, places))
  BY <1>1 DEF Visited, Others
<1>6. Placed(t)' /\ Bound(f)'
  BY <1>1, <1>3, <1>4, <1>5 DEF Placed, Bound
<1>7. Watched(f)'
  BY <1>1 DEF Watched, TearingDown, TearDown
<1>8. Streamed(f)'
  <2>1. \A w \in Workers : pc'[w] = "append" => pc[w] = "append" /\ job'[w] = job[w]
    BY <1>1 DEF Others, Threads
  <2> QED
    BY <1>1, <1>3, <1>4, <1>5, <2>1 DEF Streamed, Run
<1>9. Untouched'
  BY <1>1 DEF Steady, Untouched
<1>10. /\ \A u \in Threads : u # t => Placed(u)'
       /\ \A g \in Fds : g # f => Bound(g)' /\ Watched(g)' /\ Streamed(g)'
  <2>1. \A g \in Fds : g # f => (g \in interest' <=> g \in interest)
    BY <1>1
  <2> QED
    BY <1>1, <1>2, <2>1, OthersSteady
<1> QED
  BY <1>6, <1>7, <1>8, <1>9, <1>10 DEF Steady

(* The connection behind the descriptor is the one its task was set up for. *)
LEMMA CloseSteady ==
  ASSUME TInv, ConnsApart, Alone, Steady, NEW t \in Threads, Close(t), NEW f \in Fds, job[t] = f
  PROVE  Steady' /\ (crossed' => crossed)
<1> USE NameAssumption
<1>0. t # Acceptor
  BY DEF TInv, ThreadType, AcceptorPC, Initialising, Close, Goto
<1> DEFINE c == file[f]
<1>1. /\ pc[t] = "close" /\ pc'[t] = "unset" /\ job'[t] = f
      /\ Others(t)
      /\ UNCHANGED <<mm_task, mi_fd, mb_closed, mv_data, job, buf, taken, owner>>
  BY DEF Close, Goto, TInv, ThreadType, Threads, Others, object
<1>2. \A u \in Threads : u # t /\ job[u] = f /\ pc[u] \in Working => pc[u] = "insert" /\ file[f] # NoConn
  BY <1>1, Lone DEF Working, TearDown
<1>3. Placed(t) /\ Bound(f) /\ Streamed(f)
  BY DEF Steady
<1>4. SetUp(f) /\ mi_fd[f] = f /\ c = owner[f] /\ c \in Conns /\ f # NoFd
  BY <1>1, <1>3 DEF Placed, Bound, SetUp, TInv, KernelType
<1>5. /\ stage'[c] = "closed" /\ \A d \in Conns : d # c => stage'[d] = stage[d]
      /\ \A d \in Conns : d # c => got'[d] = got[d]
      /\ file'[f] = NoConn /\ \A g \in Fds : g # f => file'[g] = file[g]
      /\ interest' = interest \ {f}
      /\ crossed' = (crossed \/ c # owner[f])
  BY <1>4 DEF Close, TInv, KernelType
<1>6. ~ Fresh(f)' /\ ~ SetUp(f)'
  BY <1>0, <1>1, <1>4, <1>5 DEF SetUp, Fresh, Others, Threads
<1>7. Placed(t)' /\ Bound(f)'
  <2>1. Visited(f, {"unset", "wipe"})' /\ Visited(f, {"unset", "wipe", "init_fd"})'
    BY <1>1 DEF Visited
  <2> QED
    BY <1>1, <1>6, <2>1 DEF Placed, Bound
<1>8. Watched(f)' /\ Streamed(f)'
  BY <1>6 DEF Watched, Streamed
<1>9. Untouched'
  BY <1>1, <1>5 DEF Steady, Untouched
<1>10. /\ \A u \in Threads : u # t => Placed(u)'
       /\ \A g \in Fds : g # f => Bound(g)' /\ Watched(g)' /\ Streamed(g)'
  <2>1. \A u \in Threads : ~ (u # t /\ job[u] = f /\ pc[u] \in Working)
    BY <1>1, <1>4, Lone DEF Working, TearDown, SetUp, Fresh
  <2>2. \A g \in Fds : g # f =>
          /\ g \in interest' <=> g \in interest
          /\ file[g] # NoConn => got'[file[g]] = got[file[g]]
    BY <1>4, <1>5 DEF ConnsApart, TInv, KernelType
  <2> QED
    BY <1>1, <1>5, <2>1, <2>2, OthersSteady
<1>11. crossed' => crossed
  BY <1>4, <1>5
<1> QED
  BY <1>7, <1>8, <1>9, <1>10, <1>11 DEF Steady

(* mi_fd goes only when the descriptor is closed.                           *)
LEMMA UnsetSteady ==
  ASSUME TInv, Alone, Steady, NEW t \in Threads, Unset(t), NEW f \in Fds, job[t] = f
  PROVE  Steady'
<1> USE NameAssumption
<1>0. t # Acceptor
  BY DEF TInv, ThreadType, AcceptorPC, Initialising, Unset, Goto
<1>1. /\ pc[t] = "unset" /\ pc'[t] = "wipe" /\ job'[t] = f
      /\ Others(t)
      /\ UNCHANGED <<stage, got, file, interest, mm_task, mb_closed, mv_data, job, buf, taken, owner>>
      /\ mi_fd'[f] = NoFd /\ \A g \in Fds : g # f => mi_fd'[g] = mi_fd[g]
  BY DEF Unset, Goto, TInv, ThreadType, ObjectType, Threads, Others, kernel, history
<1>2. \A u \in Threads : u # t /\ job[u] = f /\ pc[u] \in Working => pc[u] = "insert" /\ file[f] # NoConn
  BY <1>1, Lone DEF Working, TearDown
<1>3. Placed(t) /\ Bound(f) /\ Streamed(f)
  BY DEF Steady
<1>4. ~ SetUp(f) /\ ~ SetUp(f)' /\ (Fresh(f)' <=> Fresh(f))
  BY <1>0, <1>1, <1>3 DEF Placed, SetUp, Fresh, Others, Threads
<1>5. Placed(t)' /\ Bound(f)'
  <2>1. Visited(f, {"unset", "wipe"})' /\ Visited(f, {"unset", "wipe", "init_fd"})'
    BY <1>1 DEF Visited
  <2> QED
    BY <1>1, <1>4, <2>1 DEF Placed, Bound
<1>6. Watched(f)' /\ Streamed(f)' /\ Untouched'
  BY <1>1, <1>3, <1>4 DEF Watched, Streamed, Steady, Untouched
<1>7. /\ \A u \in Threads : u # t => Placed(u)'
      /\ \A g \in Fds : g # f => Bound(g)' /\ Watched(g)' /\ Streamed(g)'
  BY <1>1, <1>2, OthersSteady
<1> QED
  BY <1>5, <1>6, <1>7 DEF Steady

(* The object is empty and closed before the thread leaves it.              *)
LEMMA WipeSteady ==
  ASSUME TInv, Alone, Steady, NEW t \in Threads, Wipe(t), NEW f \in Fds, job[t] = f
  PROVE  Steady'
<1> USE NameAssumption
<1>0. t # Acceptor
  BY DEF TInv, ThreadType, AcceptorPC, Initialising, Wipe, Goto, Finish
<1>1. /\ pc[t] = "wipe" /\ pc'[t] \in {"free", "dispatch", "scan"} /\ job'[t] = NoFd
      /\ Others(t)
      /\ UNCHANGED <<stage, got, file, interest, mm_task, mi_fd, taken, owner>>
      /\ mb_closed'[f] /\ \A g \in Fds : g # f => mb_closed'[g] = mb_closed[g]
      /\ mv_data'[f] = <<>> /\ \A g \in Fds : g # f => mv_data'[g] = mv_data[g]
      /\ \A u \in Threads : u # t => buf'[u] = buf[u]
  BY DEF Wipe, Finish, Goto, TInv, ThreadType, ObjectType, DataType, Threads, Others, kernel, history
<1>2. \A u \in Threads : u # t /\ job[u] = f /\ pc[u] \in Working => pc[u] = "insert" /\ file[f] # NoConn
  BY <1>1, Lone DEF Working, TearDown
<1>3. Placed(t) /\ Bound(f) /\ Streamed(f)
  BY DEF Steady
<1>4. ~ SetUp(f) /\ ~ SetUp(f)' /\ (Fresh(f)' <=> Fresh(f)) /\ mi_fd[f] = NoFd
  BY <1>0, <1>1, <1>3 DEF Placed, SetUp, Fresh, Others, Threads
<1>5. Placed(t)' /\ Bound(f)'
  BY <1>1, <1>4 DEF Placed, Bound
<1>6. Watched(f)' /\ Streamed(f)' /\ Untouched'
  BY <1>1, <1>3, <1>4 DEF Watched, Streamed, Steady, Untouched
<1>7. /\ \A u \in Threads : u # t => Placed(u)'
      /\ \A g \in Fds : g # f => Bound(g)' /\ Watched(g)' /\ Streamed(g)'
  BY <1>1, <1>2, OthersSteady
<1> QED
  BY <1>5, <1>6, <1>7 DEF Steady

-----------------------------------------------------------------------------
(* Two descriptors are never on one connection, and a connection that was   *)
(* not accepted yet is on none.                                             *)
LEMMA ConnsApartStep ==
  ASSUME TInv, ConnsApart, [Next]_vars
  PROVE  ConnsApart'
<1> USE NameAssumption DEF TInv, ThreadType, ConnsApart, Goto
<1>0. ASSUME UNCHANGED <<stage, file, batch>>, pc'[Waiter] = "wait" => pc[Waiter] = "wait",
             pc'[Acceptor] = "accept" => pc[Acceptor] = "accept" /\ job'[Acceptor] = job[Acceptor]
      PROVE  ConnsApart'
  BY <1>0
<1>1. ASSUME NEW c \in Conns, Connect(c) PROVE ConnsApart'
  BY <1>1 DEF Connect, ClientUnchanged, KernelType
<1>2. ASSUME NEW c \in Conns, Send(c) PROVE ConnsApart'
  BY <1>0, <1>2 DEF Send, ClientUnchanged
<1>3. ASSUME NEW c \in Conns, ClientCloses(c) PROVE ConnsApart'
  BY <1>0, <1>3 DEF ClientCloses, ClientUnchanged
<1>4. ASSUME NEW c \in Conns, ClientResets(c) PROVE ConnsApart'
  BY <1>0, <1>4 DEF ClientResets, ClientUnchanged
<1>5. ASSUME NEW f \in Fds, GrowsIdle(f) PROVE ConnsApart'
  BY <1>0, <1>5 DEF GrowsIdle, kernel, Threads, WorkerPC, WaiterPC, CleanerPC, AcceptorPC, TearDown, Reading, Initialising
<1>6. ASSUME NEW c \in Conns, NEW f \in Fds, Accept(c, f) PROVE ConnsApart'
  BY <1>6 DEF Accept, KernelType, Threads
<1>7. CASE Insert
  BY <1>0, <1>7 DEF Insert, kernel, Threads, WorkerPC, WaiterPC, CleanerPC, AcceptorPC, TearDown, Reading, Initialising
<1>8. CASE InitFd
  BY <1>0, <1>8 DEF InitFd, kernel, Threads, WorkerPC, WaiterPC, CleanerPC, AcceptorPC, TearDown, Reading, Initialising
<1>9. CASE InitRest
  BY <1>0, <1>9 DEF InitRest, kernel, Threads, WorkerPC, WaiterPC, CleanerPC, AcceptorPC, TearDown, Reading, Initialising
<1>10. CASE EventAdd
  BY <1>10 DEF EventAdd, Threads
<1>11. CASE Wait
  BY <1>11 DEF Wait, Threads
<1>12. CASE BatchDone
  BY <1>12 DEF BatchDone, kernel, Threads
<1>13. ASSUME NEW e \in batch, DispatchError(e) PROVE ConnsApart'
  BY <1>13 DEF DispatchError, kernel, Threads
<1>14. ASSUME NEW e \in batch, DispatchRead(e) PROVE ConnsApart'
  BY <1>14 DEF DispatchRead, kernel, Threads
<1>15. ASSUME NEW f \in Fds, Expire(f) PROVE ConnsApart'
  BY <1>0, <1>15 DEF Expire, kernel, Threads, WorkerPC, WaiterPC, CleanerPC, AcceptorPC, TearDown, Reading, Initialising
<1>16. ASSUME NEW w \in Workers, Begin(w) PROVE ConnsApart'
  BY <1>0, <1>16 DEF Begin, kernel, Threads, WorkerPC, WaiterPC, CleanerPC, AcceptorPC, TearDown, Reading, Initialising
<1>17. ASSUME NEW w \in Workers, CheckClosed(w) PROVE ConnsApart'
  BY <1>0, <1>17 DEF CheckClosed, kernel, Threads, WorkerPC, WaiterPC, CleanerPC, AcceptorPC, TearDown, Reading, Initialising
<1>18. ASSUME NEW w \in Workers, ReadEnds(w) PROVE ConnsApart'
  BY <1>0, <1>18 DEF ReadEnds, kernel, Threads, WorkerPC, WaiterPC, CleanerPC, AcceptorPC, TearDown, Reading, Initialising
<1>19. ASSUME NEW w \in Workers, ReadAgain(w) PROVE ConnsApart'
  BY <1>0, <1>19 DEF ReadAgain, kernel, Threads, WorkerPC, WaiterPC, CleanerPC, AcceptorPC, TearDown, Reading, Initialising
<1>20. ASSUME NEW w \in Workers, ReadData(w) PROVE ConnsApart'
  BY <1>0, <1>20 DEF ReadData, kernel, Threads, WorkerPC, WaiterPC, CleanerPC, AcceptorPC, TearDown, Reading, Initialising
<1>21. ASSUME NEW w \in Workers, AppendData(w) PROVE ConnsApart'
  BY <1>0, <1>21 DEF AppendData, kernel, Threads, WorkerPC, WaiterPC, CleanerPC, AcceptorPC, TearDown, Reading, Initialising
<1>22. ASSUME NEW w \in Workers, NoFrame(w) PROVE ConnsApart'
  BY <1>0, <1>22 DEF NoFrame, kernel, Finish, Threads, WorkerPC, WaiterPC, CleanerPC, AcceptorPC, TearDown, Reading, Initialising
<1>23. ASSUME NEW w \in Workers, TakeFrame(w) PROVE ConnsApart'
  BY <1>0, <1>23 DEF TakeFrame, kernel, Threads, WorkerPC, WaiterPC, CleanerPC, AcceptorPC, TearDown, Reading, Initialising
<1>24. ASSUME NEW w \in Workers, ParseSucceeds(w) PROVE ConnsApart'
  BY <1>0, <1>24 DEF ParseSucceeds, kernel, Finish, Threads, WorkerPC, WaiterPC, CleanerPC, AcceptorPC, TearDown, Reading, Initialising
<1>25. ASSUME NEW w \in Workers, ParseQuits(w) PROVE ConnsApart'
  BY <1>0, <1>25 DEF ParseQuits, kernel, Threads, WorkerPC, WaiterPC, CleanerPC, AcceptorPC, TearDown, Reading, Initialising
<1>26. ASSUME NEW t \in Threads, EventDel(t) PROVE ConnsApart'
  BY <1>0, <1>26 DEF EventDel, kernel, Threads, WorkerPC, WaiterPC, CleanerPC, AcceptorPC, TearDown, Reading, Initialising
<1>27. ASSUME NEW t \in Threads, TestFd(t) PROVE ConnsApart'
  BY <1>0, <1>27 DEF TestFd, kernel, Threads, WorkerPC, WaiterPC, CleanerPC, AcceptorPC, TearDown, Reading, Initialising
<1>28. ASSUME NEW t \in Threads, Close(t) PROVE ConnsApart'
  <2>1. /\ pc'[Waiter] = "wait" => pc[Waiter] = "wait"
        /\ pc'[Acceptor] = "accept" => pc[Acceptor] = "accept" /\ job'[Acceptor] = job[Acceptor]
        /\ batch' = batch
    BY <1>28 DEF Close, Threads
  <2>2. CASE mi_fd[job[t]] = NoFd \/ file[mi_fd[job[t]]] = NoConn
    BY <1>0, <1>28, <2>1, <2>2 DEF Close, kernel
  <2>3. CASE ~ (mi_fd[job[t]] = NoFd \/ file[mi_fd[job[t]]] = NoConn)
    <3>1. PICK f \in Fds : mi_fd[job[t]] = f /\ file[f] \in Conns
      BY <1>28, <2>3 DEF Close, ObjectType, KernelType, Working, TearDown
    <3>2. file' = [file EXCEPT ![f] = NoConn] /\ stage' = [stage EXCEPT ![file[f]] = "closed"]
      BY <1>28, <2>3, <3>1 DEF Close
    <3> QED
      BY <2>1, <3>1, <3>2 DEF KernelType
  <2> QED
    BY <2>2, <2>3
<1>29. ASSUME NEW t \in Threads, Unset(t) PROVE ConnsApart'
  BY <1>0, <1>29 DEF Unset, kernel, Threads, WorkerPC, WaiterPC, CleanerPC, AcceptorPC, TearDown, Reading, Initialising
<1>30. ASSUME NEW t \in Threads, Wipe(t) PROVE ConnsApart'
  BY <1>0, <1>30 DEF Wipe, kernel, Finish, Threads, WorkerPC, WaiterPC, CleanerPC, AcceptorPC, TearDown, Reading, Initialising
<1>31. CASE Crash
  BY <1>0, <1>31 DEF Crash, kernel
<1>32. CASE UNCHANGED vars
  BY <1>0, <1>32 DEF vars, system, kernel
<1> QED
  BY <1>1, <1>2, <1>3, <1>4, <1>5, <1>6, <1>7, <1>8, <1>9, <1>10, <1>11, <1>12, <1>13, <1>14, <1>15,
     <1>16, <1>17, <1>18, <1>19, <1>20, <1>21, <1>22, <1>23, <1>24, <1>25, <1>26, <1>27, <1>28,
     <1>29, <1>30, <1>31, <1>32
  DEF Next, Step, ClientStep, AcceptorStep, WaiterStep, CleanerStep, WorkerStep, ReadStep,
      TearDownStep, Threads

(* The history variables keep their shape.                                  *)
LEMMA HistoryTypeStep ==
  ASSUME TInv, HistoryType, [Next]_vars
  PROVE  HistoryType'
<1>1. ASSUME NEW w \in Workers, TakeFrame(w) PROVE HistoryType'
  <2>1. PICK c : taken' = taken \/ taken' = [taken EXCEPT ![c] = @ + 1]
    BY <1>1 DEF TakeFrame
  <2>2. owner' = owner
    BY <1>1 DEF TakeFrame
  <2> QED
    BY <2>1, <2>2 DEF HistoryType
<1>2. CASE InitFd
  <2>1. job[Acceptor] \in Fds /\ file[job[Acceptor]] \in Conns \cup {NoConn}
    BY <1>2 DEF InitFd, Goto, TInv, ThreadType, KernelType, Threads, Working, Initialising
  <2> QED
    BY <1>2, <2>1 DEF InitFd, HistoryType
<1>3. CASE (\E w \in Workers : TakeFrame(w)) \/ InitFd
  BY <1>1, <1>2, <1>3
<1>4. CASE UNCHANGED <<taken, owner>>
  BY <1>4 DEF HistoryType
<1> QED
  BY <1>3, <1>4
  DEF Next, Step, ClientStep, AcceptorStep, WaiterStep, CleanerStep, WorkerStep, ReadStep, TearDownStep,
      Connect, Send, ClientCloses, ClientResets, ClientUnchanged, GrowsIdle, Accept, Insert, InitRest,
      EventAdd, Wait, BatchDone, DispatchError, DispatchRead, Expire, Begin, CheckClosed, ReadEnds,
      ReadAgain, ReadData, AppendData, NoFrame, ParseSucceeds, ParseQuits, EventDel, TestFd, Close,
      Unset, Wipe, Crash, history, vars, system

-----------------------------------------------------------------------------
(* As long as nobody shares a task object, every step keeps the tasks as    *)
(* they should be, takes whole frames and closes nobody else's connection.  *)
LEMMA SteadyStep ==
  ASSUME TInv, Known, ConnsApart, HistoryType, Alone, Alone', Steady, Step
  PROVE  Steady' /\ (torn' => torn) /\ (crossed' => crossed)
<1> DEFINE Goal == Steady' /\ (torn' => torn) /\ (crossed' => crossed)
<1>0. \A t \in Threads : pc[t] \in Working => job[t] \in Fds
  BY DEF TInv, ThreadType
<1>w. \A w \in Workers : w \in Threads
  BY DEF Threads
<1>1. ASSUME NEW c \in Conns, Connect(c) PROVE Goal
  <2>1. Untouched'
    BY <1>1 DEF Connect, ClientUnchanged, history, Steady, Untouched, TInv, KernelType
  <2>2. UNCHANGED <<got, file, interest, mm_task, mi_fd, mb_closed, mv_data, pc, job, buf, taken, owner,
                    torn, crossed>>
    BY <1>1 DEF Connect, ClientUnchanged, object, history
  <2> QED
    BY <2>1, <2>2, CalmSteady
<1>2. ASSUME NEW c \in Conns, Send(c) PROVE Goal
  <2>1. Untouched'
    BY <1>2 DEF Send, ClientUnchanged, history, Steady, Untouched, TInv, KernelType
  <2>2. UNCHANGED <<got, file, interest, mm_task, mi_fd, mb_closed, mv_data, pc, job, buf, taken, owner,
                    torn, crossed>>
    BY <1>2 DEF Send, ClientUnchanged, object, history
  <2> QED
    BY <2>1, <2>2, CalmSteady
<1>3. ASSUME NEW c \in Conns, ClientCloses(c) PROVE Goal
  <2>1. Untouched'
    BY <1>3 DEF ClientCloses, ClientUnchanged, history, Steady, Untouched, TInv, KernelType
  <2>2. UNCHANGED <<got, file, interest, mm_task, mi_fd, mb_closed, mv_data, pc, job, buf, taken, owner,
                    torn, crossed>>
    BY <1>3 DEF ClientCloses, ClientUnchanged, object, history
  <2> QED
    BY <2>1, <2>2, CalmSteady
<1>4. ASSUME NEW c \in Conns, ClientResets(c) PROVE Goal
  <2>1. Untouched'
    BY <1>4 DEF ClientResets, ClientUnchanged, history, Steady, Untouched, TInv, KernelType
  <2>2. UNCHANGED <<got, file, interest, mm_task, mi_fd, mb_closed, mv_data, pc, job, buf, taken, owner,
                    torn, crossed>>
    BY <1>4 DEF ClientResets, ClientUnchanged, object, history
  <2> QED
    BY <2>1, <2>2, CalmSteady
<1>5. ASSUME NEW f \in Fds, GrowsIdle(f) PROVE Goal
  <2>1. UNCHANGED <<stage, got, file, interest, mm_task, mi_fd, mb_closed, mv_data, pc, job, buf, taken,
                    owner, torn, crossed>>
    BY <1>5 DEF GrowsIdle, kernel, object, history
  <2>2. Untouched'
    BY <2>1 DEF Steady, Untouched
  <2> QED
    BY <2>1, <2>2, CalmSteady
<1>6. ASSUME NEW c \in Conns, NEW f \in Fds, Accept(c, f) PROVE Goal
  BY <1>6, AcceptSteady DEF Accept, history
<1>7. CASE Insert
  <2>1. job[Acceptor] \in Fds
    BY <1>0, <1>w, <1>7 DEF Insert, Goto, Working, Reading, TearDown, Initialising, Threads
  <2>2. torn' = torn /\ crossed' = crossed
    BY <1>7 DEF Insert, history
  <2> QED
    BY <1>7, <2>1, <2>2, InsertSteady
<1>8. CASE InitFd
  <2>1. job[Acceptor] \in Fds
    BY <1>0, <1>w, <1>8 DEF InitFd, Goto, Working, Reading, TearDown, Initialising, Threads
  <2>2. torn' = torn /\ crossed' = crossed
    BY <1>8 DEF InitFd, history
  <2> QED
    BY <1>8, <2>1, <2>2, InitFdSteady
<1>9. CASE InitRest
  <2>1. job[Acceptor] \in Fds
    BY <1>0, <1>w, <1>9 DEF InitRest, Goto, Working, Reading, TearDown, Initialising, Threads
  <2>2. torn' = torn /\ crossed' = crossed
    BY <1>9 DEF InitRest, history
  <2> QED
    BY <1>9, <2>1, <2>2, InitRestSteady
<1>10. CASE EventAdd
  <2>1. job[Acceptor] \in Fds
    BY <1>0, <1>w, <1>10 DEF EventAdd, Goto, Working, Reading, TearDown, Initialising, Threads
  <2>2. torn' = torn /\ crossed' = crossed
    BY <1>10 DEF EventAdd, history
  <2> QED
    BY <1>10, <2>1, <2>2, EventAddSteady
<1>11. CASE Wait
  BY <1>11, PlainSteady DEF Wait, history
<1>12. CASE BatchDone
  BY <1>12, PlainSteady DEF BatchDone, history
<1>13. ASSUME NEW e \in batch, DispatchError(e) PROVE Goal
  BY <1>13, PlainSteady DEF DispatchError, history
<1>14. ASSUME NEW e \in batch, DispatchRead(e) PROVE Goal
  <2>1. UNCHANGED <<stage, got, file, interest, mm_task, mi_fd, mb_closed, mv_data, pc, job, buf, taken,
                    owner, torn, crossed>>
    BY <1>14 DEF DispatchRead, kernel, object, history
  <2>2. Untouched'
    BY <2>1 DEF Steady, Untouched
  <2> QED
    BY <2>1, <2>2, CalmSteady
<1>15. ASSUME NEW f \in Fds, Expire(f) PROVE Goal
  BY <1>15, PlainSteady DEF Expire, history
<1>16. ASSUME NEW w \in Workers, Begin(w) PROVE Goal
  BY <1>16, PlainSteady DEF Begin, history
<1>17. ASSUME NEW w \in Workers, CheckClosed(w) PROVE Goal
  BY <1>17, PlainSteady DEF CheckClosed, history
<1>18. ASSUME NEW w \in Workers, ReadEnds(w) PROVE Goal
  <2>1. job[w] \in Fds
    BY <1>0, <1>w, <1>18 DEF ReadEnds, Goto, Working, Reading, TearDown, Initialising, Threads
  <2>2. torn' = torn /\ crossed' = crossed
    BY <1>18 DEF ReadEnds, history
  <2> QED
    BY <1>18, <2>1, <2>2, ReadEndsSteady
<1>19. ASSUME NEW w \in Workers, ReadAgain(w) PROVE Goal
  BY <1>19, PlainSteady DEF ReadAgain, history
<1>20. ASSUME NEW w \in Workers, ReadData(w) PROVE Goal
  <2>1. job[w] \in Fds
    BY <1>0, <1>w, <1>20 DEF ReadData, Goto, Working, Reading, TearDown, Initialising, Threads
  <2>2. torn' = torn /\ crossed' = crossed
    BY <1>20 DEF ReadData, history
  <2> QED
    BY <1>20, <2>1, <2>2, ReadDataSteady
<1>21. ASSUME NEW w \in Workers, AppendData(w) PROVE Goal
  <2>1. job[w] \in Fds
    BY <1>0, <1>w, <1>21 DEF AppendData, Goto, Working, Reading, TearDown, Initialising, Threads
  <2>2. torn' = torn /\ crossed' = crossed
    BY <1>21 DEF AppendData, history
  <2> QED
    BY <1>21, <2>1, <2>2, AppendSteady
<1>22. ASSUME NEW w \in Workers, NoFrame(w) PROVE Goal
  BY <1>22, PlainSteady DEF NoFrame, history
<1>23. ASSUME NEW w \in Workers, TakeFrame(w) PROVE Goal
  <2>1. job[w] \in Fds
    BY <1>0, <1>w, <1>23 DEF TakeFrame, Goto, Working, TearDown
  <2>2. crossed' = crossed
    BY <1>23 DEF TakeFrame
  <2> QED
    BY <1>23, <2>1, <2>2, TakeFrameSteady
<1>24. ASSUME NEW w \in Workers, ParseSucceeds(w) PROVE Goal
  BY <1>24, PlainSteady DEF ParseSucceeds, history
<1>25. ASSUME NEW w \in Workers, ParseQuits(w) PROVE Goal
  BY <1>25, PlainSteady DEF ParseQuits, history
<1>26. ASSUME NEW t \in Threads, EventDel(t) PROVE Goal
  <2>1. job[t] \in Fds
    BY <1>0, <1>w, <1>26 DEF EventDel, Goto, Working, Reading, TearDown, Initialising, Threads
  <2>2. torn' = torn /\ crossed' = crossed
    BY <1>26 DEF EventDel, history
  <2> QED
    BY <1>26, <2>1, <2>2, EventDelSteady
<1>27. ASSUME NEW t \in Threads, TestFd(t) PROVE Goal
  BY <1>27, PlainSteady DEF TestFd, history
<1>28. ASSUME NEW t \in Threads, Close(t) PROVE Goal
  <2>1. job[t] \in Fds
    BY <1>0, <1>w, <1>28 DEF Close, Goto, Working, TearDown
  <2>2. torn' = torn
    BY <1>28 DEF Close
  <2> QED
    BY <1>28, <2>1, <2>2, CloseSteady
<1>29. ASSUME NEW t \in Threads, Unset(t) PROVE Goal
  <2>1. job[t] \in Fds
    BY <1>0, <1>w, <1>29 DEF Unset, Goto, Working, Reading, TearDown, Initialising, Threads
  <2>2. torn' = torn /\ crossed' = crossed
    BY <1>29 DEF Unset, history
  <2> QED
    BY <1>29, <2>1, <2>2, UnsetSteady
<1>30. ASSUME NEW t \in Threads, Wipe(t) PROVE Goal
  <2>1. job[t] \in Fds
    BY <1>0, <1>w, <1>30 DEF Wipe, Goto, Finish, Working, Reading, TearDown, Initialising, Threads
  <2>2. torn' = torn /\ crossed' = crossed
    BY <1>30 DEF Wipe, history
  <2> QED
    BY <1>30, <2>1, <2>2, WipeSteady
<1>31. CASE Crash
  <2>1. UNCHANGED <<stage, got, file, interest, mm_task, mi_fd, mb_closed, mv_data, pc, job, buf, taken,
                    owner, torn, crossed>>
    BY <1>31 DEF Crash, kernel, object, history
  <2>2. Untouched'
    BY <2>1 DEF Steady, Untouched
  <2> QED
    BY <2>1, <2>2, CalmSteady
<1> QED
  BY <1>1, <1>2, <1>3, <1>4, <1>5, <1>6, <1>7, <1>8, <1>9, <1>10, <1>11, <1>12, <1>13, <1>14, <1>15,
     <1>16, <1>17, <1>18, <1>19, <1>20, <1>21, <1>22, <1>23, <1>24, <1>25, <1>26, <1>27, <1>28,
     <1>29, <1>30, <1>31
  DEF Step, ClientStep, AcceptorStep, WaiterStep, CleanerStep, WorkerStep, ReadStep,
      TearDownStep, Threads

(* All of it holds until two threads share a task object for the first time. *)
UnsharedInv ==
  /\ ~ shared => Alone /\ Steady
  /\ FramesWhole
  /\ ClosesItsOwn

OrderInv == TInv /\ Known /\ ConnsApart /\ HistoryType /\ UnsharedInv

(* Nobody is in a task object and no descriptor is open at the start.       *)
LEMMA OrderInit == Init => OrderInv
<1> SUFFICES ASSUME Init PROVE OrderInv
  OBVIOUS
<1> USE NameAssumption
<1>1. TInv
  BY InitTypes
<1>2. Known
  BY DEF Init, Known, EventsHaveTasks, Initialising, Threads
<1>3. ConnsApart /\ HistoryType
  BY DEF Init, ConnsApart, HistoryType, Threads
<1>4. \A t \in Threads : job[t] = NoFd /\ pc[t] \in {"accept", "wait", "scan", "free"}
  BY DEF Init
<1>5. \A f \in Fds : ~ SetUp(f) /\ ~ Fresh(f)
  BY <1>4 DEF Init, SetUp, Fresh, Threads
<1>6. Alone
  BY <1>4 DEF Alone, Inside
<1>7. Steady
  <2>1. \A t \in Threads : Placed(t)
    BY <1>4 DEF Placed
  <2>2. \A f \in Fds : Bound(f)
    BY <1>5 DEF Bound, Init
  <2>3. \A f \in Fds : Watched(f) /\ Streamed(f)
    BY <1>5 DEF Watched, Streamed
  <2>4. Untouched
    BY DEF Init, Untouched
  <2> QED
    BY <2>1, <2>2, <2>3, <2>4 DEF Steady
<1>8. FramesWhole /\ ClosesItsOwn
  BY DEF Init, FramesWhole, ClosesItsOwn
<1> QED
  BY <1>1, <1>2, <1>3, <1>6, <1>7, <1>8 DEF OrderInv, UnsharedInv

(* shared becomes TRUE in the step that makes two threads share an object,  *)
(* so the states before and after any other step have nobody share one.     *)
LEMMA OrderStep ==
  ASSUME OrderInv, [Next]_vars
  PROVE  OrderInv'
<1>1. TInv' /\ Known'
  BY KernelStep, ObjectStep, DataStep, ThreadStep, KnownStep DEF OrderInv, TInv
<1>2. ConnsApart' /\ HistoryType'
  BY ConnsApartStep, HistoryTypeStep DEF OrderInv
<1>3. ASSUME Next PROVE UnsharedInv'
  <2>1. CASE shared'
    BY <2>1 DEF UnsharedInv, FramesWhole, ClosesItsOwn
  <2>2. CASE ~ shared'
    <3>1. ~ shared /\ ~ SharedNow' /\ Step
      BY <1>3, <2>2 DEF Next
    <3>2. Alone'
      BY <3>1 DEF Alone, SharedNow
    <3>3. Alone /\ Steady /\ ~ torn /\ ~ crossed
      BY <3>1 DEF OrderInv, UnsharedInv, FramesWhole, ClosesItsOwn
    <3>4. Steady' /\ (torn' => torn) /\ (crossed' => crossed)
      BY <3>1, <3>2, <3>3, SteadyStep DEF OrderInv
    <3> QED
      BY <3>2, <3>3, <3>4 DEF UnsharedInv, FramesWhole, ClosesItsOwn
  <2> QED
    BY <2>1, <2>2
<1>4. ASSUME UNCHANGED vars PROVE UnsharedInv'
  <2>1. UNCHANGED <<stage, got, file, interest, mm_task, mi_fd, mb_closed, mv_data, pc, job, buf, taken,
                    owner, torn, crossed, shared>>
    BY <1>4 DEF vars, system, kernel, object
  <2>2. ASSUME Steady PROVE Steady'
    <3>1. Untouched'
      BY <2>1, <2>2 DEF Steady, Untouched
    <3> QED
      BY <2>1, <2>2, <3>1, CalmSteady
  <2> QED
    BY <2>1, <2>2 DEF OrderInv, UnsharedInv, FramesWhole, ClosesItsOwn, Alone, Inside
<1> QED
  BY <1>1, <1>2, <1>3, <1>4 DEF OrderInv

(* As long as no two threads are inside one task object, every parse_task   *)
(* gets the connection's next whole frame, also behind earlier connections  *)
(* of the same descriptor (read_task.cpp:20-72).                            *)
THEOREM Frames == Spec => []FramesWhole
<1>1. OrderInv => FramesWhole
  BY DEF OrderInv, UnsharedInv
<1>2. OrderInv /\ [Next]_vars => OrderInv'
  BY OrderStep
<1> QED
  BY <1>1, <1>2, OrderInit, PTL DEF Spec

(* Under the same condition clear() closes the connection its task was set  *)
(* up for and never one accepted since (task.h:34-45).                    *)
THEOREM Closes == Spec => []ClosesItsOwn
<1>1. OrderInv => ClosesItsOwn
  BY DEF OrderInv, UnsharedInv
<1>2. OrderInv /\ [Next]_vars => OrderInv'
  BY OrderStep
<1> QED
  BY <1>1, <1>2, OrderInit, PTL DEF Spec

(* Under the same condition an open connection nobody works on is open to   *)
(* its task and registered with epoll: an event or the idle scan ends it.   *)
THEOREM Orphans == Spec => []NoneOrphaned
<1>1. ASSUME OrderInv PROVE NoneOrphaned
  <2>1. SUFFICES ASSUME NEW f \in Fds, file[f] # NoConn, ~ TearingDown(f), ~ Accepting(f),
                        ~ (\E w \in Workers : job[w] = f), ~ shared
                 PROVE  mi_fd[f] = f /\ ~ mb_closed[f] /\ f \in interest
    BY DEF NoneOrphaned
  <2>2. SetUp(f) /\ Bound(f) /\ Watched(f)
    BY <1>1, <2>1 DEF OrderInv, UnsharedInv, Steady, SetUp, Fresh, Accepting
  <2> QED
    BY <2>1, <2>2 DEF Bound, Watched
<1>2. OrderInv /\ [Next]_vars => OrderInv'
  BY OrderStep
<1> QED
  BY <1>1, <1>2, OrderInit, PTL DEF Spec

-----------------------------------------------------------------------------
(* A thread has f's socket in its hands, and will read it or close it.      *)
Attends(t, f) ==
  /\ job[t] = f
  /\ pc[t] \in Reading \cup TearDown \/ (pc[t] = "extract" /\ mb_closed[f])

(* Someone will look at f's socket.                                         *)
Attended(f) ==
  \/ f \in ready
  \/ \E e \in batch : e.fd = f
  \/ Queued(f)
  \/ \E t \in Threads : Attends(t, f)
  \/ Accepting(f)

(* There is something to read or to learn from f's socket.                  *)
News(f) == file[f] # NoConn /\ Readable(file[f])

(* No news goes unnoticed.                                                  *)
Attention == \A f \in Fds : News(f) => Attended(f)

(* What one thread does leaves every other thread at the sockets it has in  *)
(* its hands.                                                               *)
LEMMA StaysAttended ==
  ASSUME NEW t \in Threads, Others(t), NEW f \in Fds, Attended(f),
         f \in ready => Attended(f)',
         \A e \in batch : e.fd = f => Attended(f)',
         Queued(f) => Attended(f)',
         Attends(t, f) => Attended(f)',
         Accepting(f) => Attended(f)',
         mb_closed[f] => mb_closed'[f]
  PROVE  Attended(f)'
<1>1. ASSUME NEW u \in Threads, u # t, Attends(u, f) PROVE Attended(f)'
  <2>1. Attends(u, f)'
    BY <1>1 DEF Attends, Others
  <2> QED
    BY <2>1 DEF Attended
<1> QED
  BY <1>1 DEF Attended

(* A step inside the server that takes nothing off a list.                  *)
LEMMA MoveAttention ==
  ASSUME Attention, NEW t \in Threads, Others(t),
         UNCHANGED <<file, sent, got, fin, rst, ready, batch>>,
         \A f \in Fds : Queued(f) => Queued(f)',
         job'[Acceptor] = job[Acceptor],
         \A f \in Fds : Accepting(f) \/ (mb_closed[f] => mb_closed'[f]),
         \A f \in Fds : Attends(t, f) /\ News(f) => Accepting(f) \/ Attends(t, f)'
  PROVE  Attention'
<1>1. SUFFICES ASSUME NEW f \in Fds, News(f)' PROVE Attended(f)'
  BY DEF Attention
<1>2. News(f) /\ Attended(f) /\ (Accepting(f)' <=> Accepting(f))
  BY <1>1 DEF News, Readable, Attention, Accepting
<1>3. CASE Accepting(f)
  BY <1>2, <1>3 DEF Attended
<1>4. CASE ~ Accepting(f)
  <2>1. /\ f \in ready => Attended(f)'
        /\ \A e \in batch : e.fd = f => Attended(f)'
        /\ Queued(f) => Attended(f)'
        /\ Attends(t, f) => Attended(f)'
    BY <1>2, <1>4 DEF Attended
  <2> QED
    BY <1>2, <1>4, <2>1, StaysAttended
<1> QED
  BY <1>3, <1>4

(* Appending to the queue keeps what is queued.                             *)
LEMMA StillQueued ==
  ASSUME TInv, NEW k, queue' = Append(queue, k), NEW f \in Fds
  PROVE  (Queued(f) => Queued(f)') /\ (k.fd = f /\ k.kind = "read_task" => Queued(f)')
<1> USE DEF TInv, DataType
<1>0. queue \in Seq([kind : Kinds, fd : Fds, frame : Seq(Units)]) /\ Len(queue) \in Nat
  BY LenProperties
<1>1. /\ Len(queue') = Len(queue) + 1
      /\ \A i \in 1..Len(queue) : queue'[i] = queue[i]
      /\ queue'[Len(queue) + 1] = k
      /\ DOMAIN queue = 1..Len(queue) /\ DOMAIN queue' = 1..(Len(queue) + 1)
  BY <1>0
<1>2. (\A i \in DOMAIN queue : i \in DOMAIN queue') /\ Len(queue) + 1 \in DOMAIN queue'
  BY <1>0, <1>1
<1>3. ASSUME Queued(f) PROVE Queued(f)'
  <2>1. PICK i \in DOMAIN queue : queue[i].fd = f /\ queue[i].kind = "read_task"
    BY <1>3 DEF Queued
  <2>2. i \in DOMAIN queue' /\ queue'[i] = queue[i]
    BY <1>1, <1>2, <2>1
  <2> QED
    BY <2>1, <2>2 DEF Queued
<1>4. k.fd = f /\ k.kind = "read_task" => Queued(f)'
  BY <1>1, <1>2 DEF Queued
<1> QED
  BY <1>3, <1>4

(* An event is queued as a read_task, the read_task begins, reads, and ends *)
(* only when the socket is empty or with the descriptor to be closed.       *)
LEMMA AttentionStep ==
  ASSUME TInv, Known, ConnsApart, Alone, Steady, Attention, Step
  PROVE  Attention'
<1> USE NameAssumption
<1>0. \A t \in Threads : pc[t] \in Working => job[t] \in Fds
  BY DEF TInv, ThreadType
<1>w. /\ \A w \in Workers : w \in Threads /\ w # Acceptor
      /\ Acceptor \in Threads /\ Waiter \in Threads /\ Cleaner \in Threads
      /\ Waiter # Acceptor /\ Cleaner # Acceptor
  BY DEF Threads
<1>t. pc \in [Threads -> WorkerPC \cup AcceptorPC \cup WaiterPC \cup CleanerPC]
      /\ job \in [Threads -> Fds \cup {NoFd}]
  BY DEF TInv, ThreadType
<1>a. pc[Acceptor] \notin Reading \cup TearDown \cup {"extract"}
  BY DEF TInv, ThreadType, AcceptorPC, Initialising, Reading, TearDown
\* An event reaches a registered descriptor; one that is not registered is
\* being opened or torn down.
<1>e. ASSUME NEW f \in Fds, file[f] # NoConn PROVE f \in interest \/ Attended(f)
  <2>1. SetUp(f) \/ Accepting(f)
    BY <1>e DEF SetUp, Fresh, Accepting
  <2>2. TearingDown(f) => Attended(f)
    BY DEF TearingDown, Attended, Attends
  <2> QED
    BY <2>1, <2>2 DEF Steady, Watched, Attended
<1>1. ASSUME NEW c \in Conns, Connect(c) PROVE Attention'
  <2>1. UNCHANGED <<sent, got, fin, rst, file, ready, batch, queue, pc, job, mb_closed>>
    BY <1>1 DEF Connect, ClientUnchanged, object
  <2> QED
    BY <2>1 DEF Attention, Attended, News, Readable, Queued, Attends, Accepting
<1>2. ASSUME NEW c \in Conns, Send(c) PROVE Attention'
  <2>1. /\ UNCHANGED <<file, interest, batch, queue, pc, job, mb_closed>>
        /\ ready' = ready \cup {f \in interest : file[f] = c}
        /\ \A d \in Conns : d # c => (Readable(d)' <=> Readable(d))
    BY <1>2 DEF Send, ClientUnchanged, object, Edge, Readable, TInv, KernelType
  <2>2. \A f \in Fds : Attended(f) => Attended(f)'
    BY <2>1 DEF Attended, Queued, Attends, Accepting
  <2>3. ASSUME NEW f \in Fds, News(f)' PROVE Attended(f)'
    <3>1. CASE file[f] = c
      BY <1>e, <2>1, <2>2, <2>3, <3>1 DEF News, Attended
    <3>2. CASE file[f] # c
      BY <2>1, <2>2, <2>3, <3>2 DEF News, Attention, TInv, KernelType
    <3> QED
      BY <3>1, <3>2
  <2> QED
    BY <2>3 DEF Attention
<1>3. ASSUME NEW c \in Conns, ClientCloses(c) PROVE Attention'
  <2>1. /\ UNCHANGED <<file, interest, batch, queue, pc, job, mb_closed>>
        /\ ready' = ready \cup {f \in interest : file[f] = c}
        /\ \A d \in Conns : d # c => (Readable(d)' <=> Readable(d))
    BY <1>3 DEF ClientCloses, ClientUnchanged, object, Edge, Readable, TInv, KernelType
  <2>2. \A f \in Fds : Attended(f) => Attended(f)'
    BY <2>1 DEF Attended, Queued, Attends, Accepting
  <2>3. ASSUME NEW f \in Fds, News(f)' PROVE Attended(f)'
    <3>1. CASE file[f] = c
      BY <1>e, <2>1, <2>2, <2>3, <3>1 DEF News, Attended
    <3>2. CASE file[f] # c
      BY <2>1, <2>2, <2>3, <3>2 DEF News, Attention, TInv, KernelType
    <3> QED
      BY <3>1, <3>2
  <2> QED
    BY <2>3 DEF Attention
<1>4. ASSUME NEW c \in Conns, ClientResets(c) PROVE Attention'
  <2>1. /\ UNCHANGED <<file, interest, batch, queue, pc, job, mb_closed>>
        /\ ready' = ready \cup {f \in interest : file[f] = c}
        /\ \A d \in Conns : d # c => (Readable(d)' <=> Readable(d))
    BY <1>4 DEF ClientResets, ClientUnchanged, object, Edge, Readable, TInv, KernelType
  <2>2. \A f \in Fds : Attended(f) => Attended(f)'
    BY <2>1 DEF Attended, Queued, Attends, Accepting
  <2>3. ASSUME NEW f \in Fds, News(f)' PROVE Attended(f)'
    <3>1. CASE file[f] = c
      BY <1>e, <2>1, <2>2, <2>3, <3>1 DEF News, Attended
    <3>2. CASE file[f] # c
      BY <2>1, <2>2, <2>3, <3>2 DEF News, Attention, TInv, KernelType
    <3> QED
      BY <3>1, <3>2
  <2> QED
    BY <2>3 DEF Attention
<1>5. ASSUME NEW f \in Fds, GrowsIdle(f) PROVE Attention'
  <2>1. UNCHANGED <<sent, got, fin, rst, file, ready, batch, queue, pc, job, mb_closed>>
    BY <1>5 DEF GrowsIdle, kernel
  <2> QED
    BY <2>1 DEF Attention, Attended, News, Readable, Queued, Attends, Accepting
<1>6. ASSUME NEW c \in Conns, NEW f \in Fds, Accept(c, f) PROVE Attention'
  <2>1. /\ Others(Acceptor) /\ job[Acceptor] = NoFd /\ job'[Acceptor] = f
        /\ UNCHANGED <<sent, got, fin, rst, ready, batch, queue, mb_closed>>
        /\ \A g \in Fds : g # f => file'[g] = file[g]
    BY <1>t, <1>w, <1>6 DEF Accept, Goto, Others, object, TInv, KernelType, ConnsApart
  <2>2. ASSUME NEW g \in Fds, News(g)' PROVE Attended(g)'
    <3>1. CASE g = f
      BY <2>1, <3>1 DEF Attended, Accepting
    <3>2. CASE g # f
      <4>1. Attended(g) /\ ~ Accepting(g) /\ ~ Attends(Acceptor, g)
        BY <2>1, <2>2, <3>2 DEF News, Readable, Attention, Accepting, Attends
      <4>2. (g \in ready => Attended(g)') /\ (\A e \in batch : e.fd = g => Attended(g)')
            /\ (Queued(g) => Attended(g)')
        BY <2>1 DEF Attended, Queued
      <4> QED
        BY <1>w, <2>1, <4>1, <4>2, StaysAttended
    <3> QED
      BY <3>1, <3>2
  <2> QED
    BY <2>2 DEF Attention
<1>7. CASE Insert
  <2>1. /\ Others(Acceptor) /\ job'[Acceptor] = job[Acceptor]
        /\ UNCHANGED <<file, sent, got, fin, rst, ready, batch, queue>>
        /\ mb_closed' = mb_closed
    BY <1>t, <1>w, <1>7 DEF Insert, Goto, Others, kernel, object
  <2>2. \A f \in Fds : ~ Attends(Acceptor, f)
    BY <1>a DEF Attends
  <2> QED
    BY <1>w, <2>1, <2>2, MoveAttention DEF Queued
<1>8. CASE InitFd
  <2>1. /\ Others(Acceptor) /\ job'[Acceptor] = job[Acceptor]
        /\ UNCHANGED <<file, sent, got, fin, rst, ready, batch, queue>>
        /\ mb_closed' = mb_closed
    BY <1>t, <1>w, <1>8 DEF InitFd, Goto, Others, kernel, object
  <2>2. \A f \in Fds : ~ Attends(Acceptor, f)
    BY <1>a DEF Attends
  <2> QED
    BY <1>w, <2>1, <2>2, MoveAttention DEF Queued
<1>9. CASE InitRest
  <2>1. /\ Others(Acceptor) /\ job'[Acceptor] = job[Acceptor]
        /\ UNCHANGED <<file, sent, got, fin, rst, ready, batch, queue>>
        /\ \A g \in Fds : Accepting(g) \/ mb_closed'[g] = mb_closed[g]
    BY <1>t, <1>w, <1>9 DEF InitRest, Goto, Others, kernel, object, Accepting, TInv, ObjectType
  <2>2. \A f \in Fds : ~ Attends(Acceptor, f)
    BY <1>a DEF Attends
  <2> QED
    BY <1>w, <2>1, <2>2, MoveAttention DEF Queued
<1>10. CASE EventAdd
  <2>1. PICK f \in Fds : job[Acceptor] = f /\ file[f] # NoConn
    <3>1. pc[Acceptor] = "event_add" /\ job[Acceptor] \in Fds /\ Placed(Acceptor)
      BY <1>0, <1>w, <1>10 DEF EventAdd, Goto, Working, Initialising, Steady
    <3> QED
      BY <3>1 DEF Placed, SetUp
  <2>2. /\ Others(Acceptor)
        /\ UNCHANGED <<file, sent, got, fin, rst, batch, queue, mb_closed>>
        /\ ready' = IF Readable(file[f]) THEN ready \cup {f} ELSE ready
    BY <1>t, <1>w, <1>10, <2>1 DEF EventAdd, Goto, Others, object
  <2>3. ASSUME NEW g \in Fds, News(g)' PROVE Attended(g)'
    <3>1. News(g)
      BY <2>2, <2>3 DEF News, Readable
    <3>2. CASE g = f
      BY <2>2, <3>1, <3>2 DEF Attended, News
    <3>3. CASE g # f
      <4>1. Attended(g) /\ ~ Accepting(g) /\ ~ Attends(Acceptor, g)
        BY <2>1, <3>1, <3>3 DEF Attention, Accepting, Attends
      <4>2. (g \in ready => Attended(g)') /\ (\A e \in batch : e.fd = g => Attended(g)')
            /\ (Queued(g) => Attended(g)')
        BY <2>2 DEF Attended, Queued
      <4> QED
        BY <1>w, <2>2, <4>1, <4>2, StaysAttended
    <3> QED
      BY <3>2, <3>3
  <2> QED
    BY <2>3 DEF Attention
<1>11. CASE Wait
  <2>1. /\ Others(Waiter) /\ job'[Waiter] = job[Waiter] /\ pc[Waiter] = "wait" /\ batch = {}
        /\ UNCHANGED <<file, sent, got, fin, rst, queue, mb_closed>>
        /\ batch' = {[fd |-> f, err |-> rst[file[f]]] : f \in ready}
    BY <1>t, <1>w, <1>11 DEF Wait, Goto, Others, object, ConnsApart
  <2>2. ASSUME NEW f \in Fds, News(f)' PROVE Attended(f)'
    <3>1. News(f) /\ Attended(f) /\ ~ Attends(Waiter, f)
      BY <2>1, <2>2 DEF News, Readable, Attention, Attends, Reading, TearDown
    <3>2. f \in ready => Attended(f)'
      <4>1. f \in ready => [fd |-> f, err |-> rst[file[f]]] \in batch'
        BY <2>1
      <4> QED
        BY <4>1 DEF Attended
    <3>3. (Queued(f) => Attended(f)') /\ (Accepting(f) => Attended(f)')
      BY <1>w, <2>1 DEF Attended, Queued, Accepting, Others
    <3> QED
      BY <1>w, <2>1, <3>1, <3>2, <3>3, StaysAttended
  <2> QED
    BY <2>2 DEF Attention
<1>12. CASE BatchDone
  <2>1. /\ Others(Waiter) /\ job'[Acceptor] = job[Acceptor]
        /\ UNCHANGED <<file, sent, got, fin, rst, ready, batch, queue>>
        /\ mb_closed' = mb_closed
        /\ pc[Waiter] = "dispatch"
    BY <1>t, <1>w, <1>12 DEF BatchDone, Goto, Others, kernel, object
  <2>2. \A f \in Fds : Attends(Waiter, f) /\ News(f) => Attends(Waiter, f)'
    BY <2>1 DEF Attends, Reading, TearDown
  <2> QED
    BY <1>w, <2>1, <2>2, MoveAttention DEF Queued
<1>13. ASSUME NEW e \in batch, DispatchError(e) PROVE Attention'
  <2>1. /\ Others(Waiter) /\ pc[Waiter] = "dispatch" /\ batch' = batch \ {e}
        /\ pc'[Waiter] = "event_del" /\ job'[Waiter] = e.fd
        /\ UNCHANGED <<file, sent, got, fin, rst, ready, queue, mb_closed>>
    BY <1>t, <1>w, <1>13 DEF DispatchError, Goto, Others, kernel, object, Known, EventsHaveTasks
  <2>2. ASSUME NEW f \in Fds, News(f)' PROVE Attended(f)'
    <3>1. News(f) /\ Attended(f) /\ ~ Attends(Waiter, f)
      BY <2>1, <2>2 DEF News, Readable, Attention, Attends, Reading, TearDown
    <3>2. e.fd = f => Attended(f)'
      BY <1>w, <2>1 DEF Attended, Attends, TearDown
    <3>3. (Queued(f) => Attended(f)') /\ (Accepting(f) => Attended(f)')
      BY <1>w, <2>1 DEF Attended, Queued, Accepting, Others
    <3>4. \A d \in batch : d.fd = f => Attended(f)'
      BY <2>1, <3>2, <3>3 DEF Attended
    <3>5. f \in ready => Attended(f)'
      BY <2>1 DEF Attended
    <3> QED
      BY <1>w, <2>1, <3>1, <3>3, <3>4, <3>5, StaysAttended
  <2> QED
    BY <2>2 DEF Attention
<1>14. ASSUME NEW e \in batch, DispatchRead(e) PROVE Attention'
  <2>1. /\ Others(Waiter) /\ pc[Waiter] = "dispatch" /\ batch' = batch \ {e}
        /\ UNCHANGED <<file, sent, got, fin, rst, ready, mb_closed>>
    BY <1>t, <1>w, <1>14 DEF DispatchRead, Goto, Others, kernel, object
  <2>2. ASSUME NEW f \in Fds, News(f)' PROVE Attended(f)'
    <3>1. News(f) /\ Attended(f) /\ ~ Attends(Waiter, f)
      BY <2>1, <2>2 DEF News, Readable, Attention, Attends, Reading, TearDown
    <3>2. (Queued(f) => Queued(f)') /\ (e.fd = f => Queued(f)')
      <4> DEFINE k == [kind |-> "read_task", fd |-> e.fd, frame |-> <<>>]
      <4>1. queue' = Append(queue, k) /\ k.fd = e.fd /\ k.kind = "read_task"
        BY <1>14 DEF DispatchRead
      <4> HIDE DEF k
      <4> QED
        BY <4>1, StillQueued
    <3>3. (e.fd = f => Attended(f)') /\ (Queued(f) => Attended(f)') /\ (Accepting(f) => Attended(f)')
      BY <1>w, <2>1, <3>2 DEF Attended, Accepting, Others
    <3>4. \A d \in batch : d.fd = f => Attended(f)'
      BY <2>1, <3>2, <3>3 DEF Attended
    <3>5. f \in ready => Attended(f)'
      BY <2>1 DEF Attended
    <3> QED
      BY <1>w, <2>1, <3>1, <3>3, <3>4, <3>5, StaysAttended
  <2> QED
    BY <2>2 DEF Attention
<1>15. ASSUME NEW f \in Fds, Expire(f) PROVE Attention'
  <2>1. /\ Others(Cleaner) /\ job'[Acceptor] = job[Acceptor]
        /\ UNCHANGED <<file, sent, got, fin, rst, ready, batch, queue>>
        /\ mb_closed' = mb_closed
        /\ pc[Cleaner] = "scan"
    BY <1>t, <1>w, <1>15 DEF Expire, Goto, Others, kernel, object
  <2>2. \A g \in Fds : Attends(Cleaner, g) /\ News(g) => Attends(Cleaner, g)'
    BY <2>1 DEF Attends, Reading, TearDown
  <2> QED
    BY <1>w, <2>1, <2>2, MoveAttention DEF Queued
<1>16. ASSUME NEW w \in Workers, Begin(w) PROVE Attention'
  <2> DEFINE k == Head(queue)
  <2>1. /\ Others(w) /\ pc[w] = "free" /\ job'[w] = k.fd
        /\ k.kind = "read_task" => pc'[w] = "check"
        /\ UNCHANGED <<file, sent, got, fin, rst, ready, batch, mb_closed>>
        /\ queue # <<>> /\ queue' = Tail(queue)
    BY <1>t, <1>w, <1>16 DEF Begin, Goto, Others, kernel
  <2>2. queue \in Seq([kind : Kinds, fd : Fds, frame : Seq(Units)])
    BY DEF TInv, DataType
  <2>3. /\ k = queue[1] /\ \A j \in DOMAIN queue : j = 1 \/ (j - 1 \in DOMAIN queue' /\ queue'[j - 1] = queue[j])
    BY <2>1, <2>2, HeadTailProperties
  <2> HIDE DEF k
  <2>4. ASSUME NEW f \in Fds, News(f)' PROVE Attended(f)'
    <3>1. News(f) /\ Attended(f) /\ ~ Attends(w, f)
      BY <2>1, <2>4 DEF News, Readable, Attention, Attends, Reading, TearDown
    <3>2. Queued(f) => Attended(f)'
      <4>1. SUFFICES ASSUME NEW j \in DOMAIN queue, queue[j].fd = f, queue[j].kind = "read_task"
                     PROVE  Attended(f)'
        BY DEF Queued
      <4>2. CASE j = 1
        <5>1. Attends(w, f)'
          BY <2>1, <2>3, <4>1, <4>2 DEF Attends, Reading
        <5> QED
          BY <1>w, <5>1 DEF Attended
      <4>3. CASE j # 1
        <5>1. Queued(f)'
          BY <2>3, <4>1, <4>3 DEF Queued
        <5> QED
          BY <5>1 DEF Attended
      <4> QED
        BY <4>2, <4>3
    <3>3. (f \in ready => Attended(f)') /\ (\A e \in batch : e.fd = f => Attended(f)')
          /\ (Accepting(f) => Attended(f)')
      BY <1>w, <2>1 DEF Attended, Accepting, Others
    <3> QED
      BY <1>w, <2>1, <3>1, <3>2, <3>3, StaysAttended
  <2> QED
    BY <2>4 DEF Attention
<1>17. ASSUME NEW w \in Workers, CheckClosed(w) PROVE Attention'
  <2>1. /\ Others(w) /\ job'[Acceptor] = job[Acceptor]
        /\ UNCHANGED <<file, sent, got, fin, rst, ready, batch, queue>>
        /\ mb_closed' = mb_closed
        /\ pc'[w] \in {"event_del", "read"} /\ job'[w] = job[w]
    BY <1>t, <1>w, <1>17 DEF CheckClosed, Goto, Others, kernel, object
  <2>2. \A f \in Fds : Attends(w, f) /\ News(f) => Attends(w, f)'
    BY <2>1 DEF Attends, Reading, TearDown
  <2> QED
    BY <1>w, <2>1, <2>2, MoveAttention DEF Queued
<1>18. ASSUME NEW w \in Workers, ReadEnds(w) PROVE Attention'
  <2>1. /\ Others(w) /\ job'[Acceptor] = job[Acceptor]
        /\ UNCHANGED <<file, sent, got, fin, rst, ready, batch, queue>>
        /\ \A f \in Fds : mb_closed[f] => mb_closed'[f]
        /\ pc'[w] = "extract" /\ job'[w] = job[w] /\ (job[w] \in Fds => mb_closed'[job[w]])
    BY <1>t, <1>w, <1>18 DEF ReadEnds, Goto, Others, kernel, TInv, ObjectType
  <2>2. \A f \in Fds : Attends(w, f) /\ News(f) => Attends(w, f)'
    BY <2>1 DEF Attends, Reading, TearDown
  <2> QED
    BY <1>w, <2>1, <2>2, MoveAttention DEF Queued
<1>19. ASSUME NEW w \in Workers, ReadAgain(w) PROVE Attention'
  <2>1. /\ Others(w) /\ job'[Acceptor] = job[Acceptor]
        /\ UNCHANGED <<file, sent, got, fin, rst, ready, batch, queue>>
        /\ mb_closed' = mb_closed
        /\ pc[w] = "read" /\ job[w] \in Fds
    BY <1>t, <1>w, <1>0, <1>19 DEF ReadAgain, Goto, Others, kernel, object, Working, Reading, TearDown
  <2>2. \A f \in Fds : ~ (Attends(w, f) /\ News(f))
    <3>1. SetUp(job[w]) /\ mi_fd[job[w]] = job[w] /\ job[w] # NoFd
      BY <1>w, <2>1 DEF Steady, Placed, Bound
    <3>2. Peer(w) = file[job[w]]
      BY <3>1 DEF Peer
    <3>3. ~ Readable(file[job[w]])
      BY <1>19, <3>2 DEF ReadAgain, Streaming, Readable, TInv, KernelType
    <3> QED
      BY <3>3 DEF Attends, News
  <2> QED
    BY <1>w, <2>1, <2>2, MoveAttention DEF Queued
<1>20. ASSUME NEW w \in Workers, ReadData(w) PROVE Attention'
  <2>1. PICK f \in Fds : job[w] = f
    BY <1>0, <1>w, <1>20 DEF ReadData, Goto, Working, Reading
  <2>2. SetUp(f) /\ mi_fd[f] = f /\ f # NoFd
    BY <1>w, <1>20, <2>1 DEF ReadData, Goto, Steady, Placed, Bound
  <2>3. Peer(w) = file[f] /\ file[f] \in Conns
    BY <2>1, <2>2 DEF Peer, SetUp, TInv, KernelType
  <2>4. /\ Others(w) /\ job'[w] = f /\ pc[w] = "read" /\ pc'[w] = "append"
        /\ UNCHANGED <<file, sent, fin, rst, ready, batch, queue, mb_closed>>
        /\ \A d \in Conns : d # file[f] => got'[d] = got[d]
    BY <1>t, <1>w, <1>20, <2>1, <2>3 DEF ReadData, Goto, Others, object, TInv, KernelType
  <2>5. ASSUME NEW g \in Fds, News(g)' PROVE Attended(g)'
    <3>1. CASE g = f
      <4>1. Attends(w, g)'
        BY <2>4, <3>1 DEF Attends, Reading
      <4> QED
        BY <1>w, <4>1 DEF Attended
    <3>2. CASE g # f
      <4>1. file[g] # file[f] /\ file[g] \in Conns
        BY <2>3, <2>4, <2>5, <3>2 DEF ConnsApart, News, TInv, KernelType
      <4>2. Attended(g) /\ ~ Attends(w, g)
        BY <2>1, <2>4, <2>5, <3>2, <4>1 DEF News, Readable, Attention, Attends
      <4>3. (g \in ready => Attended(g)') /\ (\A e \in batch : e.fd = g => Attended(g)')
            /\ (Queued(g) => Attended(g)') /\ (Accepting(g) => Attended(g)')
        BY <1>w, <2>4 DEF Attended, Queued, Accepting, Others
      <4> QED
        BY <1>w, <2>4, <4>2, <4>3, StaysAttended
    <3> QED
      BY <3>1, <3>2
  <2> QED
    BY <2>5 DEF Attention
<1>21. ASSUME NEW w \in Workers, AppendData(w) PROVE Attention'
  <2>1. /\ Others(w) /\ job'[Acceptor] = job[Acceptor]
        /\ UNCHANGED <<file, sent, got, fin, rst, ready, batch, queue>>
        /\ mb_closed' = mb_closed
        /\ pc'[w] = "check" /\ job'[w] = job[w]
    BY <1>t, <1>w, <1>21 DEF AppendData, Goto, Others, kernel, object
  <2>2. \A f \in Fds : Attends(w, f) /\ News(f) => Attends(w, f)'
    BY <2>1 DEF Attends, Reading, TearDown
  <2> QED
    BY <1>w, <2>1, <2>2, MoveAttention DEF Queued
<1>22. ASSUME NEW w \in Workers, NoFrame(w) PROVE Attention'
  <2>1. /\ Others(w) /\ job'[Acceptor] = job[Acceptor]
        /\ UNCHANGED <<file, sent, got, fin, rst, ready, batch, queue>>
        /\ mb_closed' = mb_closed
        /\ pc[w] = "extract" /\ (mb_closed[job[w]] => pc'[w] = "event_del" /\ job'[w] = job[w])
    BY <1>t, <1>w, <1>22 DEF NoFrame, Goto, Finish, Others, kernel, object
  <2>2. \A f \in Fds : Attends(w, f) /\ News(f) => Attends(w, f)'
    BY <2>1 DEF Attends, Reading, TearDown
  <2> QED
    BY <1>w, <2>1, <2>2, MoveAttention DEF Queued
<1>23. ASSUME NEW w \in Workers, TakeFrame(w) PROVE Attention'
  <2>1. /\ Others(w) /\ job'[Acceptor] = job[Acceptor]
        /\ UNCHANGED <<file, sent, got, fin, rst, ready, batch>>
        /\ mb_closed' = mb_closed
        /\ pc' = pc /\ job' = job
    BY <1>t, <1>w, <1>23 DEF TakeFrame, Goto, Others, kernel, object
  <2>2. \A f \in Fds : Attends(w, f) /\ News(f) => Attends(w, f)'
    BY <2>1 DEF Attends, Reading, TearDown
  <2>3. \A f \in Fds : Queued(f) => Queued(f)'
    BY <1>23, StillQueued DEF TakeFrame
  <2> QED
    BY <1>w, <2>1, <2>2, <2>3, MoveAttention
<1>24. ASSUME NEW w \in Workers, ParseSucceeds(w) PROVE Attention'
  <2>1. /\ Others(w) /\ job'[Acceptor] = job[Acceptor]
        /\ UNCHANGED <<file, sent, got, fin, rst, ready, batch, queue>>
        /\ mb_closed' = mb_closed
        /\ pc[w] = "parse"
    BY <1>t, <1>w, <1>24 DEF ParseSucceeds, Goto, Finish, Others, kernel, object
  <2>2. \A f \in Fds : Attends(w, f) /\ News(f) => Attends(w, f)'
    BY <2>1 DEF Attends, Reading, TearDown
  <2> QED
    BY <1>w, <2>1, <2>2, MoveAttention DEF Queued
<1>25. ASSUME NEW w \in Workers, ParseQuits(w) PROVE Attention'
  <2>1. /\ Others(w) /\ job'[Acceptor] = job[Acceptor]
        /\ UNCHANGED <<file, sent, got, fin, rst, ready, batch, queue>>
        /\ mb_closed' = mb_closed
        /\ pc[w] = "parse"
    BY <1>t, <1>w, <1>25 DEF ParseQuits, Goto, Others, kernel, object
  <2>2. \A f \in Fds : Attends(w, f) /\ News(f) => Attends(w, f)'
    BY <2>1 DEF Attends, Reading, TearDown
  <2> QED
    BY <1>w, <2>1, <2>2, MoveAttention DEF Queued
<1>26. ASSUME NEW t \in Threads, EventDel(t) PROVE Attention'
  <2>0. PICK f \in Fds : job[t] = f
    BY <1>0, <1>26 DEF EventDel, Goto, Working, TearDown
  <2>a. t # Acceptor
    BY <1>a, <1>26 DEF EventDel, Goto, TearDown
  <2>1. /\ Others(t) /\ job'[t] = f /\ pc'[t] = "test"
        /\ UNCHANGED <<file, sent, got, fin, rst, batch, queue, mb_closed>>
        /\ ready' = ready \ {mi_fd[f]} /\ mi_fd[f] \in {f, NoFd}
    BY <1>t, <1>26, <2>0 DEF EventDel, Goto, Others, object, TInv, ObjectType
  <2>2. \A g \in Fds : g # f /\ News(g)' => News(g)
    BY <2>1 DEF News, Readable
  <2>3. ASSUME NEW g \in Fds, News(g)' PROVE Attended(g)'
    <3>1. CASE g = f
      <4>1. Attends(t, g)'
        BY <2>1, <3>1 DEF Attends, TearDown
      <4> QED
        BY <4>1 DEF Attended
    <3>2. CASE g # f
      <4>1. Attended(g) /\ ~ Attends(t, g)
        BY <2>0, <2>2, <2>3, <3>2 DEF Attention, Attends
      <4>2. (g \in ready => Attended(g)') /\ (\A e \in batch : e.fd = g => Attended(g)')
            /\ (Queued(g) => Attended(g)') /\ (Accepting(g) => Attended(g)')
        BY <1>w, <2>a, <2>1, <3>2, NameAssumption DEF Attended, Queued, Accepting, Others
      <4> QED
        BY <2>1, <4>1, <4>2, StaysAttended
    <3> QED
      BY <3>1, <3>2
  <2> QED
    BY <2>3 DEF Attention
<1>27. ASSUME NEW t \in Threads, TestFd(t) PROVE Attention'
  <2>a. t # Acceptor
    BY <1>a, <1>27 DEF TestFd, Goto, TearDown
  <2>1. /\ Others(t) /\ job'[Acceptor] = job[Acceptor]
        /\ UNCHANGED <<file, sent, got, fin, rst, ready, batch, queue>>
        /\ mb_closed' = mb_closed
        /\ pc'[t] \in {"wipe", "close"} /\ job'[t] = job[t]
    BY <1>t, <1>w, <1>27, <2>a DEF TestFd, Goto, Others, kernel, object
  <2>2. \A f \in Fds : Attends(t, f) /\ News(f) => Attends(t, f)'
    BY <2>1 DEF Attends, Reading, TearDown
  <2> QED
    BY <1>w, <2>1, <2>2, MoveAttention DEF Queued
<1>28. ASSUME NEW t \in Threads, Close(t) PROVE Attention'
  <2>0. PICK f \in Fds : job[t] = f
    BY <1>0, <1>28 DEF Close, Goto, Working, TearDown
  <2>a. t # Acceptor
    BY <1>a, <1>28 DEF Close, Goto, TearDown
  <2>s. SetUp(f) /\ mi_fd[f] = f /\ f # NoFd /\ file[f] \in Conns
    BY <1>28, <2>0 DEF Close, Goto, Steady, Placed, Bound, SetUp, TInv, KernelType
  <2>1. /\ Others(t) /\ job'[t] = f /\ pc'[t] = "unset"
        /\ UNCHANGED <<batch, queue, mb_closed>>
        /\ ready' = ready \ {f}
        /\ \A g \in Fds : g # f => file'[g] = file[g]
        /\ \A d \in Conns : d # file[f] => (Readable(d)' <=> Readable(d))
    BY <1>t, <1>28, <2>0, <2>s DEF Close, Goto, Others, object, Readable, TInv, KernelType
  <2>2. ASSUME NEW g \in Fds, g # f, News(g)' PROVE News(g)
    BY <2>s, <2>1, <2>2 DEF News, ConnsApart, TInv, KernelType
  <2>3. ASSUME NEW g \in Fds, News(g)' PROVE Attended(g)'
    <3>1. CASE g = f
      <4>1. Attends(t, g)'
        BY <2>1, <3>1 DEF Attends, TearDown
      <4> QED
        BY <4>1 DEF Attended
    <3>2. CASE g # f
      <4>1. Attended(g) /\ ~ Attends(t, g)
        BY <2>0, <2>2, <2>3, <3>2 DEF Attention, Attends
      <4>2. (g \in ready => Attended(g)') /\ (\A e \in batch : e.fd = g => Attended(g)')
            /\ (Queued(g) => Attended(g)') /\ (Accepting(g) => Attended(g)')
        BY <1>w, <2>a, <2>1, <3>2, NameAssumption DEF Attended, Queued, Accepting, Others
      <4> QED
        BY <2>1, <4>1, <4>2, StaysAttended
    <3> QED
      BY <3>1, <3>2
  <2> QED
    BY <2>3 DEF Attention
<1>29. ASSUME NEW t \in Threads, Unset(t) PROVE Attention'
  <2>a. t # Acceptor
    BY <1>a, <1>29 DEF Unset, Goto, TearDown
  <2>1. /\ Others(t) /\ job'[Acceptor] = job[Acceptor]
        /\ UNCHANGED <<file, sent, got, fin, rst, ready, batch, queue>>
        /\ mb_closed' = mb_closed
        /\ pc'[t] = "wipe" /\ job'[t] = job[t]
    BY <1>t, <1>w, <1>29, <2>a DEF Unset, Goto, Others, kernel, object
  <2>2. \A f \in Fds : Attends(t, f) /\ News(f) => Attends(t, f)'
    BY <2>1 DEF Attends, Reading, TearDown
  <2> QED
    BY <1>w, <2>1, <2>2, MoveAttention DEF Queued
<1>30. ASSUME NEW t \in Threads, Wipe(t) PROVE Attention'
  <2>a. t # Acceptor
    BY <1>a, <1>30 DEF Wipe, Goto, Finish, TearDown
  <2>1. /\ Others(t) /\ job'[Acceptor] = job[Acceptor]
        /\ UNCHANGED <<file, sent, got, fin, rst, ready, batch, queue>>
        /\ \A f \in Fds : mb_closed[f] => mb_closed'[f]
        /\ pc[t] = "wipe" /\ job[t] \in Fds
    BY <1>t, <1>w, <1>0, <1>30, <2>a DEF Wipe, Goto, Finish, Others, kernel, TInv, ObjectType, Working, Reading, TearDown
  <2>2. \A f \in Fds : Attends(t, f) /\ News(f) => Accepting(f)
    <3>1. ~ SetUp(job[t])
      BY <2>1 DEF Steady, Placed
    <3> QED
      BY <3>1 DEF Attends, News, SetUp, Fresh, Accepting
  <2> QED
    BY <1>w, <2>1, <2>2, MoveAttention DEF Queued
<1>31. CASE Crash
  <2>1. UNCHANGED <<sent, got, fin, rst, file, ready, batch, queue, pc, job, mb_closed>>
    BY <1>31 DEF Crash, kernel, object
  <2> QED
    BY <2>1 DEF Attention, Attended, News, Readable, Queued, Attends, Accepting
<1> QED
  BY <1>1, <1>2, <1>3, <1>4, <1>5, <1>6, <1>7, <1>8, <1>9, <1>10, <1>11, <1>12, <1>13, <1>14, <1>15,
     <1>16, <1>17, <1>18, <1>19, <1>20, <1>21, <1>22, <1>23, <1>24, <1>25, <1>26, <1>27, <1>28,
     <1>29, <1>30, <1>31
  DEF Step, ClientStep, AcceptorStep, WaiterStep, CleanerStep, WorkerStep, ReadStep,
      TearDownStep, Threads

(* With the order of the tasks, every socket with news is attended to.      *)
AttendedInv == OrderInv /\ (~ shared => Attention)

(* A step keeps both, by what it does before and after.                     *)
LEMMA AttendedStep ==
  ASSUME AttendedInv, [Next]_vars
  PROVE  AttendedInv'
<1>1. OrderInv'
  BY OrderStep DEF AttendedInv
<1>2. ASSUME Next, ~ shared' PROVE Attention'
  <2>1. ~ shared /\ Step
    BY <1>2 DEF Next
  <2> QED
    BY <2>1, AttentionStep DEF AttendedInv, OrderInv, UnsharedInv
<1>3. ASSUME UNCHANGED vars, ~ shared' PROVE Attention'
  <2>1. UNCHANGED <<sent, got, fin, rst, file, ready, batch, queue, pc, job, mb_closed, shared>>
    BY <1>3 DEF vars, system, kernel, object
  <2> QED
    BY <1>3, <2>1
    DEF AttendedInv, Attention, Attended, News, Readable, Queued, Attends, Accepting
<1> QED
  BY <1>1, <1>2, <1>3 DEF AttendedInv

(* Nothing a client sent is left in a socket with nobody to look: it has an *)
(* edge, an event, a read_task or a thread on its way to it, or the socket  *)
(* is being opened or torn down, until two threads share a task object.     *)
THEOREM Stranded == Spec => []NothingStranded
<1>1. Init => AttendedInv
  <2>1. Init => (~ shared => Attention)
    BY DEF Init, Attention, News
  <2> QED
    BY <2>1, OrderInit DEF AttendedInv
<1>2. AttendedInv /\ [Next]_vars => AttendedInv'
  BY AttendedStep
<1>3. ASSUME AttendedInv PROVE NothingStranded
  <2>1. SUFFICES ASSUME NEW f \in Fds, News(f), ~ shared, ~ TearingDown(f)
                 PROVE  \/ f \in ready
                        \/ \E e \in batch : e.fd = f
                        \/ Queued(f)
                        \/ \E w \in Workers : job[w] = f /\ pc[w] \in Reading
                        \/ \E w \in Workers : job[w] = f /\ pc[w] = "extract" /\ mb_closed[f]
                        \/ Accepting(f)
    BY DEF NothingStranded, News
  <2>2. ASSUME NEW t \in Threads, Attends(t, f)
        PROVE  t \in Workers /\ (pc[t] \in Reading \/ (pc[t] = "extract" /\ mb_closed[f]))
    <3>1. pc[t] \in Reading \/ (pc[t] = "extract" /\ mb_closed[f])
      BY <2>1, <2>2 DEF Attends, TearingDown
    <3>2. \A u \in {Acceptor, Waiter, Cleaner} : pc[u] \notin Reading \cup {"extract"}
      BY <1>3 DEF AttendedInv, OrderInv, TInv, ThreadType, AcceptorPC, WaiterPC, CleanerPC, TearDown,
                  Initialising, Reading
    <3> QED
      BY <3>1, <3>2 DEF Threads
  <2>3. Attended(f)
    BY <1>3, <2>1 DEF AttendedInv, Attention
  <2> QED
    BY <2>2, <2>3 DEF Attended, Attends
<1> QED
  BY <1>1, <1>2, <1>3, PTL DEF Spec

-----------------------------------------------------------------------------
(* Who may have an open descriptor's task closed.                           *)
Excused(f) ==
  (file[f] # NoConn /\ mb_closed[f]) =>
    fin[file[f]] \/ rst[file[f]] \/ TearingDown(f) \/ Accepting(f)

PeerClosed == \A f \in Fds : Excused(f)

(* A step that closes no task, and leaves no task it is tearing down.       *)
LEMMA MoveExcused ==
  ASSUME PeerClosed, NEW t \in Threads, Others(t), file' = file,
         NEW D \in SUBSET Fds,
         \A f \in Fds : file[f] # NoConn => /\ fin[file[f]] => fin'[file[f]]
                                            /\ rst[file[f]] => rst'[file[f]],
         \A f \in Fds \ D : mb_closed'[f] => mb_closed[f],
         \A f \in D : Excused(f)',
         job'[Acceptor] = job[Acceptor],
         pc[t] \in TearDown => (pc'[t] \in TearDown /\ job'[t] = job[t]) \/ job[t] \in D
  PROVE  PeerClosed'
<1>1. SUFFICES ASSUME NEW f \in Fds \ D PROVE Excused(f)'
  BY DEF PeerClosed
<1>2. TearingDown(f) => TearingDown(f)'
  BY <1>1 DEF TearingDown, Others
<1>3. Accepting(f) => Accepting(f)'
  BY DEF Accepting
<1> QED
  BY <1>1, <1>2, <1>3 DEF PeerClosed, Excused

(* mb_closed is set by a read that ended, which saw the client gone, and by *)
(* a thread that wipes a task whose descriptor is closed; init() resets it  *)
(* before the descriptor is registered.                                     *)
LEMMA ExcusedStep ==
  ASSUME TInv, Known, ConnsApart, Alone, Steady, PeerClosed, Step
  PROVE  PeerClosed'
<1> USE NameAssumption
<1>0. \A t \in Threads : pc[t] \in Working => job[t] \in Fds
  BY DEF TInv, ThreadType
<1>w. /\ \A w \in Workers : w \in Threads /\ w # Acceptor
      /\ Acceptor \in Threads /\ Waiter \in Threads /\ Cleaner \in Threads
      /\ Waiter # Acceptor /\ Cleaner # Acceptor
  BY DEF Threads
<1>t. pc \in [Threads -> WorkerPC \cup AcceptorPC \cup WaiterPC \cup CleanerPC]
      /\ job \in [Threads -> Fds \cup {NoFd}]
  BY DEF TInv, ThreadType
<1>a. pc[Acceptor] \notin TearDown
  BY DEF TInv, ThreadType, AcceptorPC, Initialising, TearDown
\* Most steps keep the files, the clients and mb_closed as they are.
<1>p. ASSUME NEW t \in Threads, t # Acceptor, Others(t),
             UNCHANGED <<file, fin, rst, mb_closed>>,
             pc[t] \in TearDown => pc'[t] \in TearDown /\ job'[t] = job[t]
      PROVE  PeerClosed'
  <2>1. job'[Acceptor] = job[Acceptor]
    BY <1>p, <1>w DEF Others
  <2> QED
    BY <1>p, <2>1, MoveExcused
<1>q. ASSUME UNCHANGED <<file, pc, job, mb_closed>>,
             \A c \in Conns : (fin[c] => fin'[c]) /\ (rst[c] => rst'[c])
      PROVE  PeerClosed'
  <2>1. \A f \in Fds : file[f] # NoConn => file[f] \in Conns
    BY DEF TInv, KernelType
  <2> QED
    BY <1>q, <2>1 DEF PeerClosed, Excused, TearingDown, Accepting
<1>1. ASSUME NEW c \in Conns, Connect(c) PROVE PeerClosed'
  BY <1>q, <1>1 DEF Connect, ClientUnchanged, object
<1>2. ASSUME NEW c \in Conns, Send(c) PROVE PeerClosed'
  BY <1>q, <1>2 DEF Send, ClientUnchanged, object
<1>3. ASSUME NEW c \in Conns, ClientCloses(c) PROVE PeerClosed'
  BY <1>q, <1>3 DEF ClientCloses, ClientUnchanged, object, TInv, KernelType
<1>4. ASSUME NEW c \in Conns, ClientResets(c) PROVE PeerClosed'
  BY <1>q, <1>4 DEF ClientResets, ClientUnchanged, object, TInv, KernelType
<1>5. ASSUME NEW f \in Fds, GrowsIdle(f) PROVE PeerClosed'
  BY <1>q, <1>5 DEF GrowsIdle, kernel
\* The thread that accepts a descriptor sets its task up.
<1>6. ASSUME NEW c \in Conns, NEW f \in Fds, Accept(c, f) PROVE PeerClosed'
  <2>1. /\ job[Acceptor] = NoFd /\ job'[Acceptor] = f /\ Others(Acceptor)
        /\ UNCHANGED <<fin, rst, mb_closed>>
        /\ \A g \in Fds : g # f => file'[g] = file[g]
    BY <1>t, <1>w, <1>6 DEF Accept, Goto, Others, object, TInv, KernelType, ConnsApart
  <2>2. ASSUME NEW g \in Fds, g # f PROVE Excused(g)'
    <3>1. ~ Accepting(g)
      BY <2>1 DEF Accepting
    <3>2. TearingDown(g) => TearingDown(g)'
      BY <1>a, <2>1 DEF TearingDown, Others
    <3> QED
      BY <2>1, <2>2, <3>1, <3>2 DEF PeerClosed, Excused
  <2>3. Accepting(f)'
    BY <2>1 DEF Accepting
  <2> QED
    BY <2>2, <2>3 DEF PeerClosed, Excused
<1>7. CASE Insert
  <2>1. /\ Others(Acceptor) /\ job'[Acceptor] = job[Acceptor]
        /\ UNCHANGED <<file, fin, rst, mb_closed>>
    BY <1>t, <1>w, <1>7 DEF Insert, Goto, Others, kernel, object
  <2> QED
    BY <1>a, <1>w, <2>1, MoveExcused
<1>8. CASE InitFd
  <2>1. /\ Others(Acceptor) /\ job'[Acceptor] = job[Acceptor]
        /\ UNCHANGED <<file, fin, rst, mb_closed>>
    BY <1>t, <1>w, <1>8 DEF InitFd, Goto, Others, kernel
  <2> QED
    BY <1>a, <1>w, <2>1, MoveExcused
<1>9. CASE InitRest
  <2>1. /\ Others(Acceptor) /\ job'[Acceptor] = job[Acceptor]
        /\ UNCHANGED <<file, fin, rst>>
        /\ \A g \in Fds : mb_closed'[g] => mb_closed[g]
    BY <1>t, <1>w, <1>9 DEF InitRest, Goto, Others, kernel, TInv, ObjectType
  <2> QED
    BY <1>a, <1>w, <2>1, MoveExcused
\* Its task is open by then.
<1>10. CASE EventAdd
  <2>1. /\ pc[Acceptor] = "event_add" /\ Others(Acceptor)
        /\ UNCHANGED <<file, fin, rst, mb_closed>>
    BY <1>t, <1>w, <1>10 DEF EventAdd, Goto, Others, object
  <2>2. ~ mb_closed[job[Acceptor]]
    BY <1>w, <2>1 DEF Steady, Placed
  <2>3. ASSUME NEW g \in Fds PROVE Excused(g)'
    <3>1. Accepting(g) => ~ mb_closed[g]
      BY <2>2 DEF Accepting
    <3>2. TearingDown(g) => TearingDown(g)'
      BY <1>a, <2>1 DEF TearingDown, Others
    <3> QED
      BY <2>1, <3>1, <3>2 DEF PeerClosed, Excused
  <2> QED
    BY <2>3 DEF PeerClosed
<1>11. CASE Wait
  BY <1>p, <1>t, <1>w, <1>11 DEF Wait, Goto, Others, object, TearDown
<1>12. CASE BatchDone
  BY <1>p, <1>t, <1>w, <1>12 DEF BatchDone, Goto, Others, object, kernel, TearDown
<1>13. ASSUME NEW e \in batch, DispatchError(e) PROVE PeerClosed'
  <2>1. /\ Others(Waiter) /\ pc[Waiter] = "dispatch"
        /\ UNCHANGED <<file, fin, rst, mb_closed>>
    BY <1>t, <1>w, <1>13 DEF DispatchError, Goto, Others, object, kernel
  <2> QED
    BY <1>p, <1>w, <2>1 DEF TearDown
<1>14. ASSUME NEW e \in batch, DispatchRead(e) PROVE PeerClosed'
  BY <1>q, <1>14 DEF DispatchRead, object, kernel
<1>15. ASSUME NEW f \in Fds, Expire(f) PROVE PeerClosed'
  BY <1>p, <1>t, <1>w, <1>15 DEF Expire, Goto, Others, object, kernel, TearDown
<1>16. ASSUME NEW w \in Workers, Begin(w) PROVE PeerClosed'
  <2>1. /\ Others(w) /\ pc[w] = "free"
        /\ UNCHANGED <<file, fin, rst, mb_closed>>
    BY <1>t, <1>w, <1>16 DEF Begin, Goto, Others, kernel
  <2> QED
    BY <1>p, <1>w, <2>1 DEF TearDown
<1>17. ASSUME NEW w \in Workers, CheckClosed(w) PROVE PeerClosed'
  BY <1>p, <1>t, <1>w, <1>17 DEF CheckClosed, Goto, Others, object, kernel, TearDown
\* Nothing but the client's end makes a read end.
<1>18. ASSUME NEW w \in Workers, ReadEnds(w) PROVE PeerClosed'
  <2>1. /\ pc[w] = "read" /\ Others(w) /\ job'[Acceptor] = job[Acceptor]
        /\ UNCHANGED <<file, fin, rst>>
        /\ \A g \in Fds \ {job[w]} : mb_closed'[g] = mb_closed[g]
    BY <1>t, <1>w, <1>18 DEF ReadEnds, Goto, Others, kernel, TInv, ObjectType
  <2>2. PICK f \in Fds : job[w] = f
    BY <1>0, <1>w, <2>1 DEF Working, Reading
  <2>3. Placed(w) /\ Bound(f)
    BY <1>w DEF Steady
  <2>4. SetUp(f) /\ mi_fd[f] = f /\ file[f] \in Conns /\ f # NoFd
    BY <2>1, <2>2, <2>3 DEF Placed, Bound, SetUp, TInv, KernelType
  <2>5. file[f] \notin Streaming
    BY <1>18, <2>2, <2>4 DEF ReadEnds, Peer
  <2>6. fin[file[f]] \/ rst[file[f]]
    BY <2>4, <2>5 DEF Streaming
  <2>7. Excused(f)'
    BY <2>1, <2>6 DEF Excused
  <2>8. {f} \in SUBSET Fds /\ pc[w] \notin TearDown
    BY <2>1 DEF TearDown
  <2> QED
    BY <1>w, <2>1, <2>2, <2>7, <2>8, MoveExcused
<1>19. ASSUME NEW w \in Workers, ReadAgain(w) PROVE PeerClosed'
  BY <1>p, <1>t, <1>w, <1>19 DEF ReadAgain, Goto, Others, object, kernel, TearDown
<1>20. ASSUME NEW w \in Workers, ReadData(w) PROVE PeerClosed'
  BY <1>p, <1>t, <1>w, <1>20 DEF ReadData, Goto, Others, object, TearDown
<1>21. ASSUME NEW w \in Workers, AppendData(w) PROVE PeerClosed'
  BY <1>p, <1>t, <1>w, <1>21 DEF AppendData, Goto, Others, kernel, TearDown
<1>22. ASSUME NEW w \in Workers, NoFrame(w) PROVE PeerClosed'
  <2>1. /\ Others(w) /\ pc[w] = "extract"
        /\ UNCHANGED <<file, fin, rst, mb_closed>>
    BY <1>t, <1>w, <1>22 DEF NoFrame, Finish, Goto, Others, kernel, object
  <2> QED
    BY <1>p, <1>w, <2>1 DEF TearDown
<1>23. ASSUME NEW w \in Workers, TakeFrame(w) PROVE PeerClosed'
  BY <1>q, <1>23 DEF TakeFrame, kernel
<1>24. ASSUME NEW w \in Workers, ParseSucceeds(w) PROVE PeerClosed'
  BY <1>p, <1>t, <1>w, <1>24 DEF ParseSucceeds, Finish, Goto, Others, object, kernel, TearDown
<1>25. ASSUME NEW w \in Workers, ParseQuits(w) PROVE PeerClosed'
  BY <1>p, <1>t, <1>w, <1>25 DEF ParseQuits, Goto, Others, object, kernel, TearDown
<1>26. ASSUME NEW t \in Threads, EventDel(t) PROVE PeerClosed'
  <2>1. /\ Others(t) /\ pc[t] = "event_del" /\ pc'[t] = "test" /\ job'[t] = job[t]
        /\ UNCHANGED <<file, fin, rst, mb_closed>>
    BY <1>t, <1>26 DEF EventDel, Goto, Others, object
  <2> QED
    BY <1>a, <1>p, <2>1 DEF TearDown
<1>27. ASSUME NEW t \in Threads, TestFd(t) PROVE PeerClosed'
  <2>1. /\ Others(t) /\ pc[t] = "test" /\ pc'[t] \in {"wipe", "close"} /\ job'[t] = job[t]
        /\ UNCHANGED <<file, fin, rst, mb_closed>>
    BY <1>t, <1>27 DEF TestFd, Goto, Others, object, kernel
  <2> QED
    BY <1>a, <1>p, <2>1 DEF TearDown
\* The descriptor is closed then, and its connection was on no other.
<1>28. ASSUME NEW t \in Threads, Close(t) PROVE PeerClosed'
  <2>1. /\ Others(t) /\ pc[t] = "close" /\ pc'[t] = "unset" /\ job' = job
        /\ mb_closed' = mb_closed
    BY <1>t, <1>28 DEF Close, Goto, Others, object
  <2>2. PICK f \in Fds : job[t] = f
    BY <1>0, <2>1 DEF Working, TearDown
  <2>3. Placed(t) /\ Bound(f)
    BY DEF Steady
  <2>4. SetUp(f) /\ mi_fd[f] = f /\ file[f] \in Conns /\ f # NoFd
    BY <2>1, <2>2, <2>3 DEF Placed, Bound, SetUp, TInv, KernelType
  <2>5. /\ file'[f] = NoConn /\ \A g \in Fds : g # f => file'[g] = file[g]
        /\ \A d \in Conns : d # file[f] => fin'[d] = fin[d] /\ rst'[d] = rst[d]
    BY <1>28, <2>2, <2>4 DEF Close, TInv, KernelType
  <2>6. ASSUME NEW g \in Fds, g # f PROVE Excused(g)'
    <3>1. file[g] # NoConn => file[g] \in Conns /\ file[g] # file[f]
      BY <2>4, <2>6 DEF ConnsApart, TInv, KernelType
    <3>2. TearingDown(g) => TearingDown(g)'
      BY <2>1, <2>2, <2>6 DEF TearingDown, Others
    <3>3. Accepting(g)' <=> Accepting(g)
      BY <2>1 DEF Accepting
    <3> QED
      BY <2>1, <2>5, <2>6, <3>1, <3>2, <3>3 DEF PeerClosed, Excused
  <2> QED
    BY <2>5, <2>6 DEF PeerClosed, Excused
<1>29. ASSUME NEW t \in Threads, Unset(t) PROVE PeerClosed'
  <2>1. /\ Others(t) /\ pc[t] = "unset" /\ pc'[t] = "wipe" /\ job'[t] = job[t]
        /\ UNCHANGED <<file, fin, rst, mb_closed>>
    BY <1>t, <1>29 DEF Unset, Goto, Others, kernel
  <2> QED
    BY <1>a, <1>p, <2>1 DEF TearDown
\* A descriptor that is open again is still being set up.
<1>30. ASSUME NEW t \in Threads, Wipe(t) PROVE PeerClosed'
  <2>1. /\ Others(t) /\ pc[t] = "wipe" /\ t # Acceptor
        /\ UNCHANGED <<file, fin, rst>>
        /\ \A g \in Fds \ {job[t]} : mb_closed'[g] = mb_closed[g]
    BY <1>a, <1>t, <1>30 DEF Wipe, Finish, Goto, Others, kernel, TInv, ObjectType, TearDown
  <2>2. PICK f \in Fds : job[t] = f
    BY <1>0, <2>1 DEF Working, TearDown
  <2>3. Placed(t)
    BY DEF Steady
  <2>4. file[f] # NoConn => Accepting(f)
    BY <2>1, <2>2, <2>3 DEF Placed, SetUp, Fresh, Accepting
  <2>5. job'[Acceptor] = job[Acceptor]
    BY <1>w, <2>1 DEF Others
  <2>6. Excused(f)'
    BY <2>1, <2>4, <2>5 DEF Excused, Accepting
  <2>7. {f} \in SUBSET Fds
    OBVIOUS
  <2> QED
    BY <2>1, <2>2, <2>5, <2>6, <2>7, MoveExcused
<1>31. CASE Crash
  BY <1>q, <1>31 DEF Crash, object, kernel
<1> QED
  BY <1>1, <1>2, <1>3, <1>4, <1>5, <1>6, <1>7, <1>8, <1>9, <1>10, <1>11, <1>12, <1>13, <1>14, <1>15,
     <1>16, <1>17, <1>18, <1>19, <1>20, <1>21, <1>22, <1>23, <1>24, <1>25, <1>26, <1>27, <1>28,
     <1>29, <1>30, <1>31
  DEF Step, ClientStep, AcceptorStep, WaiterStep, CleanerStep, WorkerStep, ReadStep,
      TearDownStep, Threads

PeerInv == OrderInv /\ (~ shared => PeerClosed)

(* The order of the tasks, before and after a step, keeps it.               *)
LEMMA PeerStep ==
  ASSUME PeerInv, [Next]_vars
  PROVE  PeerInv'
<1>1. OrderInv'
  BY OrderStep DEF PeerInv
<1>2. ASSUME Next, ~ shared' PROVE PeerClosed'
  <2>1. ~ shared /\ Step
    BY <1>2 DEF Next
  <2> QED
    BY <2>1, ExcusedStep DEF PeerInv, OrderInv, UnsharedInv
<1>3. ASSUME UNCHANGED vars, ~ shared' PROVE PeerClosed'
  <2>1. UNCHANGED <<fin, rst, file, pc, job, mb_closed, shared>>
    BY <1>3 DEF vars, system, kernel, object
  <2> QED
    BY <1>3, <2>1 DEF PeerInv, PeerClosed, Excused, TearingDown, Accepting
<1> QED
  BY <1>1, <1>2, <1>3 DEF PeerInv

(* Until two threads share a task object, the task of an open connection is *)
(* closed only after its client went, or by the thread that tears it down   *)
(* or sets it up: parse_task drops no request of a client that is there     *)
(* (read_task.cpp:34-45, parse_task.cpp:16).                                   *)
THEOREM DroppedOnlyWhenGone == Spec => []ClosedByPeer
<1>1. Init => PeerInv
  <2>1. Init => PeerClosed
    BY DEF Init, PeerClosed, Excused
  <2> QED
    BY <2>1, OrderInit DEF PeerInv
<1>2. PeerInv /\ [Next]_vars => PeerInv'
  BY PeerStep
<1>3. PeerInv => ClosedByPeer
  BY DEF PeerInv, PeerClosed, Excused, ClosedByPeer
<1> QED
  BY <1>1, <1>2, <1>3, PTL DEF Spec

-----------------------------------------------------------------------------
(* An open descriptor has an open connection.                               *)
Behind ==
  /\ \A f \in Fds : file[f] # NoConn => stage[file[f]] = "open"
  /\ shared \in BOOLEAN

(* What of a step the clients see.                                          *)
LEMMA StepSeen ==
  ASSUME Step
  PROVE  \/ \E c \in Conns : ClientStep(c)
         \/ \E c \in Conns, f \in Fds : Accept(c, f)
         \/ \E w \in Workers : TakeFrame(w)
         \/ \E t \in Threads : Close(t)
         \/ UNCHANGED <<stage, sent, fin, rst, file, taken>>
<1> DEFINE Quiet == UNCHANGED <<stage, sent, fin, rst, file, taken>>
<1>5. ASSUME NEW f \in Fds, GrowsIdle(f) PROVE Quiet
  BY <1>5 DEF GrowsIdle, kernel, history
<1>7. CASE Insert
  BY <1>7 DEF Insert, kernel, history
<1>8. CASE InitFd
  BY <1>8 DEF InitFd, kernel
<1>9. CASE InitRest
  BY <1>9 DEF InitRest, kernel, history
<1>10. CASE EventAdd
  BY <1>10 DEF EventAdd, history
<1>11. CASE Wait
  BY <1>11 DEF Wait, history
<1>12. CASE BatchDone
  BY <1>12 DEF BatchDone, kernel, history
<1>13. ASSUME NEW e \in batch, DispatchError(e) PROVE Quiet
  BY <1>13 DEF DispatchError, kernel, history
<1>14. ASSUME NEW e \in batch, DispatchRead(e) PROVE Quiet
  BY <1>14 DEF DispatchRead, kernel, history
<1>15. ASSUME NEW f \in Fds, Expire(f) PROVE Quiet
  BY <1>15 DEF Expire, kernel, history
<1>16. ASSUME NEW w \in Workers, Begin(w) PROVE Quiet
  BY <1>16 DEF Begin, kernel, history
<1>17. ASSUME NEW w \in Workers, CheckClosed(w) PROVE Quiet
  BY <1>17 DEF CheckClosed, kernel, history
<1>18. ASSUME NEW w \in Workers, ReadEnds(w) PROVE Quiet
  BY <1>18 DEF ReadEnds, kernel, history
<1>19. ASSUME NEW w \in Workers, ReadAgain(w) PROVE Quiet
  BY <1>19 DEF ReadAgain, kernel, history
<1>20. ASSUME NEW w \in Workers, ReadData(w) PROVE Quiet
  BY <1>20 DEF ReadData, history
<1>21. ASSUME NEW w \in Workers, AppendData(w) PROVE Quiet
  BY <1>21 DEF AppendData, kernel, history
<1>22. ASSUME NEW w \in Workers, NoFrame(w) PROVE Quiet
  BY <1>22 DEF NoFrame, kernel, history
<1>24. ASSUME NEW w \in Workers, ParseSucceeds(w) PROVE Quiet
  BY <1>24 DEF ParseSucceeds, kernel, history
<1>25. ASSUME NEW w \in Workers, ParseQuits(w) PROVE Quiet
  BY <1>25 DEF ParseQuits, kernel, history
<1>26. ASSUME NEW t \in Threads, EventDel(t) PROVE Quiet
  BY <1>26 DEF EventDel, history
<1>27. ASSUME NEW t \in Threads, TestFd(t) PROVE Quiet
  BY <1>27 DEF TestFd, kernel, history
<1>29. ASSUME NEW t \in Threads, Unset(t) PROVE Quiet
  BY <1>29 DEF Unset, kernel, history
<1>30. ASSUME NEW t \in Threads, Wipe(t) PROVE Quiet
  BY <1>30 DEF Wipe, kernel, history
<1>31. CASE Crash
  BY <1>31 DEF Crash, kernel, history
<1> QED
  BY <1>5, <1>7, <1>8, <1>9, <1>10, <1>11, <1>12, <1>13, <1>14, <1>15, <1>16, <1>17, <1>18, <1>19,
     <1>20, <1>21, <1>22, <1>24, <1>25, <1>26, <1>27, <1>29, <1>30, <1>31
  DEF Step, AcceptorStep, WaiterStep, CleanerStep, WorkerStep, ReadStep, TearDownStep, Threads

(* The connection a close() hits, when it hits one.                         *)
LEMMA CloseHits ==
  ASSUME TInv, NEW t \in Threads, Close(t)
  PROVE  \/ UNCHANGED kernel
         \/ \E f \in Fds :
              /\ file[f] \in Conns
              /\ stage' = [stage EXCEPT ![file[f]] = "closed"]
              /\ sent' = [sent EXCEPT ![file[f]] = 0]
              /\ fin' = [fin EXCEPT ![file[f]] = FALSE]
              /\ rst' = [rst EXCEPT ![file[f]] = FALSE]
              /\ file' = [file EXCEPT ![f] = NoConn]
<1>1. CASE mi_fd[job[t]] = NoFd \/ file[mi_fd[job[t]]] = NoConn
  BY <1>1 DEF Close
<1>2. CASE ~ (mi_fd[job[t]] = NoFd \/ file[mi_fd[job[t]]] = NoConn)
  <2>1. PICK f \in Fds : mi_fd[job[t]] = f /\ file[f] \in Conns
    BY <1>2 DEF Close, Goto, TInv, ThreadType, ObjectType, KernelType, Working, TearDown
  <2> QED
    BY <1>2, <2>1 DEF Close
<1> QED
  BY <1>1, <1>2

(* Only accept() opens a descriptor and only close() ends its connection.   *)
LEMMA BehindStep ==
  ASSUME TInv, ConnsApart, Behind, [Next]_vars
  PROVE  Behind'
<1>s. shared' \in BOOLEAN
  BY DEF Behind, Next, vars
<1>0. ASSUME UNCHANGED <<stage, file>> PROVE Behind'
  BY <1>0, <1>s DEF Behind
<1>t. stage \in [Conns -> {"new", "backlog", "open", "closed"}]
      /\ file \in [Fds -> Conns \cup {NoConn}]
  BY DEF TInv, KernelType
<1>1. ASSUME NEW c \in Conns, ClientStep(c) PROVE Behind'
  <2>1. file' = file /\ (stage' = stage \/ (stage[c] = "new" /\ stage' = [stage EXCEPT ![c] = "backlog"]))
    BY <1>1 DEF ClientStep, Connect, Send, ClientCloses, ClientResets, ClientUnchanged
  <2> QED
    BY <1>s, <1>t, <2>1 DEF Behind
<1>2. ASSUME NEW c \in Conns, NEW f \in Fds, Accept(c, f) PROVE Behind'
  <2>1. stage[c] = "backlog" /\ stage' = [stage EXCEPT ![c] = "open"] /\ file' = [file EXCEPT ![f] = c]
    BY <1>2 DEF Accept
  <2> QED
    BY <1>s, <1>t, <2>1 DEF Behind
<1>3. ASSUME NEW w \in Workers, TakeFrame(w) PROVE Behind'
  BY <1>0, <1>3 DEF TakeFrame, kernel
<1>4. ASSUME NEW t \in Threads, Close(t) PROVE Behind'
  <2>1. ASSUME NEW f \in Fds, file[f] \in Conns, stage' = [stage EXCEPT ![file[f]] = "closed"],
               file' = [file EXCEPT ![f] = NoConn]
        PROVE  Behind'
    BY <1>s, <1>t, <2>1 DEF Behind, ConnsApart
  <2>2. UNCHANGED kernel => Behind'
    BY <1>0 DEF kernel
  <2> QED
    BY <1>4, <2>1, <2>2, CloseHits
<1>5. CASE UNCHANGED vars
  BY <1>0, <1>5 DEF vars, system, kernel
<1> QED
  BY <1>0, <1>1, <1>2, <1>3, <1>4, <1>5, StepSeen DEF Next

(* The frame that is taken is the next one of the connection behind the     *)
(* task's descriptor, and all of it was read.                               *)
LEMMA FrameTaken ==
  ASSUME TInv, HistoryType, Alone, Steady, NEW w \in Workers, TakeFrame(w),
         NEW f \in Fds, job[w] = f
  PROVE  /\ file[f] \in Conns
         /\ taken' = [taken EXCEPT ![file[f]] = @ + 1]
         /\ 2 * taken[file[f]] + 2 <= got[file[f]]
<1> USE NameAssumption
<1>0. w \in Threads
  BY DEF Threads
<1> DEFINE c == file[f]
<1>1. pc[w] = "extract" /\ Len(mv_data[f]) >= 2
  BY DEF TakeFrame
<1>2. \A u \in Threads : ~ (job[u] = f /\ pc[u] = "append")
  BY <1>0, <1>1, Lone DEF Working, Reading
<1>3. Placed(w) /\ Streamed(f)
  BY <1>0 DEF Steady
<1>4. SetUp(f) /\ c \in Conns
  BY <1>1, <1>3 DEF Placed, SetUp, TInv, KernelType
<1>5. mv_data[f] \in Seq(Units) /\ taken[c] \in Nat /\ Run(mv_data[f], c, 2 * taken[c])
  BY <1>3, <1>4 DEF TInv, ObjectType, HistoryType, Streamed
<1>6. SubSeq(mv_data[f], 1, 2) = <<<<c, 2 * taken[c] + 1>>, <<c, 2 * taken[c] + 2>>>>
  BY <1>1, <1>5, RunSplit
<1>7. got[c] = 2 * taken[c] + Len(mv_data[f])
  BY <1>2, <1>3, <1>4 DEF Streamed, Visited
<1>8. taken' = [taken EXCEPT ![c] = @ + 1]
  <2> DEFINE frame == SubSeq(mv_data[f], 1, 2)
  <2>1. frame[1][1] = c
    <3>1. frame = <<<<c, 2 * taken[c] + 1>>, <<c, 2 * taken[c] + 2>>>>
      BY <1>6
    <3> HIDE DEF frame, c
    <3> QED
      BY <3>1
  <2> HIDE DEF c
  <2>2. IsNext(frame, c)
    BY <1>6 DEF IsNext
  <2> QED
    BY <2>1, <2>2 DEF TakeFrame
<1>9. 2 * taken[c] + 2 <= got[c]
  <2> DEFINE n == 2 * taken[c]
             l == Len(mv_data[f])
  <2>1. n \in Nat /\ l \in Nat /\ l >= 2 /\ got[c] = n + l
    BY <1>1, <1>5, <1>7, LenProperties
  <2> HIDE DEF n, l
  <2>2. n + 2 <= got[c]
    BY <2>1
  <2> QED
    BY <2>2 DEF n
<1> QED
  BY <1>4, <1>8, <1>9

(* A step hands out the next frame of an open connection, or does what the  *)
(* client asked, or nothing the clients can tell, as long as nobody shares  *)
(* a task object.                                                           *)
LEMMA ServiceStep ==
  ASSUME OrderInv, OrderInv', Behind, [Next]_vars
  PROVE  [Promised!ServiceNext]_(Promised!service)
<1> DEFINE gone == [c \in Conns |-> fin[c] \/ rst[c]]
<1>t. /\ stage \in [Conns -> {"new", "backlog", "open", "closed"}]
      /\ sent \in [Conns -> 0..MaxUnits] /\ got \in [Conns -> 0..MaxUnits]
      /\ fin \in [Conns -> BOOLEAN] /\ rst \in [Conns -> BOOLEAN]
      /\ file \in [Fds -> Conns \cup {NoConn}]
      /\ taken \in [Conns -> Nat]
  BY DEF OrderInv, TInv, KernelType, HistoryType
<1>1. CASE shared'
  BY <1>1 DEF Promised!ServiceNext, Promised!Overlap
<1>2. CASE UNCHANGED vars
  BY <1>2 DEF vars, system, kernel, history, Promised!service
<1>3. CASE Next /\ ~ shared'
  <2>1. ~ shared /\ Step
    BY <1>3 DEF Next
  <2>2. /\ ~ torn /\ ~ crossed /\ ~ torn' /\ ~ crossed'
        /\ TInv /\ ConnsApart /\ HistoryType /\ Alone /\ Steady
    BY <1>3, <2>1 DEF OrderInv, UnsharedInv, FramesWhole, ClosesItsOwn
  <2>s. shared' = shared /\ (torn \/ crossed)' = (torn \/ crossed)
    <3>1. shared' \in BOOLEAN /\ shared \in BOOLEAN
      BY <1>3 DEF Behind, Next
    <3>2. shared' = shared
      BY <1>3, <2>1, <3>1
    <3>3. (torn \/ crossed)' = (torn \/ crossed)
      BY <2>2, Zenon
    <3> QED
      BY <3>2, <3>3
  <2>3. ASSUME UNCHANGED <<stage, sent, fin, rst, taken>> PROVE UNCHANGED Promised!service
    BY <2>3, <2>s DEF Promised!service
  <2>4. ASSUME NEW c \in Conns, Connect(c) PROVE Promised!Arrive(c)
    BY <2>4, <2>s DEF Connect, ClientUnchanged, history, Promised!Arrive, Promised!Advance
  <2>5. ASSUME NEW c \in Conns, Send(c) PROVE Promised!Send(c)
    BY <2>5, <2>s DEF Send, Online, ClientUnchanged, history, Promised!Send
  <2>6. ASSUME NEW c \in Conns, ClientCloses(c) PROVE Promised!Leave(c)
    <3>1. /\ stage[c] \in {"backlog", "open"} /\ ~ gone[c]
          /\ UNCHANGED <<stage, sent, rst, taken>> /\ fin' = [fin EXCEPT ![c] = TRUE]
      BY <2>6 DEF ClientCloses, Online, ClientUnchanged, history
    <3>2. gone' = [gone EXCEPT ![c] = TRUE]
      BY <1>t, <3>1
    <3> QED
      BY <3>1, <3>2, <2>s DEF Promised!Leave
  <2>7. ASSUME NEW c \in Conns, ClientResets(c) PROVE Promised!Leave(c)
    <3>1. /\ stage[c] \in {"backlog", "open"} /\ ~ gone[c]
          /\ UNCHANGED <<stage, sent, fin, taken>> /\ rst' = [rst EXCEPT ![c] = TRUE]
      BY <2>7 DEF ClientResets, Online, ClientUnchanged, history
    <3>2. gone' = [gone EXCEPT ![c] = TRUE]
      BY <1>t, <3>1
    <3> QED
      BY <3>1, <3>2, <2>s DEF Promised!Leave
  <2>8. ASSUME NEW c \in Conns, NEW f \in Fds, Accept(c, f) PROVE Promised!Accept(c)
    BY <2>8, <2>s DEF Accept, history, Promised!Accept, Promised!Advance
  <2>9. ASSUME NEW w \in Workers, TakeFrame(w)
        PROVE  \E c \in Conns : Promised!Hand(c)
    <3>1. PICK f \in Fds : job[w] = f
      BY <2>2, <2>9 DEF TakeFrame, TInv, ThreadType, Working, Threads
    <3> DEFINE c == file[f]
    <3>2. /\ c \in Conns
          /\ taken' = [taken EXCEPT ![c] = @ + 1]
          /\ 2 * taken[c] + 2 <= got[c]
      BY <2>2, <2>9, <3>1, FrameTaken
    <3>o. stage[c] = "open"
      BY <3>2, NameAssumption DEF Behind
    <3>3. got[c] <= sent[c]
      BY <2>2, <3>2 DEF TInv, KernelType
    <3> HIDE DEF c
    <3>4. 2 * taken[c] + 2 <= sent[c]
      BY <1>t, <3>2, <3>3
    <3>5. UNCHANGED <<stage, sent, fin, rst>>
      BY <2>9 DEF TakeFrame, kernel
    <3> QED
      BY <2>s, <3>o, <3>2, <3>4, <3>5 DEF Promised!Hand
  <2>10. ASSUME NEW t \in Threads, Close(t)
         PROVE  UNCHANGED Promised!service \/ \E c \in Conns : Promised!Close(c)
    <3>1. taken' = taken
      BY <2>10 DEF Close
    <3>2. UNCHANGED kernel => UNCHANGED Promised!service
      BY <2>3, <3>1 DEF kernel
    <3>3. ASSUME NEW f \in Fds, file[f] \in Conns,
                 stage' = [stage EXCEPT ![file[f]] = "closed"],
                 sent' = [sent EXCEPT ![file[f]] = 0],
                 fin' = [fin EXCEPT ![file[f]] = FALSE], rst' = [rst EXCEPT ![file[f]] = FALSE]
          PROVE  Promised!Close(file[f])
      <4>1. stage[file[f]] = "open"
        BY <3>3, NameAssumption DEF Behind
      <4>2. gone' = [gone EXCEPT ![file[f]] = FALSE]
        BY <1>t, <3>3
      <4> QED
        BY <2>s, <3>1, <3>3, <4>1, <4>2 DEF Promised!Close, Promised!Advance
    <3>4. CASE UNCHANGED kernel
      BY <3>2, <3>4
    <3>5. CASE ~ UNCHANGED kernel
      <4>1. PICK f \in Fds :
              /\ file[f] \in Conns
              /\ stage' = [stage EXCEPT ![file[f]] = "closed"]
              /\ sent' = [sent EXCEPT ![file[f]] = 0]
              /\ fin' = [fin EXCEPT ![file[f]] = FALSE]
              /\ rst' = [rst EXCEPT ![file[f]] = FALSE]
        BY <2>2, <2>10, <3>5, CloseHits
      <4>2. Promised!Close(file[f])
        BY <3>3, <4>1
      <4> QED
        BY <4>1, <4>2 DEF Promised!Close
    <3> QED
      BY <3>4, <3>5
  <2> QED
    BY <2>1, <2>3, <2>4, <2>5, <2>6, <2>7, <2>8, <2>9, <2>10, StepSeen
    DEF ClientStep, Promised!ServiceNext
<1> QED
  BY <1>1, <1>2, <1>3

(* The server is a FrameService: it hands out the frames of an open         *)
(* connection one after the other, none before it is complete and none      *)
(* twice, and closes a connection at most once, until two threads share a   *)
(* task object (read_task.cpp:50-72, main_service.cpp:60-100).              *)
THEOREM ServiceRefinement == Spec => ImplementsFrameService
<1>1. Init => Promised!ServiceInit
  BY DEF Init, Promised!ServiceInit
<1>2. Init => OrderInv /\ Behind
  BY OrderInit DEF Init, Behind
<1>3. OrderInv /\ Behind /\ [Next]_vars => OrderInv' /\ Behind'
  BY OrderStep, BehindStep DEF OrderInv
<1>4. OrderInv /\ OrderInv' /\ Behind /\ [Next]_vars => [Promised!ServiceNext]_(Promised!service)
  BY ServiceStep
<1> QED
  BY <1>1, <1>2, <1>3, <1>4, PTL DEF Spec, ImplementsFrameService, Promised!ServiceSpec
=============================================================================
