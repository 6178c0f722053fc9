# TLA+ models of mycpplib (`rui`)

`rui` is a small C++ library for Linux servers: a thread pool, an epoll
wrapper, per-connection task objects, HTTP and JSON framing over sockets, a toy
byte cipher, URL and string helpers.  `test/server` is the program that puts the
parts together (a forking supervisor, an acceptor, an epoll waiter, an idle
cleaner and a pool of workers); `test/client` talks to it.  The specifications
here describe what that code does, as it is in the sources, with TLC
configurations that check small instances of it and TLAPS proofs of the
properties that were worth having for every size.

    tlc -config MCThreadPool.cfg MCThreadPool      # any MC module with its .cfg
    tlapm ThreadPoolProofs.tla                     # any ...Proofs module

`PROJECT.json` lists for every definition the source lines it stands for, for
every run its properties, and for every property a mutation of the model (a
plausible bug in the code) under which the property fails.

## 1. Inventory

| component | state it keeps | operations | who it interacts with | what is hard about it | what makes it correct |
|---|---|---|---|---|---|
| **thread pool** `threadpool.{h,cpp}` | queue of `unique_ptr<threadtask>`, mutex, condition variable, `mb_shutdown` | `start`, `entry` (worker loop), `add_task`, destructor | service threads and running tasks call `add_task`; `exit()` runs the destructor of the static instance while threads run | signal after unlock, spurious wakeups, `pthread_create` failing midway, destruction without the mutex | queue only under the mutex; a task owned once, run once, in order; no task sleeps beside a sleeping worker; destructor ends |
| **main service** `test/server/main_service.*`, `read_task.*`, `parse_task.*` | `mm_task` (descriptor to task object), the epoll object, the pending event batch | `add_task(int)`, `del_task`, accept / wait / clear threads, `read_task::run`, `parse_task::run` | the pool runs its tasks; the kernel supplies events and reuses descriptors; clients | four kinds of threads in one task object, descriptor reuse, edge-triggered events, partial frames | every event finds its task; no data left unread without an event; frames whole and in order; a close hits its own connection; dead and idle connections are reclaimed |
| **task object** `task.h` | `mi_fd`, `mv_data`, `m_time`, `mb_closed`, `m_lock` | `init`, `clear` | main service | reused for every connection of a descriptor | part of main service |
| **epoll wrapper** `epoll.*` | listening socket, epoll descriptor | `create`, `accept`, `wait`, `event_add`, `event_del`, destructor | main service, kernel, descendants of the process (they inherit the socket) | edge triggering, registration of a descriptor that is already closed, a start that fails halfway and closes nothing | part of main service; a port is served by one process and comes back after failures |
| **process supervision** `test/server/main.cpp` | lock file, `g_single_proc_inst_lock_fd`, `gpid_child`, signal dispositions | lock, fork loop, two signal handlers, `atexit` cleanup | other instances (through the lock file), its worker, operators (signals) | what a child inherits, a signal between `fork()` and its assignment, the order of close and remove | at most one instance; a dead worker is replaced; stopping the supervisor stops the worker |
| **crypto** `crypto.*` | `mi_xor`; per call: the running `ixor` | `encode`, `decode`, hexadecimal form of both | JSON channel, applications | key residues, running state at two ends, half bytes | decode inverts encode on every byte that arrived whole |
| **JSON channel** `net.cpp` (`rui::json`) | nothing between calls; per call: length, collected bytes | `read`, `write`, `read_decoded`, `write_encoded` | sockets, crypto | short reads and writes, timeouts in a frame, resets | messages arrive whole, once, in order; an end of stream loses nothing; no call hangs |
| **socket helpers** `net.{h,cpp}` | none | `connect`, `set_nonblocking`, `select_rdset`, `select_wrset`, `read`, `write` | everything above | partial transfers, EINTR, EAGAIN | the loops of `write` and the waits of `select` are part of the channel |
| **HTTP** `net.cpp` (`rui::http`) | per call: head, body length, chunk state | `read_head`, `read_in_length_mode`, `read_in_chunk_mode`, writers | sockets | the same as the channel, with two body framings | the body returned is the body sent |
| **request line** `net.cpp` | the caller's string and argument map, reused for each request | `get_vpath`, `parse_url`, `divide_argument` | HTTP users | a map that held the request before; arguments without a value, given twice, or named like the path | the map says what this request asks for |
| **URL object** `rurl.h` | host, path, port (a `short`) | constructors, `init`, `clear`, getters, `whole_url` | HTTP users | a used object initialised again, ports above 32767, its own output parsed again | the object stands for the URL it was given last |
| **string helpers, gzip, md5** `rui.h` | none | `Substr`, `split`, `replace_all`, conversions | everything | | `Substr` is in the request line; the rest section 8 |
| **locks** `lock.h` | `success` per guard; the pthread lock | scoped `mutex`, `rwlock` | task objects | nested guards, a constructor that fails silently; only effective when the guard has a name (finding 2) | a write guard excludes the others' guards |
| **dates** `datetime.*`, **time stamps** `rui.h` | `m_tm`; the static `tm` of the C library | `load_from_second`, `load_from_string`, `to_time_t`; `getTime` | every thread that logs | one `tm` for all threads, a `tm_isdst` that is left over | a stamp comes from the calls it overlaps; a parsed time is the time of the string |
| **logging** `trace_log.h`, **database glue** `db.h`, **OTL** `otlv4.h` | none | output; a vendored header | | | not modelled, section 8 |

`PROJECT.json` lists what can go wrong at which line ("hazards"); each property
below is aimed at one or more of them.

## 2. Modules

| module | EXTENDS / INSTANCE | models | proved in |
|---|---|---|---|
| `TaskPool` | | what a pool promises: tasks accepted once, started in order, at most `MaxRunning` at a time, ended at most once | |
| `ThreadPool` | `TaskPool` (refinement) | the pool statement by statement | `ThreadPoolProofs` |
| `FrameService` | | what the server promises its clients: frames of an open connection handed out one after the other, complete, and a connection closed at most once | |
| `MainService` | `FrameService` (refinement) | the server's threads over shared task objects, epoll and connections | `MainServiceProofs` |
| `Supervisor` | | lock file, fork loop, signals, `atexit` | `SupervisorProofs` |
| `Codec` | | the byte operations of `crypto` | `CodecProofs` |
| `Crypto` | `Codec` | `encode_to_string`, transport, `decode_from_string` | `LibraryProofs` |
| `Startup` | | how forked processes get hold of the port, and what failures leave behind | `StartupProofs` |
| `MessageChannel` | | what a reader of a connection may rely on: messages whole, in order, and all of them when told of the close | `LibraryProofs` |
| `JsonChannel` | `Codec`, `MessageChannel` (refinement) | `rui::json` over a byte stream | `JsonChannelProofs` |
| `HttpReader` | `MessageChannel` (refinement) | `rui::http::read` over a stream of messages | `HttpReaderProofs` |
| `Text` | | what the URL code does with strings | |
| `Url` | `Text` | `class rurl` | `LibraryProofs` |
| `Query` | `Text` | `get_vpath`, `parse_url`, `divide_argument`, `Substr` | `LibraryProofs` |
| `Clock` | | `localtime()` under several threads, `datetime` | `LibraryProofs` |
| `ScopedLock` | | the guards of `lock.h` | `LibraryProofs` |
| `MC...` | the module of that name | symmetry sets, state constraints and values that a .cfg cannot write | |

### Plan

Done, in this order, because each is what the next rests on:
1. `TaskPool`, `ThreadPool` and all their safety proofs.
2. `MainService` (the pool appears in it as its abstract queue) with the proof
   that an event always finds its task.
3. `Supervisor`.
4. `Codec`, `Crypto`, with the proof of the round trip.
5. `JsonChannel`.
6. `HttpReader`.
7. `MessageChannel` as the specification of both readers, and the proofs that it delivers
   in order and completely.
8. `Startup`, the sockets beside the signals of `Supervisor`, with the proof that one process
   accepts.
9. `Text`, `Url`, `Query`, `Clock`, `ScopedLock`, checked together in `MCLibrary`, with
   the proofs that lock guards exclude and of what `localtime()` leaves to its callers.

10. The proofs of `MainService` (whole frames, own descriptors, nothing stranded), of
   `Supervisor`, and of `JsonChannel` with its refinement of `MessageChannel`.
11. The proofs of `HttpReader` with its refinement of `MessageChannel`, and of `Url`.
12. `FrameService` as the specification of the server, with the proof that `MainService`
   implements it and that a request is dropped only when its client is gone.
13. The proof of `Query`, whose loops were made steps of their own for it.

Not planned: the queue of `MainService` shown to be `TaskPool`.  It is the FIFO that `TaskPool`
describes by its definition (`Append`, `Head`, `Tail`), and the same task can be in it twice, so
the mapping would need a serial number that nothing else looks at.

## 3. ThreadPool

State: the four members of `threadpool` (`mq_task`, `mb_shutdown`, the mutex as
its owner, the condition variable as the set of threads blocked on it), each
thread's place in `entry()` or `add_task()`, its local `ptask` or argument, and
for every task object whether a `unique_ptr` owns it, `release()` let go of it or
a destructor deleted it.  An action is one statement of the source (`Pop` is
lines 80-81, `AddSignal` line 102), so that every interleaving of statements
that touch shared state is explored.  Included: `pthread_create` failing for any
thread (`StartFails`), tasks that throw (`RunThrows`), tasks that add tasks,
spurious wakeups, the destructor at any time after construction, and
`pthread_mutex_destroy` on a free or a held mutex.  Threads are not followed past
the end of the destructor (`main_pc = "gone"`), nor past the use of a destroyed
mutex (`"undefined"`).

| run | instance | shows |
|---|---|---|
| `pool` | 2 workers, 2 clients, 3 tasks | `TypeOK`, `QueueGuarded` (queue only under the mutex, the mutex held nowhere else), `SoleOwner` (a task is in one place), `WorkConserving` (a sleeping worker implies a signal or an awake worker for every queued task); `Served`, `ShutdownCompletes`, `ImplementsTaskPool` (`TaskPool` as a property under the mapping at the end of the module) |
| `pool_leak` | 2 workers, 1 client, 2 tasks | finding 1 |

Two workers that both sleep, or of which one sleeps and one runs a task that adds another,
beside two clients that add at the same time: that is what a lost, a misdirected or an
early signal needs.  `Tasks` is the only bound on calls of `add_task`.  The safety
properties are proved for any number of threads and tasks (section 7).

Fairness (`FairSpec`): weak fairness of every thread's own statements and of the
destructor's, because the system schedules every thread; with a thread still
blocked on the condition variable `pthread_cond_destroy` may block, so it is fair
only without one.  Nothing is assumed of `run()`, of spurious wakeups, of anyone
calling `add_task`, or of `exit()`.  The mutex itself is only weakly fair, so
`Served` assumes that workers become free infinitely often.

Deadlock checking is off here and in every other run: a server with no work, a
finished call and a finished process all stop legitimately.

## 4. MainService

State: the kernel's view of connections (`stage`, `sent`, `got`, `fin`, `rst`), the
descriptor table (`file`), the epoll set and its ready list (`interest`, `ready`);
the keys of `mm_task`; the fields of each descriptor's task object (`mi_fd`,
`mb_closed`, `mv_data`, and `idle` for the age of `m_time`); the undelivered part
of an event batch; the pool's queue; and every thread's place and local buffer.
A task object is named by its descriptor, because `mm_task` never erases an entry.
`init()` and `clear()` are cut where another thread can observe the difference: after
`mi_fd` is assigned in `init`, and between the test, `close`, `mi_fd = -1` and the rest in
`clear`.  `rui::mutex(p_task->m_lock);` constructs a guard without a name, which is
destroyed at the semicolon; it excludes nothing and so is not in the model
(finding 2).  `Crash` is the outcome of a data race on `std::map` or `std::vector`.

A connection carries units; a frame is two of them (length and text), and a unit
knows its connection and its position, so that a glued, split, lost or foreign
unit is visible.

Because two threads can be in one task object, nothing can be promised about the
contents of a connection after that happened.  The history variable `shared`
records the first time, and `NothingStranded`, `FramesWhole`, `ClosesItsOwn`,
`NoneOrphaned` and `ClosedByPeer` hold until then; the constraint `MCUnshared` stops the search there,
which loses nothing for them since `shared` never becomes false again.  `TypeOK` and
`EventsHaveTasks` do not depend on it.  The proofs of section 7 have no constraint: they
cover the states it cuts off too.

`FrameService` is the server without descriptors, tasks, epoll and threads: connections that
arrive, are accepted, send, leave and are closed, and frames that are handed out.  Under the
mapping at the end of the module `TakeFrame` is `Hand` and `Accept` and `Close` are themselves;
`spoiled` is `torn` or `crossed`, so that a frame of another connection, or a close of one, is
no step of it.  `Overlap` is the exception: a step after which `shared` is true may be
anything.  It says what the invariants do not: that a frame is handed out of an open
connection only, no frame twice, none that was not sent whole, and no connection closed
twice.

| run | instance | shows |
|---|---|---|
| `service` | 2 workers, 1 descriptor, 2 connections, 3 units each | the invariants above and `ImplementsFrameService`: a second connection takes over the descriptor while the first is being torn down, with a whole frame and half of another on the way |
| `service_live` | the same, 1 unit | `PeerCloseReclaimed`, `IdleReclaimed` |
| `service_lock` | 1 connection, 2 units | finding 2: `TaskExclusive` fails |

One descriptor is enough for these questions: task objects of different
descriptors share only `mm_task`, the queue and the threads, and two connections
on one descriptor are what stale state needs.

Fairness: the acceptor, the waiter, the cleaner and each worker keep running
(weak fairness); the cleaner's scan comes back to every entry of `mm_task`
(strong fairness of `Expire(f)`, as the `for` loop at `main_service.cpp:193` visits
every entry every round).  Clients and the clock are free.

Not in it: `write_failure()` never blocks (on a full send buffer `net::write` would
spin); more than one `SOCKET_BUFFER_SIZE` of data in one read.

## 5. Supervisor

A process is a program counter plus what `fork()` copies: `handler`, `lock_fd`
and the `atexit` registration.  `Roots` are the processes an operator starts, `Kids`
the process slots `fork()` may use.  Modelled by their effect: `open(O_CREAT)`,
`flock` (held by the open file description, so by every process that inherited
it), `fork`, `waitpid` (also of pid 0), zombies, orphans, default and installed
signal actions, and `exit()` running `single_proc_inst_lockfile_cleanup`, whose
`close` and `remove` are two steps.  The worker's own life is reduced to starting
(one process may listen on the port), serving and crashing.  A `work_process()` that
returns falls into `main`'s loop, as in the code.  A worker's `exit()` runs `~threadpool()` before
the cleanup (static objects are destroyed in the reverse order of their construction), and
that may never return: `ThreadPool` shows the window in which a thread misses the
broadcast, and a process forked from a worker whose `start()` failed has a copy of a
condition variable with threads asleep on it.  `ExitHangs` is that outcome, and
`TermCompletes` names it: the supervisor then waits for a worker that does not end.  A second signal of another kind
inside a handler is left out.

| run | instance | shows |
|---|---|---|
| `supervisor` | 2 instances, 2 process slots, symmetric | `TypeOK` (a supervisor waits only for a child that is its own), `OneInstanceUnlessStolen`, `NoOrphan` |
| `supervisor_live` | 1 instance, 2 slots | `WorkerReplaced`, `TermCompletes` |
| `supervisor_one` | 2 instances, 2 slots | finding 3: `OneInstance` fails |

Two slots give each of two instances a worker, or one instance a worker and a
grandchild.  Fairness: each process runs and its pending signals are delivered;
nothing is assumed of operators, crashes or the length of `work_process()`.

### Startup

The same processes, seen from their sockets.  A forked process goes through
`work_process()`: the pool, `socket`, `bind`, `listen`, `epoll_create`, then the cleaner, the waiter
and the acceptor.  Any of these may fail (`StartFails`).  Nothing is closed then: the
process sleeps and forks in the loop of `main()`, and its children inherit what is open.
A socket lives as long as some process has it open, listening or not, and a
connection made by `net::connect()` to a socket that listens waits for an `accept()`
that may never come.  The processes also crash at any point, and their zombies and
orphans are kept as in `Supervisor`; signals and the lock file are left out here.

| run | instance | shows |
|---|---|---|
| `startup` | 1 root, 3 process slots, 1 client, 3 faults | `OneAcceptor` (one process accepts, and only with all its threads), `Recovers`, `NobodyHangs` |

`Recovers` and `NobodyHangs` name what the code does not promise.  `Held`: a `start()` that
fails after `listen()`, or a crash after which a descendant still has the socket, leaves a
socket that listens for nobody; no other process can bind to the port and clients wait
for ever in its backlog.  `Hung`: a process hangs in its exit and everyone above it waits
for it.  Three faults are what these need together: a start that fails, a crash of the
process above it, and a failing `fork()`.  Fairness: processes and their acceptors run.

## 6. Channels and library

`Codec` represents a byte by the set of its one bits, which makes `&`, `|`, `^` and
the shifts set operations (and provable); `NextXor` and `CMod` are the C integer
expressions, with the sign of `%`.  `Crypto` follows one vector through
`encode_to_string`, a transport that cuts the string after any number of digits, odd
ones too, with or without a character that is no digit (a newline) after the cut, and
`decode_from_string`; the loops are actions and `ixor` is state.  `string_to_hex` drops
a character without a partner and counts one that is no digit as 0, so half a byte and
a newline become one byte more than was encoded; `DecodesPrefix` says exactly when, and
that the whole bytes before it come back all the same.

`JsonChannel` is one writer and one reader over a byte stream of real byte values
(the length header is four bytes, little-endian, and its misreading is computed,
not postulated).  `write()` copies the header and the text into a buffer of
`SOCKET_BUFFER_SIZE` bytes without a check; `ChannelAssumption` says that they fit.  The
history variable `sent` holds the messages that `write()` did not refuse.  `net::write` and `::read` transfer any number of bytes up to what is
there; `select` may time out before anything that has not arrived; the connection
may be reset; `encoded` chooses between the two pairs of functions.  `split`
records that a `::read()` whose result the code takes for the whole field returned
less (the length always, the body in `read_decoded`), and `cut` that a timeout fell
between length and body: after either, the code is out of step with the stream, and
the properties say that nothing else makes it so.

| run | instance | shows |
|---|---|---|
| `json` | messages of 2, 0 and 1 bytes, room for 5 bytes, with and without timeouts, plain and encoded | `InOrder`, `ImplementsChannel`; `WriteReturns`, `CloseSeen` (no call hangs while the peer reads, or after it closed) |
| `http` | a body of 2 bytes, chunks of 2 and 1 bytes (the first looks like a line break), an empty body, a head without either mode; loop limits 8 and 6 | `TypeOK`, `InOrder`, `ImplementsChannel`, `CloseSeen` |

`json`: room for less than one frame forces partial writes in the header and in the
body; the empty message exercises the refusal in `write`.

`HttpReader` follows one reader that calls `http::read()` again and again on one
connection, one action per `::read()`.  The bytes of a message are tokens: a head is one
token that says which body follows and then the two line breaks, a size line one token
with the number, so that the loops that work byte by byte still do, and what the code
searches for in the text is a test on tokens.  The three loops share the stream, and
what one leaves in it the next must expect: the line break that ends a chunk is dropped
in front of the next size line, the one that ends a message in front of the next
head.  The peer sends whole messages, one after the other's answer or, when
`pipelines`, at once; it may close in the middle of one, and the connection may be
reset.  `timed` distinguishes a caller with a timeout from one without; without one a
`::read()` may fail with EAGAIN or EINTR, which takes a turn of the counted loops.
The conditions in `InOrder` and in `Garbled`, the mapping of `ImplementsChannel`, are what the code does not promise:
`over`, `read_in_length_mode` reads a full buffer and so into a message that was
pipelined; `spent`, without a timeout the turns of a size line run out and the body so
far is returned with SMOOTH; `cut`, a call was repeated after TIMEOUT inside a message.
The properties say that there is no fourth, and that the first needs a peer that
pipelines and the second a socket without a timeout.
The loop limits are small but one larger than the longest head and size line need, so
that they are met by failed reads and not by the data alone, as 10000 and 1000 are.
`HttpAssumption` asks for two things.  A chunked message has no empty chunk before its
last, since an empty chunk is how it ends; and `LineTurns` is at least 5, what a size line
takes with the line break in front of it.

Fairness, in both: the threads run, the reader keeps calling `read()`, and data
in the connection arrives (strong fairness of the actions that receive it: not every
wait can time out before it).  Nothing is assumed of signals, resets or peers.

Both readers implement `MessageChannel`: a history of messages written and returned, a reader
that is open, closed or failed, and `garbled`, which each module defines by its own
exceptions (`split` and `cut`; `over`, `spent` and `cut`).  `ImplementsChannel` says more than
`InOrder` does about one state: messages are returned one at a time, CLOSE is reported
only after all of them, and nothing is returned after it.

### The library

Five parts keep no state in common, so one run checks them side by side: the variable
`part` of `MCLibrary` says which of them a behaviour is about, and the others stay as they
are.

| run | part | instance | shows |
|---|---|---|---|
| `library` | `Crypto` | vectors up to 3 bytes out of 4 values, 8 keys of all kinds of residue, negative ones too | `TypeOK` (the loops stay in their vectors), `DecodesPrefix` (whole bytes come back wherever the text is cut; one more byte only from half a byte and a character after it) |
| | `Url` | 48 URLs: both schemes, no port, one below and one above the largest `short`, no path, a path, another URL in the path | `StandsForGiven` after any number of `init`, `clear` and re-parsing of `whole_url()` (paths up to 10 pieces) |
| | `Query` | requests with and without host, path, arguments; keys given twice, without a value, without `=`, and the key of the path itself; `&` and `&amp;` repeated | `AnswersRequest` over any sequence of requests into one map |
| | `Clock` | 2 threads, one of them with a `datetime`, 3 moments in two seasons | `StampTraced`, `ParsedTimeRight` |
| | `ScopedLock` | 3 threads, guards nested 3 deep, 3 readers at most | `GuardsExclude` |

`UrlAssumption` says what a URL given is: a port of 16 bits or none, a host without a colon
(names and IPv4 addresses, the only ones the class can hold) or a slash, and a path that is
empty or begins with its slash.  A query without a path (`http://h?x`) stays with the host
in `rurl`, and is not among them.

A string is a sequence of pieces, a piece a character or a word that the code looks for
(`Text`).  The exceptions are in the properties: an `https` URL with an `http://` in
its path is taken for the inner one; a URL without a path keeps the path of the one before;
`whole_url()` always says `http`; a target that is a whole URL with arguments but no path
yields what follows the first slash of the arguments; a target of fewer than seven
characters keeps its leading slash.

In `Query` a call of `get_vpath()` and then `parse_url()` is a sequence of steps, one per
turn of a loop; `stage` says how far it is: the target is found (`ReadTarget`), its host
dropped (`DropHost`), a character in front erased (`EraseFront`), one `&amp;` replaced
(`ReplaceEntity`), the path put into the cleared map (`ParseUrl`), an argument behind it
(`ParseArgument`).  The functions share nothing with other threads, so nothing comes
between the steps.  What a client may send is in `RequestAssumption`: a request knows its
arguments as a list, and its query is any text that spells that list (`Spells`), with an
`&` between two arguments and any number of `amp;` behind it.

`localtime()` fills its static `tm` under a lock but is read without it, field by field and
in any order.  `StampTraced` is what is left: each field of a stamp is right for the caller
or for a thread whose call overlapped it.  `to_time_t()` is right when the object's season
is (`seasons` is where `tm_isdst` came from): `strptime()` leaves it alone.

In `ScopedLock` a thread that nests a write guard in its own read guard, or a `mutex` in
its own `mutex`, blocks for good: the model has no step for it, and no property denies it.

## 7. What is proved

For any values of the constants that satisfy the named assumptions of the modules:

* `ThreadPoolProofs`: `TypeCorrect`, `MutualExclusion` (`QueueGuarded`), `Ownership`
  (`SoleOwner`), `NoLostWakeup` (`WorkConserving`), `Refinement`
  (`Spec => ImplementsTaskPool`), for any finite sets of threads and any set of tasks.
  The inductive invariant adds to the checked ones where each thread's `ptask` and
  `arg` are empty or not according to its `pc`, and that the waiting set is
  exactly the threads whose `pc` is "waiting".  `WorkConserving` needs cardinalities: each
  step of it is a lemma on how `Signalling` and `Awake` change.
* `CodecProofs`: `RoundTripByte`: one byte, one value of the key stream, any pair of keys whose sum
  is a multiple of 8.
* `LibraryProofs`, for `Crypto`: `TypeCorrect` and `RoundTrip` (`DecodesPrefix`), for any inputs, seed
  and keys.  The invariant follows the vector through the stages of the call; the
  history variable `used` records the `ixor` of every byte encoded, and the second loop
  is shown to meet the same values; `Arrived` counts the bytes that `string_to_hex` makes of
  a cut string, never more than were encoded.  The multiplication in `NextXor` is never opened:
  both ends apply the same function.
* `MainServiceProofs`: `TypeCorrect`, and `DispatchSafe` (`EventsHaveTasks`), for any numbers of workers,
  descriptors and connections and also after threads overlapped in a task.  The
  strengthening follows a descriptor's key from the acceptor's insertion to epoll,
  from there to the batch, to the queue and to the worker's next parse_task.
  `Frames` (`FramesWhole`), `Closes` (`ClosesItsOwn`), `Orphans` (`NoneOrphaned`) and `Stranded`
  (`NothingStranded`), for the same numbers, rest on `OrderInv`: until two threads meet in one task
  object, each is alone in it (`Alone`), what a thread has found out still holds where it
  relies on it (`Placed`), the object of an open descriptor names that descriptor and
  its connection (`Bound`), an open one is watched by epoll unless someone sets it up or
  tears it down (`Watched`), and the units read from a connection are the whole frames
  taken, then `mv_data`, then what a reader has in its buffer (`Streamed`).  `FramesWhole`
  and `ClosesItsOwn` are themselves part of it: they are about what already happened
  and stay true after the exception.  `NothingStranded` needs more (`Attention`): news of a connection
  is in the ready list, in the batch, in the queue or with a worker that still reads.
  A step of one thread leaves all of that to the others, which is most of the proof.
  `DroppedOnlyWhenGone` (`ClosedByPeer`) is inductive beside `OrderInv`: a `::read()` that ends
  was on the connection the task was set up for, which `Bound` says, and a thread that
  wipes a task has a closed descriptor or one that is just being set up (`Placed`).
  `ServiceRefinement` (`Spec => ImplementsFrameService`) takes `OrderInv` before and after a step:
  `Streamed` makes the frame taken the next one and one that was sent (`FrameTaken`), and
  `Behind` adds that an open descriptor has an open connection.
* `SupervisorProofs`: `SupervisorTypes` (`TypeOK`), `OneInstanceAtATime` (`OneInstanceUnlessStolen`) and
  `WorkersStop` (`NoOrphan`), for any numbers of instances and process slots.  `Locks`: until
  a lock file is stolen, everyone who has one open has the one at the path, so `flock()`
  tells instances apart.  `Families`: until a signal comes before the handler is
  installed or a `work_process()` returns, an instance has one child at most, waits for the one it
  has, and gives up its lock only without a live one.
* `LibraryProofs`, for `MessageChannel`: `InOrderAlways` and `CompleteAtClose`, for any messages and any number
  of them.  With `JsonImplementsChannel` and `HttpImplementsChannel` they hold of both readers.
* `JsonChannelProofs`: `JsonTypes` (the types, and that `read()` starts a body with a length above 0), `JsonInOrder` (`InOrder`) and `JsonImplementsChannel`
  (`ImplementsChannel`), for any messages that fit the buffer, any room in the connection, any
  seed and any matching keys.  `JsonInv`: as long as the reader is in step with the stream, the
  bytes in the connection and those still to be written are what is missing of the
  message it is in, followed by the frames of all later messages (`Framed`, by the positions
  where frames begin), and what it has of a body is a prefix of the message.  The lemmas
  on the header (four base-256 digits give back the number), on the codec over a whole
  message, and on dropping and joining bytes carry each action; the refinement is then a
  case for each.
* `HttpReaderProofs`: `HttpTypes` (`TypeOK`), `HttpInOrder` (`InOrder`) and `HttpImplementsChannel`
  (`ImplementsChannel`), for any number of messages, bodies of any length in any number of
  chunks, and any limits of the loops.  `HttpInv`: unless the reader is garbled, the frames from
  the last message returned on lie in the connection one behind the other (`Stream`), the
  reader has had `q` bytes of the next one (`Lies`; `q` is negative while the line break of the
  chunked body before it is still to come), and its variables hold what these bytes are
  (`Inside`): a part of a head (`Opens`), of a body of known length (`OfLength`), of a size line
  (`OfLine`) or of a chunk (`OfChunk`).  A reader that is told of the close has returned all
  that was sent.  `InOrder` alone is not inductive: it says nothing of what lies
  between the reader and the next message.  Where chunk `c` begins in a frame and in
  the body is not computed but shown to exist (`Laid`), by an induction over a set of
  numbers that `WFMin` allows (`Induction`); the rest are joins and pieces of sequences.
  The limit of 10000000 chunks, and sizes that do not fit an `int`, are outside the model.
* `LibraryProofs`, for `ScopedLock`: `GuardsExcludeAlways` (`GuardsExclude`), for any threads, depth and limit of
  readers.  `LockInv` says which guards hold which lock: the readers are exactly the guards that got
  a read lock, the writer and the locker have exactly one guard each, and nothing
  lies above a thread's depth.
* `LibraryProofs`, for `Url`: `StandsForGivenAlways` (`StandsForGiven`), for any set of URLs and any alphabet.
  `StandsForGiven` alone does not survive `Reparse`: it says nothing of an object whose URL
  named another one, and the object's own text is taken apart all the same.  `UrlInv` adds
  that the host never has a slash or a colon in it and that the port is a `short`, which hold
  whatever text `init()` met (`ParseAny`).  The argument is on `find()`: its result is the
  least place where the word stands (`Found`, by `WFMin`), so an `http://` in an `https` URL
  is in its path (`NoneFound`), the first slash is the path's (`PathFound`) and the first
  colon the port's (`PortFound`).  A port survives the assignment to the `short` and the
  conversion back (`PortStays`), and a negative one printed by `whole_url()` is read as it
  was (`ShortStays`).
* `LibraryProofs`, for `Query`: `AnswersRequestAlways` (`AnswersRequest`), for any requests, with any number of
  arguments of any length and any number of entities between them.  `AnswersRequest` speaks of a map that
  is done; `QueryInv` says what the string is at each stage: the target, slashes and blanks with
  the path and its query behind them (`Erasing`), the path and a query that spells the
  arguments (`Made`), one in which a single `&` is between two arguments (`Ready`), and, while
  arguments are read, that `pos2` is where one of them begins and the map answers those before it
  (`Arguing`, `Holds`).  Where the arguments lie is not computed but part of the invariant (a
  sequence of places, `Lists`), so no step needs induction over them: an `&amp;` that is replaced
  moves the places behind it by one (`Contracted`), because it lies between two arguments
  (`Beside`); when there is none left, the places are `Close` (`Gap`); and `find()` from one place
  meets the `&` before the next (`ArgumentEnds`).
* `StartupProofs`: `TypeCorrect`, and `OneAcceptorAlways` (`OneAcceptor`), for any number of processes,
  faults and clients.  The invariant says where in its start a process has its socket open,
  from where on that socket listens, and which threads exist; `OneListener` is what the
  kernel grants to `listen()`, and `KeepsSockets` that no other process's socket goes away
  when one ends.
* `LibraryProofs`, for `Clock`: `StampTracedAlways` and `ParsedTimeRightAlways`, for any threads and moments.
  `tm_lock` lets one thread at a time fill the `tm`; when it begins, its moment joins the
  span of everyone who has not done reading, so each field there is from a moment of the
  reader's span.  `SeasonInv` carries that on to the `tm_isdst` that a `datetime` keeps.

Each inductive invariant was first an invariant of a TLC run over the instance of its
component (`SupervisorInv` over 2.2 million states, `HttpInv` over 616 thousand, `AttendedInv` over
270 thousand, `QueryInv` over 9,641, `UrlInv` over 578).

Only model-checked: all liveness, for the prover has no fairness or ENABLED.  Every safety
invariant and every action property that a passing run checks is also a theorem.

## 8. Not modelled

* `otlv4.h`: 34,034 of the repository's 36,624 lines are this vendored database library.  `db.h`
  includes it and nothing calls it; it is not this program's code.
* The HTTP writers keep no state and loop in `net::write`; `write_gzip`, `md5`, `split`, `replace_all`, the
  case and number conversions of `rui.h` are stateless text and compression code.
* `datetime::to_string`, `to_http_string` and the getters read `m_tm` and no more
  (`to_http_string` prints local time with the suffix "GTM", whatever the comment above it says).
  `load_from_otl_datetime` is not compiled in.
* `set_nonblocking`, `net::read`, `select_wrset` and the address helpers: one system call each.
* `trace_log.h`, `db.h`: output and includes.
* The client `test/client/main.cpp` is straight-line code; it appears as the writer
  that closes after an error in `JsonChannel` and as a client in `Startup`.

## 9. Findings

1. `threadpool.cpp:88`, run `pool_leak`: `ptask.release()` after `run()` gives up every task
   that ended normally; nothing deletes it, against the comment at line 17.
2. `read_task.cpp:13`, `parse_task.cpp:11`, `main_service.cpp:64, 85, 198`, run
   `service_lock`: a guard without a name is destroyed at once, so two threads work on one
   task at the same time.
3. `main.cpp:62`, run `supervisor_one`: the worker inherits the lock's descriptor and the
   `atexit` handler; its exit removes the lock file of the running supervisor, and a
   second instance starts beside it, against the message at line 116.
