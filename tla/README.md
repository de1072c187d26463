# A TLA+ model of MagiCServer++

MagiCServer++ is a small C++ framework for socket servers. A program derives a
request handler, gives it to a `ServerListener`, directly or behind a
`WorkerPool`, and calls `listen ()`. This directory holds TLA+ modules translated
from its sources, TLC runs over small instances, and TLAPS proofs for every
instance. Paths are relative to the repository (`src/` is its root); `msrv*.cc`
is in `src/libmsrv/src/`, `msrvcontainer.h` in
`src/libmsrv/include/magicserver/`.

## 1. The system

| Component | State | Operations | Correct when |
|---|---|---|---|
| `Listener` (msrvlistener.cc) | `mDescriptors`, `mShutdownStatus`, a recursive `mThreadLock`, the error count and `fd_set` of `listen` | `listen`, `startShutdown`, `removeDescriptor` | every ready descriptor is eventually handled, and no other; the loop ends after a shutdown and leaves nothing open |
| `ServerListener` (msrvserver.cc) | server socket, protocol, request mask, handler | `bind`, `accept`, `descriptorEvent`, `timeoutEvent`, `shutdown`, `close`, `ConnIter` | descriptor table, `mDescriptors` and `Connection` objects agree |
| `Connection` (msrvserver.cc) | `mSocket`, address | constructor, `close`, destructor | it lives as long as something refers to it, and closes its own socket only |
| `Request`, `RequestHandler` (msrvrequest.cc) | socket number, type, `Connection` | switchboard, destruction | the request still denotes the client it came from when it is handled |
| `WorkerPool`, `Worker` (msrvworker.cc) | queue, `mIsShutdown`, wait lock, threads | constructor, `process`, `shutdown`, destructor, `execute` | each request is taken once, in order, and handled by who took it; shutdown ends; no thread outlives the pool |
| `Thread`, `ThreadLock` (msrvthread.cc) | mutex, condition variable, thread id | `lock`, `unlock`, `wait`, `signal`, `broadcast`, `start`, `join` | a notification reaches whoever waits |
| `Queue`, `Array` (msrvcontainer.h) | linked list; buffer and count | `push`, `pull`; `add`, `remove`, iterators | they behave as a FIFO and as a sequence |
| `LogFile` (msrvlog.cc) | stream, name, mutex | `open`, `close`, `write`, `message` | lines of several threads do not mix; its mutex is released |
| sample programs and handler (src/examples) | none of their own | the handlers | what the framework promises is enough for them |

How they interact: `listen` runs in the main thread. It holds `mThreadLock` while it
builds the set for `select` and while it scans the result, and releases it in
between. From the scan it calls `descriptorEvent`, which accepts or reads and hands
a request to the handler. Without a pool the handler runs at once, inside the scan
and under the lock. With a pool, `process` pushes the request and signals; a worker
pulls it and runs the handler in its own thread, from which it may call
`Connection::close`, which takes `mThreadLock` and changes `mDescriptors`. A
shutdown request makes the main thread broadcast, join the workers and run the
handler itself.

What is hard: the wake-up protocol of the pool (no predicate is tested under the
lock), a scan over an array its own body changes, the reuse of descriptor numbers
by the kernel, objects destroyed by whoever handles the last request, and the order
of the steps at shutdown. `PROJECT.json` lists these hazards line by line.

## 2. The modules

    RequestDispatcher      Fifo              Sockets   Array ------- ArrayProofs
        ^ implements        ^ implements         \      /                 |
    WorkerPool           LinkedQueue          ServerListener             |
        |                   |                  |        |                |
    WorkerPoolProofs     LinkedQueueProofs     |   ServerListenerProofs -+
                                               |        |
                                    MCServerListener   ServerPoolProofs

    DatagramListener         ThreadLock           LogFile
        |                        |                   |
    DatagramListenerProofs   ThreadLockProofs     LogFileProofs

**WorkerPool** has one main thread (construct, feed, shut down, destroy) and `N`
workers. Each action is a stretch of code between two accesses to shared state;
`main` and `wpc[w]` say where each thread is. The queue is a sequence of request
numbers, since `Queue::push` and `pull` are atomic under the queue's own lock. A worker
has a phase `enter` between its test of `isShutdown` and its sleep in
`pthread_cond_wait`: nothing prevents a signal from falling there, because
`ThreadLock::wait` takes the mutex around the sleep only. Spurious wakeups are steps.
Any worker may get no thread (`StartFails`): `Thread::start` takes only a negative
result of `pthread_create` for a failure, and the constructor does not look. The worker
stays `unborn`, and a shutdown that joins it is `undefined` (`JoinUncreated`).
Once the pool is destroyed a running worker becomes `undefined` and is no longer
followed. `final` says whether `shutdown` was called with the listener's final
request (from `process`) or with NULL (from the destructor).

**RequestDispatcher** is what the pool promises: requests are numbered, taken from the queue at
most once and in order, ended once, and what is discarded is a suffix nobody has taken. It
does not promise that they are entered into the handler in that order: no lock covers a
worker from `pull` (msrvworker.cc:170) to `process` (178).

**Sockets** is the kernel and the clients, as the system calls of the server see
them: a table of descriptors where the lowest free number is reused, and for each
client its place in the backlog, its unread bytes, and whether it has hung up or
crashed. It is external: modelled from how the code uses it.

**Array** has the operators of the `Array` template. `ArrayRemove` has the guard
`pos < mItemCount - pos` of the code, and the value `junk` where nothing is copied.

**ServerListener** is a TCP server: thread 0 runs `Listener::listen`, and calls the
handler itself (`WorkerCount = 0`, as msrvsample_listener) or queues requests for
workers (as msrvsample_worker). `lpc` follows `listen` through `select`, scan,
`accept`, read loop, `removeDescriptor`, and shutdown; `hpc[t]` follows thread `t`
through the sample handler and the five steps of `Connection::close` (test
`mSocket`, remove it from the listener, close it, reset it, log through the Connection's
listener, which reads the object once more). The pool is reduced to
what WorkerPool establishes: a FIFO from which idle workers take requests, all
joined but worker 1 (index 0 in the code) before the final request. Details that matter:

- a request carries the number of a socket *and* its `Connection`, and `mSocket` is kept
  apart from the descriptor table, so that all three may disagree;
- an iterator is a copy of the array with a flag that says its buffer was freed;
- `mThreadLock` is modelled by its holder; `ServerListener::close` takes it
  and never gives it back, in shutdown only, where the holder is the main thread;
- what a thread has taken waits in `hpc[t] = "begin"`; that it enters the handler is a step of its
  own, so that two workers may do so in another order than they took their requests;
- `taken` and `reclosed` are history variables: the last request taken for each client, and
  whether `::close` has been called for a client that was closed before, which takes two
  threads in `Connection::close` of the same Connection;
- use of a freed `Connection`, of a freed iterator buffer, or of an uninitialised
  descriptor in a set for `select` is `undefined`, and the run of the model ends there. A stale
  iterator may also read what the buffer still holds, and a search of `mDescriptors` that
  meets uninitialised memory may pass it by (`ReadsGarbage`): both outcomes are steps;
- a `select` that already waits may return for other descriptors, or time out, although one of its
  set has been closed since, as it does on Linux, or fail with EBADF.

**LinkedQueue** is the `Queue` template down to its pointers: a `ListItem` is a cell of
a small heap with `mpData`, `mpPrev` and `mpNext`, the queue has its two ends, and a
freed cell can be allocated again at once. `Chain` says what `~ListItem` deletes
recursively: all that its `next` links lead to. `order` is a history variable, the cells
in the order of their pushes, against which the links are compared. Each operation is
one step because the queue's own mutex covers it from its first access to
its last. No object is pushed that the queue already holds: requests are new
when they are pushed. **Fifo** is the sequence that WorkerPool and ServerListener take
the queue for, with the destruction of what is left.

**LogFile** is the log that all threads of a server share. `message` is four prints
under a recursive mutex (`holder`, `depth`); `write`, `open`, `close`, `setFilename`
and the destructor are one step each, which waits until the mutex is free or the
thread's own. Every error return of `message` and `write` keeps the mutex (`Refuse`,
`FailPiece`). A log given a stream has an uninitialised name; its use leads to `undefined`.
Of what is printed only the last piece is remembered, with its thread. The destructor
is called when no other call is in progress.

**DatagramListener** is a UDP server in `listen`: its socket is the only descriptor, and
`descriptorEvent` reads it with the loop made for streams. Datagrams that have been read are
numbered, a request is the interval of those whose data it holds, and `inHand` counts
those in `dynbuffer`; of a datagram only its length up to that of the buffer, and whether
its first line is `shutdown`, are kept. The network needs no actions of its own: what reaches
the socket is any sequence of datagrams. `ReadFull`, `ReadLast` and `ReadEmpty` are a turn
of the loop that fills the buffer, the last turn of a loop that has data, and the one that
has none, which drops the socket from `mDescriptors`. The handler runs in the listener's
thread, so that an event is one step with the read that ends its loop.

**ThreadLock** is the recursive mutex and its condition variable, called by any threads,
which may hold the lock (`held`) when they call `wait`, `signal` or `broadcast`. `at[t]` is where
a thread is in its call. `cond` is "none" until `initCond`, and then the clock of the variable:
`initCond` passes attributes it has not initialised, so either. Of a timeout
the fraction of a second is kept, which decides whether `tv_nsec` is a valid number (`Rejected`);
the time of day when it is read is any. The pthread functions are modelled as POSIX
describes them. It is not composed with WorkerPool, which has the notification and the
sleep as steps of its own: there the callers never hold the lock and use no timeout.

Simplifications: flags written without a lock (`mIsShutdown`, `mShutdownStatus`)
are sequentially consistent; copying the array in a `ConnIter` is one step, as is
closing the server socket together with what `listen` then finds left; handlers
return; writes to the clients are not modelled (SIGPIPE is ignored); clients do
not reconnect.

## 3. The runs

| Run | Instance | Shows |
|---|---|---|
| WorkerPool | 3 workers, 4 requests | conservation of requests, join order, who may still fall asleep, refinement of RequestDispatcher; shutdown returns if every joined worker has a thread and is out of the window; one awake worker drains the queue |
| ServerInline | 3 clients, 2 client descriptors, no pool, all request types | the three views of a connection agree; no freed Connection is used; a request denotes its client; nothing left open |
| ServerLive | 2 clients, no pool, mask {StreamData, ConnectionLost} | with a handler that is not told of connections: clients are accepted, hang-ups end in a close, shutdown returns |
| ServerPool | 2 clients, 2 workers, queue of 2, command quit | until a Connection is closed twice: what the listener watches is open and its own client's; select fails at most once for each closed client; a Connection is deleted once, and after its socket is closed; an open socket that is not watched is to be closed; the requests about a client are taken in the order of its life |
| LinkedQueue | 4 objects, 4 cells | the inductive invariant `QueueInv`, which includes that both directions of the links agree after every call and that nothing is freed twice or left; refinement of Fifo |
| LogFile | 3 threads, 2 failing calls each | lines stay whole; nothing is printed to a closed stream; the mutex is held for a message in progress or after an error, and is otherwise released |
| DatagramListener | 4 datagrams, buffer of 2, with a timeout | each datagram is served once and in order; what is glued together, when `read` may hang, what makes the server deaf; what arrives is read otherwise; shutdown returns |
| ThreadLock | 3 threads, 4 calls, a second of 2 units | the mutex is accounted for; only a fraction of a second lets a timed wait return at once; notifiers, woken and timed sleepers return |
| WorkerPoolHang | 2 workers | **violated**: a worker misses the broadcast, and the join never returns |
| ServerReadBlocks | no pool | **violated**: a message that fills the buffer makes the listener block in a second read |
| ServerIterator | no pool | **violated**: shutdown iterates over a freed buffer |
| ServerPoolFreed | 2 workers | **violated**: a Connection is used after the ConnectionLost request of another worker has freed it |

Each violated property quotes a comment of the source (`findings` in PROJECT.json).
The definitions that start with "Seeded fault" are plausible bugs put in place of the
definition after them to see that each property can fail; they are no part of
a specification.

Bounds, and why they are enough:

- `N = 3`: one worker that is not joined and two that are, so that two joined workers
  interleave. `MaxRequests = 4` is one more than the workers can hold.
- `MaxFd = 3`: standard input (0, which the code takes for "no socket"), the server,
  and two connections, so with three clients `accept` fails for want of a descriptor
  and numbers are reused. With two connections `mDescriptors` has at most
  three items, and `ArrayProofs!ShortArraysShift` proves `Array::remove` right for these;
  `LongArraysLoseAnItem` proves that it is wrong on every longer array, so the
  invariants about connections cannot hold with three (`SafeUntilLoss` in section 4 says
  for how long they do).
- `MaxUnread` and `BufferLen`: 2 and 2 let a message fill the buffer and need a second
  read; in ServerLive the buffer is longer than any message (3 and 2), since otherwise
  a client can block the listener for good (ServerReadBlocks); with a pool, one byte.
- `MaxSelectErrors = 1` instead of 10: one failure tolerated, the second fatal. In ServerPool it
  is 3, so that a count of more than one failure per client, of which there are two, would show.
- `MaxQueue = 2`: two workers busy, two requests waiting.
- `Items` and `Cells`: four of each, so that a list has inner items on both ends' side and
  freed cells are reused in every order. `MaxFailures = 2`: the mutex can be kept more
  than once by the same thread.
- `Commands` says what messages may ask for. ServerPool has `quit` alone, which is the
  command by which a worker closes a connection; the others add nothing to its
  properties but states.
- DatagramListener: a buffer of 2 has datagrams that are empty, short and full, and four
  datagrams are two glued requests, or one and an empty datagram on either side.
- ThreadLock: a second of 2 units has the timeouts and times of day whose sum does and does
  not reach it; three threads are two sleepers and a notifier; four calls are those of
  the three and one to lock first, or to create the variable before.
- Deadlock is not checked: a stopped server, a closed pool or a client that is
  silent are legitimate ends, and the ends that are not (the lost wake-up,
  the blocked read) are stated as properties.

Symmetry over Clients is used in the runs without liveness (MCServerListener).

Fairness: the pool's run assumes that a thread which can run is run (weak fairness of
the main thread and of each worker) and that handlers return. No fairness for
clients, for the decision to shut down, or for spurious wakeups. In the server, weak
fairness of each thread's next step. In the log, weak fairness of a thread in the middle
of a message, and none of the mutex: a thread may wait for ever. In the UDP server, weak
fairness of the listener's thread and nothing of the clients. In ThreadLock, weak fairness of
each thread inside a call or with a lock to give back, and of a deadline; as the calls are
bounded, a thread cannot be kept from the mutex by others for ever. These are what a POSIX scheduler gives threads
of equal priority.

## 4. The proofs

The proofs about the pool hold for every `N \in Nat \ {0}` and `MaxRequests \in Nat`, those
about the queue for all sets of objects and cells without NULL, those about the log for
all sets of threads and names, those about the UDP server for every buffer length of at
least one and any number of datagrams, and those about ThreadLock for every set of threads
without NULL and every number of levels, calls and units in a second: these are the only
assumptions. Those of ServerListenerProofs assume that there is no pool and that
ConnectionLost is in the request mask (`Inline`), and hold for any clients, buffer, commands,
timeout, and the other types of the mask. Those of ServerPoolProofs hold for any number of
workers as well; three of them assume something of the mask, and one that the clients
are finitely many.

`PoolInv` is the inductive invariant of WorkerPool. `RequestsConserved` alone is not inductive: a pull
needs to know that the queue holds consecutive numbers (OrderInv, HandInv), that a worker
has a request in hand exactly while it handles it (HolderInv), and that nothing is
discarded before the destructor. `JoinedWorkersExited` needs the loop counter: the
workers below it have exited, and an exited worker stays so (MainInv). From it follow

- `PoolCorrect`: `Spec => []PoolInv`, one lemma per part and per kind of step;
- `TypeCorrect`, `RequestsAreConserved`, `JoinedWorkersHaveExited`;
- `NobodyStartsToWait`: the action property `NoNewSleeperAfterShutdown`;
- `PoolImplementsDispatcher`: `Spec => DispatcherSpec`, each step of the pool being
  Submit, Close, Take, End, Discard or a stutter.

`RemoveShifts`, `ShortArraysShift` and `LongArraysLoseAnItem` say for which positions
and lengths `Array::remove` keeps its promise, for items of any kind.

`QueueInv` is the inductive invariant of the linked list. What push and pull do to
the links is local, so that `WellLinked`, the types and the history suffice for them.
The destructor is not: that it deletes every item needs an induction along the list.
The library's induction theorems take a predicate as a parameter, so `LastMember` gets
what is needed, the last position not reached, from the well-foundedness of strict inclusion
on finite sets, and `ChainOfFirst` concludes. From it follow

- `QueueCorrect`, `LinksConsistent`, `ItemsFreedOnce`;
- `QueueImplementsFifo`: `Spec => FifoSpec`, each operation being the one of the same name.
  So the sequence in WorkerPool rests on the code of `Queue`.

`LogInv` joins the four invariants of LogFile, which support each other: that lines stay
whole needs that whoever prints holds the mutex, and that the mutex is not given
back too early needs its depth. `LogTypes`, `LockIsAccounted`, `LinesStayWhole` and
`StreamStaysOpen` follow.

`ListenInv` is the inductive invariant of the UDP server. The four properties need what the
read loop keeps (`LoopInv`): every datagram in `dynbuffer` fills the buffer, and they are
the last ones read; while the loop runs the socket is watched; a socket that is not
watched was dropped after an empty datagram, or closed. `DatagramTypes`, `DatagramsServedOnce`,
`GlueIsExplained`, `BlockIsExplained`, `DeafnessIsExplained` and `DeafnessIsFinal` follow.

`LockInv` is that of ThreadLock: `LockAccounted` with the types and the fact that the waiters
of the condition variable are asleep. A broadcast wakes the waiters without holding the mutex, and
would otherwise move a thread that is inside a call. The bound of the depth is not
inductive; `ThreadLockTypes` gets it from `LockAccounted`. `WholeSecondsAreWaited` follows too.

`TypeInv` is the part of the invariants of ServerListener that survives everything, with a pool of
any size or none: the types, which descriptors there are, and where thread 0 can be in
each phase of `listen` (`Phases`), without which an action could not be said to
hand over a request of the right form. `ServerTypes` follows from it.

`ServerInv` is the inductive invariant of ServerListener without a pool: `TypeInv`, and `SafeInv` as long
as `Array::remove` has not put an uninitialised item (`Garbage`) into `mDescriptors`, from which
there is no way back. `SafeInv` relates the three views of a connection and says where they
may differ: the descriptor table and `mSocket` between `::close` and `mSocket = 0` (`TableInv`),
`mDescriptors` and the table between `removeDescriptor` and `::close` (`ListInv`). It needs where
the handler can be while the listener waits for it (`PhaseInv`), that a lost connection is no
longer watched when it is removed for the second time (`EventInv`), and, for shutdown, that
the Connections an iterator has still to visit are live and that every one that is watched is
ahead of it (`IterInv`), although its buffer may be freed. There is one lemma per part. The
least position at which a descriptor is found comes from well-foundedness again (`LeastMember`).

- `ServerTypes`: the types, with no assumption at all;
- `SafeUntilLoss`, `ServerClosesAll`, `ServerUsesLive`, `ServerRequestsMatch`: `WatchedConnections`,
  `StoppedClosesAll`, `ConnectionsUsedLive` and `RequestMatchesSocket` hold for any number of clients and
  descriptors in every state in which nothing has been lost. The condition cannot be dropped: with
  three connections open there is a position at which `Array::remove` loses a
  descriptor (`LongArraysLoseAnItem`), which is then neither watched nor closed;
- `NothingLostOfThree`: nothing is lost in a run with at most two connections open at a time, by
  `ShortArraysShift`. ServerInline is such an instance.

The model ends with undefined behaviour, such as an iterator that reads its freed buffer
(ServerIterator): the theorems speak of the states up to there.

ServerPoolProofs is about ServerListener with any number of workers (or none), clients and
descriptors. What it proves holds until `reclosed`: two threads that close one Connection defeat
everything, as section 5 says. The theorems allow for what `Array::remove` loses, as far as the model does: an
uninitialised item matches no descriptor, or the run of the model ends (`ReadsGarbage`);
`PoolNoneForgotten` alone is about what has not been lost. Its inductive invariant,
another `PoolInv`, is `TypeInv` with these parts:

- `OpenInv`, `OwnerInv`, `DyingInv`: what is watched is open, who owns it, and where the threads in
  `Connection::close` are. The first one there has taken the descriptor out of the listener
  before it is closed; that a second one finds the client closed is where `reclosed` comes in.
- `CountInv`: the failures counted, and the one to come if `select` is about to fail, are at most
  as many as the closed clients. `WatchesOnlyOpen` is needed for it: the set for the
  next `select` has no descriptor in it that is closed already.
- `OrderInv`, `AskedInv`: the queue and the request taken last are in the order of the client's
  life, who has not been accepted has not been asked about, and a client whose loss has been
  reported is not watched any more, or is the one the listener is handling.
- `FreedInv`, `LossInv`: a loss is taken once, by one thread, which finds the Connection alive,
  and `mSocket = 0` cannot mean standard input.
- `KeepInv`: what is taken out of `mDescriptors` is to be closed. It needs that nobody but the
  listener accepts, so that the number `descriptorEvent` removes at last is still that of the
  lost client or of nobody.

From it follow

- `PoolWatchesOnlyOpen`, `PoolFreedIsClosed`, without further assumptions;
- `PoolFailuresExplained`, for finitely many clients, since it counts them;
- `PoolTakenInOrder` and `PoolDeletedOnce` if NewConnection is in the mask, as it is by
  default: without it the first that is heard of a client is its data;
- `PoolNoneForgotten` if ConnectionLost is too: otherwise `descriptorEvent` removes the
  descriptor of a lost client and nobody closes it.

TLC has checked this `PoolInv` on the instance of ServerPool, and `ServerInv` on that of ServerInline.

The run ServerPool has `quit` as its only command, and comes to no shutdown before a Connection has been
closed twice: what the properties say of a shutdown with a pool is shown by these theorems only.

Only model-checked: liveness, as temporal reasoning under fairness is beyond the prover, and what
the four violated properties show.

## 5. Known divergences without a run

The model does what the code does in these places too, and no run is spent on them: with
a pool a queued request may carry a socket that is closed or belongs to another client by
the time it is handled, though it is documented as the "Socket from which the request
originated." (msrvrequest.cc:33; `RequestMatchesSocket` holds without a pool only);
two workers may enter the handler with the requests of one client in another order than they
took them, the loss before the connection even, as nothing covers them from `pull` to
`process` (msrvworker.cc:170, 178);
`Connection::close` tests, closes and resets `mSocket` without a lock (msrvserver.cc:527), so that
two workers may close one Connection, and the second `::close` may hit the number of another
client, against "Closes the connection" (msrvserver.cc:501): TLC reaches such states in the instance of
ServerPool, where `NoneForgotten` without its last disjunct fails;
an empty datagram is taken to imply "that the socket is closed." (msrvserver.cc:316) and makes
the server deaf, and a datagram that fills the buffer makes it read on, against
the comment at 286 (`DeafOnlyAfterEmpty` and `BlocksOnlyAfterFull` say exactly when);
a timed wait can fail with EINVAL, although "Timedout is the only error the timedwait can
return." (msrvthread.cc:129), and then returns 0 at once; `Thread::start` is documented to return
"a negative error code." (msrvthread.cc:237) and returns 0 when no thread was created;
a request pushed while every worker is in the window waits until the next push (the same
cause as WorkerPoolHang; the developer's guide lists it under known bugs); a
worker that finds the shutdown flag set exits although requests are queued, which
`msrvworker.cc:154` says it does not; worker 0 is never joined, and the pool is destroyed
under it (`UseDestroyedPool`), against msrvthread.cc:208; the
final request is handled while worker 0 may still be running; a timeout of select does
not reset the count of "consecutive" errors (msrvlistener.cc:85, 128); a lost
connection is neither closed nor destroyed if ConnectionLost is masked
(msrvserver.cc:323); `ServerListener::close` destroys no Connection
(msrvserver.cc:391) and locks twice (404); a descriptor closed by a worker after
`select` may be read although its new owner is silent (msrvlistener.cc:146); an error in
`LogFile::write` or `message` keeps the mutex (msrvlog.cc:200, 203, 207, 246 to 296), so that
every other thread that logs waits for ever; a log on a stream, as in the example at
msrvlog.cc:64, deletes an uninitialised pointer (msrvlog.cc:107).

## 6. Not modelled

Everything that was planned is modelled. What is left would be a composition of DatagramListener with
WorkerPool: a datagram request refers to no connection, so that what RequestDispatcher
promises of any request is all there is to say of it.

Not modelled: the build system and the packaging (no behaviour), the text of messages and
logs, command lines, `bind` beyond the state it leaves, addresses.
The failures of select and of read are in ServerListener only. The bytes of messages, and how
a TCP stream cuts several of them into requests, are left out, with what depends on them:
commands that share a request with an earlier one, and messages without a newline.
Memory that is never freed, and writes outside an `fd_set`, have no counterpart.
