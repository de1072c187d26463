----------------------------- MODULE WorkerPool -----------------------------
(***************************************************************************)
(* WorkerPool and Worker (libmsrv/src/msrvworker.cc): one thread, the      *)
(* main thread that also runs Listener::listen, constructs the pool, feeds *)
(* it requests, shuts it down and destroys it; N worker threads each run   *)
(* Worker::execute.  They share the request queue, the flag mIsShutdown    *)
(* and the condition variable of mQueueWaitLock.                           *)
(*                                                                         *)
(* A step of the model is a stretch of code between two accesses to shared *)
(* state.  Queue::push and Queue::pull each hold the queue's own lock, so  *)
(* one step stands for each.  ThreadLock::wait takes and releases its      *)
(* mutex around nothing but the sleep itself, and ThreadLock::signal and   *)
(* broadcast release it before they notify, so a notification may fall     *)
(* between a worker's test of mIsShutdown and its sleep: the model keeps   *)
(* that window (the phase "enter") and drops the mutex.                    *)
(***************************************************************************)
EXTENDS Naturals, Sequences

CONSTANTS N,            \* mWorkerCount: the size given to the constructor
          MaxRequests   \* bound on the number of requests pushed

ASSUME NAssumption == N \in Nat \ {0}
ASSUME MaxRequestsAssumption == MaxRequests \in Nat

Workers  == 0 .. N - 1       \* the indices of mpWorkers
Joinable == 1 .. N - 1       \* the workers the loop of shutdown joins

VARIABLES main,         \* where the main thread is
          i,            \* its loop counter, in the constructor and in shutdown
          final,        \* was shutdown given a final request (pRequest)?
          mIsShutdown,  \* WorkerPool::mIsShutdown
          queue,        \* mRequestQueue, oldest request first
          wpc,          \* wpc[w]: where worker w is in Worker::execute
          cur,          \* cur[w]: the request w pulled, 0 for NULL
          pushed,       \* history: the number of requests pushed
          handled,      \* history: the requests the handler is done with
          lost          \* history: the requests ~Queue destroyed unhandled

mainVars == <<main, i, final, mIsShutdown>>
vars == <<main, i, final, mIsShutdown, queue, wpc, cur, pushed, handled, lost>>

MainPhases ==
    { "construct",   \* in the constructor, creating workers
      "serve",       \* in the listener, between two calls of the pool
      "signal",      \* in process: pushed, about to signal
      "broadcast",   \* in shutdown: flag set, about to broadcast
      "join",        \* in shutdown: joining workers
      "final",       \* in shutdown: the handler runs on the final request
      "stopped",     \* shutdown has returned to the listener
      "destroy",     \* in the destructor, workers joined
      "destroyed",   \* the pool is gone
      "undefined" }  \* joined a thread that was never created

WorkerPhases ==
    { "unborn",      \* no thread: start not called yet, or pthread_create failed
      "check",       \* about to test isShutdown
      "enter",       \* tested it, not yet asleep: the window
      "asleep",      \* in pthread_cond_wait
      "pull",        \* about to pull a request
      "handle",      \* in the request handler
      "exited",      \* execute has returned
      "undefined" }  \* touched the pool after its destruction

TypeOK ==
    /\ main \in MainPhases
    /\ i \in 0 .. N
    /\ final \in BOOLEAN
    /\ mIsShutdown \in BOOLEAN
    /\ queue \in Seq(Nat)
    /\ wpc \in [Workers -> WorkerPhases]
    /\ cur \in [Workers -> Nat]
    /\ pushed \in 0 .. MaxRequests
    /\ handled \in SUBSET Nat
    /\ lost \in Seq(Nat)

Asleep == {w \in Workers : wpc[w] = "asleep"}
Window == {w \in Workers : wpc[w] = "enter"}
Active == {w \in Workers : wpc[w] \in {"pull", "handle"}}
InHand == {cur[w] : w \in Workers} \ {0}

Init ==
    /\ main = "construct"
    /\ i = 0
    /\ final = FALSE
    /\ mIsShutdown = FALSE
    /\ queue = << >>
    /\ wpc = [w \in Workers |-> "unborn"]
    /\ cur = [w \in Workers |-> 0]
    /\ pushed = 0
    /\ handled = {}
    /\ lost = << >>

-----------------------------------------------------------------------------
(* The main thread.                                                        *)

\* The sleepers in S return from pthread_cond_wait.
Wake(S) == wpc' = [w \in Workers |-> IF w \in S THEN "pull" ELSE wpc[w]]

\* Seeded fault: the constructor's loop runs once too often.
StartWorkerOnceMore ==
    /\ main = "construct"
    /\ wpc'  = [wpc EXCEPT ![i] = "check"]
    /\ i'    = i + 1
    /\ main' = IF i < N THEN "construct" ELSE "serve"
    /\ UNCHANGED <<final, mIsShutdown, queue, cur, pushed, handled, lost>>

\* One turn of the constructor's loop: new Worker, start ().
StartWorker ==
    /\ main = "construct"
    /\ wpc'  = [wpc EXCEPT ![i] = "check"]
    /\ i'    = i + 1
    /\ main' = IF i + 1 < N THEN "construct" ELSE "serve"
    /\ UNCHANGED <<final, mIsShutdown, queue, cur, pushed, handled, lost>>

\* pthread_create reports a failure by a positive number, Thread::start takes only a
\* negative one for a failure, and the constructor does not look at what it returns.
StartFails ==
    /\ main = "construct"
    /\ i'    = i + 1
    /\ main' = IF i + 1 < N THEN "construct" ELSE "serve"
    /\ UNCHANGED <<final, mIsShutdown, queue, wpc, cur, pushed, handled, lost>>

\* WorkerPool::process on anything but a shutdown request puts it in the queue ...
Push ==
    /\ main = "serve"
    /\ pushed < MaxRequests
    /\ queue'  = Append(queue, pushed + 1)
    /\ pushed' = pushed + 1
    /\ main'   = "signal"
    /\ UNCHANGED <<i, final, mIsShutdown, wpc, cur, handled, lost>>

\* ... and then awakens one of the workers that sleep at this moment, if any does.
Signal ==
    /\ main = "signal"
    /\ \/ \E w \in Asleep : Wake({w})
       \/ Asleep = {} /\ Wake({})
    /\ main' = "serve"
    /\ UNCHANGED <<i, final, mIsShutdown, queue, cur, pushed, handled, lost>>

\* WorkerPool::shutdown up to the broadcast: from process with the final request,
\* from the destructor without one.
Shutdown(withRequest) ==
    /\ main = "serve"
    /\ ~mIsShutdown
    /\ mIsShutdown' = TRUE
    /\ final' = withRequest
    /\ main'  = "broadcast"
    /\ UNCHANGED <<i, queue, wpc, cur, pushed, handled, lost>>

\* The first value of the join loop's counter: worker 0 is never joined.
FirstJoined == 1

\* Seeded fault: signal () where broadcast () is meant.
SignalOnShutdown ==
    /\ main = "broadcast"
    /\ \/ \E w \in Asleep : Wake({w})
       \/ Asleep = {} /\ Wake({})
    /\ main' = "join"
    /\ i'    = FirstJoined
    /\ UNCHANGED <<final, mIsShutdown, queue, cur, pushed, handled, lost>>

\* getWaitLock().broadcast (), and the start of the join loop.
Broadcast ==
    /\ main = "broadcast"
    /\ Wake(Asleep)
    /\ main' = "join"
    /\ i'    = FirstJoined
    /\ UNCHANGED <<final, mIsShutdown, queue, cur, pushed, handled, lost>>

\* Thread::join returns once the thread has.
Join ==
    /\ main = "join"
    /\ i < N
    /\ wpc[i] = "exited"
    /\ i' = i + 1
    /\ UNCHANGED <<main, final, mIsShutdown, queue, wpc, cur, pushed, handled, lost>>

\* Seeded fault: the loop passes over the workers that have no thread.
JoinPassesUncreated ==
    /\ main = "join"
    /\ i < N
    /\ wpc[i] = "unborn"
    /\ i' = i + 1
    /\ UNCHANGED <<main, final, mIsShutdown, queue, wpc, cur, pushed, handled, lost>>

\* The identifier of a thread that was never created is 0, and joining it is undefined:
\* the model stops following the main thread.
JoinUncreated ==
    /\ main = "join"
    /\ i < N
    /\ wpc[i] = "unborn"
    /\ main' = "undefined"
    /\ UNCHANGED <<i, final, mIsShutdown, queue, wpc, cur, pushed, handled, lost>>

Joined ==
    /\ main = "join"
    /\ i >= N
    /\ main' = IF final THEN "final" ELSE "destroy"
    /\ UNCHANGED <<i, final, mIsShutdown, queue, wpc, cur, pushed, handled, lost>>

\* mrpHandler->process (pRequest), in the main thread.
HandleFinal ==
    /\ main = "final"
    /\ main' = "stopped"
    /\ UNCHANGED <<i, final, mIsShutdown, queue, wpc, cur, pushed, handled, lost>>

\* Seeded fault: the destructor does not shut the pool down first.
DestroyWithoutShutdown ==
    /\ main \in {"serve", "stopped", "destroy"}
    /\ main'  = "destroyed"
    /\ lost'  = queue
    /\ queue' = << >>
    /\ UNCHANGED <<i, final, mIsShutdown, wpc, cur, pushed, handled>>

\* The rest of the destructor, and ~Queue, which deletes what is still queued.
Destroy ==
    /\ main \in {"stopped", "destroy"}
    /\ main'  = "destroyed"
    /\ lost'  = queue
    /\ queue' = << >>
    /\ UNCHANGED <<i, final, mIsShutdown, wpc, cur, pushed, handled>>

-----------------------------------------------------------------------------
(* The worker threads: Worker::execute.                                    *)

\* if (mpPool->isShutdown ()) break;
Check(w) ==
    /\ main # "destroyed"
    /\ wpc[w] = "check"
    /\ wpc' = [wpc EXCEPT ![w] = IF mIsShutdown THEN "exited" ELSE "enter"]
    /\ UNCHANGED <<mainVars, queue, cur, pushed, handled, lost>>

\* mpPool->getWaitLock ().wait ()
Sleep(w) ==
    /\ main # "destroyed"
    /\ wpc[w] = "enter"
    /\ wpc' = [wpc EXCEPT ![w] = "asleep"]
    /\ UNCHANGED <<mainVars, queue, cur, pushed, handled, lost>>

\* pthread_cond_wait may return without a notification.
SpuriousWakeup(w) ==
    /\ main # "destroyed"
    /\ w \in Asleep
    /\ Wake({w})
    /\ UNCHANGED <<mainVars, queue, cur, pushed, handled, lost>>

\* Seeded fault: the request stays in the queue.
PullLeavesRequest(w) ==
    /\ main # "destroyed"
    /\ wpc[w] = "pull"
    /\ queue # << >>
    /\ cur' = [cur EXCEPT ![w] = Head(queue)]
    /\ wpc' = [wpc EXCEPT ![w] = "handle"]
    /\ UNCHANGED <<mainVars, queue, pushed, handled, lost>>

\* while (Request* pRequest = mpPool->queue ().pull ()), finding a request ...
Pull(w) ==
    /\ main # "destroyed"
    /\ wpc[w] = "pull"
    /\ queue # << >>
    /\ cur'   = [cur EXCEPT ![w] = Head(queue)]
    /\ queue' = Tail(queue)
    /\ wpc'   = [wpc EXCEPT ![w] = "handle"]
    /\ UNCHANGED <<mainVars, pushed, handled, lost>>

\* Seeded fault: the worker goes back to wait without testing isShutdown again.
PullNothingWaitsAgain(w) ==
    /\ main # "destroyed"
    /\ wpc[w] = "pull"
    /\ queue = << >>
    /\ wpc' = [wpc EXCEPT ![w] = "enter"]
    /\ UNCHANGED <<mainVars, queue, cur, pushed, handled, lost>>

\* ... or NULL, which ends the inner loop.
PullNothing(w) ==
    /\ main # "destroyed"
    /\ wpc[w] = "pull"
    /\ queue = << >>
    /\ wpc' = [wpc EXCEPT ![w] = "check"]
    /\ UNCHANGED <<mainVars, queue, cur, pushed, handled, lost>>

\* Seeded fault: one request for each wakeup.
HandleOneOnly(w) ==
    /\ main # "destroyed"
    /\ wpc[w] = "handle"
    /\ handled' = handled \cup {cur[w]}
    /\ cur'     = [cur EXCEPT ![w] = 0]
    /\ wpc'     = [wpc EXCEPT ![w] = "check"]
    /\ UNCHANGED <<mainVars, queue, pushed, lost>>

\* mpPool->handler ().process (pRequest), which destroys the request.
Handle(w) ==
    /\ main # "destroyed"
    /\ wpc[w] = "handle"
    /\ handled' = handled \cup {cur[w]}
    /\ cur'     = [cur EXCEPT ![w] = 0]
    /\ wpc'     = [wpc EXCEPT ![w] = "pull"]
    /\ UNCHANGED <<mainVars, queue, pushed, lost>>

\* A worker still running when the pool is gone uses freed memory: whatever it
\* does then is undefined, and the model stops following it.
UseDestroyedPool(w) ==
    /\ main = "destroyed"
    /\ wpc[w] \notin {"unborn", "exited", "undefined"}
    /\ wpc' = [wpc EXCEPT ![w] = "undefined"]
    /\ UNCHANGED <<mainVars, queue, cur, pushed, handled, lost>>

MainStep ==
    \/ StartWorker \/ StartFails \/ Push \/ Signal
    \/ \E withRequest \in BOOLEAN : Shutdown(withRequest)
    \/ Broadcast \/ Join \/ JoinUncreated \/ Joined \/ HandleFinal \/ Destroy

WorkerStep(w) ==
    \/ Check(w) \/ Sleep(w) \/ SpuriousWakeup(w)
    \/ Pull(w) \/ PullNothing(w) \/ Handle(w) \/ UseDestroyedPool(w)

Next == MainStep \/ \E w \in Workers : WorkerStep(w)

Spec == Init /\ [][Next]_vars

\* What worker w does of its own accord.
Run(w) == Check(w) \/ Sleep(w) \/ Pull(w) \/ PullNothing(w) \/ Handle(w)

\* Every thread that can run is eventually run, and every handler returns.  Nothing
\* forces a client to send requests, the server to shut down or a sleeper to wake up
\* by itself.
Fairness ==
    /\ WF_vars(StartWorker \/ StartFails \/ Signal \/ Broadcast \/ Join \/ JoinUncreated
                \/ Joined \/ HandleFinal)
    /\ \A w \in Workers : WF_vars(Run(w))

FairSpec == Spec /\ Fairness

-----------------------------------------------------------------------------
(* Safety.                                                                 *)

Taken == pushed - Len(queue) - Len(lost)

\* No request is lost, duplicated or reordered on its way through Queue::push,
\* Queue::pull and the workers: the requests pulled are the oldest ones, each of
\* them is handled or in the hands of exactly one worker, and the rest is in the
\* queue (or, once ~Queue has run, was destroyed by it) in the order of arrival.
RequestsConserved ==
    /\ queue \o lost = [k \in 1 .. Len(queue) + Len(lost) |-> Taken + k]
    /\ handled \cup InHand = 1 .. Taken
    /\ handled \cap InHand = {}
    /\ \A v, w \in Workers : cur[v] = cur[w] /\ cur[v] # 0 => v = w

\* When shutdown hands the final request to the handler, and from then on, every worker
\* of the join loop has run and returned: only worker 0, which the loop skips, can
\* still be running the handler or be left to run when the pool is freed.
JoinedWorkersExited ==
    main \in {"final", "stopped", "destroy", "destroyed"} =>
        \A w \in Joinable : wpc[w] = "exited"

\* Once mIsShutdown is set a worker can fall asleep only out of the window between
\* its test of the flag and ThreadLock::wait; no other worker ever starts to wait.
NoNewSleeperAfterShutdown ==
    [][mIsShutdown => (Window \cup Asleep)' \subseteq (Window \cup Asleep)]_vars

\* The pool implements the dispatcher it is meant to be.
Dispatcher == INSTANCE RequestDispatcher
    WITH Handlers <- Workers, submitted <- pushed, pending <- queue, busy <- cur,
         done <- handled, closed <- mIsShutdown, discarded <- lost

DispatcherSpec == Dispatcher!Spec

-----------------------------------------------------------------------------
(* Liveness.                                                               *)

Uncreated == {w \in Workers : wpc[w] = "unborn"}

\* WorkerPool::shutdown returns if each worker it joins has a thread and none of them is
\* in the window when it broadcasts.
ShutdownCompletesUnlessMissed ==
    main = "broadcast" /\ (Window \cup Uncreated) \cap Joinable = {}
        ~> main \in {"stopped", "destroy"}

\* One worker that is awake is enough: it empties the queue before it sleeps or
\* exits, however the listener's pushes and the other workers' pulls interleave.
AwakeWorkerDrainsQueue == Active # {} ~> queue = << >>

-----------------------------------------------------------------------------
(* What a comment of the code promises and the code does not keep.         *)

\* "The execution is continued until the WorkerPool goes to shutdown state."
\* (Worker::execute): so every worker exits once it does.
ShutdownCompletes ==
    main = "broadcast" /\ Uncreated = {} ~> main \in {"stopped", "destroy"}
=============================================================================
