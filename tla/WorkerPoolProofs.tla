-------------------------- MODULE WorkerPoolProofs --------------------------
(***************************************************************************)
(* Proofs about WorkerPool, for any number of workers and of requests.     *)
(*                                                                         *)
(* PoolInv is inductive.  Beyond the types it relates the phase of a       *)
(* worker to the request it holds, the phase of the main thread to the     *)
(* flag and to the workers it has joined, and the contents of the queue to *)
(* the number of requests taken from it.                                   *)
(***************************************************************************)
EXTENDS WorkerPool, SequenceTheorems, TLAPS

\* A worker holds a request while it runs the handler, and at no other time.
HolderInv ==
    \A w \in Workers : /\ wpc[w] = "handle" => cur[w] # 0
                       /\ cur[w] # 0 => wpc[w] \in {"handle", "undefined"}

\* What the main thread knows of the flag, of the queue and of the workers.
MainInv ==
    /\ mIsShutdown = (main \notin {"construct", "serve", "signal"})
    /\ main = "construct" => i < N /\ \A w \in i .. N - 1 : wpc[w] = "unborn"
    /\ main = "join" => \A w \in 1 .. i - 1 : wpc[w] = "exited"
    /\ JoinedWorkersExited
    /\ main # "destroyed" => lost = << >>
    /\ main = "destroyed" => queue = << >>

\* The queue holds the youngest requests, oldest first.
OrderInv ==
    /\ Taken \in Nat
    /\ \A k \in 1 .. Len(queue) : queue[k] = Taken + k
    /\ \A k \in 1 .. Len(lost) : lost[k] = Taken + k

\* What was taken is handled or in exactly one hand.
HandInv ==
    /\ handled \cup InHand = 1 .. Taken
    /\ handled \cap InHand = {}
    /\ \A v, w \in Workers : cur[v] = cur[w] /\ cur[v] # 0 => v = w

PoolInv == TypeOK /\ HolderInv /\ MainInv /\ OrderInv /\ HandInv

-----------------------------------------------------------------------------
(* The initial states.                                                     *)

\* PoolInv holds when the constructor starts: no worker, no request.
LEMMA InitInv == Init => PoolInv
<1> SUFFICES ASSUME Init PROVE PoolInv
  OBVIOUS
<1> USE NAssumption, MaxRequestsAssumption DEF Init, Workers
<1>1. TypeOK
  BY DEF TypeOK, MainPhases, WorkerPhases
<1>2. HolderInv
  BY DEF HolderInv
<1>3. MainInv
  BY DEF MainInv, JoinedWorkersExited
<1>4. Taken = 0 /\ InHand = {}
  BY DEF Taken, InHand
<1>5. OrderInv
  BY <1>4 DEF OrderInv
<1>6. HandInv
  BY <1>4 DEF HandInv
<1> QED
  BY <1>1, <1>2, <1>3, <1>5, <1>6 DEF PoolInv

-----------------------------------------------------------------------------
(* One lemma for each part of PoolInv: a step preserves it.                *)

\* Every step keeps the types; the constructor's counter stays below N while it runs.
LEMMA TypeStep == PoolInv /\ [Next]_vars => TypeOK'
<1> SUFFICES ASSUME PoolInv, [Next]_vars PROVE TypeOK'
  OBVIOUS
<1> USE NAssumption, MaxRequestsAssumption
    DEF PoolInv, TypeOK, MainPhases, WorkerPhases, Workers
<1>1. CASE StartWorker \/ StartFails
  <2>1. i \in Workers /\ i + 1 \in 0 .. N
    BY <1>1 DEF StartWorker, StartFails, MainInv
  <2>2. CASE StartWorker
    BY <2>1, <2>2 DEF StartWorker
  <2>3. CASE StartFails
    BY <2>1, <2>3 DEF StartFails
  <2> QED
    BY <1>1, <2>2, <2>3
<1>2. CASE Push
  BY <1>2 DEF Push
<1>3. CASE Signal
  BY <1>3 DEF Signal, Wake
<1>4. ASSUME NEW withRequest \in BOOLEAN, Shutdown(withRequest) PROVE TypeOK'
  BY <1>4 DEF Shutdown
<1>5. CASE Broadcast
  BY <1>5 DEF Broadcast, Wake, FirstJoined
<1>6. CASE Join
  BY <1>6 DEF Join
<1>7. CASE JoinUncreated \/ Joined \/ HandleFinal \/ Destroy
  <2>1. CASE JoinUncreated \/ Joined
    BY <2>1 DEF JoinUncreated, Joined
  <2>2. CASE HandleFinal
    BY <2>2 DEF HandleFinal
  <2>3. CASE Destroy
    BY <2>3 DEF Destroy
  <2> QED
    BY <1>7, <2>1, <2>2, <2>3
<1>8. ASSUME NEW w \in Workers, WorkerStep(w) PROVE TypeOK'
  <2>1. CASE Check(w) \/ Sleep(w) \/ PullNothing(w) \/ UseDestroyedPool(w)
    BY <2>1 DEF Check, Sleep, PullNothing, UseDestroyedPool, mainVars
  <2>2. CASE SpuriousWakeup(w)
    BY <2>2 DEF SpuriousWakeup, Wake, mainVars
  <2>3. CASE Pull(w)
    BY <2>3 DEF Pull, mainVars
  <2>4. CASE Handle(w)
    BY <2>4 DEF Handle, mainVars
  <2> QED
    BY <1>8, <2>1, <2>2, <2>3, <2>4 DEF WorkerStep
<1>9. CASE UNCHANGED vars
  BY <1>9 DEF vars
<1> QED
  BY <1>1, <1>2, <1>3, <1>4, <1>5, <1>6, <1>7, <1>8, <1>9 DEF Next, MainStep

\* A worker takes a request only as it enters the handler and gives it up as it leaves.
LEMMA HolderStep == PoolInv /\ [Next]_vars => HolderInv'
<1> SUFFICES ASSUME PoolInv, [Next]_vars PROVE HolderInv'
  OBVIOUS
<1> USE DEF PoolInv, TypeOK, HolderInv, WorkerPhases
<1>1. CASE StartWorker
  <2>1. i \in Workers /\ wpc[i] = "unborn" /\ cur' = cur
    BY <1>1, NAssumption DEF StartWorker, MainInv, Workers
  <2>2. wpc' = [wpc EXCEPT ![i] = "check"] /\ cur[i] = 0
    BY <1>1, <2>1 DEF StartWorker
  <2> QED
    BY <2>1, <2>2
<1>2. CASE StartFails \/ Push \/ Join \/ JoinUncreated \/ Joined \/ HandleFinal \/ Destroy
  BY <1>2 DEF StartFails, Push, Join, JoinUncreated, Joined, HandleFinal, Destroy
<1>3. CASE Signal \/ Broadcast
  BY <1>3 DEF Signal, Broadcast, Wake, Asleep
<1>4. ASSUME NEW withRequest \in BOOLEAN, Shutdown(withRequest) PROVE HolderInv'
  BY <1>4 DEF Shutdown
<1>5. ASSUME NEW w \in Workers, WorkerStep(w) PROVE HolderInv'
  <2>1. CASE Check(w) \/ Sleep(w) \/ PullNothing(w) \/ UseDestroyedPool(w)
    BY <2>1 DEF Check, Sleep, PullNothing, UseDestroyedPool
  <2>2. CASE SpuriousWakeup(w)
    BY <2>2 DEF SpuriousWakeup, Wake, Asleep
  <2>3. CASE Pull(w)
    <3>1. Head(queue) = queue[1] /\ 1 \in 1 .. Len(queue)
      BY <2>3 DEF Pull
    <3>2. Taken \in Nat /\ queue[1] = Taken + 1
      BY <3>1 DEF OrderInv
    <3> QED
      BY <2>3, <3>1, <3>2 DEF Pull
  <2>4. CASE Handle(w)
    BY <2>4 DEF Handle
  <2> QED
    BY <1>5, <2>1, <2>2, <2>3, <2>4 DEF WorkerStep
<1>6. CASE UNCHANGED vars
  BY <1>6 DEF vars
<1> QED
  BY <1>1, <1>2, <1>3, <1>4, <1>5, <1>6 DEF Next, MainStep

\* The flag is set exactly in the phases from shutdown on; a worker that has returned
\* never runs again, so those the join loop has passed stay returned.
LEMMA MainPhaseStep == PoolInv /\ [Next]_vars => MainInv'
<1> SUFFICES ASSUME PoolInv, [Next]_vars PROVE MainInv'
  OBVIOUS
<1> USE NAssumption DEF PoolInv, TypeOK, MainPhases, MainInv, JoinedWorkersExited,
        Joinable, Workers
<1>1. CASE StartWorker \/ StartFails
  <2>1. CASE StartWorker
    BY <2>1 DEF StartWorker
  <2>2. CASE StartFails
    BY <2>2 DEF StartFails
  <2> QED
    BY <1>1, <2>1, <2>2
<1>2. CASE Push
  BY <1>2 DEF Push
<1>3. CASE Signal
  BY <1>3 DEF Signal, Wake
<1>4. ASSUME NEW withRequest \in BOOLEAN, Shutdown(withRequest) PROVE MainInv'
  BY <1>4 DEF Shutdown
<1>5. CASE Broadcast
  BY <1>5 DEF Broadcast, Wake, FirstJoined
<1>6. CASE Join \/ JoinUncreated
  <2>1. CASE Join
    BY <2>1 DEF Join
  <2>2. CASE JoinUncreated
    BY <2>2 DEF JoinUncreated
  <2> QED
    BY <1>6, <2>1, <2>2
<1>7. CASE Joined
  <2>1. i = N /\ wpc' = wpc /\ main' \in {"final", "destroy"}
    BY <1>7 DEF Joined
  <2>2. \A w \in 1 .. N - 1 : wpc[w] = "exited"
    BY <1>7, <2>1 DEF Joined
  <2> QED
    BY <1>7, <2>1, <2>2 DEF Joined
<1>8. CASE HandleFinal
  BY <1>8 DEF HandleFinal
<1>9. CASE Destroy
  BY <1>9 DEF Destroy
<1>10. ASSUME NEW w \in Workers, WorkerStep(w) PROVE MainInv'
  <2>1. UNCHANGED mainVars /\ lost' = lost
    BY <1>10 DEF WorkerStep, Check, Sleep, SpuriousWakeup, Pull, PullNothing, Handle,
                 UseDestroyedPool
  <2>2. \A v \in Workers : wpc[v] \in {"unborn", "exited"} => wpc'[v] = wpc[v]
    BY <1>10 DEF WorkerStep, Check, Sleep, SpuriousWakeup, Pull, PullNothing, Handle,
                 UseDestroyedPool, Wake, Asleep
  <2>3. main = "destroyed" => queue' = queue
    BY <1>10 DEF WorkerStep, Check, Sleep, SpuriousWakeup, Pull, PullNothing, Handle,
                 UseDestroyedPool
  <2>4. main' = main /\ i' = i /\ mIsShutdown' = mIsShutdown
    BY <2>1 DEF mainVars
  <2>5. main = "join" => \A v \in 1 .. i - 1 : wpc'[v] = "exited"
    BY <2>2
  <2>6. JoinedWorkersExited'
    <3> SUFFICES ASSUME main' \in {"final", "stopped", "destroy", "destroyed"},
                        NEW v \in Joinable
                 PROVE  wpc'[v] = "exited"
      OBVIOUS
    <3>1. wpc[v] = "exited" /\ v \in Workers
      BY <2>4
    <3> QED
      BY <2>2, <3>1
  <2>7. main = "construct" => \A v \in i .. N - 1 : wpc'[v] = "unborn"
    BY <2>2
  <2> QED
    BY <2>1, <2>3, <2>4, <2>5, <2>6, <2>7
<1>11. CASE UNCHANGED vars
  BY <1>11 DEF vars
<1> QED
  BY <1>1, <1>2, <1>3, <1>4, <1>5, <1>6, <1>7, <1>8, <1>9, <1>10, <1>11
     DEF Next, MainStep

\* Taking from the head and appending at the tail keeps the queue in order.
LEMMA OrderStep == PoolInv /\ [Next]_vars => OrderInv'
<1> SUFFICES ASSUME PoolInv, [Next]_vars PROVE OrderInv'
  OBVIOUS
<1> USE DEF PoolInv, TypeOK, MainInv, OrderInv, Taken
<1>1. CASE UNCHANGED <<queue, pushed, lost>>
  BY <1>1
<1>2. CASE Push
  <2>1. lost = << >> /\ lost' = << >> /\ pushed' = pushed + 1
    BY <1>2 DEF Push
  <2>2. Len(queue') = Len(queue) + 1 /\ Taken' = Taken
    BY <1>2, <2>1 DEF Push
  <2>3. \A k \in 1 .. Len(queue') :
          queue'[k] = IF k <= Len(queue) THEN queue[k] ELSE pushed + 1
    BY <1>2 DEF Push
  <2> QED
    BY <2>1, <2>2, <2>3
<1>3. CASE Destroy
  <2>1. lost = << >> /\ lost' = queue /\ queue' = << >> /\ pushed' = pushed
    BY <1>3 DEF Destroy
  <2> QED
    BY <2>1
<1>4. ASSUME NEW w \in Workers, Pull(w) PROVE OrderInv'
  <2>1. lost = << >> /\ lost' = << >> /\ pushed' = pushed
    BY <1>4 DEF Pull
  <2>2. /\ Len(queue') = Len(queue) - 1 /\ Len(queue) >= 1
        /\ \A k \in 1 .. Len(queue') : queue'[k] = queue[k + 1]
    BY <1>4 DEF Pull
  <2>3. Taken' = Taken + 1
    BY <2>1, <2>2
  <2> QED
    BY <2>1, <2>2, <2>3
<1>5. UNCHANGED <<queue, pushed, lost>> \/ Push \/ Destroy \/ \E w \in Workers : Pull(w)
  BY DEF Next, MainStep, WorkerStep, StartWorker, StartFails, Signal, Shutdown, Broadcast, Join,
         JoinUncreated, Joined, HandleFinal, Check, Sleep, SpuriousWakeup, PullNothing, Handle,
         UseDestroyedPool, vars
<1> QED
  BY <1>1, <1>2, <1>3, <1>4, <1>5

\* A request is in one hand from the moment it leaves the queue until it is handled.
LEMMA HandStep == PoolInv /\ [Next]_vars => HandInv'
<1> SUFFICES ASSUME PoolInv, [Next]_vars PROVE HandInv'
  OBVIOUS
<1> USE DEF PoolInv, TypeOK, HandInv, InHand
<1>1. CASE UNCHANGED <<cur, handled, Taken>>
  BY <1>1
<1>2. ASSUME NEW w \in Workers, Pull(w) PROVE HandInv'
  <2>1. cur[w] = 0 /\ handled' = handled /\ cur' = [cur EXCEPT ![w] = Head(queue)]
    BY <1>2 DEF Pull, HolderInv
  <2>2. Head(queue) = queue[1] /\ 1 \in 1 .. Len(queue)
    BY <1>2 DEF Pull
  <2>3. Taken \in Nat /\ Head(queue) = Taken + 1
    BY <2>2 DEF OrderInv
  <2>4. Taken' = Taken + 1
    BY <1>2 DEF Pull, Taken
  <2>5. InHand' = InHand \cup {Taken + 1}
    BY <2>1, <2>3
  <2>6. \A v \in Workers : cur[v] # Taken + 1
    <3>1. \A v \in Workers : cur[v] # 0 => cur[v] \in 1 .. Taken
      OBVIOUS
    <3> HIDE DEF PoolInv, TypeOK, HandInv, InHand
    <3> QED
      BY <3>1, <2>3
  <2>7. Taken + 1 \notin handled
    BY <2>3
  <2> QED
    BY <2>1, <2>3, <2>4, <2>5, <2>6, <2>7
<1>3. ASSUME NEW w \in Workers, Handle(w) PROVE HandInv'
  <2>1. /\ cur[w] # 0
        /\ handled' = handled \cup {cur[w]}
        /\ cur' = [cur EXCEPT ![w] = 0]
    BY <1>3 DEF Handle, HolderInv
  <2>2. Taken' = Taken
    BY <1>3 DEF Handle, Taken
  <2>3. InHand' = InHand \ {cur[w]}
    BY <2>1
  <2>4. cur[w] \in InHand
    BY <2>1
  <2> QED
    BY <2>1, <2>2, <2>3, <2>4
<1>4. UNCHANGED <<cur, handled, Taken>> \/ \E w \in Workers : Pull(w) \/ Handle(w)
  <2>1. CASE Push
    <3>1. Len(queue') = Len(queue) + 1
      BY <2>1 DEF Push
    <3> QED
      BY <2>1, <3>1 DEF Push, Taken
  <2>2. CASE Destroy
    <3>1. lost = << >>
      BY <2>2 DEF Destroy, MainInv
    <3> QED
      BY <2>2, <3>1 DEF Destroy, Taken
  <2> QED
    BY <2>1, <2>2
       DEF Next, MainStep, WorkerStep, StartWorker, StartFails, Signal, Shutdown, Broadcast, Join,
           JoinUncreated, Joined, HandleFinal, Check, Sleep, SpuriousWakeup, PullNothing,
           UseDestroyedPool, vars, mainVars, Taken
<1> QED
  BY <1>1, <1>2, <1>3, <1>4

-----------------------------------------------------------------------------
(* The theorems.                                                           *)

\* PoolInv holds in every reachable state.
THEOREM PoolCorrect == Spec => []PoolInv
<1>1. PoolInv /\ [Next]_vars => PoolInv'
  BY TypeStep, HolderStep, MainPhaseStep, OrderStep, HandStep DEF PoolInv
<1> QED
  BY InitInv, <1>1, PTL DEF Spec

\* The variables of the pool keep their types.
THEOREM TypeCorrect == Spec => []TypeOK
<1>1. PoolInv => TypeOK
  BY DEF PoolInv
<1> QED
  BY PoolCorrect, <1>1, PTL

\* No request pushed by the listener is lost, duplicated or reordered before a worker
\* has it, whatever the number of workers (Queue::push, Queue::pull, Worker::execute).
THEOREM RequestsAreConserved == Spec => []RequestsConserved
<1>1. PoolInv => RequestsConserved
  <2> SUFFICES ASSUME PoolInv PROVE RequestsConserved
    OBVIOUS
  <2> USE DEF PoolInv, TypeOK, OrderInv
  <2>1. lost = << >> \/ queue = << >>
    BY DEF MainInv
  <2>2. CASE lost = << >>
    <3>1. queue \o lost = queue /\ Len(lost) = 0
      BY <2>2, ConcatEmptySeq
    <3>2. queue = [k \in 1 .. Len(queue) |-> Taken + k]
      OBVIOUS
    <3> QED
      BY <3>1, <3>2 DEF HandInv, RequestsConserved
  <2>3. CASE queue = << >>
    <3>1. queue \o lost = lost /\ Len(queue) = 0
      BY <2>3, ConcatEmptySeq
    <3>2. lost = [k \in 1 .. Len(lost) |-> Taken + k]
      OBVIOUS
    <3> QED
      BY <3>1, <3>2 DEF HandInv, RequestsConserved
  <2> QED
    BY <2>1, <2>2, <2>3
<1> QED
  BY PoolCorrect, <1>1, PTL

\* WorkerPool::shutdown passes the final request on, and returns, only after every
\* worker but the one it does not join has left Worker::execute.
THEOREM JoinedWorkersHaveExited == Spec => []JoinedWorkersExited
<1>1. PoolInv => JoinedWorkersExited
  BY DEF PoolInv, MainInv
<1> QED
  BY PoolCorrect, <1>1, PTL

\* After mIsShutdown is set only a worker already past its test of the flag can sleep.
THEOREM NobodyStartsToWait == Spec => NoNewSleeperAfterShutdown
<1> DEFINE NoNewSleeper == mIsShutdown => (Window \cup Asleep)' \subseteq (Window \cup Asleep)
<1>1. PoolInv /\ [Next]_vars => [NoNewSleeper]_vars
  <2> SUFFICES ASSUME PoolInv, Next, mIsShutdown, NEW v \in Workers,
                      wpc'[v] \in {"enter", "asleep"}
               PROVE  wpc[v] \in {"enter", "asleep"}
    BY DEF Window, Asleep
  <2> USE DEF PoolInv, TypeOK
  <2>1. CASE MainStep
    BY <2>1 DEF MainStep, StartWorker, StartFails, Push, Signal, Shutdown, Broadcast, Join,
         JoinUncreated,
                Joined,
                HandleFinal, Destroy, Wake, MainInv
  <2>2. ASSUME NEW w \in Workers, WorkerStep(w) PROVE wpc[v] \in {"enter", "asleep"}
    BY <2>2 DEF WorkerStep, Check, Sleep, SpuriousWakeup, Pull, PullNothing, Handle,
                UseDestroyedPool, Wake
  <2> QED
    BY <2>1, <2>2 DEF Next
<1> QED
  BY PoolCorrect, <1>1, PTL DEF Spec, NoNewSleeperAfterShutdown

\* The pool implements RequestDispatcher: Queue::push is Submit, Queue::pull is Take,
\* the return of the handler is End, the test-and-set of mIsShutdown is Close, and
\* ~Queue is Discard; every other step is invisible.
THEOREM PoolImplementsDispatcher == Spec => DispatcherSpec
<1>1. Init => Dispatcher!Init
  BY DEF Init, Dispatcher!Init
<1>2. PoolInv /\ [Next]_vars => [Dispatcher!Next]_(Dispatcher!vars)
  <2> SUFFICES ASSUME PoolInv, [Next]_vars
               PROVE  Dispatcher!Next \/ UNCHANGED Dispatcher!vars
    OBVIOUS
  <2>1. CASE UNCHANGED Dispatcher!vars
    BY <2>1
  <2>2. CASE Push
    <3>1. Dispatcher!Submit
      BY <2>2 DEF Push, Dispatcher!Submit, PoolInv, MainInv, TypeOK
    <3> QED
      BY <3>1 DEF Dispatcher!Next
  <2>3. ASSUME NEW withRequest \in BOOLEAN, Shutdown(withRequest) PROVE Dispatcher!Next
    <3>1. Dispatcher!Close
      BY <2>3 DEF Shutdown, Dispatcher!Close
    <3> QED
      BY <3>1 DEF Dispatcher!Next
  <2>4. CASE Destroy
    <3>1. Dispatcher!Discard
      BY <2>4 DEF Destroy, Dispatcher!Discard, PoolInv, MainInv, TypeOK
    <3> QED
      BY <3>1 DEF Dispatcher!Next
  <2>5. ASSUME NEW w \in Workers, Pull(w) PROVE Dispatcher!Next
    <3>1. Dispatcher!Take(w)
      BY <2>5 DEF Pull, Dispatcher!Take, PoolInv, HolderInv, mainVars
    <3> QED
      BY <3>1 DEF Dispatcher!Next
  <2>6. ASSUME NEW w \in Workers, Handle(w) PROVE Dispatcher!Next
    <3>1. Dispatcher!End(w)
      BY <2>6 DEF Handle, Dispatcher!End, PoolInv, HolderInv, mainVars
    <3> QED
      BY <3>1 DEF Dispatcher!Next
  <2>7. \/ UNCHANGED Dispatcher!vars
        \/ Push \/ Destroy
        \/ \E withRequest \in BOOLEAN : Shutdown(withRequest)
        \/ \E w \in Workers : Pull(w) \/ Handle(w)
    BY DEF Next, MainStep, WorkerStep, StartWorker, StartFails, Signal, Broadcast, Join,
         JoinUncreated,
                Joined,
           HandleFinal, Check, Sleep, SpuriousWakeup, PullNothing, UseDestroyedPool,
           vars, mainVars, Dispatcher!vars
  <2> QED
    BY <2>1, <2>2, <2>3, <2>4, <2>5, <2>6, <2>7
<1> QED
  BY PoolCorrect, <1>1, <1>2, PTL DEF Spec, DispatcherSpec, Dispatcher!Spec
=============================================================================
