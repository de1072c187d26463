----------------------------- MODULE ThreadLock -----------------------------
(***************************************************************************)
(* ThreadLock (msrvthread.cc): a recursive mutex and a condition variable  *)
(* that goes with it, as any number of threads may use them.  The other    *)
(* modules take a critical section for one step and the queue's wait for   *)
(* one lock; here are the calls themselves.                                *)
(*                                                                         *)
(* wait takes the lock once more than its caller and sleeps having         *)
(* released one level of it: a caller that holds the lock keeps it for as  *)
(* long as it sleeps.  signal and broadcast take the lock only to create   *)
(* the condition variable and notify outside of it.  The variable is       *)
(* created by the first call that needs it, from attributes nobody has     *)
(* initialised: its clock is either of the two.                            *)
(*                                                                         *)
(* Of a timeout the model keeps the fraction of a second, in units of      *)
(* which a second has Second.                                              *)
(***************************************************************************)
EXTENDS Naturals

CONSTANTS Threads,
          Second,   \* microseconds in a second
          MaxHeld,  \* bound on the levels of the lock a caller holds
          MaxCalls, \* bound on the calls of lock, wait, signal and broadcast
          NULL

ASSUME ThreadLockAssumption ==
    Second \in Nat \ {0} /\ MaxHeld \in Nat /\ MaxCalls \in Nat /\ NULL \notin Threads

Fractions == 0 .. Second - 1

VARIABLES owner,    \* the thread that has the mutex, or NULL
          depth,    \* how many times it has locked it
          cond,     \* "none" until mCondInited, then the clock of mThreadCond
          waiters,  \* the threads that mThreadCond will wake
          held,     \* the levels each thread has locked by lock and not yet unlocked
          call,     \* the last of wait, signal and broadcast it called
          at,       \* where it is in that call
          timeout,  \* the fraction of the timeout of its wait, NULL without a timeout
          calls     \* the number of calls so far

mutexVars == <<owner, depth>>
condVars  == <<cond, waiters>>
callVars  == <<held, call, timeout, calls>>
vars      == <<mutexVars, condVars, callVars, at>>

TypeOK ==
    /\ owner \in Threads \cup {NULL}
    /\ depth \in 0 .. MaxHeld + 1
    /\ cond \in {"none", "realtime", "monotonic"}
    /\ waiters \subseteq Threads
    /\ held \in [Threads -> 0 .. MaxHeld]
    /\ call \in [Threads -> {"wait", "signal", "broadcast"}]
    /\ at \in [Threads -> {"running", "calling", "inside", "asleep", "awake", "leaving",
                           "notifying"}]
    /\ timeout \in [Threads -> Fractions \cup {NULL}]
    /\ calls \in 0 .. MaxCalls

Init ==
    /\ owner = NULL
    /\ depth = 0
    /\ cond = "none"
    /\ waiters = {}
    /\ held = [t \in Threads |-> 0]
    /\ call = [t \in Threads |-> "wait"]
    /\ at = [t \in Threads |-> "running"]
    /\ timeout = [t \in Threads |-> NULL]
    /\ calls = 0

-----------------------------------------------------------------------------
(* The mutex and the condition variable.                                   *)

Acquire(t) ==
    /\ owner \in {t, NULL}
    /\ owner' = t
    /\ depth' = depth + 1

\* Unlocking a mutex of another thread is an error that is not looked at.
Release(t) ==
    /\ depth' = IF owner = t THEN depth - 1 ELSE depth
    /\ owner' = IF owner = t /\ depth = 1 THEN NULL ELSE owner

\* Seeded fault: the condition variable is created by every call.
InitCondAgain ==
    cond' \in {"realtime", "monotonic"} /\ waiters' = {}

\* initCond: with the attributes uninitialised the clock is either.
InitCond ==
    \/ cond = "none" /\ cond' \in {"realtime", "monotonic"} /\ waiters' = {}
    \/ cond # "none" /\ UNCHANGED condVars

Wake(S) ==
    /\ waiters' = waiters \ S
    /\ at' = [t \in Threads |-> IF t \in S THEN "awake" ELSE at[t]]

-----------------------------------------------------------------------------
(* The callers.                                                            *)

Lock(t) ==
    /\ at[t] = "running"
    /\ held[t] < MaxHeld /\ calls < MaxCalls
    /\ Acquire(t)
    /\ held' = [held EXCEPT ![t] = @ + 1]
    /\ calls' = calls + 1
    /\ UNCHANGED <<condVars, call, timeout, at>>

Unlock(t) ==
    /\ at[t] = "running"
    /\ held[t] > 0
    /\ Release(t)
    /\ held' = [held EXCEPT ![t] = @ - 1]
    /\ UNCHANGED <<condVars, call, timeout, calls, at>>

Call(t, op, f) ==
    /\ at[t] = "running"
    /\ calls < MaxCalls
    /\ f # NULL => op = "wait"
    /\ call' = [call EXCEPT ![t] = op]
    /\ timeout' = [timeout EXCEPT ![t] = f]
    /\ at' = [at EXCEPT ![t] = "calling"]
    /\ calls' = calls + 1
    /\ UNCHANGED <<mutexVars, condVars, held>>

-----------------------------------------------------------------------------
(* wait, signal and broadcast.                                             *)

\* All three begin with lock, and initCond where the variable is not there.
Enter(t) ==
    /\ at[t] = "calling"
    /\ Acquire(t)
    /\ InitCond
    /\ at' = [at EXCEPT ![t] = "inside"]
    /\ UNCHANGED callVars

\* Seeded fault: the seconds are not taken off the timeout before it is made fractions.
RejectedWithSeconds(usec, f) == usec + f + Second >= Second

\* tv_nsec is the fraction of the time of day plus that of the timeout, with no carry:
\* a second or more of nanoseconds is not a time.
Rejected(usec, f) == usec + f >= Second

\* pthread_cond_wait and pthread_cond_timedwait release one level, and sleep.
Sleep(t) ==
    /\ at[t] = "inside" /\ call[t] = "wait"
    /\ timeout[t] # NULL => \E usec \in Fractions : ~Rejected(usec, timeout[t])
    /\ Release(t)
    /\ waiters' = waiters \cup {t}
    /\ at' = [at EXCEPT ![t] = "asleep"]
    /\ UNCHANGED <<callVars, cond>>

\* pthread_cond_timedwait rejects the deadline: wait returns 0 and has not waited.
Reject(t) ==
    /\ at[t] = "inside" /\ call[t] = "wait"
    /\ timeout[t] # NULL /\ \E usec \in Fractions : Rejected(usec, timeout[t])
    /\ at' = [at EXCEPT ![t] = "leaving"]
    /\ UNCHANGED <<mutexVars, condVars, callVars>>

\* Seeded fault: the deadline is compared with the clock it was not taken from.
DeadlineComesMonotonic == cond = "monotonic"

\* The deadline is a time of day (gettimeofday), which only the one clock ever reaches.
DeadlineComes == cond = "realtime"

Expire(t) ==
    /\ at[t] = "asleep"
    /\ timeout[t] # NULL /\ DeadlineComes
    /\ Wake({t})
    /\ UNCHANGED <<mutexVars, callVars, cond>>

\* POSIX allows a wait to return for no reason.
Spurious(t) ==
    /\ at[t] = "asleep"
    /\ Wake({t})
    /\ UNCHANGED <<mutexVars, callVars, cond>>

\* The sleeper has to take the mutex again before the call in wait returns.
Reacquire(t) ==
    /\ at[t] = "awake"
    /\ Acquire(t)
    /\ at' = [at EXCEPT ![t] = "leaving"]
    /\ UNCHANGED <<condVars, callVars>>

\* Seeded fault: wait returns without its unlock.
LeaveKeepsLock(t) ==
    /\ at[t] = "leaving"
    /\ at' = [at EXCEPT ![t] = "running"]
    /\ UNCHANGED <<mutexVars, condVars, callVars>>

Leave(t) ==
    /\ at[t] = "leaving"
    /\ Release(t)
    /\ at' = [at EXCEPT ![t] = "running"]
    /\ UNCHANGED <<condVars, callVars>>

\* Seeded fault: signal and broadcast do not unlock before they notify, nor after.
LetGoNever(t) ==
    /\ at[t] = "inside" /\ call[t] # "wait"
    /\ at' = [at EXCEPT ![t] = "notifying"]
    /\ UNCHANGED <<mutexVars, condVars, callVars>>

\* signal and broadcast unlock before they notify.
LetGo(t) ==
    /\ at[t] = "inside" /\ call[t] # "wait"
    /\ Release(t)
    /\ at' = [at EXCEPT ![t] = "notifying"]
    /\ UNCHANGED <<condVars, callVars>>

\* pthread_cond_signal wakes one of the waiters, pthread_cond_broadcast all of them.
Notified(t) ==
    IF call[t] = "broadcast" \/ waiters = {} THEN {waiters} ELSE {{w} : w \in waiters}

Notify(t) ==
    /\ at[t] = "notifying"
    /\ \E S \in Notified(t) :
         /\ waiters' = waiters \ S
         /\ at' = [u \in Threads |-> IF u \in S THEN "awake"
                                     ELSE IF u = t THEN "running" ELSE at[u]]
    /\ UNCHANGED <<mutexVars, callVars, cond>>

-----------------------------------------------------------------------------

\* What a thread does once it has called; a caller gives back what it has locked.
Step(t) ==
    \/ Unlock(t) \/ Enter(t) \/ Sleep(t) \/ Reject(t) \/ Reacquire(t) \/ Leave(t)
    \/ LetGo(t) \/ Notify(t)

Next ==
    \E t \in Threads :
        \/ Step(t) \/ Expire(t) \/ Spurious(t) \/ Lock(t)
        \/ \E op \in {"wait", "signal", "broadcast"}, f \in Fractions \cup {NULL} :
             Call(t, op, f)

Spec == Init /\ [][Next]_vars

\* Every thread runs when it can, and deadlines come.  As the calls are finitely many no
\* thread is kept from the mutex by others for ever.
FairSpec == Spec /\ \A t \in Threads : WF_vars(Step(t)) /\ WF_vars(Expire(t))

-----------------------------------------------------------------------------
(* Properties.                                                             *)

\* The levels of the lock a thread counts on: its own, and one within a call.
Levels(t) == held[t] + (IF at[t] \in {"inside", "leaving"} THEN 1 ELSE 0)

\* Whatever is called while the lock is held or not, the mutex is held by the thread that
\* counts on it, exactly as often: no call gives back more or less than it took.
LockAccounted ==
    /\ owner = NULL <=> depth = 0
    /\ \A t \in Threads : Levels(t) = IF t = owner THEN depth ELSE 0

\* A timed wait that comes back at once had a fraction of a second in its timeout.
SkippedOnlyForFraction ==
    [][\A t \in Threads :
         at[t] = "inside" /\ call[t] = "wait" /\ at'[t] = "leaving" => timeout[t] \in Nat \ {0}]_vars

\* A thread sleeps in wait and has the lock, which its caller held.
SleeperHolds == \E t \in Threads : at[t] = "asleep" /\ held[t] > 0

\* signal and broadcast return, unless a sleeper keeps them out for good.
NotifierReturns ==
    \A t \in Threads :
        at[t] = "calling" /\ call[t] # "wait" ~> at[t] = "running" \/ SleeperHolds

\* Every thread that sleeps when broadcast is called returns from wait, under the same
\* condition: none is left asleep in a condition variable that was created twice.
BroadcastReleases ==
    \A s, t \in Threads :
        /\ at[s] = "asleep"
        /\ call[t] = "broadcast" /\ at[t] \in {"calling", "inside", "notifying"}
        ~> at[s] = "running" \/ SleeperHolds

\* A wait with a timeout returns, if the clock of the variable is the one of the deadline.
TimedWaitEnds ==
    \A t \in Threads :
        at[t] = "asleep" /\ timeout[t] # NULL /\ cond = "realtime"
        ~> at[t] = "running" \/ SleeperHolds
=============================================================================
