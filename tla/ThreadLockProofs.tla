-------------------------- MODULE ThreadLockProofs --------------------------
(***************************************************************************)
(* Proofs about ThreadLock, for any set of threads, any resolution of the  *)
(* clock and any number of calls.                                          *)
(***************************************************************************)
EXTENDS ThreadLock, TLAPS

Places == {"running", "calling", "inside", "asleep", "awake", "leaving", "notifying"}

\* TypeOK without the bound of the depth, which only the account of the levels gives.
Types ==
    /\ owner \in Threads \cup {NULL}
    /\ cond \in {"none", "realtime", "monotonic"}
    /\ waiters \subseteq Threads
    /\ held \in [Threads -> 0 .. MaxHeld]
    /\ call \in [Threads -> {"wait", "signal", "broadcast"}]
    /\ at \in [Threads -> Places]
    /\ timeout \in [Threads -> Fractions \cup {NULL}]
    /\ calls \in 0 .. MaxCalls

\* Nobody is woken who does not sleep.
WaitersAsleep == \A t \in waiters : at[t] = "asleep"

LockInv ==
    /\ depth \in Nat
    /\ Types
    /\ WaitersAsleep
    /\ LockAccounted

\* What a step does to the account of the levels: the thread t takes one, or gives one
\* back, or nobody does either.
Takes(t)  == Acquire(t) /\ Levels(t)' = Levels(t) + 1
Gives(t)  == Release(t) /\ Levels(t)' = Levels(t) - 1
Others(t) == \A u \in Threads \ {t} : Levels(u)' = Levels(u)
Neither   == UNCHANGED mutexVars /\ \A u \in Threads : Levels(u)' = Levels(u)

-----------------------------------------------------------------------------
\* A thread that counts on a level of the lock is its owner.
LEMMA LevelsFacts ==
    ASSUME LockInv, NEW t \in Threads
    PROVE  /\ Levels(t) \in Nat
           /\ Levels(t) > 0 => owner = t /\ depth = Levels(t)
           /\ owner \in {t, NULL} => depth = Levels(t)
  BY ThreadLockAssumption DEF LockInv, Types, LockAccounted, Levels

\* Taking a level when the mutex is free or one's own keeps the account.
LEMMA TakeKeeps ==
    ASSUME LockInv, NEW t \in Threads, Takes(t), Others(t)
    PROVE  LockAccounted' /\ depth' \in Nat
<1>1. depth = Levels(t) /\ owner' = t /\ depth' = Levels(t)' /\ depth' # 0 /\ depth' \in Nat
  BY LevelsFacts DEF Takes, Acquire
<1>2. ASSUME NEW u \in Threads, u # t PROVE Levels(u)' = 0
  BY <1>2 DEF Takes, Acquire, Others, LockInv, LockAccounted
<1> QED
  BY <1>1, <1>2, ThreadLockAssumption DEF LockAccounted

\* Giving back a level one counts on keeps it too.
LEMMA GiveKeeps ==
    ASSUME LockInv, NEW t \in Threads, Levels(t) > 0, Gives(t), Others(t)
    PROVE  LockAccounted' /\ depth' \in Nat
<1>1. owner = t /\ depth = Levels(t) /\ depth' = depth - 1 /\ depth' \in Nat
  BY LevelsFacts DEF Gives, Release
<1>2. Levels(t)' = depth'
  BY <1>1 DEF Gives
<1>3. owner' = IF depth' = 0 THEN NULL ELSE t
  BY <1>1 DEF Gives, Release
<1>4. ASSUME NEW u \in Threads, u # t PROVE Levels(u)' = 0
  BY <1>1, <1>4 DEF Others, LockInv, LockAccounted
<1> QED
  BY <1>1, <1>2, <1>3, <1>4, ThreadLockAssumption DEF LockAccounted

\* And so does a step that leaves the mutex and the account alone.
LEMMA NeitherKeeps ==
    ASSUME LockInv, Neither
    PROVE  LockAccounted' /\ depth' \in Nat
  BY DEF Neither, mutexVars, LockInv, LockAccounted

-----------------------------------------------------------------------------
\* LockInv holds in the beginning.
LEMMA InitInv == Init => LockInv
  BY ThreadLockAssumption DEF Init, LockInv, Types, Places, WaitersAsleep, LockAccounted, Levels

\* Every step keeps the types.
LEMMA TypesStep == LockInv /\ [Next]_vars => Types'
<1> SUFFICES ASSUME LockInv, [Next]_vars PROVE Types'
  OBVIOUS
<1> USE ThreadLockAssumption DEF LockInv
<1>1. CASE UNCHANGED vars
  BY <1>1 DEF vars, mutexVars, condVars, callVars, Types
<1>2. ASSUME NEW t \in Threads, Lock(t) \/ Unlock(t) PROVE Types'
  BY <1>2 DEF Lock, Unlock, Acquire, Release, condVars, Types
<1>3. ASSUME NEW t \in Threads, NEW op \in {"wait", "signal", "broadcast"},
             NEW f \in Fractions \cup {NULL}, Call(t, op, f)
      PROVE  Types'
  BY <1>3 DEF Call, mutexVars, condVars, Types, Places
<1>4. ASSUME NEW t \in Threads, Enter(t) PROVE Types'
  BY <1>4 DEF Enter, Acquire, InitCond, condVars, callVars, Types, Places
<1>5. ASSUME NEW t \in Threads, Sleep(t) \/ Reject(t) PROVE Types'
  BY <1>5 DEF Sleep, Reject, Release, mutexVars, condVars, callVars, Types, Places
<1>6. ASSUME NEW t \in Threads, Expire(t) \/ Spurious(t) PROVE Types'
  BY <1>6 DEF Expire, Spurious, Wake, mutexVars, callVars, Types, Places
<1>7. ASSUME NEW t \in Threads, Reacquire(t) \/ Leave(t) \/ LetGo(t) PROVE Types'
  BY <1>7 DEF Reacquire, Leave, LetGo, Acquire, Release, condVars, callVars, Types, Places
<1>8. ASSUME NEW t \in Threads, Notify(t) PROVE Types'
  BY <1>8 DEF Notify, mutexVars, callVars, Types, Places
<1> QED
  BY <1>1, <1>2, <1>3, <1>4, <1>5, <1>6, <1>7, <1>8 DEF Next, Step

\* A thread leaves the waiters when it is woken, and joins them to sleep.
LEMMA WaitersStep == LockInv /\ [Next]_vars => WaitersAsleep'
<1> SUFFICES ASSUME LockInv, [Next]_vars PROVE WaitersAsleep'
  OBVIOUS
<1> USE DEF LockInv, WaitersAsleep
<1>1. CASE UNCHANGED vars
  BY <1>1 DEF vars, condVars
<1>2. ASSUME NEW t \in Threads,
             Lock(t) \/ Unlock(t) \/ Reject(t) \/ Reacquire(t) \/ Leave(t) \/ LetGo(t)
      PROVE  WaitersAsleep'
  BY <1>2 DEF Lock, Unlock, Reject, Reacquire, Leave, LetGo, condVars, Types
<1>3. ASSUME NEW t \in Threads, NEW op, NEW f, Call(t, op, f) PROVE WaitersAsleep'
  BY <1>3 DEF Call, condVars, Types
<1>4. ASSUME NEW t \in Threads, Enter(t) PROVE WaitersAsleep'
  BY <1>4 DEF Enter, InitCond, condVars, Types
<1>5. ASSUME NEW t \in Threads, Sleep(t) PROVE WaitersAsleep'
  BY <1>5 DEF Sleep, Types
<1>6. ASSUME NEW t \in Threads, Expire(t) \/ Spurious(t) PROVE WaitersAsleep'
  BY <1>6 DEF Expire, Spurious, Wake, Types
<1>7. ASSUME NEW t \in Threads, Notify(t) PROVE WaitersAsleep'
  BY <1>7 DEF Notify, Types
<1> QED
  BY <1>1, <1>2, <1>3, <1>4, <1>5, <1>6, <1>7 DEF Next, Step

\* Only a thread within wait sleeps, and only with the lock does one enter or leave.
LEMMA AccountStep == LockInv /\ [Next]_vars => LockAccounted' /\ depth' \in Nat
<1> SUFFICES ASSUME LockInv, [Next]_vars PROVE LockAccounted' /\ depth' \in Nat
  OBVIOUS
<1> USE ThreadLockAssumption
<1>1. CASE UNCHANGED vars
  BY <1>1 DEF vars, mutexVars, callVars, LockInv, LockAccounted, Levels
<1>2. ASSUME NEW t \in Threads, Lock(t) \/ Enter(t) \/ Reacquire(t)
      PROVE  LockAccounted' /\ depth' \in Nat
  <2>1. Takes(t)
    BY <1>2 DEF Lock, Enter, Reacquire, Takes, Levels, callVars, LockInv, Types
  <2>2. Others(t)
    BY <1>2 DEF Lock, Enter, Reacquire, Others, Levels, callVars, LockInv, Types
  <2> QED
    BY <2>1, <2>2, TakeKeeps
<1>3. ASSUME NEW t \in Threads, Unlock(t) \/ Sleep(t) \/ Leave(t) \/ LetGo(t)
      PROVE  LockAccounted' /\ depth' \in Nat
  <2>1. Levels(t) > 0
    BY <1>3 DEF Unlock, Sleep, Leave, LetGo, Levels, LockInv, Types
  <2>2. Gives(t)
    BY <1>3 DEF Unlock, Sleep, Leave, LetGo, Gives, Levels, callVars, LockInv, Types
  <2>3. Others(t)
    BY <1>3 DEF Unlock, Sleep, Leave, LetGo, Others, Levels, callVars, LockInv, Types
  <2> QED
    BY <2>1, <2>2, <2>3, GiveKeeps
<1>4. ASSUME NEW t \in Threads, Expire(t) \/ Spurious(t)
      PROVE  LockAccounted' /\ depth' \in Nat
  <2>1. Neither
    BY <1>4 DEF Expire, Spurious, Wake, Neither, Levels, callVars, LockInv, Types
  <2> QED
    BY <2>1, NeitherKeeps
<1>5. ASSUME NEW t \in Threads, Reject(t) PROVE LockAccounted' /\ depth' \in Nat
  <2>1. Neither
    BY <1>5 DEF Reject, Neither, Levels, callVars, LockInv, Types
  <2> QED
    BY <2>1, NeitherKeeps
<1>6. ASSUME NEW t \in Threads, NEW op, NEW f, Call(t, op, f)
      PROVE  LockAccounted' /\ depth' \in Nat
  <2>1. Neither
    BY <1>6 DEF Call, Neither, Levels, LockInv, Types
  <2> QED
    BY <2>1, NeitherKeeps
<1>7. ASSUME NEW t \in Threads, Notify(t) PROVE LockAccounted' /\ depth' \in Nat
  <2>1. PICK S \in Notified(t) :
          at' = [u \in Threads |-> IF u \in S THEN "awake"
                                  ELSE IF u = t THEN "running" ELSE at[u]]
    BY <1>7 DEF Notify
  <2>2. \A u \in S : at[u] = "asleep"
    BY DEF Notified, LockInv, WaitersAsleep
  <2>3. at[t] = "notifying" /\ UNCHANGED <<held, mutexVars>>
    BY <1>7 DEF Notify, callVars
  <2>4. Neither
    BY <2>1, <2>2, <2>3 DEF Neither, Levels, LockInv, Types
  <2> QED
    BY <2>4, NeitherKeeps
<1> QED
  BY <1>1, <1>2, <1>3, <1>4, <1>5, <1>6, <1>7 DEF Next, Step

-----------------------------------------------------------------------------
(* The theorems.                                                           *)

\* LockInv holds in every reachable state.
THEOREM LockCorrect == Spec => []LockInv
<1>1. LockInv /\ [Next]_vars => LockInv'
  BY TypesStep, WaitersStep, AccountStep DEF LockInv
<1> QED
  BY InitInv, <1>1, PTL DEF Spec

\* The threads' account of the lock is the mutex's own, whatever they call holding it.
THEOREM LockIsAccounted == Spec => []LockAccounted
<1>1. LockInv => LockAccounted
  BY DEF LockInv
<1> QED
  BY LockCorrect, <1>1, PTL

\* The variables keep their types, and nobody has the mutex more often than once more
\* than its callers may.
THEOREM ThreadLockTypes == Spec => []TypeOK
<1>1. LockInv => TypeOK
  <2> SUFFICES ASSUME LockInv PROVE TypeOK
    OBVIOUS
  <2>1. depth \in 0 .. MaxHeld + 1
    <3>1. CASE owner = NULL
      BY <3>1, ThreadLockAssumption DEF LockInv, LockAccounted
    <3>2. CASE owner # NULL
      <4>1. owner \in Threads /\ depth = Levels(owner)
        BY <3>2, LevelsFacts DEF LockInv, Types
      <4> QED
        BY <4>1, ThreadLockAssumption DEF LockInv, Types, Levels
    <3> QED
      BY <3>1, <3>2
  <2> QED
    BY <2>1 DEF LockInv, Types, Places, TypeOK
<1> QED
  BY LockCorrect, <1>1, PTL

\* With the carry missing a timed wait may be skipped, but never one of whole seconds.
THEOREM WholeSecondsAreWaited == Spec => SkippedOnlyForFraction
<1> DEFINE Skipped(t) == at[t] = "inside" /\ call[t] = "wait" /\ at'[t] = "leaving"
           A == \A t \in Threads : Skipped(t) => timeout[t] \in Nat \ {0}
<1>1. LockInv /\ [Next]_vars => [A]_vars
  <2> SUFFICES ASSUME LockInv, Next, NEW u \in Threads, Skipped(u)
               PROVE  timeout[u] \in Nat \ {0}
    OBVIOUS
  <2>1. Reject(u)
    <3> USE DEF LockInv, Types
    <3>1. ASSUME NEW t \in Threads, Lock(t) \/ Unlock(t) PROVE FALSE
      BY <3>1 DEF Lock, Unlock
    <3>2. ASSUME NEW t \in Threads, NEW op, NEW f, Call(t, op, f) PROVE FALSE
      BY <3>2 DEF Call
    <3>3. ASSUME NEW t \in Threads, Enter(t) \/ Sleep(t) \/ Leave(t) \/ LetGo(t) \/ Reacquire(t)
          PROVE  FALSE
      BY <3>3 DEF Enter, Sleep, Leave, LetGo, Reacquire
    <3>4. ASSUME NEW t \in Threads, Expire(t) \/ Spurious(t) PROVE FALSE
      BY <3>4 DEF Expire, Spurious, Wake
    <3>5. ASSUME NEW t \in Threads, Notify(t) PROVE FALSE
      BY <3>5 DEF Notify
    <3>6. ASSUME NEW t \in Threads, Reject(t) PROVE Reject(u)
      BY <3>6 DEF Reject
    <3> QED
      BY <3>1, <3>2, <3>3, <3>4, <3>5, <3>6 DEF Next, Step
  <2>2. PICK usec \in Fractions : Rejected(usec, timeout[u])
    BY <2>1 DEF Reject
  <2>3. timeout[u] \in Fractions
    BY <2>1 DEF Reject, LockInv, Types
  <2> QED
    BY <2>2, <2>3, ThreadLockAssumption DEF Rejected, Fractions
<1> QED
  BY LockCorrect, <1>1, PTL DEF Spec, SkippedOnlyForFraction
=============================================================================
