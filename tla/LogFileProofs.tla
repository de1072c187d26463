--------------------------- MODULE LogFileProofs ---------------------------
(***************************************************************************)
(* The mutex of the log does what it is for, however many threads log: the *)
(* lines of the log stay whole.  And it accounts for every call that has   *)
(* failed.                                                                 *)
(***************************************************************************)
EXTENDS LogFile, TLAPS

LogInv == TypeOK /\ LockAccounted /\ LinesWhole /\ PrintsToOpenStream

\* Only the holder of the mutex prints, and who can lock it finds nobody printing.
LEMMA OneAtATime ==
  ASSUME LogInv
  PROVE  /\ \A t, u \in Threads : Printing(t) /\ Printing(u) => t = u
         /\ \A t, u \in Threads : CanLock(t) => ~Printing(u)
<1>1. NULL \notin Threads
  BY LogAssumption
<1>2. \A t \in Threads : Printing(t) => holder = t
  BY DEF LogInv, LockAccounted
<1> QED
  BY <1>1, <1>2 DEF CanLock, Printing

LEMMA LogInit == Init => LogInv
<1> SUFFICES ASSUME Init PROVE LogInv
  OBVIOUS
<1>1. \A t \in Threads : pc[t] = "idle" /\ failed[t] = 0 /\ holder # t
  BY LogAssumption DEF Init
<1>2. TypeOK
  BY <1>1 DEF Init, TypeOK, FileNames
<1>3. LockAccounted
  BY <1>1 DEF Init, LockAccounted, Printing
<1>4. LinesWhole /\ PrintsToOpenStream
  BY <1>1 DEF LinesWhole, PrintsToOpenStream, Pieces, After, Printing
<1> QED
  BY <1>2, <1>3, <1>4 DEF LogInv

\* A step of a message.
LEMMA MessageStep ==
  ASSUME LogInv, NEW t \in Threads, Message(t)
  PROVE  LogInv'
<1>1. TypeOK /\ LockAccounted /\ LinesWhole /\ PrintsToOpenStream
  BY DEF LogInv
<1>2. \A u \in Threads : u # t => pc'[u] = pc[u] /\ failed'[u] = failed[u] /\ pc[u] = "idle"
                                  /\ failed[u] = 0 /\ holder # u
  <2>1. CASE Begin(t)
    BY <2>1, <1>1, OneAtATime, LogAssumption
       DEF Begin, CanLock, Lock, LockAccounted, Printing, TypeOK
  <2>2. CASE PrintPiece(t) \/ FailPiece(t) \/ End(t)
    <3>1. Printing(t) /\ holder = t
      BY <2>2, <1>1 DEF PrintPiece, FailPiece, End, Pieces, Printing, LockAccounted
    <3>2. \A u \in Threads : u # t => pc'[u] = pc[u] /\ failed'[u] = failed[u]
      BY <2>2, <1>1 DEF PrintPiece, FailPiece, Fail, End, TypeOK
    <3> QED
      BY <3>1, <3>2, <1>1 DEF LockAccounted, Printing, TypeOK
  <2> QED
    BY <2>1, <2>2 DEF Message
<1>3. CASE Begin(t)
  <2>1. /\ holder \in {NULL, t} /\ pc[t] = "idle" /\ pc' = [pc EXCEPT ![t] = "time"]
        /\ holder' = t /\ depth' = depth + 1 /\ mpLogStream # NULL
        /\ UNCHANGED <<mpLogStream, mpFilename, alive, failed, undefined>>
    BY <1>3 DEF Begin, CanLock, Lock
  <2>2. depth = failed[t]
    BY <2>1, <1>1, LogAssumption DEF LockAccounted, Printing, TypeOK
  <2>3. pc'[t] = "time"
    BY <2>1, <1>1 DEF TypeOK
  <2>4. TypeOK'
    BY <2>1, <1>1 DEF TypeOK, Pieces
  <2>5. LockAccounted'
    BY <2>1, <2>2, <2>3, <1>1, <1>2, LogAssumption DEF LockAccounted, Printing, TypeOK
  <2>6. LinesWhole' /\ PrintsToOpenStream'
    BY <2>1, <2>3, <1>2 DEF LinesWhole, PrintsToOpenStream, Printing, Pieces, After
  <2> QED
    BY <2>4, <2>5, <2>6 DEF LogInv
<1>4. CASE PrintPiece(t)
  <2>1. /\ pc[t] \in Pieces /\ last' = <<t, pc[t]>> /\ pc' = [pc EXCEPT ![t] = After[pc[t]]]
        /\ UNCHANGED <<mpLogStream, mpFilename, holder, depth, alive, failed, undefined>>
    BY <1>4 DEF PrintPiece
  <2>2. pc'[t] = After[pc[t]] /\ pc'[t] \in Pieces \cup {"flush"}
    BY <2>1, <1>1 DEF TypeOK, Pieces, After
  <2>3. Printing(t) /\ Printing(t)'
    BY <2>1, <2>2 DEF Printing, Pieces
  <2>4. TypeOK'
    BY <2>1, <2>2, <1>1 DEF TypeOK
  <2>5. LockAccounted'
    BY <2>1, <2>3, <1>1, <1>2 DEF LockAccounted, Printing
  <2>6. LinesWhole'
    <3>1. \A p, q \in Pieces : After[p] = After[q] => p = q
      BY DEF Pieces, After
    <3>2. ASSUME NEW u \in Threads, NEW p \in Pieces, pc'[u] = After[p]
          PROVE  last' = <<u, p>>
      <4>1. u = t
        BY <3>2, <1>2 DEF Pieces, After
      <4> QED
        BY <4>1, <3>1, <3>2, <2>1, <2>2
    <3> QED
      BY <3>2 DEF LinesWhole
  <2>7. PrintsToOpenStream'
    BY <2>1, <2>3, <1>1, <1>2 DEF PrintsToOpenStream, Printing
  <2> QED
    BY <2>4, <2>5, <2>6, <2>7 DEF LogInv
<1>5. CASE FailPiece(t)
  <2>1. /\ pc[t] \in Pieces /\ pc' = [pc EXCEPT ![t] = "idle"]
        /\ failed' = [failed EXCEPT ![t] = @ + 1]
        /\ UNCHANGED <<mpLogStream, mpFilename, holder, depth, alive, undefined>>
    BY <1>5 DEF FailPiece, Fail
  <2>2. Printing(t) /\ ~Printing(t)' /\ pc'[t] = "idle" /\ failed'[t] = failed[t] + 1
    BY <2>1, <1>1 DEF Printing, Pieces, TypeOK
  <2>3. holder = t /\ failed[t] \in Nat /\ depth = failed[t] + 1
    BY <2>2, <1>1 DEF LockAccounted, TypeOK
  <2>4. TypeOK'
    BY <2>1, <2>3, <1>1 DEF TypeOK
  <2>5. LockAccounted'
    BY <2>1, <2>2, <2>3, <1>1, <1>2, LogAssumption DEF LockAccounted, Printing
  <2>6. LinesWhole' /\ PrintsToOpenStream'
    BY <2>1, <2>2, <1>2 DEF LinesWhole, PrintsToOpenStream, Printing, Pieces, After
  <2> QED
    BY <2>4, <2>5, <2>6 DEF LogInv
<1>6. CASE End(t)
  <2>1. /\ pc[t] = "flush" /\ pc' = [pc EXCEPT ![t] = "idle"]
        /\ depth' = depth - 1 /\ holder' = IF depth = 1 THEN NULL ELSE t
        /\ UNCHANGED <<mpLogStream, mpFilename, alive, failed, undefined>>
    BY <1>6 DEF End, Unlock
  <2>2. Printing(t) /\ ~Printing(t)' /\ pc'[t] = "idle"
    BY <2>1, <1>1 DEF Printing, TypeOK
  <2>3. holder = t /\ failed[t] \in Nat /\ depth = failed[t] + 1
    BY <2>2, <1>1 DEF LockAccounted, TypeOK
  <2>4. TypeOK'
    BY <2>1, <2>3, <1>1 DEF TypeOK
  <2>5. LockAccounted'
    BY <2>1, <2>2, <2>3, <1>1, <1>2, LogAssumption DEF LockAccounted, Printing
  <2>6. LinesWhole' /\ PrintsToOpenStream'
    BY <2>1, <2>2, <1>2 DEF LinesWhole, PrintsToOpenStream, Printing, Pieces, After
  <2> QED
    BY <2>4, <2>5, <2>6 DEF LogInv
<1> QED
  BY <1>3, <1>4, <1>5, <1>6 DEF Message

\* A call that is one step finds no message in progress, and begins none.
LEMMA CallStep ==
  ASSUME LogInv, NEW t \in Threads, Call(t)
  PROVE  LogInv'
<1>1. TypeOK /\ LockAccounted /\ LinesWhole /\ PrintsToOpenStream
  BY DEF LogInv
<1>2. CanLock(t) /\ pc' = pc
  BY DEF Call, Refuse, Write, Open, OpenFails, Close, SetFilename, Destroy, vars
<1>3. \A u \in Threads : pc[u] = "idle"
  BY <1>2, OneAtATime DEF Printing
<1>4. LinesWhole' /\ PrintsToOpenStream'
  BY <1>2, <1>3 DEF LinesWhole, PrintsToOpenStream, Printing, Pieces, After
<1>5. CASE Refuse(t)
  <2>1. /\ holder \in {NULL, t} /\ holder' = t /\ depth' = depth + 1
        /\ failed' = [failed EXCEPT ![t] = @ + 1]
        /\ UNCHANGED <<mpLogStream, mpFilename, pc, alive, undefined>>
    BY <1>5 DEF Refuse, CanLock, Lock, Fail
  <2>2. depth = failed[t] /\ depth \in Nat /\ failed'[t] = failed[t] + 1
    BY <2>1, <1>1, <1>3, LogAssumption DEF LockAccounted, Printing, TypeOK
  <2>3. \A u \in Threads : u # t => failed'[u] = failed[u] /\ failed[u] = 0
    BY <2>1, <1>1, LogAssumption DEF LockAccounted, TypeOK
  <2>4. TypeOK'
    BY <2>1, <2>2, <1>1 DEF TypeOK
  <2>5. LockAccounted'
    BY <2>1, <2>2, <2>3, <1>3, LogAssumption DEF LockAccounted, Printing
  <2> QED
    BY <2>4, <2>5, <1>4 DEF LogInv
<1>6. CASE ~Refuse(t)
  <2>1. UNCHANGED <<holder, depth, pc, failed>>
    BY <1>6 DEF Call, Write, Open, OpenFails, Close, SetFilename, Destroy, vars
  <2>2. LockAccounted'
    BY <2>1, <1>1 DEF LockAccounted, Printing
  <2>3. mpLogStream' \in {NULL, Stdout, File} /\ mpFilename' \in FileNames \cup {Unset}
    BY <1>1, <1>6 DEF TypeOK, Call, Write, Open, OpenFails, Close, SetFilename, Destroy, vars
  <2>4. alive' \in BOOLEAN /\ undefined' \in BOOLEAN
    <3>1. CASE Write(t) \/ OpenFails(t) \/ Close(t)
      BY <3>1, <1>1 DEF TypeOK, Write, OpenFails, Close, vars
    <3>2. CASE Open(t)
      BY <3>2, <1>1 DEF TypeOK, Open
    <3>3. CASE SetFilename(t) \/ Destroy(t)
      BY <3>3, <1>1 DEF TypeOK, SetFilename, Destroy
    <3> QED
      BY <3>1, <3>2, <3>3, <1>6 DEF Call
  <2>5. TypeOK'
    BY <2>1, <2>3, <2>4, <1>1 DEF TypeOK
  <2> QED
    BY <2>2, <2>5, <1>4 DEF LogInv
<1> QED
  BY <1>5, <1>6

\* LogInv is inductive.
THEOREM LogCorrect == Spec => []LogInv
<1>1. LogInv /\ UNCHANGED vars => LogInv'
  BY DEF vars, LogInv, TypeOK, LockAccounted, LinesWhole, PrintsToOpenStream, Printing
<1>2. LogInv /\ [Next]_vars => LogInv'
  BY <1>1, MessageStep, CallStep DEF Next
<1> QED
  BY <1>2, LogInit, PTL DEF Spec

\* The variables keep their types, whatever is logged, opened and closed.
THEOREM LogTypes == Spec => []TypeOK
<1>1. LogInv => TypeOK
  BY DEF LogInv
<1> QED
  BY <1>1, LogCorrect, PTL

\* The mutex is held for a message in progress and for calls that have failed, and
\* for nothing else: an error in message or write shuts the other threads out.
THEOREM LockIsAccounted == Spec => []LockAccounted
<1>1. LogInv => LockAccounted
  BY DEF LogInv
<1> QED
  BY <1>1, LogCorrect, PTL

\* Lines printed by several threads do not mix.
THEOREM LinesStayWhole == Spec => []LinesWhole
<1>1. LogInv => LinesWhole
  BY DEF LogInv
<1> QED
  BY <1>1, LogCorrect, PTL

\* No message is printed to a stream that close or ~LogFile has closed.
THEOREM StreamStaysOpen == Spec => []PrintsToOpenStream
<1>1. LogInv => PrintsToOpenStream
  BY DEF LogInv
<1> QED
  BY <1>1, LogCorrect, PTL
=============================================================================
