----------------------- MODULE DatagramListenerProofs -----------------------
(***************************************************************************)
(* Proofs about DatagramListener, for any length of the read buffer and    *)
(* any number of datagrams.                                                *)
(*                                                                         *)
(* The safety properties need to know of the read loop that what is in     *)
(* dynbuffer are the last datagrams read, each of which filled the buffer, *)
(* and that the first read of an event finds what select has seen.         *)
(***************************************************************************)
EXTENDS DatagramListener, SequenceTheorems, TLAPS

\* The state of the read loop.
LoopInv ==
    /\ lpc = "read" => watched
    /\ watched => open
    /\ lpc # "read" => inHand = 0
    /\ lpc = "read" /\ inHand = 0 => socketq # << >>
    /\ inHand <= Len(received)
    /\ \A n \in Len(received) + 1 - inHand .. Len(received) : received[n].len = BufferLen
    /\ DeafOnlyAfterEmpty

ListenInv == TypeOK /\ LoopInv /\ GluedOnlyAfterFull /\ EachDatagramServedOnce

\* The steps that read nothing from the socket and give the handler nothing.
Quiet == UNCHANGED <<mRequestMask, inHand, received, requests>>

-----------------------------------------------------------------------------
\* ListenInv holds when bind has returned.
LEMMA InitInv == Init => ListenInv
<1> SUFFICES ASSUME Init PROVE ListenInv
  OBVIOUS
<1>1. mRequestMask \subseteq RequestTypes
  BY DEF Init
<1>2. TypeOK
  BY <1>1, EmptySeq DEF Init, TypeOK
<1>3. LoopInv
  BY DEF Init, LoopInv, DeafOnlyAfterEmpty
<1>4. GluedOnlyAfterFull
  BY DEF Init, GluedOnlyAfterFull
<1>5. EachDatagramServedOnce
  BY DEF Init, EachDatagramServedOnce, Served
<1> QED
  BY <1>2, <1>3, <1>4, <1>5 DEF ListenInv

\* The number of the last datagram served is that of a request.
LEMMA ServedType == TypeOK => Served \in Nat
<1> SUFFICES ASSUME TypeOK PROVE Served \in Nat
  OBVIOUS
<1>1. CASE requests = << >>
  BY <1>1 DEF Served
<1>2. CASE requests # << >>
  <2>1. Len(requests) \in 1 .. Len(requests)
    BY <1>2, EmptySeq, LenProperties DEF TypeOK
  <2>2. requests[Len(requests)] \in Intervals
    BY <2>1, ElementOfSeq DEF TypeOK
  <2> QED
    BY <1>2, <2>2 DEF Served, Intervals
<1> QED
  BY <1>1, <1>2

\* A read takes the oldest datagram off the socket and appends it to what was read.
LEMMA ReadFacts ==
    ASSUME TypeOK, Read
    PROVE  /\ Head(socketq) \in Datagrams /\ socketq' \in Seq(Datagrams)
           /\ received' \in Seq(Datagrams) /\ Len(received') = Len(received) + 1
           /\ received'[Len(received) + 1] = Head(socketq)
           /\ \A n \in 1 .. Len(received) : received'[n] = received[n]
  BY DEF TypeOK, Read

\* A request begins after the last datagram that was not in dynbuffer.
LEMMA NewRequestFacts ==
    ASSUME TypeOK, LoopInv
    PROVE  /\ NewRequest \in Intervals
           /\ NewRequest.first = Len(received) + 1 - inHand
           /\ NewRequest.last = Len(received) + 1
  BY DEF TypeOK, LoopInv, NewRequest, Intervals

\* Every step is one of these.
LEMMA Steps ==
    ASSUME ListenInv, [Next]_vars
    PROVE  ReadFull \/ ReadLast \/ ReadEmpty \/ Quiet
  BY DEF Next, ListenStep, SelectReady, SelectTimeout, CheckShutdown, Stop, StartShutdown,
         Arrive, Quiet, vars

-----------------------------------------------------------------------------
(* One lemma for each part of ListenInv: a step preserves it.              *)

\* Every step keeps the types.
LEMMA TypeStep == ListenInv /\ [Next]_vars => TypeOK'
<1> SUFFICES ASSUME ListenInv, [Next]_vars PROVE TypeOK'
  OBVIOUS
<1> USE DatagramAssumption DEF ListenInv
<1>1. CASE UNCHANGED vars
  BY <1>1 DEF vars, TypeOK
<1>2. CASE Next
  <2>1. mRequestMask' = mRequestMask
    BY <1>2 DEF Next
  <2>2. CASE SelectReady \/ SelectTimeout \/ CheckShutdown \/ StartShutdown
    BY <2>1, <2>2 DEF SelectReady, SelectTimeout, CheckShutdown, StartShutdown, TypeOK
  <2>3. CASE Stop
    BY <2>1, <2>3, EmptySeq DEF Stop, TypeOK
  <2>4. ASSUME NEW d \in Datagrams, Arrive(d) PROVE TypeOK'
    BY <2>1, <2>4 DEF Arrive, TypeOK
  <2>5. CASE ReadFull
    <3>1. Read
      BY <2>5 DEF ReadFull
    <3> QED
      BY <2>1, <2>5, <3>1, ReadFacts DEF ReadFull, TypeOK
  <2>6. CASE ReadLast
    <3>1. Read
      BY <2>6 DEF ReadLast
    <3>2. requests' \in Seq(Intervals)
      <4>1. Append(requests, NewRequest) \in Seq(Intervals)
        BY NewRequestFacts, AppendProperties DEF TypeOK
      <4> QED
        BY <2>6, <4>1 DEF ReadLast, TypeOK
    <3>3. mShutdownStatus' \in BOOLEAN
      <4>1. CASE UNCHANGED mShutdownStatus
        BY <4>1 DEF TypeOK
      <4>2. CASE mShutdownStatus' = (mShutdownStatus \/ received'[NewRequest.first].shutdown)
        <5>1. (mShutdownStatus \/ received'[NewRequest.first].shutdown) \in BOOLEAN
          OBVIOUS
        <5> QED
          BY <4>2, <5>1
      <4> QED
        BY <2>6, <4>1, <4>2 DEF ReadLast
    <3> QED
      BY <2>1, <2>6, <3>1, <3>2, <3>3, ReadFacts DEF ReadLast, TypeOK
  <2>7. CASE ReadEmpty
    <3>1. Read
      BY <2>7 DEF ReadEmpty
    <3> QED
      BY <2>1, <2>7, <3>1, ReadFacts DEF ReadEmpty, TypeOK
  <2> QED
    BY <1>2, <2>2, <2>3, <2>4, <2>5, <2>6, <2>7 DEF Next, ListenStep
<1> QED
  BY <1>1, <1>2

\* What is in dynbuffer are the last datagrams read, and they filled the buffer.
LEMMA LoopStep == ListenInv /\ [Next]_vars => LoopInv'
<1> SUFFICES ASSUME ListenInv, [Next]_vars PROVE LoopInv'
  OBVIOUS
<1> USE DatagramAssumption DEF ListenInv
<1>1. CASE UNCHANGED vars
  BY <1>1 DEF vars, LoopInv, DeafOnlyAfterEmpty
<1>2. CASE Next
  <2>1. CASE SelectReady \/ SelectTimeout \/ CheckShutdown \/ StartShutdown
    BY <2>1 DEF SelectReady, SelectTimeout, CheckShutdown, StartShutdown, TypeOK, LoopInv,
                DeafOnlyAfterEmpty
  <2>2. CASE Stop
    BY <2>2 DEF Stop, TypeOK, LoopInv, DeafOnlyAfterEmpty
  <2>3. ASSUME NEW d \in Datagrams, Arrive(d) PROVE LoopInv'
    <3>1. Append(socketq, d) # << >>
      BY AppendProperties DEF TypeOK
    <3> QED
      BY <2>3, <3>1 DEF Arrive, LoopInv, DeafOnlyAfterEmpty
  <2>4. CASE ReadFull
    <3>1. Read
      BY <2>4 DEF ReadFull
    <3> QED
      BY <2>4, <3>1, ReadFacts
         DEF Read, ReadFull, FillsBuffer, TypeOK, LoopInv, DeafOnlyAfterEmpty
  <2>5. CASE ReadLast
    <3>1. Read
      BY <2>5 DEF ReadLast
    <3> QED
      BY <2>5, <3>1, ReadFacts DEF Read, ReadLast, TypeOK, LoopInv, DeafOnlyAfterEmpty
  <2>6. CASE ReadEmpty
    <3>1. Read
      BY <2>6 DEF ReadEmpty
    <3> QED
      <4>1. received' # << >> /\ received'[Len(received')].len = 0
        BY <2>6, <3>1, ReadFacts, EmptySeq, LenProperties DEF ReadEmpty, TypeOK
      <4>2. inHand' = 0 /\ Len(received') \in Nat /\ lpc' # "read" /\ watched' = FALSE
        BY <2>6, <3>1, ReadFacts, LenProperties DEF ReadEmpty
      <4> QED
        BY <4>1, <4>2 DEF LoopInv, DeafOnlyAfterEmpty
  <2> QED
    BY <1>2, <2>1, <2>2, <2>3, <2>4, <2>5, <2>6 DEF Next, ListenStep
<1> QED
  BY <1>1, <1>2

\* A request is what was in dynbuffer and the datagram that ends the loop.
LEMMA GlueStep == ListenInv /\ [Next]_vars => GluedOnlyAfterFull'
<1> SUFFICES ASSUME ListenInv, [Next]_vars PROVE GluedOnlyAfterFull'
  OBVIOUS
<1> USE DatagramAssumption DEF ListenInv
<1>1. CASE Quiet
  BY <1>1 DEF Quiet, GluedOnlyAfterFull
<1>2. ASSUME Read PROVE \A k \in 1 .. Len(requests) :
        LET r == requests[k]
        IN  /\ r.first \in 1 .. r.last
            /\ r.last \in 1 .. Len(received')
            /\ \A n \in r.first .. r.last : received'[n].len = BufferLen <=> n < r.last
            /\ received'[r.first].len > 0
  <2> SUFFICES ASSUME NEW k \in 1 .. Len(requests)
               PROVE  LET r == requests[k]
                      IN  /\ r.first \in 1 .. r.last
                          /\ r.last \in 1 .. Len(received')
                          /\ \A n \in r.first .. r.last :
                               received'[n].len = BufferLen <=> n < r.last
                          /\ received'[r.first].len > 0
    OBVIOUS
  <2>1. requests[k] \in Intervals
    BY ElementOfSeq DEF TypeOK
  <2>2. requests[k].first \in Nat /\ requests[k].last \in Nat /\ Len(received) \in Nat
    BY <2>1, LenProperties DEF Intervals, TypeOK
  <2>3. \A n \in requests[k].first .. requests[k].last : received'[n] = received[n]
    <3>1. requests[k].first \in 1 .. requests[k].last /\ requests[k].last \in 1 .. Len(received)
      BY DEF GluedOnlyAfterFull
    <3>2. \A n \in requests[k].first .. requests[k].last : n \in 1 .. Len(received)
      BY <2>2, <3>1
    <3> QED
      BY <1>2, <3>2, ReadFacts
  <2>4. /\ requests[k].first \in 1 .. requests[k].last
        /\ requests[k].last \in 1 .. Len(received)
        /\ \A n \in requests[k].first .. requests[k].last :
             received[n].len = BufferLen <=> n < requests[k].last
        /\ received[requests[k].first].len > 0
    BY DEF GluedOnlyAfterFull
  <2>5. requests[k].last \in 1 .. Len(received') /\ requests[k].first \in 1 .. Len(received)
    BY <1>2, <2>2, <2>4, ReadFacts
  <2>6. received'[requests[k].first].len > 0
    BY <1>2, <2>4, <2>5, ReadFacts
  <2> QED
    BY <2>3, <2>4, <2>5, <2>6
<1>3. CASE ReadFull \/ ReadEmpty
  BY <1>2, <1>3 DEF ReadFull, ReadEmpty, GluedOnlyAfterFull
<1>4. CASE ReadLast
  <2>1. Read
    BY <1>4 DEF ReadLast
  <2>2. CASE UNCHANGED requests
    BY <1>2, <2>1, <2>2 DEF GluedOnlyAfterFull
  <2>3. CASE requests' = Append(requests, NewRequest)
    <3>1. \A n \in NewRequest.first .. NewRequest.last :
            received'[n].len = BufferLen <=> n < NewRequest.last
      <4> SUFFICES ASSUME NEW n \in NewRequest.first .. NewRequest.last
                   PROVE  received'[n].len = BufferLen <=> n < NewRequest.last
        OBVIOUS
      <4>1. CASE n = Len(received) + 1
        BY <1>4, <2>1, <4>1, ReadFacts, NewRequestFacts DEF ReadLast, FillsBuffer
      <4>2. CASE n # Len(received) + 1
        <5>1. n \in Len(received) + 1 - inHand .. Len(received) /\ n \in 1 .. Len(received)
          BY <4>2, NewRequestFacts DEF LoopInv, TypeOK
        <5> QED
          BY <2>1, <5>1, ReadFacts, NewRequestFacts DEF LoopInv
      <4> QED
        BY <4>1, <4>2
    <3>2. received'[NewRequest.first].len > 0
      <4>1. CASE inHand = 0
        <5>1. NewRequest.first = Len(received) + 1 /\ received'[Len(received) + 1].len > 0
          BY <1>4, <2>1, <4>1, ReadFacts, NewRequestFacts DEF ReadLast, TypeOK
        <5> QED
          BY <5>1
      <4>2. CASE inHand > 0
        <5>1. /\ NewRequest.first \in NewRequest.first .. NewRequest.last
              /\ NewRequest.first < NewRequest.last
          BY <4>2, NewRequestFacts DEF LoopInv, TypeOK
        <5> QED
          BY <3>1, <5>1
      <4> QED
        BY <4>1, <4>2 DEF TypeOK
    <3>3. /\ NewRequest.first \in 1 .. NewRequest.last
          /\ NewRequest.last \in 1 .. Len(received')
      BY <2>1, ReadFacts, NewRequestFacts DEF LoopInv, TypeOK
    <3>4. /\ Len(requests') = Len(requests) + 1
          /\ \A k \in 1 .. Len(requests) : requests'[k] = requests[k]
          /\ requests'[Len(requests) + 1] = NewRequest
      BY <2>3 DEF TypeOK
    <3> QED
      <4> SUFFICES ASSUME NEW k \in 1 .. Len(requests')
                   PROVE  /\ requests'[k].first \in 1 .. requests'[k].last
                          /\ requests'[k].last \in 1 .. Len(received')
                          /\ \A n \in requests'[k].first .. requests'[k].last :
                               received'[n].len = BufferLen <=> n < requests'[k].last
                          /\ received'[requests'[k].first].len > 0
        BY DEF GluedOnlyAfterFull
      <4>1. CASE k = Len(requests) + 1
        BY <3>1, <3>2, <3>3, <3>4, <4>1
      <4>2. CASE k # Len(requests) + 1
        <5>1. k \in 1 .. Len(requests) /\ requests'[k] = requests[k]
          BY <3>4, <4>2, LenProperties DEF TypeOK
        <5> QED
          BY <1>2, <2>1, <5>1
      <4> QED
        BY <4>1, <4>2
  <2> QED
    BY <1>4, <2>2, <2>3 DEF ReadLast
<1> QED
  BY <1>1, <1>3, <1>4, Steps

\* A request begins where the one before has ended.
LEMMA ServeStep == ListenInv /\ [Next]_vars => EachDatagramServedOnce'
<1> SUFFICES ASSUME ListenInv, [Next]_vars, "Datagram" \in mRequestMask'
             PROVE  EachDatagramServedOnce'
  BY DEF EachDatagramServedOnce
<1> USE DatagramAssumption DEF ListenInv
<1>1. mRequestMask' = mRequestMask
  BY DEF Next, vars
<1>2. EachDatagramServedOnce /\ "Datagram" \in mRequestMask
  BY <1>1
<1>3. CASE Quiet
  <2>1. CASE watched' = watched
    BY <1>3, <2>1 DEF Quiet, EachDatagramServedOnce, Served
  <2>2. CASE Stop
    BY <1>3, <2>2 DEF Stop, Quiet, EachDatagramServedOnce, Served
  <2>3. watched' = watched \/ Stop \/ ReadEmpty
    BY DEF Next, ListenStep, SelectReady, SelectTimeout, CheckShutdown, ReadFull, ReadLast,
           StartShutdown, Arrive, vars
  <2>4. ~ReadEmpty
    <3> SUFFICES ASSUME ReadEmpty PROVE FALSE
      OBVIOUS
    <3>1. Read
      BY DEF ReadEmpty
    <3> QED
      BY <1>3, <3>1, ReadFacts DEF Quiet, TypeOK
  <2> QED
    BY <2>1, <2>2, <2>3, <2>4
<1>4. ASSUME Read PROVE Served + inHand = Len(received) /\ Served \in Nat
  <2>1. watched
    BY <1>4 DEF Read, LoopInv
  <2> QED
    BY <1>2, <2>1, ServedType DEF EachDatagramServedOnce
<1>5. CASE ReadFull
  <2>1. Read
    BY <1>5 DEF ReadFull
  <2>2. Served' = Served
    BY <1>5 DEF ReadFull, Served
  <2>3. Served' + inHand' = Len(received')
    BY <1>4, <1>5, <2>1, <2>2, ReadFacts DEF ReadFull, TypeOK
  <2> QED
    BY <1>2, <1>5, <2>3 DEF ReadFull, EachDatagramServedOnce
<1>6. CASE ReadEmpty
  <2>1. Read
    BY <1>6 DEF ReadEmpty
  <2>2. Served' = Served
    BY <1>6 DEF ReadEmpty, Served
  <2>3. Served' + 1 = Len(received') /\ received'[Len(received')].len = 0
    BY <1>4, <1>6, <2>1, <2>2, ReadFacts DEF ReadEmpty, TypeOK
  <2> QED
    BY <1>2, <1>6, <2>3 DEF ReadEmpty, EachDatagramServedOnce
<1>7. CASE ReadLast
  <2>1. Read /\ requests' = Append(requests, NewRequest) /\ inHand' = 0
    BY <1>2, <1>7 DEF ReadLast
  <2>2. /\ Len(requests') = Len(requests) + 1
        /\ \A k \in 1 .. Len(requests) : requests'[k] = requests[k]
        /\ requests'[Len(requests) + 1] = NewRequest
    BY <2>1 DEF TypeOK
  <2>3. Served' = NewRequest.last
    BY <2>2 DEF Served, TypeOK
  <2>4. Served' + inHand' = Len(received')
    BY <2>1, <2>3, ReadFacts, NewRequestFacts DEF TypeOK
  <2>5. NewRequest.first = IF Len(requests) = 0 THEN 1 ELSE requests[Len(requests)].last + 1
    <3>1. Len(requests) = 0 <=> requests = << >>
      BY EmptySeq DEF TypeOK
    <3>2. NewRequest.first = Served + 1
      BY <1>4, <2>1, NewRequestFacts, LenProperties DEF TypeOK
    <3> QED
      BY <3>1, <3>2 DEF Served
  <2> QED
    <3>1. ASSUME NEW k \in 1 .. Len(requests')
          PROVE  requests'[k].first = IF k = 1 THEN 1 ELSE requests'[k - 1].last + 1
      <4>1. CASE k = Len(requests) + 1
        <5>1. k - 1 = Len(requests) /\ (k # 1 => k - 1 \in 1 .. Len(requests))
          BY <4>1, LenProperties DEF TypeOK
        <5> QED
          BY <2>2, <2>5, <4>1, <5>1
      <4>2. CASE k # Len(requests) + 1
        <5>1. k \in 1 .. Len(requests) /\ (k # 1 => k - 1 \in 1 .. Len(requests))
          BY <2>2, <4>2, LenProperties DEF TypeOK
        <5> QED
          BY <1>2, <2>2, <5>1 DEF EachDatagramServedOnce
      <4> QED
        BY <4>1, <4>2
    <3> QED
      BY <2>4, <3>1 DEF EachDatagramServedOnce
<1> QED
  BY <1>3, <1>5, <1>6, <1>7, Steps

-----------------------------------------------------------------------------
(* The theorems.                                                           *)

\* ListenInv holds in every reachable state.
THEOREM ListenCorrect == Spec => []ListenInv
<1>1. ListenInv /\ [Next]_vars => ListenInv'
  BY TypeStep, LoopStep, GlueStep, ServeStep DEF ListenInv
<1> QED
  BY InitInv, <1>1, PTL DEF Spec

\* The variables of the UDP server keep their types.
THEOREM DatagramTypes == Spec => []TypeOK
<1>1. ListenInv => TypeOK
  BY DEF ListenInv
<1> QED
  BY ListenCorrect, <1>1, PTL

\* Each datagram that is read is given to the handler once, in the order of arrival.
THEOREM DatagramsServedOnce == Spec => []EachDatagramServedOnce
<1>1. ListenInv => EachDatagramServedOnce
  BY DEF ListenInv
<1> QED
  BY ListenCorrect, <1>1, PTL

\* Only a datagram that fills the read buffer is glued to the next one.
THEOREM GlueIsExplained == Spec => []GluedOnlyAfterFull
<1>1. ListenInv => GluedOnlyAfterFull
  BY DEF ListenInv
<1> QED
  BY ListenCorrect, <1>1, PTL

\* The listener hangs in read only after a datagram that fills the buffer.
THEOREM BlockIsExplained == Spec => []BlocksOnlyAfterFull
<1>1. ListenInv => BlocksOnlyAfterFull
  BY DEF ListenInv, LoopInv, TypeOK, BlocksOnlyAfterFull
<1> QED
  BY ListenCorrect, <1>1, PTL

\* Nothing but an empty datagram makes the server drop its socket.
THEOREM DeafnessIsExplained == Spec => []DeafOnlyAfterEmpty
<1>1. ListenInv => DeafOnlyAfterEmpty
  BY DEF ListenInv, LoopInv
<1> QED
  BY ListenCorrect, <1>1, PTL

\* Once it has dropped its socket the server reads and handles nothing any more.
THEOREM DeafnessIsFinal == Spec => DeafForEver
<1> DEFINE StaysDeaf == ~watched => UNCHANGED <<received, requests, watched>>
<1>1. ListenInv /\ [Next]_vars => [StaysDeaf]_vars
  <2> SUFFICES ASSUME ListenInv, Next, ~watched
               PROVE  UNCHANGED <<received, requests, watched>>
    OBVIOUS
  <2>1. lpc # "read" /\ watched \in BOOLEAN
    BY DEF ListenInv, LoopInv, TypeOK
  <2> QED
    BY <2>1 DEF Next, ListenStep, SelectReady, SelectTimeout, CheckShutdown, Stop, Read,
                ReadFull, ReadLast, ReadEmpty, StartShutdown, Arrive
<1> QED
  BY ListenCorrect, <1>1, PTL DEF Spec, DeafForEver
=============================================================================
