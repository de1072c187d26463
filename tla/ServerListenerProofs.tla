------------------------ MODULE ServerListenerProofs ------------------------
(***************************************************************************)
(* Proofs about ServerListener: its types, with a pool of any size or     *)
(* none, and what it keeps without a pool, as in msrvsample_listener.      *)
(* Array::remove can replace a descriptor by uninitialised memory, Garbage *)
(* in the model, in arrays of four items and more (ArrayProofs): the types *)
(* allow for it, and all the rest, which is proved of any number of        *)
(* descriptors, holds in the states in which it has not happened.          *)
(***************************************************************************)
EXTENDS ServerListener, ArrayProofs, FiniteSetTheorems, TLAPS

\* The server of msrvsample_listener, whose mask has ConnectionLost in it.
Inline == WorkerCount = 0 /\ "ConnectionLost" \in RequestMask

-----------------------------------------------------------------------------
(* mDescriptors.                                                           *)

\* A set of positions or descriptors has a least member: the well-foundedness of strict
\* inclusion, applied to the numbers before each member.
LEMMA LeastMember ==
  ASSUME NEW n \in Nat, NEW B \in SUBSET (0 .. n), B # {}
  PROVE  \E k \in B : \A j \in B : k <= j
<1> DEFINE Before(k) == 0 .. (k - 1)
           F == {Before(k) : k \in B}
<1>1. F \subseteq FiniteSubsetsOf(0 .. n) /\ F # {}
  <2>1. \A k \in B : Before(k) \in SUBSET (0 .. n) /\ IsFiniteSet(Before(k))
    BY FS_Interval
  <2> QED
    BY <2>1 DEF FiniteSubsetsOf
<1>2. PICK X \in F : \A Y \in F : <<Y, X>> \notin StrictSubsetOrdering(0 .. n)
  <2> HIDE DEF F
  <2> QED
    BY <1>1, WFMin, FS_StrictSubsetOrderingWellFounded
<1>3. PICK k \in B : X = Before(k)
  OBVIOUS
<1>4. ASSUME NEW j \in B, ~(k <= j) PROVE FALSE
  <2>1. j \in Before(k) /\ j \notin Before(j) /\ Before(j) \subseteq Before(k)
    BY <1>4
  <2>2. Before(j) \in SUBSET (0 .. n) /\ Before(k) \in SUBSET (0 .. n)
    OBVIOUS
  <2>3. <<Before(j), X>> \in StrictSubsetOrdering(0 .. n)
    <3> HIDE DEF Before
    <3> QED
      BY <2>1, <2>2, <1>3 DEF StrictSubsetOrdering
  <2> QED
    BY <2>3, <1>2
<1> QED
  BY <1>4

\* No descriptor is watched twice.
Distinct ==
    \A j, k \in 1 .. Len(mDescriptors) : mDescriptors[j].fd = mDescriptors[k].fd => j = k

\* What removeDescriptor does to the array.
LEMMA RemoveCases ==
  ASSUME mDescriptors \in Seq(Descriptors), NEW fd, RemoveDescriptor(fd)
  PROVE  \/ /\ UNCHANGED arrayVars
            /\ \A j \in 1 .. Len(mDescriptors) : mDescriptors[j].fd # fd
         \/ \E p \in 1 .. Len(mDescriptors) :
              /\ mDescriptors[p].fd = fd
              /\ mDescriptors' = ArrayRemove(mDescriptors, p - 1, Garbage)
              /\ DescriptorsBecome(mDescriptors')
<1> DEFINE found == {j \in 1 .. Len(mDescriptors) : mDescriptors[j].fd = fd}
           first == CHOOSE j \in found : \A other \in found : j <= other
<1>1. CASE found = {}
  BY <1>1 DEF RemoveDescriptor
<1>2. CASE found # {}
  <2>1. Len(mDescriptors) \in Nat /\ found \in SUBSET (0 .. Len(mDescriptors))
    OBVIOUS
  <2>2. \E k \in found : \A j \in found : k <= j
    <3> HIDE DEF found
    <3> QED
      BY <2>1, <1>2, LeastMember
  <2>3. first \in found
    BY <2>2
  <2>4. DescriptorsBecome(ArrayRemove(mDescriptors, first - 1, Garbage))
    BY <1>2 DEF RemoveDescriptor
  <2> QED
    BY <2>3, <2>4 DEF DescriptorsBecome
<1> QED
  BY <1>1, <1>2

\* The array stays a sequence of descriptors, some of which may be Garbage.
LEMMA RemoveTypes ==
  ASSUME mDescriptors \in Seq(Descriptors), NEW fd, RemoveDescriptor(fd)
  PROVE  mDescriptors' \in Seq(Descriptors)
<1>1. CASE UNCHANGED arrayVars
  BY <1>1 DEF arrayVars
<1>2. ASSUME NEW p \in 1 .. Len(mDescriptors),
             mDescriptors' = ArrayRemove(mDescriptors, p - 1, Garbage)
      PROVE  mDescriptors' \in Seq(Descriptors)
  <2>1. Garbage \in Descriptors
    BY DEF Descriptors
  <2>2. Len(mDescriptors) - 1 \in Nat
    BY <1>2
  <2>3. \A j \in 1 .. Len(mDescriptors) - 1 : mDescriptors'[j] \in Descriptors
    <3> SUFFICES ASSUME NEW j \in 1 .. Len(mDescriptors) - 1
                 PROVE  mDescriptors'[j] \in Descriptors
      OBVIOUS
    <3>1. mDescriptors[j] \in Descriptors /\ mDescriptors[j + 1] \in Descriptors
      OBVIOUS
    <3> QED
      BY <1>2, <2>1, <3>1 DEF ArrayRemove
  <2> DEFINE n == Len(mDescriptors) - 1
  <2>4. mDescriptors' = [j \in 1 .. n |-> mDescriptors'[j]]
    BY <1>2 DEF ArrayRemove
  <2>5. \A j \in 1 .. n : mDescriptors'[j] \in Descriptors
    BY <2>3
  <2> HIDE DEF n
  <2> QED
    BY <2>2, <2>4, <2>5 DEF n
<1> QED
  BY <1>1, <1>2, RemoveCases

\* What Array::remove has lost stays lost.
LEMMA RemoveKeepsGarbage ==
  ASSUME mDescriptors \in Seq(Descriptors), NEW fd \in Fds, RemoveDescriptor(fd),
         Garbage \in Watched
  PROVE  Garbage \in Watched'
<1>1. CASE UNCHANGED arrayVars
  BY <1>1 DEF arrayVars, Watched
<1>2. ASSUME NEW p \in 1 .. Len(mDescriptors), mDescriptors[p].fd = fd,
             mDescriptors' = ArrayRemove(mDescriptors, p - 1, Garbage)
      PROVE  Garbage \in Watched'
  <2>1. PICK g \in 1 .. Len(mDescriptors) : mDescriptors[g] = Garbage
    BY DEF Watched
  <2>2. g # p
    BY <1>2, <2>1, SocketsAssumption DEF Garbage, Fds
  <2> DEFINE n == Len(mDescriptors) - 1
  <2>3. /\ n \in Nat /\ p \in 1 .. n + 1 /\ g \in 1 .. n + 1 /\ Len(mDescriptors) = n + 1
    BY <1>2
  <2>4. Len(mDescriptors') = n /\ DOMAIN mDescriptors' = 1 .. n
    BY <1>2, <2>3, RemoveTypes DEF ArrayRemove
  <2>5. \A j \in 1 .. n : mDescriptors'[j] =
           IF j < p THEN mDescriptors[j]
           ELSE IF CopiesUpperPart(n + 1, p - 1) THEN mDescriptors[j + 1] ELSE Garbage
    BY <1>2, <2>3 DEF ArrayRemove
  <2>6. \E j \in 1 .. n : mDescriptors'[j] = Garbage
    <3> HIDE DEF n
    <3>1. CASE g < p
      BY <2>1, <2>3, <2>5, <3>1
    <3>2. CASE p < g /\ CopiesUpperPart(n + 1, p - 1)
      <4>1. g - 1 \in 1 .. n /\ ~(g - 1 < p) /\ (g - 1) + 1 = g
        BY <2>3, <3>2
      <4> QED
        BY <2>1, <2>5, <3>2, <4>1
    <3>3. CASE p < g /\ ~CopiesUpperPart(n + 1, p - 1)
      <4>1. n \in 1 .. n /\ ~(n < p)
        BY <2>3, <3>3
      <4> QED
        BY <2>5, <3>3, <4>1
    <3> QED
      BY <2>2, <2>3, <3>1, <3>2, <3>3
  <2> QED
    BY <2>4, <2>6 DEF Watched
<1> QED
  BY <1>1, <1>2, RemoveCases

\* If it loses nothing, the one item with that descriptor goes and the others stay.
LEMMA RemoveExact ==
  ASSUME mDescriptors \in Seq(Descriptors), Distinct, NEW fd \in Fds, RemoveDescriptor(fd),
         Garbage \notin Watched'
  PROVE  Distinct' /\ Watched' = {d \in Watched : d.fd # fd}
<1>1. CASE UNCHANGED arrayVars /\ \A j \in 1 .. Len(mDescriptors) : mDescriptors[j].fd # fd
  BY <1>1 DEF arrayVars, Watched, Distinct
<1>2. ASSUME NEW p \in 1 .. Len(mDescriptors), mDescriptors[p].fd = fd,
             mDescriptors' = ArrayRemove(mDescriptors, p - 1, Garbage)
      PROVE  Distinct' /\ Watched' = {d \in Watched : d.fd # fd}
  <2> DEFINE n == Len(mDescriptors) - 1
  <2>1. n \in Nat /\ p \in 1 .. n + 1 /\ Len(mDescriptors) = n + 1
    BY <1>2
  <2>2. Len(mDescriptors') = n
    BY <1>2, <2>1, RemoveTypes DEF ArrayRemove
  <2>3. \A j \in 1 .. n : mDescriptors'[j] =
           IF j < p THEN mDescriptors[j]
           ELSE IF CopiesUpperPart(n + 1, p - 1) THEN mDescriptors[j + 1] ELSE Garbage
    BY <1>2, <2>1 DEF ArrayRemove
  <2> HIDE DEF n
  <2>4. CopiesUpperPart(n + 1, p - 1) \/ p = n + 1
    <3> SUFFICES ASSUME ~CopiesUpperPart(n + 1, p - 1), p # n + 1
                 PROVE  FALSE
      OBVIOUS
    <3>1. n \in 1 .. n /\ ~(n < p)
      BY <2>1, p # n + 1
    <3>2. mDescriptors'[n] = Garbage
      BY <2>3, <3>1
    <3> QED
      BY <2>2, <3>1, <3>2 DEF Watched
  <2>5. \A j \in 1 .. n : mDescriptors'[j] = IF j < p THEN mDescriptors[j] ELSE mDescriptors[j + 1]
    BY <2>1, <2>3, <2>4
  <2>6. Watched = {mDescriptors[j] : j \in 1 .. n + 1} /\ Watched' = {mDescriptors'[j] : j \in 1 .. n}
    BY <2>1, <2>2 DEF Watched
  <2>7. \A j, k \in 1 .. n + 1 : mDescriptors[j].fd = mDescriptors[k].fd => j = k
    BY <2>1 DEF Distinct
  <2>8. Distinct'
    <3> SUFFICES ASSUME NEW j \in 1 .. n, NEW k \in 1 .. n,
                        mDescriptors'[j].fd = mDescriptors'[k].fd
                 PROVE  j = k
      BY <2>2 DEF Distinct
    <3>1. j + 1 \in 1 .. n + 1 /\ k + 1 \in 1 .. n + 1 /\ j \in 1 .. n + 1 /\ k \in 1 .. n + 1
      BY <2>1
    <3> QED
      BY <2>1, <2>5, <2>7, <3>1
  <2>9. ASSUME NEW d \in Watched' PROVE d \in Watched /\ d.fd # fd
    <3>1. PICK j \in 1 .. n : d = mDescriptors'[j]
      BY <2>6
    <3>2. j + 1 \in 1 .. n + 1 /\ j \in 1 .. n + 1
      BY <2>1
    <3>3. \E k \in 1 .. n + 1 : d = mDescriptors[k] /\ k # p
      BY <2>1, <2>5, <3>1, <3>2
    <3> QED
      BY <1>2, <2>1, <2>6, <2>7, <3>3
  <2>10. ASSUME NEW d \in Watched, d.fd # fd PROVE d \in Watched'
    <3>1. PICK k \in 1 .. n + 1 : d = mDescriptors[k]
      BY <2>6
    <3>2. k # p
      BY <1>2, <2>10, <3>1
    <3>3. CASE k < p
      BY <2>1, <2>5, <2>6, <3>1, <3>3
    <3>4. CASE k > p
      <4>1. k - 1 \in 1 .. n /\ ~(k - 1 < p) /\ (k - 1) + 1 = k
        BY <2>1, <3>4
      <4>2. mDescriptors'[k - 1] = mDescriptors[k]
        BY <2>5, <4>1
      <4> QED
        BY <2>6, <3>1, <4>1, <4>2
    <3> QED
      BY <2>1, <3>2, <3>3, <3>4
  <2> QED
    BY <2>8, <2>9, <2>10
<1> QED
  BY <1>1, <1>2, RemoveCases

-----------------------------------------------------------------------------
(* The inductive invariant.  Thread 0 is the only one.                     *)

NoGarbage == Garbage \notin Watched
Conns     == {d \in Watched : d.fd # ServerFd}

ConnTypes == {"NewConnection", "StreamData", "ConnectionLost", "Closing"}
InClose   == {"close", "remove", "shut", "forget", "report"}
Closing   == lpc \in {"closing", "advance"} \/ (lpc = "handler" /\ req[0].type = "Closing")

\* What holds of the descriptors also when mDescriptors has Garbage in it.
BaseInv ==
    /\ mDescriptors \in Seq(Descriptors)
    /\ file \in [Fds -> Files]
    /\ mSocket \in [Clients -> Fds]
    /\ fdset \subseteq Fds
    /\ pos \in Nat \ {0}
    /\ event \in Descriptors /\ event.fd \in Fds

\* The handler runs while the listener waits for it, on a request it can handle.
PhaseInv ==
    /\ lpc = "handler" <=> hpc[0] \notin {"idle", "undefined"}
    /\ lpc = "undefined" <=> hpc[0] = "undefined"
    /\ queue = << >>
    /\ hpc[0] = "begin" => req[0].type \in RequestTypes
    /\ hpc[0] = "relay" => req[0].type \in {"StreamData", "Shutdown"}
    /\ hpc[0] \in InClose => req[0].type \in ConnTypes \ {"NewConnection"}
    /\ hpc[0] = "end" => req[0].type # "none"
    /\ lpc = "handler" /\ req[0].type \in ConnTypes => req[0].client \in Clients

\* A client's socket is the one its Connection knows, but between ::close and mSocket = 0.
TableInv ==
    /\ \A fd \in Fds : file[fd] = "stdin" <=> fd = 0
    /\ \A fd \in Fds : file[fd] = "server" <=> fd = ServerFd /\ lpc # "stopped"
    /\ \A fd \in Fds : file[fd] \in Clients =>
         peer[file[fd]].at = "accepted" /\ mSocket[file[fd]] = fd /\ object[file[fd]] = "live"
    /\ \A c \in Clients : peer[c].at = "accepted" => file[mSocket[c]] = c
    /\ \A c \in Clients : mSocket[c] # 0 =>
         file[mSocket[c]] = c \/ (hpc[0] = "forget" /\ req[0].client = c)

\* A client's socket is watched, but between removeDescriptor and ::close.
ListInv ==
    /\ Distinct
    /\ \A d \in Watched : d.fd = ServerFd => d = ServerDesc
    /\ \A d \in Conns : d.fd \in Fds /\ d.client \in Clients /\ file[d.fd] = d.client
    /\ \A fd \in Fds : file[fd] \in Clients =>
         (\E d \in Watched : d.fd = fd) \/ (hpc[0] = "shut" /\ fd = mSocket[req[0].client])
    /\ lpc = "stopped" => Watched = {}

\* The event being handled; a lost connection is not watched when it is removed again.
EventInv ==
    /\ lpc = "read" => event \in Conns
    /\ lpc = "lost" => \A d \in Watched : d.fd # event.fd
    /\ lpc = "handler" /\ req[0].type = "ConnectionLost" =>
         /\ req[0].fd = event.fd
         /\ hpc[0] \in {"shut", "forget", "report", "end"} => \A d \in Watched : d.fd # event.fd

\* The request being handled, and the Connection being closed.
RequestInv ==
    /\ hpc[0] = "begin" /\ req[0].client \in Clients =>
         req[0].fd \in Fds /\ file[req[0].fd] = req[0].client
    /\ hpc[0] \in InClose => object[req[0].client] = "live"
    /\ hpc[0] \in {"close", "remove", "shut"} /\ req[0].type = "ConnectionLost" =>
         mSocket[req[0].client] = req[0].fd /\ mSocket[req[0].client] # 0
    /\ hpc[0] \in {"remove", "shut", "forget"} => mSocket[req[0].client] # 0
    /\ hpc[0] = "shut" => \A d \in Watched : d.fd # mSocket[req[0].client]
    /\ hpc[0] = "forget" => file[mSocket[req[0].client]] = "closed"
    /\ hpc[0] = "report" => mSocket[req[0].client] = 0

\* What an iterator has still to visit are live Connections; in shutdown, all that are
\* watched are among them.
IterInv ==
    /\ hpc[0] = "relay" \/ Closing =>
         /\ iter[0].at # 0
         /\ ~Exhausted(0) => iter[0].items[iter[0].at].fd # ServerFd
         /\ \A j \in 1 .. Len(iter[0].items) : iter[0].items[j].fd # ServerFd =>
              /\ iter[0].items[j].fd \in Fds /\ iter[0].items[j].client \in Clients
              /\ object[iter[0].items[j].client] = "live"
    /\ Closing /\ lpc # "closing" => ~Exhausted(0)
    /\ Closing /\ lpc = "handler" => req[0].client = iter[0].items[iter[0].at].client
    /\ Closing => \A d \in Conns : \E j \in 1 .. Len(iter[0].items) :
         /\ iter[0].items[j] = d /\ iter[0].at <= j
         /\ lpc = "advance" \/ hpc[0] \in {"shut", "forget", "report", "end"} => iter[0].at # j

SafeInv ==
    PhaseInv /\ TableInv /\ ListInv /\ EventInv /\ RequestInv /\ IterInv

-----------------------------------------------------------------------------
(* The steps.                                                              *)

\* The handler in the thread of the listener.
Handler ==
    \/ HandleSimple(0) \/ HandleShutdownCommand(0) \/ HandleQuitOrLost(0)
    \/ HandleBroadcast(0) \/ Relay(0) \/ RelayDone(0)
    \/ CloseTests(0) \/ CloseRemoves(0) \/ CloseShuts(0) \/ CloseForgets(0)
    \/ CloseReports(0) \/ Return(0) \/ Undefined(0)

\* Without a pool there is one thread.
LEMMA Steps ==
  ASSUME Inline, [Next]_vars
  PROVE  /\ Threads = {0} /\ Workers = {} /\ ~Pooled
         /\ ListenStep \/ StartShutdown \/ OutsideStep \/ Handler \/ UNCHANGED vars
BY DEF Inline, Threads, Workers, Pooled, Next, HandlerStep, Handler

\* With or without one, the handler runs in some thread.
LEMMA AnyStep ==
  ASSUME [Next]_vars
  PROVE  \/ ListenStep \/ StartShutdown \/ OutsideStep \/ UNCHANGED vars
         \/ \E t \in Threads : HandlerStep(t)
         \/ \E w \in Workers : TakeRequest(w)
BY DEF Next

\* The lowest free descriptor exists if one is free.
LEMMA LowestFreeFacts ==
  ASSUME FreeFds # {}
  PROVE  LowestFree \in Fds /\ file[LowestFree] = "closed"
<1>1. MaxFd \in Nat /\ FreeFds \in SUBSET (0 .. MaxFd)
  BY SocketsAssumption DEF FreeFds, Fds
<1>2. \E fd \in FreeFds : \A other \in FreeFds : fd <= other
  BY <1>1, LeastMember
<1>3. LowestFree \in FreeFds
  BY <1>2 DEF LowestFree
<1> QED
  BY <1>3 DEF FreeFds

\* A new connection at the end of the array.
LEMMA AddFacts ==
  ASSUME mDescriptors \in Seq(Descriptors), NEW d \in Descriptors,
         mDescriptors' = ArrayAdd(mDescriptors, d)
  PROVE  mDescriptors' \in Seq(Descriptors) /\ Watched' = Watched \cup {d}
<1>1. /\ mDescriptors' \in Seq(Descriptors) /\ Len(mDescriptors') = Len(mDescriptors) + 1
      /\ \A j \in 1 .. Len(mDescriptors) : mDescriptors'[j] = mDescriptors[j]
      /\ mDescriptors'[Len(mDescriptors) + 1] = d
  BY DEF ArrayAdd
<1> DEFINE n == Len(mDescriptors)
<1>2. n \in Nat /\ 1 .. n + 1 = (1 .. n) \cup {n + 1}
  OBVIOUS
<1>3. Watched' = {mDescriptors'[j] : j \in (1 .. n) \cup {n + 1}}
  BY <1>1, <1>2 DEF Watched
<1> QED
  BY <1>1, <1>2, <1>3 DEF Watched

\* The descriptor of a Connection that is used is one of the process.
LEMMA UsedSocket ==
  ASSUME BaseInv, NEW t \in Threads, hpc[t] \in InClose, UsesLive(t)
  PROVE  req[t].client \in Clients /\ mSocket[req[t].client] \in Fds
BY DEF BaseInv, InClose, UsesLive, Uses

\* BaseInv is preserved, and Garbage stays.
baseVars == <<mDescriptors, file, mSocket, fdset, pos, event>>

LEMMA BaseStep ==
  ASSUME BaseInv, [Next]_vars
  PROVE  BaseInv' /\ (Garbage \in Watched => Garbage \in Watched')
<1> USE DEF BaseInv
<1>1. CASE UNCHANGED baseVars
  BY <1>1 DEF baseVars, Watched
<1>2. CASE BuildSet
  <2>1. UNCHANGED <<mDescriptors, file, mSocket, pos, event>>
    BY <1>2 DEF BuildSet, socketVars, connVars, arrayVars
  <2>2. Garbage.fd \notin {mDescriptors[j].fd : j \in 1 .. Len(mDescriptors)}
          => {mDescriptors[j].fd : j \in 1 .. Len(mDescriptors)} \subseteq Fds
    BY DEF Descriptors, Garbage
  <2>3. fdset' \subseteq Fds
    BY <1>2, <2>2 DEF BuildSet
  <2> QED
    BY <2>1, <2>3 DEF Watched
<1>3. CASE SelectReady
  BY <1>3 DEF SelectReady, socketVars, connVars, arrayVars, Watched
<1>4. CASE StartScan
  BY <1>4 DEF StartScan, socketVars, connVars, arrayVars, Watched
<1>5. CASE ScanNext
  <2>1. UNCHANGED <<mDescriptors, file, mSocket, fdset>>
    BY <1>5 DEF ScanNext, socketVars, connVars, arrayVars
  <2>2. PICK j \in Changed : event' = mDescriptors[j] /\ pos' = j + 1
    BY <1>5 DEF ScanNext
  <2>3. j \in 1 .. Len(mDescriptors) /\ mDescriptors[j].fd \in fdset
    BY <2>2 DEF Changed
  <2> QED
    BY <2>1, <2>2, <2>3 DEF Watched
<1>6. CASE Accept
  <2>1. PICK c \in Backlog :
          /\ AcceptSocket(c)
          /\ mSocket' = [mSocket EXCEPT ![c] = LowestFree]
          /\ mDescriptors' = ArrayAdd(mDescriptors, [fd |-> LowestFree, client |-> c])
    BY <1>6 DEF Accept, DescriptorsBecome
  <2>2. c \in Clients /\ LowestFree \in Fds
    BY <1>6, LowestFreeFacts DEF Accept, Backlog
  <2>3. [fd |-> LowestFree, client |-> c] \in Descriptors
    BY <2>2 DEF Descriptors
  <2>4. mDescriptors' \in Seq(Descriptors) /\ Watched \subseteq Watched'
    BY <2>1, <2>3, AddFacts
  <2>5. file' \in [Fds -> Files] /\ mSocket' \in [Clients -> Fds]
    BY <2>1, <2>2 DEF AcceptSocket, Files
  <2> QED
    BY <1>6, <2>4, <2>5 DEF Accept, listenVars
<1>7. CASE RemoveLost
  <2>1. RemoveDescriptor(event.fd) /\ UNCHANGED <<file, mSocket, fdset, pos, event>>
    BY <1>7 DEF RemoveLost, socketVars, listenVars, connVars
  <2> QED
    BY <2>1, RemoveTypes, RemoveKeepsGarbage
<1>8. CASE CloseServer
  <2>1. RemoveDescriptor(ServerFd) /\ UNCHANGED <<mSocket, fdset, pos, event>>
    BY <1>8 DEF CloseServer, listenVars, connVars
  <2>2. file' \in [Fds -> Files]
    BY <1>8 DEF CloseServer, CloseAll, Files
  <2>3. ServerFd \in Fds
    BY SocketsAssumption DEF ServerFd, Fds
  <2> QED
    BY <2>1, <2>2, <2>3, RemoveTypes, RemoveKeepsGarbage
<1>9. ASSUME NEW t \in Threads, CloseRemoves(t)
      PROVE  BaseInv' /\ (Garbage \in Watched => Garbage \in Watched')
  <2>1. RemoveDescriptor(mSocket[req[t].client]) /\ UNCHANGED <<file, mSocket, fdset, pos, event>>
    BY <1>9 DEF CloseRemoves, socketVars, listenVars, connVars
  <2>2. mSocket[req[t].client] \in Fds
    BY <1>9, UsedSocket DEF CloseRemoves, InClose
  <2> QED
    BY <2>1, <2>2, RemoveTypes, RemoveKeepsGarbage
<1>10. ASSUME NEW t \in Threads, CloseShuts(t)
       PROVE  BaseInv' /\ (Garbage \in Watched => Garbage \in Watched')
  <2>1. file' \in [Fds -> Files]
    BY <1>10 DEF CloseShuts, CloseFd, Files
  <2> QED
    BY <1>10, <2>1 DEF CloseShuts, listenVars, arrayVars, Watched
<1>11. ASSUME NEW t \in Threads, CloseForgets(t)
       PROVE  BaseInv' /\ (Garbage \in Watched => Garbage \in Watched')
  <2>1. 0 \in Fds
    BY SocketsAssumption DEF Fds
  <2>2. mSocket' \in [Clients -> Fds]
    BY <1>11, <2>1 DEF CloseForgets
  <2> QED
    BY <1>11, <2>2 DEF CloseForgets, socketVars, listenVars, arrayVars, Watched
<1>12. ListenStep => UNCHANGED baseVars \/ BuildSet \/ SelectReady \/ StartScan \/ ScanNext
                       \/ Accept \/ RemoveLost \/ CloseServer
  BY DEF ListenStep, SelectFails, SelectTimeout, EndScan, CheckShutdown, AcceptFails,
         ReadFullBlock, ReadRest, ReadEnd, ReadReset, ReadClosed, TakeBytes, TakeReset, Stop,
         Iterate, CloseNext, Advance, baseVars, socketVars, listenVars, connVars, arrayVars
<1>13. ASSUME NEW t \in Threads, HandlerStep(t)
       PROVE  UNCHANGED baseVars \/ CloseRemoves(t) \/ CloseShuts(t) \/ CloseForgets(t)
  BY <1>13 DEF HandlerStep, HandleSimple, HandleShutdownCommand, HandleQuitOrLost,
         HandleBroadcast, Relay, RelayDone, CloseTests, CloseReports, Return, Undefined, baseVars,
         socketVars, listenVars, connVars, arrayVars
<1>14. StartShutdown \/ OutsideStep \/ UNCHANGED vars => UNCHANGED baseVars
  BY DEF StartShutdown, OutsideStep, ClientStep, Connect, HangUp, Crash, Send, vars, baseVars,
         socketVars, listenVars, connVars, arrayVars
<1>15. ASSUME NEW w \in Workers, TakeRequest(w) PROVE UNCHANGED baseVars
  BY <1>15 DEF TakeRequest, baseVars, socketVars, listenVars, connVars, arrayVars
<1> QED
  BY <1>1, <1>2, <1>3, <1>4, <1>5, <1>6, <1>7, <1>8, <1>9, <1>10, <1>11, <1>12, <1>13, <1>14,
     <1>15, AnyStep

-----------------------------------------------------------------------------
(* The types, with or without a pool and whatever Array::remove loses.     *)

Places == {"loop", "select", "lock", "scan", "accept", "read", "lost", "handler",
           "check", "stop", "iterate", "closing", "advance", "stopped", "undefined"}
Phases == {"idle", "begin", "relay", "close", "remove", "shut", "forget", "report", "end",
           "undefined"}
Given  == Requests \cup Closings \cup {NoReq}
Iters  == [items : Seq(Descriptors), at : Nat \ {0}, stale : BOOLEAN]
Peers == [at     : {"away", "backlog", "accepted", "closed"},
          unread : 0 .. MaxUnread,
          fin    : BOOLEAN,
          rst    : BOOLEAN]

\* What the steps of the threads need of them.
ThreadTypes ==
    /\ peer \in [Clients -> Peers]
    /\ object \in [Clients -> {"none", "live", "freed"}]
    /\ reclosed \in BOOLEAN /\ errorcount \in Nat
    /\ hpc = [t \in Threads |-> hpc[t]]
    /\ req = [t \in Threads |-> req[t]]

\* The listener waits for the handler it runs itself.
CallInv ==
    hpc[0] \notin {"idle", "undefined"} =>
        lpc = "handler" /\ req[0].type \in RequestTypes \cup {"Closing"}

\* The failures of select that have not ended the loop yet.
Serving ==
    \/ lpc \in {"loop", "select", "lock", "scan", "accept", "read", "lost"}
    \/ lpc = "handler" /\ req[0].type \in RequestTypes \ {"Shutdown"}

ErrorInv == Serving => errorcount <= MaxSelectErrors

\* The types, and what they rest on.
TypeInv == TypeOK /\ BaseInv /\ CallInv /\ ErrorInv

LEMMA TypesOfThreads == ASSUME TypeInv PROVE ThreadTypes
BY ListenerAssumption DEF TypeInv, TypeOK, SocketsTypeOK, Peers, ThreadTypes

LEMMA PeerStep ==
  ASSUME peer \in [Clients -> Peers], [Next]_vars
  PROVE  peer' \in [Clients -> Peers]
<1>1. peer \in [Clients -> Peers] /\ MaxUnread \in Nat /\ BufferLen \in Nat
  BY SocketsAssumption, ListenerAssumption
<1>2. \A at \in {"away", "backlog", "accepted", "closed"} : Idle(at) \in Peers
  BY <1>1 DEF Idle, Peers
<1>3. CASE UNCHANGED peer
  BY <1>1, <1>3
<1>4. CASE ClientStep
  <2>1. PICK c \in Clients : \/ Connect(c) \/ HangUp(c) \/ Crash(c)
                             \/ \E bytes \in 1 .. MaxUnread : Send(c, bytes)
    BY <1>4 DEF ClientStep
  <2>2. CASE Connect(c)
    BY <1>1, <1>2, <2>2 DEF Connect
  <2>3. CASE HangUp(c) \/ Crash(c)
    <3>0. peer[c] \in Peers /\ 0 \in 0 .. MaxUnread
      BY <1>1
    <3>1. [peer[c] EXCEPT !.fin = TRUE] \in Peers /\ [peer[c] EXCEPT !.rst = TRUE, !.unread = 0] \in Peers
      <4>1. [peer[c] EXCEPT !.fin = TRUE] \in Peers
        BY <3>0 DEF Peers
      <4>2. [peer[c] EXCEPT !.rst = TRUE, !.unread = 0] \in Peers
        BY <3>0 DEF Peers
      <4> QED
        BY <4>1, <4>2
    <3>2. \/ peer' = [peer EXCEPT ![c] = [peer[c] EXCEPT !.fin = TRUE]]
          \/ peer' = [peer EXCEPT ![c] = [peer[c] EXCEPT !.rst = TRUE, !.unread = 0]]
      BY <1>1, <2>3 DEF HangUp, Crash
    <3> QED
      BY <1>1, <3>1, <3>2
  <2>4. ASSUME NEW bytes \in 1 .. MaxUnread, Send(c, bytes) PROVE peer' \in [Clients -> Peers]
    <3>1. [peer[c] EXCEPT !.unread = @ + bytes] \in Peers
      BY <1>1, <2>4 DEF Send, Peers
    <3>2. peer' = [peer EXCEPT ![c] = [peer[c] EXCEPT !.unread = @ + bytes]]
      BY <2>4 DEF Send
    <3> QED
      BY <1>1, <3>1, <3>2
  <2> QED
    BY <2>1, <2>2, <2>3, <2>4
<1>5. ASSUME NEW c \in Clients, NEW bytes \in 0 .. peer[c].unread, TakeBytes(c, bytes)
      PROVE  peer' \in [Clients -> Peers]
  <2>1. [peer[c] EXCEPT !.unread = @ - bytes] \in Peers
    BY <1>1 DEF Peers
  <2>2. peer' = [peer EXCEPT ![c] = [peer[c] EXCEPT !.unread = @ - bytes]]
    BY <1>5 DEF TakeBytes
  <2> QED
    BY <1>1, <2>1, <2>2
<1>6. CASE ReadFullBlock
  <2>1. PICK c \in Clients : peer[c].unread >= BufferLen /\ TakeBytes(c, BufferLen)
    BY <1>6 DEF ReadFullBlock
  <2>2. BufferLen \in 0 .. peer[c].unread
    BY <1>1, <2>1 DEF Peers
  <2> QED
    BY <1>5, <2>1, <2>2
<1>7. CASE ReadRest
  <2>1. PICK c \in Clients : TakeBytes(c, peer[c].unread)
    BY <1>7 DEF ReadRest
  <2>2. peer[c].unread \in 0 .. peer[c].unread
    BY <1>1 DEF Peers
  <2> QED
    BY <1>5, <2>1, <2>2
<1>8. CASE ReadReset
  <2>1. PICK c \in Clients : TakeReset(c)
    BY <1>8 DEF ReadReset
  <2>2. [peer[c] EXCEPT !.rst = FALSE, !.fin = TRUE] \in Peers
    BY <1>1 DEF Peers
  <2>3. peer' = [peer EXCEPT ![c] = [peer[c] EXCEPT !.rst = FALSE, !.fin = TRUE]]
    BY <1>1, <2>1 DEF TakeReset
  <2> QED
    BY <1>1, <2>2, <2>3
<1>9. CASE Accept
  <2>1. PICK c \in Clients : AcceptSocket(c)
    BY <1>9 DEF Accept, Backlog
  <2>2. [peer[c] EXCEPT !.at = "accepted"] \in Peers
    BY <1>1 DEF Peers
  <2>3. peer' = [peer EXCEPT ![c] = [peer[c] EXCEPT !.at = "accepted"]]
    BY <2>1 DEF AcceptSocket
  <2> QED
    BY <1>1, <2>2, <2>3
<1>10. CASE CloseServer
  BY <1>1, <1>2, <1>10 DEF CloseServer, CloseAll
<1>11. ASSUME NEW t \in Threads, CloseShuts(t) PROVE peer' \in [Clients -> Peers]
  BY <1>1, <1>2, <1>11 DEF CloseShuts, CloseFd
<1>12. ListenStep => UNCHANGED peer \/ ReadFullBlock \/ ReadRest \/ ReadReset \/ Accept \/ CloseServer
  BY DEF ListenStep, BuildSet, SelectFails, SelectReady, SelectTimeout, StartScan, ScanNext,
         EndScan, CheckShutdown, AcceptFails, ReadEnd, ReadClosed, RemoveLost, Stop, Iterate,
         CloseNext, Advance, socketVars
<1>13. ASSUME NEW t \in Threads, HandlerStep(t) PROVE UNCHANGED peer \/ CloseShuts(t)
  BY <1>13 DEF HandlerStep, HandleSimple, HandleShutdownCommand, HandleQuitOrLost,
         HandleBroadcast, Relay, RelayDone, CloseTests, CloseRemoves, CloseForgets, CloseReports,
         Return,
         Undefined, socketVars
<1>14. StartShutdown \/ OutsideStep \/ UNCHANGED vars => UNCHANGED peer \/ ClientStep
  BY DEF StartShutdown, OutsideStep, vars, socketVars
<1>15. ASSUME NEW w \in Workers, TakeRequest(w) PROVE UNCHANGED peer
  BY <1>15 DEF TakeRequest, socketVars
<1> QED
  BY <1>3, <1>4, <1>6, <1>7, <1>8, <1>9, <1>10, <1>11, <1>12, <1>13, <1>14, <1>15, AnyStep

LEMMA ObjectStep ==
  ASSUME object \in [Clients -> {"none", "live", "freed"}], reclosed \in BOOLEAN, [Next]_vars
  PROVE  object' \in [Clients -> {"none", "live", "freed"}] /\ reclosed' \in BOOLEAN
<1> USE DEF connVars
<1>1. CASE UNCHANGED <<object, reclosed>>
  BY <1>1
<1>2. CASE Accept
  BY <1>2 DEF Accept
<1>3. ASSUME NEW t \in Threads, CloseShuts(t) PROVE object' = object /\ reclosed' \in BOOLEAN
  BY <1>3, Zenon DEF CloseShuts
<1>4. ASSUME NEW t \in Threads, CloseTests(t) \/ CloseReports(t)
      PROVE  object' \in [Clients -> {"none", "live", "freed"}] /\ reclosed' = reclosed
  BY <1>4 DEF CloseTests, CloseReports, CloseReturns
<1>5. ListenStep => UNCHANGED <<object, reclosed>> \/ Accept
  BY DEF ListenStep, BuildSet, SelectFails, SelectReady, SelectTimeout, StartScan, ScanNext,
         EndScan, CheckShutdown, AcceptFails, ReadFullBlock, ReadRest, ReadEnd, ReadReset,
         ReadClosed, RemoveLost, Stop, Iterate, CloseNext, Advance, CloseServer
<1>6. ASSUME NEW t \in Threads, HandlerStep(t)
      PROVE  UNCHANGED <<object, reclosed>> \/ CloseTests(t) \/ CloseShuts(t) \/ CloseReports(t)
  BY <1>6 DEF HandlerStep, HandleSimple, HandleShutdownCommand, HandleQuitOrLost,
         HandleBroadcast, Relay, RelayDone, CloseRemoves, CloseForgets, Return, Undefined
<1>7. StartShutdown \/ OutsideStep \/ UNCHANGED vars => UNCHANGED <<object, reclosed>>
  BY DEF StartShutdown, OutsideStep, vars
<1>8. ASSUME NEW w \in Workers, TakeRequest(w) PROVE UNCHANGED <<object, reclosed>>
  BY <1>8 DEF TakeRequest
<1> QED
  BY <1>1, <1>2, <1>3, <1>4, <1>5, <1>6, <1>7, <1>8, AnyStep

\* Connections::next: the first connection after a place, or the end.
LEMMA NextConnFacts ==
  ASSUME NEW items \in Seq(Descriptors), NEW p \in Nat,
         NEW n, n = NextConn(items, p)
  PROVE  /\ n \in Nat /\ n # 0
         /\ n <= Len(items) => n \in 1 .. Len(items) /\ items[n].fd # ServerFd
         /\ \A j \in p + 1 .. Len(items) : items[j].fd # ServerFd => n <= j
<1> DEFINE conns == {j \in p + 1 .. Len(items) : items[j].fd # ServerFd}
<1>1. Len(items) \in Nat /\ conns \in SUBSET (0 .. Len(items))
  OBVIOUS
<1>2. CASE conns = {}
  <2>1. n = Len(items) + 1
    BY <1>2 DEF NextConn
  <2>2. \A j \in p + 1 .. Len(items) : items[j].fd = ServerFd
    BY <1>2
  <2> QED
    BY <1>1, <2>1, <2>2
<1>3. CASE conns # {}
  <2>1. \E k \in conns : \A j \in conns : k <= j
    <3> HIDE DEF conns
    <3> QED
      BY <1>1, <1>3, LeastMember
  <2>2. n = CHOOSE k \in conns : \A j \in conns : k <= j
    BY <1>3 DEF NextConn
  <2>3. n \in conns /\ \A j \in conns : n <= j
    BY <2>1, <2>2
  <2> QED
    BY <2>3
<1> QED
  BY <1>2, <1>3

\* A request handed on is queued, or taken by the listener itself.
LEMMA DispatchHands ==
  ASSUME NEW r, Dispatch(r)
  PROVE  \/ UNCHANGED <<hpc, req>> /\ lpc' = AfterRequest(r.type)
         \/ /\ hpc' = [hpc EXCEPT ![0] = "begin"] /\ req' = [req EXCEPT ![0] = r]
            /\ r.type \in RequestTypes /\ lpc' = "handler"
BY ListenerAssumption DEF Dispatch, handVars, Receive

\* What the listener does to the handler in its thread.
Summons(phase) ==
    /\ lpc' = "handler"
    /\ hpc' = [hpc EXCEPT ![0] = phase]
    /\ \E r : req' = [req EXCEPT ![0] = r] /\ r.type \in RequestTypes \cup {"Closing"}

LEMMA ListenHands ==
  ASSUME ListenStep
  PROVE  /\ lpc \notin {"handler", "stopped", "undefined"}
         /\ \/ UNCHANGED <<hpc, req>>
            \/ EndRun /\ req' = req
            \/ Summons("begin")
            \/ Summons("close")
<1>1. lpc \notin {"handler", "stopped", "undefined"}
  BY DEF ListenStep, BuildSet, SelectFails, SelectReady, SelectTimeout, StartScan, ScanNext,
     EndScan, CheckShutdown, Accept, AcceptFails, ReadFullBlock, ReadRest, ReadEnd, ReadReset,
     ReadClosed, RemoveLost, Stop, Iterate, CloseNext, Advance, CloseServer
<1>2. \A r : Dispatch(r) => UNCHANGED <<hpc, req>> \/ Summons("begin")
  BY DispatchHands DEF Summons
<1>3. CASE BuildSet
  BY <1>1, <1>3 DEF BuildSet
<1>4. CASE SelectTimeout \/ Accept
  BY <1>1, <1>2, <1>4 DEF SelectTimeout, TimeoutEvent, Accept
<1>5. CASE ReadRest \/ ReadEnd \/ ReadReset \/ ReadClosed
  <2>1. \E readcount, anything : EndRead(readcount, anything)
    BY <1>5 DEF ReadRest, ReadEnd, ReadReset, ReadClosed
  <2>2. UNCHANGED handVars \/ \E r : Dispatch(r)
    BY <2>1 DEF EndRead
  <2> QED
    BY <1>1, <1>2, <2>2 DEF handVars
<1>6. CASE Stop
  <2> DEFINE r == [type |-> "Shutdown", fd |-> 0, client |-> NoClient]
  <2>1. UNCHANGED handVars \/ (Receive(0, r) /\ lpc' = "handler")
    BY <1>6 DEF Stop
  <2>2. r.type \in RequestTypes
    BY DEF RequestTypes
  <2> HIDE DEF r
  <2> QED
    BY <1>1, <2>1, <2>2 DEF handVars, Receive, Summons
<1>7. CASE CloseNext
  <2> DEFINE d == iter[0].items[iter[0].at]
             r == [type |-> "Closing", fd |-> d.fd, client |-> d.client]
  <2>1. req' = [req EXCEPT ![0] = r] /\ hpc' = [hpc EXCEPT ![0] = "close"] /\ lpc' = "handler"
    BY <1>7 DEF CloseNext
  <2>2. r.type = "Closing"
    OBVIOUS
  <2> HIDE DEF r
  <2> QED
    BY <2>1, <2>2, <1>1 DEF Summons
<1> QED
  BY <1>1, <1>3, <1>4, <1>5, <1>6, <1>7 DEF ListenStep, SelectFails, SelectReady, StartScan,
     ScanNext, EndScan, CheckShutdown, AcceptFails, ReadFullBlock, RemoveLost, Iterate, Advance,
     CloseServer, handVars

\* A step of the handler is one of its thread.
Closes(t) ==
    CloseTests(t) \/ CloseRemoves(t) \/ CloseShuts(t) \/ CloseForgets(t) \/ CloseReports(t)

LEMMA HandlerHands ==
  ASSUME NEW t \in Threads, HandlerStep(t)
  PROVE  \/ Return(t)
         \/ EndRun /\ req' = req
         \/ /\ UNCHANGED <<lpc, req>> /\ hpc[t] \notin {"idle", "end", "undefined"}
            /\ \/ hpc' = hpc
               \/ hpc' = [hpc EXCEPT ![t] = "relay"]
               \/ hpc' = [hpc EXCEPT ![t] = "close"]
               \/ hpc' = [hpc EXCEPT ![t] = "end"]
               \/ Closes(t) /\ \E x : hpc' = [hpc EXCEPT ![t] = x]
BY DEF HandlerStep, HandleSimple, HandleShutdownCommand, HandleQuitOrLost, HandleBroadcast, Relay,
   RelayDone, Closes, CloseTests, CloseRemoves, CloseShuts, CloseForgets, CloseReports,
   CloseReturns, Undefined,
   Goto, handVars

\* The failures of select are counted in listen alone.
LEMMA ErrorSteps ==
  ASSUME [Next]_vars
  PROVE  errorcount' = errorcount \/ SelectFails \/ (errorcount' = 0 /\ EndScan)
<1>1. ListenStep => errorcount' = errorcount \/ SelectFails \/ (errorcount' = 0 /\ EndScan)
  BY DEF ListenStep, BuildSet, SelectReady, SelectTimeout, StartScan, ScanNext, EndScan,
     CheckShutdown, Accept, AcceptFails, ReadFullBlock, ReadRest, ReadEnd, ReadReset, ReadClosed,
     RemoveLost, Stop, Iterate, CloseNext, Advance, CloseServer, listenVars
<1>2. ASSUME NEW t \in Threads, HandlerStep(t) PROVE errorcount' = errorcount
  BY <1>2 DEF HandlerStep, HandleSimple, HandleShutdownCommand, HandleQuitOrLost,
     HandleBroadcast, Relay, RelayDone, CloseTests, CloseRemoves, CloseShuts, CloseForgets,
     CloseReports,
     Return, Undefined, listenVars
<1>3. StartShutdown \/ OutsideStep \/ UNCHANGED vars => errorcount' = errorcount
  BY DEF StartShutdown, OutsideStep, vars, listenVars
<1>4. ASSUME NEW w \in Workers, TakeRequest(w) PROVE errorcount' = errorcount
  BY <1>4 DEF TakeRequest, listenVars
<1> QED
  BY <1>1, <1>2, <1>3, <1>4, AnyStep

\* While the handler runs in its thread, the listener waits.
LEMMA CallStep == ASSUME ThreadTypes, CallInv, [Next]_vars PROVE CallInv'
<1>1. 0 \in Threads /\ Workers \subseteq Threads /\ 0 \notin Workers
  BY ListenerAssumption DEF Threads, Workers
<1>2. ASSUME NEW t \in Threads, NEW x, hpc' = [hpc EXCEPT ![t] = x]
      PROVE  hpc'[0] = IF t = 0 THEN x ELSE hpc[0]
  BY <1>1, <1>2 DEF ThreadTypes
<1>3. ASSUME NEW t \in Threads, NEW x, req' = [req EXCEPT ![t] = x]
      PROVE  req'[0] = IF t = 0 THEN x ELSE req[0]
  BY <1>1, <1>3 DEF ThreadTypes
<1>4. CASE EndRun
  BY <1>1, <1>4 DEF EndRun, CallInv
<1>5. CASE ListenStep
  BY <1>1, <1>2, <1>3, <1>4, <1>5, ListenHands DEF CallInv, Summons
<1>6. ASSUME NEW t \in Threads, HandlerStep(t) PROVE CallInv'
  <2>1. CASE Return(t)
    BY <1>1, <1>2, <1>3, <2>1 DEF CallInv, Return, Goto
  <2> QED
    BY <1>1, <1>2, <1>4, <1>6, <2>1, HandlerHands DEF CallInv
<1>7. ASSUME NEW w \in Workers, TakeRequest(w) PROVE CallInv'
  BY <1>1, <1>2, <1>3, <1>7 DEF CallInv, TakeRequest, Receive
<1>8. StartShutdown \/ OutsideStep \/ UNCHANGED vars => CallInv'
  BY DEF StartShutdown, OutsideStep, vars, handVars, CallInv
<1> QED
  BY <1>5, <1>6, <1>7, <1>8, AnyStep

\* The listener and the handler, in its places.
HandTypes ==
    /\ lpc \in Places
    /\ queue \in Seq(Requests)
    /\ hpc \in [Threads -> Phases]
    /\ req \in [Threads -> Given]
    /\ taken \in [Clients -> RequestTypes \cup {"none"}]

\* A thread gets a request.
LEMMA ReceiveTypes ==
  ASSUME HandTypes, NEW t \in Threads, NEW r \in Requests, Receive(t, r)
  PROVE  /\ hpc' \in [Threads -> Phases] /\ req' \in [Threads -> Given]
         /\ taken' \in [Clients -> RequestTypes \cup {"none"}]
BY DEF HandTypes, Receive, Phases, Given, Requests

LEMMA DispatchTypes ==
  ASSUME HandTypes, NEW r \in Requests, Dispatch(r)
  PROVE  HandTypes'
<1>1. 0 \in Threads /\ r.type \in RequestTypes
  BY ListenerAssumption DEF Threads, Requests
<1>2. lpc' \in Places
  BY <1>1 DEF Dispatch, AfterRequest, RequestTypes, Places
<1>3. CASE UNCHANGED handVars
  <2>1. queue' \in Seq(Requests)
    BY <1>3 DEF Dispatch, HandTypes
  <2> QED
    BY <1>2, <1>3, <2>1 DEF HandTypes, handVars
<1>4. CASE Receive(0, r) /\ queue' = queue
  BY <1>1, <1>2, <1>4, ReceiveTypes DEF HandTypes
<1> QED
  BY <1>3, <1>4 DEF Dispatch

LEMMA HandStep == ASSUME TypeInv, [Next]_vars PROVE HandTypes'
<1>1. /\ HandTypes /\ 0 \in Threads /\ Workers \subseteq Threads /\ 0 \in Fds
      /\ event.fd \in Fds /\ event.client \in Clients \cup {NoClient}
  <2>1. HandTypes
    BY DEF TypeInv, TypeOK, HandTypes, Places, Phases, Given
  <2>2. event \in Descriptors /\ event.fd \in Fds
    BY DEF TypeInv, BaseInv
  <2>3. event.client \in Clients \cup {NoClient}
    BY <2>2, SocketsAssumption DEF Descriptors, Garbage, Fds
  <2> QED
    BY <2>1, <2>2, <2>3, SocketsAssumption, ListenerAssumption DEF Threads, Workers, Fds
<1> DEFINE request(type) == [type |-> type, fd |-> 0, client |-> NoClient]
           ofEvent(type) == [type |-> type, fd |-> event.fd, client |-> event.client]
<1>2. \A type \in RequestTypes : request(type) \in Requests /\ ofEvent(type) \in Requests
  BY <1>1 DEF Requests
<1>3. CASE BuildSet
  BY <1>1, <1>3 DEF BuildSet, EndRun, HandTypes, Places, Phases, poolVars
<1>4. CASE SelectFails \/ SelectReady \/ StartScan \/ ScanNext \/ EndScan \/ CheckShutdown
           \/ AcceptFails \/ ReadFullBlock \/ RemoveLost \/ Iterate \/ Advance \/ CloseServer
  <2>1. UNCHANGED <<queue, handVars>>
    BY <1>4 DEF SelectFails, SelectReady, StartScan, ScanNext, EndScan, CheckShutdown, AcceptFails,
       ReadFullBlock, RemoveLost, Iterate, Advance, CloseServer, poolVars
  <2>2. lpc' \in Places
    BY <1>1, <1>4 DEF SelectFails, SelectReady, StartScan, ScanNext, EndScan, CheckShutdown,
       AcceptFails, ReadFullBlock, RemoveLost, Iterate, Advance, CloseServer, HandTypes, Places
  <2> QED
    BY <1>1, <2>1, <2>2 DEF HandTypes, handVars
<1>5. CASE SelectTimeout
  <2>1. Dispatch(request("Timeout"))
    BY <1>5 DEF SelectTimeout, TimeoutEvent
  <2> QED
    BY <1>1, <1>2, <2>1, DispatchTypes DEF RequestTypes
<1>6. CASE Accept
  <2>1. PICK c \in Backlog :
          Dispatch([type |-> "NewConnection", fd |-> LowestFree, client |-> c])
    BY <1>6 DEF Accept
  <2>2. LowestFree \in Fds /\ c \in Clients
    BY <1>6, LowestFreeFacts DEF Accept, Backlog
  <2>3. [type |-> "NewConnection", fd |-> LowestFree, client |-> c] \in Requests
    BY <2>2 DEF Requests, RequestTypes
  <2> QED
    BY <1>1, <2>1, <2>3, DispatchTypes
<1>7. CASE ReadRest \/ ReadEnd \/ ReadReset \/ ReadClosed
  <2>1. PICK readcount, anything : EndRead(readcount, anything)
    BY <1>7 DEF ReadRest, ReadEnd, ReadReset, ReadClosed
  <2>2. CASE lpc' = "scan" /\ UNCHANGED <<queue, handVars>>
    BY <1>1, <2>2 DEF HandTypes, Places, handVars
  <2>3. CASE Dispatch(ofEvent("StreamData")) \/ Dispatch(ofEvent("ConnectionLost"))
    BY <1>1, <1>2, <2>3, DispatchTypes DEF RequestTypes
  <2> QED
    BY <2>1, <2>2, <2>3 DEF EndRead
<1>8. CASE Stop
  <2>1. CASE Receive(0, request("Shutdown")) /\ lpc' = "handler" /\ queue' = queue
    <3>1. request("Shutdown") \in Requests
      BY <1>2 DEF RequestTypes
    <3> QED
      BY <1>1, <2>1, <3>1, ReceiveTypes DEF HandTypes, Places
  <2>2. CASE lpc' = "iterate" /\ UNCHANGED <<queue, handVars>>
    BY <1>1, <2>2 DEF HandTypes, Places, handVars
  <2> QED
    BY <1>8, <2>1, <2>2 DEF Stop
<1>9. CASE CloseNext
  <2> DEFINE d == iter[0].items[iter[0].at]
             r == [type |-> "Closing", fd |-> d.fd, client |-> d.client]
  <2>1. iter[0] \in Iters
    BY <1>1 DEF TypeInv, TypeOK, Iters
  <2>2. d \in Descriptors
    BY <1>9, <2>1 DEF CloseNext, Exhausted, Iters
  <2>3. r \in Given
    BY <2>2 DEF Given, Closings
  <2>4. /\ req' = [req EXCEPT ![0] = r] /\ hpc' = [hpc EXCEPT ![0] = "close"]
        /\ lpc' = "handler" /\ UNCHANGED <<queue, taken>>
    BY <1>9 DEF CloseNext, poolVars
  <2> HIDE DEF r
  <2> QED
    BY <1>1, <2>3, <2>4 DEF HandTypes, Places, Phases
<1>10. ASSUME NEW t \in Threads, HandlerStep(t) PROVE HandTypes'
  <2>1. UNCHANGED <<queue, taken>>
    BY <1>10 DEF HandlerStep, HandleSimple, HandleShutdownCommand, HandleQuitOrLost,
       HandleBroadcast, Relay, RelayDone, CloseTests, CloseRemoves, CloseShuts, CloseForgets,
       CloseReports, Return, Undefined, poolVars, handVars
  <2>2. CASE Return(t)
    <3>1. lpc' \in Places
      BY <1>1, <2>2 DEF Return, AfterRequest, TypeInv, CallInv, RequestTypes, HandTypes, Places
    <3> QED
      BY <1>1, <2>1, <2>2, <3>1 DEF Return, Goto, HandTypes, Phases, Given
  <2>3. CASE Undefined(t)
    BY <1>1, <2>1, <2>3 DEF Undefined, EndRun, HandTypes, Places, Phases
  <2>4. CASE ~Return(t) /\ ~Undefined(t)
    <3>1. UNCHANGED <<lpc, req>>
      BY <1>10, <2>4 DEF HandlerStep, HandleSimple, HandleShutdownCommand, HandleQuitOrLost,
         HandleBroadcast, Relay, RelayDone, CloseTests, CloseRemoves, CloseShuts, CloseForgets,
         CloseReports, handVars
    <3>2. hpc' = hpc \/ \E phase \in Phases : hpc' = [hpc EXCEPT ![t] = phase]
      BY <1>10, <2>4 DEF HandlerStep, HandleSimple, HandleShutdownCommand, HandleQuitOrLost,
         HandleBroadcast, Relay, RelayDone, CloseTests, CloseRemoves, CloseShuts, CloseForgets,
         CloseReports, CloseReturns, Goto, Phases, handVars
    <3> QED
      BY <1>1, <2>1, <3>1, <3>2 DEF HandTypes
  <2> QED
    BY <2>2, <2>3, <2>4
<1>11. ASSUME NEW w \in Workers, TakeRequest(w) PROVE HandTypes'
  <2>1. /\ Receive(w, Head(queue)) /\ queue' = Tail(queue) /\ lpc' = lpc
        /\ Head(queue) \in Requests /\ queue' \in Seq(Requests)
    BY <1>1, <1>11 DEF TakeRequest, HandTypes
  <2> QED
    BY <1>1, <2>1, ReceiveTypes DEF HandTypes
<1>12. StartShutdown \/ OutsideStep \/ UNCHANGED vars => HandTypes'
  BY <1>1 DEF StartShutdown, OutsideStep, vars, poolVars, handVars, HandTypes
<1> QED
  BY <1>3, <1>4, <1>5, <1>6, <1>7, <1>8, <1>9, <1>10, <1>11, <1>12, AnyStep DEF ListenStep

\* The rest of the listener's variables.
FlagTypes ==
    /\ mShutdownStatus \in BOOLEAN
    /\ lockHolder \in {-1} \cup Threads
    /\ gotData \in BOOLEAN
    /\ errorcount \in 0 .. MaxSelectErrors + 1
    /\ joined \in BOOLEAN

LEMMA FlagStep == ASSUME TypeInv, [Next]_vars PROVE FlagTypes'
<1>1. /\ FlagTypes /\ 0 \in Threads /\ MaxSelectErrors \in Nat
  BY ListenerAssumption DEF FlagTypes, TypeInv, TypeOK, Threads
<1> DEFINE flags == <<mShutdownStatus, lockHolder, gotData, errorcount, joined>>
<1>2. CASE UNCHANGED flags
  BY <1>1, <1>2 DEF FlagTypes
<1>3. CASE CheckShutdown \/ StartShutdown \/ \E t \in Threads : HandleShutdownCommand(t)
  <2>1. mShutdownStatus' \in BOOLEAN
    BY <1>3, Zenon DEF CheckShutdown, StartShutdown, HandleShutdownCommand
  <2>2. UNCHANGED <<lockHolder, gotData, errorcount, joined>>
    BY <1>3 DEF CheckShutdown, StartShutdown, HandleShutdownCommand, poolVars
  <2> QED
    BY <1>1, <2>1, <2>2 DEF FlagTypes
<1>4. CASE SelectFails
  <2>1. errorcount <= MaxSelectErrors
    BY <1>4 DEF SelectFails, TypeInv, ErrorInv, Serving
  <2> QED
    BY <1>1, <1>4, <2>1 DEF SelectFails, FlagTypes, poolVars
<1>5. CASE StartScan \/ EndScan \/ ScanNext \/ CloseNext
  <2>1. /\ UNCHANGED <<mShutdownStatus, joined>> /\ lockHolder' \in {-1, 0, lockHolder}
        /\ errorcount' \in {errorcount, 0}
    BY <1>5 DEF StartScan, EndScan, ScanNext, CloseNext, poolVars, listenVars
  <2>2. gotData' \in BOOLEAN
    BY <1>1, <1>5 DEF StartScan, EndScan, ScanNext, CloseNext, listenVars, FlagTypes
  <2>3. lockHolder' \in {-1} \cup Threads /\ errorcount' \in 0 .. MaxSelectErrors + 1
    BY <1>1, <2>1 DEF FlagTypes
  <2> QED
    BY <1>1, <2>1, <2>2, <2>3 DEF FlagTypes
<1>6. CASE ReadFullBlock \/ ReadRest \/ ReadEnd \/ ReadReset \/ ReadClosed
  BY <1>1, <1>6 DEF ReadFullBlock, ReadRest, ReadEnd, ReadReset, ReadClosed, EndRead,
                    FlagTypes, poolVars
<1>7. CASE Stop
  <2>1. UNCHANGED <<mShutdownStatus, lockHolder, gotData, errorcount>>
    BY <1>7 DEF Stop, listenVars
  <2>2. joined' \in BOOLEAN
    <3>1. joined' = Pooled \/ joined' = joined
      BY <1>7 DEF Stop
    <3>2. Pooled \in BOOLEAN
      BY DEF Pooled
    <3> QED
      BY <1>1, <3>1, <3>2, Zenon DEF FlagTypes
  <2> QED
    BY <1>1, <2>1, <2>2 DEF FlagTypes
<1>8. ListenStep => UNCHANGED flags \/ CheckShutdown \/ SelectFails \/ StartScan \/ EndScan
         \/ ScanNext \/ CloseNext \/ ReadFullBlock
         \/ ReadRest \/ ReadEnd \/ ReadReset \/ ReadClosed \/ Stop
  BY DEF ListenStep, BuildSet, SelectReady, SelectTimeout, Accept, AcceptFails, RemoveLost,
         Iterate, Advance, CloseServer, poolVars, listenVars
<1>9. ASSUME NEW t \in Threads, HandlerStep(t)
      PROVE  UNCHANGED flags \/ HandleShutdownCommand(t)
  BY <1>9 DEF HandlerStep, HandleSimple, HandleQuitOrLost, HandleBroadcast, Relay, RelayDone,
       CloseTests,
         CloseRemoves, CloseShuts, CloseForgets, CloseReports, Return, Undefined, poolVars,
         listenVars
<1>10. OutsideStep \/ UNCHANGED vars => UNCHANGED flags
  BY DEF OutsideStep, vars, poolVars, listenVars
<1>11. ASSUME NEW w \in Workers, TakeRequest(w) PROVE UNCHANGED flags
  BY <1>11 DEF TakeRequest, listenVars
<1> HIDE DEF flags
<1> QED
  BY <1>2, <1>3, <1>4, <1>5, <1>6, <1>7, <1>8, <1>9, <1>10, <1>11, AnyStep

LEMMA IterTypesStep == ASSUME TypeInv, [Next]_vars PROVE iter' \in [Threads -> Iters]
<1>1. iter \in [Threads -> Iters] /\ 0 \in Threads
  BY ListenerAssumption DEF TypeInv, TypeOK, Iters, Threads
<1>2. NoIter \in Iters
  BY DEF NoIter, Iters
<1>3. Iterator \in Iters
  BY NextConnFacts DEF Iterator, Iters, TypeInv, BaseInv
<1>4. ASSUME NEW t \in Threads
      PROVE  [iter[t] EXCEPT !.at = NextConn(iter[t].items, iter[t].at)] \in Iters
  <2>1. iter[t] \in Iters
    BY <1>1
  <2>2. NextConn(iter[t].items, iter[t].at) \in Nat \ {0}
    BY <2>1, NextConnFacts DEF Iters
  <2> QED
    BY <2>1, <2>2 DEF Iters
<1>6. CASE UNCHANGED iter
  BY <1>1, <1>6
<1>7. CASE \E items : DescriptorsBecome(items)
  <2>1. \A t \in Threads : [iter[t] EXCEPT !.stale = TRUE] \in Iters
    BY <1>1 DEF Iters
  <2> QED
    BY <1>1, <1>2, <1>7, <2>1 DEF DescriptorsBecome
<1>8. CASE Iterate \/ Advance
  <2>1. \/ iter' = [iter EXCEPT ![0] = Iterator]
        \/ iter' = [iter EXCEPT ![0] =
                      [iter[0] EXCEPT !.at = NextConn(iter[0].items, iter[0].at)]]
    BY <1>8 DEF Iterate, Advance
  <2> QED
    BY <1>1, <1>3, <1>4, <2>1
<1>9. ASSUME NEW t \in Threads, HandleBroadcast(t) \/ Relay(t) \/ RelayDone(t)
      PROVE  iter' \in [Threads -> Iters]
  <2>1. \/ iter' = [iter EXCEPT ![t] = Iterator]
        \/ iter' = [iter EXCEPT ![t] = NoIter]
        \/ iter' = [iter EXCEPT ![t] =
                      [iter[t] EXCEPT !.at = NextConn(iter[t].items, iter[t].at)]]
    BY <1>9 DEF HandleBroadcast, Relay, RelayDone
  <2> QED
    BY <1>1, <1>2, <1>3, <1>4, <2>1
<1>11. \A fd : RemoveDescriptor(fd) => UNCHANGED iter \/ \E items : DescriptorsBecome(items)
  BY DEF RemoveDescriptor, arrayVars
<1>12. ListenStep => UNCHANGED iter \/ (\E items : DescriptorsBecome(items)) \/ Iterate \/ Advance
  <2>1. CASE RemoveLost \/ CloseServer
    BY <1>11, <2>1 DEF RemoveLost, CloseServer
  <2>2. CASE Accept
    BY <2>2 DEF Accept
  <2> QED
    BY <2>1, <2>2 DEF ListenStep, BuildSet, SelectFails, SelectReady, SelectTimeout, StartScan,
       ScanNext, EndScan, CheckShutdown, AcceptFails, ReadFullBlock, ReadRest, ReadEnd,
       ReadReset, ReadClosed, Stop, CloseNext, arrayVars
<1>13. ASSUME NEW t \in Threads, HandlerStep(t)
       PROVE  \/ UNCHANGED iter \/ (\E items : DescriptorsBecome(items))
              \/ HandleBroadcast(t) \/ Relay(t) \/ RelayDone(t)
  <2>1. CASE CloseRemoves(t)
    BY <1>11, <2>1 DEF CloseRemoves
  <2> QED
    BY <1>13, <2>1 DEF HandlerStep, HandleSimple, HandleShutdownCommand, HandleQuitOrLost,
       CloseTests, CloseShuts, CloseForgets, CloseReports, Return, Undefined, arrayVars
<1>14. StartShutdown \/ OutsideStep \/ UNCHANGED vars => UNCHANGED iter
  BY DEF StartShutdown, OutsideStep, vars, arrayVars
<1>15. ASSUME NEW w \in Workers, TakeRequest(w) PROVE UNCHANGED iter
  BY <1>15 DEF TakeRequest, arrayVars
<1> QED
  BY <1>6, <1>7, <1>8, <1>9, <1>12, <1>13, <1>14, <1>15, AnyStep

\* Once listen has given up it does not go back to select.
LEMMA ErrorStep == ASSUME TypeInv, [Next]_vars PROVE ErrorInv'
<1>1. /\ ErrorInv /\ CallInv /\ ThreadTypes /\ MaxSelectErrors \in Nat /\ 0 \in Threads
      /\ Workers \subseteq Threads /\ 0 \notin Workers
  BY TypesOfThreads, ListenerAssumption DEF TypeInv, Threads, Workers
<1>2. CASE SelectFails \/ EndScan \/ CheckShutdown
  <2>1. CASE SelectFails \/ EndScan
    BY <1>1, <2>1 DEF SelectFails, EndScan, ErrorInv, Serving
  <2>2. CASE CheckShutdown
    <3>1. lpc' = "stop" \/ (lpc' = "loop" /\ ~(errorcount > MaxSelectErrors))
      BY <2>2, Zenon DEF CheckShutdown
    <3>2. errorcount' = errorcount /\ errorcount \in Nat
      BY <1>1, <2>2 DEF CheckShutdown, ThreadTypes
    <3> QED
      BY <1>1, <3>1, <3>2 DEF ErrorInv, Serving
  <2> QED
    BY <1>2, <2>1, <2>2
<1>3. ASSUME Stop \/ Iterate \/ CloseNext \/ Advance \/ CloseServer PROVE ~Serving'
  <2>1. \/ lpc' \in {"iterate", "closing", "stopped"}
        \/ lpc' = "handler" /\ req'[0].type \in {"Shutdown", "Closing"}
    BY <1>1, <1>3 DEF Stop, Iterate, CloseNext, Advance, CloseServer, Receive, ThreadTypes
  <2> QED
    BY <2>1 DEF Serving, RequestTypes
<1>4. Serving' /\ ListenStep /\ ~CheckShutdown /\ ~EndScan => Serving
  BY <1>3 DEF ListenStep, BuildSet, SelectFails, SelectReady, SelectTimeout, StartScan, ScanNext,
     Accept, AcceptFails, ReadFullBlock, ReadRest, ReadEnd, ReadReset, ReadClosed, RemoveLost,
     Serving
<1>5. ASSUME NEW t \in Threads, HandlerStep(t), Serving' PROVE Serving
  <2>1. CASE Return(t)
    <3>1. CASE t = 0
      BY <2>1, <3>1, <1>1, <1>5 DEF Return, CallInv, AfterRequest, Serving, RequestTypes
    <3>2. CASE t # 0
      BY <1>1, <1>5, <2>1, <3>2 DEF Return, Serving, ThreadTypes
    <3> QED
      BY <3>1, <3>2
  <2> QED
    BY <1>5, <2>1, HandlerHands DEF EndRun, Serving
<1>6. ASSUME NEW w \in Workers, TakeRequest(w) PROVE Serving' <=> Serving
  BY <1>1, <1>6 DEF TakeRequest, Receive, Serving, ThreadTypes
<1>7. StartShutdown \/ OutsideStep \/ UNCHANGED vars => (Serving' <=> Serving)
  BY DEF StartShutdown, OutsideStep, vars, handVars, Serving
<1> QED
  BY <1>1, <1>2, <1>3, <1>4, <1>5, <1>6, <1>7, AnyStep, ErrorSteps DEF ErrorInv

LEMMA TypeStep == ASSUME TypeInv, [Next]_vars PROVE TypeInv'
<1>1. /\ peer \in [Clients -> Peers] /\ reclosed \in BOOLEAN
      /\ object \in [Clients -> {"none", "live", "freed"}]
  BY DEF TypeInv, TypeOK, SocketsTypeOK, Peers
<1>2. /\ HandTypes' /\ FlagTypes' /\ iter' \in [Threads -> Iters] /\ peer' \in [Clients -> Peers]
      /\ object' \in [Clients -> {"none", "live", "freed"}] /\ reclosed' \in BOOLEAN
  BY <1>1, HandStep, FlagStep, IterTypesStep, PeerStep, ObjectStep
<1>3. BaseInv' /\ CallInv' /\ ErrorInv'
  BY TypesOfThreads, BaseStep, CallStep, ErrorStep DEF TypeInv
<1>4. SocketsTypeOK'
  BY <1>2, <1>3 DEF SocketsTypeOK, BaseInv, Peers
<1>5. TypeOK'
  BY <1>2, <1>3, <1>4 DEF TypeOK, HandTypes, FlagTypes, BaseInv, Places, Phases, Given, Iters
<1> QED
  BY <1>3, <1>5 DEF TypeInv

-----------------------------------------------------------------------------
(* SafeInv is preserved as long as there is no Garbage.                    *)

\* What a step starts from and ends in.
Before == Inline /\ BaseInv /\ TypeOK /\ CallInv /\ NoGarbage /\ SafeInv
After  == BaseInv' /\ NoGarbage'

\* The listener goes on, or has the handler run.
Goes(place) == lpc' = place /\ UNCHANGED <<hpc, req>>
Gives(r)    == lpc' = "handler" /\ hpc'[0] = "begin" /\ req'[0] = r

LEMMA DispatchFacts ==
  ASSUME Before, [Next]_vars, NEW r, Dispatch(r)
  PROVE  /\ queue' = queue
         /\ \/ Gives(r)
            \/ r.type \notin RequestMask /\ Goes(AfterRequest(r.type))
<1>1. ~Pooled /\ 0 \in Threads
  BY Steps DEF Before
<1> QED
  BY <1>1 DEF Dispatch, Receive, Gives, Goes, handVars, Before, SafeInv, TypeOK

\* The requests that descriptorEvent makes of an event.
EventRequest(type) == [type |-> type, fd |-> event.fd, client |-> event.client]

LEMMA EndReadFacts ==
  ASSUME Before, [Next]_vars, NEW readcount, NEW anything, EndRead(readcount, anything)
  PROVE  /\ queue' = queue
         /\ Goes("scan") \/ \E type \in {"StreamData", "ConnectionLost"} : Gives(EventRequest(type))
<1>1. CASE Dispatch(EventRequest("StreamData"))
  BY <1>1, DispatchFacts DEF EventRequest, AfterRequest
<1>2. CASE Dispatch(EventRequest("ConnectionLost"))
  BY <1>2, DispatchFacts DEF EventRequest, Before, Inline
<1> QED
  BY <1>1, <1>2 DEF EndRead, EventRequest, Goes, handVars

\* The four ways a read loop ends.
ReadLast == ReadRest \/ ReadEnd \/ ReadReset \/ ReadClosed

LEMMA ReadLastFacts ==
  ASSUME Before, [Next]_vars, ReadLast
  PROVE  /\ lpc = "read" /\ queue' = queue
         /\ Goes("scan") \/ \E type \in {"StreamData", "ConnectionLost"} : Gives(EventRequest(type))
         /\ UNCHANGED <<file, mSocket, object, mDescriptors, iter, event, errorcount>>
         /\ \A c \in Clients : peer'[c].at = peer[c].at
<1>1. \E readcount, anything : EndRead(readcount, anything)
  BY DEF ReadLast, ReadRest, ReadEnd, ReadReset, ReadClosed
<1>2. lpc = "read" /\ UNCHANGED <<file, mSocket, object, mDescriptors, iter, event, errorcount>>
  BY DEF ReadLast, ReadRest, ReadEnd, ReadReset, ReadClosed, TakeBytes, TakeReset,
         socketVars, connVars, arrayVars
<1>3. \A c \in Clients : peer'[c].at = peer[c].at
  <2>1. UNCHANGED peer \/ \E c \in Clients : TakeReset(c) \/ \E bytes : TakeBytes(c, bytes)
    BY DEF ReadLast, ReadRest, ReadEnd, ReadReset, ReadClosed, socketVars
  <2>2. ASSUME NEW c \in Clients, NEW e \in Clients,
               TakeReset(c) \/ \E bytes : TakeBytes(c, bytes)
        PROVE  peer'[e].at = peer[e].at
    <3>1. peer \in [Clients -> [at : {"away", "backlog", "accepted", "closed"},
                               unread : 0 .. MaxUnread, fin : BOOLEAN, rst : BOOLEAN]]
      BY DEF Before, SafeInv, TypeOK, SocketsTypeOK
    <3>2. CASE e # c
      BY <2>2, <3>1, <3>2 DEF TakeBytes, TakeReset
    <3>3. CASE e = c
      BY <2>2, <3>1, <3>3 DEF TakeBytes, TakeReset
    <3> QED
      BY <3>2, <3>3
  <2> QED
    BY <2>1, <2>2
<1> QED
  BY <1>1, <1>2, <1>3, EndReadFacts

LEMMA TimeoutFacts ==
  ASSUME Before, [Next]_vars, SelectTimeout
  PROVE  /\ lpc = "select" /\ queue' = queue
         /\ \/ Goes("check")
            \/ Gives([type |-> "Timeout", fd |-> 0, client |-> NoClient])
         /\ UNCHANGED <<socketVars, connVars, arrayVars, event, errorcount>>
<1>1. TimeoutEvent /\ lpc = "select"
      /\ UNCHANGED <<socketVars, connVars, arrayVars, event, errorcount>>
  BY DEF SelectTimeout
<1> QED
  BY <1>1, DispatchFacts DEF TimeoutEvent, AfterRequest

LEMMA AcceptFacts ==
  ASSUME Before, [Next]_vars, Accept
  PROVE  \E c \in Backlog :
           /\ lpc = "accept" /\ queue' = queue
           /\ \/ Goes("scan")
              \/ Gives([type |-> "NewConnection", fd |-> LowestFree, client |-> c])
           /\ file' = [file EXCEPT ![LowestFree] = c]
           /\ peer' = [peer EXCEPT ![c].at = "accepted"]
           /\ object' = [object EXCEPT ![c] = "live"]
           /\ mSocket' = [mSocket EXCEPT ![c] = LowestFree]
           /\ DescriptorsBecome(ArrayAdd(mDescriptors, [fd |-> LowestFree, client |-> c]))
           /\ UNCHANGED <<event, errorcount>>
<1>1. PICK c \in Backlog :
        /\ lpc = "accept"
        /\ Dispatch([type |-> "NewConnection", fd |-> LowestFree, client |-> c])
        /\ AcceptSocket(c)
        /\ object' = [object EXCEPT ![c] = "live"]
        /\ mSocket' = [mSocket EXCEPT ![c] = LowestFree]
        /\ DescriptorsBecome(ArrayAdd(mDescriptors, [fd |-> LowestFree, client |-> c]))
        /\ UNCHANGED listenVars
  BY DEF Accept
<1>2. /\ queue' = queue
      /\ \/ Goes("scan")
         \/ Gives([type |-> "NewConnection", fd |-> LowestFree, client |-> c])
  BY <1>1, DispatchFacts DEF AfterRequest
<1> QED
  BY <1>1, <1>2 DEF AcceptSocket, listenVars

\* No descriptor is Garbage, so that BuildSet reads only what there is.
LEMMA BuildSetFacts ==
  ASSUME Before, BuildSet
  PROVE  /\ lpc = "loop" /\ Goes("select")
         /\ UNCHANGED <<socketVars, connVars, arrayVars, queue, event, errorcount>>
<1>1. Garbage.fd \notin {mDescriptors[j].fd : j \in 1 .. Len(mDescriptors)}
  <2> SUFFICES ASSUME NEW d \in Watched, d.fd = Garbage.fd PROVE FALSE
    BY DEF Watched
  <2> QED
    BY SocketsAssumption DEF Before, SafeInv, ListInv, Conns, Garbage, Fds, ServerFd
<1> QED
  BY <1>1 DEF BuildSet, Goes, poolVars

\* The steps that take the listener from one place to another and nothing else.
Moves ==
    BuildSet \/ SelectFails \/ SelectReady \/ StartScan \/ EndScan \/ CheckShutdown
    \/ AcceptFails

LEMMA MovesFacts ==
  ASSUME Before, Moves
  PROVE  /\ lpc \in {"loop", "select", "lock", "scan", "check", "accept"}
         /\ \E place \in {"loop", "select", "lock", "scan", "check", "stop"} : Goes(place)
         /\ UNCHANGED <<file, peer, connVars, arrayVars, queue, event>>
<1>1. CASE BuildSet
  BY <1>1, BuildSetFacts DEF socketVars
<1>2. CASE SelectFails \/ SelectReady \/ StartScan \/ EndScan \/ AcceptFails
  BY <1>2 DEF SelectFails, SelectReady, StartScan, EndScan, AcceptFails, Goes, handVars, poolVars,
              socketVars, listenVars
<1>3. CASE CheckShutdown
  BY <1>3 DEF CheckShutdown, Goes, handVars, poolVars, socketVars
<1> QED
  BY <1>1, <1>2, <1>3 DEF Moves

\* The steps that leave the server alone.
Outside == StartShutdown \/ OutsideStep \/ ReadFullBlock \/ UNCHANGED vars

LEMMA OutsideFacts ==
  ASSUME Before, Outside
  PROVE  /\ UNCHANGED <<file, lpc, hpc, req, connVars, arrayVars, queue, event, errorcount>>
         /\ \A c \in Clients : peer'[c].at = "accepted" <=> peer[c].at = "accepted"
<1> USE DEF Before, SafeInv, TypeOK, SocketsTypeOK
<1>1. UNCHANGED <<file, lpc, hpc, req, connVars, arrayVars, queue, event, errorcount>>
  BY DEF Outside, StartShutdown, OutsideStep, ClientStep, Connect, HangUp, Crash, Send,
         ReadFullBlock, TakeBytes, vars, socketVars, listenVars, connVars, arrayVars, handVars,
         poolVars
<1>2. CASE UNCHANGED peer
  BY <1>1, <1>2
<1>3. CASE ClientStep
  <2>1. PICK c \in Clients : Connect(c) \/ HangUp(c) \/ Crash(c) \/ \E bytes \in 1 .. MaxUnread : Send(c, bytes)
    BY <1>3 DEF ClientStep
  <2>2. \A e \in Clients \ {c} : peer'[e] = peer[e]
    BY <2>1 DEF Connect, HangUp, Crash, Send
  <2>3. peer'[c].at = "accepted" <=> peer[c].at = "accepted"
    BY <2>1 DEF Connect, HangUp, Crash, Send, Idle
  <2> QED
    BY <1>1, <2>2, <2>3
<1>4. CASE ReadFullBlock
  BY <1>1, <1>4 DEF ReadFullBlock, TakeBytes
<1> QED
  BY <1>1, <1>2, <1>3, <1>4 DEF Outside, StartShutdown, OutsideStep, vars, socketVars

\* All the steps there are.
LEMMA AllSteps ==
  ASSUME Before, [Next]_vars
  PROVE  \/ Moves \/ Outside \/ SelectTimeout \/ ScanNext \/ Accept \/ ReadLast \/ RemoveLost
         \/ Stop \/ Iterate \/ CloseNext \/ Advance \/ CloseServer \/ Handler
BY Steps DEF Before, ListenStep, Moves, Outside, ReadLast

\* An iterator that is not exhausted is at one of its items.
LEMMA IteratorFacts ==
  ASSUME Before
  PROVE  /\ iter[0].items \in Seq(Descriptors) /\ iter[0].at \in Nat
         /\ ~Exhausted(0) /\ iter[0].at # 0 => iter[0].at \in 1 .. Len(iter[0].items)
<1>1. 0 \in Threads
  BY DEF Before, Inline, Threads
<1>2. iter[0] \in [items : Seq(Descriptors), at : Nat, stale : BOOLEAN]
  BY <1>1 DEF Before, SafeInv, TypeOK
<1> QED
  BY <1>2 DEF Exhausted

LEMMA PhaseStep == ASSUME Before, After, [Next]_vars PROVE PhaseInv'
<1> USE DEF Before, SafeInv, PhaseInv, InClose, ConnTypes, RequestTypes, Goes, Gives
<1>0. 0 \in Threads /\ hpc \in [Threads -> {"idle", "begin", "relay", "close", "remove", "shut",
                            "forget", "report", "end", "undefined"}] /\ req \in [Threads -> Given]
  BY Steps DEF TypeOK, Given
<1>1. CASE Moves
  BY <1>1, MovesFacts
<1>2. CASE Outside
  BY <1>2, OutsideFacts
<1>3. CASE SelectTimeout
  BY <1>3, TimeoutFacts DEF NoClient
<1>4. CASE ScanNext
  BY <1>4 DEF ScanNext, handVars, poolVars
<1>5. CASE Accept
  <2>1. PICK c \in Clients :
          /\ lpc = "accept" /\ queue' = queue
          /\ \/ Goes("scan")
             \/ Gives([type |-> "NewConnection", fd |-> LowestFree, client |-> c])
    BY <1>5, AcceptFacts DEF Backlog
  <2> QED
    BY <2>1
<1>6. CASE ReadLast
  <2>1. event.client \in Clients
    BY <1>6, ReadLastFacts DEF EventInv, ListInv
  <2> QED
    BY <1>6, <2>1, ReadLastFacts DEF EventRequest
<1>7. CASE RemoveLost \/ Iterate \/ Advance \/ CloseServer
  BY <1>7 DEF RemoveLost, Iterate, Advance, CloseServer, handVars, poolVars
<1>8. CASE Stop
  BY <1>0, <1>8 DEF Stop, Receive, handVars
<1>9. CASE CloseNext
  <2>1. iter[0].items[iter[0].at].client \in Clients
    BY <1>9, IteratorFacts DEF CloseNext, IterInv, Closing
  <2> QED
    BY <1>0, <1>9, <2>1 DEF CloseNext, poolVars
<1>10. CASE Handler
  <2>1. CASE Return(0)
    BY <1>0, <2>1 DEF Return, Goto, AfterRequest, poolVars
  <2>2. CASE Undefined(0)
    BY <1>0, <2>2 DEF Undefined, EndRun, poolVars
  <2>3. CASE HandleSimple(0) \/ HandleShutdownCommand(0) \/ HandleQuitOrLost(0)
             \/ HandleBroadcast(0) \/ Relay(0) \/ RelayDone(0)
    BY <1>0, <2>3 DEF HandleSimple, HandleShutdownCommand, HandleQuitOrLost, HandleBroadcast,
                 Relay, RelayDone, Goto, handVars, poolVars
  <2>4. CASE CloseTests(0) \/ CloseRemoves(0) \/ CloseShuts(0) \/ CloseForgets(0) \/ CloseReports(0)
    BY <1>0, <2>4 DEF CloseTests, CloseRemoves, CloseShuts, CloseForgets, CloseReports,
         CloseReturns, Goto, poolVars
  <2> QED
    BY <1>10, <2>1, <2>2, <2>3, <2>4 DEF Handler
<1> QED
  BY <1>1, <1>2, <1>3, <1>4, <1>5, <1>6, <1>7, <1>8, <1>9, <1>10, AllSteps

\* Connection::close, when it has a socket to remove from the listener.
LEMMA CloseRemovesFacts ==
  ASSUME Before, After, [Next]_vars, CloseRemoves(0)
  PROVE  /\ hpc[0] = "remove" /\ hpc'[0] = "shut" /\ Distinct'
         /\ Watched' = {d \in Watched : d.fd # mSocket[req[0].client]}
         /\ UNCHANGED <<file, peer, connVars, lpc, queue, event, errorcount, req>>
         /\ iter'[0].items = iter[0].items /\ iter'[0].at = iter[0].at
<1>1. /\ hpc[0] = "remove" /\ RemoveDescriptor(mSocket[req[0].client])
      /\ UNCHANGED <<file, peer, connVars, lpc, queue, event, errorcount, req>>
  BY DEF CloseRemoves, socketVars, listenVars, connVars, poolVars
<1>2. hpc'[0] = "shut"
  BY Steps DEF CloseRemoves, Goto, Before, SafeInv, TypeOK
<1>3. mSocket[req[0].client] \in Fds
  BY <1>1, UsedSocket, Steps DEF CloseRemoves, InClose, Before
<1>4. Distinct' /\ Watched' = {d \in Watched : d.fd # mSocket[req[0].client]}
  BY <1>1, <1>3, RemoveExact DEF Before, After, BaseInv, SafeInv, ListInv, NoGarbage
<1>5. iter'[0].items = iter[0].items /\ iter'[0].at = iter[0].at
  <2>1. UNCHANGED arrayVars \/ DescriptorsBecome(mDescriptors')
    BY <1>1, RemoveCases DEF Before, BaseInv
  <2> QED
    BY <2>1, Steps DEF arrayVars, DescriptorsBecome, NoIter, Before, SafeInv, TypeOK
<1> QED
  BY <1>1, <1>2, <1>4, <1>5

\* A lost connection has been removed already.
LEMMA RemoveLostFacts ==
  ASSUME Before, [Next]_vars, RemoveLost
  PROVE  lpc = "lost" /\ Goes("scan")
         /\ UNCHANGED <<file, peer, connVars, arrayVars, queue, event, errorcount>>
<1>1. lpc = "lost" /\ RemoveDescriptor(event.fd) /\ Goes("scan")
      /\ UNCHANGED <<file, peer, connVars, queue, event, errorcount>>
  BY DEF RemoveLost, Goes, handVars, poolVars, socketVars, listenVars
<1>2. \A j \in 1 .. Len(mDescriptors) : mDescriptors[j].fd # event.fd
  BY <1>1 DEF Before, SafeInv, EventInv, Watched
<1>3. UNCHANGED arrayVars
  BY <1>1, <1>2 DEF RemoveDescriptor
<1> QED
  BY <1>1, <1>3

\* When all iterators are exhausted only the server socket is left.
LEMMA CloseServerFacts ==
  ASSUME Before, After, [Next]_vars, CloseServer
  PROVE  /\ lpc = "closing" /\ Goes("stopped")
         /\ Watched' = {} /\ Distinct'
         /\ file' = [file EXCEPT ![ServerFd] = "closed"]
         /\ \A fd \in Fds : file[fd] \notin Clients
         /\ UNCHANGED <<peer, connVars, queue, event, errorcount>>
<1> USE DEF Before, SafeInv
<1>1. /\ lpc = "closing" /\ Exhausted(0) /\ RemoveDescriptor(ServerFd)
      /\ CloseAll({ServerFd} \cup LeftOpen) /\ Goes("stopped")
      /\ UNCHANGED <<connVars, queue, event, errorcount>>
  BY DEF CloseServer, Goes, handVars, poolVars, listenVars
<1>2. ServerFd \in Fds
  BY SocketsAssumption DEF ServerFd, Fds
<1>3. Distinct' /\ Watched' = {d \in Watched : d.fd # ServerFd}
  BY <1>1, <1>2, RemoveExact DEF After, BaseInv, ListInv, NoGarbage
<1>4. Conns = {}
  <2> SUFFICES ASSUME NEW d \in Conns PROVE FALSE
    OBVIOUS
  <2>1. PICK j \in 1 .. Len(iter[0].items) : iter[0].at <= j
    BY <1>1 DEF IterInv, Closing
  <2> QED
    BY <1>1, <2>1, IteratorFacts DEF Exhausted
<1>5. \A fd \in Fds : file[fd] \notin Clients
  BY <1>1, <1>2, <1>4, SocketsAssumption DEF ListInv, Conns, TableInv, PhaseInv
<1>6. Watched' = {}
  BY <1>3, <1>4 DEF Conns
<1>7. LeftOpen = {}
  BY <1>6 DEF LeftOpen, Watched
<1>8. file' = [file EXCEPT ![ServerFd] = "closed"]
  BY <1>1, <1>2, <1>7 DEF CloseAll, BaseInv
<1>9. peer' = peer
  BY <1>1, <1>5, <1>7 DEF CloseAll, TypeOK, SocketsTypeOK
<1> QED
  BY <1>1, <1>3, <1>5, <1>6, <1>8, <1>9

\* No Connection is used after it has been freed.
LEMMA LiveFacts ==
  ASSUME Before
  PROVE  UsesLive(0) /\ (hpc[0] \in InClose => req[0].client \in Clients)
<1> USE DEF Before, SafeInv
<1>1. hpc[0] \in InClose => req[0].client \in Clients /\ object[req[0].client] = "live"
  BY DEF PhaseInv, RequestInv, InClose
<1>2. hpc[0] = "begin" /\ req[0].type = "NewConnection" =>
        req[0].client \in Clients /\ object[req[0].client] = "live"
  BY DEF PhaseInv, RequestInv, TableInv, ConnTypes
<1>3. hpc[0] = "relay" /\ ~Exhausted(0) =>
        /\ iter[0].items[iter[0].at].client \in Clients
        /\ object[iter[0].items[iter[0].at].client] = "live"
  BY IteratorFacts DEF IterInv
<1> QED
  BY <1>1, <1>2, <1>3 DEF UsesLive, Uses, InClose

\* While nothing is lost no uninitialised descriptor is read.
LEMMA NothingReadsGarbage == ASSUME NoGarbage, NEW t PROVE ~ReadsGarbage(t)
BY DEF NoGarbage, Watched, ReadsGarbage

\* The steps of the handler that read, write or return.
Talks == HandleSimple(0) \/ HandleShutdownCommand(0) \/ HandleQuitOrLost(0)
           \/ HandleBroadcast(0) \/ Relay(0) \/ RelayDone(0) \/ Return(0) \/ Undefined(0)

LEMMA HandlerFacts ==
  ASSUME Before, [Next]_vars, Handler
  PROVE  \/ /\ Talks /\ hpc[0] \notin {"shut", "forget", "report"}
            /\ UNCHANGED <<socketVars, connVars, mDescriptors, queue, event, errorcount>>
         \/ CloseTests(0) \/ CloseRemoves(0) \/ CloseShuts(0) \/ CloseForgets(0)
         \/ CloseReports(0)
<1>1. Handler => Talks \/ CloseTests(0) \/ CloseRemoves(0) \/ CloseShuts(0) \/ CloseForgets(0)
                   \/ CloseReports(0)
  BY DEF Handler, Talks
<1>2. Talks => UNCHANGED <<socketVars, connVars, mDescriptors, queue, event, errorcount>>
  BY DEF Talks, HandleSimple, HandleShutdownCommand, HandleQuitOrLost, HandleBroadcast,
         Relay, RelayDone, Return, Undefined, listenVars, poolVars, arrayVars
<1>3. Undefined(0) => hpc[0] \notin {"shut", "forget", "report"}
  BY LiveFacts, NothingReadsGarbage DEF Undefined, ReadsArray, Before, SafeInv, PhaseInv
<1>4. Talks => hpc[0] \notin {"shut", "forget", "report"}
  BY <1>3 DEF Talks, HandleSimple, HandleShutdownCommand, HandleQuitOrLost, HandleBroadcast,
         Relay, RelayDone, Return
<1> QED
  BY <1>1, <1>2, <1>4

\* The steps that leave the sockets, the Connections and mDescriptors as they are.
Quiet ==
    \/ Moves \/ Outside \/ SelectTimeout \/ ScanNext \/ ReadLast \/ RemoveLost
    \/ Stop \/ Iterate \/ CloseNext \/ Advance

LEMMA QuietFacts ==
  ASSUME Before, [Next]_vars, Quiet
  PROVE  /\ UNCHANGED <<file, mSocket, object, mDescriptors>>
         /\ \A c \in Clients : peer'[c].at = "accepted" <=> peer[c].at = "accepted"
         /\ lpc' = "stopped" <=> lpc = "stopped"
         /\ hpc[0] \in {"shut", "forget", "report"} => UNCHANGED <<hpc, req>>
         /\ hpc'[0] \in {"remove", "shut", "forget", "report"} => UNCHANGED <<hpc, req>>
<1> USE DEF Before, SafeInv, PhaseInv, Goes, Gives
<1>1. CASE Moves
  BY <1>1, MovesFacts DEF connVars, arrayVars
<1>2. CASE Outside
  BY <1>2, OutsideFacts DEF connVars, arrayVars
<1>3. CASE SelectTimeout
  BY <1>3, TimeoutFacts DEF socketVars, connVars, arrayVars
<1>4. CASE ScanNext
  BY <1>4 DEF ScanNext, socketVars, connVars, arrayVars, handVars
<1>5. CASE ReadLast
  BY <1>5, ReadLastFacts
<1>6. CASE RemoveLost
  BY <1>6, RemoveLostFacts DEF connVars, arrayVars
<1>7. CASE Stop \/ CloseNext
  BY <1>7, Steps DEF Stop, CloseNext, Receive, socketVars, connVars, arrayVars, handVars, TypeOK
<1>8. CASE Iterate \/ Advance
  BY <1>8 DEF Iterate, Advance, socketVars, connVars, handVars
<1> QED
  BY <1>1, <1>2, <1>3, <1>4, <1>5, <1>6, <1>7, <1>8 DEF Quiet

\* The rest of the steps.
LEMMA QuietOrNot ==
  ASSUME Before, [Next]_vars
  PROVE  Quiet \/ Accept \/ CloseServer \/ Handler
BY AllSteps DEF Quiet

\* Where the handler is after such a step.
LEMMA TalksFacts ==
  ASSUME Before, After, [Next]_vars, Talks
  PROVE  /\ lpc' # "stopped" /\ lpc # "stopped"
         /\ hpc'[0] \notin {"remove", "shut", "forget", "report"}
<1> USE DEF Before, SafeInv
<1>1. lpc' = "stopped" => lpc = "stopped"
  <2>1. CASE Return(0)
    BY <2>1, Steps DEF Return, AfterRequest, CallInv, RequestTypes
  <2> QED
    BY <2>1 DEF Talks, HandleSimple, HandleShutdownCommand, HandleQuitOrLost, HandleBroadcast,
       Relay, RelayDone, Undefined, EndRun
<1>2. lpc # "stopped"
  BY LiveFacts, NothingReadsGarbage DEF Talks, HandleSimple, HandleShutdownCommand,
       HandleQuitOrLost, HandleBroadcast, Relay, RelayDone, Return, Undefined, ReadsArray, PhaseInv
<1>3. hpc'[0] \notin {"remove", "shut", "forget", "report"}
  BY Steps DEF Talks, HandleSimple, HandleShutdownCommand, HandleQuitOrLost, HandleBroadcast,
       Relay, RelayDone, Return, Undefined, EndRun, Goto, handVars, TypeOK
<1> QED
  BY <1>1, <1>2, <1>3

\* Connection::close without a socket returns; of a lost connection there is one.
LEMMA CloseTestsFacts ==
  ASSUME Before, [Next]_vars, CloseTests(0)
  PROVE  /\ hpc[0] = "close" /\ hpc'[0] \in {"remove", "end"}
         /\ hpc'[0] = "remove" <=> mSocket[req[0].client] # 0
         /\ UNCHANGED <<file, peer, mSocket, object, mDescriptors, iter, lpc, queue, event,
                        errorcount, req>>
<1>1. /\ hpc[0] = "close" /\ hpc'[0] \in {"remove", "end"}
      /\ hpc'[0] = "remove" <=> mSocket[req[0].client] # 0
  BY Steps DEF CloseTests, CloseReturns, Goto, Before, SafeInv, TypeOK
<1>2. object' = object
  BY <1>1 DEF CloseTests, CloseReturns, Before, SafeInv, RequestInv
<1> QED
  BY <1>1, <1>2 DEF CloseTests, socketVars, listenVars, poolVars, arrayVars

\* ::close of the socket of the Connection.
LEMMA CloseShutsFacts ==
  ASSUME Before, [Next]_vars, CloseShuts(0),
         NEW c, c = req[0].client, NEW fd, fd = mSocket[c]
  PROVE  /\ hpc[0] = "shut" /\ hpc'[0] = "forget" /\ c \in Clients
         /\ fd \in Fds /\ fd # 0 /\ file[fd] = c
         /\ file' = [file EXCEPT ![fd] = "closed"]
         /\ peer' = [e \in Clients |-> IF e = c THEN Idle("closed") ELSE peer[e]]
         /\ UNCHANGED <<mSocket, object, mDescriptors, iter, lpc, queue, event, errorcount, req>>
<1>1. hpc[0] = "shut" /\ hpc'[0] = "forget"
      /\ UNCHANGED <<mSocket, object, mDescriptors, iter, lpc, queue, event, errorcount, req>>
  BY Steps DEF CloseShuts, Goto, Before, SafeInv, TypeOK, connVars, poolVars, listenVars, arrayVars
<1>2. c \in Clients /\ fd \in Fds /\ fd # 0
  BY <1>1, LiveFacts DEF Before, SafeInv, BaseInv, RequestInv, InClose
<1>3. file[fd] = c
  BY <1>1, <1>2 DEF Before, SafeInv, TableInv
<1>4. CloseFd(fd)
  BY DEF CloseShuts
<1> QED
  BY <1>1, <1>2, <1>3, <1>4 DEF CloseFd

\* mSocket = 0.
LEMMA CloseForgetsFacts ==
  ASSUME Before, [Next]_vars, CloseForgets(0), NEW c, c = req[0].client
  PROVE  /\ hpc[0] = "forget" /\ hpc'[0] = "report" /\ c \in Clients
         /\ file[mSocket[c]] = "closed"
         /\ mSocket' = [mSocket EXCEPT ![c] = 0]
         /\ UNCHANGED <<file, peer, object, mDescriptors, iter, lpc, queue, event, errorcount, req>>
<1>1. /\ hpc[0] = "forget" /\ hpc'[0] = "report"
      /\ mSocket' = [mSocket EXCEPT ![c] = 0]
      /\ UNCHANGED <<file, peer, object, mDescriptors, iter, lpc, queue, event, errorcount, req>>
  BY Steps DEF CloseForgets, Goto, Before, SafeInv, TypeOK, socketVars, poolVars, listenVars,
               arrayVars
<1>2. c \in Clients
  BY <1>1, LiveFacts DEF InClose
<1>3. file[mSocket[c]] = "closed"
  BY <1>1 DEF Before, SafeInv, RequestInv
<1> QED
  BY <1>1, <1>2, <1>3

\* The last use of the Connection in close, and the deletion of a lost one.
LEMMA CloseReportsFacts ==
  ASSUME Before, [Next]_vars, CloseReports(0), NEW c, c = req[0].client
  PROVE  /\ hpc[0] = "report" /\ hpc'[0] = "end" /\ c \in Clients
         /\ mSocket[c] = 0
         /\ object' = IF req[0].type = "ConnectionLost" THEN [object EXCEPT ![c] = "freed"]
                      ELSE object
         /\ UNCHANGED <<file, peer, mSocket, mDescriptors, iter, lpc, queue, event, errorcount,
                        req>>
<1>1. /\ hpc[0] = "report" /\ hpc'[0] = "end"
      /\ object' = IF req[0].type = "ConnectionLost" THEN [object EXCEPT ![c] = "freed"]
                   ELSE object
      /\ UNCHANGED <<file, peer, mSocket, mDescriptors, iter, lpc, queue, event, errorcount, req>>
  BY Steps DEF CloseReports, CloseReturns, Goto, Before, SafeInv, TypeOK, socketVars, poolVars,
               listenVars, arrayVars
<1>2. c \in Clients
  BY <1>1, LiveFacts DEF InClose
<1>3. mSocket[c] = 0
  BY <1>1 DEF Before, SafeInv, RequestInv
<1> QED
  BY <1>1, <1>2, <1>3

LEMMA TableStep == ASSUME Before, After, [Next]_vars PROVE TableInv'
<1> USE DEF Before, SafeInv
<1>0. 0 \in Threads /\ hpc \in [Threads -> {"idle", "begin", "relay", "close", "remove", "shut",
                            "forget", "report", "end", "undefined"}] /\ req \in [Threads -> Given]
      /\ PhaseInv' /\ object \in [Clients -> {"none", "live", "freed"}]
      /\ file \in [Fds -> Files] /\ mSocket \in [Clients -> Fds]
      /\ peer \in [Clients -> [at : {"away", "backlog", "accepted", "closed"},
                               unread : 0 .. MaxUnread, fin : BOOLEAN, rst : BOOLEAN]]
      /\ Clients \cap {"closed", "stdin", "server"} = {} /\ 0 \in Fds /\ ServerFd \in Fds
  <2>1. 0 \in Threads
    BY Steps
  <2>2. PhaseInv'
    BY PhaseStep
  <2>3. /\ hpc \in [Threads -> {"idle", "begin", "relay", "close", "remove", "shut",
                                "forget", "report", "end", "undefined"}]
        /\ req \in [Threads -> Given] /\ object \in [Clients -> {"none", "live", "freed"}]
    BY DEF TypeOK, Given
  <2>4. /\ file \in [Fds -> Files] /\ mSocket \in [Clients -> Fds]
        /\ peer \in [Clients -> [at : {"away", "backlog", "accepted", "closed"},
                                 unread : 0 .. MaxUnread, fin : BOOLEAN, rst : BOOLEAN]]
    BY DEF TypeOK, SocketsTypeOK, BaseInv
  <2>5. Clients \cap {"closed", "stdin", "server"} = {} /\ 0 \in Fds /\ ServerFd \in Fds
    BY SocketsAssumption DEF Fds, ServerFd
  <2> HIDE DEF Before, SafeInv
  <2> QED
    BY <2>1, <2>2, <2>3, <2>4, <2>5
<1>1. CASE Quiet
  BY <1>0, <1>1, QuietFacts DEF TableInv, PhaseInv
<1>2. CASE Accept
  <2>1. PICK c \in Backlog :
           /\ lpc = "accept" /\ lpc' # "stopped" /\ hpc'[0] # "forget"
           /\ file' = [file EXCEPT ![LowestFree] = c]
           /\ peer' = [peer EXCEPT ![c].at = "accepted"]
           /\ object' = [object EXCEPT ![c] = "live"]
           /\ mSocket' = [mSocket EXCEPT ![c] = LowestFree]
    BY <1>2, AcceptFacts DEF Goes, Gives, PhaseInv
  <2>2. LowestFree \in Fds /\ file[LowestFree] = "closed" /\ c \in Clients /\ peer[c].at # "accepted"
    BY <1>2, LowestFreeFacts DEF Accept, Backlog
  <2>3. hpc[0] # "forget" /\ \A fd \in Fds : file[fd] # c
    BY <2>1, <2>2 DEF PhaseInv, TableInv
  <2>4. /\ file'[LowestFree] = c /\ \A fd \in Fds \ {LowestFree} : file'[fd] = file[fd]
        /\ mSocket'[c] = LowestFree /\ object'[c] = "live" /\ peer'[c].at = "accepted"
        /\ \A e \in Clients \ {c} : mSocket'[e] = mSocket[e] /\ object'[e] = object[e]
                                    /\ peer'[e] = peer[e]
    BY <1>0, <2>1, <2>2
  <2>5. \A fd \in Fds : file'[fd] = "stdin" <=> fd = 0
    BY <1>0, <2>2, <2>4 DEF TableInv
  <2>6. \A fd \in Fds : file'[fd] = "server" <=> fd = ServerFd /\ lpc' # "stopped"
    BY <1>0, <2>1, <2>2, <2>4 DEF TableInv
  <2>7. \A fd \in Fds : file'[fd] \in Clients =>
         peer'[file'[fd]].at = "accepted" /\ mSocket'[file'[fd]] = fd /\ object'[file'[fd]] = "live"
    BY <1>0, <2>2, <2>3, <2>4 DEF TableInv
  <2>8. \A e \in Clients : (peer'[e].at = "accepted" => file'[mSocket'[e]] = e)
                        /\ (mSocket'[e] # 0 => file'[mSocket'[e]] = e)
    <3> SUFFICES ASSUME NEW e \in Clients
                 PROVE  (peer'[e].at = "accepted" => file'[mSocket'[e]] = e)
                        /\ (mSocket'[e] # 0 => file'[mSocket'[e]] = e)
      OBVIOUS
    <3>1. CASE e = c
      BY <2>4, <3>1
    <3>2. CASE e # c
      <4>1. mSocket'[e] = mSocket[e] /\ peer'[e] = peer[e] /\ mSocket[e] \in Fds
        BY <1>0, <2>4, <3>2
      <4>2. file[mSocket[e]] = e => file'[mSocket[e]] = e
        BY <1>0, <2>2, <2>4, <4>1
      <4> QED
        BY <2>3, <4>1, <4>2 DEF TableInv
    <3> QED
      BY <3>1, <3>2
  <2> QED
    BY <2>5, <2>6, <2>7, <2>8 DEF TableInv
<1>3. CASE CloseServer
  <2>1. /\ \A fd \in Fds : file[fd] \notin Clients
        /\ file' = [file EXCEPT ![ServerFd] = "closed"]
        /\ lpc' = "stopped" /\ lpc = "closing" /\ UNCHANGED <<peer, mSocket, object>>
    BY <1>3, CloseServerFacts DEF connVars, Goes
  <2>2. \A c \in Clients : peer[c].at # "accepted" /\ mSocket[c] = 0
    BY <1>0, <2>1 DEF TableInv, PhaseInv
  <2>3. file'[ServerFd] = "closed" /\ \A fd \in Fds \ {ServerFd} : file'[fd] = file[fd]
    BY <1>0, <2>1
  <2>4. 0 # ServerFd
    BY DEF ServerFd
  <2> QED
    BY <1>0, <2>1, <2>2, <2>3, <2>4 DEF TableInv
<1>4. CASE Talks /\ hpc[0] \notin {"shut", "forget", "report"}
           /\ UNCHANGED <<socketVars, connVars>>
  BY <1>4, TalksFacts DEF TableInv, socketVars, connVars
<1>5. CASE CloseRemoves(0)
  <2>1. lpc # "stopped" /\ hpc[0] # "forget" /\ lpc' = lpc /\ hpc'[0] # "forget"
        /\ UNCHANGED <<file, peer, mSocket, object>>
    BY <1>5, CloseRemovesFacts DEF PhaseInv, connVars
  <2> QED
    BY <2>1 DEF TableInv
<1>6. CASE CloseTests(0)
  <2>1. lpc # "stopped" /\ hpc[0] # "forget" /\ lpc' = lpc /\ hpc'[0] # "forget"
        /\ UNCHANGED <<file, peer, mSocket, object>>
    BY <1>6, CloseTestsFacts DEF PhaseInv
  <2> QED
    BY <2>1 DEF TableInv
<1>7. CASE CloseShuts(0)
  <2> DEFINE c == req[0].client
             s == mSocket[c]
  <2>1. /\ hpc[0] = "shut" /\ hpc'[0] = "forget" /\ c \in Clients
        /\ s \in Fds /\ s # 0 /\ file[s] = c
        /\ file' = [file EXCEPT ![s] = "closed"]
        /\ peer' = [e \in Clients |-> IF e = c THEN Idle("closed") ELSE peer[e]]
        /\ UNCHANGED <<mSocket, object, lpc, req>>
    BY <1>7, CloseShutsFacts
  <2> HIDE DEF s
  <2>2. file'[s] = "closed" /\ \A fd \in Fds \ {s} : file'[fd] = file[fd]
    BY <1>0, <2>1
  <2>3. peer'[c].at # "accepted" /\ \A e \in Clients \ {c} : peer'[e] = peer[e] /\ mSocket[e] # 0 => mSocket[e] # s
    BY <1>0, <2>1 DEF Idle, TableInv, PhaseInv
  <2>4. \A fd \in Fds : file'[fd] = "stdin" <=> fd = 0
    BY <1>0, <2>1, <2>2 DEF TableInv
  <2>5. \A fd \in Fds : file'[fd] = "server" <=> fd = ServerFd /\ lpc' # "stopped"
    BY <1>0, <2>1, <2>2 DEF TableInv
  <2>6. \A fd \in Fds : file'[fd] \in Clients => fd # s /\ file'[fd] # c /\ file'[fd] = file[fd]
    BY <1>0, <2>1, <2>2 DEF TableInv, s
  <2>7. \A fd \in Fds : file'[fd] \in Clients =>
         peer'[file'[fd]].at = "accepted" /\ mSocket'[file'[fd]] = fd /\ object'[file'[fd]] = "live"
    BY <2>1, <2>3, <2>6 DEF TableInv
  <2>8. \A e \in Clients \ {c} : mSocket[e] # s => file'[mSocket[e]] = file[mSocket[e]]
    BY <1>0, <2>2
  <2>9. \A e \in Clients \ {c} : file[mSocket[e]] = e => mSocket[e] # s
    BY <2>1
  <2>10. \A e \in Clients : peer'[e].at = "accepted" => file'[mSocket'[e]] = e
    BY <2>1, <2>3, <2>8, <2>9 DEF TableInv
  <2>11. \A e \in Clients : mSocket'[e] # 0 =>
         file'[mSocket'[e]] = e \/ (hpc'[0] = "forget" /\ req'[0].client = e)
    BY <2>1, <2>8, <2>9 DEF TableInv
  <2> QED
    BY <2>4, <2>5, <2>7, <2>10, <2>11 DEF TableInv
<1>8. CASE CloseForgets(0)
  <2> DEFINE c == req[0].client
  <2>1. /\ hpc[0] = "forget" /\ hpc'[0] = "report" /\ c \in Clients
        /\ file[mSocket[c]] = "closed"
        /\ mSocket' = [mSocket EXCEPT ![c] = 0]
        /\ UNCHANGED <<file, peer, object, lpc, req>>
    BY <1>8, CloseForgetsFacts
  <2>2. mSocket'[c] = 0 /\ \A e \in Clients \ {c} : mSocket'[e] = mSocket[e]
    BY <1>0, <2>1
  <2>3. \A fd \in Fds : file[fd] \in Clients => file[fd] # c
    BY <1>0, <2>1 DEF TableInv
  <2>4. peer[c].at # "accepted"
    BY <1>0, <2>1 DEF TableInv
  <2> QED
    BY <1>0, <2>1, <2>2, <2>3, <2>4 DEF TableInv
<1>9. CASE CloseReports(0)
  <2> DEFINE c == req[0].client
  <2>1. /\ hpc[0] = "report" /\ hpc'[0] = "end" /\ c \in Clients
        /\ mSocket[c] = 0
        /\ object' = object \/ object' = [object EXCEPT ![c] = "freed"]
        /\ UNCHANGED <<file, peer, mSocket, lpc, req>>
    BY <1>9, CloseReportsFacts
  <2>2. \A e \in Clients \ {c} : object'[e] = object[e]
    BY <1>0, <2>1
  <2>3. \A fd \in Fds : file[fd] \in Clients => file[fd] # c
    <3>1. 0 \in Fds /\ file[0] \notin Clients
      BY <1>0, SocketsAssumption DEF TableInv, Fds
    <3> QED
      BY <1>0, <2>1, <3>1 DEF TableInv
  <2> QED
    BY <1>0, <2>1, <2>2, <2>3 DEF TableInv
<1> QED
  BY <1>1, <1>2, <1>3, <1>4, <1>5, <1>6, <1>7, <1>8, <1>9, QuietOrNot, HandlerFacts DEF connVars

\* A descriptor that is watched is open.
LEMMA WatchedOpen ==
  ASSUME Before, lpc # "stopped", NEW d \in Watched
  PROVE  d.fd \in Fds /\ file[d.fd] # "closed"
<1>1. ServerFd \in Fds /\ Clients \cap {"closed", "stdin", "server"} = {}
  BY SocketsAssumption DEF Fds, ServerFd
<1> QED
  BY <1>1 DEF Before, SafeInv, ListInv, TableInv, Conns, ServerDesc

LEMMA ListStep == ASSUME Before, After, [Next]_vars PROVE ListInv'
<1> USE DEF Before, SafeInv
<1>0. /\ hpc[0] \in {"shut", "forget", "report"} => lpc # "stopped"
      /\ mDescriptors' = mDescriptors => Watched' = Watched /\ Conns' = Conns /\ (Distinct' <=> Distinct)
      /\ Conns' = {d \in Watched' : d.fd # ServerFd}
  BY DEF PhaseInv, Watched, Conns, Distinct
<1>1. CASE Quiet
  <2>1. UNCHANGED <<file, mSocket, mDescriptors>> /\ (lpc' = "stopped" <=> lpc = "stopped")
        /\ (hpc[0] = "shut" => UNCHANGED <<hpc, req>>)
    BY <1>1, QuietFacts
  <2> QED
    BY <1>0, <2>1 DEF ListInv
<1>2. CASE Accept
  <2>1. PICK c \in Backlog :
           /\ lpc = "accept" /\ lpc' # "stopped"
           /\ file' = [file EXCEPT ![LowestFree] = c]
           /\ mDescriptors' = ArrayAdd(mDescriptors, [fd |-> LowestFree, client |-> c])
    BY <1>2, AcceptFacts DEF Goes, Gives, DescriptorsBecome
  <2>2. LowestFree \in Fds /\ file[LowestFree] = "closed" /\ c \in Clients
    BY <1>2, LowestFreeFacts DEF Accept, Backlog
  <2> DEFINE new == [fd |-> LowestFree, client |-> c]
  <2>3. new \in Descriptors
    BY <2>2 DEF Descriptors
  <2>4. Watched' = Watched \cup {new}
    BY <2>1, <2>3, AddFacts DEF BaseInv
  <2>5. \A d \in Watched : d.fd \in Fds /\ d.fd # LowestFree
    BY <2>1, <2>2, WatchedOpen
  <2>6. file'[LowestFree] = c /\ \A fd \in Fds \ {LowestFree} : file'[fd] = file[fd]
    BY <2>1, <2>2 DEF BaseInv
  <2>7. Distinct'
    <3> DEFINE n == Len(mDescriptors)
    <3>1. /\ n \in Nat /\ Len(mDescriptors') = n + 1 /\ mDescriptors'[n + 1] = new
          /\ \A j \in 1 .. n : mDescriptors'[j] = mDescriptors[j] /\ mDescriptors[j] \in Watched
      BY <2>1 DEF ArrayAdd, BaseInv, Watched
    <3>2. \A j \in 1 .. n : mDescriptors'[j].fd # new.fd
      BY <2>5, <3>1
    <3>3. \A j, k \in 1 .. n : mDescriptors[j].fd = mDescriptors[k].fd => j = k
      BY DEF ListInv, Distinct
    <3>4. \A j, k \in 1 .. n + 1 : mDescriptors'[j].fd = mDescriptors'[k].fd => j = k
      <4> HIDE DEF n, new
      <4> SUFFICES ASSUME NEW j \in 1 .. n + 1, NEW k \in 1 .. n + 1,
                          mDescriptors'[j].fd = mDescriptors'[k].fd
                   PROVE  j = k
        OBVIOUS
      <4>1. (j \in 1 .. n \/ j = n + 1) /\ (k \in 1 .. n \/ k = n + 1)
        BY <3>1
      <4> QED
        BY <3>1, <3>2, <3>3, <4>1
    <3> HIDE DEF n
    <3> QED
      BY <3>1, <3>4 DEF Distinct
  <2>8. ServerFd \in Fds /\ file[ServerFd] = "server"
    BY <2>1, SocketsAssumption DEF Fds, ServerFd, TableInv
  <2>9. LowestFree # ServerFd /\ Conns' = Conns \cup {new}
    BY <1>0, <2>2, <2>4, <2>8 DEF Conns
  <2>10. hpc[0] # "shut"
    BY <2>1 DEF PhaseInv
  <2> HIDE DEF new
  <2>11. new.fd = LowestFree /\ new.client = c
    BY DEF new
  <2>12. \A d \in Watched' : d.fd = ServerFd => d = ServerDesc
    BY <2>4, <2>9, <2>11 DEF ListInv
  <2>13. \A d \in Conns' : d.fd \in Fds /\ d.client \in Clients /\ file'[d.fd] = d.client
    BY <2>2, <2>5, <2>6, <2>9, <2>11 DEF ListInv, Conns
  <2>14. \A fd \in Fds : file'[fd] \in Clients => \E d \in Watched' : d.fd = fd
    BY <2>4, <2>6, <2>10, <2>11 DEF ListInv
  <2> QED
    BY <2>1, <2>7, <2>12, <2>13, <2>14 DEF ListInv
<1>3. CASE CloseServer
  <2>1. /\ \A fd \in Fds : file[fd] \notin Clients
        /\ file' = [file EXCEPT ![ServerFd] = "closed"]
        /\ Watched' = {} /\ Distinct'
    BY <1>3, CloseServerFacts
  <2>2. \A fd \in Fds : file'[fd] \notin Clients
    BY <2>1, SocketsAssumption DEF BaseInv
  <2> QED
    BY <1>0, <2>1, <2>2 DEF ListInv
<1>4. CASE Talks /\ hpc[0] # "shut" /\ UNCHANGED <<socketVars, mDescriptors>>
  BY <1>0, <1>4, TalksFacts DEF ListInv, socketVars
<1>5. CASE CloseRemoves(0)
  BY <1>0, <1>5, CloseRemovesFacts DEF ListInv, Conns, connVars, PhaseInv
<1>6. CASE CloseTests(0)
  BY <1>0, <1>6, CloseTestsFacts DEF ListInv
<1>7. CASE CloseShuts(0)
  <2> DEFINE s == mSocket[req[0].client]
  <2>1. /\ hpc[0] = "shut" /\ hpc'[0] = "forget" /\ s \in Fds /\ lpc' = lpc
        /\ file' = [file EXCEPT ![s] = "closed"] /\ mDescriptors' = mDescriptors
    BY <1>7, CloseShutsFacts
  <2>2. \A d \in Watched : d.fd # s
    BY <2>1 DEF RequestInv
  <2>3. file'[s] = "closed" /\ \A fd \in Fds \ {s} : file'[fd] = file[fd]
    BY <2>1 DEF BaseInv
  <2>4. \A d \in Conns : d.fd \in Fds /\ d.client \in Clients /\ file'[d.fd] = d.client
    BY <2>2, <2>3 DEF ListInv, Conns
  <2>5. \A fd \in Fds : file'[fd] \in Clients => fd # s
    BY <2>3, SocketsAssumption
  <2>6. \A fd \in Fds : file'[fd] \in Clients => \E d \in Watched : d.fd = fd
    BY <2>3, <2>5 DEF ListInv
  <2> QED
    BY <1>0, <2>1, <2>4, <2>6 DEF ListInv
<1>8. CASE CloseForgets(0) \/ CloseReports(0)
  <2>1. hpc[0] \in {"forget", "report"} /\ UNCHANGED <<file, mDescriptors, lpc>>
    BY <1>8, CloseForgetsFacts, CloseReportsFacts
  <2> QED
    BY <1>0, <2>1 DEF ListInv
<1> QED
  BY <1>1, <1>2, <1>3, <1>4, <1>5, <1>6, <1>7, <1>8, QuietOrNot, HandlerFacts

\* The steps of the handler on a request, but the last one.
Works == HandleSimple(0) \/ HandleShutdownCommand(0) \/ HandleQuitOrLost(0)
           \/ HandleBroadcast(0) \/ Relay(0) \/ RelayDone(0)

LEMMA WorksFacts ==
  ASSUME Before, [Next]_vars, Works
  PROVE  /\ lpc = "handler" /\ req[0].type \in RequestTypes
         /\ UNCHANGED <<lpc, req>>
         /\ \/ req[0].type # "ConnectionLost" /\ hpc'[0] \in {"end", "relay"}
            \/ hpc[0] = "begin" /\ hpc'[0] = "close" /\ req[0].type \in {"StreamData", "ConnectionLost"}
<1>1. hpc \in [Threads -> {"idle", "begin", "relay", "close", "remove", "shut",
                            "forget", "report", "end", "undefined"}] /\ 0 \in Threads
  BY Steps DEF Before, SafeInv, TypeOK
<1>2. hpc[0] \in {"begin", "relay"} /\ UNCHANGED <<lpc, req>>
  BY DEF Works, HandleSimple, HandleShutdownCommand, HandleQuitOrLost, HandleBroadcast,
         Relay, RelayDone, handVars
<1>3. lpc = "handler" /\ req[0].type \in RequestTypes
      /\ (hpc[0] = "relay" => req[0].type # "ConnectionLost")
  BY <1>2 DEF Before, SafeInv, PhaseInv, RequestTypes
<1>4. CASE HandleSimple(0) \/ HandleShutdownCommand(0) \/ HandleBroadcast(0)
  BY <1>1, <1>2, <1>3, <1>4 DEF HandleSimple, HandleShutdownCommand, HandleBroadcast, Goto
<1>5. CASE Relay(0) \/ RelayDone(0)
  BY <1>1, <1>2, <1>3, <1>5 DEF Relay, RelayDone, Goto, handVars
<1>6. CASE HandleQuitOrLost(0)
  BY <1>1, <1>2, <1>3, <1>6 DEF HandleQuitOrLost, Goto
<1> QED
  BY <1>2, <1>3, <1>4, <1>5, <1>6 DEF Works

LEMMA ReturnFacts ==
  ASSUME Before, [Next]_vars, Return(0)
  PROVE  /\ lpc = "handler" /\ hpc[0] = "end" /\ hpc'[0] = "idle"
         /\ req[0].type \in RequestTypes \cup {"Closing"} /\ lpc' = AfterRequest(req[0].type)
BY Steps DEF Return, Goto, Before, TypeOK, CallInv

\* No other step of the handler is without a fault, and there is none with one but an
\* iterator over an array that has changed.
LEMMA TalksCases ==
  ASSUME Before, [Next]_vars, Talks
  PROVE  Works \/ Return(0) \/ (Undefined(0) /\ lpc' = "undefined" /\ hpc'[0] = "undefined")
<1>1. Talks => Works \/ Return(0) \/ Undefined(0)
  BY DEF Talks, Works
<1>2. Undefined(0) => lpc' = "undefined" /\ hpc'[0] = "undefined"
  BY Steps DEF Before, Undefined, EndRun
<1> QED
  BY <1>1, <1>2

LEMMA EventStep == ASSUME Before, After, [Next]_vars PROVE EventInv'
<1> USE DEF Before, SafeInv, EventInv
<1>0. /\ PhaseInv /\ PhaseInv'
      /\ mDescriptors' = mDescriptors => Watched' = Watched /\ Conns' = Conns
  BY PhaseStep DEF Watched, Conns
<1>1. CASE Moves
  <2>1. lpc' \notin {"read", "lost", "handler"}
    BY <1>1, MovesFacts DEF Goes
  <2> QED
    BY <2>1
<1>2. CASE Outside
  BY <1>0, <1>2, OutsideFacts DEF arrayVars
<1>3. CASE SelectTimeout
  <2>1. lpc' \notin {"read", "lost"} /\ (lpc' = "handler" => req'[0].type = "Timeout")
    BY <1>3, TimeoutFacts DEF Goes, Gives
  <2> QED
    BY <2>1
<1>4. CASE ScanNext
  <2>1. PICK j \in Changed :
          event' = mDescriptors[j] /\ lpc' = IF mDescriptors[j].fd = ServerFd THEN "accept" ELSE "read"
    BY <1>4 DEF ScanNext
  <2>2. mDescriptors' = mDescriptors
    BY <1>4 DEF ScanNext, arrayVars
  <2>3. mDescriptors[j] \in Watched
    BY <2>1 DEF Changed, Watched, BaseInv
  <2> QED
    BY <1>0, <2>1, <2>2, <2>3 DEF Conns
<1>5. CASE Accept
  <2>1. PICK c \in Backlog : \/ Goes("scan")
                             \/ Gives([type |-> "NewConnection", fd |-> LowestFree, client |-> c])
    BY <1>5, AcceptFacts
  <2>2. lpc' \notin {"read", "lost"} /\ (lpc' = "handler" => req'[0].type = "NewConnection")
    BY <2>1 DEF Goes, Gives
  <2> QED
    BY <2>2
<1>6. CASE ReadLast
  <2>1. event' = event /\ lpc' \notin {"read", "lost"}
        /\ (lpc' = "handler" => req'[0].fd = event.fd /\ hpc'[0] = "begin")
    BY <1>6, ReadLastFacts DEF Goes, Gives, EventRequest
  <2> QED
    BY <2>1
<1>7. CASE RemoveLost \/ Iterate \/ Advance \/ CloseServer
  BY <1>7 DEF RemoveLost, Iterate, Advance, CloseServer
<1>8. CASE Stop \/ CloseNext
  <2>1. lpc' \notin {"read", "lost"} /\ (lpc' = "handler" => req'[0].type \in {"Shutdown", "Closing"})
    BY <1>8, Steps DEF Stop, CloseNext, Receive, TypeOK
  <2> QED
    BY <2>1
<1>9. CASE Talks /\ UNCHANGED <<mDescriptors, event>>
  <2>1. CASE Works
    BY <1>0, <1>9, <2>1, WorksFacts
  <2>2. CASE Return(0)
    BY <1>0, <1>9, <2>2, ReturnFacts DEF AfterRequest, RequestTypes
  <2>3. CASE lpc' = "undefined"
    BY <2>3
  <2> QED
    BY <1>9, <2>1, <2>2, <2>3, TalksCases
<1>10. CASE CloseTests(0)
  <2>1. lpc = "handler" /\ UNCHANGED <<lpc, req, event>>
        /\ (req[0].type = "ConnectionLost" => hpc'[0] = "remove")
    BY <1>0, <1>10, CloseTestsFacts DEF RequestInv, PhaseInv
  <2> QED
    BY <2>1
<1>11. CASE CloseRemoves(0)
  <2>1. /\ lpc = "handler" /\ UNCHANGED <<lpc, req, event>>
        /\ Watched' = {d \in Watched : d.fd # mSocket[req[0].client]}
        /\ (req[0].type = "ConnectionLost" => mSocket[req[0].client] = req[0].fd)
    BY <1>0, <1>11, CloseRemovesFacts DEF RequestInv, PhaseInv
  <2> QED
    BY <2>1
<1>12. CASE CloseShuts(0)
  <2>1. lpc = "handler" /\ hpc[0] = "shut" /\ UNCHANGED <<lpc, req, event, mDescriptors>>
    BY <1>0, <1>12, CloseShutsFacts DEF PhaseInv
  <2> QED
    BY <1>0, <2>1
<1>13. CASE CloseForgets(0) \/ CloseReports(0)
  <2>1. /\ lpc = "handler" /\ hpc[0] \in {"forget", "report"}
        /\ UNCHANGED <<lpc, req, event, mDescriptors>>
    BY <1>0, <1>13, CloseForgetsFacts, CloseReportsFacts DEF PhaseInv
  <2> QED
    BY <1>0, <2>1
<1> QED
  BY <1>1, <1>2, <1>3, <1>4, <1>5, <1>6, <1>7, <1>8, <1>9, <1>10, <1>11, <1>12, <1>13,
     AllSteps, HandlerFacts

LEMMA RequestStep == ASSUME Before, After, [Next]_vars PROVE RequestInv'
<1> USE DEF Before, SafeInv, RequestInv
<1>0. /\ PhaseInv /\ PhaseInv' /\ Clients \cap {"closed", "stdin", "server"} = {}
      /\ mDescriptors' = mDescriptors => Watched' = Watched
  BY PhaseStep, SocketsAssumption DEF Watched
<1>1. CASE lpc' # "handler"
  BY <1>0, <1>1 DEF PhaseInv, InClose
<1>2. CASE Outside
  BY <1>0, <1>2, OutsideFacts DEF arrayVars, connVars
<1>3. CASE SelectTimeout /\ lpc' = "handler"
  <2>1. hpc'[0] = "begin" /\ req'[0].client = "server"
    BY <1>3, TimeoutFacts DEF Goes, Gives, NoClient
  <2> QED
    BY <1>0, <2>1 DEF InClose
<1>4. CASE Accept /\ lpc' = "handler"
  <2>1. PICK c \in Backlog : Gives([type |-> "NewConnection", fd |-> LowestFree, client |-> c])
                             /\ file' = [file EXCEPT ![LowestFree] = c]
    BY <1>4, AcceptFacts DEF Goes
  <2>2. LowestFree \in Fds
    BY <1>4, LowestFreeFacts DEF Accept
  <2> QED
    BY <2>1, <2>2 DEF Gives, BaseInv, InClose
<1>5. CASE ReadLast /\ lpc' = "handler"
  <2>1. event \in Conns /\ file' = file /\ hpc'[0] = "begin"
        /\ req'[0].fd = event.fd /\ req'[0].client = event.client
    BY <1>5, ReadLastFacts DEF Goes, Gives, EventRequest, EventInv
  <2> QED
    BY <2>1 DEF ListInv, InClose
<1>6. CASE Stop /\ lpc' = "handler"
  <2>1. hpc'[0] = "begin" /\ req'[0].client = "server"
    BY <1>6, Steps DEF Stop, Receive, NoClient, TypeOK
  <2> QED
    BY <1>0, <2>1 DEF InClose
<1>7. CASE CloseNext
  <2>1. hpc'[0] = "close" /\ req'[0].type = "Closing" /\ object' = object
        /\ req'[0].client = iter[0].items[iter[0].at].client
        /\ lpc = "closing" /\ ~Exhausted(0)
    BY <1>7, Steps DEF CloseNext, connVars, TypeOK
  <2>2. object[iter[0].items[iter[0].at].client] = "live"
    BY <2>1, IteratorFacts DEF IterInv, Closing
  <2> QED
    BY <2>1, <2>2
<1>8. CASE Works /\ UNCHANGED <<socketVars, connVars>>
  <2>1. CASE hpc'[0] \in {"end", "relay"}
    BY <2>1 DEF InClose
  <2>2. CASE hpc[0] = "begin" /\ hpc'[0] = "close"
    <3>1. req' = req /\ req[0].client \in Clients
      BY <1>0, <1>8, <2>2, WorksFacts DEF PhaseInv, ConnTypes
    <3>2. req[0].fd \in Fds /\ file[req[0].fd] = req[0].client
      BY <2>2, <3>1
    <3>3. mSocket[req[0].client] = req[0].fd /\ object[req[0].client] = "live"
          /\ file[req[0].fd] # "stdin"
      BY <1>0, <3>1, <3>2 DEF TableInv
    <3>4. req[0].fd # 0
      BY <3>2, <3>3 DEF TableInv
    <3> QED
      BY <1>8, <2>2, <3>1, <3>3, <3>4 DEF connVars
  <2> QED
    BY <1>8, <2>1, <2>2, WorksFacts
<1>9. CASE CloseTests(0)
  BY <1>9, CloseTestsFacts DEF InClose
<1>10. CASE CloseRemoves(0)
  <2>1. /\ hpc[0] = "remove" /\ hpc'[0] = "shut" /\ UNCHANGED <<req, mSocket, object>>
        /\ Watched' = {d \in Watched : d.fd # mSocket[req[0].client]}
    BY <1>10, CloseRemovesFacts DEF connVars
  <2> QED
    BY <2>1 DEF InClose
<1>11. CASE CloseShuts(0)
  BY <1>11, CloseShutsFacts DEF InClose, BaseInv
<1>12. CASE CloseForgets(0) \/ CloseReports(0)
  BY <1>12, CloseForgetsFacts, CloseReportsFacts DEF InClose, BaseInv
<1>13. Moves \/ ScanNext \/ RemoveLost \/ Iterate \/ Advance \/ CloseServer => lpc' # "handler"
  BY MovesFacts DEF Goes, ScanNext, RemoveLost, Iterate, Advance, CloseServer
<1>14. Talks => Works \/ lpc' # "handler"
  BY TalksCases, ReturnFacts DEF AfterRequest, RequestTypes
<1> QED
  BY <1>1, <1>2, <1>3, <1>4, <1>5, <1>6, <1>7, <1>8, <1>9, <1>10, <1>11, <1>12, <1>13, <1>14,
     AllSteps, HandlerFacts

\* What an iterator has to visit is live.
Visits(items) ==
    \A j \in 1 .. Len(items) : items[j].fd # ServerFd =>
         items[j].fd \in Fds /\ items[j].client \in Clients /\ object[items[j].client] = "live"

\* An iterator over mDescriptors as it is.
LEMMA NewIteratorFacts ==
  ASSUME Before
  PROVE  /\ Iterator.items = mDescriptors /\ Visits(mDescriptors)
         /\ Iterator.at \in Nat /\ Iterator.at # 0
         /\ Iterator.at <= Len(mDescriptors) => mDescriptors[Iterator.at].fd # ServerFd
         /\ \A d \in Conns : \E j \in 1 .. Len(mDescriptors) : mDescriptors[j] = d /\ Iterator.at <= j
<1> USE DEF Before, SafeInv
<1>1. mDescriptors \in Seq(Descriptors) /\ Iterator.items = mDescriptors
      /\ Iterator.at = NextConn(mDescriptors, 0)
  BY DEF BaseInv, Iterator
<1>2. Visits(mDescriptors)
  <2> SUFFICES ASSUME NEW j \in 1 .. Len(mDescriptors), mDescriptors[j].fd # ServerFd
               PROVE  /\ mDescriptors[j].fd \in Fds /\ mDescriptors[j].client \in Clients
                      /\ object[mDescriptors[j].client] = "live"
    BY DEF Visits
  <2>1. mDescriptors[j] \in Conns
    BY DEF Conns, Watched
  <2> QED
    BY <2>1 DEF ListInv, TableInv
<1>3. /\ Iterator.at \in Nat /\ Iterator.at # 0
      /\ Iterator.at <= Len(mDescriptors) => mDescriptors[Iterator.at].fd # ServerFd
      /\ \A j \in 1 .. Len(mDescriptors) : mDescriptors[j].fd # ServerFd => Iterator.at <= j
  BY <1>1, NextConnFacts
<1>4. ASSUME NEW d \in Conns
      PROVE  \E j \in 1 .. Len(mDescriptors) : mDescriptors[j] = d /\ Iterator.at <= j
  BY <1>3 DEF Conns, Watched
<1> QED
  BY <1>1, <1>2, <1>3, <1>4

\* The steps that leave the iterator alone, and the Connections it has to visit.
LEMMA IterKept ==
  ASSUME Before, PhaseInv',
         iter'[0].items = iter[0].items, iter'[0].at = iter[0].at,
         Conns' \subseteq Conns,
         hpc'[0] = "relay" => hpc[0] = "relay" \/ Closing,
         Closing' => Closing,
         Closing' /\ lpc' # "closing" => lpc # "closing",
         Closing' /\ lpc' = "handler" => req'[0].client = req[0].client /\ lpc = "handler",
         Closing' => \A d \in Conns' : lpc' = "advance" \/ hpc'[0] \in {"shut", "forget", "report", "end"} =>
             lpc = "advance" \/ hpc[0] \in {"shut", "forget", "report", "end"} \/ d.client # req[0].client,
         hpc'[0] = "relay" \/ Closing' => object' = object
  PROVE  IterInv'
<1>1. Exhausted(0)' <=> Exhausted(0)
  BY DEF Exhausted
<1>2. hpc'[0] = "relay" \/ Closing' =>
         /\ iter'[0].at # 0
         /\ ~Exhausted(0)' => iter'[0].items[iter'[0].at].fd # ServerFd
         /\ \A j \in 1 .. Len(iter'[0].items) : iter'[0].items[j].fd # ServerFd =>
              /\ iter'[0].items[j].fd \in Fds /\ iter'[0].items[j].client \in Clients
              /\ object'[iter'[0].items[j].client] = "live"
  BY <1>1 DEF Before, SafeInv, IterInv
<1>3. Closing' => \A d \in Conns' : \E j \in 1 .. Len(iter'[0].items) :
         /\ iter'[0].items[j] = d /\ iter'[0].at <= j
         /\ lpc' = "advance" \/ hpc'[0] \in {"shut", "forget", "report", "end"} => iter'[0].at # j
  <2> SUFFICES ASSUME Closing', NEW d \in Conns'
               PROVE  \E j \in 1 .. Len(iter[0].items) :
                        /\ iter[0].items[j] = d /\ iter[0].at <= j
                        /\ lpc' = "advance" \/ hpc'[0] \in {"shut", "forget", "report", "end"} => iter[0].at # j
    OBVIOUS
  <2>1. PICK j \in 1 .. Len(iter[0].items) :
               /\ iter[0].items[j] = d /\ iter[0].at <= j
               /\ lpc = "advance" \/ hpc[0] \in {"shut", "forget", "report", "end"} => iter[0].at # j
    BY DEF Before, SafeInv, IterInv
  <2>2. ASSUME lpc' = "advance" \/ hpc'[0] \in {"shut", "forget", "report", "end"} PROVE iter[0].at # j
    <3>1. CASE lpc = "advance" \/ hpc[0] \in {"shut", "forget", "report", "end"}
      BY <2>1, <3>1
    <3>2. CASE d.client # req[0].client /\ ~(lpc = "advance" \/ hpc[0] \in {"shut", "forget", "report", "end"})
      <4>1. lpc' = "handler" \/ lpc' = "advance"
        BY <2>2 DEF PhaseInv, Closing
      <4>2. lpc = "handler"
        BY <3>2, <4>1 DEF Closing
      <4> QED
        BY <2>1, <3>2, <4>2 DEF Before, SafeInv, IterInv
    <3> QED
      BY <2>2, <3>1, <3>2
  <2> QED
    BY <2>1, <2>2
<1>4. (Closing' /\ lpc' # "closing" => ~Exhausted(0)')
      /\ (Closing' /\ lpc' = "handler" => req'[0].client = iter'[0].items[iter'[0].at].client)
  BY <1>1 DEF Before, SafeInv, IterInv
<1> QED
  BY <1>2, <1>3, <1>4 DEF IterInv

\* Iteration in ServerListener::shutdown: the Connection just closed is behind, and every
\* other that is watched ahead.
LEMMA IterStep == ASSUME Before, After, [Next]_vars PROVE IterInv'
<1> USE DEF Before, SafeInv
<1>0. /\ PhaseInv /\ PhaseInv' /\ 0 \in Threads
      /\ hpc \in [Threads -> {"idle", "begin", "relay", "close", "remove", "shut",
                              "forget", "report", "end", "undefined"}]
      /\ iter \in [Threads -> [items : Seq(Descriptors), at : Nat, stale : BOOLEAN]]
      /\ mDescriptors' = mDescriptors => Conns' = Conns
  BY PhaseStep, Steps DEF TypeOK, Watched, Conns
<1>1. CASE hpc'[0] # "relay" /\ ~Closing'
  BY <1>1 DEF IterInv
<1>2. CASE Outside
  <2>1. UNCHANGED <<lpc, hpc, req, iter, object, mDescriptors>>
    BY <1>2, OutsideFacts DEF connVars, arrayVars
  <2>2. (Closing' <=> Closing) /\ Conns' = Conns
    BY <1>0, <2>1 DEF Closing
  <2> QED
    BY <1>0, <2>1, <2>2, IterKept
<1>3. CASE Moves
  BY <1>0, <1>1, <1>3, MovesFacts DEF Goes, Closing, PhaseInv
<1>4. CASE SelectTimeout
  BY <1>0, <1>1, <1>4, TimeoutFacts DEF Goes, Gives, Closing, PhaseInv
<1>5. CASE ScanNext
  <2>1. lpc' \in {"accept", "read"} /\ lpc = "scan" /\ hpc' = hpc
    BY <1>5 DEF ScanNext, handVars
  <2> QED
    BY <1>0, <1>1, <2>1 DEF Closing, PhaseInv
<1>6. CASE Accept
  <2>1. PICK c \in Backlog : \/ Goes("scan")
                             \/ Gives([type |-> "NewConnection", fd |-> LowestFree, client |-> c])
    BY <1>6, AcceptFacts
  <2> QED
    BY <1>0, <1>1, <2>1 DEF Goes, Gives, Closing, PhaseInv
<1>7. CASE ReadLast
  <2>1. PICK type \in {"StreamData", "ConnectionLost"} : Goes("scan") \/ Gives(EventRequest(type))
    BY <1>7, ReadLastFacts
  <2> QED
    BY <1>0, <1>1, <2>1 DEF Goes, Gives, EventRequest, Closing, PhaseInv
<1>8. CASE RemoveLost
  BY <1>0, <1>1, <1>8, RemoveLostFacts DEF Goes, Closing, PhaseInv
<1>9. CASE Stop
  <2>1. lpc' = "iterate" \/ (hpc'[0] = "begin" /\ req'[0].type = "Shutdown" /\ lpc' = "handler")
    BY <1>9, Steps DEF Stop, Receive, TypeOK
  <2> QED
    BY <1>0, <1>1, <2>1 DEF Closing, PhaseInv
<1>10. CASE Iterate
  <2>1. lpc' = "closing" /\ iter'[0] = Iterator /\ UNCHANGED <<hpc, object, mDescriptors>>
        /\ lpc = "iterate"
    BY <1>0, <1>10 DEF Iterate, connVars, handVars
  <2>2. hpc'[0] \notin {"relay", "shut", "forget", "report", "end"}
    BY <1>0, <2>1 DEF PhaseInv
  <2>3. Exhausted(0)' <=> Iterator.at > Len(mDescriptors)
    BY <2>1, NewIteratorFacts DEF Exhausted
  <2>4. iter'[0].items = mDescriptors /\ iter'[0].at = Iterator.at /\ Conns' = Conns
    BY <2>1, NewIteratorFacts DEF Conns, Watched
  <2>5. Closing' /\ lpc' = "closing"
    BY <2>1 DEF Closing
  <2> HIDE DEF Closing, Conns
  <2>6. \A j \in 1 .. Len(mDescriptors) : mDescriptors[j].fd # ServerFd =>
          /\ mDescriptors[j].fd \in Fds /\ mDescriptors[j].client \in Clients
          /\ object'[mDescriptors[j].client] = "live"
    BY <2>1, NewIteratorFacts DEF Visits
  <2>7. \A d \in Conns' : \E j \in 1 .. Len(mDescriptors) :
          mDescriptors[j] = d /\ iter'[0].at <= j
    BY <2>4, NewIteratorFacts
  <2>8. Iterator.at # 0
        /\ (Iterator.at <= Len(mDescriptors) => mDescriptors[Iterator.at].fd # ServerFd)
    BY NewIteratorFacts
  <2> QED
    BY <2>1, <2>2, <2>3, <2>4, <2>5, <2>6, <2>7, <2>8, NewIteratorFacts DEF IterInv
<1>11. CASE CloseNext
  <2>1. /\ lpc = "closing" /\ ~Exhausted(0) /\ hpc'[0] = "close" /\ lpc' = "handler"
        /\ req'[0].client = iter[0].items[iter[0].at].client
        /\ UNCHANGED <<object, iter, mDescriptors>>
    BY <1>0, <1>11, Steps DEF CloseNext, connVars, arrayVars, TypeOK
  <2>2. Closing /\ (Exhausted(0)' <=> Exhausted(0)) /\ Conns' = Conns
    BY <1>0, <2>1 DEF Closing, Exhausted
  <2> QED
    BY <2>1, <2>2 DEF IterInv
<1>12. CASE Advance
  <2> DEFINE items == iter[0].items
             at    == iter[0].at
             next  == NextConn(items, at)
  <2>1. /\ lpc = "advance" /\ lpc' = "closing" /\ UNCHANGED <<hpc, object, mDescriptors>>
        /\ iter'[0].items = items /\ iter'[0].at = next
    BY <1>0, <1>12 DEF Advance, connVars, handVars
  <2>2. Closing /\ Conns' = Conns /\ hpc'[0] = "idle"
    BY <1>0, <2>1 DEF Closing, PhaseInv
  <2>3. items \in Seq(Descriptors) /\ at \in Nat
    BY IteratorFacts
  <2> HIDE DEF items, at, next
  <2>4. /\ next \in Nat /\ next # 0
        /\ next <= Len(items) => next \in 1 .. Len(items) /\ items[next].fd # ServerFd
        /\ \A j \in at + 1 .. Len(items) : items[j].fd # ServerFd => next <= j
    BY <2>3, NextConnFacts DEF next
  <2>5. Exhausted(0)' <=> next > Len(items)
    BY <2>1 DEF Exhausted
  <2>6. \A j \in 1 .. Len(items) : items[j].fd # ServerFd =>
              /\ items[j].fd \in Fds /\ items[j].client \in Clients
              /\ object[items[j].client] = "live"
    BY <2>2 DEF IterInv, items
  <2>7. ASSUME NEW d \in Conns PROVE \E j \in 1 .. Len(items) : items[j] = d /\ next <= j
    <3>1. PICK j \in 1 .. Len(items) : items[j] = d /\ at <= j /\ at # j
      BY <2>1, <2>2 DEF IterInv, items, at
    <3>2. j \in at + 1 .. Len(items) /\ items[j].fd # ServerFd
      BY <2>3, <3>1 DEF Conns
    <3> QED
      BY <2>4, <3>1, <3>2
  <2> QED
    BY <2>1, <2>2, <2>3, <2>4, <2>5, <2>6, <2>7 DEF IterInv
<1>13. CASE CloseServer
  BY <1>0, <1>1, <1>13, CloseServerFacts DEF Goes, Closing, PhaseInv
<1>14. CASE Works
  <2>1. lpc' = "handler" /\ ~Closing' /\ ~Closing
    BY <1>14, WorksFacts DEF Closing, RequestTypes
  <2>2. CASE HandleBroadcast(0)
    <3>1. iter'[0] = Iterator /\ UNCHANGED <<object, mDescriptors>>
      BY <1>0, <2>2 DEF HandleBroadcast, connVars
    <3>2. Exhausted(0)' <=> Iterator.at > Len(mDescriptors)
      BY <3>1, NewIteratorFacts DEF Exhausted
    <3> QED
      BY <2>1, <3>1, <3>2, NewIteratorFacts DEF IterInv, Visits, BaseInv
  <2>3. CASE Relay(0)
    <3> DEFINE items == iter[0].items
               next  == NextConn(items, iter[0].at)
    <3>1. hpc[0] = "relay" /\ object' = object /\ iter'[0].items = items /\ iter'[0].at = next
      BY <1>0, <2>3 DEF Relay, connVars
    <3>2. items \in Seq(Descriptors) /\ iter[0].at \in Nat
      BY IteratorFacts
    <3> HIDE DEF items, next
    <3>3. next \in Nat /\ next # 0 /\ (next <= Len(items) => items[next].fd # ServerFd)
      BY <3>2, NextConnFacts DEF next
    <3>4. Exhausted(0)' <=> next > Len(items)
      BY <3>1 DEF Exhausted
    <3>5. \A j \in 1 .. Len(items) : items[j].fd # ServerFd =>
              /\ items[j].fd \in Fds /\ items[j].client \in Clients
              /\ object[items[j].client] = "live"
      BY <3>1 DEF IterInv, items
    <3> QED
      BY <2>1, <3>1, <3>2, <3>3, <3>4, <3>5 DEF IterInv
  <2>4. CASE RelayDone(0) \/ HandleSimple(0) \/ HandleShutdownCommand(0) \/ HandleQuitOrLost(0)
    <3>1. hpc'[0] # "relay"
      BY <1>0, <2>4 DEF RelayDone, HandleSimple, HandleShutdownCommand, HandleQuitOrLost, Goto
    <3> QED
      BY <1>1, <2>1, <3>1
  <2> QED
    BY <1>14, <2>2, <2>3, <2>4 DEF Works
<1>15. CASE Return(0)
  <2>1. /\ lpc = "handler" /\ hpc[0] = "end" /\ hpc'[0] = "idle"
        /\ lpc' = AfterRequest(req[0].type) /\ req[0].type \in RequestTypes \cup {"Closing"}
        /\ UNCHANGED <<iter, object, mDescriptors>>
    BY <1>15, ReturnFacts DEF Return, connVars, arrayVars
  <2>2. CASE req[0].type = "Closing"
    <3>1. Closing /\ lpc' = "advance" /\ Conns' = Conns
      BY <1>0, <2>1, <2>2 DEF Closing, AfterRequest
    <3> QED
      BY <1>0, <2>1, <3>1, IterKept
  <2>3. CASE req[0].type \in RequestTypes
    BY <1>1, <2>1, <2>3 DEF Closing, AfterRequest, RequestTypes
  <2> QED
    BY <2>1, <2>2, <2>3
<1>16. CASE lpc' = "undefined"
  BY <1>0, <1>1, <1>16 DEF Closing, PhaseInv
<1>17. CASE CloseTests(0)
  <2>1. /\ hpc[0] = "close" /\ hpc'[0] \in {"remove", "end"}
        /\ hpc'[0] = "end" => mSocket[req[0].client] = 0
        /\ lpc = "handler" /\ UNCHANGED <<object, iter, mDescriptors, lpc, req>>
    BY <1>0, <1>17, CloseTestsFacts DEF PhaseInv
  <2>2. (Closing' <=> Closing) /\ Conns' = Conns
    BY <1>0, <2>1 DEF Closing
  <2>3. mSocket[req[0].client] = 0 => \A d \in Conns : d.client # req[0].client
    BY SocketsAssumption DEF ListInv, TableInv, Fds
  <2> QED
    BY <1>0, <2>1, <2>2, <2>3, IterKept
<1>18. CASE CloseRemoves(0)
  <2>1. /\ hpc[0] = "remove" /\ hpc'[0] = "shut" /\ lpc = "handler"
        /\ iter'[0].items = iter[0].items /\ iter'[0].at = iter[0].at
        /\ Watched' = {d \in Watched : d.fd # mSocket[req[0].client]}
        /\ UNCHANGED <<object, lpc, req>>
    BY <1>0, <1>18, CloseRemovesFacts DEF PhaseInv, connVars
  <2>2. (Closing' <=> Closing) /\ Conns' = {d \in Conns : d.fd # mSocket[req[0].client]}
    BY <2>1 DEF Closing, Conns
  <2>3. \A d \in Conns' : d.client # req[0].client
    BY <2>2 DEF ListInv, TableInv
  <2> QED
    BY <1>0, <2>1, <2>2, <2>3, IterKept
<1>19. CASE CloseShuts(0)
  <2>1. /\ hpc[0] = "shut" /\ hpc'[0] = "forget" /\ lpc = "handler"
        /\ UNCHANGED <<object, iter, mDescriptors, lpc, req>>
    BY <1>0, <1>19, CloseShutsFacts DEF PhaseInv
  <2>2. (Closing' <=> Closing) /\ Conns' = Conns
    BY <1>0, <2>1 DEF Closing
  <2> QED
    BY <1>0, <2>1, <2>2, IterKept
<1>20. CASE CloseForgets(0) \/ CloseReports(0)
  <2>1. /\ hpc[0] \in {"forget", "report"} /\ hpc'[0] \in {"report", "end"} /\ lpc = "handler"
        /\ req[0].type # "ConnectionLost" => object' = object
        /\ UNCHANGED <<iter, mDescriptors, lpc, req>>
    BY <1>0, <1>20, CloseForgetsFacts, CloseReportsFacts DEF PhaseInv
  <2>2. (Closing' <=> Closing) /\ Conns' = Conns /\ (Closing => object' = object)
    BY <1>0, <2>1 DEF Closing
  <2> QED
    BY <1>0, <2>1, <2>2, IterKept
<1> QED
  BY <1>2, <1>3, <1>4, <1>5, <1>6, <1>7, <1>8, <1>9, <1>10, <1>11, <1>12, <1>13, <1>14, <1>15,
     <1>16, <1>17, <1>18, <1>19, <1>20, AllSteps, HandlerFacts, TalksCases

-----------------------------------------------------------------------------
(* The types.                                                              *)

-----------------------------------------------------------------------------
(* The theorems.                                                           *)

\* Types, and as long as nothing is lost the rest.
ServerInv == TypeInv /\ (NoGarbage => SafeInv)

\* What there is at the start.
LEMMA InitFacts ==
  ASSUME Init
  PROVE  /\ MaxFd \in Nat \ {0} /\ MaxUnread \in Nat /\ MaxSelectErrors \in Nat
         /\ Clients \cap {"closed", "stdin", "server"} = {}
         /\ 0 \in Fds /\ ServerFd \in Fds /\ 0 # ServerFd /\ 0 \in Threads
         /\ ServerDesc \in Descriptors /\ ServerDesc.fd = ServerFd /\ ServerDesc.client \notin Clients
         /\ mDescriptors \in Seq(Descriptors) /\ Len(mDescriptors) = 1
         /\ mDescriptors[1] = ServerDesc /\ Watched = {ServerDesc} /\ Conns = {}
         /\ file \in [Fds -> Files] /\ file[0] = "stdin" /\ file[ServerFd] = "server"
         /\ \A fd \in Fds : fd # 0 /\ fd # ServerFd => file[fd] = "closed"
         /\ peer \in [Clients -> Peers] /\ \A c \in Clients : peer[c].at = "away"
<1>1. /\ MaxFd \in Nat \ {0} /\ MaxUnread \in Nat /\ MaxSelectErrors \in Nat
      /\ Clients \cap {"closed", "stdin", "server"} = {}
      /\ 0 \in Fds /\ ServerFd \in Fds /\ 0 # ServerFd /\ 0 \in Threads
  BY SocketsAssumption, ListenerAssumption DEF Fds, ServerFd, Threads
<1>2. ServerDesc \in Descriptors /\ ServerDesc.fd = ServerFd /\ ServerDesc.client \notin Clients
  BY <1>1 DEF ServerDesc, Descriptors, NoClient
<1>3. /\ mDescriptors \in Seq(Descriptors) /\ Len(mDescriptors) = 1
      /\ mDescriptors[1] = ServerDesc /\ Watched = {ServerDesc} /\ Conns = {}
  BY <1>2 DEF Init, Watched, Conns
<1>4. /\ file \in [Fds -> Files] /\ file[0] = "stdin" /\ file[ServerFd] = "server"
      /\ \A fd \in Fds : fd # 0 /\ fd # ServerFd => file[fd] = "closed"
  BY <1>1 DEF Init, SocketsInit, Files
<1>5. peer \in [Clients -> Peers] /\ \A c \in Clients : peer[c].at = "away"
  BY <1>1 DEF Init, SocketsInit, Idle, Peers
<1> QED
  BY <1>1, <1>2, <1>3, <1>4, <1>5

LEMMA TypeInit == ASSUME Init PROVE TypeInv
<1>1. NoReq \in Given /\ NoIter \in Iters
  BY DEF Given, NoIter, Iters
<1>2. BaseInv
  <2>1. fdset = {} /\ pos = 1 /\ event = ServerDesc /\ mSocket = [c \in Clients |-> 0]
    BY DEF Init
  <2> QED
    BY <2>1, InitFacts DEF BaseInv
<1>3. TypeOK
  <2>1. SocketsTypeOK
    BY InitFacts DEF SocketsTypeOK, Peers
  <2>2. /\ mShutdownStatus \in BOOLEAN /\ gotData \in BOOLEAN /\ joined \in BOOLEAN
        /\ reclosed \in BOOLEAN /\ lockHolder \in {-1} \cup Threads /\ lpc \in Places
    BY DEF Init, Places
  <2>3. errorcount \in 0 .. MaxSelectErrors + 1 /\ queue \in Seq(Requests)
    <3>1. errorcount = 0 /\ queue = << >>
      BY DEF Init
    <3> QED
      BY <3>1, ListenerAssumption
  <2>4. object \in [Clients -> {"none", "live", "freed"}]
        /\ taken \in [Clients -> RequestTypes \cup {"none"}]
    BY DEF Init
  <2>5. hpc \in [Threads -> Phases] /\ req \in [Threads -> Given] /\ iter \in [Threads -> Iters]
    BY <1>1 DEF Init, Phases
  <2> QED
    BY <1>2, <2>1, <2>2, <2>3, <2>4, <2>5 DEF TypeOK, BaseInv, Places, Phases, Given, Iters
<1>4. CallInv /\ ErrorInv
  <2>1. hpc = [t \in Threads |-> "idle"] /\ errorcount = 0
    BY DEF Init
  <2> QED
    BY <2>1, ListenerAssumption DEF CallInv, ErrorInv, Threads
<1> QED
  BY <1>2, <1>3, <1>4 DEF TypeInv

LEMMA ServerInit == ASSUME Inline, Init PROVE ServerInv
<1>1. Threads = {0}
  BY DEF Inline, Threads
<1>2. PhaseInv /\ EventInv /\ RequestInv /\ IterInv
  BY <1>1, InitFacts DEF Init, PhaseInv, EventInv, RequestInv, IterInv, Closing, InClose
<1>3. TableInv
  BY InitFacts DEF Init, TableInv
<1>4. ListInv
  <2>1. lpc = "loop"
    BY DEF Init
  <2> QED
    BY <2>1, InitFacts DEF ListInv, Distinct
<1> QED
  BY <1>2, <1>3, <1>4, TypeInit DEF ServerInv, SafeInv

LEMMA ServerStep == ASSUME Inline, ServerInv, [Next]_vars PROVE ServerInv'
<1>1. TypeInv' /\ (NoGarbage' => NoGarbage)
  BY TypeStep, BaseStep DEF ServerInv, TypeInv, NoGarbage
<1>2. ASSUME NoGarbage' PROVE SafeInv'
  <2>1. Before /\ After
    BY <1>1, <1>2 DEF ServerInv, TypeInv, Before, After
  <2> QED
    BY <2>1, PhaseStep, TableStep, ListStep, EventStep, RequestStep, IterStep DEF SafeInv
<1> QED
  BY <1>1, <1>2 DEF ServerInv

LEMMA ServerInvariant == ASSUME Inline PROVE Spec => []ServerInv
<1>1. Init => ServerInv
  BY ServerInit
<1>2. ServerInv /\ [Next]_vars => ServerInv'
  BY ServerStep
<1> QED
  BY <1>1, <1>2, PTL DEF Spec

\* What the invariant says of what the runs check.
LEMMA Consequences ==
  ASSUME Inline, ServerInv, NoGarbage
  PROVE  WatchedConnections /\ StoppedClosesAll /\ ConnectionsUsedLive /\ RequestMatchesSocket
<1> USE DEF Before, SafeInv
<1>1. Before /\ Threads = {0} /\ Clients \cap {"closed", "stdin", "server"} = {} /\ ServerFd \in Fds
  BY SocketsAssumption DEF ServerInv, TypeInv, Inline, Threads, Fds, ServerFd
<1>2. WatchedConnections
  <2>1. \A d \in Watched \ {ServerDesc} :
           file[d.fd] = d.client /\ object[d.client] = "live" /\ mSocket[d.client] = d.fd
    BY <1>1 DEF ListInv, TableInv, Conns
  <2>2. ASSUME NEW c \in Clients, peer[c].at = "accepted"
        PROVE  (\E d \in Watched : d.client = c) \/ (hpc[0] = "shut" /\ req[0].client = c)
    <3>1. file[mSocket[c]] = c /\ mSocket[c] \in Fds
      BY <1>1, <2>2 DEF TableInv, BaseInv
    <3>2. CASE \E d \in Watched : d.fd = mSocket[c]
      <4>1. PICK d \in Watched : d.fd = mSocket[c]
        BY <3>2
      <4>2. d.fd # ServerFd
        BY <1>1, <3>1, <4>1 DEF TableInv, ListInv, PhaseInv
      <4> QED
        BY <1>1, <3>1, <4>1, <4>2 DEF ListInv, Conns
    <3>3. CASE hpc[0] = "shut" /\ mSocket[c] = mSocket[req[0].client]
      <4>1. req[0].client \in Clients /\ file[mSocket[req[0].client]] = req[0].client
        BY <1>1, <3>3, LiveFacts DEF InClose, TableInv, RequestInv
      <4> QED
        BY <3>1, <3>3, <4>1
    <3> QED
      BY <1>1, <3>1, <3>2, <3>3 DEF ListInv
  <2>3. Distinct
    BY <1>1 DEF ListInv
  <2> QED
    BY <1>1, <2>1, <2>2, <2>3 DEF WatchedConnections, Distinct
<1>3. StoppedClosesAll
  BY <1>1 DEF StoppedClosesAll, TableInv, ListInv, PhaseInv, BaseInv, Files
<1>4. ConnectionsUsedLive
  BY <1>1, LiveFacts DEF ConnectionsUsedLive
<1>5. RequestMatchesSocket
  BY <1>1 DEF RequestMatchesSocket, RequestInv, TableInv
<1> QED
  BY <1>1, <1>2, <1>3, <1>4, <1>5

\* In an array of up to three Array::remove loses nothing.
LEMMA ShortStep ==
  ASSUME Inline, ServerInv, NoGarbage, Len(mDescriptors) <= 3, [Next]_vars
  PROVE  NoGarbage'
<1>1. BaseInv /\ Garbage.fd \notin Fds
  BY SocketsAssumption DEF ServerInv, TypeInv, Garbage, Fds
<1>2. CASE mDescriptors' = mDescriptors
  BY <1>2 DEF NoGarbage, Watched
<1>3. ASSUME NEW fd, RemoveDescriptor(fd) PROVE NoGarbage'
  <2>1. CASE UNCHANGED arrayVars
    BY <1>2, <2>1 DEF arrayVars
  <2>2. ASSUME NEW p \in 1 .. Len(mDescriptors),
               mDescriptors' = ArrayRemove(mDescriptors, p - 1, Garbage)
        PROVE  NoGarbage'
    <3>1. mDescriptors' = Shifted(mDescriptors, p - 1)
      <4>1. p - 1 \in 0 .. Len(mDescriptors) - 1
        BY <1>1, <2>2 DEF BaseInv
      <4> QED
        BY <1>1, <2>2, <4>1, ShortArraysShift DEF BaseInv
    <3>2. Len(mDescriptors) \in Nat /\ Len(mDescriptors') = Len(mDescriptors) - 1
      BY <1>1, <1>3, <2>2, <3>1, RemoveTypes DEF BaseInv, Shifted
    <3>3. \A j \in 1 .. Len(mDescriptors') : mDescriptors'[j] \in Watched
      <4> SUFFICES ASSUME NEW j \in 1 .. Len(mDescriptors') PROVE mDescriptors'[j] \in Watched
        OBVIOUS
      <4>1. j \in 1 .. Len(mDescriptors) /\ j + 1 \in 1 .. Len(mDescriptors)
        BY <3>2
      <4>2. mDescriptors'[j] = mDescriptors[j] \/ mDescriptors'[j] = mDescriptors[j + 1]
        BY <3>1, <3>2 DEF Shifted
      <4> QED
        BY <4>1, <4>2 DEF Watched
    <3> QED
      BY <3>3 DEF NoGarbage, Watched
  <2> QED
    BY <1>1, <1>3, <2>1, <2>2, RemoveCases DEF BaseInv
<1>4. CASE Accept
  <2>1. PICK c \in Backlog : mDescriptors' = ArrayAdd(mDescriptors, [fd |-> LowestFree, client |-> c])
    BY <1>4 DEF Accept, DescriptorsBecome
  <2>2. LowestFree \in Fds /\ c \in Clients
    BY <1>4, LowestFreeFacts DEF Accept, Backlog
  <2>3. [fd |-> LowestFree, client |-> c] \in Descriptors /\ [fd |-> LowestFree, client |-> c] # Garbage
    BY <1>1, <2>2 DEF Descriptors
  <2> QED
    BY <1>1, <2>1, <2>3, AddFacts DEF BaseInv, NoGarbage
<1>5. CASE RemoveLost \/ CloseServer \/ CloseRemoves(0)
  BY <1>3, <1>5 DEF RemoveLost, CloseServer, CloseRemoves
<1>6. ListenStep => mDescriptors' = mDescriptors \/ Accept \/ RemoveLost \/ CloseServer
  BY DEF ListenStep, BuildSet, SelectFails, SelectReady, SelectTimeout, StartScan, ScanNext,
         EndScan, CheckShutdown, AcceptFails, ReadFullBlock, ReadRest, ReadEnd, ReadReset,
         ReadClosed, Stop, Iterate, CloseNext, Advance, arrayVars
<1>7. Handler => mDescriptors' = mDescriptors \/ CloseRemoves(0)
  BY DEF Handler, HandleSimple, HandleShutdownCommand, HandleQuitOrLost, HandleBroadcast, Relay,
         RelayDone, CloseTests, CloseShuts, CloseForgets, CloseReports, Return, Undefined, arrayVars
<1>8. StartShutdown \/ OutsideStep \/ UNCHANGED vars => mDescriptors' = mDescriptors
  BY DEF StartShutdown, OutsideStep, vars, arrayVars
<1> QED
  BY <1>2, <1>4, <1>5, <1>6, <1>7, <1>8, Steps

\* The variables keep their types, with a pool of any size or none, for any number of clients
\* and descriptors, and also when Array::remove has left uninitialised memory in mDescriptors.
THEOREM ServerTypes == Spec => []TypeOK
<1>1. Init => TypeInv
  BY TypeInit
<1>2. TypeInv /\ [Next]_vars => TypeInv'
  BY TypeStep
<1>3. TypeInv => TypeOK
  BY DEF TypeInv
<1> QED
  BY <1>1, <1>2, <1>3, PTL DEF Spec

\* With any number of connections, until Array::remove loses a descriptor: mDescriptors, the
\* descriptor table, mSocket and the Connections agree.  Every descriptor that is watched is
\* the socket of the client whose live Connection is stored with it, and every client that has
\* been accepted is watched until close is about to close its socket.
THEOREM SafeUntilLoss == ASSUME Inline PROVE Spec => [](NoGarbage => WatchedConnections)
<1>1. ServerInv => (NoGarbage => WatchedConnections)
  BY Consequences
<1> QED
  BY <1>1, ServerInvariant, PTL

\* Until then a listener that has returned has closed the server and all the connections: a
\* descriptor that Array::remove loses stays open.
THEOREM ServerClosesAll == ASSUME Inline PROVE Spec => [](NoGarbage => StoppedClosesAll)
<1>1. ServerInv => (NoGarbage => StoppedClosesAll)
  BY Consequences
<1> QED
  BY <1>1, ServerInvariant, PTL

\* Until then neither MyHandler nor Connection::close uses a Connection that has been deleted:
\* afterwards an iterator may find one in uninitialised memory.
THEOREM ServerUsesLive == ASSUME Inline PROVE Spec => [](NoGarbage => ConnectionsUsedLive)
<1>1. ServerInv => (NoGarbage => ConnectionsUsedLive)
  BY Consequences
<1> QED
  BY <1>1, ServerInvariant, PTL

\* Until then the handler is entered with the descriptor that the Connection of its request has.
THEOREM ServerRequestsMatch == ASSUME Inline PROVE Spec => [](NoGarbage => RequestMatchesSocket)
<1>1. ServerInv => (NoGarbage => RequestMatchesSocket)
  BY Consequences
<1> QED
  BY <1>1, ServerInvariant, PTL

\* Array::remove loses nothing as long as at most two connections are open at a time: all of
\* the above holds for a server that never has more.
THEOREM NothingLostOfThree ==
  ASSUME Inline
  PROVE  Spec /\ [](Len(mDescriptors) <= 3) => []NoGarbage
<1>1. Init => NoGarbage
  BY InitFacts, SocketsAssumption DEF NoGarbage, ServerDesc, Garbage, ServerFd
<1>2. NoGarbage /\ ServerInv /\ Len(mDescriptors) <= 3 /\ [Next]_vars => NoGarbage'
  BY ShortStep
<1> QED
  BY <1>1, <1>2, ServerInvariant, PTL DEF Spec
=============================================================================
