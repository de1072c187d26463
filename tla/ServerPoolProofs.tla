-------------------------- MODULE ServerPoolProofs --------------------------
(***************************************************************************)
(* Proofs about ServerListener with a WorkerPool of any size, as in        *)
(* msrvsample_worker, and any number of clients and descriptors.           *)
(*                                                                         *)
(* Workers close connections while the listener waits in select.  What     *)
(* keeps them apart is the order of Connection::close: the descriptor is   *)
(* taken out of the listener before it is closed.  Two workers in close of *)
(* one Connection defeat it, as the second ::close may hit the number of   *)
(* another client: what is proved holds until ::close has been called a    *)
(* second time for a client that was closed.  The proofs of what is        *)
(* watched, PoolWatchesOnlyOpen and what rests on it, allow for what       *)
(* Array::remove loses; that nothing is forgotten holds until it does.     *)
(***************************************************************************)
EXTENDS ServerListenerProofs

-----------------------------------------------------------------------------
(* The inductive invariant.                                                *)

\* The descriptors in mDescriptors but for uninitialised memory.
Real == Watched \ {Garbage}

Dying   == {"remove", "shut", "forget", "report"}
Awaited == {"away", "backlog"}      \* a client that has not been accepted
Ended   == {"stopped", "undefined"}

\* No descriptor is watched twice, and what is watched is open.
OneEach ==
    \A j, k \in 1 .. Len(mDescriptors) :
        mDescriptors[j].fd = mDescriptors[k].fd => j = k \/ mDescriptors[j] = Garbage

OpenInv ==
    /\ OneEach
    /\ lpc \notin Ended =>
         /\ file[ServerFd] = "server"
         /\ \A d \in Real \ {ServerDesc} : d.client \in Clients /\ file[d.fd] = d.client

\* The descriptor table and the Connections.
OwnerInv ==
    /\ \A fd \in Fds : file[fd] \in Clients =>
         peer[file[fd]].at = "accepted" /\ mSocket[file[fd]] = fd
    /\ \A c \in Clients : peer[c].at = "accepted" => file[mSocket[c]] = c
    /\ \A c \in Clients : object[c] # "none" => peer[c].at \notin Awaited

\* Threads in Connection::close: the first one there has taken the descriptor out.
DyingInv ==
    \A t \in Threads : hpc[t] \in Dying =>
        /\ req[t].client \in Clients /\ object[req[t].client] # "none"
        /\ hpc[t] = "shut" /\ peer[req[t].client].at = "accepted" /\ lpc \notin Ended =>
             \A d \in Real : d.client # req[t].client
        /\ hpc[t] \in {"forget", "report"} => peer[req[t].client].at = "closed"

\* Failures counted and, if select is about to fail, the next one.
ClosedClients == {c \in Clients : peer[c].at = "closed"}
Failing == lpc = "select" /\ \E fd \in fdset : file[fd] = "closed"

CountInv == errorcount + (IF Failing THEN 1 ELSE 0) <= Cardinality(ClosedClients)

\* The requests about a client: those in the queue, after the one taken last.
LifeTypes == {"NewConnection", "StreamData", "ConnectionLost"}
Later == {<<"NewConnection", "StreamData">>, <<"NewConnection", "ConnectionLost">>,
          <<"StreamData", "StreamData">>, <<"StreamData", "ConnectionLost">>}

Queued(c, type) == \E i \in 1 .. Len(queue) : queue[i].client = c /\ queue[i].type = type

Fresh(c) == taken[c] = "none" /\ \A i \in 1 .. Len(queue) : queue[i].client # c
Known(c) == taken[c] # "none" \/ Queued(c, "NewConnection")
Lost(c)  == taken[c] = "ConnectionLost" \/ Queued(c, "ConnectionLost")

\* They are in the order of the client's life.
OrderInv ==
    /\ queue \in Seq(Requests)
    /\ taken \in [Clients -> LifeTypes \cup {"none"}]
    /\ ~Pooled => queue = << >>
    /\ \A i \in 1 .. Len(queue) : queue[i].client \in Clients =>
         /\ queue[i].type \in LifeTypes
         /\ taken[queue[i].client] # "none" =>
              <<taken[queue[i].client], queue[i].type>> \in Later
         /\ taken[queue[i].client] = "none" /\ queue[i].type # "NewConnection" =>
              \E k \in 1 .. i - 1 : /\ queue[k].client = queue[i].client
                                    /\ queue[k].type = "NewConnection"
    /\ \A j \in 1 .. Len(queue) : \A i \in 1 .. j - 1 :
         queue[i].client = queue[j].client /\ queue[j].client \in Clients =>
           <<queue[i].type, queue[j].type>> \in Later

\* descriptorEvent has dispatched the loss of the connection it is handling.
Losing == lpc \in {"lost", "undefined"} \/ (lpc = "handler" /\ req[0].type = "ConnectionLost")

\* A client is asked about from accept to the loss of its connection, while it is watched.
AskedInv ==
    /\ \A c \in Clients : peer[c].at \in Awaited => Fresh(c)
    /\ \A d \in Real : d.client \in Clients => Known(d.client)
    /\ \A c \in Clients : Lost(c) =>
         (\A d \in Real : d.client # c) \/ (event.client = c /\ Losing)
    /\ event.client \in Clients =>
         /\ Known(event.client) /\ peer[event.client].at \notin Awaited
         /\ \A d \in Real : d.client = event.client => d.fd = event.fd
    /\ lpc = "read" => event.client \in Clients /\ ~Lost(event.client)

\* Standard input is not closed for a Connection whose mSocket is 0.
FreedInv ==
    /\ file[0] = "stdin"
    /\ \A c \in Clients : object[c] = "freed" => peer[c].at = "closed"
    /\ \A c \in Clients : object[c] = "none" => peer[c].at \in Awaited

\* The loss of a client is handled once, by one thread, and then it is deleted.
Loses(t) == req[t].type = "ConnectionLost" /\ hpc[t] \notin {"end", "undefined"}

LossInv ==
    /\ \A t \in Threads : Loses(t) =>
         /\ req[t].client \in Clients /\ taken[req[t].client] = "ConnectionLost"
         /\ object[req[t].client] = "live"
    /\ \A t, u \in Threads : Loses(t) /\ Loses(u) /\ req[t].client = req[u].client => t = u
    /\ \A c \in Clients : object[c] = "freed" => taken[c] = "ConnectionLost"
    /\ \A i \in 1 .. Len(queue) : queue[i].type = "ConnectionLost" => queue[i].client \in Clients

\* The listener handles an event of a client that is lost, or not known to be.
Reporting == lpc = "lost" \/ (lpc = "handler" /\ req[0].type = "ConnectionLost")

\* Thread t is to close the Connection of client c because it is lost; or it is about to close
\* the descriptor of c, on purpose or because that was the number of a closed client.
Ends(t, c)  == /\ req[t].type = "ConnectionLost" /\ req[t].client = c
               /\ hpc[t] \in {"begin", "close", "remove", "shut"}
Shuts(t, c) == /\ hpc[t] = "shut"
               /\ (req[t].client = c \/ peer[req[t].client].at = "closed")

Watching(c) == lpc # "stopped" /\ \E d \in Watched : d.client = c
ToClose(c)  == \/ Queued(c, "ConnectionLost")
               \/ \E t \in Threads : Ends(t, c) \/ Shuts(t, c)

\* Undefined behaviour ends the run.
UndefInv == lpc = "undefined" => \A t \in Threads : hpc[t] = "undefined"

\* An open socket that is no longer watched will be closed.
KeepInv ==
    /\ UndefInv
    /\ NoGarbage /\ lpc # "undefined" =>
         /\ \A c \in Clients : peer[c].at = "accepted" => Watching(c) \/ ToClose(c)
         /\ \A c \in Clients : peer[c].at = "accepted" /\ taken[c] = "ConnectionLost" =>
              \E t \in Threads : Ends(t, c)
         /\ lpc = "read" \/ Reporting =>
              \A d \in Watched : d.fd = event.fd => d.client = event.client
         /\ Reporting => event.client \in Clients /\ Lost(event.client)

PoolInv ==
    /\ TypeInv
    /\ ~reclosed => /\ OpenInv /\ OwnerInv /\ DyingInv /\ FreedInv
                    /\ IsFiniteSet(Clients) => CountInv
                    /\ "NewConnection" \in RequestMask => OrderInv /\ AskedInv /\ LossInv
                    /\ {"NewConnection", "ConnectionLost"} \subseteq RequestMask => KeepInv
-----------------------------------------------------------------------------
(* mDescriptors.                                                           *)

\* removeDescriptor takes out the descriptor it is given, and may lose others.
LEMMA RemoveReal ==
  ASSUME mDescriptors \in Seq(Descriptors), NEW fd \in Fds, RemoveDescriptor(fd), OneEach
  PROVE  OneEach' /\ Real' \subseteq {d \in Real : d.fd # fd}
<1>1. CASE UNCHANGED arrayVars /\ \A j \in 1 .. Len(mDescriptors) : mDescriptors[j].fd # fd
  BY <1>1 DEF arrayVars, Real, Watched, OneEach
<1>2. ASSUME NEW p \in 1 .. Len(mDescriptors), mDescriptors[p].fd = fd,
             mDescriptors' = ArrayRemove(mDescriptors, p - 1, Garbage)
      PROVE  OneEach' /\ Real' \subseteq {d \in Real : d.fd # fd}
  <2> DEFINE n == Len(mDescriptors) - 1
  <2>1. n \in Nat /\ p \in 1 .. n + 1 /\ Len(mDescriptors) = n + 1
    BY <1>2
  <2>2. Len(mDescriptors') = n
    BY <1>2, <2>1, RemoveTypes DEF ArrayRemove
  <2>3. \A j \in 1 .. n : mDescriptors'[j] =
           IF j < p THEN mDescriptors[j]
           ELSE IF CopiesUpperPart(n + 1, p - 1) THEN mDescriptors[j + 1] ELSE Garbage
    BY <1>2, <2>1 DEF ArrayRemove
  <2>4. \A j, k \in 1 .. n + 1 :
           mDescriptors[j].fd = mDescriptors[k].fd => j = k \/ mDescriptors[j] = Garbage
    BY <2>1 DEF OneEach
  <2>5. Garbage.fd \notin Fds
    BY SocketsAssumption DEF Garbage, Fds
  <2> HIDE DEF n
  <2>6. ASSUME NEW j \in 1 .. n
        PROVE  \/ mDescriptors'[j] = Garbage
               \/ j < p /\ mDescriptors'[j] = mDescriptors[j]
               \/ j >= p /\ mDescriptors'[j] = mDescriptors[j + 1]
                         /\ CopiesUpperPart(n + 1, p - 1)
    BY <2>1, <2>3
  <2>7. ASSUME NEW j \in 1 .. n, NEW k \in 1 .. n,
               mDescriptors'[j].fd = mDescriptors'[k].fd, mDescriptors'[j] # Garbage
        PROVE  j = k
    <3>1. j + 1 \in 1 .. n + 1 /\ k + 1 \in 1 .. n + 1 /\ j \in 1 .. n + 1 /\ k \in 1 .. n + 1
      BY <2>1
    <3>2. mDescriptors'[k] # Garbage
      <4> SUFFICES ASSUME mDescriptors'[k] = Garbage PROVE FALSE
        OBVIOUS
      <4>1. mDescriptors'[j] \in Descriptors
        BY <1>2, <2>2, RemoveTypes
      <4> QED
        BY <2>5, <2>7, <4>1 DEF Descriptors
    <3> QED
      BY <2>1, <2>4, <2>6, <2>7, <3>1, <3>2
  <2>8. OneEach'
    BY <2>2, <2>7 DEF OneEach
  <2>9. ASSUME NEW d \in Real' PROVE d \in Real /\ d.fd # fd
    <3>1. PICK j \in 1 .. n : d = mDescriptors'[j] /\ d # Garbage
      BY <2>2, <2>9 DEF Real, Watched
    <3>2. j + 1 \in 1 .. n + 1 /\ j \in 1 .. n + 1
      BY <2>1
    <3>3. \E k \in 1 .. n + 1 : d = mDescriptors[k] /\ k # p
      BY <2>1, <2>6, <3>1, <3>2
    <3>4. d.fd # fd
      BY <1>2, <2>1, <2>4, <3>1, <3>3
    <3> QED
      BY <2>1, <3>1, <3>3, <3>4 DEF Real, Watched
  <2> QED
    BY <2>8, <2>9
<1> QED
  BY <1>1, <1>2, RemoveCases

\* A descriptor that is watched, but for uninitialised memory, is one of the process.
LEMMA RealFds ==
  ASSUME mDescriptors \in Seq(Descriptors), NEW d \in Real
  PROVE  d.fd \in Fds /\ d \in Descriptors
BY DEF Real, Watched, Descriptors

-----------------------------------------------------------------------------
(* The steps.                                                              *)

\* Of a client, the server sees that it connects.
LEMMA PeerMoves ==
  ASSUME peer \in [Clients -> Peers], [Next]_vars, NEW c \in Clients
  PROVE  \/ peer'[c].at = peer[c].at
         \/ peer[c].at = "away" /\ peer'[c].at = "backlog"
         \/ Accept \/ CloseServer \/ \E t \in Threads : CloseShuts(t)
<1>1. CASE UNCHANGED peer
  BY <1>1
<1>2. ASSUME NEW e \in Clients, TakeReset(e) \/ \E bytes : TakeBytes(e, bytes)
      PROVE  peer'[c].at = peer[c].at
  <2>1. CASE c # e
    BY <1>2, <2>1 DEF TakeReset, TakeBytes
  <2>2. CASE c = e
    BY <1>2, <2>2 DEF TakeReset, TakeBytes, Peers
  <2> QED
    BY <2>1, <2>2
<1>3. ASSUME NEW e \in Clients, \/ Connect(e) \/ HangUp(e) \/ Crash(e)
                                \/ \E bytes \in 1 .. MaxUnread : Send(e, bytes)
      PROVE  peer'[c].at = peer[c].at \/ (peer[c].at = "away" /\ peer'[c].at = "backlog")
  <2>1. CASE c # e
    BY <1>3, <2>1 DEF Connect, HangUp, Crash, Send
  <2>2. CASE c = e
    BY <1>3, <2>2 DEF Connect, HangUp, Crash, Send, Peers, Idle
  <2> QED
    BY <2>1, <2>2
<1>4. ListenStep => \/ UNCHANGED peer \/ Accept \/ CloseServer
                    \/ \E e \in Clients : TakeReset(e) \/ \E bytes : TakeBytes(e, bytes)
  BY DEF ListenStep, BuildSet, SelectFails, SelectReady, SelectTimeout, StartScan, ScanNext,
     EndScan, CheckShutdown, AcceptFails, ReadFullBlock, ReadRest, ReadEnd, ReadReset, ReadClosed,
     RemoveLost, Stop, Iterate, CloseNext, Advance, socketVars
<1>5. ASSUME NEW t \in Threads, HandlerStep(t) PROVE UNCHANGED peer \/ CloseShuts(t)
  BY <1>5 DEF HandlerStep, HandleSimple, HandleShutdownCommand, HandleQuitOrLost,
     HandleBroadcast, Relay, RelayDone, CloseTests, CloseRemoves, CloseForgets, CloseReports,
     Return,
     Undefined, socketVars
<1>6. StartShutdown \/ OutsideStep \/ UNCHANGED vars => UNCHANGED peer \/ ClientStep
  BY DEF StartShutdown, OutsideStep, vars, socketVars
<1>7. ASSUME NEW w \in Workers, TakeRequest(w) PROVE UNCHANGED peer
  BY <1>7 DEF TakeRequest, socketVars
<1> QED
  BY <1>1, <1>2, <1>3, <1>4, <1>5, <1>6, <1>7, AnyStep DEF ClientStep

\* A step that changes neither the descriptors nor the Connections: a client may connect, and
\* the threads in Connection::close stay where they are or stop there.
Still ==
    /\ UNCHANGED <<mDescriptors, file, mSocket, object, reclosed>>
    /\ \A c \in Clients : \/ peer'[c].at = peer[c].at
                          \/ peer[c].at = "away" /\ peer'[c].at = "backlog"
    /\ \A t \in Threads : hpc'[t] \in Dying => hpc'[t] = hpc[t] /\ req'[t] = req[t]
    /\ lpc' \notin Ended => lpc \notin Ended

\* The listener moves no thread into Connection::close.
LEMMA DyingKept ==
  ASSUME ThreadTypes, ListenStep
  PROVE  \A t \in Threads : hpc'[t] \in Dying => hpc'[t] = hpc[t] /\ req'[t] = req[t]
<1>1. 0 \in Threads
  BY ListenerAssumption DEF Threads
<1>2. CASE EndRun
  BY <1>2 DEF EndRun, Dying
<1>3. CASE Summons("begin") \/ Summons("close")
  BY <1>1, <1>3 DEF Summons, Dying, ThreadTypes
<1> QED
  BY <1>2, <1>3, ListenHands

LEMMA StillSteps ==
  ASSUME ThreadTypes, CallInv, [Next]_vars
  PROVE  Still \/ Accept \/ RemoveLost \/ CloseServer \/ \E t \in Threads : Closes(t)
<1> SUFFICES ASSUME ~Accept, ~RemoveLost, ~CloseServer, ~\E t \in Threads : Closes(t)
             PROVE  Still
  OBVIOUS
<1>1. UNCHANGED <<mDescriptors, file, mSocket, object, reclosed>>
  <2>1. ListenStep => UNCHANGED <<mDescriptors, file, mSocket, object, reclosed>>
    BY DEF ListenStep, BuildSet, SelectFails, SelectReady, SelectTimeout, StartScan, ScanNext,
       EndScan, CheckShutdown, AcceptFails, ReadFullBlock, ReadRest, ReadEnd, ReadReset,
       ReadClosed, Stop, Iterate, CloseNext, Advance, TakeBytes, TakeReset, socketVars, connVars,
       arrayVars
  <2>2. ASSUME NEW t \in Threads, HandlerStep(t)
        PROVE  UNCHANGED <<mDescriptors, file, mSocket, object, reclosed>>
    BY <2>2 DEF HandlerStep, Closes, HandleSimple, HandleShutdownCommand, HandleQuitOrLost,
       HandleBroadcast, Relay, RelayDone, Return, Undefined, socketVars, connVars, arrayVars
  <2>3. StartShutdown \/ OutsideStep \/ UNCHANGED vars
          => UNCHANGED <<mDescriptors, file, mSocket, object, reclosed>>
    BY DEF StartShutdown, OutsideStep, ClientStep, Connect, HangUp, Crash, Send, vars, socketVars,
       connVars, arrayVars
  <2>4. ASSUME NEW w \in Workers, TakeRequest(w)
        PROVE  UNCHANGED <<mDescriptors, file, mSocket, object, reclosed>>
    BY <2>4 DEF TakeRequest, socketVars, connVars, arrayVars
  <2> QED
    BY <2>1, <2>2, <2>3, <2>4, AnyStep
<1>2. \A c \in Clients : \/ peer'[c].at = peer[c].at
                         \/ peer[c].at = "away" /\ peer'[c].at = "backlog"
  BY PeerMoves DEF Closes, ThreadTypes
<1>3. 0 \in Threads /\ Workers \subseteq Threads /\ 0 \notin Workers
  BY ListenerAssumption DEF Threads, Workers
<1>4. ASSUME NEW t \in Threads, NEW x, x \notin Dying, hpc' = [hpc EXCEPT ![t] = x],
             req' = req \/ \E y : req' = [req EXCEPT ![t] = y]
      PROVE  \A u \in Threads : hpc'[u] \in Dying => hpc'[u] = hpc[u] /\ req'[u] = req[u]
  BY <1>4 DEF ThreadTypes
<1>5. "begin" \notin Dying /\ "close" \notin Dying /\ "relay" \notin Dying /\ "end" \notin Dying
      /\ "idle" \notin Dying /\ "undefined" \notin Dying
  BY DEF Dying
<1>6. CASE EndRun
  BY <1>1, <1>2, <1>5, <1>6 DEF EndRun, Still, Ended
<1>7. CASE ListenStep
  <2>1. lpc \notin Ended
    BY <1>7, ListenHands DEF Ended
  <2>2. \A u \in Threads : hpc'[u] \in Dying => hpc'[u] = hpc[u] /\ req'[u] = req[u]
    BY <1>7, DyingKept
  <2> QED
    BY <1>1, <1>2, <2>1, <2>2 DEF Still
<1>8. ASSUME NEW t \in Threads, HandlerStep(t) PROVE Still
  <2>1. CASE Return(t)
    <3>1. hpc' = [hpc EXCEPT ![t] = "idle"] /\ \E y : req' = [req EXCEPT ![t] = y]
      BY <2>1 DEF Return, Goto
    <3>2. lpc' \notin Ended => lpc \notin Ended
      BY <1>3, <2>1 DEF Return, CallInv, Ended
    <3> QED
      BY <1>1, <1>2, <1>4, <1>5, <3>1, <3>2 DEF Still
  <2>2. CASE EndRun
    BY <1>6, <2>2
  <2>3. CASE UNCHANGED <<lpc, req, hpc>>
    BY <1>1, <1>2, <2>3 DEF Still
  <2>4. ASSUME NEW x, x \notin Dying, hpc' = [hpc EXCEPT ![t] = x], UNCHANGED <<lpc, req>>
        PROVE  Still
    BY <1>1, <1>2, <1>4, <2>4 DEF Still
  <2> QED
    BY <1>5, <1>8, <2>1, <2>2, <2>3, <2>4, HandlerHands
<1>9. ASSUME NEW w \in Workers, TakeRequest(w) PROVE Still
  <2>1. \E r : Receive(w, r) /\ lpc' = lpc
    BY <1>9 DEF TakeRequest
  <2> QED
    BY <1>1, <1>2, <1>3, <1>4, <1>5, <2>1 DEF Receive, Still
<1>10. StartShutdown \/ OutsideStep \/ UNCHANGED vars => Still
  <2>1. StartShutdown \/ OutsideStep \/ UNCHANGED vars => UNCHANGED <<lpc, hpc, req>>
    BY DEF StartShutdown, OutsideStep, vars, handVars
  <2> QED
    BY <1>1, <1>2, <2>1 DEF Still
<1> QED
  BY <1>7, <1>8, <1>9, <1>10, AnyStep
-----------------------------------------------------------------------------
(* What is watched is open, as long as no client is closed twice.          *)

SocketInv == BaseInv /\ ThreadTypes /\ OpenInv /\ OwnerInv /\ DyingInv

LEMMA AcceptSafe ==
  ASSUME SocketInv, [Next]_vars, Accept
  PROVE  OpenInv' /\ OwnerInv' /\ DyingInv'
<1> USE DEF SocketInv
<1>0. /\ Clients \cap {"closed", "stdin", "server"} = {} /\ ServerFd \in Fds
      /\ MaxFd + 1 \notin Fds
  BY SocketsAssumption DEF Fds, ServerFd
<1>1. lpc = "accept" /\ FreeFds # {}
  BY DEF Accept
<1> DEFINE fd == LowestFree
<1>2. fd \in Fds /\ file[fd] = "closed"
  BY <1>1, LowestFreeFacts
<1> HIDE DEF fd
<1>3. PICK c \in Clients : /\ peer[c].at = "backlog"
                           /\ file' = [file EXCEPT ![fd] = c]
                           /\ peer' = [peer EXCEPT ![c].at = "accepted"]
                           /\ object' = [object EXCEPT ![c] = "live"]
                           /\ mSocket' = [mSocket EXCEPT ![c] = fd]
                           /\ mDescriptors' = ArrayAdd(mDescriptors, [fd |-> fd, client |-> c])
  BY DEF Accept, Backlog, AcceptSocket, DescriptorsBecome, fd
<1> DEFINE d == [fd |-> fd, client |-> c]
<1>4. d \in Descriptors /\ d.fd = fd /\ d.client = c
  BY <1>2 DEF Descriptors
<1>5. mDescriptors' = Append(mDescriptors, d) /\ Watched' = Watched \cup {d} /\ d # Garbage
  BY <1>0, <1>2, <1>3, <1>4, AddFacts DEF BaseInv, ArrayAdd, Garbage
<1>6. peer'[c].at = "accepted" /\ \A e \in Clients : e # c => peer'[e].at = peer[e].at
  BY <1>3 DEF ThreadTypes, Peers
<1> HIDE DEF d
<1>7. Real' = Real \cup {d}
  BY <1>5 DEF Real
<1>8. lpc \notin Ended
  BY <1>1 DEF Ended
<1>9. \A j \in 1 .. Len(mDescriptors) : mDescriptors[j].fd # fd
  <2> SUFFICES ASSUME NEW j \in 1 .. Len(mDescriptors), mDescriptors[j].fd = fd PROVE FALSE
    OBVIOUS
  <2>1. mDescriptors[j] \in Real
    BY <1>0, <1>2 DEF Real, Watched, Garbage
  <2> QED
    BY <1>0, <1>2, <1>8, <2>1 DEF OpenInv, ServerDesc
<1>10. OneEach'
  <2> DEFINE n == Len(mDescriptors)
  <2>1. n \in Nat /\ Len(mDescriptors') = n + 1 /\ mDescriptors'[n + 1] = d
        /\ \A j \in 1 .. n : mDescriptors'[j] = mDescriptors[j]
    BY <1>4, <1>5 DEF BaseInv
  <2>2. \A j \in 1 .. n : mDescriptors[j].fd # d.fd
    BY <1>4, <1>9
  <2>3. \A j, k \in 1 .. n : mDescriptors[j].fd = mDescriptors[k].fd =>
                                j = k \/ mDescriptors[j] = Garbage
    BY DEF OpenInv, OneEach
  <2>4. \A j \in 1 .. n + 1 : j \in 1 .. n \/ j = n + 1
    BY <2>1
  <2> HIDE DEF n
  <2> QED
    BY <2>1, <2>2, <2>3, <2>4 DEF OneEach
<1>11. file'[ServerFd] = "server"
  BY <1>0, <1>2, <1>3, <1>8 DEF OpenInv, BaseInv
<1>12. ASSUME NEW x \in Real', x # ServerDesc PROVE x.client \in Clients /\ file'[x.fd] = x.client
  <2>1. CASE x = d
    BY <1>2, <1>3, <1>4, <2>1 DEF BaseInv
  <2>2. CASE x \in Real
    <3>1. x.client \in Clients /\ file[x.fd] = x.client
      BY <1>8, <1>12, <2>2 DEF OpenInv
    <3>2. x.fd \in Fds
      BY <2>2, RealFds DEF BaseInv
    <3>3. x.fd # fd
      BY <1>0, <1>2, <3>1
    <3> QED
      BY <1>3, <3>1, <3>2, <3>3 DEF BaseInv
  <2> QED
    BY <1>7, <1>12, <2>1, <2>2
<1>13. OwnerInv'
  <2>1. ASSUME NEW f \in Fds, file'[f] \in Clients
        PROVE  peer'[file'[f]].at = "accepted" /\ mSocket'[file'[f]] = f
    <3>1. CASE f = fd
      BY <1>2, <1>3, <1>6, <3>1 DEF BaseInv
    <3>2. CASE f # fd
      <4>1. file'[f] = file[f] /\ peer[file[f]].at = "accepted" /\ mSocket[file[f]] = f
        BY <1>3, <2>1, <3>2 DEF OwnerInv, BaseInv
      <4> QED
        BY <1>3, <1>6, <2>1, <4>1 DEF BaseInv
    <3> QED
      BY <3>1, <3>2
  <2>2. ASSUME NEW e \in Clients, peer'[e].at = "accepted" PROVE file'[mSocket'[e]] = e
    <3>1. CASE e = c
      BY <1>2, <1>3, <3>1 DEF BaseInv
    <3>2. CASE e # c
      <4>1. file[mSocket[e]] = e /\ mSocket[e] \in Fds
        BY <1>6, <2>2, <3>2 DEF OwnerInv, BaseInv
      <4> QED
        BY <1>0, <1>2, <1>3, <3>2, <4>1 DEF BaseInv
    <3> QED
      BY <3>1, <3>2
  <2>3. ASSUME NEW e \in Clients, object'[e] # "none" PROVE peer'[e].at \notin Awaited
    BY <1>3, <1>6, <2>3 DEF OwnerInv, Awaited, ThreadTypes
  <2> QED
    BY <2>1, <2>2, <2>3 DEF OwnerInv
<1>14. DyingInv'
  <2> SUFFICES ASSUME NEW t \in Threads, hpc'[t] \in Dying
               PROVE  /\ req'[t].client \in Clients /\ object'[req'[t].client] # "none"
                      /\ (hpc'[t] = "shut" /\ peer'[req'[t].client].at = "accepted" /\ lpc' \notin Ended =>
                            \A x \in Real' : x.client # req'[t].client)
                      /\ (hpc'[t] \in {"forget", "report"} => peer'[req'[t].client].at = "closed")
    BY DEF DyingInv
  <2>1. hpc'[t] = hpc[t] /\ req'[t] = req[t]
    BY DyingKept DEF ListenStep
  <2>2. req[t].client \in Clients /\ object[req[t].client] # "none"
    BY <2>1 DEF DyingInv
  <2>3. req[t].client # c
    BY <1>3, <2>2 DEF OwnerInv, Awaited
  <2>4. object'[req[t].client] # "none" /\ peer'[req[t].client].at = peer[req[t].client].at
    BY <1>3, <1>6, <2>2, <2>3 DEF ThreadTypes
  <2> QED
    BY <1>4, <1>7, <1>8, <2>1, <2>2, <2>3, <2>4 DEF DyingInv
<1> QED
  BY <1>10, <1>11, <1>12, <1>13, <1>14 DEF OpenInv
LEMMA RemoveLostSafe ==
  ASSUME SocketInv, [Next]_vars, RemoveLost
  PROVE  OpenInv' /\ OwnerInv' /\ DyingInv'
<1> USE DEF SocketInv
<1>1. /\ RemoveDescriptor(event.fd) /\ lpc = "lost" /\ lpc' = "scan"
      /\ UNCHANGED <<file, peer, mSocket, object, hpc, req>>
  BY DEF RemoveLost, socketVars, connVars, handVars
<1>2. OneEach' /\ Real' \subseteq Real
  BY <1>1, RemoveReal DEF BaseInv, OpenInv
<1> QED
  BY <1>1, <1>2 DEF OpenInv, OwnerInv, DyingInv, Ended

LEMMA CloseServerSafe ==
  ASSUME SocketInv, [Next]_vars, CloseServer
  PROVE  OpenInv' /\ OwnerInv' /\ DyingInv'
<1> USE DEF SocketInv
<1>1. /\ RemoveDescriptor(ServerFd) /\ lpc' = "stopped"
      /\ UNCHANGED <<mSocket, object, hpc, req>>
      /\ \E fds : CloseAll(fds)
  BY DEF CloseServer, connVars, handVars
<1>2. OneEach' /\ ServerFd \in Fds
  <2>1. ServerFd \in Fds
    BY SocketsAssumption DEF ServerFd, Fds
  <2> QED
    BY <1>1, <2>1, RemoveReal DEF BaseInv, OpenInv
<1>3. PICK fds : /\ file' = [fd \in Fds |-> IF fd \in fds THEN "closed" ELSE file[fd]]
                 /\ peer' = [c \in Clients |-> IF \E fd \in fds \cap Fds : file[fd] = c
                                               THEN Idle("closed") ELSE peer[c]]
  BY <1>1 DEF CloseAll
<1>4. \A c \in Clients : \/ peer'[c].at = "closed"
                         \/ peer'[c] = peer[c] /\ \A fd \in fds \cap Fds : file[fd] # c
  BY <1>3 DEF Idle
<1>5. OwnerInv'
  <2>1. ASSUME NEW fd \in Fds, file'[fd] \in Clients
        PROVE  peer'[file'[fd]].at = "accepted" /\ mSocket'[file'[fd]] = fd
    <3>1. fd \notin fds /\ file'[fd] = file[fd]
      BY <1>3, <2>1, SocketsAssumption
    <3>2. peer[file[fd]].at = "accepted" /\ mSocket[file[fd]] = fd
      BY <2>1, <3>1 DEF OwnerInv
    <3>3. \A f \in fds \cap Fds : file[f] # file[fd]
      BY <2>1, <3>1, <3>2 DEF OwnerInv
    <3> QED
      BY <1>1, <1>3, <2>1, <3>1, <3>2, <3>3
  <2>2. ASSUME NEW c \in Clients, peer'[c].at = "accepted" PROVE file'[mSocket'[c]] = c
    <3>1. file[mSocket[c]] = c /\ mSocket[c] \in Fds /\ mSocket[c] \notin fds
      BY <1>4, <2>2 DEF OwnerInv, BaseInv
    <3> QED
      BY <1>1, <1>3, <3>1
  <2>3. ASSUME NEW c \in Clients, object'[c] # "none" PROVE peer'[c].at \notin Awaited
    BY <1>1, <1>4, <2>3 DEF OwnerInv, Awaited
  <2> QED
    BY <2>1, <2>2, <2>3 DEF OwnerInv
<1>6. DyingInv'
  BY <1>1, <1>4 DEF DyingInv, Ended
<1> QED
  BY <1>1, <1>2, <1>5, <1>6 DEF OpenInv, Ended

\* Only the thread that takes a step in Connection::close moves.
LEMMA CloserMoves ==
  ASSUME ThreadTypes, NEW t \in Threads, Closes(t)
  PROVE  /\ UNCHANGED <<lpc, req>>
         /\ hpc[t] \in InClose /\ UsesLive(t)
         /\ req[t].client \in Clients /\ object[req[t].client] = "live"
         /\ \A u \in Threads : u # t => hpc'[u] = hpc[u]
BY DEF ThreadTypes, Closes, CloseTests, CloseRemoves, CloseShuts, CloseForgets, CloseReports,
   CloseReturns, Goto, InClose, UsesLive, Uses

LEMMA CloseTestsSafe ==
  ASSUME SocketInv, [Next]_vars, NEW t \in Threads, CloseTests(t)
  PROVE  OpenInv' /\ OwnerInv' /\ DyingInv'
<1> USE DEF SocketInv
<1>1. /\ UNCHANGED <<file, peer, mSocket, mDescriptors, lpc, req>>
      /\ hpc'[t] \in {"remove", "end"}
  BY DEF CloseTests, CloseReturns, Goto, socketVars, arrayVars, ThreadTypes
<1>2. \A c \in Clients : object'[c] = "none" <=> object[c] = "none"
  BY CloserMoves DEF Closes, CloseTests, CloseReturns, ThreadTypes
<1>3. Watched' = Watched
  BY <1>1 DEF Watched
<1>4. OpenInv' /\ OwnerInv'
  BY <1>1, <1>2, <1>3 DEF OpenInv, OneEach, OwnerInv, Real
<1>5. DyingInv'
  BY <1>1, <1>2, <1>3, CloserMoves DEF DyingInv, Dying, Real, Closes
<1> QED
  BY <1>4, <1>5

LEMMA CloseRemovesSafe ==
  ASSUME SocketInv, [Next]_vars, NEW t \in Threads, CloseRemoves(t)
  PROVE  OpenInv' /\ OwnerInv' /\ DyingInv'
<1> USE DEF SocketInv
<1> DEFINE c == req[t].client
<1>1. /\ UNCHANGED <<file, peer, mSocket, object, lpc, req>> /\ hpc'[t] = "shut"
      /\ RemoveDescriptor(mSocket[c])
  BY DEF CloseRemoves, Goto, socketVars, connVars, ThreadTypes
<1>2. c \in Clients /\ object[c] = "live" /\ mSocket[c] \in Fds
  BY CloserMoves DEF Closes, BaseInv
<1>3. OneEach' /\ Real' \subseteq {d \in Real : d.fd # mSocket[c]}
  BY <1>1, <1>2, RemoveReal DEF BaseInv, OpenInv
<1> HIDE DEF c
<1>4. OpenInv' /\ OwnerInv'
  BY <1>1, <1>3 DEF OpenInv, OwnerInv
<1>5. ASSUME NEW d \in Real', d.client = c, lpc \notin Ended PROVE FALSE
  <2>1. d \in Real /\ d.fd # mSocket[c] /\ d.fd \in Fds
    BY <1>3, RealFds DEF BaseInv
  <2>2. d # ServerDesc
    BY <1>2, <1>5, SocketsAssumption DEF ServerDesc, NoClient
  <2>3. file[d.fd] = c
    BY <1>5, <2>1, <2>2 DEF OpenInv
  <2> QED
    BY <1>2, <2>1, <2>3 DEF OwnerInv
<1>6. DyingInv'
  BY <1>1, <1>2, <1>3, <1>5, CloserMoves DEF DyingInv, Dying, Closes, c
<1> QED
  BY <1>4, <1>6

LEMMA CloseShutsSafe ==
  ASSUME SocketInv, [Next]_vars, NEW t \in Threads, CloseShuts(t), ~reclosed'
  PROVE  OpenInv' /\ OwnerInv' /\ DyingInv'
<1> USE DEF SocketInv
<1> DEFINE c  == req[t].client
           fd == mSocket[c]
<1>0. Clients \cap {"closed", "stdin", "server"} = {}
  BY SocketsAssumption
<1>1. /\ UNCHANGED <<mSocket, object, mDescriptors, lpc, req>>
      /\ hpc[t] = "shut" /\ hpc'[t] = "forget"
      /\ file' = [file EXCEPT ![fd] = "closed"]
      /\ peer' = [e \in Clients |-> IF file[fd] = e THEN Idle("closed") ELSE peer[e]]
      /\ peer[c].at # "closed"
  BY DEF CloseShuts, CloseFd, Goto, arrayVars, ThreadTypes
<1>2. c \in Clients /\ object[c] = "live" /\ fd \in Fds
  BY CloserMoves DEF Closes, BaseInv
<1>3. peer[c].at = "accepted" /\ file[fd] = c
  <2>1. peer[c].at \notin Awaited /\ peer[c] \in Peers
    BY <1>2 DEF OwnerInv, ThreadTypes
  <2> QED
    BY <1>1, <1>2, <2>1 DEF OwnerInv, Awaited, Peers
<1> HIDE DEF c, fd
<1>4. peer'[c].at = "closed" /\ \A e \in Clients : e # c => peer'[e] = peer[e]
  BY <1>1, <1>2, <1>3 DEF Idle
<1>5. Watched' = Watched /\ Real' = Real
  BY <1>1 DEF Watched, Real
<1>6. OpenInv'
  <2>1. OneEach'
    BY <1>1 DEF OpenInv, OneEach
  <2>2. ASSUME lpc \notin Ended PROVE file'[ServerFd] = "server"
    BY <1>0, <1>1, <1>2, <1>3, <2>2, SocketsAssumption DEF OpenInv, BaseInv, Fds, ServerFd
  <2>3. ASSUME lpc \notin Ended, NEW d \in Real, d # ServerDesc
        PROVE  d.client \in Clients /\ file'[d.fd] = d.client
    <3>1. d.client \in Clients /\ file[d.fd] = d.client /\ d.fd \in Fds
      BY <2>3, RealFds DEF OpenInv, BaseInv
    <3>2. d.client # c
      BY <1>1, <1>3, <2>3 DEF DyingInv, Dying, c
    <3> QED
      BY <1>1, <1>2, <1>3, <3>1, <3>2 DEF BaseInv
  <2> QED
    BY <1>1, <1>5, <2>1, <2>2, <2>3 DEF OpenInv
<1>7. OwnerInv'
  <2>1. ASSUME NEW f \in Fds, file'[f] \in Clients
        PROVE  peer'[file'[f]].at = "accepted" /\ mSocket'[file'[f]] = f
    <3>1. f # fd /\ file'[f] = file[f]
      BY <1>0, <1>1, <1>2, <2>1 DEF BaseInv
    <3>2. peer[file[f]].at = "accepted" /\ mSocket[file[f]] = f
      BY <2>1, <3>1 DEF OwnerInv
    <3>3. file[f] # c
      BY <3>1, <3>2 DEF fd
    <3> QED
      BY <1>1, <1>4, <2>1, <3>1, <3>2, <3>3
  <2>2. ASSUME NEW e \in Clients, peer'[e].at = "accepted" PROVE file'[mSocket'[e]] = e
    <3>1. e # c
      BY <1>4, <2>2
    <3>2. file[mSocket[e]] = e /\ mSocket[e] \in Fds
      BY <1>4, <2>2, <3>1 DEF OwnerInv, BaseInv
    <3> QED
      BY <1>1, <1>2, <1>3, <3>1, <3>2 DEF BaseInv
  <2>3. ASSUME NEW e \in Clients, object'[e] # "none" PROVE peer'[e].at \notin Awaited
    BY <1>1, <1>4, <2>3 DEF OwnerInv, Awaited
  <2> QED
    BY <2>1, <2>2, <2>3 DEF OwnerInv
<1>8. DyingInv'
  <2> SUFFICES ASSUME NEW u \in Threads, hpc'[u] \in Dying
               PROVE  /\ req'[u].client \in Clients /\ object'[req'[u].client] # "none"
                      /\ (hpc'[u] = "shut" /\ peer'[req'[u].client].at = "accepted" /\ lpc' \notin Ended =>
                            \A x \in Real' : x.client # req'[u].client)
                      /\ (hpc'[u] \in {"forget", "report"} => peer'[req'[u].client].at = "closed")
    BY DEF DyingInv
  <2>1. CASE u = t
    BY <1>1, <1>2, <1>4, <2>1 DEF c
  <2>2. CASE u # t
    <3>1. hpc'[u] = hpc[u] /\ req'[u] = req[u]
      BY <1>1, <2>2, CloserMoves DEF Closes
    <3> QED
      BY <1>1, <1>4, <1>5, <3>1 DEF DyingInv
  <2> QED
    BY <2>1, <2>2
<1> QED
  BY <1>6, <1>7, <1>8

LEMMA CloseForgetsSafe ==
  ASSUME SocketInv, [Next]_vars, NEW t \in Threads, CloseForgets(t)
  PROVE  OpenInv' /\ OwnerInv' /\ DyingInv'
<1> USE DEF SocketInv
<1> DEFINE c == req[t].client
<1>1. /\ UNCHANGED <<file, peer, object, mDescriptors, lpc, req>>
      /\ hpc[t] = "forget" /\ hpc'[t] = "report"
      /\ mSocket' = [mSocket EXCEPT ![c] = 0]
  BY DEF CloseForgets, Goto, socketVars, arrayVars, ThreadTypes
<1>2. c \in Clients
  BY CloserMoves DEF Closes
<1>3. peer[c].at = "closed"
  BY <1>1 DEF DyingInv, Dying
<1>4. Watched' = Watched /\ Real' = Real
  BY <1>1 DEF Watched, Real
<1> HIDE DEF c
<1>5. OpenInv'
  BY <1>1, <1>4 DEF OpenInv, OneEach
<1>6. OwnerInv'
  <2>1. \A e \in Clients : peer[e].at = "accepted" => mSocket'[e] = mSocket[e]
    BY <1>1, <1>2, <1>3 DEF BaseInv
  <2> QED
    BY <1>1, <1>2, <2>1 DEF OwnerInv
<1>7. DyingInv'
  BY <1>1, <1>2, <1>4, CloserMoves DEF DyingInv, Dying, Closes
<1> QED
  BY <1>5, <1>6, <1>7

LEMMA CloseReportsSafe ==
  ASSUME SocketInv, [Next]_vars, NEW t \in Threads, CloseReports(t)
  PROVE  OpenInv' /\ OwnerInv' /\ DyingInv'
<1> USE DEF SocketInv
<1>1. /\ UNCHANGED <<file, peer, mSocket, mDescriptors, lpc, req>>
      /\ hpc[t] = "report" /\ hpc'[t] = "end"
  BY DEF CloseReports, CloseReturns, Goto, socketVars, arrayVars, ThreadTypes
<1>2. \A e \in Clients : object'[e] = "none" <=> object[e] = "none"
  BY CloserMoves DEF Closes, CloseReports, CloseReturns, ThreadTypes
<1>3. Watched' = Watched /\ Real' = Real
  BY <1>1 DEF Watched, Real
<1>4. OpenInv'
  BY <1>1, <1>3 DEF OpenInv, OneEach
<1>5. OwnerInv'
  BY <1>1, <1>2 DEF OwnerInv
<1>6. DyingInv'
  BY <1>1, <1>2, <1>3, CloserMoves DEF DyingInv, Dying, Closes
<1> QED
  BY <1>4, <1>5, <1>6

LEMMA StillSafe ==
  ASSUME SocketInv, [Next]_vars, Still
  PROVE  OpenInv' /\ OwnerInv' /\ DyingInv'
<1> USE DEF SocketInv, Still
<1>1. Watched' = Watched /\ Real' = Real
  BY DEF Watched, Real
<1>2. OpenInv'
  BY <1>1 DEF OpenInv, OneEach
<1>3. \A c \in Clients : peer'[c].at = peer[c].at \/ (peer[c].at = "away" /\ peer'[c].at = "backlog")
  OBVIOUS
<1>4. OwnerInv'
  BY <1>3 DEF OwnerInv, Awaited
<1>5. DyingInv'
  BY <1>1, <1>3 DEF DyingInv
<1> QED
  BY <1>2, <1>4, <1>5

LEMMA SocketStep ==
  ASSUME SocketInv, CallInv, [Next]_vars, ~reclosed'
  PROVE  OpenInv' /\ OwnerInv' /\ DyingInv'
<1>1. Still \/ Accept \/ RemoveLost \/ CloseServer \/ \E t \in Threads : Closes(t)
  BY StillSteps DEF SocketInv
<1> QED
  BY <1>1, StillSafe, AcceptSafe, RemoveLostSafe, CloseServerSafe, CloseTestsSafe,
     CloseRemovesSafe, CloseShutsSafe, CloseForgetsSafe, CloseReportsSafe DEF Closes
-----------------------------------------------------------------------------
(* A closed client makes select fail at most once.                         *)

\* A client that has been closed stays closed, and nobody else's close makes it so.
LEMMA ClosedStay == ASSUME ThreadTypes, [Next]_vars PROVE ClosedClients \subseteq ClosedClients'
<1> SUFFICES ASSUME NEW c \in Clients, peer[c].at = "closed" PROVE peer'[c].at = "closed"
  BY DEF ClosedClients
<1>1. CASE Accept
  <2>1. PICK e \in Clients : peer[e].at = "backlog" /\ peer' = [peer EXCEPT ![e].at = "accepted"]
    BY <1>1 DEF Accept, Backlog, AcceptSocket
  <2> QED
    BY <2>1
<1>2. CASE CloseServer
  BY <1>2 DEF CloseServer, CloseAll, Idle
<1>3. ASSUME NEW t \in Threads, CloseShuts(t) PROVE peer'[c].at = "closed"
  BY <1>3 DEF CloseShuts, CloseFd, Idle
<1> QED
  BY <1>1, <1>2, <1>3, PeerMoves DEF ThreadTypes

\* Where the listener is in select.
LEMMA SelectSteps ==
  ASSUME ThreadTypes, CallInv, [Next]_vars, lpc' = "select"
  PROVE  \/ BuildSet
         \/ /\ lpc = "select" /\ UNCHANGED <<fdset, errorcount>>
            /\ UNCHANGED file \/ \E t \in Threads : CloseShuts(t)
<1>0. \A r : Dispatch(r) /\ r.type \in RequestTypes => lpc' # "select"
  BY DEF Dispatch, AfterRequest, RequestTypes
<1>1. CASE ListenStep
  <2>1. CASE SelectTimeout
    BY <1>0, <2>1 DEF SelectTimeout, TimeoutEvent, RequestTypes
  <2>2. CASE Accept
    BY <1>0, <2>2 DEF Accept, RequestTypes
  <2>3. CASE ReadRest \/ ReadEnd \/ ReadReset \/ ReadClosed
    <3>1. \E readcount, anything : EndRead(readcount, anything)
      BY <2>3 DEF ReadRest, ReadEnd, ReadReset, ReadClosed
    <3> QED
      BY <1>0, <3>1 DEF EndRead, RequestTypes
  <2> QED
    BY <1>1, <2>1, <2>2, <2>3 DEF ListenStep, SelectFails, SelectReady, StartScan, ScanNext,
       EndScan, CheckShutdown, AcceptFails, ReadFullBlock, RemoveLost, Stop, Iterate, CloseNext,
       Advance, CloseServer
<1>2. ASSUME NEW t \in Threads, HandlerStep(t)
      PROVE  /\ lpc = "select" /\ UNCHANGED <<fdset, errorcount>>
             /\ UNCHANGED file \/ CloseShuts(t)
  <2>1. CASE Return(t)
    <3>1. t # 0
      BY <2>1 DEF Return, CallInv, AfterRequest, RequestTypes
    <3> QED
      BY <2>1, <3>1 DEF Return, listenVars, socketVars
  <2>2. ~EndRun
    BY DEF EndRun
  <2>3. lpc = "select"
    BY <1>2, <2>1, <2>2, HandlerHands
  <2>4. UNCHANGED <<fdset, errorcount>>
    BY <1>2 DEF HandlerStep, HandleSimple, HandleShutdownCommand, HandleQuitOrLost,
       HandleBroadcast, Relay, RelayDone, CloseTests, CloseRemoves, CloseShuts, CloseForgets,
       CloseReports,
       Return, Undefined, listenVars
  <2>5. UNCHANGED file \/ CloseShuts(t)
    BY <1>2 DEF HandlerStep, HandleSimple, HandleShutdownCommand, HandleQuitOrLost,
       HandleBroadcast, Relay, RelayDone, CloseTests, CloseRemoves, CloseForgets, CloseReports,
       Return,
       Undefined, socketVars
  <2> QED
    BY <2>3, <2>4, <2>5
<1>3. StartShutdown \/ OutsideStep \/ UNCHANGED vars =>
        lpc = "select" /\ UNCHANGED <<fdset, errorcount, file>>
  BY DEF StartShutdown, OutsideStep, ClientStep, Connect, HangUp, Crash, Send, vars, listenVars,
     socketVars
<1>4. ASSUME NEW w \in Workers, TakeRequest(w)
      PROVE  lpc = "select" /\ UNCHANGED <<fdset, errorcount, file>>
  BY <1>4 DEF TakeRequest, listenVars, socketVars
<1> QED
  BY <1>1, <1>2, <1>3, <1>4, AnyStep

LEMMA CountStep ==
  ASSUME IsFiniteSet(Clients), SocketInv, CallInv, CountInv, [Next]_vars, ~reclosed'
  PROVE  CountInv'
<1> USE DEF SocketInv
<1>1. /\ IsFiniteSet(ClosedClients) /\ IsFiniteSet(ClosedClients')
      /\ Cardinality(ClosedClients) \in Nat /\ Cardinality(ClosedClients') \in Nat
      /\ Cardinality(ClosedClients) <= Cardinality(ClosedClients')
  <2>1. IsFiniteSet(ClosedClients) /\ IsFiniteSet(ClosedClients')
    BY FS_Subset DEF ClosedClients
  <2> QED
    BY <2>1, ClosedStay, FS_Subset, FS_CardinalityType
<1>2. errorcount \in Nat /\ errorcount <= Cardinality(ClosedClients)
  BY <1>1 DEF CountInv, ThreadTypes
<1>3. CASE SelectFails
  <2>1. Failing /\ ~Failing' /\ errorcount' = errorcount + 1
    BY <1>3 DEF SelectFails, Failing
  <2> QED
    BY <1>1, <1>2, <2>1 DEF CountInv
<1>4. CASE errorcount' = 0 /\ EndScan
  <2>1. ~Failing'
    BY <1>4 DEF EndScan, Failing
  <2> QED
    BY <1>1, <1>4, <2>1 DEF CountInv
<1>5. CASE errorcount' = errorcount /\ ~Failing'
  BY <1>1, <1>2, <1>5 DEF CountInv
<1>6. CASE errorcount' = errorcount /\ Failing'
  <2>1. lpc' = "select" /\ \E fd \in fdset' : file'[fd] = "closed"
    BY <1>6 DEF Failing
  <2>2. CASE BuildSet
    <3>1. /\ lpc = "loop" /\ file' = file
          /\ fdset' = {mDescriptors[j].fd : j \in 1 .. Len(mDescriptors)}
          /\ Garbage.fd \notin fdset'
      BY <2>1, <2>2 DEF BuildSet, EndRun, socketVars
    <3>2. PICK d \in Real : file[d.fd] = "closed"
      BY <2>1, <3>1 DEF Real, Watched
    <3> QED
      BY <3>1, <3>2, SocketsAssumption DEF OpenInv, Ended, ServerDesc
  <2>3. CASE lpc = "select" /\ UNCHANGED <<fdset, file>>
    <3>1. Failing
      BY <2>1, <2>3 DEF Failing
    <3> QED
      BY <1>1, <1>2, <1>6, <3>1 DEF CountInv
  <2>4. ASSUME NEW t \in Threads, CloseShuts(t) PROVE CountInv'
    <3> DEFINE c == req[t].client
    <3>1. c \in Clients /\ object[c] = "live" /\ mSocket[c] \in Fds
      BY <2>4, CloserMoves DEF Closes, BaseInv
    <3>2. peer[c].at # "closed" /\ peer[c] \in Peers /\ peer[c].at \notin Awaited
      BY <2>4, <3>1 DEF CloseShuts, OwnerInv, ThreadTypes
    <3>3. file[mSocket[c]] = c
      BY <3>1, <3>2 DEF OwnerInv, Awaited, Peers
    <3>4. peer'[c].at = "closed"
      BY <2>4, <3>1, <3>3 DEF CloseShuts, CloseFd, Idle
    <3> HIDE DEF c
    <3>5. c \in ClosedClients' /\ c \notin ClosedClients
      BY <3>1, <3>2, <3>4 DEF ClosedClients
    <3>6. Cardinality(ClosedClients \cup {c}) = Cardinality(ClosedClients) + 1
      BY <1>1, <3>5, FS_AddElement
    <3>7. Cardinality(ClosedClients \cup {c}) <= Cardinality(ClosedClients')
      BY <1>1, <3>5, ClosedStay, FS_Subset
    <3> QED
      BY <1>1, <1>2, <1>6, <3>6, <3>7 DEF CountInv
  <2> QED
    BY <2>1, <2>2, <2>3, <2>4, SelectSteps
<1> QED
  BY <1>3, <1>4, <1>5, <1>6, ErrorSteps
-----------------------------------------------------------------------------
(* The requests about a client come in the order of its life.              *)

\* What is taken for a client follows what was taken for it before.
InOrder(c) ==
    taken'[c] # taken[c] =>
        <<taken[c], taken'[c]>> \in { <<"none", "NewConnection">>,
                                      <<"NewConnection", "StreamData">>,
                                      <<"NewConnection", "ConnectionLost">>,
                                      <<"StreamData", "ConnectionLost">> }

\* A worker takes the oldest request of the queue.
LEMMA Takes ==
  ASSUME OrderInv, NEW w \in Workers, TakeRequest(w)
  PROVE  /\ OrderInv'
         /\ \A c \in Clients : /\ InOrder(c) /\ (Lost(c)' <=> Lost(c))
                               /\ Known(c) => Known(c)'
                               /\ Fresh(c) => Fresh(c)'
<1> DEFINE r == Head(queue)
           n == Len(queue) - 1
<1>1. /\ n \in Nat /\ Len(queue) = n + 1 /\ r = queue[1] /\ r \in Requests
      /\ \A i \in 1 .. n + 1 : queue[i] \in Requests
  BY DEF OrderInv, TakeRequest
<1>2. /\ queue' \in Seq(Requests) /\ Len(queue') = n
      /\ \A i \in 1 .. n : queue'[i] = queue[i + 1]
  BY DEF OrderInv, TakeRequest
<1>3. taken' = IF r.client \in Clients THEN [taken EXCEPT ![r.client] = r.type] ELSE taken
  BY DEF TakeRequest, Receive
<1>4. /\ taken \in [Clients -> LifeTypes \cup {"none"}]
      /\ ~Pooled => queue = << >>
      /\ \A i \in 1 .. n + 1 : queue[i].client \in Clients =>
           /\ queue[i].type \in LifeTypes
           /\ taken[queue[i].client] # "none" =>
                <<taken[queue[i].client], queue[i].type>> \in Later
           /\ taken[queue[i].client] = "none" /\ queue[i].type # "NewConnection" =>
                \E k \in 1 .. i - 1 : /\ queue[k].client = queue[i].client
                                      /\ queue[k].type = "NewConnection"
      /\ \A j \in 1 .. n + 1 : \A i \in 1 .. j - 1 :
           queue[i].client = queue[j].client /\ queue[j].client \in Clients =>
             <<queue[i].type, queue[j].type>> \in Later
  BY <1>1 DEF OrderInv
<1> HIDE DEF r, n
<1>5. 1 \in 1 .. n + 1 /\ \A i \in 1 .. n : i + 1 \in 1 .. n + 1 /\ 1 \in 1 .. (i + 1) - 1
  BY <1>1
<1>6. /\ taken' \in [Clients -> LifeTypes \cup {"none"}]
      /\ r.client \in Clients => r.type \in LifeTypes
      /\ \A c \in Clients : taken'[c] = IF c = r.client THEN r.type ELSE taken[c]
  BY <1>1, <1>3, <1>4, <1>5
<1>7. "none" \notin LifeTypes
  BY DEF LifeTypes
<1>8. ASSUME NEW i \in 1 .. n, queue'[i].client \in Clients
      PROVE  /\ queue'[i].type \in LifeTypes
             /\ taken'[queue'[i].client] # "none" =>
                  <<taken'[queue'[i].client], queue'[i].type>> \in Later
             /\ taken'[queue'[i].client] = "none" /\ queue'[i].type # "NewConnection" =>
                  \E k \in 1 .. i - 1 : /\ queue'[k].client = queue'[i].client
                                        /\ queue'[k].type = "NewConnection"
  <2>1. queue'[i] = queue[i + 1] /\ queue[i + 1].client \in Clients
    BY <1>2, <1>8
  <2>2. CASE queue[i + 1].client = r.client
    <3>1. i + 1 \in 1 .. n + 1 /\ 1 \in 1 .. (i + 1) - 1
      BY <1>5
    <3>2. queue[i + 1].type \in LifeTypes
      BY <1>4, <2>1, <3>1
    <3>3. <<r.type, queue[i + 1].type>> \in Later
      BY <1>1, <1>4, <2>1, <2>2, <3>1
    <3>4. taken'[queue[i + 1].client] = r.type /\ r.type # "none"
      BY <1>6, <1>7, <2>1, <2>2
    <3> QED
      BY <2>1, <3>2, <3>3, <3>4
  <2>3. CASE queue[i + 1].client # r.client
    <3>1. taken'[queue[i + 1].client] = taken[queue[i + 1].client]
      BY <1>6, <2>1, <2>3
    <3>2. ASSUME taken[queue[i + 1].client] = "none", queue[i + 1].type # "NewConnection"
          PROVE  \E k \in 1 .. i - 1 : /\ queue'[k].client = queue'[i].client
                                       /\ queue'[k].type = "NewConnection"
      <4>1. PICK k \in 1 .. (i + 1) - 1 : /\ queue[k].client = queue[i + 1].client
                                          /\ queue[k].type = "NewConnection"
        BY <1>4, <1>5, <2>1, <3>2
      <4>2. k # 1
        BY <1>1, <2>3, <4>1
      <4>3. k - 1 \in 1 .. i - 1 /\ queue'[k - 1] = queue[k]
        BY <1>1, <1>2, <4>2
      <4> QED
        BY <2>1, <4>1, <4>3
    <3> QED
      BY <1>4, <1>5, <2>1, <3>1, <3>2
  <2> QED
    BY <2>2, <2>3
<1>9. ASSUME NEW j \in 1 .. n, NEW i \in 1 .. j - 1, queue'[i].client = queue'[j].client,
             queue'[j].client \in Clients
      PROVE  <<queue'[i].type, queue'[j].type>> \in Later
  <2>1. i \in 1 .. n /\ j + 1 \in 1 .. n + 1 /\ i + 1 \in 1 .. (j + 1) - 1
    BY <1>1
  <2> QED
    BY <1>2, <1>4, <1>9, <2>1
<1>10. Pooled
  BY <1>1, <1>4
<1>11. OrderInv'
  BY <1>2, <1>6, <1>8, <1>9, <1>10 DEF OrderInv, Pooled
<1>12. ASSUME NEW c \in Clients
       PROVE  InOrder(c) /\ (Lost(c)' <=> Lost(c)) /\ (Known(c) => Known(c)')
              /\ (Fresh(c) => Fresh(c)')
  <2>1. ASSUME NEW type
        PROVE  Queued(c, type) <=> (r.client = c /\ r.type = type) \/ Queued(c, type)'
    <3>1. ASSUME NEW i \in 1 .. n + 1, queue[i].client = c, queue[i].type = type, i # 1
          PROVE  Queued(c, type)'
      <4>1. i - 1 \in 1 .. n /\ (i - 1) + 1 = i
        BY <1>1, <3>1
      <4>2. queue'[i - 1] = queue[i]
        BY <1>2, <4>1
      <4> QED
        BY <1>2, <3>1, <4>1, <4>2 DEF Queued
    <3>2. Queued(c, type) => (r.client = c /\ r.type = type) \/ Queued(c, type)'
      BY <1>1, <3>1 DEF Queued
    <3>3. Queued(c, type)' => Queued(c, type)
      BY <1>1, <1>2, <1>5 DEF Queued
    <3>4. r.client = c /\ r.type = type => Queued(c, type)
      BY <1>1, <1>5 DEF Queued
    <3> QED
      BY <3>2, <3>3, <3>4
  <2>2. CASE c = r.client
    <3>1. taken'[c] = r.type /\ r.type \in LifeTypes
      BY <1>6, <2>2
    <3>2. taken[c] # "none" => <<taken[c], r.type>> \in Later
      BY <1>1, <1>4, <1>5, <2>2
    <3>3. taken[c] = "none" => r.type = "NewConnection"
      <4>1. ~\E k \in 1 .. 1 - 1 : TRUE
        OBVIOUS
      <4> QED
        BY <1>1, <1>4, <1>5, <2>2, <4>1
    <3>4. taken[c] \in LifeTypes \cup {"none"}
      BY <1>4
    <3>5. InOrder(c)
      BY <3>1, <3>2, <3>3, <3>4 DEF InOrder, Later, LifeTypes
    <3>6. taken[c] # "ConnectionLost"
      BY <3>2 DEF Later
    <3>7. Lost(c)' <=> Lost(c)
      BY <2>1, <2>2, <3>1, <3>6 DEF Lost
    <3>8. Known(c)'
      BY <1>7, <3>1 DEF Known
    <3>9. ~Fresh(c)
      BY <1>1, <1>5, <2>2 DEF Fresh
    <3> QED
      BY <3>5, <3>7, <3>8, <3>9
  <2>3. CASE c # r.client
    <3>1. taken'[c] = taken[c] /\ \A type : Queued(c, type)' <=> Queued(c, type)
      BY <1>6, <2>1, <2>3
    <3>2. Fresh(c) => Fresh(c)'
      BY <1>1, <1>2, <1>5, <3>1 DEF Fresh
    <3> QED
      BY <3>1, <3>2 DEF InOrder, Lost, Known
  <2> QED
    BY <2>2, <2>3
<1> QED
  BY <1>11, <1>12
\* A request the listener may hand on: a client is announced once, asked about after that, and
\* not after its loss.
Timely(r) ==
    /\ r \in Requests /\ r.type \in RequestTypes
    /\ r.client \in Clients =>
         \/ r.type = "NewConnection" /\ Fresh(r.client)
         \/ r.type \in {"StreamData", "ConnectionLost"} /\ Known(r.client) /\ ~Lost(r.client)

\* What handing it on does to what has been asked about the clients.
Asked(r) ==
    \A c \in Clients :
        /\ InOrder(c)
        /\ Known(c) => Known(c)'
        /\ Fresh(c) /\ c # r.client => Fresh(c)'
        /\ Lost(c)' => Lost(c) \/ (c = r.client /\ r.type = "ConnectionLost")
        /\ c = r.client /\ r.type = "NewConnection" => Known(c)'

\* In a queue, it comes last ...
LEMMA AsksPool ==
  ASSUME OrderInv, Pooled, NEW r, Timely(r), queue' = Append(queue, r), taken' = taken
  PROVE  OrderInv' /\ Asked(r)
<1> DEFINE n == Len(queue)
<1>1. /\ n \in Nat /\ queue' \in Seq(Requests) /\ Len(queue') = n + 1 /\ queue'[n + 1] = r
      /\ \A i \in 1 .. n : queue'[i] = queue[i]
  BY DEF OrderInv, Timely
<1>2. /\ taken \in [Clients -> LifeTypes \cup {"none"}]
      /\ \A i \in 1 .. n : queue[i].client \in Clients =>
           /\ queue[i].type \in LifeTypes
           /\ taken[queue[i].client] # "none" =>
                <<taken[queue[i].client], queue[i].type>> \in Later
           /\ taken[queue[i].client] = "none" /\ queue[i].type # "NewConnection" =>
                \E k \in 1 .. i - 1 : /\ queue[k].client = queue[i].client
                                      /\ queue[k].type = "NewConnection"
      /\ \A j \in 1 .. n : \A i \in 1 .. j - 1 :
           queue[i].client = queue[j].client /\ queue[j].client \in Clients =>
             <<queue[i].type, queue[j].type>> \in Later
  BY DEF OrderInv
<1>3. /\ r.client \in Clients => r.type \in LifeTypes
      /\ r.client \in Clients /\ r.type # "NewConnection" =>
           /\ r.type \in {"StreamData", "ConnectionLost"}
           /\ taken[r.client] # "ConnectionLost"
           /\ \A i \in 1 .. n : queue[i].client = r.client => queue[i].type # "ConnectionLost"
           /\ taken[r.client] = "none" =>
                \E k \in 1 .. n : queue[k].client = r.client /\ queue[k].type = "NewConnection"
      /\ r.client \in Clients /\ r.type = "NewConnection" =>
           taken[r.client] = "none" /\ \A i \in 1 .. n : queue[i].client # r.client
  BY DEF Timely, LifeTypes, Fresh, Known, Lost, Queued
<1>4. \A c, type : Queued(c, type)' <=> Queued(c, type) \/ (r.client = c /\ r.type = type)
  <2>1. n + 1 \in 1 .. n + 1 /\ \A i \in 1 .. n + 1 : i \in 1 .. n \/ i = n + 1
    BY <1>1
  <2>2. \A i \in 1 .. n : i \in 1 .. n + 1
    BY <1>1
  <2> HIDE DEF n
  <2>3. \A c, type : Queued(c, type) <=> \E i \in 1 .. n : queue[i].client = c /\ queue[i].type = type
    BY DEF Queued, n
  <2>4. \A c, type : Queued(c, type)' <=> \E i \in 1 .. n + 1 : queue'[i].client = c /\ queue'[i].type = type
    BY <1>1 DEF Queued
  <2> QED
    BY <1>1, <2>1, <2>2, <2>3, <2>4
<1> HIDE DEF n
<1>5. ASSUME NEW i \in 1 .. n + 1, queue'[i].client \in Clients
      PROVE  /\ queue'[i].type \in LifeTypes
             /\ taken[queue'[i].client] # "none" =>
                  <<taken[queue'[i].client], queue'[i].type>> \in Later
             /\ taken[queue'[i].client] = "none" /\ queue'[i].type # "NewConnection" =>
                  \E k \in 1 .. i - 1 : /\ queue'[k].client = queue'[i].client
                                        /\ queue'[k].type = "NewConnection"
  <2>1. CASE i \in 1 .. n
    <3>1. queue'[i] = queue[i] /\ \A k \in 1 .. i - 1 : k \in 1 .. n /\ queue'[k] = queue[k]
      BY <1>1, <2>1
    <3> QED
      BY <1>2, <1>5, <2>1, <3>1
  <2>2. CASE i = n + 1
    <3>1. queue'[i] = r /\ r.client \in Clients /\ i - 1 = n
      BY <1>1, <1>5, <2>2
    <3>2. r.type = "NewConnection" \/ r.type \in {"StreamData", "ConnectionLost"}
      BY <1>3, <3>1
    <3>3. taken[r.client] # "none" => <<taken[r.client], r.type>> \in Later
      BY <1>2, <1>3, <3>1 DEF Later, LifeTypes
    <3>4. taken[r.client] = "none" /\ r.type # "NewConnection" =>
            \E k \in 1 .. i - 1 : queue'[k].client = r.client /\ queue'[k].type = "NewConnection"
      BY <1>1, <1>3, <3>1
    <3>5. r.type \in LifeTypes
      BY <1>3, <3>1
    <3> QED
      BY <3>1, <3>3, <3>4, <3>5, Zenon
  <2>3. i \in 1 .. n \/ i = n + 1
    BY <1>1
  <2> QED
    BY <2>1, <2>2, <2>3
<1>6. ASSUME NEW j \in 1 .. n + 1, NEW i \in 1 .. j - 1, queue'[i].client = queue'[j].client,
             queue'[j].client \in Clients
      PROVE  <<queue'[i].type, queue'[j].type>> \in Later
  <2>1. i \in 1 .. n /\ queue'[i] = queue[i]
    BY <1>1
  <2>2. CASE j \in 1 .. n
    BY <1>1, <1>2, <1>6, <2>1, <2>2
  <2>3. CASE j = n + 1
    <3>1. queue'[j] = r /\ queue[i].client = r.client /\ r.client \in Clients
      BY <1>1, <1>6, <2>1, <2>3
    <3>2. r.type # "NewConnection"
      BY <1>3, <2>1, <3>1
    <3>3. r.type \in {"StreamData", "ConnectionLost"} /\ queue[i].type # "ConnectionLost"
      BY <1>3, <2>1, <3>1, <3>2
    <3>4. queue[i].type \in {"NewConnection", "StreamData"}
      BY <1>2, <2>1, <3>1, <3>3 DEF LifeTypes
    <3>5. <<queue[i].type, r.type>> \in Later
      BY <3>3, <3>4 DEF Later
    <3> QED
      BY <2>1, <3>1, <3>5
  <2>4. j \in 1 .. n \/ j = n + 1
    BY <1>1
  <2> QED
    BY <2>2, <2>3, <2>4
<1>7. OrderInv'
  BY <1>1, <1>2, <1>5, <1>6 DEF OrderInv, Pooled
<1>8. \A c \in Clients : Fresh(c) /\ c # r.client => Fresh(c)'
  BY <1>1 DEF Fresh, n
<1>9. Asked(r)
  BY <1>4, <1>8 DEF Asked, InOrder, Known, Lost
<1> QED
  BY <1>7, <1>9

\* ... and without one it is taken at once.
LEMMA AsksInline ==
  ASSUME OrderInv, ~Pooled, NEW r, Timely(r), queue' = queue, Receive(0, r)
  PROVE  OrderInv' /\ Asked(r)
<1>1. queue = << >> /\ queue' = << >> /\ taken \in [Clients -> LifeTypes \cup {"none"}]
  BY DEF OrderInv
<1>2. taken' = IF r.client \in Clients THEN [taken EXCEPT ![r.client] = r.type] ELSE taken
  BY DEF Receive
<1>3. \A c, type : ~Queued(c, type) /\ ~Queued(c, type)'
  BY <1>1 DEF Queued
<1>4. r.client \in Clients =>
        \/ r.type = "NewConnection" /\ taken[r.client] = "none"
        \/ /\ r.type \in {"StreamData", "ConnectionLost"}
           /\ taken[r.client] \in LifeTypes \ {"ConnectionLost"}
  BY <1>1, <1>3 DEF Timely, Fresh, Known, Lost
<1>5. taken' \in [Clients -> LifeTypes \cup {"none"}]
      /\ \A c \in Clients : taken'[c] = IF c = r.client THEN r.type ELSE taken[c]
  BY <1>1, <1>2, <1>4 DEF LifeTypes
<1>6. OrderInv'
  BY <1>1, <1>5 DEF OrderInv, Pooled
<1>7. ASSUME NEW c \in Clients
      PROVE  /\ InOrder(c) /\ (Known(c) => Known(c)')
             /\ Fresh(c) /\ c # r.client => Fresh(c)'
             /\ Lost(c)' => Lost(c) \/ (c = r.client /\ r.type = "ConnectionLost")
             /\ c = r.client /\ r.type = "NewConnection" => Known(c)'
  <2>1. CASE c = r.client
    BY <1>3, <1>4, <1>5, <2>1 DEF InOrder, Known, Lost, LifeTypes
  <2>2. CASE c # r.client
    BY <1>1, <1>3, <1>5, <2>2 DEF InOrder, Known, Lost, Fresh
  <2> QED
    BY <2>1, <2>2
<1> QED
  BY <1>6, <1>7 DEF Asked

LEMMA Asks ==
  ASSUME OrderInv, "NewConnection" \in RequestMask, NEW r, Timely(r), Dispatch(r)
  PROVE  OrderInv' /\ Asked(r)
<1>1. CASE UNCHANGED <<queue, taken>> /\ r.type # "NewConnection"
  BY <1>1 DEF OrderInv, Asked, InOrder, Known, Fresh, Lost, Queued
<1> QED
  BY <1>1, AsksPool, AsksInline DEF Dispatch, handVars, Receive
\* A step that asks about no client.
Silent ==
    /\ UNCHANGED <<queue, taken, event>>
    /\ Real' \subseteq Real
    /\ \A c \in Clients : peer'[c].at \in Awaited => peer[c].at \in Awaited
    /\ lpc' = "read" => lpc = "read"
    /\ Losing /\ event.client \in Clients => Losing' \/ \A d \in Real' : d.client # event.client

LEMMA SilentSafe ==
  ASSUME OrderInv, AskedInv, Silent
  PROVE  OrderInv' /\ AskedInv' /\ \A c \in Clients : InOrder(c)
<1>1. OrderInv' /\ event' = event /\ \A c \in Clients : InOrder(c)
  BY DEF Silent, OrderInv, InOrder, Pooled
<1>2. \A c \in Clients : (Known(c)' <=> Known(c)) /\ (Fresh(c)' <=> Fresh(c)) /\ (Lost(c)' <=> Lost(c))
  BY DEF Silent, Known, Fresh, Lost, Queued
<1>3. \A c \in Clients : Lost(c)' =>
        (\A d \in Real' : d.client # c) \/ (event.client = c /\ Losing)'
  BY <1>2 DEF Silent, AskedInv
<1>4. \A c \in Clients : peer'[c].at \in Awaited => Fresh(c)'
  BY <1>2 DEF Silent, AskedInv
<1>5. \A d \in Real' : d.client \in Clients => Known(d.client)'
  BY <1>2 DEF Silent, AskedInv
<1>6. event.client \in Clients =>
         /\ Known(event.client)' /\ peer'[event.client].at \notin Awaited
         /\ \A d \in Real' : d.client = event.client => d.fd = event.fd
  BY <1>2 DEF Silent, AskedInv
<1>7. lpc' = "read" => event.client \in Clients /\ ~Lost(event.client)'
  BY <1>2 DEF Silent, AskedInv
<1> QED
  BY <1>1, <1>3, <1>4, <1>5, <1>6, <1>7 DEF AskedInv

\* Who waits to be accepted has not been accepted before.
LEMMA AwaitedStay ==
  ASSUME ThreadTypes, [Next]_vars
  PROVE  \A c \in Clients : peer'[c].at \in Awaited => peer[c].at \in Awaited
<1>1. CASE CloseServer
  BY <1>1 DEF CloseServer, CloseAll, Idle, Awaited
<1>2. ASSUME NEW t \in Threads, CloseShuts(t)
      PROVE  \A c \in Clients : peer'[c].at \in Awaited => peer[c].at \in Awaited
  BY <1>2 DEF CloseShuts, CloseFd, Idle, Awaited
<1>3. CASE Accept
  <2>1. PICK e \in Clients : peer[e].at = "backlog" /\ peer' = [peer EXCEPT ![e].at = "accepted"]
    BY <1>3 DEF Accept, Backlog, AcceptSocket
  <2> QED
    BY <2>1 DEF Awaited
<1> QED
  BY <1>1, <1>2, <1>3, PeerMoves DEF Awaited, ThreadTypes

Asking == SelectTimeout \/ Accept \/ ReadRest \/ ReadEnd \/ ReadReset \/ ReadClosed

LEMMA SilentSteps ==
  ASSUME SocketInv, CallInv, AskedInv, [Next]_vars
  PROVE  Silent \/ Asking \/ ScanNext \/ \E w \in Workers : TakeRequest(w)
<1> USE DEF SocketInv
<1> SUFFICES ASSUME ~Asking, ~ScanNext, ~\E w \in Workers : TakeRequest(w)
             PROVE  Silent
  OBVIOUS
<1>1. 0 \in Threads
  BY ListenerAssumption DEF Threads
<1>2. \A c \in Clients : peer'[c].at \in Awaited => peer[c].at \in Awaited
  BY AwaitedStay
<1>3. UNCHANGED <<queue, taken, event>>
  <2>1. ASSUME ListenStep PROVE UNCHANGED <<queue, taken, event>>
    <3>1. CASE Stop
      BY <3>1, SocketsAssumption DEF Stop, Receive, handVars, listenVars, NoClient
    <3> QED
      BY <2>1, <3>1 DEF Asking, ListenStep, BuildSet, SelectFails, SelectReady, StartScan, EndScan,
         CheckShutdown, AcceptFails, ReadFullBlock, RemoveLost, Iterate, CloseNext, Advance,
         CloseServer, listenVars, poolVars, handVars
  <2>2. ASSUME NEW t \in Threads, HandlerStep(t) PROVE UNCHANGED <<queue, taken, event>>
    BY <2>2 DEF HandlerStep, HandleSimple, HandleShutdownCommand, HandleQuitOrLost,
       HandleBroadcast, Relay, RelayDone, CloseTests, CloseRemoves, CloseShuts, CloseForgets,
       CloseReports,
       Return, Undefined, listenVars, poolVars, handVars
  <2>3. StartShutdown \/ OutsideStep \/ UNCHANGED vars => UNCHANGED <<queue, taken, event>>
    BY DEF StartShutdown, OutsideStep, vars, listenVars, poolVars, handVars
  <2> QED
    BY <2>1, <2>2, <2>3, AnyStep
<1>4. Real' \subseteq Real
  <2>1. CASE UNCHANGED mDescriptors
    BY <2>1 DEF Real, Watched
  <2>2. ASSUME NEW fd \in Fds, RemoveDescriptor(fd) PROVE Real' \subseteq Real
    BY <2>2, RemoveReal DEF BaseInv, OpenInv
  <2>3. ServerFd \in Fds
    BY SocketsAssumption DEF ServerFd, Fds
  <2>4. ASSUME NEW t \in Threads, Closes(t) PROVE Real' \subseteq Real
    <3>1. mSocket[req[t].client] \in Fds
      BY <2>4, CloserMoves DEF BaseInv
    <3> QED
      BY <2>1, <2>2, <2>4, <3>1
         DEF Closes, CloseTests, CloseRemoves, CloseShuts, CloseForgets, CloseReports, arrayVars
  <2> QED
    BY <2>1, <2>2, <2>3, <2>4, StillSteps DEF Still, Asking, RemoveLost, CloseServer, BaseInv
<1>5. (lpc' = "read" => lpc = "read")
      /\ (Losing /\ event.client \in Clients => Losing' \/ \A d \in Real' : d.client # event.client)
  <2>1. CASE RemoveLost
    <3>1. lpc' = "scan" /\ \A d \in Real' : d \in Real /\ d.fd # event.fd
      BY <2>1, RemoveReal DEF RemoveLost, BaseInv, OpenInv
    <3> QED
      BY <3>1 DEF AskedInv
  <2>2. CASE EndRun
    BY <2>2 DEF EndRun, Losing
  <2>3. CASE ListenStep /\ ~RemoveLost
    <3>1. lpc \notin {"handler", "undefined"}
      BY <2>3, ListenHands
    <3>2. lpc # "lost" /\ (lpc' = "read" => lpc = "read")
      BY <2>3 DEF Asking, ListenStep, BuildSet, EndRun, SelectFails, SelectReady, StartScan,
           EndScan,
         CheckShutdown, AcceptFails, ReadFullBlock, Stop, Iterate, CloseNext, Advance, CloseServer
    <3> QED
      BY <3>1, <3>2 DEF Losing
  <2>4. ASSUME NEW t \in Threads, Return(t)
        PROVE  (lpc' = "read" => lpc = "read") /\ (Losing => Losing')
    <3>1. CASE t = 0
      <4>1. lpc = "handler" /\ req[0].type \in RequestTypes \cup {"Closing"}
            /\ lpc' = AfterRequest(req[0].type)
        BY <1>1, <2>4, <3>1 DEF CallInv, Return
      <4> QED
        BY <4>1 DEF AfterRequest, RequestTypes, Losing
    <3>2. CASE t # 0
      <4>1. lpc' = lpc /\ req'[0] = req[0]
        BY <1>1, <2>4, <3>2 DEF Return, ThreadTypes
      <4> QED
        BY <4>1 DEF Losing
    <3> QED
      BY <3>1, <3>2
  <2>5. CASE UNCHANGED <<lpc, req>>
    BY <2>5 DEF Losing
  <2>6. StartShutdown \/ OutsideStep \/ UNCHANGED vars => UNCHANGED <<lpc, req>>
    BY DEF StartShutdown, OutsideStep, vars, handVars
  <2> QED
    BY <2>1, <2>2, <2>3, <2>4, <2>5, <2>6, AnyStep, HandlerHands
<1> QED
  BY <1>2, <1>3, <1>4, <1>5 DEF Silent
\* The next descriptor of the scan is one that is watched.
LEMMA ScanSafe ==
  ASSUME SocketInv, OrderInv, AskedInv, ScanNext
  PROVE  OrderInv' /\ AskedInv' /\ \A c \in Clients : InOrder(c)
<1>1. PICK j \in 1 .. Len(mDescriptors) :
         /\ mDescriptors[j].fd \in fdset /\ event' = mDescriptors[j]
         /\ lpc' = IF mDescriptors[j].fd = ServerFd THEN "accept" ELSE "read"
  <2>1. Changed \subseteq 1 .. Len(mDescriptors)
    BY DEF Changed, SocketInv, BaseInv
  <2> QED
    BY <2>1 DEF ScanNext, Changed
<1>2. lpc = "scan" /\ UNCHANGED <<queue, taken, peer, mDescriptors>>
  BY DEF ScanNext, socketVars, poolVars, handVars, arrayVars
<1>3. event' \in Real /\ Real' = Real
  BY <1>1, <1>2, SocketsAssumption DEF Real, Watched, SocketInv, BaseInv, Garbage, Fds
<1>4. ~Losing /\ lpc \notin Ended
  BY <1>2 DEF Losing, Ended
<1>5. \A c \in Clients : (Known(c)' <=> Known(c)) /\ (Fresh(c)' <=> Fresh(c)) /\ (Lost(c)' <=> Lost(c))
  BY <1>2 DEF Known, Fresh, Lost, Queued
<1>6. \A c \in Clients : Lost(c) => \A d \in Real : d.client # c
  BY <1>4 DEF AskedInv
<1>7. \A d \in Real : d.client \in Clients =>
         peer[d.client].at = "accepted" /\ mSocket[d.client] = d.fd
  BY <1>4, RealFds, SocketsAssumption
     DEF SocketInv, BaseInv, OpenInv, OwnerInv, ServerDesc, NoClient
<1> DEFINE e == event'
<1>8. e.client \in Clients =>
        /\ Known(e.client) /\ peer[e.client].at \notin Awaited /\ ~Lost(e.client)
        /\ \A d \in Real : d.client = e.client => d.fd = e.fd
  BY <1>3, <1>6, <1>7 DEF AskedInv, Awaited
<1>9. lpc' = "read" => e.client \in Clients
  BY <1>1, <1>3, <1>4 DEF SocketInv, OpenInv, ServerDesc
<1>10. OrderInv' /\ \A c \in Clients : InOrder(c)
  BY <1>2 DEF OrderInv, InOrder, Pooled
<1>11. /\ \A c \in Clients : peer'[c].at \in Awaited => Fresh(c)'
       /\ \A d \in Real' : d.client \in Clients => Known(d.client)'
       /\ \A c \in Clients : Lost(c)' => \A d \in Real' : d.client # c
  BY <1>2, <1>3, <1>5, <1>6 DEF AskedInv
<1>12. e.client \in Clients =>
        /\ Known(event.client)' /\ peer'[e.client].at \notin Awaited /\ ~Lost(event.client)'
        /\ \A d \in Real' : d.client = e.client => d.fd = e.fd
  BY <1>2, <1>3, <1>8 DEF Known, Lost, Queued
<1> QED
  BY <1>9, <1>10, <1>11, <1>12 DEF AskedInv

LEMMA TakesSafe ==
  ASSUME ThreadTypes, OrderInv, AskedInv, NEW w \in Workers, TakeRequest(w)
  PROVE  OrderInv' /\ AskedInv' /\ \A c \in Clients : InOrder(c)
<1>1. 0 \in Threads /\ w \in Threads /\ w # 0
  BY ListenerAssumption DEF Threads, Workers
<1>2. UNCHANGED <<peer, mDescriptors, event, lpc>> /\ req'[0] = req[0]
  BY <1>1 DEF TakeRequest, Receive, socketVars, listenVars, arrayVars, ThreadTypes
<1>3. Real' = Real /\ (Losing' <=> Losing)
  BY <1>2 DEF Real, Watched, Losing
<1>4. /\ \A c \in Clients : peer'[c].at \in Awaited => Fresh(c)'
      /\ \A d \in Real' : d.client \in Clients => Known(d.client)'
      /\ \A c \in Clients : Lost(c)' =>
           (\A d \in Real' : d.client # c) \/ (event.client = c /\ Losing)'
  BY <1>2, <1>3, Takes DEF AskedInv
<1>5. event.client \in Clients => Known(event.client)' /\ (Lost(event.client)' <=> Lost(event.client))
  <2>1. \A c \in Clients : (Known(c) => Known(c)') /\ (Lost(c)' <=> Lost(c))
    BY Takes
  <2> QED
    BY <1>2, <2>1 DEF AskedInv, Known, Lost, Queued
<1> QED
  BY <1>2, <1>3, <1>4, <1>5, Takes DEF AskedInv
\* A timeout is no client's.
LEMMA TimeoutSafe ==
  ASSUME "NewConnection" \in RequestMask, OrderInv, AskedInv, SelectTimeout
  PROVE  OrderInv' /\ AskedInv' /\ \A c \in Clients : InOrder(c)
<1> DEFINE r == [type |-> "Timeout", fd |-> 0, client |-> NoClient]
<1>1. Dispatch(r) /\ lpc = "select" /\ UNCHANGED <<peer, mDescriptors, event>>
  BY DEF SelectTimeout, TimeoutEvent, socketVars, arrayVars
<1>2. Timely(r) /\ r.client \notin Clients /\ r.type = "Timeout"
  BY SocketsAssumption DEF Timely, Requests, RequestTypes, Fds, NoClient
<1> HIDE DEF r
<1>3. OrderInv' /\ Asked(r)
  BY <1>1, <1>2, Asks
<1>4. \A c \in Clients : /\ InOrder(c) /\ (Known(c) => Known(c)') /\ (Fresh(c) => Fresh(c)')
                         /\ Lost(c)' => Lost(c)
  BY <1>2, <1>3 DEF Asked
<1>5. Real' = Real /\ ~Losing /\ lpc' # "read"
  BY <1>1, <1>2 DEF Real, Watched, Losing, Dispatch, AfterRequest
<1>6. /\ \A c \in Clients : peer'[c].at \in Awaited => Fresh(c)'
      /\ \A d \in Real' : d.client \in Clients => Known(d.client)'
      /\ \A c \in Clients : Lost(c)' => \A d \in Real' : d.client # c
  BY <1>1, <1>4, <1>5 DEF AskedInv
<1>7. event.client \in Clients => Known(event.client)'
  BY <1>1, <1>4 DEF AskedInv, Known, Queued
<1> QED
  BY <1>1, <1>3, <1>4, <1>5, <1>6, <1>7 DEF AskedInv

\* A client is announced when it is accepted.
LEMMA AnnounceSafe ==
  ASSUME "NewConnection" \in RequestMask, SocketInv, OrderInv, AskedInv, Accept
  PROVE  OrderInv' /\ AskedInv' /\ \A c \in Clients : InOrder(c)
<1>1. LowestFree \in Fds /\ lpc = "accept" /\ event' = event
  BY LowestFreeFacts DEF Accept, listenVars
<1>2. PICK c \in Clients :
        /\ peer[c].at = "backlog" /\ peer' = [peer EXCEPT ![c].at = "accepted"]
        /\ mDescriptors' = ArrayAdd(mDescriptors, [fd |-> LowestFree, client |-> c])
        /\ Dispatch([type |-> "NewConnection", fd |-> LowestFree, client |-> c])
  BY DEF Accept, Backlog, AcceptSocket, DescriptorsBecome
<1> DEFINE d == [fd |-> LowestFree, client |-> c]
           r == [type |-> "NewConnection", fd |-> LowestFree, client |-> c]
<1>3. peer'[c].at = "accepted" /\ \A e \in Clients : e # c => peer'[e].at = peer[e].at
  BY <1>2 DEF SocketInv, ThreadTypes, Peers
<1>4. Fresh(c) /\ ~Lost(c)
  BY <1>2 DEF AskedInv, Awaited, Fresh, Lost, Queued
<1>5. Timely(r) /\ r.client = c /\ r.type = "NewConnection"
  BY <1>1, <1>4 DEF Timely, Requests, RequestTypes
<1>6. d \in Descriptors /\ d.client = c
  BY <1>1 DEF Descriptors
<1>7. Real' \subseteq Real \cup {d}
  BY <1>2, <1>6, AddFacts DEF SocketInv, BaseInv, Real
<1> HIDE DEF d, r
<1>8. OrderInv' /\ Asked(r)
  BY <1>2, <1>5, Asks DEF r
<1>9. ~Losing /\ lpc' # "read"
  BY <1>1, <1>2, <1>5 DEF Losing, Dispatch, AfterRequest, r
<1>10. \A e \in Clients : /\ InOrder(e) /\ (Known(e) => Known(e)') /\ (Lost(e)' => Lost(e))
                          /\ e # c => (Fresh(e) => Fresh(e)')
  BY <1>5, <1>8 DEF Asked
<1>11. Known(c)'
  BY <1>5, <1>8 DEF Asked
<1>12. \A e \in Clients : peer'[e].at \in Awaited => Fresh(e)'
  BY <1>3, <1>10 DEF AskedInv, Awaited
<1>13. \A x \in Real' : x.client \in Clients => Known(x.client)'
  BY <1>6, <1>7, <1>10, <1>11 DEF AskedInv
<1>14. \A e \in Clients : Lost(e)' => \A x \in Real' : x.client # e
  BY <1>4, <1>6, <1>7, <1>9, <1>10 DEF AskedInv
<1>15. event.client \in Clients =>
         /\ Known(event.client)' /\ peer'[event.client].at \notin Awaited
         /\ \A x \in Real' : x.client = event.client => x.fd = event.fd
  <2>1. event.client \in Clients => event.client # c
    BY <1>2 DEF AskedInv, Awaited
  <2>2. event.client \in Clients => Known(event.client)'
    BY <1>1, <1>10 DEF AskedInv, Known, Queued
  <2> QED
    BY <1>3, <1>6, <1>7, <2>1, <2>2 DEF AskedInv
<1> QED
  BY <1>1, <1>8, <1>9, <1>10, <1>12, <1>13, <1>14, <1>15 DEF AskedInv

\* Its data, and that it is lost, are reported while it is not known to be lost.
LEMMA ReportSafe ==
  ASSUME "NewConnection" \in RequestMask, SocketInv, CallInv, OrderInv, AskedInv, [Next]_vars,
         ReadRest \/ ReadEnd \/ ReadReset \/ ReadClosed
  PROVE  OrderInv' /\ AskedInv' /\ \A c \in Clients : InOrder(c)
<1>1. /\ lpc = "read" /\ UNCHANGED <<mDescriptors, event>>
      /\ \E readcount, anything : EndRead(readcount, anything)
  BY DEF ReadRest, ReadEnd, ReadReset, ReadClosed, arrayVars
<1>2. \A c \in Clients : peer'[c].at \in Awaited => peer[c].at \in Awaited
  BY AwaitedStay DEF SocketInv
<1> DEFINE c == event.client
<1>3. c \in Clients /\ ~Lost(c) /\ Known(c) /\ peer[c].at \notin Awaited /\ event.fd \in Fds
  BY <1>1 DEF AskedInv, SocketInv, BaseInv
<1>4. CASE UNCHANGED <<queue, taken>> /\ lpc' = "scan"
  <2>1. Silent
    BY <1>1, <1>2, <1>4 DEF Silent, Losing, Real, Watched
  <2> QED
    BY <2>1, SilentSafe
<1>5. ASSUME NEW type \in {"StreamData", "ConnectionLost"},
             Dispatch([type |-> type, fd |-> event.fd, client |-> c])
      PROVE  OrderInv' /\ AskedInv' /\ \A e \in Clients : InOrder(e)
  <2> DEFINE r == [type |-> type, fd |-> event.fd, client |-> c]
  <2>1. Timely(r) /\ r.client = c /\ r.type = type
    BY <1>3 DEF Timely, Requests, RequestTypes
  <2>2. /\ lpc' # "read"
        /\ type = "ConnectionLost" => lpc' = "lost" \/ (lpc' = "handler" /\ req'[0].type = type)
    BY <1>5, ListenerAssumption DEF Dispatch, AfterRequest, Receive, Threads, SocketInv, ThreadTypes
  <2> HIDE DEF r
  <2>3. OrderInv' /\ Asked(r)
    BY <1>5, <2>1, Asks DEF r
  <2>4. \A e \in Clients : /\ InOrder(e) /\ (Known(e) => Known(e)')
                           /\ Lost(e)' => Lost(e) \/ (e = c /\ type = "ConnectionLost")
                           /\ e # c => (Fresh(e) => Fresh(e)')
    BY <2>1, <2>3 DEF Asked
  <2>5. Real' = Real /\ ~Losing /\ (type = "ConnectionLost" => Losing')
    BY <1>1, <2>2 DEF Real, Watched, Losing
  <2>6. \A e \in Clients : peer'[e].at \in Awaited => Fresh(e)'
    BY <1>2, <1>3, <2>4 DEF AskedInv
  <2>7. \A d \in Real' : d.client \in Clients => Known(d.client)'
    BY <2>4, <2>5 DEF AskedInv
  <2>8. \A e \in Clients : Lost(e)' => (\A d \in Real' : d.client # e) \/ (c = e /\ Losing')
    BY <2>4, <2>5 DEF AskedInv
  <2>9. Known(event.client)' /\ peer'[event.client].at \notin Awaited
        /\ \A d \in Real' : d.client = event.client => d.fd = event.fd
    BY <1>1, <1>2, <1>3, <2>4, <2>5 DEF AskedInv, Known, Queued
  <2> QED
    BY <1>1, <2>2, <2>3, <2>4, <2>6, <2>7, <2>8, <2>9 DEF AskedInv
<1> QED
  BY <1>1, <1>4, <1>5 DEF EndRead, handVars

LEMMA LifeStep ==
  ASSUME "NewConnection" \in RequestMask, SocketInv, CallInv, OrderInv, AskedInv, [Next]_vars
  PROVE  OrderInv' /\ AskedInv' /\ \A c \in Clients : InOrder(c)
BY SilentSteps, SilentSafe, ScanSafe, TakesSafe, TimeoutSafe, AnnounceSafe, ReportSafe
   DEF Asking, SocketInv
-----------------------------------------------------------------------------
(* A Connection is deleted after it has been closed, and once.             *)

\* Only accept and the end of Connection::close do something to a Connection.
LEMMA ObjectMoves ==
  ASSUME ThreadTypes, CallInv, [Next]_vars
  PROVE  UNCHANGED object \/ Accept \/ \E t \in Threads : CloseTests(t) \/ CloseReports(t)
BY StillSteps DEF Still, RemoveLost, CloseServer, Closes, CloseRemoves, CloseShuts,
   CloseForgets, connVars

LEMMA FreedStep ==
  ASSUME SocketInv, CallInv, FreedInv, [Next]_vars, ~reclosed'
  PROVE  FreedInv'
<1> USE DEF SocketInv
<1>1. /\ Clients \cap {"closed", "stdin", "server"} = {}
      /\ 0 \in Fds /\ ServerFd \in Fds /\ ServerFd # 0
  BY SocketsAssumption DEF Fds, ServerFd
<1>2. file'[0] = "stdin"
  <2>1. CASE UNCHANGED file
    BY <2>1 DEF FreedInv
  <2>2. CASE Accept
    <3>1. LowestFree \in Fds /\ file[LowestFree] = "closed" /\ \E c : AcceptSocket(c)
      BY <2>2, LowestFreeFacts DEF Accept
    <3> QED
      BY <1>1, <3>1 DEF AcceptSocket, FreedInv, BaseInv
  <2>3. CASE CloseServer
    <3>1. RemoveDescriptor(ServerFd) /\ lpc = "closing" /\ CloseAll({ServerFd} \cup LeftOpen)
      BY <2>3 DEF CloseServer
    <3>2. Real' \subseteq Real
      BY <1>1, <3>1, RemoveReal DEF BaseInv, OpenInv
    <3>3. ASSUME 0 \in LeftOpen PROVE FALSE
      <4>1. PICK d \in Real : d.fd = 0
        BY <1>1, <3>2, <3>3, SocketsAssumption DEF LeftOpen, Real, Watched, Garbage, Fds
      <4> QED
        BY <1>1, <3>1, <4>1 DEF OpenInv, Ended, ServerDesc, FreedInv
    <3> QED
      BY <1>1, <3>1, <3>3 DEF CloseAll, FreedInv
  <2>4. ASSUME NEW t \in Threads, Closes(t) PROVE file'[0] = "stdin"
    <3>1. CASE CloseShuts(t)
      <4> DEFINE c == req[t].client
      <4>1. c \in Clients /\ object[c] = "live" /\ mSocket[c] \in Fds
        BY <2>4, CloserMoves DEF BaseInv
      <4>2. peer[c].at # "closed" /\ peer[c] \in Peers /\ peer[c].at \notin Awaited
        BY <3>1, <4>1 DEF CloseShuts, OwnerInv, ThreadTypes
      <4>3. file[mSocket[c]] = c
        BY <4>1, <4>2 DEF OwnerInv, Awaited, Peers
      <4>4. mSocket[c] # 0
        BY <1>1, <4>1, <4>3 DEF FreedInv
      <4>5. file' = [file EXCEPT ![mSocket[c]] = "closed"]
        BY <3>1 DEF CloseShuts, CloseFd
      <4> HIDE DEF c
      <4> QED
        BY <1>1, <4>4, <4>5 DEF FreedInv, BaseInv
    <3> QED
      BY <2>1, <2>4, <3>1 DEF Closes, CloseTests, CloseRemoves, CloseForgets, CloseReports,
           socketVars
  <2> QED
    BY <2>1, <2>2, <2>3, <2>4, StillSteps DEF Still, RemoveLost, socketVars
<1>3. ASSUME NEW c \in Clients, object'[c] = "freed" PROVE peer'[c].at = "closed"
  <2>1. ASSUME peer[c].at = "closed" PROVE peer'[c].at = "closed"
    BY <2>1, ClosedStay DEF ClosedClients
  <2>2. CASE object[c] = "freed"
    BY <2>1, <2>2 DEF FreedInv
  <2>3. CASE object[c] # "freed"
    <3>1. ~UNCHANGED object /\ ~Accept
      BY <1>3, <2>3 DEF Accept, ThreadTypes
    <3>2. PICK t \in Threads : CloseTests(t) \/ CloseReports(t)
      BY <3>1, ObjectMoves
    <3>3. req[t].client = c /\ object[c] = "live"
      BY <1>3, <2>3, <3>2, CloserMoves DEF Closes, CloseTests, CloseReports, CloseReturns,
           ThreadTypes
    <3>4. CASE CloseReports(t)
      BY <2>1, <3>3, <3>4 DEF CloseReports, DyingInv, Dying
    <3>5. CASE CloseTests(t)
      <4>1. mSocket[c] = 0
        BY <1>3, <2>3, <3>3, <3>5 DEF CloseTests
      <4>2. peer[c].at \notin Awaited /\ peer[c].at # "accepted" /\ peer[c] \in Peers
        BY <1>1, <3>3, <4>1 DEF OwnerInv, FreedInv, ThreadTypes
      <4> QED
        BY <2>1, <4>2 DEF Awaited, Peers
    <3> QED
      BY <3>2, <3>4, <3>5
  <2> QED
    BY <2>2, <2>3
<1>4. ASSUME NEW c \in Clients, object'[c] = "none" PROVE peer'[c].at \in Awaited
  <2>1. object[c] = "none" /\ peer[c].at \in Awaited /\ peer[c].at # "accepted"
    <3>1. object[c] = "none"
      BY <1>4, ObjectMoves DEF Accept, CloseTests, CloseReports, CloseReturns, ThreadTypes
    <3> QED
      BY <3>1 DEF FreedInv, Awaited
  <2>2. \A fd \in Fds : file[fd] # c
    BY <2>1 DEF OwnerInv
  <2>3. CASE Accept
    <3>1. PICK e \in Clients : /\ object' = [object EXCEPT ![e] = "live"]
                               /\ peer' = [peer EXCEPT ![e].at = "accepted"]
      BY <2>3 DEF Accept, Backlog, AcceptSocket
    <3> QED
      BY <1>4, <2>1, <3>1 DEF ThreadTypes
  <2>4. CASE CloseServer
    BY <2>1, <2>2, <2>4 DEF CloseServer, CloseAll
  <2>5. ASSUME NEW t \in Threads, CloseShuts(t) PROVE peer'[c].at \in Awaited
    <3>1. mSocket[req[t].client] \in Fds
      BY <2>5, CloserMoves DEF Closes, BaseInv
    <3> QED
      BY <2>1, <2>2, <2>5, <3>1 DEF CloseShuts, CloseFd
  <2> QED
    BY <2>1, <2>3, <2>4, <2>5, PeerMoves DEF Awaited, ThreadTypes
<1> QED
  BY <1>2, <1>3, <1>4 DEF FreedInv

\* A step that lets no thread take a loss.
Keeping == \A t \in Threads : Loses(t)' => Loses(t) /\ req'[t] = req[t]

\* A step in which thread t does, for client c.
Starting(t, c) ==
    /\ Receive(t, req'[t]) /\ req'[t].type = "ConnectionLost" /\ req'[t].client = c
    /\ c \in Clients /\ taken[c] # "ConnectionLost" /\ Known(c)
    /\ UNCHANGED object

\* The listener asks to handle a loss after it has read.
LEMMA LossAsked ==
  ASSUME Asking
  PROVE  \/ UNCHANGED <<queue, handVars>>
         \/ \E r : /\ Dispatch(r)
                   /\ r.type = "ConnectionLost" =>
                        lpc = "read" /\ r.client = event.client /\ UNCHANGED object
<1>1. CASE SelectTimeout
  BY <1>1 DEF SelectTimeout, TimeoutEvent
<1>2. CASE Accept
  BY <1>2 DEF Accept
<1>3. CASE ReadRest \/ ReadEnd \/ ReadReset \/ ReadClosed
  <2>1. lpc = "read" /\ UNCHANGED object /\ \E readcount, anything : EndRead(readcount, anything)
    BY <1>3 DEF ReadRest, ReadEnd, ReadReset, ReadClosed, connVars
  <2>2. \/ UNCHANGED <<queue, handVars>>
        \/ Dispatch([type |-> "StreamData", fd |-> event.fd, client |-> event.client])
        \/ Dispatch([type |-> "ConnectionLost", fd |-> event.fd, client |-> event.client])
    BY <2>1 DEF EndRead
  <2> QED
    BY <2>1, <2>2
<1> QED
  BY <1>1, <1>2, <1>3 DEF Asking

LEMMA LossTaken ==
  ASSUME SocketInv, CallInv, OrderInv, AskedInv, LossInv, [Next]_vars
  PROVE  Keeping \/ \E t \in Threads : \E c \in Clients : Starting(t, c)
<1> USE DEF SocketInv
<1>1. 0 \in Threads /\ Workers \subseteq Threads
  BY ListenerAssumption DEF Threads, Workers
<1>2. UNCHANGED <<hpc, req>> \/ (EndRun /\ req' = req) => Keeping
  BY DEF EndRun, Keeping, Loses
<1>3. ASSUME NEW t \in Threads, NEW phase, NEW r, hpc' = [hpc EXCEPT ![t] = phase],
             req' = [req EXCEPT ![t] = r], r.type # "ConnectionLost"
      PROVE  Keeping
  BY <1>3 DEF Keeping, Loses, ThreadTypes
<1>4. CASE Asking
  <2>1. PICK r : /\ Dispatch(r)
                 /\ r.type = "ConnectionLost" =>
                      lpc = "read" /\ r.client = event.client /\ UNCHANGED object
        \/ UNCHANGED handVars
    BY <1>4, LossAsked
  <2>2. UNCHANGED <<hpc, req>> \/ Receive(0, r)
    BY <2>1 DEF Dispatch, handVars
  <2>3. CASE Receive(0, r) /\ r.type = "ConnectionLost"
    <3>1. CASE UNCHANGED handVars
      BY <1>2, <3>1 DEF handVars
    <3>2. CASE lpc = "read" /\ r.client = event.client /\ UNCHANGED object
      <4>1. req'[0] = r
        BY <1>1, <2>3 DEF Receive, ThreadTypes
      <4>2. r.client \in Clients /\ Known(r.client) /\ taken[r.client] # "ConnectionLost"
        BY <3>2 DEF AskedInv, Lost
      <4>3. Starting(0, r.client)
        BY <2>3, <3>2, <4>1, <4>2 DEF Starting
      <4> QED
        BY <1>1, <4>2, <4>3
    <3> QED
      BY <2>1, <2>3, <3>1, <3>2
  <2> QED
    BY <1>1, <1>2, <1>3, <2>2, <2>3 DEF Receive
<1>5. CASE ListenStep /\ ~Asking
  <2>1. CASE Stop
    <3> DEFINE r == [type |-> "Shutdown", fd |-> 0, client |-> NoClient]
    <3>1. (UNCHANGED handVars \/ Receive(0, r)) /\ r.type = "Shutdown"
      BY <2>1 DEF Stop
    <3> HIDE DEF r
    <3> QED
      BY <1>1, <1>2, <1>3, <3>1 DEF handVars, Receive
  <2>2. CASE CloseNext
    <3> DEFINE d == iter[0].items[iter[0].at]
               r == [type |-> "Closing", fd |-> d.fd, client |-> d.client]
    <3>1. req' = [req EXCEPT ![0] = r] /\ hpc' = [hpc EXCEPT ![0] = "close"] /\ r.type = "Closing"
      BY <2>2 DEF CloseNext
    <3> HIDE DEF r
    <3> QED
      BY <1>1, <1>3, <3>1
  <2> QED
    BY <1>2, <1>5, <2>1, <2>2 DEF Asking, ListenStep, BuildSet, SelectFails, SelectReady, StartScan,
       ScanNext, EndScan, CheckShutdown, AcceptFails, ReadFullBlock, RemoveLost, Iterate, Advance,
       CloseServer, handVars
<1>6. ASSUME NEW t \in Threads, HandlerStep(t) PROVE Keeping
  <2>1. CASE Return(t)
    <3>1. NoReq.type # "ConnectionLost"
      BY DEF NoReq
    <3> QED
      BY <1>3, <2>1, <3>1 DEF Return, Goto
  <2>2. ASSUME UNCHANGED req, hpc[t] \notin {"idle", "end", "undefined"}, NEW x,
               hpc' = [hpc EXCEPT ![t] = x]
        PROVE  Keeping
    BY <2>2 DEF Keeping, Loses, ThreadTypes
  <2> QED
    BY <1>2, <1>6, <2>1, <2>2, HandlerHands
<1>7. ASSUME NEW w \in Workers, TakeRequest(w)
      PROVE  Keeping \/ \E c \in Clients : Starting(w, c)
  <2> DEFINE r == Head(queue)
  <2>1. 1 \in 1 .. Len(queue) /\ r = queue[1] /\ \A k \in 1 .. 1 - 1 : FALSE
    BY <1>7 DEF TakeRequest, OrderInv
  <2>2. Receive(w, r) /\ UNCHANGED object
    BY <1>7 DEF TakeRequest, connVars
  <2> HIDE DEF r
  <2>3. CASE r.type = "ConnectionLost"
    <3>1. r.client \in Clients
      BY <2>1, <2>3 DEF LossInv
    <3>2. /\ taken[r.client] # "none" => <<taken[r.client], r.type>> \in Later
          /\ taken[r.client] # "none"
      BY <2>1, <2>3, <3>1 DEF OrderInv
    <3>3. taken[r.client] # "ConnectionLost" /\ Known(r.client)
      BY <3>2 DEF Later, Known
    <3>4. req'[w] = r
      BY <1>1, <2>2 DEF Receive, ThreadTypes
    <3>5. Starting(w, r.client)
      BY <2>2, <2>3, <3>1, <3>3, <3>4 DEF Starting
    <3> QED
      BY <3>1, <3>5
  <2> QED
    BY <1>1, <1>3, <2>2, <2>3 DEF Receive
<1>8. StartShutdown \/ OutsideStep \/ UNCHANGED vars => UNCHANGED <<hpc, req>>
  BY DEF StartShutdown, OutsideStep, vars, handVars
<1> QED
  BY <1>1, <1>2, <1>4, <1>5, <1>6, <1>7, <1>8, AnyStep

\* The queue holds the loss of a client, never of the server.
LEMMA LossQueued ==
  ASSUME SocketInv, CallInv, OrderInv, AskedInv, LossInv, [Next]_vars
  PROVE  \A i \in 1 .. Len(queue') : queue'[i].type = "ConnectionLost" => queue'[i].client \in Clients
<1> USE DEF SocketInv
<1>1. queue \in Seq(Requests)
  BY DEF OrderInv
<1>2. CASE UNCHANGED queue
  BY <1>2 DEF LossInv
<1>3. ASSUME NEW w \in Workers, TakeRequest(w)
      PROVE  \A i \in 1 .. Len(queue') : queue'[i].type = "ConnectionLost" => queue'[i].client \in Clients
  <2>1. Len(queue') = Len(queue) - 1 /\ \A i \in 1 .. Len(queue') : queue'[i] = queue[i + 1]
    BY <1>1, <1>3 DEF TakeRequest
  <2>2. \A i \in 1 .. Len(queue') : i + 1 \in 1 .. Len(queue)
    BY <1>1, <2>1
  <2> QED
    BY <2>1, <2>2 DEF LossInv
<1>4. CASE Asking
  <2>1. PICK r : \/ UNCHANGED queue
                 \/ /\ queue' = Append(queue, r)
                    /\ r.type = "ConnectionLost" => lpc = "read" /\ r.client = event.client
    BY <1>4, LossAsked DEF Dispatch
  <2>2. CASE ~UNCHANGED queue
    <3>1. /\ Len(queue') = Len(queue) + 1 /\ queue'[Len(queue) + 1] = r
          /\ \A i \in 1 .. Len(queue) : queue'[i] = queue[i]
      BY <1>1, <2>1, <2>2
    <3>2. r.type = "ConnectionLost" => r.client \in Clients
      BY <2>1, <2>2 DEF AskedInv
    <3>3. \A i \in 1 .. Len(queue') : i \in 1 .. Len(queue) \/ i = Len(queue) + 1
      BY <1>1, <3>1
    <3> QED
      BY <3>1, <3>2, <3>3 DEF LossInv
  <2> QED
    BY <1>2, <2>2
<1> QED
  BY <1>2, <1>3, <1>4, SilentSteps DEF Silent, ScanNext, poolVars

LEMMA LossStep ==
  ASSUME "NewConnection" \in RequestMask, SocketInv, CallInv, FreedInv, OrderInv, AskedInv, LossInv,
         [Next]_vars
  PROVE  LossInv'
<1> USE DEF SocketInv
<1>1. ASSUME NEW c \in Clients, taken[c] = "ConnectionLost" PROVE taken'[c] = "ConnectionLost"
  BY <1>1, LifeStep DEF InOrder
<1>2. ASSUME NEW t \in Threads, Loses(t), Loses(t)', req'[t] = req[t]
      PROVE  object'[req[t].client] = "live"
  <2>1. req[t].client \in Clients /\ object[req[t].client] = "live"
    BY <1>2 DEF LossInv
  <2>2. CASE Accept
    BY <2>1, <2>2 DEF Accept, ThreadTypes
  <2>3. ASSUME NEW u \in Threads, CloseTests(u) \/ CloseReports(u)
        PROVE  object'[req[t].client] = "live"
    <3>1. CASE req[u].type = "ConnectionLost" /\ CloseReturns(u)
      <4>1. Loses(u) /\ object' = [object EXCEPT ![req[u].client] = "freed"]
        BY <2>3, <3>1 DEF Loses, CloseTests, CloseReports, CloseReturns
      <4>2. t # u
        BY <1>2, <3>1 DEF Loses, CloseReturns, Goto, ThreadTypes
      <4>3. req[u].client # req[t].client
        BY <1>2, <4>1, <4>2 DEF LossInv
      <4> QED
        BY <2>1, <4>1, <4>3 DEF ThreadTypes
    <3>2. CASE UNCHANGED object
      BY <2>1, <3>2
    <3> QED
      BY <2>3, <3>1, <3>2 DEF CloseTests, CloseReports, CloseReturns
  <2> QED
    BY <2>1, <2>2, <2>3, ObjectMoves
<1>3. ASSUME NEW c \in Clients, object'[c] = "freed" PROVE taken'[c] = "ConnectionLost"
  <2>1. CASE object[c] = "freed"
    BY <1>1, <2>1 DEF LossInv
  <2>2. CASE object[c] # "freed"
    <3>1. ~UNCHANGED object /\ ~Accept
      BY <1>3, <2>2 DEF Accept, ThreadTypes
    <3>2. PICK t \in Threads : CloseTests(t) \/ CloseReports(t)
      BY <3>1, ObjectMoves
    <3>3. req[t].client = c /\ Loses(t)
      BY <1>3, <2>2, <3>2 DEF CloseTests, CloseReports, CloseReturns, ThreadTypes, Loses
    <3> QED
      BY <1>1, <3>3 DEF LossInv
  <2> QED
    BY <2>1, <2>2
<1>4. CASE Keeping
  <2>1. \A t \in Threads : Loses(t)' =>
          /\ req'[t].client \in Clients /\ taken'[req'[t].client] = "ConnectionLost"
          /\ object'[req'[t].client] = "live"
    BY <1>1, <1>2, <1>4 DEF Keeping, LossInv
  <2>2. \A t, u \in Threads : Loses(t)' /\ Loses(u)' /\ req'[t].client = req'[u].client => t = u
    BY <1>4 DEF Keeping, LossInv
  <2> QED
    BY <1>3, <2>1, <2>2, LossQueued DEF LossInv
<1>5. ASSUME NEW t \in Threads, NEW c \in Clients, Starting(t, c) PROVE LossInv'
  <2>1. object[c] = "live" /\ object' = object
    <3>1. peer[c].at \notin Awaited
      BY <1>5 DEF Starting, Known, Fresh, AskedInv, Queued
    <3> QED
      BY <1>5, <3>1 DEF Starting, FreedInv, LossInv, ThreadTypes
  <2>2. taken'[c] = "ConnectionLost"
    BY <1>5 DEF Starting, Receive, OrderInv
  <2>3. /\ req'[t].client = c
        /\ \A u \in Threads : u # t /\ Loses(u)' => Loses(u) /\ req'[u] = req[u]
    <3>1. \A u \in Threads : u # t => req'[u] = req[u] /\ hpc'[u] = hpc[u]
      BY <1>5 DEF Starting, Receive, ThreadTypes
    <3> QED
      BY <1>5, <3>1 DEF Starting, Loses
  <2>4. \A u \in Threads : u # t /\ Loses(u)' => req[u].client # c
    BY <1>5, <2>3 DEF Starting, LossInv
  <2>5. \A u \in Threads : Loses(u)' =>
          /\ req'[u].client \in Clients /\ taken'[req'[u].client] = "ConnectionLost"
          /\ object'[req'[u].client] = "live"
    BY <1>1, <1>2, <2>1, <2>2, <2>3 DEF LossInv
  <2>6. \A s, u \in Threads : Loses(s)' /\ Loses(u)' /\ req'[s].client = req'[u].client => s = u
    BY <2>3, <2>4 DEF LossInv
  <2> QED
    BY <1>3, <2>5, <2>6, LossQueued DEF LossInv
<1> QED
  BY <1>4, <1>5, LossTaken

-----------------------------------------------------------------------------
(* No open socket is forgotten.                                            *)

LEMMA UndefinedStays ==
  ASSUME ThreadTypes, CallInv, UndefInv, [Next]_vars
  PROVE  UndefInv' /\ (lpc = "undefined" => lpc' = "undefined")
<1>1. EndRun => UndefInv' /\ lpc' = "undefined"
  BY DEF EndRun, UndefInv
<1>2. ASSUME ListenStep PROVE lpc # "undefined" /\ (EndRun \/ lpc' # "undefined")
  <2>1. \A r : Dispatch(r) /\ r.type \in RequestTypes => lpc' # "undefined"
    BY DEF Dispatch, AfterRequest, RequestTypes
  <2>2. CASE SelectTimeout \/ Accept \/ ReadRest \/ ReadEnd \/ ReadReset \/ ReadClosed
    BY <2>1, <2>2 DEF SelectTimeout, TimeoutEvent, Accept, ReadRest, ReadEnd, ReadReset, ReadClosed,
       EndRead, RequestTypes
  <2>3. lpc # "undefined"
    BY <1>2, ListenHands
  <2> QED
    BY <1>2, <2>2, <2>3 DEF ListenStep, BuildSet, SelectFails, SelectReady, StartScan, ScanNext,
       EndScan, CheckShutdown, AcceptFails, ReadFullBlock, RemoveLost, Stop, Iterate, CloseNext,
       Advance, CloseServer
<1>3. ASSUME NEW t \in Threads, HandlerStep(t) PROVE EndRun \/ (lpc # "undefined" /\ lpc' # "undefined")
  <2>1. CASE Return(t)
    <3>1. lpc # "undefined"
      BY <2>1 DEF Return, UndefInv
    <3>2. CASE t = 0
      <4>1. req[0].type \in RequestTypes \cup {"Closing"} /\ lpc' = AfterRequest(req[0].type)
        BY <2>1, <3>2 DEF CallInv, Return
      <4> QED
        BY <3>1, <4>1 DEF AfterRequest, RequestTypes
    <3> QED
      BY <2>1, <3>1, <3>2 DEF Return
  <2>2. CASE UNCHANGED lpc /\ hpc[t] \notin {"idle", "end", "undefined"}
    BY <2>2 DEF UndefInv
  <2> QED
    BY <1>3, <2>1, <2>2, HandlerHands
<1>4. ASSUME NEW w \in Workers, TakeRequest(w) PROVE lpc # "undefined" /\ lpc' # "undefined"
  <2>1. w \in Threads
    BY ListenerAssumption DEF Threads, Workers
  <2> QED
    BY <1>4, <2>1 DEF TakeRequest, UndefInv
<1>5. StartShutdown \/ OutsideStep \/ UNCHANGED vars => UNCHANGED <<lpc, hpc>>
  BY DEF StartShutdown, OutsideStep, vars, handVars
<1> QED
  BY <1>1, <1>2, <1>3, <1>4, <1>5, AnyStep DEF UndefInv

\* Who has an accepted socket after a step had it before, or has just been accepted.
LEMMA AcceptedMoves ==
  ASSUME peer \in [Clients -> Peers], [Next]_vars, NEW c \in Clients, peer'[c].at = "accepted"
  PROVE  \/ peer[c].at = "accepted"
         \/ Accept /\ peer[c].at = "backlog"
<1>1. CASE CloseServer
  BY <1>1 DEF CloseServer, CloseAll, Idle
<1>2. ASSUME NEW t \in Threads, CloseShuts(t) PROVE peer[c].at = "accepted"
  BY <1>2 DEF CloseShuts, CloseFd, Idle
<1>3. CASE Accept
  <2>1. PICK e \in Clients : peer[e].at = "backlog" /\ peer' = [peer EXCEPT ![e].at = "accepted"]
    BY <1>3 DEF Accept, Backlog, AcceptSocket
  <2> QED
    BY <1>3, <2>1
<1> QED
  BY <1>1, <1>2, <1>3, PeerMoves

\* A thread at work is left alone by the others.
Working == {"begin", "close", "remove", "shut"}

LEMMA WorkStays ==
  ASSUME ThreadTypes, CallInv, [Next]_vars, NEW t \in Threads, hpc[t] \in Working, lpc' # "undefined"
  PROVE  req'[t] = req[t] /\ (hpc'[t] = hpc[t] \/ HandlerStep(t))
<1>1. CASE ListenStep
  <2>1. t = 0 => FALSE
    BY <1>1, ListenHands DEF CallInv, Working
  <2> QED
    BY <1>1, <2>1, ListenHands DEF EndRun, Summons, ThreadTypes
<1>2. ASSUME NEW u \in Threads, HandlerStep(u) PROVE req'[t] = req[t] /\ (hpc'[t] = hpc[t] \/ u = t)
  <2>1. CASE Return(u)
    BY <2>1 DEF Return, Goto, Working, ThreadTypes
  <2>2. ASSUME NEW x, req' = req, hpc' = [hpc EXCEPT ![u] = x]
        PROVE  req'[t] = req[t] /\ (hpc'[t] = hpc[t] \/ u = t)
    BY <2>2 DEF ThreadTypes
  <2> QED
    BY <1>2, <2>1, <2>2, HandlerHands DEF EndRun
<1>3. ASSUME NEW w \in Workers, TakeRequest(w) PROVE req'[t] = req[t] /\ hpc'[t] = hpc[t]
  BY <1>3 DEF TakeRequest, Receive, Working, ThreadTypes
<1>4. StartShutdown \/ OutsideStep \/ UNCHANGED vars => UNCHANGED <<hpc, req>>
  BY DEF StartShutdown, OutsideStep, vars, handVars
<1> QED
  BY <1>1, <1>2, <1>3, <1>4, AnyStep

\* The request that tells of the loss of a client goes on to close its Connection.
LEMMA LossGoesOn ==
  ASSUME ThreadTypes, NEW t \in Threads, HandlerStep(t), hpc[t] \in Working, lpc' # "undefined",
         req[t].type = "ConnectionLost"
  PROVE  \/ hpc'[t] \in Working
         \/ CloseShuts(t)
         \/ CloseTests(t) /\ mSocket[req[t].client] = 0
BY DEF HandlerStep, HandleSimple, HandleShutdownCommand, HandleQuitOrLost, HandleBroadcast, Relay,
   RelayDone, CloseTests, CloseRemoves, CloseForgets, CloseReports, CloseReturns, Return,
   Undefined, EndRun,
   Goto, Working, ThreadTypes

\* ::close closes the socket of a client that has one.
LEMMA ShutCloses ==
  ASSUME SocketInv, NEW t \in Threads, CloseShuts(t), peer[req[t].client].at = "accepted"
  PROVE  peer'[req[t].client].at = "closed"
<1>1. req[t].client \in Clients
  BY CloserMoves DEF SocketInv, Closes
<1>2. file[mSocket[req[t].client]] = req[t].client
  BY <1>1 DEF SocketInv, OwnerInv
<1> QED
  BY <1>1, <1>2 DEF CloseShuts, CloseFd, Idle

LEMMA EndsStay ==
  ASSUME SocketInv, CallInv, FreedInv, [Next]_vars, lpc' # "undefined",
         NEW c \in Clients, NEW t \in Threads, Ends(t, c),
         peer[c].at = "accepted", peer'[c].at = "accepted"
  PROVE  Ends(t, c)'
<1> USE DEF SocketInv
<1>1. req'[t] = req[t] /\ (hpc'[t] = hpc[t] \/ HandlerStep(t))
  BY WorkStays DEF Ends, Working
<1>2. ~CloseShuts(t)
  BY ShutCloses DEF Ends
<1>3. mSocket[c] # 0
  BY SocketsAssumption DEF OwnerInv, FreedInv
<1>4. hpc'[t] \in Working
  BY <1>1, <1>2, <1>3, LossGoesOn DEF Ends, Working
<1> QED
  BY <1>1, <1>4 DEF Ends, Working

LEMMA ShutsStay ==
  ASSUME SocketInv, CallInv, [Next]_vars, lpc' # "undefined", ~reclosed',
         NEW c \in Clients, NEW t \in Threads, Shuts(t, c),
         peer[c].at = "accepted", peer'[c].at = "accepted"
  PROVE  Shuts(t, c)'
<1> USE DEF SocketInv
<1>1. req'[t] = req[t] /\ (hpc'[t] = hpc[t] \/ HandlerStep(t)) /\ hpc[t] = "shut"
  BY WorkStays DEF Shuts, Working
<1>2. ~CloseShuts(t)
  <2>1. CASE req[t].client = c
    BY <2>1, ShutCloses
  <2>2. CASE peer[req[t].client].at = "closed"
    BY <2>2 DEF CloseShuts
  <2> QED
    BY <2>1, <2>2 DEF Shuts
<1>3. hpc'[t] = "shut"
  BY <1>1, <1>2 DEF HandlerStep, HandleSimple, HandleShutdownCommand, HandleQuitOrLost,
     HandleBroadcast, Relay, RelayDone, CloseTests, CloseRemoves, CloseForgets, CloseReports,
     Return, Undefined,
     EndRun
<1>4. peer[req[t].client].at = "closed" => peer'[req[t].client].at = "closed"
  BY <1>1, ClosedStay DEF DyingInv, Dying, ClosedClients
<1> QED
  BY <1>1, <1>3, <1>4 DEF Shuts

\* What is taken is given to a thread.
LEMMA TakenMoves ==
  ASSUME [Next]_vars
  PROVE  UNCHANGED taken \/ \E t \in Threads : \E r : Receive(t, r)
<1>1. 0 \in Threads /\ Workers \subseteq Threads
  BY ListenerAssumption DEF Threads, Workers
<1>2. CASE Asking
  BY <1>1, <1>2, LossAsked DEF Dispatch, handVars
<1>3. CASE ListenStep /\ ~Asking
  BY <1>1, <1>3 DEF Asking, ListenStep, BuildSet, SelectFails, SelectReady, StartScan, ScanNext,
     EndScan, CheckShutdown, AcceptFails, ReadFullBlock, RemoveLost, Stop, Iterate, CloseNext,
     Advance, CloseServer, handVars
<1>4. ASSUME NEW t \in Threads, HandlerStep(t) PROVE UNCHANGED taken
  BY <1>4 DEF HandlerStep, HandleSimple, HandleShutdownCommand, HandleQuitOrLost, HandleBroadcast,
     Relay, RelayDone, CloseTests, CloseRemoves, CloseShuts, CloseForgets, CloseReports, Return,
     Undefined,
     handVars
<1>5. ASSUME NEW w \in Workers, TakeRequest(w) PROVE \E r : Receive(w, r)
  BY <1>5 DEF TakeRequest
<1>6. StartShutdown \/ OutsideStep \/ UNCHANGED vars => UNCHANGED taken
  BY DEF StartShutdown, OutsideStep, vars, handVars
<1> QED
  BY <1>1, <1>2, <1>3, <1>4, <1>5, <1>6, AnyStep

\* The thread that takes the loss of a client will close its Connection.
LEMMA TakenEnds ==
  ASSUME ThreadTypes, taken \in [Clients -> LifeTypes \cup {"none"}], [Next]_vars,
         NEW c \in Clients, taken[c] # "ConnectionLost", taken'[c] = "ConnectionLost"
  PROVE  \E t \in Threads : Ends(t, c)'
<1>1. PICK t \in Threads : \E r : Receive(t, r)
  BY TakenMoves
<1>2. PICK r : Receive(t, r)
  BY <1>1
<1>3. req'[t] = r /\ hpc'[t] = "begin"
  BY <1>2 DEF Receive, ThreadTypes
<1>4. r.client = c /\ r.type = "ConnectionLost"
  BY <1>2 DEF Receive
<1> QED
  BY <1>3, <1>4 DEF Ends

\* A loss stays in the queue until it is taken.
LEMMA QueuedStays ==
  ASSUME SocketInv, CallInv, OrderInv, AskedInv, [Next]_vars,
         NEW c \in Clients, Queued(c, "ConnectionLost")
  PROVE  \/ Queued(c, "ConnectionLost")'
         \/ /\ taken'[c] = "ConnectionLost"
            /\ \E t \in Threads : Ends(t, c)'
<1> USE DEF SocketInv
<1>0. PICK i \in 1 .. Len(queue) : queue[i].client = c /\ queue[i].type = "ConnectionLost"
  BY DEF Queued
<1>1. queue \in Seq(Requests)
  BY DEF OrderInv
<1>2. CASE UNCHANGED queue
  BY <1>2 DEF Queued
<1>3. CASE Asking
  <2>1. UNCHANGED queue \/ \E r : queue' = Append(queue, r)
    BY <1>3, LossAsked DEF Dispatch
  <2>2. ASSUME NEW r, queue' = Append(queue, r) PROVE Queued(c, "ConnectionLost")'
    <3>1. Len(queue') = Len(queue) + 1 /\ queue'[i] = queue[i] /\ i \in 1 .. Len(queue')
      BY <1>1, <2>2
    <3> QED
      BY <1>0, <3>1 DEF Queued
  <2> QED
    BY <1>2, <2>1, <2>2
<1>4. ASSUME NEW w \in Workers, TakeRequest(w)
      PROVE  \/ Queued(c, "ConnectionLost")'
             \/ taken'[c] = "ConnectionLost" /\ \E t \in Threads : Ends(t, c)'
  <2>1. CASE i = 1
    <3>1. w \in Threads
      BY ListenerAssumption DEF Threads, Workers
    <3>2. Receive(w, queue[1])
      BY <1>1, <1>4 DEF TakeRequest
    <3>3. req'[w] = queue[1] /\ hpc'[w] = "begin" /\ taken'[c] = "ConnectionLost"
      BY <1>0, <2>1, <3>1, <3>2 DEF Receive, ThreadTypes, OrderInv
    <3> QED
      BY <1>0, <2>1, <3>1, <3>3 DEF Ends
  <2>2. CASE i # 1
    <3>1. i - 1 \in 1 .. Len(queue') /\ queue'[i - 1] = queue[i]
      BY <1>1, <1>4, <2>2 DEF TakeRequest
    <3> QED
      BY <1>0, <3>1 DEF Queued
  <2> QED
    BY <2>1, <2>2
<1> QED
  BY <1>2, <1>3, <1>4, SilentSteps DEF Silent, ScanNext, poolVars

\* What is to be closed stays to be closed.
LEMMA ToCloseStays ==
  ASSUME SocketInv, CallInv, FreedInv, OrderInv, AskedInv, [Next]_vars,
         lpc' # "undefined", ~reclosed', NEW c \in Clients, ToClose(c),
         peer[c].at = "accepted", peer'[c].at = "accepted"
  PROVE  ToClose(c)'
<1>1. CASE Queued(c, "ConnectionLost")
  BY <1>1, QueuedStays DEF ToClose
<1>2. ASSUME NEW t \in Threads, Ends(t, c) PROVE ToClose(c)'
  <2>1. Ends(t, c)'
    BY <1>2, EndsStay
  <2> QED
    BY <2>1 DEF ToClose
<1>3. ASSUME NEW t \in Threads, Shuts(t, c) PROVE ToClose(c)'
  <2>1. Shuts(t, c)'
    BY <1>3, ShutsStay
  <2> QED
    BY <2>1 DEF ToClose
<1> QED
  BY <1>1, <1>2, <1>3 DEF ToClose

\* The listener asks about what it has read; a client that is lost is not asked about again.
LEMMA ReportMoves ==
  ASSUME ThreadTypes, CallInv, [Next]_vars, lpc' = "read" \/ Reporting'
  PROVE  \/ ScanNext /\ lpc' = "read"
         \/ /\ lpc = "read" \/ Reporting
            /\ UNCHANGED event
            /\ Reporting' => Reporting \/ ReadLast
<1>1. 0 \in Threads
  BY ListenerAssumption DEF Threads
<1>2. lpc' \in {"read", "lost", "handler"} /\ (lpc' = "handler" => req'[0].type = "ConnectionLost")
  BY DEF Reporting
<1>3. ASSUME NEW r, Dispatch(r), r.type \in {"Timeout", "NewConnection"} PROVE FALSE
  <2>1. lpc' \in {"scan", "check"} \/ (lpc' = "handler" /\ req'[0] = r)
    BY <1>1, <1>3 DEF Dispatch, AfterRequest, Receive, ThreadTypes
  <2> QED
    BY <1>2, <1>3, <2>1
<1>4. CASE SelectTimeout \/ Accept
  BY <1>3, <1>4 DEF SelectTimeout, TimeoutEvent, Accept
<1>5. CASE Stop
  <2> DEFINE r == [type |-> "Shutdown", fd |-> 0, client |-> NoClient]
  <2>1. lpc' = "iterate" \/ (Receive(0, r) /\ r.type = "Shutdown" /\ lpc' = "handler")
    BY <1>5 DEF Stop
  <2> HIDE DEF r
  <2> QED
    BY <1>1, <1>2, <2>1 DEF Receive, ThreadTypes
<1>6. CASE CloseNext
  <2> DEFINE d == iter[0].items[iter[0].at]
             r == [type |-> "Closing", fd |-> d.fd, client |-> d.client]
  <2>1. lpc' = "handler" /\ req' = [req EXCEPT ![0] = r] /\ r.type = "Closing"
    BY <1>6 DEF CloseNext
  <2> HIDE DEF r
  <2> QED
    BY <1>1, <1>2, <2>1 DEF ThreadTypes
<1>7. CASE ScanNext
  BY <1>2, <1>7 DEF ScanNext
<1>8. CASE ReadLast
  BY <1>8 DEF ReadLast, ReadRest, ReadEnd, ReadReset, ReadClosed
<1>9. CASE ReadFullBlock
  BY <1>9 DEF ReadFullBlock, Reporting
<1>10. CASE ListenStep
  BY <1>2, <1>4, <1>5, <1>6, <1>7, <1>8, <1>9, <1>10 DEF ListenStep, BuildSet, EndRun, SelectFails,
     SelectReady, StartScan, EndScan, CheckShutdown, AcceptFails, RemoveLost, Iterate, Advance,
     CloseServer, ReadLast
<1>11. ASSUME NEW t \in Threads, HandlerStep(t)
       PROVE  (lpc = "read" \/ Reporting) /\ UNCHANGED event /\ (Reporting' => Reporting)
  <2>1. UNCHANGED event
    BY <1>11 DEF HandlerStep, HandleSimple, HandleShutdownCommand, HandleQuitOrLost,
       HandleBroadcast, Relay, RelayDone, CloseTests, CloseRemoves, CloseShuts, CloseForgets,
       CloseReports,
       Return, Undefined, listenVars
  <2>2. CASE Return(t) /\ t = 0
    <3>1. lpc = "handler" /\ req[0].type \in RequestTypes \cup {"Closing"}
          /\ lpc' = AfterRequest(req[0].type)
      BY <1>1, <2>2 DEF CallInv, Return
    <3>2. req[0].type = "ConnectionLost"
      BY <1>2, <3>1 DEF AfterRequest, RequestTypes
    <3> QED
      BY <2>1, <3>1, <3>2 DEF Reporting
  <2>3. CASE Return(t) /\ t # 0
    <3>1. lpc' = lpc /\ req'[0] = req[0]
      BY <1>1, <2>3 DEF Return, ThreadTypes
    <3> QED
      BY <2>1, <3>1 DEF Reporting
  <2>4. CASE UNCHANGED <<lpc, req>>
    BY <2>1, <2>4 DEF Reporting
  <2> QED
    BY <1>2, <1>11, <2>2, <2>3, <2>4, HandlerHands DEF EndRun
<1>12. ASSUME NEW w \in Workers, TakeRequest(w) PROVE UNCHANGED <<lpc, event>> /\ req'[0] = req[0]
  <2>1. w # 0
    BY DEF Workers
  <2> QED
    BY <1>1, <1>12, <2>1 DEF TakeRequest, Receive, ThreadTypes, listenVars
<1>13. StartShutdown \/ OutsideStep \/ UNCHANGED vars => UNCHANGED <<lpc, req, event>>
  BY DEF StartShutdown, OutsideStep, vars, listenVars, handVars
<1> QED
  BY <1>10, <1>11, <1>12, <1>13, AnyStep DEF Reporting

\* A descriptor that nothing has lost leaves mDescriptors when it is removed.
LEMMA WatchMoves ==
  ASSUME SocketInv, CallInv, [Next]_vars, NoGarbage, NoGarbage'
  PROVE  /\ \A d \in Watched : \/ d \in Watched'
                               \/ RemoveLost /\ d.fd = event.fd
                               \/ CloseServer /\ d.fd = ServerFd
                               \/ \E t \in Threads : CloseRemoves(t) /\ d.fd = mSocket[req[t].client]
         /\ Watched' \subseteq Watched \/ Accept
<1> USE DEF SocketInv
<1>1. Distinct
  BY DEF OpenInv, OneEach, Distinct, NoGarbage, Watched
<1>2. ASSUME NEW fd \in Fds, RemoveDescriptor(fd) PROVE Watched' = {d \in Watched : d.fd # fd}
  BY <1>1, <1>2, RemoveExact DEF NoGarbage, BaseInv
<1>3. CASE UNCHANGED mDescriptors
  BY <1>3 DEF Watched
<1>4. CASE Accept
  <2>1. PICK c \in Clients :
          DescriptorsBecome(ArrayAdd(mDescriptors, [fd |-> LowestFree, client |-> c]))
    BY <1>4 DEF Accept, Backlog
  <2>2. [fd |-> LowestFree, client |-> c] \in Descriptors
    BY <1>4, LowestFreeFacts DEF Accept, Descriptors
  <2> QED
    BY <1>4, <2>1, <2>2, AddFacts DEF DescriptorsBecome, BaseInv
<1>5. CASE RemoveLost
  BY <1>2, <1>5 DEF RemoveLost, BaseInv
<1>6. CASE CloseServer
  BY <1>2, <1>6, SocketsAssumption DEF CloseServer, ServerFd, Fds
<1>7. ASSUME NEW t \in Threads, CloseRemoves(t)
      PROVE  /\ Watched' \subseteq Watched
             /\ \A d \in Watched : d \in Watched' \/ d.fd = mSocket[req[t].client]
  <2>1. mSocket[req[t].client] \in Fds
    BY <1>7, CloserMoves DEF Closes, BaseInv
  <2> QED
    BY <1>2, <1>7, <2>1 DEF CloseRemoves
<1>8. ASSUME NEW t \in Threads, Closes(t) PROVE CloseRemoves(t) \/ UNCHANGED mDescriptors
  BY <1>8 DEF Closes, CloseTests, CloseShuts, CloseForgets, CloseReports, arrayVars
<1> QED
  BY <1>3, <1>4, <1>5, <1>6, <1>7, <1>8, StillSteps DEF Still

\* listen returns in one place.
LEMMA StoppedMoves ==
  ASSUME CallInv, [Next]_vars, lpc # "stopped", lpc' = "stopped"
  PROVE  CloseServer
<1>1. \A r : Dispatch(r) /\ r.type \in RequestTypes => lpc' # "stopped"
  BY DEF Dispatch, AfterRequest, RequestTypes
<1>2. CASE SelectTimeout \/ Accept \/ ReadRest \/ ReadEnd \/ ReadReset \/ ReadClosed
  BY <1>1, <1>2 DEF SelectTimeout, TimeoutEvent, Accept, ReadRest, ReadEnd, ReadReset, ReadClosed,
     EndRead, RequestTypes
<1>3. CASE ListenStep
  BY <1>2, <1>3 DEF ListenStep, BuildSet, EndRun, SelectFails, SelectReady, StartScan, ScanNext,
     EndScan, CheckShutdown, AcceptFails, ReadFullBlock, RemoveLost, Stop, Iterate, CloseNext,
     Advance
<1>4. ASSUME NEW t \in Threads, HandlerStep(t) PROVE FALSE
  <2>1. CASE Return(t) /\ t = 0
    <3>1. req[0].type \in RequestTypes \cup {"Closing"} /\ lpc' = AfterRequest(req[0].type)
      BY <2>1 DEF CallInv, Return
    <3> QED
      BY <3>1 DEF AfterRequest, RequestTypes
  <2> QED
    BY <1>4, <2>1, HandlerHands DEF Return, EndRun
<1>5. (\E w \in Workers : TakeRequest(w)) \/ StartShutdown \/ OutsideStep \/ UNCHANGED vars
        => UNCHANGED lpc
  BY DEF TakeRequest, StartShutdown, OutsideStep, vars
<1> QED
  BY <1>3, <1>4, <1>5, AnyStep

\* A socket that is taken out of mDescriptors is to be closed.
LEMMA WatchStays ==
  ASSUME SocketInv, CallInv, KeepInv, [Next]_vars, NoGarbage, NoGarbage', lpc # "undefined",
         NEW c \in Clients, Watching(c), peer[c].at = "accepted", peer'[c].at = "accepted"
  PROVE  Watching(c)' \/ ToClose(c)'
<1> USE DEF SocketInv
<1>1. PICK d \in Watched : d.client = c /\ lpc # "stopped"
  BY DEF Watching
<1>2. d \in Real /\ file[d.fd] = c /\ d.fd \in Fds /\ file[ServerFd] = "server" /\ d.fd # ServerFd
  <2>1. d \in Real /\ d # ServerDesc
    BY <1>1, SocketsAssumption DEF NoGarbage, Real, ServerDesc, NoClient
  <2> QED
    BY <1>1, <2>1, RealFds, SocketsAssumption DEF BaseInv, OpenInv, Ended
<1>3. CASE d \in Watched'
  <2>1. CASE lpc' # "stopped"
    BY <1>1, <1>3, <2>1 DEF Watching
  <2>2. CASE lpc' = "stopped"
    <3>1. CloseAll({ServerFd} \cup LeftOpen)
      BY <1>1, <2>2, StoppedMoves DEF CloseServer
    <3>2. d.fd \in LeftOpen
      BY <1>3 DEF LeftOpen, Watched
    <3> QED
      BY <1>2, <3>1, <3>2 DEF CloseAll, Idle
  <2> QED
    BY <2>1, <2>2
<1>4. CASE RemoveLost /\ d.fd = event.fd
  <2>1. Reporting /\ UNCHANGED <<queue, hpc, req, peer>>
    BY <1>4 DEF RemoveLost, Reporting, socketVars, poolVars, handVars
  <2>2. event.client = c /\ Lost(c)
    BY <1>1, <1>4, <2>1 DEF KeepInv
  <2>3. Queued(c, "ConnectionLost") \/ \E t \in Threads : Ends(t, c)
    BY <2>2 DEF Lost, KeepInv
  <2> QED
    BY <2>1, <2>3 DEF ToClose, Queued, Ends
<1>5. ASSUME NEW t \in Threads, CloseRemoves(t), d.fd = mSocket[req[t].client]
      PROVE  ToClose(c)'
  <2> DEFINE e == req[t].client
  <2>1. e \in Clients /\ object[e] = "live"
    BY <1>5, CloserMoves DEF Closes
  <2>2. e = c \/ peer[e].at = "closed"
    <3>1. e # c => peer[e].at # "accepted"
      BY <1>2, <1>5, <2>1 DEF OwnerInv
    <3>2. peer[e].at \notin Awaited /\ peer[e] \in Peers
      BY <2>1 DEF OwnerInv, ThreadTypes
    <3> QED
      BY <3>1, <3>2 DEF Awaited, Peers
  <2>3. UNCHANGED <<req, peer>> /\ hpc'[t] = "shut"
    BY <1>5 DEF CloseRemoves, Goto, socketVars, ThreadTypes
  <2>4. Shuts(t, c)'
    BY <2>2, <2>3 DEF Shuts
  <2> QED
    BY <2>4 DEF ToClose
<1> QED
  BY <1>2, <1>3, <1>4, <1>5, WatchMoves

\* A loss that has been asked about or taken stays so.
LEMMA LostStays ==
  ASSUME "NewConnection" \in RequestMask, SocketInv, CallInv, OrderInv, AskedInv, [Next]_vars,
         NEW c \in Clients, Lost(c)
  PROVE  Lost(c)'
<1>1. CASE taken[c] = "ConnectionLost"
  BY <1>1, LifeStep DEF InOrder, Lost
<1>2. CASE Queued(c, "ConnectionLost")
  BY <1>2, QueuedStays DEF Lost
<1> QED
  BY <1>1, <1>2 DEF Lost

\* The listener that removes the descriptor of a lost client has asked to handle its loss.
LEMMA ReportAsked ==
  ASSUME "ConnectionLost" \in RequestMask, ThreadTypes, OrderInv, AskedInv, ReadLast, Reporting'
  PROVE  event'.client \in Clients /\ Lost(event.client)'
<1>1. /\ lpc = "read" /\ UNCHANGED event
      /\ \E readcount, anything : EndRead(readcount, anything)
  BY DEF ReadLast, ReadRest, ReadEnd, ReadReset, ReadClosed
<1>2. event.client \in Clients /\ 0 \in Threads
  BY <1>1, ListenerAssumption DEF AskedInv, Threads
<1> DEFINE r(type) == [type |-> type, fd |-> event.fd, client |-> event.client]
<1>3. ASSUME Dispatch(r("StreamData")) PROVE FALSE
  <2>1. r("StreamData").type = "StreamData"
    OBVIOUS
  <2> HIDE DEF r
  <2>2. lpc' = "scan" \/ (lpc' = "handler" /\ req'[0] = r("StreamData"))
    BY <1>2, <1>3, <2>1 DEF Dispatch, AfterRequest, Receive, ThreadTypes
  <2> QED
    BY <2>1, <2>2 DEF Reporting
<1>4. ASSUME Dispatch(r("ConnectionLost")) PROVE Lost(event.client)'
  <2>1. r("ConnectionLost").type = "ConnectionLost" /\ r("ConnectionLost").client = event.client
    OBVIOUS
  <2> HIDE DEF r
  <2>2. queue' = Append(queue, r("ConnectionLost")) \/ Receive(0, r("ConnectionLost"))
    BY <1>4, <2>1 DEF Dispatch
  <2>3. CASE queue' = Append(queue, r("ConnectionLost"))
    <3>1. Len(queue') \in 1 .. Len(queue') /\ queue'[Len(queue')] = r("ConnectionLost")
      BY <2>3 DEF OrderInv
    <3> QED
      BY <1>1, <2>1, <3>1 DEF Lost, Queued
  <2>4. CASE Receive(0, r("ConnectionLost"))
    BY <1>1, <1>2, <2>1, <2>4 DEF Receive, Lost, OrderInv
  <2> QED
    BY <2>2, <2>3, <2>4
<1>5. lpc' # "scan"
  BY DEF Reporting
<1> QED
  BY <1>1, <1>2, <1>3, <1>4, <1>5 DEF EndRead

LEMMA KeepStep ==
  ASSUME {"NewConnection", "ConnectionLost"} \subseteq RequestMask, SocketInv, CallInv, FreedInv,
         OrderInv, AskedInv, LossInv, KeepInv, [Next]_vars, ~reclosed'
  PROVE  KeepInv'
<1> USE DEF SocketInv
<1>1. UndefInv' /\ (lpc = "undefined" => lpc' = "undefined")
  BY UndefinedStays DEF KeepInv
<1>2. NoGarbage' => NoGarbage
  BY BaseStep DEF NoGarbage
<1> SUFFICES ASSUME NoGarbage', lpc' # "undefined"
             PROVE  /\ \A c \in Clients : peer'[c].at = "accepted" => Watching(c)' \/ ToClose(c)'
                    /\ \A c \in Clients : peer'[c].at = "accepted" /\ taken'[c] = "ConnectionLost" =>
                         \E t \in Threads : Ends(t, c)'
                    /\ lpc' = "read" \/ Reporting' =>
                         \A d \in Watched' : d.fd = event'.fd => d.client = event'.client
                    /\ Reporting' => event'.client \in Clients /\ Lost(event.client)'
  BY <1>1 DEF KeepInv
<1>3. NoGarbage /\ lpc # "undefined"
  BY <1>1, <1>2
<1>4. ASSUME NEW c \in Clients, peer'[c].at = "accepted" PROVE Watching(c)' \/ ToClose(c)'
  <2>1. CASE peer[c].at = "accepted"
    <3>1. Watching(c) \/ ToClose(c)
      BY <1>3, <2>1 DEF KeepInv
    <3> QED
      BY <1>3, <1>4, <2>1, <3>1, WatchStays, ToCloseStays
  <2>2. CASE Accept /\ peer[c].at = "backlog"
    <3>1. PICK e \in Clients :
            /\ peer' = [peer EXCEPT ![e].at = "accepted"]
            /\ DescriptorsBecome(ArrayAdd(mDescriptors, [fd |-> LowestFree, client |-> e]))
      BY <2>2 DEF Accept, Backlog, AcceptSocket
    <3>2. e = c
      BY <1>4, <2>2, <3>1 DEF ThreadTypes
    <3>3. [fd |-> LowestFree, client |-> c] \in Watched'
      <4>1. [fd |-> LowestFree, client |-> c] \in Descriptors
        BY <2>2, LowestFreeFacts DEF Accept, Descriptors
      <4> QED
        BY <3>1, <3>2, <4>1, AddFacts DEF DescriptorsBecome, BaseInv
    <3>4. lpc' # "stopped"
      <4>1. lpc = "accept" /\ ~CloseServer
        BY <2>2 DEF Accept, CloseServer
      <4> QED
        BY <4>1, StoppedMoves
    <3> QED
      BY <3>3, <3>4 DEF Watching
  <2> QED
    BY <1>4, <2>1, <2>2, AcceptedMoves DEF ThreadTypes
<1>5. ASSUME NEW c \in Clients, peer'[c].at = "accepted", taken'[c] = "ConnectionLost"
      PROVE  \E t \in Threads : Ends(t, c)'
  <2>1. CASE taken[c] = "ConnectionLost"
    <3>1. peer[c].at = "accepted"
      BY <1>5, <2>1, AcceptedMoves DEF ThreadTypes, AskedInv, Awaited, Fresh
    <3>2. PICK t \in Threads : Ends(t, c)
      BY <1>3, <2>1, <3>1 DEF KeepInv
    <3> QED
      BY <1>5, <3>1, <3>2, EndsStay
  <2> QED
    BY <1>5, <2>1, TakenEnds DEF OrderInv
<1>6. ASSUME lpc' = "read" \/ Reporting', NEW d \in Watched', d.fd = event'.fd
      PROVE  d.client = event'.client
  <2>1. CASE ScanNext
    <3>1. event' \in Watched /\ Watched' = Watched
      BY <2>1 DEF ScanNext, Changed, Watched, arrayVars, BaseInv
    <3>2. Distinct
      BY <1>3 DEF OpenInv, OneEach, Distinct, NoGarbage, Watched
    <3> QED
      BY <1>6, <3>1, <3>2 DEF Distinct, Watched
  <2>2. CASE (lpc = "read" \/ Reporting) /\ UNCHANGED event
    <3>1. d \in Watched
      BY <1>3, <2>2, WatchMoves DEF Accept, Reporting
    <3> QED
      BY <1>3, <1>6, <2>2, <3>1 DEF KeepInv
  <2> QED
    BY <1>6, <2>1, <2>2, ReportMoves
<1>7. ASSUME Reporting' PROVE event'.client \in Clients /\ Lost(event.client)'
  <2>1. CASE ReadLast
    BY <1>7, <2>1, ReportAsked
  <2>2. CASE Reporting /\ UNCHANGED event
    <3>1. event.client \in Clients /\ Lost(event.client)
      BY <1>3, <2>2 DEF KeepInv
    <3>2. PICK c \in Clients : c = event.client
      BY <3>1
    <3>3. Lost(c)'
      BY <3>1, <3>2, LostStays
    <3> QED
      BY <2>2, <3>1, <3>2, <3>3 DEF Lost, Queued
  <2>3. ~(lpc' = "read")
    BY <1>7 DEF Reporting
  <2> QED
    BY <1>7, <2>1, <2>2, <2>3, ReportMoves
<1> QED
  BY <1>4, <1>5, <1>6, <1>7

-----------------------------------------------------------------------------
(* The theorems.                                                           *)

LEMMA PoolInit == ASSUME Init PROVE PoolInv
<1>1. ServerDesc \in Descriptors /\ ServerDesc.fd = ServerFd /\ ServerDesc.client \notin Clients
      /\ mDescriptors \in Seq(Descriptors) /\ Len(mDescriptors) = 1
      /\ mDescriptors[1] = ServerDesc /\ Watched = {ServerDesc}
  BY InitFacts
<1>2. /\ file \in [Fds -> Files] /\ file[0] = "stdin" /\ file[ServerFd] = "server"
      /\ \A fd \in Fds : file[fd] \notin Clients
  BY InitFacts
<1>3. \A c \in Clients : peer[c].at = "away"
  BY InitFacts
<1>4. OpenInv
  <2>1. OneEach
    BY <1>1 DEF OneEach
  <2> QED
    BY <1>1, <1>2, <2>1 DEF OpenInv, Real
<1>5. OwnerInv /\ DyingInv
  BY <1>2, <1>3 DEF Init, OwnerInv, DyingInv, Dying
<1>6. ASSUME IsFiniteSet(Clients) PROVE CountInv
  <2>1. ClosedClients = {} /\ ~Failing /\ errorcount = 0
    BY <1>3 DEF Init, ClosedClients, Failing
  <2> QED
    BY <2>1, FS_EmptySet DEF CountInv
<1>7. OrderInv /\ AskedInv
  <2>1. /\ queue = << >> /\ taken = [c \in Clients |-> "none"] /\ event = ServerDesc
        /\ lpc = "loop"
    BY DEF Init
  <2>2. OrderInv
    BY <2>1 DEF OrderInv
  <2>3. \A c \in Clients : Fresh(c) /\ ~Lost(c)
    BY <2>1 DEF Fresh, Lost, Queued
  <2> QED
    BY <1>1, <2>1, <2>2, <2>3 DEF AskedInv, Real
<1>8. FreedInv
  BY <1>2, <1>3 DEF Init, FreedInv, Awaited
<1>9. LossInv
  <2>1. \A t \in Threads : req[t].type = "none"
    BY DEF Init, NoReq
  <2>2. queue = << >> /\ object = [c \in Clients |-> "none"]
    BY DEF Init
  <2> QED
    BY <2>1, <2>2 DEF LossInv, Loses
<1>10. KeepInv
  <2>1. UndefInv /\ lpc = "loop"
    BY DEF Init, UndefInv
  <2> QED
    BY <1>3, <2>1 DEF KeepInv, Reporting
<1> QED
  BY <1>4, <1>5, <1>6, <1>7, <1>8, <1>9, <1>10, TypeInit DEF PoolInv

\* A client that was closed twice was closed twice.
LEMMA ReclosedStays == ASSUME PoolInv, [Next]_vars, reclosed PROVE reclosed'
BY StillSteps, TypesOfThreads DEF PoolInv, TypeInv, Still, Accept, RemoveLost, CloseServer,
     Closes, CloseTests, CloseRemoves,
   CloseShuts, CloseForgets, CloseReports, connVars

LEMMA PoolStep == ASSUME PoolInv, [Next]_vars PROVE PoolInv'
<1>0. BaseInv /\ ThreadTypes /\ CallInv
  BY TypesOfThreads DEF PoolInv, TypeInv
<1>1. TypeInv'
  BY TypeStep DEF PoolInv
<1>2. ASSUME ~reclosed'
      PROVE  /\ OpenInv' /\ OwnerInv' /\ DyingInv' /\ FreedInv'
             /\ IsFiniteSet(Clients) => CountInv'
             /\ "NewConnection" \in RequestMask => OrderInv' /\ AskedInv' /\ LossInv'
             /\ {"NewConnection", "ConnectionLost"} \subseteq RequestMask => KeepInv'
  <2>1. ~reclosed
    BY <1>2, ReclosedStays
  <2>2. SocketInv /\ CallInv
    BY <1>0, <2>1 DEF PoolInv, SocketInv
  <2>3. IsFiniteSet(Clients) => CountInv'
    BY <1>2, <2>1, <2>2, CountStep DEF PoolInv
  <2>4. "NewConnection" \in RequestMask => OrderInv' /\ AskedInv'
    BY <2>1, <2>2, LifeStep DEF PoolInv
  <2>5. FreedInv'
    BY <1>2, <2>1, <2>2, FreedStep DEF PoolInv
  <2>6. "NewConnection" \in RequestMask => LossInv'
    BY <2>1, <2>2, LossStep DEF PoolInv
  <2>7. {"NewConnection", "ConnectionLost"} \subseteq RequestMask => KeepInv'
    BY <1>2, <2>1, <2>2, KeepStep DEF PoolInv
  <2> QED
    BY <1>2, <2>2, <2>3, <2>4, <2>5, <2>6, <2>7, SocketStep
<1> QED
  BY <1>1, <1>2 DEF PoolInv

LEMMA PoolInvariant == Spec => []PoolInv
<1>1. Init => PoolInv
  BY PoolInit
<1>2. PoolInv /\ [Next]_vars => PoolInv'
  BY PoolStep
<1> QED
  BY <1>1, <1>2, PTL DEF Spec

\* Workers close connections while the listener is in select.  However many of them there
\* are, and whatever Array::remove loses, as long as no Connection is closed twice what the
\* listener watches is open and is the socket of the client it is stored with: a worker in
\* Connection::close takes the descriptor out of the listener before it closes it, and
\* accept watches a descriptor number again only when it has become that of a new client.
THEOREM PoolWatchesOnlyOpen == Spec => []WatchesOnlyOpen
<1>1. ASSUME PoolInv PROVE WatchesOnlyOpen
  <2> SUFFICES ASSUME ~reclosed, lpc \notin Ended, NEW d \in Real, d # ServerDesc
               PROVE  file[d.fd] = d.client /\ mSocket[d.client] = d.fd
    BY DEF WatchesOnlyOpen, Ended, Real
  <2>1. d.client \in Clients /\ file[d.fd] = d.client
    BY <1>1 DEF PoolInv, OpenInv
  <2>2. d.fd \in Fds
    BY <1>1, RealFds DEF PoolInv, TypeInv, BaseInv
  <2> QED
    BY <1>1, <2>1, <2>2 DEF PoolInv, OwnerInv
<1> QED
  BY <1>1, PoolInvariant, PTL

\* The failures of select that listen counts are explained by clients that workers have
\* closed under it: one each, however many workers and clients there are.
THEOREM PoolFailuresExplained ==
  ASSUME IsFiniteSet(Clients)
  PROVE  Spec => []FailuresExplained
<1>1. ASSUME PoolInv PROVE FailuresExplained
  <2> SUFFICES ASSUME ~reclosed PROVE errorcount <= Cardinality(ClosedClients)
    BY DEF FailuresExplained, ClosedClients
  <2>1. IsFiniteSet(ClosedClients)
    BY FS_Subset DEF ClosedClients
  <2>2. Cardinality(ClosedClients) \in Nat
    BY <2>1, FS_CardinalityType
  <2> QED
    BY <1>1, <2>2, TypesOfThreads DEF PoolInv, ThreadTypes, CountInv
<1> QED
  BY <1>1, PoolInvariant, PTL

\* Several workers take the requests about a client from one queue, and do so in
\* the order of its life: that it has connected, its data, that it is lost.  A client whose
\* loss descriptorEvent has reported is not reported again, although it stays watched until
\* the request has been handed on.
THEOREM PoolTakenInOrder ==
  ASSUME "NewConnection" \in RequestMask
  PROVE  Spec => TakenInOrderOfLife
<1>1. ASSUME PoolInv, [Next]_vars, ~reclosed, NEW c \in Clients PROVE InOrder(c)
  BY <1>1, LifeStep, TypesOfThreads DEF PoolInv, TypeInv, SocketInv
<1>2. PoolInv /\ [Next]_vars =>
        [~reclosed => \A c \in Clients : taken'[c] # taken[c] =>
           <<taken[c], taken'[c]>> \in { <<"none", "NewConnection">>,
                                         <<"NewConnection", "StreamData">>,
                                         <<"NewConnection", "ConnectionLost">>,
                                         <<"StreamData", "ConnectionLost">> }]_vars
  BY <1>1 DEF InOrder
<1> QED
  BY <1>2, PoolInvariant, PTL DEF Spec, TakenInOrderOfLife

\* No socket is leaked.  ~ConnectionLostRequest deletes a Connection that quit, another worker or
\* the same one may have begun to close: whatever they have done to mSocket by then, the socket
\* of the client is closed when its Connection is gone.
THEOREM PoolFreedIsClosed == Spec => []FreedIsClosed
<1>1. PoolInv => FreedIsClosed
  BY DEF PoolInv, FreedInv, FreedIsClosed
<1> QED
  BY <1>1, PoolInvariant, PTL

\* A Connection is deleted once, and not before its socket is closed.  The thread that handles
\* the loss of a client finds its Connection alive until ~ConnectionLostRequest deletes it: no
\* other request does, as descriptorEvent reports the loss of a client at most once.
THEOREM PoolDeletedOnce ==
  ASSUME "NewConnection" \in RequestMask
  PROVE  Spec => []DeletedOnce
<1>1. PoolInv => DeletedOnce
  BY DEF PoolInv, FreedInv, FreedIsClosed, LossInv, Loses, DeletedOnce
<1> QED
  BY <1>1, PoolInvariant, PTL

\* An open socket is not forgotten, by the workers nor by the listener, while it serves and after
\* it has returned.  What removeDescriptor takes out of the listener is closed later: the loss that
\* descriptorEvent has reported is in the queue or with a worker that has not closed the
\* Connection yet; Connection::close, which took it out, is about to close it; or it was
\* taken out under the number of a Connection that had been closed, by a thread that will close
\* it for that one.  Array::remove must not have lost it, and a loss must be in the mask.
THEOREM PoolNoneForgotten ==
  ASSUME {"NewConnection", "ConnectionLost"} \subseteq RequestMask
  PROVE  Spec => []NoneForgotten
<1>1. ASSUME PoolInv PROVE NoneForgotten
  <2> SUFFICES ASSUME ~reclosed, NoGarbage, lpc # "undefined",
                      NEW c \in Clients, peer[c].at = "accepted"
               PROVE  \/ lpc # "stopped" /\ \E d \in Watched : d.client = c
                      \/ \E i \in 1 .. Len(queue) :
                           queue[i].type = "ConnectionLost" /\ queue[i].client = c
                      \/ \E t \in Threads : /\ req[t].type = "ConnectionLost" /\ req[t].client = c
                                            /\ hpc[t] \in {"begin", "close", "remove", "shut"}
                      \/ \E t \in Threads :
                           /\ hpc[t] = "shut"
                           /\ (req[t].client = c \/ peer[req[t].client].at = "closed")
    BY DEF NoneForgotten, NoGarbage
  <2>1. Watching(c) \/ ToClose(c)
    BY <1>1 DEF PoolInv, KeepInv
  <2> QED
    BY <2>1 DEF Watching, ToClose, Queued, Ends, Shuts
<1> QED
  BY <1>1, PoolInvariant, PTL
=============================================================================
