--------------------------- MODULE ServerListener ---------------------------
(***************************************************************************)
(* A TCP ServerListener (msrvserver.cc) in Listener::listen                *)
(* (msrvlistener.cc), the Connection objects it creates, and the threads   *)
(* that run the request handler on its requests.                           *)
(*                                                                         *)
(* Thread 0 is the listener.  With WorkerCount = 0 it runs the handler     *)
(* itself, as in the example msrvsample_listener; otherwise it hands the   *)
(* requests to a WorkerPool of that many threads, as in                    *)
(* msrvsample_worker, of which this module keeps what WorkerPool has been  *)
(* shown to promise: a queue from which idle workers take requests in      *)
(* order, and no worker but the first at work after a shutdown request.    *)
(*                                                                         *)
(* The handler is MyHandler of the examples: a message is a command to     *)
(* shut down, a command to quit, or a text to reply to and to relay.  What *)
(* a message says is left open.  A step is a stretch of code between two   *)
(* accesses to what threads share: the descriptor table of the process,    *)
(* mDescriptors, a Connection.  Undefined behaviour ends the run.          *)
(***************************************************************************)
EXTENDS Integers, FiniteSets, Sockets, Array

CONSTANTS Commands,         \* what the server is asked for: "shutdown" (by a message or
                            \* by another thread), "quit", or any other "text"
          WorkerCount,      \* workers of the pool, 0 for no pool
          RequestMask,      \* mRequestMask: the types of request that are generated
          BufferLen,        \* MSRV_READ_BUFFER_LEN
          MaxSelectErrors,  \* MSRV_MAX_SELECT_ERROR_COUNT
          UsingTimeout,     \* does the Listener have a timeout?
          MaxQueue          \* bound on the length of the pool's queue

RequestTypes == {"NewConnection", "StreamData", "ConnectionLost", "Shutdown", "Timeout"}

ASSUME ListenerAssumption ==
    /\ WorkerCount \in Nat /\ BufferLen \in Nat \ {0} /\ MaxSelectErrors \in Nat
    /\ MaxQueue \in Nat /\ Commands \subseteq {"shutdown", "quit", "text"}
    /\ RequestMask \subseteq RequestTypes /\ UsingTimeout \in BOOLEAN

Workers == 1 .. WorkerCount
Threads == 0 .. WorkerCount
Pooled  == WorkerCount > 0

VARIABLES mDescriptors,     \* the watched descriptors and their Connections
          mShutdownStatus,  \* Listener::mShutdownStatus
          lockHolder,       \* who holds Listener::mThreadLock, -1 for nobody
          lpc,              \* where the listener is in listen and what it calls
          fdset,            \* the fd_set given to select, or returned by it
          pos,              \* the counter of the loop over mDescriptors
          event,            \* the descriptor whose event is being handled
          gotData,          \* descriptorEvent: has it read anything (dynpos > 0)?
          errorcount,       \* listen: failures of select
          mSocket,          \* mSocket[c]: the member of the Connection of client c
          object,           \* object[c]: that Connection: not yet, live or freed
          reclosed,         \* history: was ::close called again for a closed client?
          queue,            \* the requests in the pool's queue
          joined,           \* has the pool been shut down?
          hpc,              \* hpc[t]: where thread t is in the request handler
          req,              \* req[t]: the request it handles
          iter,             \* iter[t]: its iterator over the connections
          taken             \* history: the last request taken for each client

listenVars == <<mShutdownStatus, fdset, pos, event, gotData, errorcount>>
connVars   == <<mSocket, object, reclosed>>
poolVars   == <<queue, joined>>
handVars   == <<hpc, req, taken>>
arrayVars  == <<mDescriptors, iter>>
vars == <<socketVars, listenVars, lockHolder, lpc, connVars, poolVars, handVars, arrayVars>>

NoClient   == "server"      \* in place of a Connection: mpData is NULL
ServerDesc == [fd |-> ServerFd, client |-> NoClient]
Garbage    == [fd |-> MaxFd + 1, client |-> "garbage"]
NoReq      == [type |-> "none", fd |-> 0, client |-> NoClient]
NoIter     == [items |-> << >>, at |-> 1, stale |-> FALSE]

Descriptors == [fd : Fds, client : Clients \cup {NoClient}] \cup {Garbage}
Requests    == [type : RequestTypes, fd : Fds, client : Clients \cup {NoClient}]
Closings    == {[type |-> "Closing", fd |-> d.fd, client |-> d.client] : d \in Descriptors}

TypeOK ==
    /\ SocketsTypeOK
    /\ mDescriptors \in Seq(Descriptors)
    /\ mShutdownStatus \in BOOLEAN
    /\ lockHolder \in {-1} \cup Threads
    /\ lpc \in {"loop", "select", "lock", "scan", "accept", "read", "lost", "handler",
                "check", "stop", "iterate", "closing", "advance", "stopped", "undefined"}
    /\ fdset \subseteq Fds
    /\ pos \in Nat
    /\ event \in Descriptors
    /\ gotData \in BOOLEAN
    /\ errorcount \in 0 .. MaxSelectErrors + 1
    /\ mSocket \in [Clients -> Fds]
    /\ object \in [Clients -> {"none", "live", "freed"}]
    /\ reclosed \in BOOLEAN
    /\ queue \in Seq(Requests)
    /\ joined \in BOOLEAN
    /\ hpc \in [Threads -> {"idle", "begin", "relay", "close", "remove", "shut",
                            "forget", "report", "end", "undefined"}]
    /\ req \in [Threads -> Requests \cup Closings \cup {NoReq}]
    /\ iter \in [Threads -> [items : Seq(Descriptors), at : Nat \ {0}, stale : BOOLEAN]]
    /\ taken \in [Clients -> RequestTypes \cup {"none"}]

Init ==
    /\ SocketsInit
    /\ mDescriptors = <<ServerDesc>>
    /\ mShutdownStatus = FALSE
    /\ lockHolder = -1
    /\ lpc = "loop"
    /\ fdset = {}
    /\ pos = 1
    /\ event = ServerDesc
    /\ gotData = FALSE
    /\ errorcount = 0
    /\ mSocket = [c \in Clients |-> 0]
    /\ object = [c \in Clients |-> "none"]
    /\ reclosed = FALSE
    /\ queue = << >>
    /\ joined = FALSE
    /\ hpc = [t \in Threads |-> "idle"]
    /\ req = [t \in Threads |-> NoReq]
    /\ iter = [t \in Threads |-> NoIter]
    /\ taken = [c \in Clients |-> "none"]

-----------------------------------------------------------------------------
(* Pieces of the actions.                                                  *)

\* Nothing can be said of what follows undefined behaviour.
EndRun ==
    /\ lpc' = "undefined"
    /\ hpc' = [t \in Threads |-> "undefined"]

\* Listener::mThreadLock is recursive.
LockFree(t) == lockHolder \in {-1, t}

\* mDescriptors gets a new buffer and the old one is freed: iterators, which hold a
\* shallow copy of the Array, are left with a dangling pointer.
DescriptorsBecome(items) ==
    /\ mDescriptors' = items
    /\ iter' = [t \in Threads |-> IF iter[t] = NoIter THEN NoIter
                                  ELSE [iter[t] EXCEPT !.stale = TRUE]]

\* Seeded fault: the search ends one descriptor too early.
RemoveDescriptorMissesLast(fd) ==
    LET found == {j \in 1 .. Len(mDescriptors) - 1 : mDescriptors[j].fd = fd}
    IN  IF found = {} THEN UNCHANGED arrayVars
        ELSE LET first == CHOOSE j \in found : \A other \in found : j <= other
             IN  DescriptorsBecome(ArrayRemove(mDescriptors, first - 1, Garbage))

\* Listener::removeDescriptor, but for the lock.
RemoveDescriptor(fd) ==
    LET found == {j \in 1 .. Len(mDescriptors) : mDescriptors[j].fd = fd}
    IN  IF found = {} THEN UNCHANGED arrayVars
        ELSE LET first == CHOOSE j \in found : \A other \in found : j <= other
             IN  DescriptorsBecome(ArrayRemove(mDescriptors, first - 1, Garbage))

\* Where an iterator that has passed position p goes: ConnIter skips the server socket.
NextConn(items, p) ==
    LET conns == {j \in p + 1 .. Len(items) : items[j].fd # ServerFd}
    IN  IF conns = {} THEN Len(items) + 1
        ELSE CHOOSE j \in conns : \A other \in conns : j <= other

Iterator == [items |-> mDescriptors, at |-> NextConn(mDescriptors, 0), stale |-> FALSE]
Exhausted(t) == iter[t].at > Len(iter[t].items)

\* Thread t gets request r.  It enters the handler in a step of its own, and no lock is held
\* in between: another worker may enter it first with a request it has got later.
Receive(t, r) ==
    /\ hpc' = [hpc EXCEPT ![t] = "begin"]
    /\ req' = [req EXCEPT ![t] = r]
    /\ taken' = IF r.client \in Clients THEN [taken EXCEPT ![r.client] = r.type] ELSE taken

\* Where the listener goes on after a request.
AfterRequest(type) ==
    CASE type \in {"NewConnection", "StreamData"} -> "scan"
      [] type = "ConnectionLost" -> "lost"
      [] type = "Timeout"        -> "check"
      [] type = "Shutdown"       -> "iterate"
      [] type = "Closing"        -> "advance"

\* getHandler ()->process (...), if the mask lets the request through: the pool queues
\* the request, a handler without a pool runs it at once.
Dispatch(r) ==
    \/ /\ r.type \notin RequestMask
       /\ lpc' = AfterRequest(r.type)
       /\ UNCHANGED <<queue, handVars>>
    \/ /\ r.type \in RequestMask /\ Pooled
       /\ Len(queue) < MaxQueue
       /\ queue' = Append(queue, r)
       /\ lpc' = AfterRequest(r.type)
       /\ UNCHANGED handVars
    \/ /\ r.type \in RequestMask /\ ~Pooled
       /\ Receive(0, r)
       /\ lpc' = "handler"
       /\ UNCHANGED queue

-----------------------------------------------------------------------------
(* Listener::listen.                                                       *)

\* Seeded fault: the loop over mDescriptors starts at 1.
BuildSetSkipsFirst ==
    /\ lpc = "loop"
    /\ LockFree(0)
    /\ fdset' = {mDescriptors[j].fd : j \in 2 .. Len(mDescriptors)}
    /\ lpc' = "select"
    /\ UNCHANGED <<socketVars, mShutdownStatus, pos, event, gotData, errorcount,
                   lockHolder, connVars, poolVars, handVars, arrayVars>>

\* Collect the descriptors, under the lock.
BuildSet ==
    /\ lpc = "loop"
    /\ LockFree(0)
    /\ LET watched == {mDescriptors[j].fd : j \in 1 .. Len(mDescriptors)}
       IN  IF Garbage.fd \in watched
           THEN EndRun /\ UNCHANGED fdset
           ELSE lpc' = "select" /\ fdset' = watched /\ UNCHANGED hpc
    /\ UNCHANGED <<socketVars, mShutdownStatus, pos, event, gotData, errorcount,
                   lockHolder, connVars, poolVars, req, taken, arrayVars>>

SelectFails ==
    /\ lpc = "select"
    /\ \E fd \in fdset : file[fd] = "closed"
    /\ errorcount' = errorcount + 1
    /\ lpc' = "check"
    /\ UNCHANGED <<socketVars, mShutdownStatus, fdset, pos, event, gotData, lockHolder,
                   connVars, poolVars, handVars, arrayVars>>

\* A descriptor that is closed while select waits for it does not wake it up, as on Linux: it
\* may as well return for the others.
SelectReady ==
    /\ lpc = "select"
    /\ \E fd \in fdset : Ready(fd)
    /\ fdset' = {fd \in fdset : Ready(fd)}
    /\ lpc' = "lock"
    /\ UNCHANGED <<socketVars, mShutdownStatus, pos, event, gotData, errorcount, lockHolder,
                   connVars, poolVars, handVars, arrayVars>>

\* Seeded fault: a timeout goes straight back to select.
SelectTimeoutLoops ==
    /\ lpc = "select"
    /\ UsingTimeout
    /\ \A fd \in fdset : ~Ready(fd)
    /\ lpc' = "loop"
    /\ UNCHANGED <<socketVars, mShutdownStatus, fdset, pos, event, gotData, errorcount,
                   lockHolder, connVars, poolVars, handVars, arrayVars>>

\* ServerListener::timeoutEvent
TimeoutEvent == Dispatch([type |-> "Timeout", fd |-> 0, client |-> NoClient])

SelectTimeout ==
    /\ lpc = "select"
    /\ UsingTimeout
    /\ \A fd \in fdset : ~Ready(fd)
    /\ TimeoutEvent
    /\ UNCHANGED <<socketVars, mShutdownStatus, fdset, pos, event, gotData, errorcount,
                   lockHolder, connVars, joined, arrayVars>>

StartScan ==
    /\ lpc = "lock"
    /\ LockFree(0)
    /\ lockHolder' = 0
    /\ pos' = 1
    /\ lpc' = "scan"
    /\ UNCHANGED <<socketVars, mShutdownStatus, fdset, event, gotData, errorcount,
                   connVars, poolVars, handVars, arrayVars>>

\* The positions the scan has still to visit and will find set.
Changed == {j \in pos .. Len(mDescriptors) : mDescriptors[j].fd \in fdset}

\* On to the next descriptor whose status has changed: descriptorEvent.
ScanNext ==
    /\ lpc = "scan"
    /\ \E j \in Changed :
         /\ \A other \in Changed : j <= other
         /\ event' = mDescriptors[j]
         /\ pos' = j + 1
         /\ lpc' = IF mDescriptors[j].fd = ServerFd THEN "accept" ELSE "read"
    /\ gotData' = FALSE
    /\ UNCHANGED <<socketVars, mShutdownStatus, fdset, errorcount, lockHolder,
                   connVars, poolVars, handVars, arrayVars>>

EndScan ==
    /\ lpc = "scan"
    /\ Changed = {}
    /\ errorcount' = 0
    /\ lockHolder' = -1
    /\ lpc' = "check"
    /\ UNCHANGED <<socketVars, mShutdownStatus, fdset, pos, event, gotData,
                   connVars, poolVars, handVars, arrayVars>>

\* The end of a turn of the loop.
CheckShutdown ==
    /\ lpc = "check"
    /\ mShutdownStatus' = (mShutdownStatus \/ errorcount > MaxSelectErrors)
    /\ lpc' = IF mShutdownStatus' THEN "stop" ELSE "loop"
    /\ UNCHANGED <<socketVars, fdset, pos, event, gotData, errorcount, lockHolder,
                   connVars, poolVars, handVars, arrayVars>>

\* startShutdown, called by a thread that has no part in the server.
StartShutdown ==
    /\ ~mShutdownStatus /\ lpc # "undefined"
    /\ "shutdown" \in Commands
    /\ mShutdownStatus' = TRUE
    /\ UNCHANGED <<socketVars, fdset, pos, event, gotData, errorcount, lockHolder,
                   lpc, connVars, poolVars, handVars, arrayVars>>

-----------------------------------------------------------------------------
(* ServerListener::descriptorEvent, with mThreadLock held.                 *)

\* Seeded fault: the request carries the server socket.
AcceptReportsServerSocket ==
    /\ lpc = "accept"
    /\ FreeFds # {}
    /\ \E c \in Backlog :
         /\ AcceptSocket(c)
         /\ object' = [object EXCEPT ![c] = "live"]
         /\ mSocket' = [mSocket EXCEPT ![c] = LowestFree]
         /\ DescriptorsBecome(ArrayAdd(mDescriptors, [fd |-> LowestFree, client |-> c]))
         /\ Dispatch([type |-> "NewConnection", fd |-> ServerFd, client |-> c])
    /\ UNCHANGED <<listenVars, lockHolder, reclosed, joined>>

\* ServerListener::accept: the kernel gives the lowest free descriptor ...
Accept ==
    /\ lpc = "accept"
    /\ FreeFds # {}
    /\ \E c \in Backlog :
         /\ AcceptSocket(c)
         /\ object' = [object EXCEPT ![c] = "live"]
         /\ mSocket' = [mSocket EXCEPT ![c] = LowestFree]
         /\ DescriptorsBecome(ArrayAdd(mDescriptors, [fd |-> LowestFree, client |-> c]))
         /\ Dispatch([type |-> "NewConnection", fd |-> LowestFree, client |-> c])
    /\ UNCHANGED <<listenVars, lockHolder, reclosed, joined>>

\* Seeded fault: the failure goes unnoticed and -1 is taken for a socket.
AcceptFailureUnnoticed ==
    /\ lpc = "accept"
    /\ FreeFds = {}
    /\ \E c \in Backlog :
         /\ object' = [object EXCEPT ![c] = "live"]
         /\ mSocket' = [mSocket EXCEPT ![c] = -1]
    /\ lpc' = "scan"
    /\ UNCHANGED <<socketVars, listenVars, lockHolder, reclosed, poolVars, handVars, arrayVars>>

\* ... or has none left.
AcceptFails ==
    /\ lpc = "accept"
    /\ FreeFds = {}
    /\ lpc' = "scan"
    /\ UNCHANGED <<socketVars, listenVars, lockHolder, connVars, poolVars, handVars,
                   arrayVars>>

\* Seeded fault: the end of the stream is taken for an error.
EndReadIgnoresEnd(readcount, anything) ==
    /\ gotData' = anything
    /\ \/ /\ anything
          /\ Dispatch([type |-> "StreamData", fd |-> event.fd, client |-> event.client])
       \/ /\ ~anything /\ readcount <= 0
          /\ lpc' = "scan"
          /\ UNCHANGED <<queue, handVars>>

\* What descriptorEvent does after its read loop.
EndRead(readcount, anything) ==
    /\ gotData' = anything
    /\ \/ /\ anything
          /\ Dispatch([type |-> "StreamData", fd |-> event.fd, client |-> event.client])
       \/ /\ ~anything /\ readcount = 0
          /\ Dispatch([type |-> "ConnectionLost", fd |-> event.fd, client |-> event.client])
       \/ /\ ~anything /\ readcount < 0
          /\ lpc' = "scan"
          /\ UNCHANGED <<queue, handVars>>

\* A block that fills the buffer: the loop reads on.
ReadFullBlock ==
    /\ lpc = "read"
    /\ \E c \in Clients :
         /\ file[event.fd] = c
         /\ peer[c].unread >= BufferLen
         /\ TakeBytes(c, BufferLen)
    /\ gotData' = TRUE
    /\ UNCHANGED <<mShutdownStatus, fdset, pos, event, errorcount, lockHolder, lpc,
                   connVars, poolVars, handVars, arrayVars>>

\* Less than that: the loop ends.
ReadRest ==
    /\ lpc = "read"
    /\ \E c \in Clients :
         /\ file[event.fd] = c
         /\ peer[c].unread \in 1 .. BufferLen - 1
         /\ TakeBytes(c, peer[c].unread)
         /\ EndRead(peer[c].unread, TRUE)
    /\ UNCHANGED <<mShutdownStatus, fdset, pos, event, errorcount, lockHolder,
                   connVars, joined, arrayVars>>

\* The client has closed its end.
ReadEnd ==
    /\ lpc = "read"
    /\ \E c \in Clients :
         /\ file[event.fd] = c
         /\ peer[c].unread = 0 /\ peer[c].fin
    /\ EndRead(0, gotData)
    /\ UNCHANGED <<socketVars, mShutdownStatus, fdset, pos, event, errorcount,
                   lockHolder, connVars, joined, arrayVars>>

\* A reset connection.
ReadReset ==
    /\ lpc = "read"
    /\ \E c \in Clients :
         /\ file[event.fd] = c
         /\ peer[c].rst
         /\ TakeReset(c)
    /\ EndRead(-1, gotData)
    /\ UNCHANGED <<mShutdownStatus, fdset, pos, event, errorcount, lockHolder,
                   connVars, joined, arrayVars>>

\* A worker has closed the descriptor since select.
ReadClosed ==
    /\ lpc = "read"
    /\ file[event.fd] = "closed"
    /\ EndRead(-1, gotData)
    /\ UNCHANGED <<socketVars, mShutdownStatus, fdset, pos, event, errorcount,
                   lockHolder, connVars, joined, arrayVars>>

\* Seeded fault: the descriptor of a lost connection is left to the handler.
RemoveLostLeft ==
    /\ lpc = "lost"
    /\ lpc' = "scan"
    /\ UNCHANGED <<socketVars, listenVars, lockHolder, connVars, poolVars, handVars, arrayVars>>

\* removeDescriptor (fd), after the ConnectionLost request.
RemoveLost ==
    /\ lpc = "lost"
    /\ RemoveDescriptor(event.fd)
    /\ lpc' = "scan"
    /\ UNCHANGED <<socketVars, listenVars, lockHolder, connVars, poolVars, handVars>>

-----------------------------------------------------------------------------
(* ServerListener::shutdown and the end of listen.                         *)

\* The shutdown request: the pool joins its workers but the first one (WorkerPool,
\* JoinedWorkersExited) and runs the handler in the listener's thread.
Stop ==
    /\ lpc = "stop"
    /\ \/ /\ "Shutdown" \in RequestMask
          /\ \A w \in Workers \ {1} : hpc[w] = "idle"
          /\ joined' = Pooled
          /\ Receive(0, [type |-> "Shutdown", fd |-> 0, client |-> NoClient])
          /\ lpc' = "handler"
       \/ /\ "Shutdown" \notin RequestMask
          /\ lpc' = "iterate"
          /\ UNCHANGED <<joined, handVars>>
    /\ UNCHANGED <<socketVars, listenVars, lockHolder, connVars, queue, arrayVars>>

\* ConnIter conn_i (*this)
Iterate ==
    /\ lpc = "iterate"
    /\ iter' = [iter EXCEPT ![0] = Iterator]
    /\ lpc' = "closing"
    /\ UNCHANGED <<socketVars, listenVars, lockHolder, connVars, poolVars, handVars,
                   mDescriptors>>

\* close (&conn_i.get ()), which takes mThreadLock and never gives it back.
CloseNext ==
    /\ lpc = "closing"
    /\ ~Exhausted(0)
    /\ LockFree(0)
    /\ lockHolder' = 0
    /\ LET d == iter[0].items[iter[0].at]
       IN  req' = [req EXCEPT ![0] = [type |-> "Closing", fd |-> d.fd, client |-> d.client]]
    /\ hpc' = [hpc EXCEPT ![0] = "close"]
    /\ lpc' = "handler"
    /\ UNCHANGED <<socketVars, listenVars, connVars, poolVars, taken, arrayVars>>

\* conn_i.next ()
Advance ==
    /\ lpc = "advance"
    /\ iter' = [iter EXCEPT ![0].at = NextConn(iter[0].items, @)]
    /\ lpc' = "closing"
    /\ UNCHANGED <<socketVars, listenVars, lockHolder, connVars, poolVars, handVars,
                   mDescriptors>>

\* listen closes whatever is still watched when shutdown has returned.
LeftOpen == {mDescriptors'[j].fd : j \in 1 .. Len(mDescriptors')}

\* The given descriptors are closed, one after the other.
CloseAll(fds) ==
    /\ file' = [fd \in Fds |-> IF fd \in fds THEN "closed" ELSE file[fd]]
    /\ peer' = [c \in Clients |-> IF \E fd \in fds \cap Fds : file[fd] = c
                                  THEN Idle("closed") ELSE peer[c]]

\* Seeded fault: the server socket is removed from the listener and not closed.
CloseServerLeavesSocket ==
    /\ lpc = "closing"
    /\ Exhausted(0)
    /\ LockFree(0)
    /\ RemoveDescriptor(ServerFd)
    /\ CloseAll(LeftOpen)
    /\ lpc' = "stopped"
    /\ UNCHANGED <<listenVars, lockHolder, connVars, poolVars, handVars>>

\* The server socket goes last, then whatever is left.
CloseServer ==
    /\ lpc = "closing"
    /\ Exhausted(0)
    /\ LockFree(0)
    /\ RemoveDescriptor(ServerFd)
    /\ CloseAll({ServerFd} \cup LeftOpen)
    /\ lpc' = "stopped"
    /\ UNCHANGED <<listenVars, lockHolder, connVars, poolVars, handVars>>

-----------------------------------------------------------------------------
(* The request handler, in thread t: RequestHandler::process, MyHandler    *)
(* and Connection::close.                                                  *)

\* The Connections t is about to use ...
Uses(t) ==
    CASE hpc[t] = "begin" /\ req[t].type = "NewConnection"   -> {req[t].client}
      [] hpc[t] \in {"close", "remove", "shut", "forget", "report"} -> {req[t].client}
      [] hpc[t] = "relay" /\ ~Exhausted(t)                   -> {iter[t].items[iter[t].at].client}
      [] OTHER                                               -> {}

\* ... which exist.
UsesLive(t) == \A c \in Uses(t) : c \in Clients /\ object[c] = "live"

\* t is about to read an item through its iterator.
ReadsArray(t) ==
    \/ hpc[t] = "relay" /\ ~Exhausted(t)
    \/ t = 0 /\ lpc = "closing" /\ ~Exhausted(t)
    \/ t = 0 /\ lpc = "advance" /\ iter[t].at < Len(iter[t].items)

\* t is about to look for a descriptor among items of which one is uninitialised.
ReadsGarbage(t) ==
    /\ \E j \in 1 .. Len(mDescriptors) : mDescriptors[j] = Garbage
    /\ hpc[t] = "remove" \/ (t = 0 /\ lpc \in {"scan", "lost", "closing"})

\* A freed Connection can be anything, a freed buffer can still hold what it held, and
\* uninitialised memory may by chance hold the descriptor looked for, or not.
Undefined(t) ==
    /\ ~UsesLive(t) \/ (ReadsArray(t) /\ iter[t].stale) \/ ReadsGarbage(t)
    /\ EndRun
    /\ UNCHANGED <<socketVars, listenVars, lockHolder, connVars, poolVars, req, taken,
                   arrayVars>>

\* Seeded fault: the queue is a stack.
TakeYoungestRequest(w) ==
    /\ hpc[w] = "idle"
    /\ queue # << >>
    /\ joined => w = 1
    /\ Receive(w, queue[Len(queue)])
    /\ queue' = SubSeq(queue, 1, Len(queue) - 1)
    /\ UNCHANGED <<socketVars, listenVars, lockHolder, lpc, connVars, joined, arrayVars>>

\* Worker w takes a request from the pool's queue.
TakeRequest(w) ==
    /\ hpc[w] = "idle"
    /\ queue # << >>
    /\ joined => w = 1
    /\ Receive(w, Head(queue))
    /\ queue' = Tail(queue)
    /\ UNCHANGED <<socketVars, listenVars, lockHolder, lpc, connVars, joined, arrayVars>>

Goto(t, phase) == hpc' = [hpc EXCEPT ![t] = phase]

\* The handlers that do nothing but read their request and write to the client.
HandleSimple(t) ==
    /\ hpc[t] = "begin"
    /\ req[t].type \in {"NewConnection", "Timeout"}
    /\ UsesLive(t)
    /\ Goto(t, "end")
    /\ UNCHANGED <<socketVars, listenVars, lockHolder, lpc, connVars, poolVars, req, taken,
                   arrayVars>>

\* processData, on the command shutdown ...
HandleShutdownCommand(t) ==
    /\ hpc[t] = "begin"
    /\ req[t].type = "StreamData" /\ "shutdown" \in Commands
    /\ mShutdownStatus' = TRUE
    /\ Goto(t, "end")
    /\ UNCHANGED <<socketVars, fdset, pos, event, gotData, errorcount, lockHolder,
                   lpc, connVars, poolVars, req, taken, arrayVars>>

\* ... and on quit; a lost connection is closed by ~Connection, on deletion of the request.
HandleQuitOrLost(t) ==
    /\ hpc[t] = "begin"
    /\ \/ req[t].type = "StreamData" /\ "quit" \in Commands
       \/ req[t].type = "ConnectionLost"
    /\ Goto(t, "close")
    /\ UNCHANGED <<socketVars, listenVars, lockHolder, lpc, connVars, poolVars, req, taken,
                   arrayVars>>

\* Any other text is answered and relayed; the final request is announced to everyone.
HandleBroadcast(t) ==
    /\ hpc[t] = "begin"
    /\ \/ req[t].type = "StreamData" /\ "text" \in Commands
       \/ req[t].type = "Shutdown"
    /\ iter' = [iter EXCEPT ![t] = Iterator]
    /\ Goto(t, "relay")
    /\ UNCHANGED <<socketVars, listenVars, lockHolder, lpc, connVars, poolVars, req, taken,
                   mDescriptors>>

\* One turn of the loop over the connections.
Relay(t) ==
    /\ hpc[t] = "relay"
    /\ ~Exhausted(t)
    /\ UsesLive(t)
    /\ iter' = [iter EXCEPT ![t].at = NextConn(iter[t].items, @)]
    /\ UNCHANGED <<socketVars, listenVars, lockHolder, lpc, connVars, poolVars, handVars,
                   mDescriptors>>

RelayDone(t) ==
    /\ hpc[t] = "relay"
    /\ Exhausted(t)
    /\ iter' = [iter EXCEPT ![t] = NoIter]
    /\ Goto(t, "end")
    /\ UNCHANGED <<socketVars, listenVars, lockHolder, lpc, connVars, poolVars, req, taken,
                   mDescriptors>>

\* Connection::close returns; ~ConnectionLostRequest has then deleted the Connection.
CloseReturns(t) ==
    /\ object' = IF req[t].type = "ConnectionLost"
                 THEN [object EXCEPT ![req[t].client] = "freed"] ELSE object
    /\ Goto(t, "end")

\* Connection::close: is there a socket to close?
CloseTests(t) ==
    /\ hpc[t] = "close"
    /\ UsesLive(t)
    /\ \/ /\ mSocket[req[t].client] = 0
          /\ CloseReturns(t)
       \/ /\ mSocket[req[t].client] # 0
          /\ Goto(t, "remove")
          /\ UNCHANGED object
    /\ UNCHANGED <<socketVars, listenVars, lockHolder, lpc, mSocket, reclosed, poolVars,
                   req, taken, arrayVars>>

\* Seeded fault: the descriptor stays in the listener.
CloseSkipsRemoval(t) ==
    /\ hpc[t] = "remove"
    /\ UsesLive(t)
    /\ LockFree(t)
    /\ Goto(t, "shut")
    /\ UNCHANGED <<socketVars, listenVars, lockHolder, lpc, connVars, poolVars, req, taken,
                   arrayVars>>

\* mrpListener->removeDescriptor (mSocket)
CloseRemoves(t) ==
    /\ hpc[t] = "remove"
    /\ UsesLive(t)
    /\ LockFree(t)
    /\ RemoveDescriptor(mSocket[req[t].client])
    /\ Goto(t, "shut")
    /\ UNCHANGED <<socketVars, listenVars, lockHolder, lpc, connVars, poolVars, req, taken>>

\* Seeded fault: mSocket is reset too early.
CloseShutsAfterReset(t) ==
    /\ hpc[t] = "shut"
    /\ UsesLive(t)
    /\ CloseFd(0)
    /\ mSocket' = [mSocket EXCEPT ![req[t].client] = 0]
    /\ Goto(t, "forget")
    /\ UNCHANGED <<listenVars, lockHolder, lpc, object, reclosed, poolVars, req, taken,
                   arrayVars>>

\* ::close (mSocket)
CloseShuts(t) ==
    /\ hpc[t] = "shut"
    /\ UsesLive(t)
    /\ CloseFd(mSocket[req[t].client])
    /\ reclosed' = (reclosed \/ peer[req[t].client].at = "closed")
    /\ Goto(t, "forget")
    /\ UNCHANGED <<listenVars, lockHolder, lpc, mSocket, object, poolVars, req, taken,
                   arrayVars>>

\* mSocket = 0
CloseForgets(t) ==
    /\ hpc[t] = "forget"
    /\ UsesLive(t)
    /\ mSocket' = [mSocket EXCEPT ![req[t].client] = 0]
    /\ Goto(t, "report")
    /\ UNCHANGED <<socketVars, listenVars, lockHolder, lpc, object, reclosed, poolVars, req,
                   taken, arrayVars>>

\* mrpListener->log ().message (...), which still needs the Connection.
CloseReports(t) ==
    /\ hpc[t] = "report"
    /\ UsesLive(t)
    /\ CloseReturns(t)
    /\ UNCHANGED <<socketVars, listenVars, lockHolder, lpc, mSocket, reclosed, poolVars, req,
                   taken, arrayVars>>

\* The handler returns, the request is deleted.
Return(t) ==
    /\ hpc[t] = "end"
    /\ Goto(t, "idle")
    /\ req' = [req EXCEPT ![t] = NoReq]
    /\ lpc' = IF t = 0 THEN AfterRequest(req[0].type) ELSE lpc
    /\ UNCHANGED <<socketVars, listenVars, lockHolder, connVars, poolVars, taken, arrayVars>>

-----------------------------------------------------------------------------

ListenStep ==
    \/ BuildSet \/ SelectFails \/ SelectReady \/ SelectTimeout
    \/ StartScan \/ ScanNext \/ EndScan \/ CheckShutdown
    \/ Accept \/ AcceptFails
    \/ ReadFullBlock \/ ReadRest \/ ReadEnd \/ ReadReset \/ ReadClosed \/ RemoveLost
    \/ Stop \/ Iterate \/ CloseNext \/ Advance \/ CloseServer

HandlerStep(t) ==
    \/ HandleSimple(t) \/ HandleShutdownCommand(t) \/ HandleQuitOrLost(t)
    \/ HandleBroadcast(t) \/ Relay(t) \/ RelayDone(t)
    \/ CloseTests(t) \/ CloseRemoves(t) \/ CloseShuts(t) \/ CloseForgets(t)
    \/ CloseReports(t) \/ Return(t) \/ Undefined(t)

OutsideStep ==
    /\ lpc # "undefined"
    /\ ClientStep
    /\ UNCHANGED <<listenVars, lockHolder, lpc, connVars, poolVars, handVars, arrayVars>>

Next ==
    \/ ListenStep \/ StartShutdown \/ OutsideStep
    \/ \E t \in Threads : HandlerStep(t)
    \/ \E w \in Workers : TakeRequest(w)

Spec == Init /\ [][Next]_vars

\* The threads of the process run whenever they can; nothing is assumed of the clients.
FairSpec == /\ Spec
            /\ WF_vars(ListenStep \/ HandlerStep(0))
            /\ \A w \in Workers : WF_vars(HandlerStep(w) \/ TakeRequest(w))

-----------------------------------------------------------------------------
(* Safety.                                                                 *)

Watched == {mDescriptors[j] : j \in 1 .. Len(mDescriptors)}

\* The three views of a connection agree whatever the listener and the handler have done
\* so far: a watched descriptor denotes the socket of the very client whose live
\* Connection is stored with it, no descriptor is watched twice, and an accepted socket
\* is watched until Connection::close has taken it out and is about to close it.
WatchedConnections ==
    /\ \A j, k \in 1 .. Len(mDescriptors) : mDescriptors[j].fd = mDescriptors[k].fd => j = k
    /\ \A d \in Watched \ {ServerDesc} :
         file[d.fd] = d.client /\ object[d.client] = "live" /\ mSocket[d.client] = d.fd
    /\ \A c \in Clients : peer[c].at = "accepted" =>
         \/ \E d \in Watched : d.client = c
         \/ \E t \in Threads : hpc[t] = "shut" /\ req[t].client = c

\* When listen returns no descriptor of the server or of a client is left open.
StoppedClosesAll ==
    lpc = "stopped" => \A fd \in Fds : file[fd] \in {"closed", "stdin"}

\* The handler never uses a Connection before accept has created it or after
\* ~ConnectionLostRequest has deleted it: "we are really allowed to destroy the object".
ConnectionsUsedLive == \A t \in Threads : UsesLive(t)

\* What a handler writes to the socket of its request reaches the client the request
\* came from: "Socket from which the request originated".
RequestMatchesSocket ==
    \A t \in Threads : hpc[t] = "begin" /\ req[t].client \in Clients =>
        /\ object[req[t].client] = "live"
        /\ mSocket[req[t].client] = req[t].fd
        /\ file[req[t].fd] = req[t].client

\* Workers may close connections under select, but each takes the descriptor out of the
\* listener first: as long as no Connection is closed a second time, what the listener
\* watches is open ...
WatchesOnlyOpen ==
    ~reclosed /\ lpc \notin {"stopped", "undefined"} =>
        \A d \in Watched \ {ServerDesc, Garbage} :
            file[d.fd] = d.client /\ mSocket[d.client] = d.fd

\* ... and a closed client makes select fail at most once: it takes as many of them as there
\* are failures allowed, with nothing ready in between, to make the listener give up.
FailuresExplained ==
    ~reclosed => errorcount <= Cardinality({c \in Clients : peer[c].at = "closed"})

\* Until then no socket is leaked: a Connection is not deleted before it has closed its own,
\* also when another worker has begun to close it, or has reset mSocket.
FreedIsClosed ==
    ~reclosed => \A c \in Clients : object[c] = "freed" => peer[c].at = "closed"

\* And only one of the workers deletes it, whatever the others do with it: the handler of
\* its loss finds it alive until ~ConnectionLostRequest deletes it.  A Connection is deleted
\* once, and after its socket is closed.
DeletedOnce ==
    /\ FreedIsClosed
    /\ ~reclosed => \A t \in Threads :
          req[t].type = "ConnectionLost" /\ hpc[t] \notin {"end", "undefined"} =>
              object[req[t].client] = "live"

\* Nor is an open socket forgotten, before or after listen returns: it is watched, or its loss
\* is still to be handled, or a thread is about to close it, or one has taken it for a socket
\* that was closed before and had the same number.
NoneForgotten ==
    ~reclosed /\ Garbage \notin Watched /\ lpc # "undefined" =>
        \A c \in Clients : peer[c].at = "accepted" =>
            \/ lpc # "stopped" /\ \E d \in Watched : d.client = c
            \/ \E i \in 1 .. Len(queue) : queue[i].type = "ConnectionLost" /\ queue[i].client = c
            \/ \E t \in Threads : /\ req[t].type = "ConnectionLost" /\ req[t].client = c
                                 /\ hpc[t] \in {"begin", "close", "remove", "shut"}
            \/ \E t \in Threads : /\ hpc[t] = "shut"
                                 /\ (req[t].client = c \/ peer[req[t].client].at = "closed")

\* Until then requests about a client are taken in the order of its life, even by several
\* workers: first that it has connected, then its data, last that it is lost.
TakenInOrderOfLife ==
    [][~reclosed => \A c \in Clients : taken'[c] # taken[c] =>
         <<taken[c], taken'[c]>> \in { <<"none", "NewConnection">>,
                                       <<"NewConnection", "StreamData">>,
                                       <<"NewConnection", "ConnectionLost">>,
                                       <<"StreamData", "ConnectionLost">> }]_vars

-----------------------------------------------------------------------------
(* Liveness.                                                               *)

\* However busy the other clients keep the listener, a client that connects is accepted,
BacklogAccepted ==
    \A c \in Clients : peer[c].at = "backlog" ~> peer[c].at # "backlog" \/ mShutdownStatus

\* and one that hangs up or crashes has its socket closed, although removing descriptors
\* makes the scan of mDescriptors skip some of those whose status has changed.
HangUpCloses ==
    \A c \in Clients : peer[c].at = "accepted" /\ (peer[c].fin \/ peer[c].rst)
                       ~> peer[c].at = "closed" \/ mShutdownStatus

\* After startShutdown, by the handler or by another thread, listen returns.
ShutdownReturns == mShutdownStatus ~> lpc \in {"stopped", "undefined"}

-----------------------------------------------------------------------------
(* What the comments of the code promise and the code does not keep.       *)

\* "Terminate when there is no more data available." and "Data has become data available
\* in the socket.": descriptorEvent reads only what is there.
ReadsOnlyAvailable ==
    lpc = "read" => file[event.fd] = "closed" \/ Ready(event.fd)

\* "Retrieves reference to the data item at current position." (Array::Iterator::get)
IteratorReadsArray == \A t \in Threads : ReadsArray(t) => ~iter[t].stale
=============================================================================
