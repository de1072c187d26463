-------------------------- MODULE DatagramListener --------------------------
(***************************************************************************)
(* A UDP ServerListener (msrvserver.cc) in Listener::listen                *)
(* (msrvlistener.cc), as the examples are when started with -udp.  The     *)
(* server socket is the only descriptor it ever watches, and               *)
(* descriptorEvent reads from it with the loop it uses for streams: a      *)
(* block that fills the buffer is taken for the beginning of more, no data *)
(* for a lost connection.                                                  *)
(*                                                                         *)
(* The listener's thread runs the handler itself (MyHandler of the         *)
(* examples, as msrvsample_listener), so that an event is handled in the   *)
(* step that ends its read loop.  Datagrams are lost, duplicated and       *)
(* reordered before they reach the socket: what arrives there is any       *)
(* sequence at all.  Of a datagram the model keeps its length, one longer  *)
(* than the buffer being cut by read, and whether its first line is the    *)
(* command to shut down.  The datagrams read so far are numbered, and a    *)
(* request is the interval of those whose data it holds.                   *)
(***************************************************************************)
EXTENDS Naturals, Sequences

CONSTANTS BufferLen,    \* MSRV_READ_BUFFER_LEN
          UsingTimeout, \* does the Listener have a timeout?
          MaxDatagrams  \* bound on the datagrams that arrive

ASSUME DatagramAssumption ==
    BufferLen \in Nat \ {0} /\ UsingTimeout \in BOOLEAN /\ MaxDatagrams \in Nat

RequestTypes == {"Datagram", "ConnectionLost", "Shutdown", "Timeout"}
Datagrams    == [len : 0 .. BufferLen, shutdown : BOOLEAN]
Intervals    == [first : Nat \ {0}, last : Nat \ {0}]

VARIABLES mRequestMask,     \* the types of request that are generated
          open,             \* is mSocket open?
          watched,          \* is it in mDescriptors?
          mShutdownStatus,  \* Listener::mShutdownStatus
          lpc,              \* where the listener is in listen and what it calls
          socketq,          \* the datagrams the socket has received, oldest first
          inHand,           \* the number of datagrams in dynbuffer
          received,         \* history: the datagrams read from the socket
          requests          \* history: the DatagramRequests the handler was given

vars == <<mRequestMask, open, watched, mShutdownStatus, lpc, socketq, inHand, received,
          requests>>

TypeOK ==
    /\ mRequestMask \subseteq RequestTypes
    /\ open \in BOOLEAN
    /\ watched \in BOOLEAN
    /\ mShutdownStatus \in BOOLEAN
    /\ lpc \in {"select", "read", "check", "stop", "stopped"}
    /\ socketq \in Seq(Datagrams)
    /\ inHand \in Nat
    /\ received \in Seq(Datagrams)
    /\ requests \in Seq(Intervals)

\* After bind; the handler's init may set any mask, of which Datagram matters here.
Init ==
    /\ mRequestMask \in {RequestTypes, RequestTypes \ {"Datagram"}}
    /\ open = TRUE
    /\ watched = TRUE
    /\ mShutdownStatus = FALSE
    /\ lpc = "select"
    /\ socketq = << >>
    /\ inHand = 0
    /\ received = << >>
    /\ requests = << >>

-----------------------------------------------------------------------------
(* Outside the listener's thread.                                          *)

Arrive(d) ==
    /\ open
    /\ Len(received) + Len(socketq) < MaxDatagrams
    /\ socketq' = Append(socketq, d)
    /\ UNCHANGED <<open, watched, mShutdownStatus, lpc, inHand, received, requests>>

\* startShutdown, called by another thread.
StartShutdown ==
    /\ ~mShutdownStatus
    /\ mShutdownStatus' = TRUE
    /\ UNCHANGED <<open, watched, lpc, socketq, inHand, received, requests>>

-----------------------------------------------------------------------------
(* Listener::listen.                                                       *)

\* Seeded fault: select is given the highest descriptor, not one more.
SelectMissesHighest ==
    /\ lpc = "select"
    /\ UsingTimeout
    /\ lpc' = "check"
    /\ UNCHANGED <<open, watched, mShutdownStatus, socketq, inHand, received, requests>>

\* select finds the socket readable: descriptorEvent begins with an empty dynbuffer.
SelectReady ==
    /\ lpc = "select"
    /\ watched /\ socketq # << >>
    /\ lpc' = "read"
    /\ UNCHANGED <<open, watched, mShutdownStatus, socketq, inHand, received, requests>>

\* Seeded fault: a timeout goes straight back to select.
SelectTimeoutLoops ==
    /\ lpc = "select"
    /\ UsingTimeout
    /\ ~watched \/ socketq = << >>
    /\ UNCHANGED <<open, watched, mShutdownStatus, lpc, socketq, inHand, received, requests>>

\* An unwatched socket leaves select with an empty set, where it can only time out.
SelectTimeout ==
    /\ lpc = "select"
    /\ UsingTimeout
    /\ ~watched \/ socketq = << >>
    /\ lpc' = "check"
    /\ UNCHANGED <<open, watched, mShutdownStatus, socketq, inHand, received, requests>>

CheckShutdown ==
    /\ lpc = "check"
    /\ lpc' = IF mShutdownStatus THEN "stop" ELSE "select"
    /\ UNCHANGED <<open, watched, mShutdownStatus, socketq, inHand, received, requests>>

\* ServerListener::shutdown: there are no connections to close, the socket is.
Stop ==
    /\ lpc = "stop"
    /\ open' = FALSE
    /\ watched' = FALSE
    /\ socketq' = << >>
    /\ lpc' = "stopped"
    /\ UNCHANGED <<mShutdownStatus, inHand, received, requests>>

-----------------------------------------------------------------------------
(* ServerListener::descriptorEvent.                                        *)

\* ::read takes the oldest datagram; with none there it blocks.
Read ==
    /\ lpc = "read"
    /\ socketq # << >>
    /\ socketq'  = Tail(socketq)
    /\ received' = Append(received, Head(socketq))

\* Seeded fault: the loop ends only when nothing was read.
FillsBufferIfAnything(d) == d.len > 0

\* while (readcount == MSRV_READ_BUFFER_LEN)
FillsBuffer(d) == d.len = BufferLen

\* The buffer was filled: read on.
ReadFull ==
    /\ Read
    /\ FillsBuffer(Head(socketq))
    /\ inHand' = inHand + 1
    /\ UNCHANGED <<open, watched, mShutdownStatus, lpc, requests>>

\* Seeded fault: each block takes the place of the one before.
NewRequestLastBlock == [first |-> Len(received) + 1, last |-> Len(received) + 1]

\* Seeded fault: the last block is not counted.
NewRequestLosesLast == [first |-> Len(received) + 1 - inHand, last |-> Len(received)]

\* What is in dynbuffer and the datagram being read (DataRequest::setData).
NewRequest == [first |-> Len(received) + 1 - inHand, last |-> Len(received) + 1]

\* It was not, and there is data: a DatagramRequest for the handler, which obeys the
\* first line alone.  With Datagram masked nobody gets, or frees, the data.
ReadLast ==
    /\ Read
    /\ ~FillsBuffer(Head(socketq))
    /\ Head(socketq).len > 0 \/ inHand > 0
    /\ \/ /\ "Datagram" \in mRequestMask
          /\ requests' = Append(requests, NewRequest)
          /\ mShutdownStatus' = (mShutdownStatus \/ received'[NewRequest.first].shutdown)
       \/ "Datagram" \notin mRequestMask /\ UNCHANGED <<requests, mShutdownStatus>>
    /\ inHand' = 0
    /\ lpc' = "check"
    /\ UNCHANGED <<open, watched>>

\* Seeded fault: the loop goes on after a removal.
ReadEmptyReadsOn ==
    /\ Read
    /\ Head(socketq).len = 0 /\ inHand = 0
    /\ watched' = FALSE
    /\ UNCHANGED <<open, mShutdownStatus, lpc, inHand, requests>>

\* There is none: "This must imply that the socket is closed."  The handler is told that
\* a connection is lost (the Connection is NULL and deleting it harmless), and the server
\* socket is removed from the listener.
ReadEmpty ==
    /\ Read
    /\ Head(socketq).len = 0 /\ inHand = 0
    /\ watched' = FALSE
    /\ lpc' = "check"
    /\ UNCHANGED <<open, mShutdownStatus, inHand, requests>>

-----------------------------------------------------------------------------

ListenStep ==
    \/ SelectReady \/ SelectTimeout \/ CheckShutdown \/ Stop
    \/ ReadFull \/ ReadLast \/ ReadEmpty

Next ==
    /\ ListenStep \/ StartShutdown \/ \E d \in Datagrams : Arrive(d)
    /\ UNCHANGED mRequestMask

Spec == Init /\ [][Next]_vars

\* The listener's thread runs whenever it can; nothing is assumed of the clients.
FairSpec == Spec /\ WF_vars(ListenStep /\ UNCHANGED mRequestMask)

-----------------------------------------------------------------------------
(* Safety.                                                                 *)

\* The number of the last datagram the handler has been given.
Served == IF requests = << >> THEN 0 ELSE requests[Len(requests)].last

\* Datagrams are glued together, but never torn, lost, repeated or reordered after
\* they have reached the socket: each one read is in exactly one request, in the order
\* of arrival, or in dynbuffer; the one exception is the empty datagram that makes the
\* listener drop its socket.
EachDatagramServedOnce ==
    "Datagram" \in mRequestMask =>
        /\ \A k \in 1 .. Len(requests) :
             requests[k].first = IF k = 1 THEN 1 ELSE requests[k - 1].last + 1
        /\ \/ Served + inHand = Len(received)
           \/ /\ ~watched /\ inHand = 0
              /\ Served + 1 = Len(received) /\ received[Len(received)].len = 0

\* A request ends with the first datagram shorter than the buffer, so that datagrams
\* are glued together only after one that fills it, and an empty datagram is swallowed
\* at the end of a longer request but never handled by itself.
GluedOnlyAfterFull ==
    \A k \in 1 .. Len(requests) :
        /\ requests[k].first \in 1 .. requests[k].last
        /\ requests[k].last \in 1 .. Len(received)
        /\ \A n \in requests[k].first .. requests[k].last :
             received[n].len = BufferLen <=> n < requests[k].last
        /\ received[requests[k].first].len > 0

\* The listener can hang in read only while it holds a datagram that fills the buffer.
BlocksOnlyAfterFull ==
    lpc = "read" /\ socketq = << >> =>
        inHand > 0 /\ received[Len(received)].len = BufferLen

\* Until it shuts down the server listens, unless the last datagram it ever read was empty.
DeafOnlyAfterEmpty ==
    open /\ ~watched => received # << >> /\ received[Len(received)].len = 0

\* A server that has dropped its socket reads nothing any more, whatever arrives.
DeafForEver == [][~watched => UNCHANGED <<received, requests, watched>>]_vars

-----------------------------------------------------------------------------
(* Liveness.                                                               *)

Blocked == lpc = "read" /\ socketq = << >>

\* What reaches the socket is read, unless the server is shut down or deaf.
ArrivedIsRead ==
    \A n \in 0 .. MaxDatagrams :
        Len(received) = n /\ socketq # << >> ~> Len(received) > n \/ mShutdownStatus \/ ~watched

\* After startShutdown, whoever calls it, listen returns if no read blocks for good: also
\* when the server is deaf, thanks to the timeout.
ShutdownReturns == []<>(~Blocked) => (mShutdownStatus ~> lpc = "stopped")
=============================================================================
