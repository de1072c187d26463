------------------------------ MODULE Sockets ------------------------------
(***************************************************************************)
(* The operating system under a ServerListener: the table of file          *)
(* descriptors of the process and, for each client, its end of the TCP     *)
(* connection.  A descriptor is a number that the system hands out again   *)
(* as soon as it is closed, always the lowest one that is free; nothing    *)
(* else ties it to the socket it denotes.                                  *)
(*                                                                         *)
(* This is not code of the repository: it is modelled from how             *)
(* ServerListener and Connection call socket, accept, read and close.      *)
(***************************************************************************)
EXTENDS Naturals, FiniteSets

CONSTANTS Clients,      \* each opens one connection
          MaxFd,        \* the largest descriptor the process may have
          MaxUnread     \* bound on the bytes sent to the server and not yet read

ASSUME SocketsAssumption ==
    /\ MaxFd \in Nat \ {0} /\ MaxUnread \in Nat
    /\ Clients \cap {"closed", "stdin", "server"} = {}

Fds == 0 .. MaxFd       \* 0 is standard input; the code takes it for "no socket"
ServerFd == 1           \* ServerListener::mSocket, the server socket

VARIABLES file,         \* file[fd]: what descriptor fd denotes
          peer          \* peer[c]: the connection of client c

socketVars == <<file, peer>>

Files == Clients \cup {"closed", "stdin", "server"}

SocketsTypeOK ==
    /\ file \in [Fds -> Files]
    /\ peer \in [Clients -> [at     : {"away", "backlog", "accepted", "closed"},
                             unread : 0 .. MaxUnread,
                             fin    : BOOLEAN,      \* the client has closed its end
                             rst    : BOOLEAN]]     \* ... or it has crashed

Idle(at) == [at |-> at, unread |-> 0, fin |-> FALSE, rst |-> FALSE]

\* After ServerListener::bind.
SocketsInit ==
    /\ file = [fd \in Fds |-> CASE fd = 0 -> "stdin" [] fd = ServerFd -> "server"
                                [] OTHER -> "closed"]
    /\ peer = [c \in Clients |-> Idle("away")]

Backlog == {c \in Clients : peer[c].at = "backlog"}
FreeFds == {fd \in Fds : file[fd] = "closed"}
LowestFree == CHOOSE fd \in FreeFds : \A other \in FreeFds : fd <= other

\* accept or read on the descriptor would not block.
Ready(fd) ==
    \/ file[fd] = "server" /\ Backlog # {}
    \/ /\ file[fd] \in Clients
       /\ LET p == peer[file[fd]] IN p.unread > 0 \/ p.fin \/ p.rst

-----------------------------------------------------------------------------
(* The clients.                                                            *)

Linked(c) == peer[c].at \in {"backlog", "accepted"} /\ ~peer[c].fin /\ ~peer[c].rst

Connect(c) ==
    /\ peer[c].at = "away"
    /\ file[ServerFd] = "server"
    /\ peer' = [peer EXCEPT ![c] = Idle("backlog")]
    /\ UNCHANGED file

Send(c, bytes) ==
    /\ Linked(c)
    /\ peer[c].unread + bytes <= MaxUnread
    /\ peer' = [peer EXCEPT ![c].unread = @ + bytes]
    /\ UNCHANGED file

HangUp(c) ==
    /\ Linked(c)
    /\ peer' = [peer EXCEPT ![c].fin = TRUE]
    /\ UNCHANGED file

\* A reset discards what was not read.
Crash(c) ==
    /\ Linked(c)
    /\ peer' = [peer EXCEPT ![c].rst = TRUE, ![c].unread = 0]
    /\ UNCHANGED file

ClientStep ==
    \E c \in Clients : \/ Connect(c) \/ HangUp(c) \/ Crash(c)
                       \/ \E bytes \in 1 .. MaxUnread : Send(c, bytes)

-----------------------------------------------------------------------------
(* The system calls of the server.                                         *)

AcceptSocket(c) ==
    /\ file' = [file EXCEPT ![LowestFree] = c]
    /\ peer' = [peer EXCEPT ![c].at = "accepted"]

\* ::close; closing a descriptor that is not open fails and changes nothing.
CloseFd(fd) ==
    /\ file' = [file EXCEPT ![fd] = "closed"]
    /\ peer' = [c \in Clients |-> IF file[fd] = c THEN Idle("closed") ELSE peer[c]]

\* ::read takes bytes from the socket ...
TakeBytes(c, bytes) ==
    /\ peer' = [peer EXCEPT ![c].unread = @ - bytes]
    /\ UNCHANGED file

\* ... or reports a reset, once; from then on it reports the end of the stream.
TakeReset(c) ==
    /\ peer' = [peer EXCEPT ![c].rst = FALSE, ![c].fin = TRUE]
    /\ UNCHANGED file
=============================================================================
