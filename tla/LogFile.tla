------------------------------ MODULE LogFile ------------------------------
(***************************************************************************)
(* LogFile (msrvlog.cc), shared by the threads of a server.  A message is  *)
(* printed in four pieces under the recursive mutex of the log, each of    *)
(* which may fail; what returns on an error returns with the mutex held.   *)
(* The other operations are short, and one step each.                      *)
(***************************************************************************)
EXTENDS Naturals

CONSTANTS Threads,    \* whoever logs
          Named,      \* names of files a log can be given
          MaxFailures, \* bound: how many calls of a thread may fail
          NULL

Stdout == "stdout"
File   == "file"
Dash   == "-"       \* the name that stands for the standard output
Unset  == "unset"   \* what a log on a stream has for a name: it is not initialised

FileNames == Named \cup {Dash}

ASSUME LogAssumption ==
    NULL \notin Threads \cup FileNames /\ Unset \notin FileNames \cup {NULL}
    /\ NULL \notin {Stdout, File} /\ MaxFailures \in Nat

VARIABLES mpLogStream, mpFilename,
          holder, depth,  \* the recursive mutex: who has it, and how many times
          pc,             \* which piece of a message a thread prints next, if any
          alive,          \* FALSE when ~LogFile has run
          last,           \* history: who printed what in the log last
          failed,         \* history: how many calls of a thread have failed
          undefined       \* the name was used although it is not initialised

vars == <<mpLogStream, mpFilename, holder, depth, pc, alive, last, failed, undefined>>

\* What follows in a message once a piece of it is printed.
After == [time |-> "header", header |-> "text", text |-> "newline", newline |-> "flush"]

Pieces == {"time", "header", "text", "newline"}

\* A log given by name, which its constructor has opened, or on a stream.
Init ==
    /\ \/ mpFilename = Dash /\ mpLogStream = Stdout
       \/ mpFilename \in Named /\ mpLogStream = File
       \/ mpFilename = Unset /\ mpLogStream \in {Stdout, File}
    /\ holder = NULL /\ depth = 0
    /\ pc = [t \in Threads |-> "idle"]
    /\ alive = TRUE
    /\ last = NULL
    /\ failed = [t \in Threads |-> 0]
    /\ undefined = FALSE

-----------------------------------------------------------------------------

\* A call of thread t that needs the mutex may begin, and need not wait for it.
CanLock(t) == alive /\ ~undefined /\ pc[t] = "idle" /\ holder \in {NULL, t}

Lock(t) == holder' = t /\ depth' = depth + 1

\* Nobody has the mutex once it was unlocked as often as it was locked.
Unlock(t) ==
    /\ depth' = depth - 1
    /\ holder' = IF depth = 1 THEN NULL ELSE t

\* The call of thread t returns an error, and leaves the mutex locked.
Fail(t) ==
    /\ failed[t] < MaxFailures
    /\ failed' = [failed EXCEPT ![t] = @ + 1]

\* write and message return at once if the log is not open or an argument is no good,
\* and write if the block could not be written completely.
Refuse(t) ==
    /\ CanLock(t)
    /\ Lock(t)
    /\ Fail(t)
    /\ last' \in IF mpLogStream = NULL THEN {last} ELSE {last, <<t, "block">>}
    /\ UNCHANGED <<mpLogStream, mpFilename, pc, alive, undefined>>

\* write, from a class derived from LogFile
Write(t) ==
    /\ CanLock(t)
    /\ mpLogStream # NULL
    /\ last' = <<t, "block">>
    /\ UNCHANGED <<mpLogStream, mpFilename, holder, depth, pc, alive, failed, undefined>>

\* Seeded fault: message does not lock.
BeginUnlocked(t) ==
    /\ alive /\ ~undefined /\ pc[t] = "idle"
    /\ mpLogStream # NULL
    /\ pc' = [pc EXCEPT ![t] = "time"]
    /\ Lock(t)
    /\ UNCHANGED <<mpLogStream, mpFilename, alive, last, failed, undefined>>

\* message, to its first piece
Begin(t) ==
    /\ CanLock(t)
    /\ mpLogStream # NULL
    /\ pc' = [pc EXCEPT ![t] = "time"]
    /\ Lock(t)
    /\ UNCHANGED <<mpLogStream, mpFilename, alive, last, failed, undefined>>

PrintPiece(t) ==
    /\ pc[t] \in Pieces
    /\ last' = <<t, pc[t]>>
    /\ pc' = [pc EXCEPT ![t] = After[pc[t]]]
    /\ UNCHANGED <<mpLogStream, mpFilename, holder, depth, alive, failed, undefined>>

\* An error in the middle of a message, part of which may have been printed.
FailPiece(t) ==
    /\ pc[t] \in Pieces
    /\ Fail(t)
    /\ last' \in {last, <<t, pc[t]>>}
    /\ pc' = [pc EXCEPT ![t] = "idle"]
    /\ UNCHANGED <<mpLogStream, mpFilename, holder, depth, alive, undefined>>

\* Seeded fault: the mutex is unlocked once too often.
EndUnlocksTwice(t) ==
    /\ pc[t] = "flush"
    /\ pc' = [pc EXCEPT ![t] = "idle"]
    /\ holder' = NULL /\ depth' = depth - 2
    /\ UNCHANGED <<mpLogStream, mpFilename, alive, last, failed, undefined>>

\* Seeded fault: the mutex is not unlocked.
EndKeepsLock(t) ==
    /\ pc[t] = "flush"
    /\ pc' = [pc EXCEPT ![t] = "idle"]
    /\ UNCHANGED <<mpLogStream, mpFilename, holder, depth, alive, last, failed, undefined>>

End(t) ==
    /\ pc[t] = "flush"
    /\ pc' = [pc EXCEPT ![t] = "idle"]
    /\ Unlock(t)
    /\ UNCHANGED <<mpLogStream, mpFilename, alive, last, failed, undefined>>

\* open.  A name that is not initialised may happen to be NULL, which is an error.
Open(t) ==
    /\ CanLock(t)
    /\ mpLogStream = NULL
    /\ \/ /\ mpFilename \in FileNames
          /\ mpLogStream' = IF mpFilename = Dash THEN Stdout ELSE File
          /\ UNCHANGED <<last, undefined>>
       \/ mpFilename = Unset /\ undefined' = TRUE /\ UNCHANGED <<mpLogStream, last>>
    /\ UNCHANGED <<mpFilename, holder, depth, pc, alive, failed>>

\* open that returns an error: it unlocks the mutex, and the log is as it was.
OpenFails(t) ==
    /\ CanLock(t)
    /\ mpLogStream # NULL \/ mpFilename # Dash
    /\ UNCHANGED vars

\* Seeded fault: close does not lock.
CloseUnlocked(t) ==
    /\ alive /\ ~undefined /\ pc[t] = "idle"
    /\ mpLogStream' = IF mpLogStream = Stdout THEN Stdout ELSE NULL
    /\ UNCHANGED <<mpFilename, holder, depth, pc, alive, last, failed, undefined>>

\* close, which leaves the standard output open
Close(t) ==
    /\ CanLock(t)
    /\ mpLogStream' = IF mpLogStream = Stdout THEN Stdout ELSE NULL
    /\ UNCHANGED <<mpFilename, holder, depth, pc, alive, last, failed, undefined>>

\* setFilename, which deletes the former name.
SetFilename(t) ==
    /\ CanLock(t)
    /\ mpFilename' \in FileNames
    /\ undefined' \in IF mpFilename = Unset THEN BOOLEAN ELSE {FALSE}
    /\ UNCHANGED <<mpLogStream, holder, depth, pc, alive, last, failed>>

\* ~LogFile, when no call is in progress.  It waits for the mutex.
Destroy(t) ==
    /\ CanLock(t)
    /\ \A u \in Threads : pc[u] = "idle"
    /\ alive' = FALSE
    /\ mpLogStream' = IF mpLogStream = Stdout THEN Stdout ELSE NULL
    /\ undefined' \in IF mpFilename = Unset THEN BOOLEAN ELSE {FALSE}
    /\ UNCHANGED <<mpFilename, holder, depth, pc, last, failed>>

Message(t) == Begin(t) \/ PrintPiece(t) \/ FailPiece(t) \/ End(t)
Call(t) == Refuse(t) \/ Write(t) \/ Open(t) \/ OpenFails(t) \/ Close(t)
           \/ SetFilename(t) \/ Destroy(t)

Next == \E t \in Threads : Message(t) \/ Call(t)

Spec == Init /\ [][Next]_vars

\* A thread in the middle of a message goes on.
FairSpec == Spec /\ \A t \in Threads : WF_vars(PrintPiece(t) \/ FailPiece(t) \/ End(t))

-----------------------------------------------------------------------------

Printing(t) == pc[t] # "idle"

TypeOK ==
    /\ mpLogStream \in {NULL, Stdout, File}
    /\ mpFilename \in FileNames \cup {Unset}
    /\ holder \in Threads \cup {NULL}
    /\ depth \in Nat
    /\ pc \in [Threads -> Pieces \cup {"idle", "flush"}]
    /\ failed \in [Threads -> Nat]
    /\ alive \in BOOLEAN /\ undefined \in BOOLEAN

\* The mutex of the log is taken exactly as often as by the message in progress and by
\* the calls that have failed, all of one and the same thread: an error in a log call
\* shuts every other thread out, and nothing else does.
LockAccounted ==
    /\ \A t \in Threads : Printing(t) \/ failed[t] > 0 <=> holder = t
    /\ holder = NULL => depth = 0
    /\ \A t \in Threads :
         holder = t => depth = failed[t] + (IF Printing(t) THEN 1 ELSE 0)

\* The pieces of a line follow each other in the log: no other thread, and no other call
\* of the same thread, prints anything between them.
LinesWhole ==
    \A t \in Threads : \A p \in Pieces :
        pc[t] = After[p] => last = <<t, p>>

\* The stream a message is printed to is not closed before its end.
PrintsToOpenStream == \A t \in Threads : Printing(t) => mpLogStream # NULL

\* A thread that logs releases the mutex, unless one of its calls has failed.
LockReleased ==
    \A t \in Threads : holder = t ~> holder # t \/ failed[t] > 0
=============================================================================
