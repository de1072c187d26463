-------------------------- MODULE RequestDispatcher --------------------------
(***************************************************************************)
(* What a pool of workers promises to the listener that feeds it and to    *)
(* the request handler behind it, with no thread, lock or condition        *)
(* variable in sight: requests are numbered in the order they are          *)
(* submitted, each is taken at most once and in that order, and what was   *)
(* not taken when the dispatcher is discarded is lost as a suffix.         *)
(*                                                                         *)
(* WorkerPool implements this specification (WorkerPoolProofs proves it).  *)
(***************************************************************************)
EXTENDS Naturals, Sequences

CONSTANTS Handlers,     \* the threads that may run the request handler
          MaxRequests   \* bound on the number of requests submitted

VARIABLES submitted,    \* how many requests were submitted so far
          pending,      \* submitted and not yet taken, oldest first
          busy,         \* busy[h]: the request h is working on, 0 if none
          done,         \* the requests whose handling has ended
          closed,       \* no request is submitted any more
          discarded     \* the requests nobody will ever take

vars == <<submitted, pending, busy, done, closed, discarded>>

Init ==
    /\ submitted = 0
    /\ pending   = << >>
    /\ busy      = [h \in Handlers |-> 0]
    /\ done      = {}
    /\ closed    = FALSE
    /\ discarded = << >>

Submit ==
    /\ ~closed
    /\ submitted < MaxRequests
    /\ submitted' = submitted + 1
    /\ pending'   = Append(pending, submitted + 1)
    /\ UNCHANGED <<busy, done, closed, discarded>>

Take(h) ==
    /\ busy[h] = 0
    /\ pending # << >>
    /\ busy'    = [busy EXCEPT ![h] = Head(pending)]
    /\ pending' = Tail(pending)
    /\ UNCHANGED <<submitted, done, closed, discarded>>

End(h) ==
    /\ busy[h] # 0
    /\ done' = done \cup {busy[h]}
    /\ busy' = [busy EXCEPT ![h] = 0]
    /\ UNCHANGED <<submitted, pending, closed, discarded>>

Close ==
    /\ ~closed
    /\ closed' = TRUE
    /\ UNCHANGED <<submitted, pending, busy, done, discarded>>

Discard ==
    /\ closed
    /\ discarded' = pending
    /\ pending'   = << >>
    /\ UNCHANGED <<submitted, busy, done, closed>>

Next ==
    \/ Submit \/ Close \/ Discard
    \/ \E h \in Handlers : Take(h) \/ End(h)

Spec == Init /\ [][Next]_vars
=============================================================================
