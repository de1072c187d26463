-------------------------------- MODULE Fifo --------------------------------
(***************************************************************************)
(* What Queue (msrvcontainer.h) promises: a first-in first-out queue of    *)
(* pointers that owns what it holds.  LinkedQueue implements it.           *)
(***************************************************************************)
EXTENDS Sequences

CONSTANTS Items,  \* pointers to the queued objects
          NULL    \* what pull returns when there is nothing to pull

VARIABLES alive,      \* FALSE once the queue is destroyed
          items,      \* what it holds, oldest item first
          result,     \* what pull has returned last
          destroyed   \* the items the queue has destroyed with itself

vars == <<alive, items, result, destroyed>>

Held == {items[k] : k \in DOMAIN items}

Init == alive = TRUE /\ items = << >> /\ result = NULL /\ destroyed = {}

Push(x) ==
    /\ alive
    /\ x \notin Held
    /\ items' = Append(items, x)
    /\ UNCHANGED <<alive, result, destroyed>>

Pull ==
    /\ alive
    /\ items # << >>
    /\ result' = Head(items)
    /\ items' = Tail(items)
    /\ UNCHANGED <<alive, destroyed>>

PullNothing ==
    /\ alive
    /\ items = << >>
    /\ result' = NULL
    /\ UNCHANGED <<alive, items, destroyed>>

Destroy ==
    /\ alive
    /\ alive' = FALSE
    /\ destroyed' = Held
    /\ items' = << >>
    /\ UNCHANGED result

Next == (\E x \in Items : Push(x)) \/ Pull \/ PullNothing \/ Destroy

Spec == Init /\ [][Next]_vars
=============================================================================
