---------------------------- MODULE LinkedQueue ----------------------------
(***************************************************************************)
(* Queue and ListItem (msrvcontainer.h) as cells of memory with pointers.  *)
(* The queue is a list linked both ways, new items in front, and a list    *)
(* item deletes its data and the items after it when it is deleted.        *)
(*                                                                         *)
(* Each operation runs under the lock of the queue from its first access   *)
(* to its last, so it is one step, whichever thread performs it.  A freed  *)
(* cell may be allocated again at once.                                    *)
(***************************************************************************)
EXTENDS Naturals, Sequences

CONSTANTS Items,   \* pointers to the objects that are queued
          Cells,   \* addresses of list items
          NULL

ASSUME NullAssumption == NULL \notin Items \cup Cells

VARIABLES mpFirstItem, mpLastItem,   \* Queue: the two ends
          mpData, mpPrev, mpNext,    \* ListItem: its members, by address
          live,        \* the addresses of allocated list items
          result,      \* what pull has returned last
          alive,       \* FALSE when ~Queue has run
          destroyed,   \* history: the items deleted by a list item
          freedTwice,  \* history: has a cell that was not allocated been freed?
          order        \* history: the list items of the queue, oldest first

ends  == <<mpFirstItem, mpLastItem>>
links == <<mpData, mpPrev, mpNext, live>>
vars  == <<ends, links, result, alive, destroyed, freedTwice, order>>

Init ==
    /\ mpFirstItem = NULL /\ mpLastItem = NULL
    /\ mpData = [c \in Cells |-> NULL]
    /\ mpPrev = [c \in Cells |-> NULL]
    /\ mpNext = [c \in Cells |-> NULL]
    /\ live = {}
    /\ result = NULL
    /\ alive = TRUE
    /\ destroyed = {}
    /\ freedTwice = FALSE
    /\ order = << >>

-----------------------------------------------------------------------------

\* What is deleted along with cell c: the smallest set with c that the links next, given
\* as a function, do not leave.
Chain(next, c) ==
    {d \in Cells : \A S \in SUBSET Cells :
        c \in S /\ (\A e \in S : next[e] \in S \cup {NULL}) => d \in S}

\* delete c, for list items whose data and next links are the given functions.
Delete(c, data, next) ==
    LET gone == Chain(next, c)
    IN  /\ live' = live \ gone
        /\ destroyed' = destroyed \cup ({data[d] : d \in gone} \ {NULL})
        /\ freedTwice' = (freedTwice \/ ~(gone \subseteq live))

\* Queue::push: an object is queued by who owns it, so it is in the queue once at most.
Push(x) ==
    /\ alive
    /\ x \notin {mpData[c] : c \in live}
    /\ \E c \in Cells \ live :
         /\ live' = live \cup {c}
         /\ mpData' = [mpData EXCEPT ![c] = x]
         /\ mpNext' = [mpNext EXCEPT ![c] = mpFirstItem]
         /\ mpPrev' = [d \in Cells |-> IF d = c THEN NULL
                                       ELSE IF d = mpFirstItem THEN c ELSE mpPrev[d]]
         /\ mpFirstItem' = c
         /\ mpLastItem' = IF mpLastItem = NULL THEN c ELSE mpLastItem
         /\ order' = Append(order, c)
    /\ UNCHANGED <<result, alive, destroyed, freedTwice>>

\* Seeded fault: the new last item keeps its link to the item that is deleted.
PullKeepsNext ==
    /\ alive /\ mpLastItem # NULL
    /\ result' = mpData[mpLastItem]
    /\ mpLastItem' = mpPrev[mpLastItem]
    /\ mpFirstItem' = IF mpLastItem' = NULL THEN NULL ELSE mpFirstItem
    /\ mpData' = [mpData EXCEPT ![mpLastItem] = NULL]
    /\ Delete(mpLastItem, mpData', mpNext)
    /\ order' = Tail(order)
    /\ UNCHANGED <<mpPrev, mpNext, alive>>

\* Seeded fault: the list item deletes the object that is returned.
PullKeepsData ==
    /\ alive /\ mpLastItem # NULL
    /\ result' = mpData[mpLastItem]
    /\ mpLastItem' = mpPrev[mpLastItem]
    /\ mpFirstItem' = IF mpLastItem' = NULL THEN NULL ELSE mpFirstItem
    /\ mpNext' = [d \in Cells |-> IF d = mpLastItem' THEN NULL ELSE mpNext[d]]
    /\ Delete(mpLastItem, mpData, mpNext')
    /\ order' = Tail(order)
    /\ UNCHANGED <<mpData, mpPrev, alive>>

\* Queue::pull on a queue that is not empty ...
Pull ==
    /\ alive /\ mpLastItem # NULL
    /\ result' = mpData[mpLastItem]
    /\ mpLastItem' = mpPrev[mpLastItem]
    /\ mpFirstItem' = IF mpLastItem' = NULL THEN NULL ELSE mpFirstItem
    /\ mpNext' = [d \in Cells |-> IF d = mpLastItem' THEN NULL ELSE mpNext[d]]
    /\ mpData' = [mpData EXCEPT ![mpLastItem] = NULL]
    /\ Delete(mpLastItem, mpData', mpNext')
    /\ order' = Tail(order)
    /\ UNCHANGED <<mpPrev, alive>>

\* ... and on an empty one.
PullNothing ==
    /\ alive /\ mpLastItem = NULL
    /\ result' = NULL
    /\ UNCHANGED <<ends, links, alive, destroyed, freedTwice, order>>

\* ~Queue
Destroy ==
    /\ alive
    /\ alive' = FALSE
    /\ \/ /\ mpFirstItem # NULL
          /\ Delete(mpFirstItem, mpData, mpNext)
       \/ /\ mpFirstItem = NULL
          /\ UNCHANGED <<live, destroyed, freedTwice>>
    /\ order' = << >>
    /\ UNCHANGED <<ends, mpData, mpPrev, mpNext, result>>

Next == (\E x \in Items : Push(x)) \/ Pull \/ PullNothing \/ Destroy

Spec == Init /\ [][Next]_vars

-----------------------------------------------------------------------------

Pos == 1 .. Len(order)

TypeOK ==
    /\ order \in Seq(Cells)
    /\ mpFirstItem \in Cells \cup {NULL} /\ mpLastItem \in Cells \cup {NULL}
    /\ mpData \in [Cells -> Items \cup {NULL}]
    /\ mpPrev \in [Cells -> Cells \cup {NULL}]
    /\ mpNext \in [Cells -> Cells \cup {NULL}]
    /\ live \subseteq Cells
    /\ result \in Items \cup {NULL}
    /\ alive \in BOOLEAN /\ freedTwice \in BOOLEAN
    /\ destroyed \subseteq Items

\* From the last item by prev, and back from the first by next, one passes through the
\* same list items, which are all there are; no link that pull or ~Queue could follow
\* dangles, whatever calls of push and pull came before.
WellLinked ==
    alive =>
        /\ live = {order[k] : k \in Pos}
        /\ \A j, k \in Pos : order[j] = order[k] => j = k
        /\ mpLastItem  = IF order = << >> THEN NULL ELSE order[1]
        /\ mpFirstItem = IF order = << >> THEN NULL ELSE order[Len(order)]
        /\ \A k \in Pos : mpPrev[order[k]] = IF k < Len(order) THEN order[k + 1] ELSE NULL
        /\ \A k \in Pos : mpNext[order[k]] = IF k > 1 THEN order[k - 1] ELSE NULL
        /\ \A k \in Pos : mpData[order[k]] # NULL

\* The recursive deletion of a list item never reaches one that was freed before, and
\* ~Queue leaves none behind.
FreedOnce == ~freedTwice /\ (~alive => live = {})

\* Queue is a queue: it returns each item once and in order, and destroys none but those
\* it holds when it is destroyed itself.
Abstract == INSTANCE Fifo WITH items <- [k \in Pos |-> mpData[order[k]]]

FifoSpec == Abstract!Spec
=============================================================================
