------------------------- MODULE LinkedQueueProofs -------------------------
(***************************************************************************)
(* Queue is a queue, for any number of list items and objects: the links   *)
(* are kept consistent by every call, nothing is freed twice or left       *)
(* behind, and LinkedQueue implements Fifo.                                *)
(***************************************************************************)
EXTENDS LinkedQueue, FiniteSetTheorems, SequenceTheorems, TLAPS

\* What the history variables say besides: nothing is destroyed before ~Queue.
HistoryInv == IF alive THEN destroyed = {} ELSE order = << >>

QueueInv == TypeOK /\ WellLinked /\ FreedOnce /\ HistoryInv

-----------------------------------------------------------------------------
(* Deleting a list item.                                                   *)

\* A set of positions has a last member.  The library's induction theorems cannot be
\* applied; the well-foundedness of strict inclusion, on sets that end at n, can.
LEMMA LastMember ==
  ASSUME NEW n \in Nat, NEW B \in SUBSET (1 .. n), B # {}
  PROVE  \E k \in B : \A j \in B : j <= k
<1> DEFINE After(k) == (k + 1) .. n
           F == {After(k) : k \in B}
<1>1. F \subseteq FiniteSubsetsOf(1 .. n) /\ F # {}
  <2>1. \A k \in B : After(k) \in SUBSET (1 .. n) /\ IsFiniteSet(After(k))
    BY FS_Interval
  <2> QED
    BY <2>1 DEF FiniteSubsetsOf
<1>2. PICK X \in F : \A Y \in F : <<Y, X>> \notin StrictSubsetOrdering(1 .. n)
  <2> HIDE DEF F
  <2> QED
    BY <1>1, WFMin, FS_StrictSubsetOrderingWellFounded
<1>3. PICK k \in B : X = After(k)
  OBVIOUS
<1>4. ASSUME NEW j \in B, ~(j <= k) PROVE FALSE
  <2>1. After(j) \subseteq After(k) /\ After(j) # After(k)
    <3>1. j \in After(k) /\ j \notin After(j)
      BY <1>4
    <3>2. After(j) \subseteq After(k)
      BY <1>4
    <3> QED
      BY <3>1, <3>2
  <2>2. After(j) \in SUBSET (1 .. n) /\ After(k) \in SUBSET (1 .. n)
    OBVIOUS
  <2>3. <<After(j), X>> \in StrictSubsetOrdering(1 .. n)
    <3> HIDE DEF After
    <3> QED
      BY <2>1, <2>2, <1>3 DEF StrictSubsetOrdering
  <2> QED
    BY <2>3, <1>2
<1> QED
  BY <1>4

\* Deleting an item without a successor deletes just that item.
LEMMA ChainOfOne ==
  ASSUME NEW next, NEW c \in Cells, next[c] = NULL
  PROVE  Chain(next, c) = {c}
<1>1. Chain(next, c) \subseteq {c}
  <2>1. {c} \in SUBSET Cells /\ c \in {c} /\ \A e \in {c} : next[e] \in {c} \cup {NULL}
    OBVIOUS
  <2> QED
    BY <2>1 DEF Chain
<1>2. c \in Chain(next, c)
  BY DEF Chain
<1> QED
  BY <1>1, <1>2

\* Deleting the first item deletes every item of the queue.
LEMMA ChainOfFirst ==
  ASSUME QueueInv, alive, mpFirstItem # NULL
  PROVE  Chain(mpNext, mpFirstItem) = live
<1>1. /\ order # << >> /\ order \in Seq(Cells) /\ Len(order) \in Nat /\ Len(order) \in Pos
      /\ mpFirstItem = order[Len(order)]
      /\ live = {order[k] : k \in Pos} /\ live \in SUBSET Cells
      /\ \A k \in Pos : mpNext[order[k]] = IF k > 1 THEN order[k - 1] ELSE NULL
  BY DEF QueueInv, TypeOK, WellLinked, Pos
<1>2. Chain(mpNext, mpFirstItem) \subseteq live
  <2>1. mpFirstItem \in live
    BY <1>1
  <2>2. ASSUME NEW e \in live PROVE mpNext[e] \in live \cup {NULL}
    <3>1. PICK k \in Pos : e = order[k]
      BY <1>1
    <3>2. k > 1 => k - 1 \in Pos
      BY DEF Pos
    <3> QED
      BY <1>1, <3>1, <3>2
  <2> QED
    BY <1>1, <2>1, <2>2 DEF Chain
<1>3. ASSUME NEW S \in SUBSET Cells, mpFirstItem \in S,
             \A e \in S : mpNext[e] \in S \cup {NULL}
      PROVE  live \subseteq S
  <2> DEFINE B == {k \in Pos : order[k] \notin S}
  <2>1. ASSUME B # {} PROVE FALSE
    <3>1. PICK k \in B : \A j \in B : j <= k
      BY <1>1, <2>1, LastMember DEF Pos
    <3>2. k \in Pos /\ order[k] \notin S /\ k # Len(order)
      BY <1>1, <1>3
    <3>3. k + 1 \in Pos /\ k + 1 \notin B
      BY <1>1, <3>1, <3>2 DEF Pos
    <3>4. order[k + 1] \in S
      BY <3>3
    <3>5. mpNext[order[k + 1]] = order[k]
      BY <1>1, <3>2, <3>3 DEF Pos
    <3>6. order[k] # NULL
      BY <1>1, <3>2, NullAssumption DEF Pos
    <3> QED
      BY <1>3, <3>2, <3>4, <3>5, <3>6
  <2> QED
    BY <1>1, <2>1
<1>4. live \subseteq Chain(mpNext, mpFirstItem)
  BY <1>1, <1>3 DEF Chain
<1> QED
  BY <1>2, <1>4

-----------------------------------------------------------------------------
(* The invariant.                                                          *)

LEMMA QueueInit == Init => QueueInv
<1> SUFFICES ASSUME Init PROVE QueueInv
  OBVIOUS
<1>1. TypeOK
  <2>1. order \in Seq(Cells)
    BY DEF Init
  <2>2. /\ mpData \in [Cells -> Items \cup {NULL}]
        /\ mpPrev \in [Cells -> Cells \cup {NULL}]
        /\ mpNext \in [Cells -> Cells \cup {NULL}]
    BY DEF Init
  <2> QED
    BY <2>1, <2>2 DEF Init, TypeOK
<1>2. Pos = {} /\ order = << >>
  BY DEF Init, Pos
<1>3. live = {order[k] : k \in Pos}
  BY <1>2 DEF Init
<1>4. WellLinked
  BY <1>2, <1>3 DEF Init, WellLinked
<1> QED
  BY <1>1, <1>4 DEF Init, QueueInv, FreedOnce, HistoryInv

LEMMA PushStep ==
  ASSUME QueueInv, NEW x \in Items, Push(x)
  PROVE  QueueInv'
<1>1. PICK c \in Cells \ live :
        /\ live' = live \cup {c}
        /\ mpData' = [mpData EXCEPT ![c] = x]
        /\ mpNext' = [mpNext EXCEPT ![c] = mpFirstItem]
        /\ mpPrev' = [d \in Cells |-> IF d = c THEN NULL
                                      ELSE IF d = mpFirstItem THEN c ELSE mpPrev[d]]
        /\ mpFirstItem' = c
        /\ mpLastItem' = IF mpLastItem = NULL THEN c ELSE mpLastItem
        /\ order' = Append(order, c)
  BY DEF Push
<1>2. alive /\ alive' /\ UNCHANGED <<result, alive, destroyed, freedTwice>>
  BY DEF Push
<1>3. TypeOK /\ WellLinked /\ FreedOnce /\ HistoryInv /\ Len(order) \in Nat
  BY DEF QueueInv, TypeOK
<1>4. TypeOK'
  BY <1>1, <1>2, <1>3 DEF TypeOK
<1>5. /\ Len(order') = Len(order) + 1 /\ order'[Len(order) + 1] = c
      /\ \A k \in Pos : order'[k] = order[k] /\ order[k] \in live /\ order[k] # c
      /\ Pos' = Pos \cup {Len(order) + 1} /\ Len(order) + 1 \notin Pos
      /\ order' # << >>
  BY <1>1, <1>2, <1>3 DEF TypeOK, WellLinked, Pos
<1>6. WellLinked'
  <2>1. live' = {order'[k] : k \in Pos'}
    <3>1. live = {order[k] : k \in Pos}
      BY <1>2, <1>3 DEF WellLinked
    <3>2. ASSUME NEW d \in live' PROVE \E k \in Pos' : d = order'[k]
      <4>1. d \in live \/ d = c
        BY <1>1
      <4>2. CASE d = c
        BY <1>5, <4>2
      <4>3. CASE d \in live
        BY <3>1, <1>5, <4>3
      <4> QED
        BY <4>1, <4>2, <4>3
    <3>3. \A k \in Pos' : order'[k] \in live'
      BY <3>1, <1>1, <1>5
    <3> QED
      BY <3>2, <3>3
  <2>2. \A j, k \in Pos' : order'[j] = order'[k] => j = k
    BY <1>2, <1>3, <1>5 DEF WellLinked
  <2>3. mpLastItem' = order'[1] /\ mpFirstItem' = order'[Len(order')]
    <3>1. CASE order = << >>
      BY <3>1, <1>1, <1>2, <1>3, <1>5 DEF WellLinked
    <3>2. CASE order # << >>
      <4>1. 1 \in Pos /\ mpLastItem = order[1]
        BY <3>2, <1>2, <1>3 DEF WellLinked, Pos, TypeOK
      <4>2. mpLastItem # NULL
        BY <4>1, <1>3, NullAssumption DEF TypeOK, Pos
      <4> QED
        BY <4>1, <4>2, <1>1, <1>5
    <3> QED
      BY <3>1, <3>2
  <2>4. ASSUME NEW k \in Pos'
        PROVE  mpPrev'[order'[k]] = IF k < Len(order') THEN order'[k + 1] ELSE NULL
    <3>1. CASE k = Len(order) + 1
      BY <3>1, <1>1, <1>5
    <3>2. CASE k = Len(order)
      BY <3>2, <1>1, <1>2, <1>3, <1>5 DEF WellLinked, TypeOK, Pos
    <3>3. CASE k \in Pos /\ k # Len(order)
      <4>1. Len(order) \in Pos /\ k + 1 \in Pos /\ k < Len(order) /\ order # << >>
        BY <3>3, <1>3 DEF Pos
      <4>2. order[k] # mpFirstItem /\ mpPrev[order[k]] = order[k + 1]
        BY <3>3, <4>1, <1>2, <1>3 DEF WellLinked
      <4>3. order[k] \in Cells
        BY <3>3, <1>3 DEF TypeOK, Pos
      <4> QED
        <5>1. order'[k] = order[k] /\ order'[k + 1] = order[k + 1] /\ order[k] # c
          BY <3>3, <4>1, <1>5
        <5>2. mpPrev'[order[k]] = mpPrev[order[k]]
          BY <4>2, <4>3, <5>1, <1>1
        <5>3. k < Len(order')
          BY <4>1, <1>3, <1>5 DEF Pos
        <5> QED
          BY <4>2, <5>1, <5>2, <5>3
    <3> QED
      BY <3>1, <3>2, <3>3, <1>5
  <2>5. ASSUME NEW k \in Pos'
        PROVE  mpNext'[order'[k]] = IF k > 1 THEN order'[k - 1] ELSE NULL
    <3>1. CASE k = Len(order) + 1
      <4>1. mpNext'[order'[k]] = mpFirstItem
        BY <3>1, <1>1, <1>3, <1>5 DEF TypeOK
      <4>2. CASE order = << >>
        BY <3>1, <4>1, <4>2, <1>2, <1>3 DEF WellLinked
      <4>3. CASE order # << >>
        <5>1. Len(order) \in Pos /\ k > 1 /\ k - 1 = Len(order)
          BY <3>1, <4>3, <1>3 DEF TypeOK, Pos
        <5> QED
          BY <4>1, <4>3, <5>1, <1>2, <1>3, <1>5 DEF WellLinked
      <4> QED
        BY <4>2, <4>3
    <3>2. CASE k \in Pos
      <4>1. k > 1 => k - 1 \in Pos
        BY <3>2, <1>3 DEF Pos
      <4>2. mpNext'[order'[k]] = mpNext[order[k]]
        BY <3>2, <1>1, <1>3, <1>5 DEF TypeOK
      <4> QED
        BY <3>2, <4>1, <4>2, <1>2, <1>3, <1>5 DEF WellLinked
    <3> QED
      BY <3>1, <3>2, <1>5
  <2>6. \A k \in Pos' : mpData'[order'[k]] # NULL
    <3>1. x # NULL /\ mpData'[c] = x
      BY <1>1, <1>3, NullAssumption DEF TypeOK
    <3>2. ASSUME NEW k \in Pos PROVE mpData'[order'[k]] # NULL
      <4>1. order'[k] = order[k] /\ order[k] # c /\ mpData[order[k]] # NULL
        BY <1>2, <1>3, <1>5 DEF WellLinked
      <4> QED
        BY <4>1, <1>1, <1>3, <1>5 DEF TypeOK
    <3> QED
      BY <3>1, <3>2, <1>1, <1>5
  <2> QED
    BY <2>1, <2>2, <2>3, <2>4, <2>5, <2>6, <1>5 DEF WellLinked
<1> QED
  BY <1>2, <1>3, <1>4, <1>6 DEF QueueInv, FreedOnce, HistoryInv

LEMMA PullStep ==
  ASSUME QueueInv, Pull
  PROVE  QueueInv' /\ destroyed' = {} /\ Len(order) > 0
<1> DEFINE c == order[1]
           d == mpPrev[mpLastItem]
<1>1. /\ alive /\ mpLastItem # NULL
      /\ result' = mpData[mpLastItem]
      /\ mpLastItem' = d
      /\ mpFirstItem' = IF d = NULL THEN NULL ELSE mpFirstItem
      /\ mpNext' = [e \in Cells |-> IF e = d THEN NULL ELSE mpNext[e]]
      /\ mpData' = [mpData EXCEPT ![mpLastItem] = NULL]
      /\ Delete(mpLastItem, mpData', mpNext')
      /\ order' = Tail(order)
      /\ mpPrev' = mpPrev /\ alive' = alive
  BY DEF Pull
<1>2. TypeOK /\ WellLinked /\ FreedOnce /\ HistoryInv /\ Len(order) \in Nat
  BY DEF QueueInv, TypeOK
<1>3. order # << >> /\ mpLastItem = c /\ c \in Cells /\ 1 \in Pos /\ Len(order) > 0
  <2>1. order # << >> /\ mpLastItem = c
    BY <1>1, <1>2 DEF WellLinked
  <2> QED
    BY <2>1, <1>2 DEF TypeOK, Pos
<1>4. /\ \A k \in Pos : order[k] \in Cells /\ order[k] # NULL
      /\ live = {order[k] : k \in Pos} /\ \A j, k \in Pos : order[j] = order[k] => j = k
  BY <1>1, <1>2, NullAssumption DEF WellLinked, TypeOK, Pos
<1>5. /\ Len(order') = Len(order) - 1
      /\ Pos' = 1 .. (Len(order) - 1)
      /\ \A k \in Pos' : k + 1 \in Pos /\ order'[k] = order[k + 1]
      /\ \A k \in Pos : k # 1 => k - 1 \in Pos' /\ order'[k - 1] = order[k]
      /\ order' \in Seq(Cells)
      /\ order' = << >> <=> Len(order) = 1
  <2>1. order \in Seq(Cells) /\ order # << >> /\ order' = Tail(order)
    BY <1>1, <1>2, <1>3 DEF TypeOK
  <2>2. /\ Len(order') = Len(order) - 1 /\ order' \in Seq(Cells)
        /\ \A k \in 1 .. (Len(order) - 1) : order'[k] = order[k + 1]
    BY <2>1
  <2>3. Pos' = 1 .. (Len(order) - 1)
    BY <2>2 DEF Pos
  <2>4. \A k \in Pos' : k + 1 \in Pos
    BY <2>3, <1>2 DEF Pos
  <2>5. ASSUME NEW k \in Pos, k # 1 PROVE k - 1 \in Pos' /\ order'[k - 1] = order[k]
    <3>1. k - 1 \in 1 .. (Len(order) - 1) /\ (k - 1) + 1 = k
      BY <2>5, <1>2 DEF Pos
    <3> QED
      BY <3>1, <2>2, <2>3
  <2>6. order' = << >> <=> Len(order) = 1
    BY <2>2, <1>2
  <2> QED
    BY <2>2, <2>3, <2>4, <2>5, <2>6
<1>6. d = IF 1 < Len(order) THEN order[2] ELSE NULL
  BY <1>1, <1>2, <1>3 DEF WellLinked
<1>7. d \in Cells \cup {NULL} /\ d # c
  <2>1. CASE Len(order) > 1
    BY <2>1, <1>3, <1>4, <1>6, <1>2 DEF Pos
  <2>2. CASE ~(Len(order) > 1)
    BY <2>2, <1>3, <1>4, <1>6, <1>2
  <2> QED
    BY <2>1, <2>2
<1>8. /\ mpNext'[c] = NULL
      /\ \A k \in Pos' : mpNext'[order'[k]] = IF k > 1 THEN order'[k - 1] ELSE NULL
  <2>1. mpNext[c] = NULL
    BY <1>1, <1>2, <1>3 DEF WellLinked
  <2>2. ASSUME NEW k \in Pos'
        PROVE  mpNext'[order'[k]] = IF k > 1 THEN order'[k - 1] ELSE NULL
    <3>1. k \in Nat /\ k >= 1 /\ k + 1 \in Pos /\ order'[k] = order[k + 1] /\ Len(order) > 1
      BY <1>5, <1>2
    <3>2. CASE k = 1
      BY <3>1, <3>2, <1>1, <1>4, <1>6
    <3>3. CASE k # 1
      <4>1. 2 \in Pos /\ order[k + 1] # order[2] /\ d = order[2]
        BY <3>1, <3>3, <1>4, <1>6, <1>2 DEF Pos
      <4>2. mpNext'[order'[k]] = mpNext[order[k + 1]]
        BY <3>1, <4>1, <1>1, <1>4
      <4>3. mpNext[order[k + 1]] = order[k]
        BY <3>1, <3>3, <1>1, <1>2 DEF WellLinked
      <4>4. k \in Pos /\ order'[k - 1] = order[k]
        BY <3>1, <3>3, <1>5, <1>2 DEF Pos
      <4> QED
        BY <3>1, <3>3, <4>2, <4>3, <4>4
    <3> QED
      BY <3>2, <3>3
  <2> QED
    BY <2>1, <2>2, <1>1, <1>3
<1>9. Chain(mpNext', c) = {c}
  BY <1>3, <1>8, ChainOfOne
<1>10. live' = live \ {c} /\ destroyed' = destroyed /\ freedTwice' = FALSE
  <2>1. mpData'[c] = NULL /\ c \in live
    BY <1>1, <1>2, <1>3, <1>4 DEF TypeOK
  <2>2. Delete(c, mpData', mpNext')
    BY <1>1, <1>3
  <2>3. live' = live \ {c} /\ destroyed' = destroyed \cup ({mpData'[e] : e \in {c}} \ {NULL})
        /\ freedTwice' = (freedTwice \/ ~({c} \subseteq live))
    BY <2>2, <1>9 DEF Delete
  <2>4. freedTwice' = FALSE
    BY <2>1, <2>3, <1>2 DEF FreedOnce
  <2> QED
    BY <2>1, <2>3, <2>4
<1>11. TypeOK'
  <2>1. mpNext' \in [Cells -> Cells \cup {NULL}]
    BY <1>1, <1>2 DEF TypeOK
  <2>2. mpData' \in [Cells -> Items \cup {NULL}] /\ result' \in Items \cup {NULL}
    BY <1>1, <1>2, <1>3 DEF TypeOK
  <2>3. mpFirstItem' \in Cells \cup {NULL} /\ mpLastItem' \in Cells \cup {NULL}
    BY <1>1, <1>2, <1>7 DEF TypeOK
  <2> QED
    BY <2>1, <2>2, <2>3, <1>1, <1>2, <1>5, <1>10 DEF TypeOK
<1>12. WellLinked'
  <2>1. live' = {order'[k] : k \in Pos'}
    <3>1. ASSUME NEW e \in live' PROVE \E k \in Pos' : e = order'[k]
      <4>1. PICK k \in Pos : e = order[k]
        BY <1>4, <1>10
      <4>2. k # 1
        BY <4>1, <1>10
      <4> QED
        BY <4>1, <4>2, <1>5
    <3>2. ASSUME NEW k \in Pos' PROVE order'[k] \in live'
      <4>1. k + 1 \in Pos /\ k + 1 # 1 /\ order'[k] = order[k + 1]
        BY <1>5, <1>2
      <4> QED
        BY <4>1, <1>3, <1>4, <1>10
    <3> QED
      BY <3>1, <3>2
  <2>2. \A j, k \in Pos' : order'[j] = order'[k] => j = k
    <3>1. ASSUME NEW j \in Pos', NEW k \in Pos', order'[j] = order'[k] PROVE j = k
      <4>1. /\ j + 1 \in Pos /\ k + 1 \in Pos
            /\ order'[j] = order[j + 1] /\ order'[k] = order[k + 1]
        BY <1>5
      <4>2. j + 1 = k + 1
        BY <3>1, <4>1, <1>4
      <4> QED
        BY <4>2, <1>2, <1>5
    <3> QED
      BY <3>1
  <2>3. /\ mpLastItem' = IF order' = << >> THEN NULL ELSE order'[1]
        /\ mpFirstItem' = IF order' = << >> THEN NULL ELSE order'[Len(order')]
    <3>1. CASE Len(order) = 1
      BY <3>1, <1>1, <1>5, <1>6
    <3>2. CASE Len(order) # 1
      <4>1. 1 \in Pos' /\ Len(order') \in Pos' /\ Len(order') + 1 = Len(order) /\ 1 + 1 = 2
        BY <3>2, <1>2, <1>3, <1>5
      <4>2. order'[1] = order[2] /\ order'[Len(order')] = order[Len(order)]
        BY <4>1, <1>5
      <4>3. d = order[2] /\ d # NULL /\ order' # << >>
        BY <3>2, <4>1, <1>2, <1>3, <1>4, <1>5, <1>6 DEF Pos
      <4>4. mpFirstItem = order[Len(order)]
        BY <1>1, <1>2, <1>3 DEF WellLinked
      <4> QED
        BY <4>2, <4>3, <4>4, <1>1
    <3> QED
      BY <3>1, <3>2
  <2>4. ASSUME NEW k \in Pos'
        PROVE  mpPrev'[order'[k]] = IF k < Len(order') THEN order'[k + 1] ELSE NULL
    <3>1. k + 1 \in Pos /\ order'[k] = order[k + 1] /\ k \in Nat
      BY <1>5, <1>2
    <3>2. mpPrev'[order'[k]] = IF k + 1 < Len(order) THEN order[k + 1 + 1] ELSE NULL
      BY <3>1, <1>1, <1>2 DEF WellLinked
    <3>3. k < Len(order') => k + 1 \in Pos' /\ order'[k + 1] = order[k + 1 + 1]
      BY <3>1, <1>2, <1>5
    <3> QED
      BY <3>1, <3>2, <3>3, <1>2, <1>5
  <2>5. ASSUME NEW k \in Pos' PROVE mpData'[order'[k]] # NULL
    <3>1. k + 1 \in Pos /\ k + 1 # 1 /\ order'[k] = order[k + 1]
      BY <1>5, <1>2
    <3>2. order[k + 1] # c /\ mpData[order[k + 1]] # NULL
      BY <3>1, <1>1, <1>2, <1>3, <1>4 DEF WellLinked
    <3> QED
      BY <3>1, <3>2, <1>1, <1>2, <1>3, <1>4 DEF TypeOK
  <2> QED
    BY <2>1, <2>2, <2>3, <2>4, <2>5, <1>8 DEF WellLinked
<1> QED
  BY <1>1, <1>2, <1>3, <1>10, <1>11, <1>12 DEF QueueInv, FreedOnce, HistoryInv

LEMMA DestroyStep ==
  ASSUME QueueInv, Destroy
  PROVE  QueueInv' /\ destroyed' = {mpData[e] : e \in live}
<1>1. TypeOK /\ WellLinked /\ FreedOnce /\ HistoryInv /\ alive
  BY DEF QueueInv, Destroy
<1>2. live' = {} /\ freedTwice' = FALSE /\ destroyed' = {mpData[e] : e \in live}
  <2>1. CASE mpFirstItem # NULL
    <3>1. Delete(mpFirstItem, mpData, mpNext)
      BY <2>1 DEF Destroy
    <3>2. Chain(mpNext, mpFirstItem) = live
      BY <2>1, <1>1, ChainOfFirst
    <3>3. \A e \in live : mpData[e] # NULL
      BY <1>1 DEF WellLinked
    <3> QED
      <4>1. freedTwice' = (freedTwice \/ ~(live \subseteq live))
        BY <3>1, <3>2 DEF Delete
      <4>2. freedTwice' = FALSE
        BY <4>1, <1>1 DEF FreedOnce
      <4> QED
        BY <3>1, <3>2, <3>3, <4>2, <1>1 DEF Delete, HistoryInv
  <2>2. CASE mpFirstItem = NULL
    <3>1. order = << >>
      <4>1. ASSUME order # << >> PROVE Len(order) \in Pos
        BY <4>1, <1>1 DEF TypeOK, Pos
      <4>2. \A k \in Pos : order[k] # NULL
        BY <1>1, NullAssumption DEF TypeOK, Pos
      <4> QED
        BY <4>1, <4>2, <2>2, <1>1 DEF WellLinked
    <3>2. live = {}
      BY <3>1, <1>1 DEF WellLinked, Pos
    <3> QED
      BY <3>2, <2>2, <1>1 DEF Destroy, TypeOK, FreedOnce, HistoryInv
  <2> QED
    BY <2>1, <2>2
<1>3. TypeOK'
  <2>1. \A e \in live : mpData[e] \in Items
    BY <1>1 DEF WellLinked, TypeOK
  <2>2. destroyed' \subseteq Items /\ live' \subseteq Cells
    BY <2>1, <1>2
  <2>3. /\ order' = << >> /\ alive' = FALSE
        /\ UNCHANGED <<mpFirstItem, mpLastItem, mpData, mpPrev, mpNext, result>>
    BY DEF Destroy, ends
  <2>4. order' \in Seq(Cells)
    BY <2>3
  <2> QED
    BY <2>2, <2>3, <2>4, <1>1, <1>2 DEF TypeOK
<1> QED
  BY <1>2, <1>3 DEF Destroy, QueueInv, WellLinked, FreedOnce, HistoryInv

\* A step that changes nothing but the result of pull, or nothing.
LEMMA NothingStep ==
  ASSUME QueueInv, PullNothing \/ UNCHANGED vars
  PROVE  QueueInv'
BY DEF PullNothing, vars, ends, links, QueueInv, TypeOK, WellLinked, FreedOnce, HistoryInv, Pos

\* QueueInv is inductive.
THEOREM QueueCorrect == Spec => []QueueInv
<1>1. QueueInv /\ [Next]_vars => QueueInv'
  BY PushStep, PullStep, DestroyStep, NothingStep DEF Next
<1> QED
  BY <1>1, QueueInit, PTL DEF Spec

\* The links are consistent after every sequence of push and pull.
THEOREM LinksConsistent == Spec => []WellLinked
<1>1. QueueInv => WellLinked
  BY DEF QueueInv
<1> QED
  BY <1>1, QueueCorrect, PTL

\* No list item is deleted twice, and none is left when the queue is destroyed.
THEOREM ItemsFreedOnce == Spec => []FreedOnce
<1>1. QueueInv => FreedOnce
  BY DEF QueueInv
<1> QED
  BY <1>1, QueueCorrect, PTL
\* The queue returns what was queued, once and in order, and destroys the rest with
\* itself: its linked list is a Fifo.
THEOREM QueueImplementsFifo == Spec => FifoSpec
<1> DEFINE Values == Items \cup {NULL}
           q == [k \in Pos |-> mpData[order[k]]]
<1>1. Init => Abstract!Init
  <2> SUFFICES ASSUME Init PROVE Abstract!Init
    OBVIOUS
  <2>1. Pos = {}
    BY DEF Init, Pos
  <2>2. q = << >>
    BY <2>1
  <2> QED
    BY <2>2 DEF Init, Abstract!Init
<1>2. ASSUME QueueInv, [Next]_vars PROVE [Abstract!Next]_(Abstract!vars)
  <2>1. TypeOK /\ WellLinked /\ HistoryInv /\ Len(order) \in Nat
    BY <1>2 DEF QueueInv, TypeOK
  <2>2. /\ q \in Seq(Values) /\ Len(q) = Len(order) /\ DOMAIN q = Pos
    <3>1. \A k \in Pos : mpData[order[k]] \in Items \cup {NULL}
      BY <2>1 DEF TypeOK, Pos
    <3> QED
      BY <3>1, <2>1 DEF Pos
  <2>3. ASSUME NEW x \in Items, Push(x) PROVE Abstract!Push(x)
    <3>1. PICK c \in Cells \ live :
            mpData' = [mpData EXCEPT ![c] = x] /\ order' = Append(order, c)
      BY <2>3 DEF Push
    <3>2. alive /\ UNCHANGED <<alive, result, destroyed>> /\ x \notin {mpData[e] : e \in live}
      BY <2>3 DEF Push
    <3>3. /\ \A k \in Pos : order[k] \in live /\ order[k] \in Cells /\ order[k] # c
          /\ \A k \in Pos : order'[k] = order[k]
          /\ Pos' = 1 .. (Len(order) + 1) /\ order'[Len(order) + 1] = c
      BY <3>1, <3>2, <2>1 DEF WellLinked, TypeOK, Pos
    <3>4. q' = Append(q, x)
      <4>1. \A k \in Pos : mpData'[order'[k]] = q[k]
        BY <3>1, <3>3, <2>1 DEF TypeOK
      <4>2. mpData'[order'[Len(order) + 1]] = x
        BY <3>1, <3>3, <2>1 DEF TypeOK
      <4>3. /\ q' \in Seq(Values) /\ Len(q') = Len(q) + 1
            /\ \A k \in 1 .. Len(q) : q'[k] = q[k]
            /\ q'[Len(q) + 1] = x
        <5>1. q' = [k \in 1 .. (Len(order) + 1) |-> mpData'[order'[k]]]
          BY <3>3
        <5>2. \A k \in 1 .. (Len(order) + 1) : mpData'[order'[k]] \in Values
          BY <4>1, <4>2, <2>1, <2>2 DEF Pos
        <5> QED
          BY <5>1, <5>2, <4>1, <4>2, <2>1, <2>2 DEF Pos
      <4>4. x \in Values
        OBVIOUS
      <4> HIDE DEF q, Values
      <4>5. /\ Append(q, x) \in Seq(Values) /\ Len(Append(q, x)) = Len(q) + 1
            /\ \A k \in 1 .. Len(q) : Append(q, x)[k] = q[k]
            /\ Append(q, x)[Len(q) + 1] = x
        BY <4>4, <2>2, AppendProperties
      <4>6. \A k \in 1 .. Len(q') : q'[k] = Append(q, x)[k]
        BY <4>3, <4>5, <2>1, <2>2
      <4> QED
        BY <4>3, <4>5, <4>6, SeqEqual
    <3>5. x \notin {q[k] : k \in DOMAIN q}
      BY <3>2, <3>3, <2>2
    <3> QED
      BY <3>2, <3>4, <3>5 DEF Abstract!Push, Abstract!Held
  <2>4. ASSUME Pull PROVE Abstract!Pull
    <3>1. QueueInv' /\ destroyed' = {} /\ Len(order) > 0
      BY <2>4, <1>2, PullStep
    <3>2. /\ alive /\ mpLastItem # NULL /\ result' = mpData[mpLastItem] /\ alive' = alive
          /\ mpData' = [mpData EXCEPT ![mpLastItem] = NULL] /\ order' = Tail(order)
      BY <2>4 DEF Pull
    <3>3. mpLastItem = order[1] /\ 1 \in Pos /\ order # << >>
      BY <3>1, <3>2, <2>1 DEF WellLinked, Pos
    <3>4. q # << >> /\ Head(q) = mpData[order[1]]
      <4>1. q[1] = mpData[order[1]]
        BY <3>3
      <4> HIDE DEF q, Values
      <4> QED
        BY <4>1, <3>1, <2>2, EmptySeq
    <3>5. q' = Tail(q)
      <4>1. Pos' = 1 .. (Len(order) - 1) /\ \A k \in Pos' : order'[k] = order[k + 1]
        BY <3>2, <3>3, <2>1 DEF TypeOK, Pos
      <4>2. ASSUME NEW k \in Pos' PROVE mpData'[order'[k]] = q[k + 1]
        <5>1. k + 1 \in Pos /\ k + 1 # 1
          BY <4>1, <2>1 DEF Pos
        <5>2. order[k + 1] # order[1] /\ order[k + 1] \in Cells
          BY <5>1, <3>2, <3>3, <2>1 DEF WellLinked, TypeOK, Pos
        <5> QED
          BY <5>1, <5>2, <4>1, <3>2, <3>3, <2>1 DEF TypeOK
      <4>3. q' \in Seq(Values) /\ Len(q') = Len(q) - 1
        <5>1. q' = [k \in 1 .. (Len(order) - 1) |-> mpData'[order'[k]]]
          BY <4>1
        <5>2. \A k \in 1 .. (Len(order) - 1) : mpData'[order'[k]] \in Values
          <6>1. \A k \in Pos : q[k] \in Values
            BY <2>1 DEF TypeOK, Pos
          <6>2. \A k \in 1 .. (Len(order) - 1) : k + 1 \in Pos
            BY <2>1 DEF Pos
          <6> HIDE DEF q, Values
          <6> QED
            BY <6>1, <6>2, <4>1, <4>2
        <5>3. Len(order) - 1 \in Nat
          BY <3>1, <2>1
        <5>4. \A f \in [1 .. (Len(order) - 1) -> Values] :
                f \in Seq(Values) /\ Len(f) = Len(order) - 1
          BY <5>3
        <5>5. q' \in [1 .. (Len(order) - 1) -> Values]
          BY <5>1, <5>2
        <5> HIDE DEF q, Values
        <5> QED
          BY <5>4, <5>5, <2>2
      <4>4. \A k \in 1 .. Len(q') : q'[k] = q[k + 1]
        BY <4>1, <4>2, <4>3, <2>2
      <4> HIDE DEF q, Values
      <4>5. /\ Tail(q) \in Seq(Values) /\ Len(Tail(q)) = Len(q) - 1
            /\ \A k \in 1 .. Len(Tail(q)) : Tail(q)[k] = q[k + 1]
        BY <2>2, <3>4, HeadTailProperties
      <4> QED
        BY <4>3, <4>4, <4>5, SeqEqual
    <3> QED
      BY <3>1, <3>2, <3>3, <3>4, <3>5, <2>1 DEF Abstract!Pull, HistoryInv
  <2>5. ASSUME PullNothing PROVE Abstract!PullNothing
    <3>1. order = << >>
      <4>1. ASSUME order # << >> PROVE order[1] # NULL
        BY <4>1, <2>1, NullAssumption DEF TypeOK
      <4> QED
        BY <4>1, <2>5, <2>1 DEF WellLinked, PullNothing
    <3>2. q = << >>
      BY <3>1 DEF Pos
    <3>3. q' = q
      BY <2>5 DEF PullNothing, links, Pos
    <3> QED
      BY <3>2, <3>3, <2>5 DEF Abstract!PullNothing, PullNothing
  <2>6. ASSUME Destroy PROVE Abstract!Destroy
    <3>1. destroyed' = {mpData[e] : e \in live} /\ live = {order[k] : k \in Pos}
      BY <2>6, <1>2, <2>1, DestroyStep DEF WellLinked, Destroy
    <3>2. destroyed' = {q[k] : k \in DOMAIN q}
      BY <3>1, <2>2
    <3>3. q' = << >>
      BY <2>6 DEF Destroy, Pos
    <3> QED
      BY <3>2, <3>3, <2>6 DEF Abstract!Destroy, Abstract!Held, Destroy
  <2>7. CASE UNCHANGED vars
    BY <2>7 DEF vars, ends, links, Abstract!vars, Pos
  <2> QED
    BY <2>3, <2>4, <2>5, <2>6, <2>7, <1>2 DEF Next, Abstract!Next
<1> QED
  BY <1>1, <1>2, QueueCorrect, PTL DEF Spec, FifoSpec, Abstract!Spec
=============================================================================
