---------------------------- MODULE ArrayProofs ----------------------------
(***************************************************************************)
(* Where Array::remove does what its comment says, for arrays of any       *)
(* length and items of any kind, and where it does not.                    *)
(***************************************************************************)
EXTENDS Array, TLAPS

\* "Removes the item at given position and shifts down the rest of the array": so it does
\* if the upper part is copied, or if there is no upper part to copy.
THEOREM RemoveShifts ==
  ASSUME NEW S, NEW items \in Seq(S), NEW junk,
         NEW pos \in 0 .. Len(items) - 1,
         CopiesUpperPart(Len(items), pos) \/ pos = Len(items) - 1
  PROVE  ArrayRemove(items, pos, junk) = Shifted(items, pos)
<1>1. CASE CopiesUpperPart(Len(items), pos)
  BY <1>1 DEF ArrayRemove, Shifted
<1>2. CASE pos = Len(items) - 1
  <2>1. \A j \in 1 .. Len(items) - 1 : j <= pos
    BY <1>2
  <2> QED
    BY <2>1 DEF ArrayRemove, Shifted
<1> QED
  BY <1>1, <1>2

\* Arrays of up to three items, a server socket and two clients, are always right.
THEOREM ShortArraysShift ==
  ASSUME NEW S, NEW items \in Seq(S), NEW junk,
         NEW pos \in 0 .. Len(items) - 1,
         Len(items) <= 3
  PROVE  ArrayRemove(items, pos, junk) = Shifted(items, pos)
<1>1. pos < Len(items) - pos \/ pos = Len(items) - 1
  OBVIOUS
<1> QED
  BY <1>1, RemoveShifts DEF CopiesUpperPart

\* In every longer array the removal of the last item but one leaves the uninitialised
\* value in place of the last item.
THEOREM LongArraysLoseAnItem ==
  ASSUME NEW S, NEW items \in Seq(S), NEW junk,
         Len(items) >= 4
  PROVE  LET n == Len(items) IN ArrayRemove(items, n - 2, junk)[n - 1] = junk
<1>1. /\ Len(items) - 1 \in 1 .. Len(items) - 1
      /\ ~(Len(items) - 1 <= Len(items) - 2)
      /\ ~CopiesUpperPart(Len(items), Len(items) - 2)
  BY DEF CopiesUpperPart
<1> QED
  BY <1>1 DEF ArrayRemove
=============================================================================
