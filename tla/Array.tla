------------------------------- MODULE Array -------------------------------
(***************************************************************************)
(* The Array template of msrvcontainer.h, as operators on the sequence of  *)
(* its items.  Array::add and Array::remove build a new buffer and copy    *)
(* the old one into it piece by piece; what remove does not copy is memory *)
(* fresh from malloc, here the value junk.  Positions count from 0, as in  *)
(* the code.                                                               *)
(***************************************************************************)
EXTENDS Naturals, Sequences

\* Array::add
ArrayAdd(items, item) == Append(items, item)

\* The upper part is copied only if this holds.
CopiesUpperPart(count, pos) == pos < count - pos

\* Array::remove, at a position of the array.
ArrayRemove(items, pos, junk) ==
    [j \in 1 .. Len(items) - 1 |->
        IF j <= pos THEN items[j]
        ELSE IF CopiesUpperPart(Len(items), pos) THEN items[j + 1] ELSE junk]

\* "Removes the item at given position and shifts down the rest of the array."
Shifted(items, pos) ==
    [j \in 1 .. Len(items) - 1 |-> IF j <= pos THEN items[j] ELSE items[j + 1]]
=============================================================================
