------------------------------ MODULE ListSpec ------------------------------
(***************************************************************************)
(* What xlist.h promises: a sequence of values that are inserted, removed, *)
(* taken out to be put back elsewhere, and sorted.                         *)
(***************************************************************************)
EXTENDS Integers, Sequences, Bags, FiniteSets

CONSTANT Keys

VARIABLES
  items,  \* the values on the list
  kept    \* the bag of the values taken out of it

Init == items \in Seq(Int) /\ kept = EmptyBag

InsertAt(p, v) == items' = SubSeq(items, 1, p) \o <<v>> \o SubSeq(items, p + 1, Len(items))
RemoveAt(p) == items' = SubSeq(items, 1, p - 1) \o SubSeq(items, p + 1, Len(items))
One(v) == SetToBag({v})

Insert == \E p \in 0 .. Len(items), v \in Keys : InsertAt(p, v) /\ UNCHANGED kept
Erase == \E p \in DOMAIN items : RemoveAt(p) /\ UNCHANGED kept
Cut == \E p \in DOMAIN items : RemoveAt(p) /\ kept' = kept (+) One(items[p])
Paste == \E p \in 0 .. Len(items), v \in DOMAIN kept : InsertAt(p, v) /\ kept' = kept (-) One(v)
CutFree == \E v \in DOMAIN kept : kept' = kept (-) One(v) /\ UNCHANGED items
Clear == items' = <<>> /\ UNCHANGED kept

\* The same values, each as often, in order.
Sort ==
  /\ DOMAIN items' = DOMAIN items
  /\ \A p \in DOMAIN items :
       Cardinality({q \in DOMAIN items : items[q] = items[p]})
         = Cardinality({q \in DOMAIN items : items'[q] = items[p]})
  /\ \A p \in 1 .. Len(items) - 1 : items'[p] <= items'[p + 1]
  /\ UNCHANGED kept

Next == Insert \/ Erase \/ Cut \/ Paste \/ CutFree \/ Clear \/ Sort

Spec == Init /\ [][Next]_<<items, kept>>
=============================================================================
