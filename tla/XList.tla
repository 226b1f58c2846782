------------------------------- MODULE XList -------------------------------
(***************************************************************************)
(* xlist.c: a circular doubly linked list whose head is part of the list   *)
(* object.  A node is inserted, erased, cut off and kept aside, pasted     *)
(* back or freed; the list is cleared; and xlist_msort (MergeSort) sorts   *)
(* it in place.  malloc may return any address that is not in use, also    *)
(* one just freed.  The links of a node that is cut keep what they were.   *)
(***************************************************************************)
EXTENDS MergeSort, Functions

CONSTANTS
  Inputs,  \* the values of lists that exist initially, besides the empty one
  Addr,    \* the addresses that malloc returns
  Keys     \* the values that are inserted

ASSUME XListAssumption == Inputs \subseteq Seq(Int) /\ Keys \subseteq Int /\ Addr \subseteq Nat \ {0}

VARIABLE cut  \* the nodes that are cut, with their values

xvars == <<vars, cut>>

\* xlist_init, and lists that were filled before.
Init ==
  /\ key \in Inputs \cup {<<>>} /\ size = Len(key)
  /\ next = [x \in 0 .. size |-> IF x = size THEN ListHead ELSE x + 1]
  /\ prev = [x \in 0 .. size |-> IF x = ListHead THEN size ELSE x - 1]
  /\ AtRest /\ cut = <<>>

\* Bound: longer lists are only sorted.
Operates == pc = "idle" /\ Nodes \subseteq Addr /\ UNCHANGED <<pc, locals>>

\* An iterator of the list, the end included.
Iterators == Nodes \cup {ListHead}

With(f, x, v) == [y \in DOMAIN f \cup {x} |-> IF y = x THEN v ELSE f[y]]
Without(f, S) == Restrict(f, DOMAIN f \ S)

\* Mutant: the node before iter keeps its link.
ForwardOnly(x, iter) ==
  /\ next' = With(next, x, iter)
  /\ prev' = With([prev EXCEPT ![iter] = x], x, prev[iter])

\* Mutant: the node is linked behind iter.
LinkAfter(x, iter) ==
  /\ next' = With([next EXCEPT ![iter] = x], x, next[iter])
  /\ prev' = With([prev EXCEPT ![next[iter]] = x], x, iter)

\* The node x is linked before iter.
LinkBefore(x, iter) ==
  /\ next' = With([next EXCEPT ![prev[iter]] = x], x, iter)
  /\ prev' = With([prev EXCEPT ![iter] = x], x, prev[iter])

Insert(iter, x, v) ==
  /\ Operates /\ x \in Addr \ (Nodes \cup DOMAIN cut)
  /\ LinkBefore(x, iter)
  /\ key' = With(key, x, v) /\ size' = size + 1 /\ UNCHANGED cut

\* The links without the node x, which stay those of a node not freed.
NextWithout(x) == [next EXCEPT ![prev[x]] = next[x]]
PrevWithout(x) == [prev EXCEPT ![next[x]] = prev[x]]

Erase(x) ==
  /\ Operates
  /\ next' = Without(NextWithout(x), {x}) /\ prev' = Without(PrevWithout(x), {x})
  /\ key' = Without(key, {x}) /\ size' = size - 1 /\ UNCHANGED cut

Cut(x) ==
  /\ Operates
  /\ next' = NextWithout(x) /\ prev' = PrevWithout(x)
  /\ key' = Without(key, {x}) /\ size' = size - 1 /\ cut' = With(cut, x, key[x])

Paste(iter, x) ==
  /\ Operates /\ LinkBefore(x, iter)
  /\ key' = With(key, x, cut[x]) /\ size' = size + 1 /\ cut' = Without(cut, {x})

CutFree(x) ==
  /\ Operates
  /\ next' = Without(next, {x}) /\ prev' = Without(prev, {x})
  /\ cut' = Without(cut, {x}) /\ UNCHANGED input

\* Every node from the begin to the end is freed.
Clear ==
  /\ Operates /\ size # 0
  /\ LET freed == Run(next[ListHead])
     IN  /\ next' = [Without(next, freed) EXCEPT ![ListHead] = ListHead]
         /\ prev' = [Without(prev, freed) EXCEPT ![ListHead] = ListHead]
         /\ key' = Without(key, freed)
  /\ size' = 0 /\ UNCHANGED cut

Operation ==
  \/ \E iter \in Iterators :
       \/ \E x \in Addr, v \in Keys : Insert(iter, x, v)
       \/ \E x \in DOMAIN cut : Paste(iter, x)
  \/ \E x \in Nodes : Erase(x) \/ Cut(x)
  \/ \E x \in DOMAIN cut : CutFree(x)
  \/ Clear

Sort == (Begin \/ Sorting) /\ UNCHANGED cut

Next == Operation \/ Sort

Spec == Init /\ [][Next]_xvars /\ WF_xvars(Sorting /\ UNCHANGED cut)

-----------------------------------------------------------------------------
(***************************************************************************)
(* Between the calls the list is a circle through all its nodes that reads *)
(* the same in both directions, the counter agrees with it, and no link    *)
(* leads to a node that is cut or freed: what a loop over the list, or the *)
(* next operation at any iterator, relies on.                              *)
(***************************************************************************)
Linked ==
  pc = "idle" =>
    /\ \A x \in Iterators : next[x] \in Iterators /\ prev[next[x]] = x
    /\ Run(next[ListHead]) = Nodes
    /\ size = Cardinality(Nodes)

(***************************************************************************)
(* Seen from outside the list is a sequence of values: operations change   *)
(* one place of it, a value that is cut is kept, and a sort, whose steps   *)
(* are not seen, rearranges the values in order (ListSpec).                *)
(***************************************************************************)
Abstract == INSTANCE ListSpec WITH
  items <- IF pc \in {"idle", "done"} THEN Values ELSE before,
  kept <- [v \in Range(cut) |-> Cardinality({x \in DOMAIN cut : cut[x] = v})]

Implements == Abstract!Spec

\* How many values are before the iterator.
Offset(iter) ==
  LET p == Path(next, next[ListHead]) IN CHOOSE k \in DOMAIN p : p[k] = iter

(***************************************************************************)
(* Which place an operation changes: an insertion goes directly before the *)
(* given iterator, also at the begin, at the end and in an empty list, and *)
(* only the given node is taken out.                                       *)
(***************************************************************************)
AtIterator ==
  [][/\ \A iter \in Iterators :
          /\ \A x \in Addr, v \in Keys : Insert(iter, x, v) => Abstract!InsertAt(Offset(iter), v)
          /\ \A x \in DOMAIN cut : Paste(iter, x) => Abstract!InsertAt(Offset(iter), cut[x])
     /\ \A x \in Nodes : Erase(x) \/ Cut(x) => Abstract!RemoveAt(Offset(x) + 1)]_xvars

\* A sort that has begun returns.
Returns == pc # "idle" ~> pc = "idle"
=============================================================================
