------------------------------ MODULE MergeSort ------------------------------
(***************************************************************************)
(* xlist_msort (xlist.c), which puts the items of a run in the order of    *)
(* their paths: a bottom-up merge sort that works in the links of a        *)
(* circular doubly linked list.  While it runs, next ends in NULL, prev    *)
(* links the heads of the sorted runs still to be merged, and only the     *)
(* binary digits of a counter say how long those are.  One step is one     *)
(* node taken, one round of _merge_list, or one node linked back.  XList   *)
(* adds the other operations of the list.                                  *)
(***************************************************************************)
EXTENDS Integers, Sequences, FiniteSets

Null == -1
ListHead == 0

VARIABLES
  size,                \* the list's counter of its nodes
  key,                 \* the nodes on the list, with their values as cmp compares them
  next, prev,          \* the links
  pc,
  list, pending,       \* the nodes not yet taken; the latest run
  count, bits,
  a, b, tail, merged,  \* of _merge_list; a tail of Null is its local head
  temp,                \* the node linked back last
  compared,            \* history: calls of cmp, up to Bound + 1
  before               \* history: the values of the list when the sort began

input == <<size, key>>
links == <<next, prev>>
merging == <<a, b, tail, merged>>
locals == <<list, pending, count, bits, merging, temp, compared, before>>
vars == <<input, links, pc, locals>>

Nodes == DOMAIN key

Pow2[k \in Nat] == IF k = 0 THEN 1 ELSE 2 * Pow2[k - 1]

\* The smallest k with 2^k at least n.
CeilLog2(n) == CHOOSE k \in 0 .. n : Pow2[k] >= n /\ \A j \in 0 .. k - 1 : Pow2[j] < n
Bound == IF size = 0 THEN 0 ELSE size * CeilLog2(size) - size + 1

\* The nodes from x on along the links f, as a function of their distance.
Path(f, x) ==
  LET p[k \in 0 .. Cardinality(Nodes)] ==
        IF k = 0 THEN x ELSE IF p[k - 1] \in Nodes THEN f[p[k - 1]] ELSE Null
  IN  p

\* The values of the list from its begin to its end.
Values ==
  LET p == Path(next, next[ListHead])
      n == Cardinality({k \in DOMAIN p : p[k] \in Nodes})
  IN  [k \in 1 .. n |-> key[p[k - 1]]]

\* No sort is running.
AtRest ==
  /\ pc = "idle" /\ list = ListHead /\ pending = Null /\ count = 0 /\ bits = 0
  /\ a = Null /\ b = Null /\ tail = Null /\ merged = Null
  /\ temp = ListHead /\ compared = 0 /\ before = <<>>

Goto(l) == pc' = l

-----------------------------------------------------------------------------
(* Taking the nodes and folding equal runs.                                *)
Begin ==
  /\ pc = "idle" /\ next[ListHead] # prev[ListHead] /\ Goto("take")
  /\ list' = next[ListHead] /\ next' = [next EXCEPT ![prev[ListHead]] = Null]
  /\ before' = Values
  /\ UNCHANGED <<input, prev, pending, count, bits, merging, temp, compared>>

Take ==
  /\ pc = "take" /\ Goto("fold")
  /\ pending' = list /\ list' = next[list]
  /\ prev' = [prev EXCEPT ![list] = pending]
  /\ next' = [next EXCEPT ![list] = Null]
  /\ bits' = count /\ count' = count + 1
  /\ UNCHANGED <<input, merging, temp, compared, before>>

\* Merge the lists x and y.
Merge(x, y, l) ==
  Goto(l) /\ a' = x /\ b' = y /\ tail' = Null /\ merged' = Null

\* Mutant: runs are never folded.
NeverFolds(n) == FALSE

\* Whether the last two runs are of the same length.
Folds(n) == n % 2 = 1

Fold ==
  /\ pc = "fold"
  /\ \/ Folds(bits) /\ Merge(pending, prev[pending], "foldMerge") /\ UNCHANGED list
     \/ ~Folds(bits) /\ list # Null /\ Goto("take") /\ UNCHANGED <<list, merging>>
     \/ ~Folds(bits) /\ list = Null /\ Goto("rest") /\ list' = pending /\ UNCHANGED merging
  /\ UNCHANGED <<input, links, pending, count, bits, temp, compared, before>>

\* Mutant: only one pair of runs is folded for each node.
ShiftAway(n) == 0

Shift(n) == n \div 2

Folded ==
  /\ pc = "foldMerged" /\ Goto("fold")
  /\ prev' = [prev EXCEPT ![merged] = prev[prev[pending]]]
  /\ pending' = merged /\ bits' = Shift(bits)
  /\ UNCHANGED <<input, next, list, count, merging, temp, compared, before>>

-----------------------------------------------------------------------------
(* _merge_list.                                                            *)

\* Mutant: the comparison is the wrong way round.
Later(x, y) == key[x] >= key[y]

InOrder(x, y) == key[x] <= key[y]

\* The link that tail points to, set to x.
Put(x) ==
  IF tail = Null THEN merged' = x /\ next' = next
  ELSE merged' = merged /\ next' = [next EXCEPT ![tail] = x]

\* The node x, the last one of its list, and then the other list.
PutLast(x, y) ==
  IF tail = Null THEN merged' = x /\ next' = [next EXCEPT ![x] = y]
  ELSE merged' = merged /\ next' = [next EXCEPT ![tail] = x, ![x] = y]

MergeReturns(l) == pc' = IF l = "foldMerge" THEN "foldMerged" ELSE "restMerged"

Round ==
  /\ pc \in {"foldMerge", "restMerge"}
  /\ compared' = IF compared > Bound THEN compared ELSE compared + 1
  /\ LET x == IF InOrder(a, b) THEN a ELSE b
         y == IF InOrder(a, b) THEN b ELSE a
     IN  \/ /\ next[x] # Null /\ Put(x) /\ tail' = x
            /\ IF x = a THEN a' = next[x] /\ UNCHANGED b ELSE b' = next[x] /\ UNCHANGED a
            /\ UNCHANGED pc
         \/ /\ next[x] = Null /\ PutLast(x, y)
            /\ MergeReturns(pc) /\ UNCHANGED <<a, b, tail>>
  /\ UNCHANGED <<input, prev, list, pending, count, bits, temp, before>>

-----------------------------------------------------------------------------
(* Merging the runs that are left, and rebuilding prev.                    *)
Rest ==
  /\ pc = "rest"
  /\ \/ prev[pending] # Null /\ Merge(list, prev[pending], "restMerge") /\ UNCHANGED next
     \/ /\ prev[pending] = Null /\ Goto("relink")
        /\ next' = [next EXCEPT ![ListHead] = list] /\ UNCHANGED merging
  /\ UNCHANGED <<input, prev, list, pending, count, bits, temp, compared, before>>

\* Mutant: the loop does not go on to the run before.
RestMergedStays ==
  /\ pc = "restMerged" /\ Goto("rest")
  /\ list' = merged
  /\ UNCHANGED <<input, links, pending, count, bits, merging, temp, compared, before>>

RestMerged ==
  /\ pc = "restMerged" /\ Goto("rest")
  /\ list' = merged /\ pending' = prev[pending]
  /\ UNCHANGED <<input, links, count, bits, merging, temp, compared, before>>

Relink ==
  /\ pc = "relink"
  /\ \/ /\ list # Null /\ prev' = [prev EXCEPT ![list] = temp]
        /\ temp' = list /\ list' = next[list] /\ UNCHANGED <<next, pc>>
     \/ /\ list = Null /\ prev' = [prev EXCEPT ![ListHead] = temp]
        /\ next' = [next EXCEPT ![temp] = ListHead] /\ Goto("done") /\ UNCHANGED <<list, temp>>
  /\ UNCHANGED <<input, pending, count, bits, merging, compared, before>>

Returned ==
  /\ pc = "done" /\ Goto("idle")
  /\ list' = ListHead /\ pending' = Null /\ count' = 0 /\ bits' = 0
  /\ a' = Null /\ b' = Null /\ tail' = Null /\ merged' = Null
  /\ temp' = ListHead /\ compared' = 0 /\ before' = <<>>
  /\ UNCHANGED <<input, links>>

Sorting == Take \/ Fold \/ Folded \/ Round \/ Rest \/ RestMerged \/ Relink \/ Returned

-----------------------------------------------------------------------------
\* The nodes of the list that starts at x.
Run(x) == LET p == Path(next, x) IN {p[k] : k \in DOMAIN p} \cap Nodes

\* The heads of the runs below the latest one.
Below == LET p == Path(prev, prev[pending]) IN {p[k] : k \in DOMAIN p} \cap Nodes

(***************************************************************************)
(* When a node is about to be taken, the runs have the lengths that the    *)
(* ones among the binary digits of count stand for, the shortest latest:   *)
(* testing the digits is the same as comparing the lengths of two runs.    *)
(***************************************************************************)
RunsAreDigits ==
  pc = "take" /\ pending # Null =>
    LET runs == {pending} \cup Below
        Length(x) == CHOOSE k \in 1 .. size : Path(next, x)[k - 1] # Null /\ Path(next, x)[k] = Null
    IN  /\ {Length(x) : x \in runs}
             = {Pow2[k] : k \in {j \in 0 .. size : (count \div Pow2[j]) % 2 = 1}}
        /\ \A x \in runs : prev[x] # Null => Length(x) < Length(prev[x])

(***************************************************************************)
(* The sort takes at most as many comparisons as a balanced one, also for  *)
(* lengths that are no power of two, where runs of different length are    *)
(* merged at the end.                                                      *)
(***************************************************************************)
FewComparisons == compared <= Bound
=============================================================================
