------------------------------ MODULE MCXList ------------------------------
(* XList on three addresses, and the sort of longer lists: short ones in   *)
(* any order, and longer ones of two values.                               *)
EXTENDS XList

Lists(n, S) == UNION {[1 .. k -> S] : k \in 0 .. n}
SomeLists == Lists(4, 1 .. 4) \cup Lists(5, 1 .. 3) \cup Lists(9, 1 .. 2)
=============================================================================
