------------------------------ MODULE TextSpec ------------------------------
(***************************************************************************)
(* What xstring.h promises: a string of which parts are replaced.  XString *)
(* implements it in a buffer that grows.                                   *)
(***************************************************************************)
EXTENDS Integers, Sequences

CONSTANTS
  Char,  \* the characters of a string, without the terminator
  Texts  \* the strings that are put into it

VARIABLE str

Init == str \in Seq(Char)

\* The characters from p + 1 to q are replaced by s.
Splice(p, q, s) == str' = SubSeq(str, 1, p) \o s \o SubSeq(str, q + 1, Len(str))

Insert(pos, s) == Splice(pos, pos, s)
AssignAt(pos, s) == Splice(pos, Len(str), s)
Erase(pos, n) == pos + n <= Len(str) /\ Splice(pos, pos + n, <<>>)

Next ==
  \E pos \in 0 .. Len(str) :
    \/ \E s \in Texts : Insert(pos, s) \/ AssignAt(pos, s)
    \/ \E n \in 0 .. Len(str) : Erase(pos, n)

Spec == Init /\ [][Next]_str
=============================================================================
