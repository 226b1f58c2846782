----------------------------- MODULE MCXString -----------------------------
(* XString with two characters and short texts.                            *)
EXTENDS XString

UpToTwo == UNION {[1 .. k -> Char] : k \in 0 .. 2}
Small == {1, 3, 4}
=============================================================================
