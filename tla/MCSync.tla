------------------------------- MODULE MCSync -------------------------------
(* Sync on small trees; names are numbers, in the order of strcmp.         *)
EXTENDS Sync

\* One regular file or link.
FileParent == <<Base>>
FileAbove == <<{}>>
FileKinds == <<{"REG", "LNK"}>>

\* a, which may be a directory or a file; a/x, a file or a link.
TreeParent == <<Base, 1>>
TreeAbove == <<{}, {1}>>
TreeKinds == <<{"DIR", "REG"}, {"REG", "LNK"}>>

\* Nothing is ignored; or any one of the two names.
NoNames == {{}}
AnyOneName == {{}, {1}, {2}}

\* A file dated one second before 1970.
Before1970 == -1

UpAndDown == BOOLEAN
=============================================================================
