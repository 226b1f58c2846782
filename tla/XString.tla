------------------------------- MODULE XString -------------------------------
(***************************************************************************)
(* The growing strings of xstring.h and xstring.c, on which the walk and   *)
(* the loops over the items build their paths: a block of memory, how much *)
(* of it is used and how much there is, with a terminator behind the text. *)
(* Any sequence of calls that passes the assertions of xstring.h is        *)
(* allowed.  The texts passed are not parts of the string itself.          *)
(***************************************************************************)
EXTENDS Integers, Sequences

CONSTANTS
  Char,        \* the characters of a string, without the terminator
  Texts,       \* the strings passed to the operations
  Capacities,  \* the capacities passed to xstr_init_ex
  MaxSize,     \* bound: size of the string
  Nul, Junk    \* the terminator, and a byte that was never written

ASSUME StringAssumption ==
  /\ Texts \subseteq Seq(Char) /\ <<>> \in Texts /\ \A c \in Char : <<c>> \in Texts
  /\ Capacities \subseteq Nat \ {0}
  /\ MaxSize \in Nat
  /\ Nul \notin Char /\ Junk \notin Char /\ Nul # Junk

VARIABLES
  data,            \* the memory, a function on 0 .. capacity - 1
  size, capacity,
  outside          \* history: whether memory outside of data was written

vars == <<data, size, capacity, outside>>

Byte == Char \cup {Nul, Junk}

-----------------------------------------------------------------------------
(* memcpy, memmove and realloc.                                            *)

At(d, i) == IF i \in DOMAIN d THEN d[i] ELSE Junk

\* The text s copied to offset i of d.
Copy(d, i, s) ==
  [k \in DOMAIN d |-> IF k \in i .. i + Len(s) - 1 THEN s[k - i + 1] ELSE d[k]]

\* n bytes of d moved from offset j to offset i.
Move(d, i, j, n) ==
  [k \in DOMAIN d |-> IF k \in i .. i + n - 1 THEN At(d, k - i + j) ELSE d[k]]

\* The capacity after __xstr_capacity_expand for n bytes in all.
Expanded(n) == IF 2 * capacity < n THEN n ELSE 2 * capacity

\* Mutant: the test forgets the terminator.
RoomForText(used, extra) ==
  IF used + extra > capacity THEN Expanded(used + extra + 1) ELSE capacity

\* The capacity after __xstr_ensure_capacity, with the given size.
Room(used, extra) ==
  IF used + extra + 1 > capacity THEN Expanded(used + extra + 1) ELSE capacity

\* The memory after __xstr_ensure_capacity.
Ensured(used, extra) ==
  [k \in 0 .. Room(used, extra) - 1 |-> IF k < capacity THEN data[k] ELSE Junk]

\* The memory becomes d, which is terminated behind n bytes.
Becomes(d, n) ==
  /\ data' = Copy(d, n, <<Nul>>) /\ size' = n
  /\ outside' = (outside \/ n \notin DOMAIN d)

-----------------------------------------------------------------------------
Init ==
  /\ outside = FALSE
  /\ \/ /\ capacity \in Capacities /\ size = 0
        /\ data = Copy([k \in 0 .. capacity - 1 |-> Junk], 0, <<Nul>>)
     \/ \E s \in Texts :
          /\ capacity = Len(s) + 1 /\ size = Len(s)
          /\ data = Copy([k \in 0 .. Len(s) |-> Nul], 0, s)

\* What xstr_append_ex does to a string of the given size.
Appended(used, s) ==
  /\ used + Len(s) <= MaxSize
  /\ capacity' = Room(used, Len(s))
  /\ Becomes(Copy(Ensured(used, Len(s)), used, s), used + Len(s))

AppendEx(s) == Appended(size, s)

AssignAt(pos, s) == pos <= size /\ Appended(pos, s)

\* Mutant: the text is copied before the rest is moved.
InsertThenMove(pos, s) ==
  /\ pos <= size /\ size + Len(s) <= MaxSize
  /\ capacity' = Room(size, Len(s))
  /\ LET copied == Copy(Ensured(size, Len(s)), pos, s)
     IN  Becomes(Move(copied, pos + Len(s), pos, size - pos), size + Len(s))

Insert(pos, s) ==
  /\ pos <= size /\ size + Len(s) <= MaxSize
  /\ capacity' = Room(size, Len(s))
  /\ LET moved == Move(Ensured(size, Len(s)), pos + Len(s), pos, size - pos)
     IN  Becomes(Copy(moved, pos, s), size + Len(s))

Erase(pos, n) ==
  /\ pos + n <= size
  /\ Becomes(Move(data, pos, pos + n, size - n - pos), size - n)
  /\ UNCHANGED capacity

EraseAfter(pos) ==
  pos <= size /\ Becomes(data, pos) /\ UNCHANGED capacity

PushBack(c) ==
  /\ size < MaxSize /\ capacity' = Room(size, 1)
  /\ Becomes(Copy(Ensured(size, 1), size, <<c>>), size + 1)

PopBack ==
  size > 0 /\ Becomes(data, size - 1) /\ UNCHANGED capacity

Next ==
  \/ \E s \in Texts : AppendEx(s)
  \/ \E s \in Texts, pos \in 0 .. size : AssignAt(pos, s) \/ Insert(pos, s)
  \/ \E pos, n \in 0 .. size : Erase(pos, n)
  \/ \E pos \in 0 .. size : EraseAfter(pos)
  \/ \E c \in Char : PushBack(c)
  \/ PopBack

Spec == Init /\ [][Next]_vars

-----------------------------------------------------------------------------
TypeOK ==
  /\ capacity \in Nat \ {0} /\ size \in Nat
  /\ data \in [0 .. capacity - 1 -> Byte]
  /\ outside \in BOOLEAN

(***************************************************************************)
(* No call writes outside of the memory: the test in __xstr_ensure_capacity *)
(* and what it asks __xstr_capacity_expand for agree on the terminator, at *)
(* every size and capacity a sequence of calls leads to.                   *)
(***************************************************************************)
InBounds == ~outside

(***************************************************************************)
(* The data is a C string of the given size, with nothing in it that was   *)
(* never written: what xstr_data returns may be passed on as a path.       *)
(***************************************************************************)
IsCString ==
  /\ size < capacity /\ data[size] = Nul
  /\ \A i \in 0 .. size - 1 : data[i] \in Char

Contents == [i \in 1 .. size |-> data[i - 1]]

Text == INSTANCE TextSpec WITH str <- Contents

(***************************************************************************)
(* Whatever was in the memory before and however often it grew, the text   *)
(* changes as the comments of the operations say: in spite of moves of     *)
(* overlapping parts, and of texts put over the end of the old one.        *)
(***************************************************************************)
Implements == Text!Spec
=============================================================================
