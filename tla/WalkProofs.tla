----------------------------- MODULE WalkProofs -----------------------------
(***************************************************************************)
(* First the buffer: for all texts and capacities, and strings of any      *)
(* size, the strings of xstring.h stay within their memory, are            *)
(* terminated, and implement the replacement of parts of a text.  Each     *)
(* call is shown to leave a memory in which the characters from p + 1 to q *)
(* are replaced by some text.                                              *)
(*                                                                         *)
(* Then the walk that works in it, for every tree, with directories nested *)
(* however deep and links between them, and for every list of names to     *)
(* leave out: the buffer holds a C string within its memory whenever it is *)
(* passed on as a path, it leads to the directory being read whenever the  *)
(* next entry is asked for, and the other side is asked for each item by   *)
(* its name.  The invariant says of all the calls of the walk that are     *)
(* still open, not only of the last one, that their offset lies in the     *)
(* text and what the text up to there leads to.                            *)
(*                                                                         *)
(* Last what the walk lists: nothing but what can be reached, and all of   *)
(* that unless a call failed.  Two things have to be shown of trees first: *)
(* the system finds a directory at a path exactly if what it finds is one  *)
(* of the tree's, and every set of paths closed under the entries of the   *)
(* directories in it holds all that can be reached.                        *)
(***************************************************************************)
EXTENDS Walk, SequenceTheorems, WellFoundedInduction, TLAPS

-----------------------------------------------------------------------------
(* The buffer.                                                             *)

Inv == TypeOK /\ InBounds /\ IsCString

Spliced(str, p, q, s) == SubSeq(str, 1, p) \o s \o SubSeq(str, q + 1, Len(str))

\* The same, character by character.
IsSpliced(t, str, p, q, s) ==
  /\ Len(t) = p + Len(s) + Len(str) - q
  /\ \A i \in 1 .. p : t[i] = str[i]
  /\ \A i \in 1 .. Len(s) : t[p + i] = s[i]
  /\ \A i \in 1 .. Len(str) - q : t[p + Len(s) + i] = str[q + i]

\* The two agree.
LEMMA Splicing ==
  ASSUME NEW S, NEW str \in Seq(S), NEW s \in Seq(S), NEW t \in Seq(S),
         NEW p \in 0 .. Len(str), NEW q \in p .. Len(str), IsSpliced(t, str, p, q, s)
  PROVE  t = Spliced(str, p, q, s)
<1> USE DEF IsSpliced
<1> DEFINE l == SubSeq(str, 1, p)
           r == SubSeq(str, q + 1, Len(str))
<1>1. Len(str) \in Nat /\ Len(s) \in Nat
  BY LenProperties
<1>2. /\ l \in Seq(S) /\ Len(l) = p
      /\ \A i \in 1 .. p : l[i] = str[i]
  <2>1. \A i \in 1 .. p : str[i] \in S
    BY <1>1, ElementOfSeq
  <2>2. 1 \in Int /\ p \in Int
    BY <1>1
  <2>3. /\ l \in Seq(S) /\ Len(l) = IF 1 <= p THEN p - 1 + 1 ELSE 0
        /\ \A i \in 1 .. p - 1 + 1 : l[i] = str[1 + i - 1]
    BY <2>1, <2>2, SubSeqProperties
  <2>4. QED
    BY <1>1, <2>3
<1>3. /\ r \in Seq(S) /\ Len(r) = Len(str) - q
      /\ \A i \in 1 .. Len(str) - q : r[i] = str[q + i]
  <2>1. \A i \in q + 1 .. Len(str) : str[i] \in S
    BY <1>1, ElementOfSeq
  <2>2. q + 1 \in Int /\ Len(str) \in Int
    BY <1>1
  <2>3. /\ r \in Seq(S)
        /\ Len(r) = IF q + 1 <= Len(str) THEN Len(str) - (q + 1) + 1 ELSE 0
        /\ \A i \in 1 .. Len(str) - (q + 1) + 1 : r[i] = str[q + 1 + i - 1]
    BY <2>1, <2>2, SubSeqProperties
  <2>4. QED
    BY <1>1, <2>3
<1> HIDE DEF l, r
<1> DEFINE ls == l \o s
<1>4. /\ ls \in Seq(S) /\ Len(ls) = p + Len(s)
      /\ \A i \in 1 .. p + Len(s) : ls[i] = IF i <= p THEN l[i] ELSE s[i - p]
  BY <1>2, ConcatProperties
<1> HIDE DEF ls
<1>5. /\ ls \o r \in Seq(S) /\ Len(ls \o r) = Len(ls) + Len(r)
      /\ \A i \in 1 .. Len(ls) + Len(r) :
           (ls \o r)[i] = IF i <= Len(ls) THEN ls[i] ELSE r[i - Len(ls)]
  BY <1>3, <1>4, ConcatProperties
<1>6. Len(t) = Len(ls \o r) /\ Len(t) \in Nat /\ p \in Nat /\ q \in Nat
  BY <1>1, <1>3, <1>4, <1>5
<1>7. ASSUME NEW i \in 1 .. Len(t) PROVE t[i] = (ls \o r)[i]
  <2>1. (ls \o r)[i] = IF i <= Len(ls) THEN ls[i] ELSE r[i - Len(ls)]
    BY <1>5, <1>6
  <2>2. CASE i <= p
    <3>1. i \in 1 .. p /\ i \in 1 .. p + Len(s) /\ i <= Len(ls)
      BY <1>1, <1>4, <1>6, <2>2
    <3>2. t[i] = str[i] /\ l[i] = str[i] /\ ls[i] = l[i]
      BY <1>2, <1>4, <2>2, <3>1
    <3>3. QED
      BY <2>1, <3>1, <3>2
  <2>3. CASE p < i /\ i <= p + Len(s)
    <3>1. i - p \in 1 .. Len(s) /\ p + (i - p) = i
      BY <1>1, <1>6, <2>3
    <3>2. t[i] = s[i - p]
      BY <3>1
    <3>3. QED
      BY <1>1, <1>4, <1>6, <2>1, <2>3, <3>2
  <2>4. CASE p + Len(s) < i
    <3> DEFINE k == i - (p + Len(s))
    <3>1. k \in 1 .. Len(str) - q /\ p + Len(s) + k = i
      BY <1>1, <1>6, <2>4
    <3>2. t[i] = str[q + k] /\ r[k] = str[q + k]
      BY <1>3, <3>1
    <3>3. (ls \o r)[i] = r[k]
      BY <1>1, <1>4, <1>6, <2>1, <2>4
    <3>4. QED
      BY <3>2, <3>3
  <2>5. QED
    BY <1>1, <1>6, <2>2, <2>3, <2>4
<1>8. t = ls \o r
  BY <1>5, <1>6, <1>7, SeqEqual
<1>9. QED
  BY <1>8 DEF ls, l, r, Spliced

\* A function on 1 .. n is a sequence of length n.
LEMMA IndexedSeq ==
  ASSUME NEW S, NEW n \in Nat, NEW f \in [1 .. n -> S]
  PROVE  f \in Seq(S) /\ Len(f) = n
<1>1. f \in Seq(S)
  BY SeqDef
<1>2. Len(f) \in Nat /\ 1 .. Len(f) = 1 .. n
  BY <1>1, LenProperties
<1>3. QED
  BY <1>1, <1>2

(***************************************************************************)
(* The core of every call: a memory d of cap bytes that starts with the    *)
(* first p characters, the text s and the characters from q + 1 on.        *)
(***************************************************************************)
LEMMA Rebuilt ==
  ASSUME Inv, NEW p \in 0 .. size, NEW q \in p .. size, NEW s \in Seq(Char),
         NEW cap \in Nat, NEW d \in [0 .. cap - 1 -> Byte], NEW n,
         n = p + Len(s) + size - q, n < cap, capacity' = cap, Becomes(d, n),
         \A i \in 0 .. p - 1 : d[i] = data[i],
         \A i \in 1 .. Len(s) : d[p + i - 1] = s[i],
         \A i \in 1 .. size - q : d[p + Len(s) + i - 1] = data[q + i - 1]
  PROVE  Inv' /\ Contents' = Spliced(Contents, p, q, s)
<1>1. /\ size \in Nat /\ Len(s) \in Nat /\ n \in Nat /\ p \in Nat /\ q \in Nat
      /\ \A i \in 1 .. Len(s) : s[i] \in Char
  BY LenProperties, ElementOfSeq DEF Inv, TypeOK
<1>2. \A i \in 0 .. n - 1 : d[i] \in Char
  <2> SUFFICES ASSUME NEW i \in 0 .. n - 1 PROVE d[i] \in Char
    OBVIOUS
  <2>1. \A j \in 0 .. size - 1 : data[j] \in Char
    BY DEF Inv, IsCString
  <2>2. CASE i < p
    <3>1. i \in 0 .. p - 1 /\ i \in 0 .. size - 1
      BY <1>1, <2>2
    <3>2. QED
      BY <2>1, <3>1
  <2>3. CASE p <= i /\ i < p + Len(s)
    <3>1. i - p + 1 \in 1 .. Len(s) /\ p + (i - p + 1) - 1 = i
      BY <1>1, <2>3
    <3>2. d[i] = s[i - p + 1]
      BY <3>1
    <3>3. QED
      BY <1>1, <3>1, <3>2
  <2>4. CASE p + Len(s) <= i
    <3> DEFINE k == i - (p + Len(s)) + 1
    <3>1. k \in 1 .. size - q /\ p + Len(s) + k - 1 = i /\ q + k - 1 \in 0 .. size - 1
      BY <1>1, <2>4
    <3>2. d[i] = data[q + k - 1]
      BY <3>1
    <3>3. QED
      BY <2>1, <3>1, <3>2
  <2>5. QED
    BY <1>1, <2>2, <2>3, <2>4
<1>3. Len(<<Nul>>) = 1 /\ <<Nul>>[1] = Nul /\ Nul \in Byte
  BY DEF Byte
<1>4. /\ data' \in [0 .. cap - 1 -> Byte] /\ size' = n /\ data'[n] = Nul
      /\ \A i \in 0 .. n - 1 : data'[i] = d[i]
      /\ outside' = FALSE
  <2>1. data' = [k \in 0 .. cap - 1 |-> IF k \in n .. n THEN <<Nul>>[k - n + 1] ELSE d[k]]
    <3>1. DOMAIN d = 0 .. cap - 1 /\ n + Len(<<Nul>>) - 1 = n
      BY <1>1, <1>3
    <3>2. data' = [k \in DOMAIN d |->
                     IF k \in n .. n + Len(<<Nul>>) - 1 THEN <<Nul>>[k - n + 1] ELSE d[k]]
      BY DEF Becomes, Copy
    <3>3. QED
      BY <3>1, <3>2
  <2>2. \A k \in n .. n : k = n /\ k - n + 1 = 1
    BY <1>1
  <2>3. data' = [k \in 0 .. cap - 1 |-> IF k = n THEN Nul ELSE d[k]]
    BY <1>1, <1>3, <2>1, <2>2
  <2>4. n \in 0 .. cap - 1 /\ outside = FALSE
    BY <1>1 DEF Inv, TypeOK, InBounds
  <2>5. size' = n /\ outside' = FALSE
    BY <2>4 DEF Becomes
  <2>6. /\ data' \in [0 .. cap - 1 -> Byte] /\ data'[n] = Nul
        /\ \A i \in 0 .. n - 1 : data'[i] = d[i]
    BY <1>1, <1>3, <2>3, <2>4
  <2>7. QED
    BY <2>5, <2>6
<1>5. Inv'
  <2>1. capacity' \in Nat \ {0} /\ size' \in Nat /\ size' < capacity'
    BY <1>1, <1>4
  <2>2. \A i \in 0 .. size' - 1 : data'[i] \in Char
    BY <1>2, <1>4
  <2>3. QED
    BY <1>4, <2>1, <2>2 DEF Inv, TypeOK, InBounds, IsCString
<1>6. /\ Contents \in Seq(Char) /\ Len(Contents) = size
      /\ \A i \in 1 .. size : Contents[i] = data[i - 1]
  <2>1. Contents \in [1 .. size -> Char]
    BY <1>1 DEF Contents, Inv, IsCString
  <2>2. QED
    BY <1>1, <2>1, IndexedSeq DEF Contents
<1> DEFINE t == Contents'
           c == Contents
<1>7. t \in Seq(Char) /\ Len(t) = n /\ \A i \in 1 .. n : t[i] = d[i - 1]
  <2>1. t = [i \in 1 .. n |-> data'[i - 1]]
    BY <1>4 DEF Contents
  <2> HIDE DEF t
  <2>2. \A i \in 1 .. n : i - 1 \in 0 .. n - 1
    BY <1>1
  <2>3. \A i \in 1 .. n : t[i] = d[i - 1] /\ d[i - 1] \in Char
    <3> SUFFICES ASSUME NEW i \in 1 .. n PROVE t[i] = d[i - 1] /\ d[i - 1] \in Char
      OBVIOUS
    <3>1. i - 1 \in 0 .. n - 1 /\ t[i] = data'[i - 1]
      BY <2>1, <2>2
    <3>2. QED
      BY <1>2, <1>4, <3>1
  <2>4. t \in [1 .. n -> Char]
    BY <2>1, <2>3
  <2>5. QED
    <3>1. n \in Nat
      BY <1>1
    <3>2. t \in Seq(Char) /\ Len(t) = n
      BY <2>4, <3>1, IndexedSeq
    <3>3. QED
      BY <2>3, <3>2
<1>8. c \in Seq(Char) /\ Len(c) = size /\ \A i \in 1 .. size : c[i] = data[i - 1]
  BY <1>6
<1> HIDE DEF t, c
<1>9. \A i \in 1 .. p : t[i] = c[i]
  <2> SUFFICES ASSUME NEW i \in 1 .. p PROVE t[i] = c[i]
    OBVIOUS
  <2>1. i \in 1 .. n /\ i \in 1 .. size /\ i - 1 \in 0 .. p - 1
    BY <1>1
  <2>2. QED
    BY <1>7, <1>8, <2>1
<1>10. \A i \in 1 .. Len(s) : t[p + i] = s[i]
  <2> SUFFICES ASSUME NEW i \in 1 .. Len(s) PROVE t[p + i] = s[i]
    OBVIOUS
  <2>1. p + i \in 1 .. n
    BY <1>1
  <2>2. t[p + i] = d[p + i - 1]
    BY <1>7, <2>1
  <2>3. d[p + i - 1] = s[i]
    OBVIOUS
  <2>4. QED
    BY <2>2, <2>3
<1>11. \A i \in 1 .. size - q : t[p + Len(s) + i] = c[q + i]
  <2> SUFFICES ASSUME NEW i \in 1 .. size - q PROVE t[p + Len(s) + i] = c[q + i]
    OBVIOUS
  <2>1. p + Len(s) + i \in 1 .. n /\ q + i \in 1 .. size
    BY <1>1
  <2>2. t[p + Len(s) + i] = d[p + Len(s) + i - 1] /\ c[q + i] = data[q + i - 1]
    BY <1>7, <1>8, <2>1
  <2>3. d[p + Len(s) + i - 1] = data[q + i - 1]
    OBVIOUS
  <2>4. QED
    BY <2>2, <2>3
<1>12. t = Spliced(c, p, q, s)
  <2>1. p \in 0 .. Len(c) /\ q \in p .. Len(c) /\ Len(t) = p + Len(s) + Len(c) - q
    BY <1>1, <1>7, <1>8
  <2>2. \A i \in 1 .. Len(c) - q : t[p + Len(s) + i] = c[q + i]
    BY <1>8, <1>11
  <2>3. IsSpliced(t, c, p, q, s)
    BY <1>9, <1>10, <2>1, <2>2 DEF IsSpliced
  <2>4. QED
    <3>1. t \in Seq(Char) /\ c \in Seq(Char)
      BY <1>7, <1>8
    <3>2. QED
      BY <2>3, <2>1, <3>1, Splicing
<1>13. QED
  BY <1>5, <1>12 DEF t, c

-----------------------------------------------------------------------------
(* What memcpy, memmove and __xstr_ensure_capacity leave.                  *)

\* memcpy of a text that fits.
LEMMA Copied ==
  ASSUME NEW cap \in Nat, NEW d \in [0 .. cap - 1 -> Byte], NEW i \in Nat,
         NEW s \in Seq(Char), i + Len(s) <= cap
  PROVE  /\ Copy(d, i, s) \in [0 .. cap - 1 -> Byte]
         /\ \A k \in 1 .. Len(s) : Copy(d, i, s)[i + k - 1] = s[k]
         /\ \A k \in 0 .. cap - 1 :
              k < i \/ i + Len(s) <= k => Copy(d, i, s)[k] = d[k]
<1>1. Len(s) \in Nat /\ \A k \in 1 .. Len(s) : s[k] \in Byte
  BY LenProperties, ElementOfSeq DEF Byte
<1>2. Copy(d, i, s) = [k \in 0 .. cap - 1 |->
                         IF k \in i .. i + Len(s) - 1 THEN s[k - i + 1] ELSE d[k]]
  BY DEF Copy
<1>3. \A k \in i .. i + Len(s) - 1 : k - i + 1 \in 1 .. Len(s)
  BY <1>1
<1>4. Copy(d, i, s) \in [0 .. cap - 1 -> Byte]
  BY <1>1, <1>2, <1>3
<1>5. ASSUME NEW k \in 1 .. Len(s) PROVE Copy(d, i, s)[i + k - 1] = s[k]
  <2>1. /\ i + k - 1 \in 0 .. cap - 1 /\ i + k - 1 \in i .. i + Len(s) - 1
        /\ i + k - 1 - i + 1 = k
    BY <1>1
  <2>2. QED
    BY <1>2, <2>1
<1>6. ASSUME NEW k \in 0 .. cap - 1, k < i \/ i + Len(s) <= k
      PROVE  Copy(d, i, s)[k] = d[k]
  <2>1. k \notin i .. i + Len(s) - 1
    BY <1>1, <1>6
  <2>2. QED
    BY <1>2, <2>1
<1>7. QED
  BY <1>4, <1>5, <1>6

\* m is a memory d of cap bytes in which n bytes were moved from j to i.
IsMoved(m, d, cap, i, j, n) ==
  /\ m \in [0 .. cap - 1 -> Byte]
  /\ \A k \in 1 .. n : m[i + k - 1] = d[j + k - 1]
  /\ \A k \in 0 .. cap - 1 : k < i => m[k] = d[k]

\* memmove within the memory.
LEMMA Moved ==
  ASSUME NEW cap \in Nat, NEW d \in [0 .. cap - 1 -> Byte],
         NEW i \in Nat, NEW j \in Nat, NEW n \in Nat, i + n <= cap, j + n <= cap
  PROVE  IsMoved(Move(d, i, j, n), d, cap, i, j, n)
<1>1. Move(d, i, j, n) = [k \in 0 .. cap - 1 |->
                            IF k \in i .. i + n - 1 THEN At(d, k - i + j) ELSE d[k]]
  BY DEF Move
<1>2. \A k : At(d, k) \in Byte
  BY DEF At, Byte
<1>3. Move(d, i, j, n) \in [0 .. cap - 1 -> Byte]
  BY <1>1, <1>2
<1>4. ASSUME NEW k \in 1 .. n PROVE Move(d, i, j, n)[i + k - 1] = d[j + k - 1]
  <2>1. /\ i + k - 1 \in 0 .. cap - 1 /\ i + k - 1 \in i .. i + n - 1
        /\ i + k - 1 - i + j = j + k - 1 /\ j + k - 1 \in 0 .. cap - 1
    OBVIOUS
  <2>2. At(d, j + k - 1) = d[j + k - 1]
    BY <2>1 DEF At
  <2>3. QED
    BY <1>1, <2>1, <2>2
<1>5. ASSUME NEW k \in 0 .. cap - 1, k < i PROVE Move(d, i, j, n)[k] = d[k]
  <2>1. k \notin i .. i + n - 1
    BY <1>5
  <2>2. QED
    BY <1>1, <2>1
<1>6. QED
  BY <1>3, <1>4, <1>5 DEF IsMoved

\* There is room for the text and its terminator, and the data is still there.
LEMMA EnsuredRoom ==
  ASSUME Inv, NEW used \in 0 .. size, NEW extra \in Nat
  PROVE  /\ Room(used, extra) \in Nat /\ used + extra < Room(used, extra)
         /\ Ensured(used, extra) \in [0 .. Room(used, extra) - 1 -> Byte]
         /\ \A k \in 0 .. size - 1 :
              k \in 0 .. Room(used, extra) - 1 /\ Ensured(used, extra)[k] = data[k]
<1>1. /\ size \in Nat /\ capacity \in Nat /\ size < capacity /\ used \in Nat
      /\ data \in [0 .. capacity - 1 -> Byte] /\ Junk \in Byte
  BY DEF Inv, TypeOK, IsCString, Byte
<1>2. /\ Room(used, extra) \in Nat /\ used + extra < Room(used, extra)
      /\ capacity <= Room(used, extra)
  BY <1>1 DEF Room, Expanded
<1>3. Ensured(used, extra) \in [0 .. Room(used, extra) - 1 -> Byte]
  <2>1. \A k \in 0 .. Room(used, extra) - 1 : k < capacity => k \in 0 .. capacity - 1
    BY <1>1, <1>2
  <2>2. QED
    BY <1>1, <2>1 DEF Ensured
<1>4. ASSUME NEW k \in 0 .. size - 1
      PROVE  k \in 0 .. Room(used, extra) - 1 /\ Ensured(used, extra)[k] = data[k]
  <2>1. k \in 0 .. Room(used, extra) - 1 /\ k < capacity
    BY <1>1, <1>2
  <2>2. QED
    BY <2>1 DEF Ensured
<1>5. QED
  BY <1>2, <1>3, <1>4

-----------------------------------------------------------------------------
(* What the calls leave.                                                   *)

\* xstr_append_ex on a string of which used characters are left.
LEMMA AppendedSplices ==
  ASSUME Inv, NEW used \in 0 .. size, NEW s \in Seq(Char), Appended(used, s)
  PROVE  Inv' /\ Contents' = Spliced(Contents, used, size, s)
<1> DEFINE cap == Room(used, Len(s))
           e == Ensured(used, Len(s))
           d == Copy(e, used, s)
           n == used + Len(s)
<1>1. size \in Nat /\ Len(s) \in Nat /\ used \in Nat
  BY LenProperties DEF Inv, TypeOK
<1>2. /\ cap \in Nat /\ n < cap /\ e \in [0 .. cap - 1 -> Byte]
      /\ \A k \in 0 .. size - 1 : k \in 0 .. cap - 1 /\ e[k] = data[k]
  BY <1>1, EnsuredRoom
<1>3. capacity' = cap /\ Becomes(d, n)
  BY DEF Appended
<1> HIDE DEF cap, e
<1>4. /\ d \in [0 .. cap - 1 -> Byte]
      /\ \A k \in 1 .. Len(s) : d[used + k - 1] = s[k]
      /\ \A k \in 0 .. cap - 1 : k < used \/ used + Len(s) <= k => d[k] = e[k]
  <2>1. used + Len(s) <= cap
    BY <1>1, <1>2
  <2>2. QED
    BY <1>1, <1>2, <2>1, Copied
<1> HIDE DEF d
<1>5. \A i \in 0 .. used - 1 : d[i] = data[i]
  <2> SUFFICES ASSUME NEW i \in 0 .. used - 1 PROVE d[i] = data[i]
    OBVIOUS
  <2>1. i \in 0 .. size - 1 /\ i < used
    BY <1>1
  <2>2. QED
    BY <1>2, <1>4, <2>1
<1>6. size \in used .. size /\ n = used + Len(s) + size - size
  BY <1>1
<1>7. \A i \in 1 .. size - size : d[used + Len(s) + i - 1] = data[size + i - 1]
  BY <1>1
<1> HIDE DEF n
<1>8. QED
  BY <1>2, <1>3, <1>4, <1>5, <1>6, <1>7, Rebuilt

\* xstr_insert_ex moves what is behind the place and copies the text into it.
LEMMA InsertSplices ==
  ASSUME Inv, NEW pos \in 0 .. size, NEW s \in Seq(Char), Insert(pos, s)
  PROVE  Inv' /\ Contents' = Spliced(Contents, pos, pos, s)
<1> DEFINE cap == Room(size, Len(s))
           e == Ensured(size, Len(s))
           m == Move(e, pos + Len(s), pos, size - pos)
           d == Copy(m, pos, s)
           n == size + Len(s)
<1>1. size \in Nat /\ Len(s) \in Nat /\ pos \in Nat /\ size \in 0 .. size
  BY LenProperties DEF Inv, TypeOK
<1>2. /\ cap \in Nat /\ n < cap /\ e \in [0 .. cap - 1 -> Byte]
      /\ \A k \in 0 .. size - 1 : k \in 0 .. cap - 1 /\ e[k] = data[k]
  BY <1>1, EnsuredRoom
<1>3. capacity' = cap /\ Becomes(d, n)
  BY DEF Insert
<1> HIDE DEF cap, e
<1>4. /\ m \in [0 .. cap - 1 -> Byte]
      /\ \A k \in 1 .. size - pos : m[pos + Len(s) + k - 1] = e[pos + k - 1]
      /\ \A k \in 0 .. cap - 1 : k < pos + Len(s) => m[k] = e[k]
  <2>1. /\ pos + Len(s) + (size - pos) <= cap /\ pos + (size - pos) <= cap
        /\ size - pos \in Nat /\ pos + Len(s) \in Nat
    BY <1>1, <1>2
  <2>2. IsMoved(m, e, cap, pos + Len(s), pos, size - pos)
    BY <1>1, <1>2, <2>1, Moved
  <2> HIDE DEF m
  <2>3. QED
    BY <2>2 DEF IsMoved
<1> HIDE DEF m
<1>5. /\ d \in [0 .. cap - 1 -> Byte]
      /\ \A k \in 1 .. Len(s) : d[pos + k - 1] = s[k]
      /\ \A k \in 0 .. cap - 1 : k < pos \/ pos + Len(s) <= k => d[k] = m[k]
  <2>1. pos + Len(s) <= cap
    BY <1>1, <1>2
  <2>2. QED
    BY <1>1, <1>2, <1>4, <2>1, Copied
<1> HIDE DEF d
<1>6. \A i \in 0 .. pos - 1 : d[i] = data[i]
  <2> SUFFICES ASSUME NEW i \in 0 .. pos - 1 PROVE d[i] = data[i]
    OBVIOUS
  <2>1. i \in 0 .. size - 1 /\ i < pos /\ i < pos + Len(s)
    BY <1>1
  <2>2. QED
    BY <1>2, <1>4, <1>5, <2>1
<1>7. \A i \in 1 .. size - pos : d[pos + Len(s) + i - 1] = data[pos + i - 1]
  <2> SUFFICES ASSUME NEW i \in 1 .. size - pos
               PROVE  d[pos + Len(s) + i - 1] = data[pos + i - 1]
    OBVIOUS
  <2>1. /\ pos + Len(s) + i - 1 \in 0 .. cap - 1 /\ pos + Len(s) <= pos + Len(s) + i - 1
        /\ pos + i - 1 \in 0 .. size - 1
    BY <1>1, <1>2
  <2>2. d[pos + Len(s) + i - 1] = m[pos + Len(s) + i - 1]
    BY <1>5, <2>1
  <2>3. m[pos + Len(s) + i - 1] = e[pos + i - 1]
    BY <1>4
  <2>4. QED
    BY <1>2, <2>1, <2>2, <2>3
<1>8. pos \in pos .. size /\ n = pos + Len(s) + size - pos
  BY <1>1
<1> HIDE DEF n
<1>9. QED
  BY <1>2, <1>3, <1>5, <1>6, <1>7, <1>8, Rebuilt

\* xstr_erase moves what is behind the characters.
LEMMA EraseSplices ==
  ASSUME Inv, NEW pos \in 0 .. size, NEW n \in 0 .. size, Erase(pos, n)
  PROVE  Inv' /\ Contents' = Spliced(Contents, pos, pos + n, <<>>)
<1> DEFINE d == Move(data, pos, pos + n, size - n - pos)
<1>1. /\ size \in Nat /\ pos \in Nat /\ n \in Nat /\ pos + n <= size
      /\ capacity \in Nat /\ size < capacity
      /\ data \in [0 .. capacity - 1 -> Byte]
  BY DEF Inv, TypeOK, IsCString, Erase
<1>2. capacity' = capacity /\ Becomes(d, size - n)
  BY DEF Erase
<1>3. /\ d \in [0 .. capacity - 1 -> Byte]
      /\ \A k \in 1 .. size - n - pos : d[pos + k - 1] = data[pos + n + k - 1]
      /\ \A k \in 0 .. capacity - 1 : k < pos => d[k] = data[k]
  <2>1. /\ size - n - pos \in Nat /\ pos + n \in Nat
        /\ pos + (size - n - pos) <= capacity /\ pos + n + (size - n - pos) <= capacity
    BY <1>1
  <2>2. IsMoved(d, data, capacity, pos, pos + n, size - n - pos)
    BY <1>1, <2>1, Moved
  <2> HIDE DEF d
  <2>3. QED
    BY <2>2 DEF IsMoved
<1> HIDE DEF d
<1>4. <<>> \in Seq(Char) /\ Len(<<>>) = 0
  OBVIOUS
<1>5. \A i \in 0 .. pos - 1 : d[i] = data[i]
  BY <1>1, <1>3
<1>6. \A i \in 1 .. size - (pos + n) : d[pos + 0 + i - 1] = data[pos + n + i - 1]
  BY <1>1, <1>3
<1> DEFINE q == pos + n
           z == size - n
<1>7. q \in pos .. size /\ z = pos + 0 + size - q /\ z < capacity
  BY <1>1
<1>8. Becomes(d, z) /\ \A i \in 1 .. size - q : d[pos + 0 + i - 1] = data[q + i - 1]
  BY <1>2, <1>6
<1>9. \A i \in 1 .. Len(<<>>) : d[pos + i - 1] = <<>>[i]
  BY <1>4
<1> HIDE DEF q, z
<1>10. Inv' /\ Contents' = Spliced(Contents, pos, q, <<>>)
  BY <1>1, <1>2, <1>3, <1>4, <1>5, <1>7, <1>8, <1>9, Rebuilt
<1>11. QED
  BY <1>10 DEF q

\* xstr_erase_after and xstr_pop_back only put a terminator into the text.
LEMMA CutSplices ==
  ASSUME Inv, NEW pos \in 0 .. size, Becomes(data, pos), UNCHANGED capacity
  PROVE  Inv' /\ Contents' = Spliced(Contents, pos, size, <<>>)
<1>1. /\ size \in Nat /\ pos \in Nat /\ capacity \in Nat /\ pos < capacity
      /\ data \in [0 .. capacity - 1 -> Byte]
  BY DEF Inv, TypeOK, IsCString
<1>2. <<>> \in Seq(Char) /\ Len(<<>>) = 0
  OBVIOUS
<1>3. size \in pos .. size /\ pos = pos + Len(<<>>) + size - size
  BY <1>1, <1>2
<1>4. /\ \A i \in 1 .. Len(<<>>) : data[pos + i - 1] = <<>>[i]
      /\ \A i \in 1 .. size - size : data[pos + Len(<<>>) + i - 1] = data[size + i - 1]
  BY <1>1, <1>2
<1>5. QED
  BY <1>1, <1>2, <1>3, <1>4, Rebuilt

-----------------------------------------------------------------------------
(* The invariant, and the steps of the text that the calls are.            *)

\* The contents are a text of size characters.
LEMMA ContentsText ==
  ASSUME Inv
  PROVE  Contents \in Seq(Char) /\ Len(Contents) = size
<1>1. size \in Nat /\ Contents \in [1 .. size -> Char]
  BY DEF Contents, Inv, TypeOK, IsCString
<1>2. QED
  BY <1>1, IndexedSeq

\* xstr_init_ex and xstr_init_with_ex terminate the string.
LEMMA InitInv ==
  ASSUME Init
  PROVE  Inv /\ Text!Init
<1>1. CASE \E cap \in Capacities :
             /\ capacity = cap /\ size = 0
             /\ data = Copy([k \in 0 .. cap - 1 |-> Junk], 0, <<Nul>>)
  <2>1. /\ capacity \in Nat \ {0} /\ size = 0
        /\ data = Copy([k \in 0 .. capacity - 1 |-> Junk], 0, <<Nul>>)
    BY <1>1, StringAssumption
  <2>2. Len(<<Nul>>) = 1 /\ <<Nul>>[1] = Nul
    OBVIOUS
  <2>3. data = [k \in 0 .. capacity - 1 |-> IF k = 0 THEN Nul ELSE Junk]
    BY <2>1, <2>2 DEF Copy
  <2>4. QED
    <3>1. data \in [0 .. capacity - 1 -> Byte] /\ data[0] = Nul /\ outside = FALSE
      BY <2>1, <2>3 DEF Byte, Init
    <3>2. size \in Nat /\ size < capacity /\ data[size] = Nul /\ 0 .. size - 1 = {}
      BY <2>1, <3>1
    <3>3. Inv
      BY <2>1, <3>1, <3>2 DEF Inv, TypeOK, InBounds, IsCString
    <3>4. QED
      BY <3>3, ContentsText DEF Text!Init
<1>2. CASE \E s \in Texts :
             /\ capacity = Len(s) + 1 /\ size = Len(s)
             /\ data = Copy([k \in 0 .. Len(s) |-> Nul], 0, s)
  <2>1. PICK s \in Texts : /\ capacity = Len(s) + 1 /\ size = Len(s)
                           /\ data = Copy([k \in 0 .. Len(s) |-> Nul], 0, s)
    BY <1>2
  <2> DEFINE d == [k \in 0 .. Len(s) |-> Nul]
  <2>2. s \in Seq(Char) /\ Len(s) \in Nat /\ \A i \in 1 .. Len(s) : s[i] \in Char
    BY StringAssumption, LenProperties, ElementOfSeq
  <2>3. 0 .. Len(s) = 0 .. capacity - 1 /\ capacity \in Nat /\ 0 + Len(s) <= capacity
    BY <2>1, <2>2
  <2>4. d \in [0 .. capacity - 1 -> Byte]
    BY <2>3 DEF Byte
  <2>5. d[Len(s)] = Nul
    BY <2>2
  <2> HIDE DEF d
  <2>6. /\ Copy(d, 0, s) \in [0 .. capacity - 1 -> Byte]
        /\ \A k \in 1 .. Len(s) : Copy(d, 0, s)[0 + k - 1] = s[k]
        /\ \A k \in 0 .. capacity - 1 :
             k < 0 \/ 0 + Len(s) <= k => Copy(d, 0, s)[k] = d[k]
    BY <2>2, <2>3, <2>4, Copied
  <2>7. data = Copy(d, 0, s)
    BY <2>1 DEF d
  <2>8. data[size] = Nul
    BY <2>1, <2>2, <2>3, <2>5, <2>6, <2>7
  <2>9. \A i \in 0 .. size - 1 : data[i] \in Char
    <3> SUFFICES ASSUME NEW i \in 0 .. size - 1 PROVE data[i] \in Char
      OBVIOUS
    <3>1. i + 1 \in 1 .. Len(s) /\ 0 + (i + 1) - 1 = i
      BY <2>1, <2>2
    <3>2. data[i] = s[i + 1]
      BY <2>6, <2>7, <3>1
    <3>3. QED
      BY <2>2, <3>1, <3>2
  <2>10. Inv
    <3>1. capacity \in Nat \ {0} /\ size \in Nat /\ size < capacity
      BY <2>1, <2>2
    <3>2. data \in [0 .. capacity - 1 -> Byte] /\ outside = FALSE
      BY <2>6, <2>7 DEF Init
    <3>3. QED
      BY <2>8, <2>9, <3>1, <3>2 DEF Inv, TypeOK, InBounds, IsCString
  <2>11. QED
    BY <2>10, ContentsText DEF Text!Init
<1>3. QED
  BY <1>1, <1>2 DEF Init

\* Every call keeps the invariant and is a step of the text.
LEMMA Call ==
  ASSUME Inv, Next
  PROVE  Inv' /\ Text!Next
<1>1. /\ size \in Nat /\ Len(Contents) = size /\ size \in 0 .. Len(Contents)
      /\ <<>> \in Texts /\ \A s \in Texts : s \in Seq(Char)
      /\ \A c \in Char : <<c>> \in Texts
  BY StringAssumption, ContentsText DEF Inv, TypeOK
<1>2. ASSUME NEW pos \in 0 .. size, NEW s \in Texts,
             Contents' = Spliced(Contents, pos, size, s)
      PROVE  Text!Next
  <2>1. Text!AssignAt(pos, s)
    BY <1>1, <1>2 DEF Text!AssignAt, Text!Splice, Spliced
  <2>2. QED
    BY <1>1, <2>1 DEF Text!Next
<1>3. ASSUME NEW s \in Texts, AppendEx(s) PROVE Inv' /\ Text!Next
  <2>1. size \in 0 .. size /\ s \in Seq(Char) /\ Appended(size, s)
    BY <1>1, <1>3 DEF AppendEx
  <2>2. QED
    BY <1>2, <2>1, AppendedSplices
<1>4. ASSUME NEW s \in Texts, NEW pos \in 0 .. size, AssignAt(pos, s)
      PROVE  Inv' /\ Text!Next
  <2>1. s \in Seq(Char) /\ Appended(pos, s)
    BY <1>1, <1>4 DEF AssignAt
  <2>2. QED
    BY <1>2, <2>1, AppendedSplices
<1>5. ASSUME NEW s \in Texts, NEW pos \in 0 .. size, Insert(pos, s)
      PROVE  Inv' /\ Text!Next
  <2>1. Inv' /\ Contents' = Spliced(Contents, pos, pos, s)
    BY <1>1, <1>5, InsertSplices
  <2>2. Text!Insert(pos, s)
    BY <2>1 DEF Text!Insert, Text!Splice, Spliced
  <2>3. QED
    BY <1>1, <2>1, <2>2 DEF Text!Next
<1>6. ASSUME NEW pos \in 0 .. size, NEW n \in 0 .. size, Erase(pos, n)
      PROVE  Inv' /\ Text!Next
  <2>1. Inv' /\ Contents' = Spliced(Contents, pos, pos + n, <<>>)
    BY <1>6, EraseSplices
  <2>2. Text!Erase(pos, n)
    BY <1>1, <1>6, <2>1 DEF Erase, Text!Erase, Text!Splice, Spliced
  <2>3. QED
    BY <1>1, <2>1, <2>2 DEF Text!Next
<1>7. ASSUME NEW pos \in 0 .. size, EraseAfter(pos) PROVE Inv' /\ Text!Next
  BY <1>1, <1>2, <1>7, CutSplices DEF EraseAfter
<1>8. ASSUME NEW c \in Char, PushBack(c) PROVE Inv' /\ Text!Next
  <2>1. Len(<<c>>) = 1 /\ <<c>> \in Texts /\ size \in 0 .. size
    BY <1>1
  <2>2. Appended(size, <<c>>)
    <3>1. size + 1 <= MaxSize
      BY <1>1, <1>8, StringAssumption DEF PushBack
    <3>2. QED
      BY <1>8, <2>1, <3>1 DEF PushBack, Appended
  <2>3. QED
    BY <1>1, <1>2, <2>1, <2>2, AppendedSplices
<1>9. ASSUME PopBack PROVE Inv' /\ Text!Next
  <2> DEFINE pos == size - 1
  <2>1. pos \in 0 .. size /\ Becomes(data, pos) /\ UNCHANGED capacity
    BY <1>1, <1>9 DEF PopBack
  <2> HIDE DEF pos
  <2>2. QED
    BY <1>1, <1>2, <2>1, CutSplices
<1>10. QED
  BY <1>3, <1>4, <1>5, <1>6, <1>7, <1>8, <1>9 DEF Next

\* A step that leaves the variables alone.
LEMMA Stutter ==
  ASSUME UNCHANGED vars
  PROVE  (Inv => Inv') /\ UNCHANGED Contents
BY DEF vars, Inv, TypeOK, InBounds, IsCString, Contents

(***************************************************************************)
(* Whatever xstr_init_ex or xstr_init_with_ex starts with, the invariant   *)
(* holds after any sequence of the calls of xstring.h.                     *)
(***************************************************************************)
THEOREM Invariance == Spec => []Inv
<1>1. Init => Inv
  BY InitInv
<1>2. Inv /\ [Next]_vars => Inv'
  BY Call, Stutter
<1>3. QED
  BY <1>1, <1>2, PTL DEF Spec

(***************************************************************************)
(* The memory of a string always has the type that capacity says.          *)
(***************************************************************************)
THEOREM TypeCorrect == Spec => []TypeOK
<1>1. Inv => TypeOK
  BY DEF Inv
<1>2. QED
  BY <1>1, Invariance, PTL

(***************************************************************************)
(* No call writes outside of the memory that __xstr_ensure_capacity left.  *)
(***************************************************************************)
THEOREM WritesInBounds == Spec => []InBounds
<1>1. Inv => InBounds
  BY DEF Inv
<1>2. QED
  BY <1>1, Invariance, PTL

(***************************************************************************)
(* After every call of xstring.h the data is a C string of that size.      *)
(***************************************************************************)
THEOREM AlwaysTerminated == Spec => []IsCString
<1>1. Inv => IsCString
  BY DEF Inv
<1>2. QED
  BY <1>1, Invariance, PTL

(***************************************************************************)
(* The strings of xstring.c implement the replacement of parts of a text.  *)
(***************************************************************************)
THEOREM ImplementsText == Spec => Implements
<1>1. Init => Text!Init
  BY InitInv
<1>2. Inv /\ [Next]_vars => [Text!Next]_Contents
  BY Call, Stutter
<1>3. QED
  BY <1>1, <1>2, Invariance, PTL DEF Spec, Implements, Text!Spec

-----------------------------------------------------------------------------
(* The walk.                                                               *)

Frame(t) == [off : Nat, dir : DOMAIN t, left : SUBSET Seq(Char)]

\* The path c passes through the directories of all the calls in fs.
Leads(fs, t, b, c) ==
  /\ fs \in Seq(Frame(t))
  /\ \A i \in DOMAIN fs :
       /\ fs[i].off \in 1 .. Len(c) /\ c[fs[i].off] = "/"
       /\ LookupIn(t, b, SubSeq(c, 1, fs[i].off), TRUE).dir = fs[i].dir
  /\ \A i, j \in DOMAIN fs : i <= j => fs[i].off <= fs[j].off

\* What is in the buffer at each place of the code.
Position ==
  /\ pc = "slash" => size > 0
  /\ pc \in {"open", "directory"} => size > 0 /\ Contents[size] = "/"
  /\ pc \in {"read", "stat", "directory", "cut"} => frames # <<>>
  /\ pc = "read" => size = frames[Len(frames)].off
  /\ pc \in {"base", "slash", "sort", "dest", "dest slash", "next", "ask", "done"} => frames = <<>>
  /\ pc = "dest" => Contents = <<>>
  /\ pc = "dest slash" => Contents = Dest
  /\ pc \in {"next", "ask"} =>
       off = Len(Dest) + 1 /\ off <= size /\ SubSeq(Contents, 1, off) = Dest \o <<"/">>
  /\ pc = "ask" => Contents = Dest \o <<"/">> \o item

Given == tree \in Trees /\ base \in BasePaths

Found == off \in Nat /\ items \subseteq Seq(Char) /\ item \in Seq(Char)

WalkInv == Inv /\ Given /\ Found /\ Leads(frames, tree, base, Contents) /\ Position

\* r begins with the first p characters of c; s stands in r after position p.
KeepsFirst(r, c, p) ==
  /\ \A i \in 1 .. p : r[i] = c[i]
  /\ \A o \in 0 .. p : SubSeq(r, 1, o) = SubSeq(c, 1, o)

HasAfter(r, p, s) == \A i \in 1 .. Len(s) : r[p + i] = s[i]

\* A text whose end from p on was replaced by s.
LEMMA EndReplaced ==
  ASSUME NEW c \in Seq(Char), NEW p \in 0 .. Len(c), NEW s \in Seq(Char),
         NEW r, r = Spliced(c, p, Len(c), s)
  PROVE  /\ r = SubSeq(c, 1, p) \o s /\ r \in Seq(Char) /\ Len(r) = p + Len(s)
         /\ KeepsFirst(r, c, p) /\ HasAfter(r, p, s)
<1>1. Len(c) \in Nat /\ Len(s) \in Nat /\ p \in Nat /\ \A i \in 1 .. Len(c) : c[i] \in Char
  BY LenProperties, ElementOfSeq
<1>2. SubSeq(c, 1, p) \in Seq(Char) /\ Len(SubSeq(c, 1, p)) = p
      /\ \A i \in 1 .. p : SubSeq(c, 1, p)[i] = c[i]
  <2>1. \A i \in 1 .. p : c[i] \in Char
    BY <1>1
  <2>2. QED
    BY <1>1, <2>1, SubSeqProperties
<1>3. SubSeq(c, Len(c) + 1, Len(c)) = <<>>
  BY <1>1, SubSeqEmpty
<1>4. SubSeq(c, 1, p) \o s \in Seq(Char)
  BY <1>2, ConcatProperties
<1>5. r = SubSeq(c, 1, p) \o s
  BY <1>3, <1>4, ConcatEmptySeq DEF Spliced
<1>6. r \in Seq(Char) /\ Len(r) = p + Len(s)
      /\ \A i \in 1 .. p + Len(s) : r[i] = IF i <= p THEN SubSeq(c, 1, p)[i] ELSE s[i - p]
  BY <1>2, <1>5, ConcatProperties
<1>7. \A i \in 1 .. p : r[i] = c[i]
  BY <1>1, <1>2, <1>6
<1>8. \A i \in 1 .. Len(s) : r[p + i] = s[i]
  BY <1>1, <1>6
<1>9. ASSUME NEW o \in 0 .. p PROVE SubSeq(r, 1, o) = SubSeq(c, 1, o)
  <2> DEFINE x == SubSeq(r, 1, o)
             y == SubSeq(c, 1, o)
  <2>1. \A i \in 1 .. o : r[i] = c[i] /\ c[i] \in Char
    BY <1>1, <1>7
  <2>2. x \in Seq(Char) /\ Len(x) = o /\ \A i \in 1 .. o : x[i] = r[i]
    BY <1>1, <2>1, SubSeqProperties
  <2>3. y \in Seq(Char) /\ Len(y) = o /\ \A i \in 1 .. o : y[i] = c[i]
    BY <1>1, <2>1, SubSeqProperties
  <2> HIDE DEF x, y
  <2>4. x = y
    BY <2>1, <2>2, <2>3, SeqEqual
  <2>5. QED
    BY <2>4 DEF x, y
<1>10. KeepsFirst(r, c, p)
  BY <1>7, <1>9 DEF KeepsFirst
<1>11. HasAfter(r, p, s)
  BY <1>8 DEF HasAfter
<1>12. QED
  BY <1>5, <1>6, <1>10, <1>11

\* A text that keeps the first p characters still passes through the directories up to p.
LEMMA StillLeads ==
  ASSUME NEW t, NEW b, NEW c \in Seq(Char), NEW fs, Leads(fs, t, b, c),
         NEW p \in 0 .. Len(c), \A i \in DOMAIN fs : fs[i].off <= p,
         NEW r \in Seq(Char), p <= Len(r), KeepsFirst(r, c, p)
  PROVE  Leads(fs, t, b, r)
<1>1. ASSUME NEW i \in DOMAIN fs
      PROVE  /\ fs[i].off \in 1 .. Len(r) /\ r[fs[i].off] = "/"
             /\ LookupIn(t, b, SubSeq(r, 1, fs[i].off), TRUE).dir = fs[i].dir
  <2>0. Len(c) \in Nat /\ Len(r) \in Nat
    BY LenProperties
  <2>1. fs[i].off \in 1 .. Len(c) /\ fs[i].off <= p /\ c[fs[i].off] = "/"
    BY DEF Leads
  <2>2. fs[i].off \in 1 .. p /\ fs[i].off \in 0 .. p /\ fs[i].off \in 1 .. Len(r)
    BY ONLY p \in 0 .. Len(c), p <= Len(r), <2>0, <2>1
  <2>3. SubSeq(r, 1, fs[i].off) = SubSeq(c, 1, fs[i].off) /\ r[fs[i].off] = c[fs[i].off]
    BY ONLY KeepsFirst(r, c, p), <2>2 DEF KeepsFirst
  <2>4. QED
    BY <2>1, <2>2, <2>3 DEF Leads
<1>2. QED
  BY <1>1 DEF Leads

-----------------------------------------------------------------------------
\* A call on the buffer that puts s in place of its text from p on.
Replaces(p, s) ==
  Inv' /\ Contents' = Spliced(Contents, p, Len(Contents), s) /\ size' = p + Len(s)

LEMMA Size ==
  ASSUME Inv
  PROVE  size \in Nat /\ Contents \in Seq(Char) /\ Len(Contents) = size /\ size \in 0 .. Len(Contents)
BY ContentsText DEF Inv, TypeOK

LEMMA AssignReplaces ==
  ASSUME Inv, NEW p \in 0 .. size, NEW s \in Seq(Char), Appended(p, s)
  PROVE  Replaces(p, s)
<1>1. size' = p + Len(s)
  BY DEF Appended, Becomes
<1>2. QED
  BY <1>1, AppendedSplices, Size DEF Replaces

LEMMA AppendReplaces ==
  ASSUME Inv, NEW s \in Seq(Char), AppendEx(s)
  PROVE  Replaces(size, s)
BY AssignReplaces, Size DEF AppendEx

LEMMA PushReplaces ==
  ASSUME Inv, PushBack("/")
  PROVE  Replaces(size, <<"/">>)
<1>1. Len(<<"/">>) = 1 /\ <<"/">> \in Seq(Char) /\ size \in 0 .. size
  BY WalkAssumption, Size
<1>2. size + 1 <= MaxSize
  BY <1>1, StringAssumption DEF PushBack
<1>3. Appended(size, <<"/">>)
  BY <1>1, <1>2 DEF PushBack, Appended
<1>4. QED
  BY <1>1, <1>3, AssignReplaces

LEMMA EraseReplaces ==
  ASSUME Inv, NEW p \in 0 .. size, EraseAfter(p)
  PROVE  Replaces(p, <<>>)
<1>1. Becomes(data, p) /\ UNCHANGED capacity /\ size' = p
  BY DEF EraseAfter, Becomes
<1>2. p \in Nat
  BY Size
<1>3. QED
  BY <1>1, <1>2, CutSplices, Size DEF Replaces

\* What the text is after such a call.
LEMMA Replaced ==
  ASSUME WalkInv, NEW p \in 0 .. size, NEW s \in Seq(Char), Replaces(p, s)
  PROVE  /\ Contents' = SubSeq(Contents, 1, p) \o s
         /\ \A i \in 1 .. p : Contents'[i] = Contents[i]
         /\ \A i \in 1 .. Len(s) : Contents'[p + i] = s[i]
         /\ \A o \in 0 .. p : SubSeq(Contents', 1, o) = SubSeq(Contents, 1, o)
         /\ \A fs : Leads(fs, tree, base, Contents) /\ (\A i \in DOMAIN fs : fs[i].off <= p)
                      => Leads(fs, tree, base, Contents')
<1>1. p \in 0 .. Len(Contents) /\ Contents \in Seq(Char)
      /\ Contents' = Spliced(Contents, p, Len(Contents), s)
  BY Size DEF WalkInv, Replaces
<1>2. /\ Contents' = SubSeq(Contents, 1, p) \o s
      /\ \A i \in 1 .. p : Contents'[i] = Contents[i]
      /\ \A i \in 1 .. Len(s) : Contents'[p + i] = s[i]
      /\ \A o \in 0 .. p : SubSeq(Contents', 1, o) = SubSeq(Contents, 1, o)
  <2>1. Contents' = SubSeq(Contents, 1, p) \o s
    BY <1>1, EndReplaced
  <2>2. KeepsFirst(Contents', Contents, p) /\ HasAfter(Contents', p, s)
    BY <1>1, EndReplaced
  <2>3. QED
    BY <2>1, <2>2 DEF KeepsFirst, HasAfter
<1>3. ASSUME NEW fs, Leads(fs, tree, base, Contents), \A i \in DOMAIN fs : fs[i].off <= p
      PROVE  Leads(fs, tree, base, Contents')
  <2>1. KeepsFirst(Contents', Contents, p)
    BY <1>1, EndReplaced
  <2>2. Contents' \in Seq(Char) /\ Len(Contents') = p + Len(s)
    BY <1>1, EndReplaced
  <2>3. Len(s) \in Nat /\ p \in Nat
    BY <1>1, LenProperties
  <2>4. p <= Len(Contents')
    BY <2>2, <2>3
  <2>5. QED
    BY <1>1, <1>3, <2>1, <2>2, <2>4, StillLeads
<1>4. QED
  BY <1>2, <1>3

LEMMA AllOpen ==
  ASSUME WalkInv
  PROVE  /\ Len(frames) \in Nat /\ DOMAIN frames = 1 .. Len(frames)
         /\ \A i \in DOMAIN frames : /\ frames[i] \in Frame(tree)
                                     /\ frames[i].off \in 1 .. size
                                     /\ frames[i].off <= frames[Len(frames)].off
         /\ frames # <<>> => Len(frames) \in DOMAIN frames
<1>1. frames \in Seq(Frame(tree)) /\ Len(Contents) = size
  BY Size DEF WalkInv, Leads
<1>2. Len(frames) \in Nat /\ DOMAIN frames = 1 .. Len(frames)
      /\ \A i \in DOMAIN frames : frames[i] \in Frame(tree)
  BY <1>1, LenProperties, ElementOfSeq
<1>3. frames # <<>> => Len(frames) \in DOMAIN frames
  BY <1>1, <1>2, EmptySeq
<1>4. ASSUME NEW i \in DOMAIN frames
      PROVE  frames[i].off \in 1 .. size /\ frames[i].off <= frames[Len(frames)].off
  <2>1. Len(frames) \in DOMAIN frames /\ i <= Len(frames)
    BY <1>2, <1>4
  <2>2. QED
    BY <1>1, <2>1 DEF WalkInv, Leads
<1>5. QED
  BY <1>2, <1>3, <1>4

\* Nothing happens to the buffer.
LEMMA SameText ==
  ASSUME WalkInv, UNCHANGED vars
  PROVE  Inv' /\ Contents' = Contents /\ size' = size
BY Stutter DEF WalkInv, vars

-----------------------------------------------------------------------------
(* Each step keeps the invariant.                                          *)

LEMMA BeginKeeps ==
  ASSUME WalkInv, Begin
  PROVE  WalkInv'
<1>1. base \in Seq(Char) /\ base # <<>> /\ Len(base) > 0 /\ frames = <<>> /\ size \in 0 .. size
  BY WalkAssumption, EmptySeq, Size DEF WalkInv, Given, Begin, Position
<1>2. Replaces(size, base)
  BY <1>1, AppendReplaces DEF WalkInv, Begin
<1>3. Leads(frames, tree, base, Contents')
  BY <1>1, <1>2, Replaced DEF WalkInv
<1>4. size' > 0 /\ Inv'
  BY <1>1, <1>2, Size DEF WalkInv, Replaces
<1>5. QED
  BY <1>1, <1>3, <1>4 DEF WalkInv, Given, Found, Position, Begin, Goto, Keep, given

\* The last character when a slash was put there.
LEMMA LastSlash ==
  ASSUME WalkInv, Replaces(size, <<"/">>)
  PROVE  /\ Inv' /\ size' \in Nat /\ size' > 0 /\ Contents'[size'] = "/"
         /\ size' = size + 1
         /\ Leads(frames, tree, base, Contents')
<1>1. size \in Nat /\ size \in 0 .. size /\ <<"/">> \in Seq(Char) /\ Len(<<"/">>) = 1
  BY WalkAssumption, Size DEF WalkInv
<1>2. size' = size + 1 /\ Inv'
  BY <1>1 DEF Replaces
<1>3. 1 \in 1 .. Len(<<"/">>) /\ <<"/">>[1] = "/"
  BY <1>1
<1>4. Contents'[size + 1] = "/"
  BY <1>1, <1>3, Replaced
<1>5. \A i \in DOMAIN frames : frames[i].off <= size
  BY <1>1, AllOpen
<1>6. Leads(frames, tree, base, Contents')
  BY <1>1, <1>5, Replaced DEF WalkInv
<1>7. QED
  BY <1>1, <1>2, <1>4, <1>6

LEMMA AddSlashKeeps ==
  ASSUME WalkInv, AddSlash
  PROVE  WalkInv'
<1>1. size \in Nat /\ size > 0 /\ frames = <<>> /\ size - 1 + 1 = size
  BY Size DEF WalkInv, AddSlash, Position
<1>2. /\ Inv' /\ size' \in Nat /\ size' > 0 /\ Contents'[size'] = "/"
      /\ Leads(frames, tree, base, Contents')
  <2>1. CASE data[size - 1] = "/"
    <3>1. Inv' /\ Contents' = Contents /\ size' = size
      BY <2>1, SameText DEF AddSlash
    <3>2. Contents[size] = "/"
      BY <1>1, <2>1 DEF Contents
    <3>3. QED
      BY <1>1, <3>1, <3>2 DEF WalkInv
  <2>2. CASE data[size - 1] # "/"
    BY <2>2, PushReplaces, LastSlash DEF WalkInv, AddSlash
  <2>3. QED
    BY <2>1, <2>2
<1>3. QED
  BY <1>1, <1>2 DEF WalkInv, Given, Found, Position, AddSlash, Goto, given

LEMMA OpenKeeps ==
  ASSUME WalkInv, Open
  PROVE  WalkInv'
<1> DEFINE d == Lookup(Contents, TRUE)
           new == [off |-> size, dir |-> d.dir, left |-> DOMAIN tree[d.dir]]
           n == Len(frames)
<1>1. Inv' /\ Contents' = Contents /\ size' = size /\ UNCHANGED given
  BY SameText DEF Open
<1>2. size \in Nat /\ size > 0 /\ Contents[size] = "/" /\ Contents \in Seq(Char)
      /\ Len(Contents) = size
  BY Size DEF WalkInv, Open, Position
<1>3. CASE d.dir \in DOMAIN tree /\ pc' = "read" /\ frames' = Append(frames, new)
  <2>1. DOMAIN tree[d.dir] \subseteq Seq(Char)
    BY <1>3, WalkAssumption DEF WalkInv, Given
  <2>2. new \in Frame(tree)
    BY <1>2, <1>3, <2>1 DEF Frame
  <2>3. frames \in Seq(Frame(tree)) /\ n \in Nat /\ DOMAIN frames = 1 .. n
    BY AllOpen DEF WalkInv, Leads
  <2> HIDE DEF new
  <2>4. /\ frames' \in Seq(Frame(tree)) /\ frames' # <<>> /\ Len(frames') = n + 1
        /\ \A i \in 1 .. n : frames'[i] = frames[i]
        /\ frames'[n + 1] = new
    BY <1>3, <2>2, <2>3, AppendProperties
  <2>5. DOMAIN frames' = 1 .. n + 1
    BY <2>4, LenProperties
  <2>6. SubSeq(Contents, 1, size) = Contents
    BY <1>2, SubSeqFull
  <2>7. new.off = size /\ new.dir = LookupIn(tree, base, SubSeq(Contents, 1, size), TRUE).dir
    BY <2>6 DEF new, Lookup
  <2>8. ASSUME NEW i \in DOMAIN frames'
        PROVE  /\ frames'[i].off \in 1 .. size /\ Contents[frames'[i].off] = "/"
               /\ LookupIn(tree, base, SubSeq(Contents, 1, frames'[i].off), TRUE).dir = frames'[i].dir
    <3>1. CASE i \in 1 .. n
      BY <1>2, <2>3, <2>4, <3>1 DEF WalkInv, Leads
    <3>2. CASE i = n + 1
      <4>1. frames'[i] = new /\ size \in 1 .. size
        BY <1>2, <2>4, <3>2
      <4>2. QED
        BY <1>2, <2>7, <4>1
    <3>3. i \in 1 .. n \/ i = n + 1
      BY <2>3, <2>5
    <3>4. QED
      BY <3>1, <3>2, <3>3
  <2>9. ASSUME NEW i \in DOMAIN frames', NEW j \in DOMAIN frames', i <= j
        PROVE  frames'[i].off <= frames'[j].off
    <3>1. CASE j = n + 1
      <4>1. frames'[i].off \in 1 .. size
        BY <2>8
      <4>2. frames'[j].off = size
        BY <2>4, <2>7, <3>1
      <4>3. QED
        BY <1>2, <4>1, <4>2
    <3>2. CASE j # n + 1
      <4>1. i \in 1 .. n /\ j \in 1 .. n
        BY <2>3, <2>5, <2>9, <3>2
      <4>2. QED
        BY <2>3, <2>4, <2>9, <4>1 DEF WalkInv, Leads
    <3>3. QED
      BY <3>1, <3>2
  <2>10. Leads(frames', tree, base, Contents)
    BY <1>2, <2>4, <2>8, <2>9 DEF Leads
  <2>11. QED
    BY <1>1, <1>3, <2>4, <2>7, <2>10 DEF WalkInv, Given, Found, Position, Open, given
<1>4. CASE pc' = (IF Depth = 0 THEN "sort" ELSE "cut") /\ UNCHANGED frames
  <2>1. Depth = 0 <=> frames = <<>>
    BY EmptySeq DEF Depth, WalkInv, Leads
  <2>2. QED
    BY <1>1, <1>4, <2>1 DEF WalkInv, Given, Found, Position, Open, given
<1>5. QED
  BY <1>3, <1>4 DEF Open, Goto

\* The names still to come.
LEMMA Left ==
  ASSUME WalkInv, frames # <<>>
  PROVE  frames[Len(frames)] \in Frame(tree) /\ frames[Len(frames)].off \in 1 .. size
         /\ frames[Len(frames)].left \subseteq Seq(Char)
<1>1. frames[Len(frames)] \in Frame(tree) /\ frames[Len(frames)].off \in 1 .. size
  BY AllOpen
<1>2. QED
  BY <1>1 DEF Frame

LEMMA ReadKeeps ==
  ASSUME WalkInv, NEW name, Read(name)
  PROVE  WalkInv'
<1> DEFINE n == Len(frames)
<1>1. /\ frames # <<>> /\ size = frames[n].off /\ name \in Seq(Char) /\ size \in 0 .. size
      /\ UNCHANGED <<given, off, items, item>>
  BY Left, Size DEF WalkInv, Read, Position, Depth
<1>2. /\ frames \in Seq(Frame(tree)) /\ n \in DOMAIN frames /\ DOMAIN frames = 1 .. n /\ n \in Nat
      /\ \A i \in DOMAIN frames : frames[i] \in Frame(tree) /\ frames[i].off \in 1 .. size
  BY <1>1, AllOpen DEF WalkInv, Leads
<1> DEFINE fewer == [frames[n] EXCEPT !.left = @ \ {name}]
<1>3. fewer \in Frame(tree) /\ fewer.off = frames[n].off /\ fewer.dir = frames[n].dir
  BY <1>2 DEF Frame
<1>4. frames' = [frames EXCEPT ![n] = fewer]
  BY DEF Read, Taken, Depth
<1> HIDE DEF fewer
<1>5. /\ frames' \in Seq(Frame(tree)) /\ DOMAIN frames' = DOMAIN frames /\ frames' # <<>>
      /\ Len(frames') = n
      /\ \A i \in DOMAIN frames : frames'[i].off = frames[i].off /\ frames'[i].dir = frames[i].dir
  <2>1. frames' \in Seq(Frame(tree)) /\ Len(frames') = n /\ DOMAIN frames' = DOMAIN frames
    BY <1>2, <1>3, <1>4, ExceptSeq
  <2>2. frames' # <<>>
    BY <1>1, <1>2, <2>1, EmptySeq
  <2>3. \A i \in DOMAIN frames : frames'[i] = IF i = n THEN fewer ELSE frames[i]
    BY <1>2, <1>4
  <2>4. QED
    BY <1>3, <2>1, <2>2, <2>3
<1>6. \A c : Leads(frames, tree, base, c) => Leads(frames', tree, base, c)
  BY <1>5 DEF Leads
<1>7. CASE IsValidName(name)
  <2>1. Replaces(size, name) /\ pc' = "stat"
    BY <1>1, <1>7, AppendReplaces DEF WalkInv, Read, Goto
  <2>2. \A i \in DOMAIN frames : frames[i].off <= size
    BY <1>1, <1>2
  <2>3. Leads(frames', tree, base, Contents')
    BY <1>1, <1>6, <2>1, <2>2, Replaced DEF WalkInv
  <2>4. QED
    BY <1>1, <1>5, <2>1, <2>3 DEF WalkInv, Given, Found, Position, Replaces, given
<1>8. CASE ~IsValidName(name)
  <2>1. Inv' /\ Contents' = Contents /\ size' = size /\ pc' = "read"
    BY <1>8, SameText DEF Read
  <2>2. Leads(frames', tree, base, Contents')
    BY <1>6, <2>1 DEF WalkInv
  <2>3. size' = frames'[Len(frames')].off
    BY <1>1, <1>2, <1>5, <2>1
  <2>4. QED
    BY <1>1, <1>5, <2>1, <2>2, <2>3 DEF WalkInv, Given, Found, Position, given
<1>9. QED
  BY <1>7, <1>8

LEMMA CloseDirKeeps ==
  ASSUME WalkInv, CloseDir
  PROVE  WalkInv'
<1> DEFINE n == Len(frames)
<1>1. Inv' /\ Contents' = Contents /\ size' = size /\ UNCHANGED <<given, off, items, item>>
  BY SameText DEF CloseDir
<1>2. /\ frames \in Seq(Frame(tree)) /\ frames # <<>> /\ n \in DOMAIN frames /\ n \in Nat
      /\ DOMAIN frames = 1 .. n
  BY AllOpen DEF WalkInv, Leads, CloseDir, Position
<1>3. frames' = SubSeq(frames, 1, n - 1) /\ n - 1 \in Nat
  BY <1>2 DEF CloseDir, Front
<1>4. /\ frames' \in Seq(Frame(tree)) /\ Len(frames') = n - 1 /\ DOMAIN frames' = 1 .. n - 1
      /\ \A i \in 1 .. n - 1 : frames'[i] = frames[i]
  <2>1. \A i \in 1 .. n - 1 : frames[i] \in Frame(tree)
    BY <1>2, ElementOfSeq
  <2> DEFINE m == n - 1
             f == SubSeq(frames, 1, m)
  <2>2. /\ f \in Seq(Frame(tree)) /\ Len(f) = (IF 1 <= m THEN m - 1 + 1 ELSE 0)
        /\ \A i \in 1 .. m - 1 + 1 : f[i] = frames[1 + i - 1]
    <3> m \in Int /\ 1 \in Int /\ \A i \in 1 .. m : frames[i] \in Frame(tree)
      BY <1>3, <2>1
    <3> HIDE DEF m
    <3> QED
      BY SubSeqProperties
  <2>3. /\ frames' \in Seq(Frame(tree)) /\ Len(frames') = n - 1
        /\ \A i \in 1 .. n - 1 : frames'[i] = frames[i]
    <3>1. m \in Nat /\ frames' = f /\ n - 1 = m
      BY <1>3
    <3> HIDE DEF m, f
    <3>2. Len(f) = m /\ \A i \in 1 .. m : i \in 1 .. m - 1 + 1 /\ 1 + i - 1 = i
      BY <2>2, <3>1
    <3>3. \A i \in 1 .. m : f[i] = frames[i]
      BY <2>2, <3>2
    <3>4. QED
      BY <2>2, <3>1, <3>2, <3>3
  <2>4. QED
    BY <2>3, LenProperties
<1>5. Leads(frames', tree, base, Contents)
  <2>1. \A i \in DOMAIN frames' : i \in DOMAIN frames /\ frames'[i] = frames[i]
    BY <1>2, <1>4
  <2>2. QED
    BY <1>4, <2>1 DEF WalkInv, Leads
<1>6. CASE n = 1
  <2>1. frames' = <<>> /\ pc' = "sort"
    BY <1>4, <1>6, EmptySeq DEF CloseDir, Goto, Depth
  <2>2. QED
    BY <1>1, <1>5, <2>1 DEF WalkInv, Given, Found, Position, given
<1>7. CASE n # 1
  <2>1. frames' # <<>> /\ pc' = "cut"
    BY <1>2, <1>4, <1>7, EmptySeq DEF CloseDir, Goto, Depth
  <2>2. QED
    BY <1>1, <1>5, <2>1 DEF WalkInv, Given, Found, Position, given
<1>8. QED
  BY <1>6, <1>7

\* The relative path of an item is a text.
LEMMA FromIsText ==
  ASSUME WalkInv, NEW o \in Nat
  PROVE  From(o) \in Seq(Char)
<1>1. size \in Nat /\ \A i \in 1 .. size : Contents[i] \in Char
  BY Size, ElementOfSeq DEF WalkInv
<1>2. o + 1 \in Int /\ size \in Int /\ \A i \in o + 1 .. size : Contents[i] \in Char
  BY <1>1
<1>3. QED
  BY <1>2, SubSeqProperties DEF From

LEMMA Listed ==
  ASSUME WalkInv, ListIt
  PROVE  items' \subseteq Seq(Char)
<1>1. From(off) \in Seq(Char) /\ items \subseteq Seq(Char)
  BY FromIsText DEF WalkInv, Found
<1>2. QED
  BY <1>1 DEF ListIt

LEMMA StatKeeps ==
  ASSUME WalkInv, Stat
  PROVE  WalkInv'
<1>1. frames # <<>> /\ UNCHANGED <<given, off, frames, item>>
  BY DEF WalkInv, Stat, Position
<1>2. CASE PushBack("/") /\ pc' = "directory" /\ UNCHANGED items
  BY <1>1, <1>2, PushReplaces, LastSlash DEF WalkInv, Given, Found, Position, given
<1>3. CASE pc' = "cut" /\ UNCHANGED vars /\ (ListIt \/ UNCHANGED items)
  <2>1. Inv' /\ Contents' = Contents /\ size' = size
    BY <1>3, SameText
  <2>2. items' \subseteq Seq(Char)
    BY <1>3, Listed DEF WalkInv, Found
  <2>3. QED
    BY <1>1, <1>3, <2>1, <2>2 DEF WalkInv, Given, Found, Position, given
<1>4. QED
  BY <1>2, <1>3 DEF Stat, Goto

LEMMA ListDirectoryKeeps ==
  ASSUME WalkInv, ListDirectory
  PROVE  WalkInv'
<1>1. Inv' /\ Contents' = Contents /\ size' = size /\ items' \subseteq Seq(Char)
  BY SameText, Listed DEF ListDirectory
<1>2. pc' \in {"cut", "open"} /\ pc = "directory"
  BY DEF ListDirectory, Goto
<1>3. QED
  BY <1>1, <1>2 DEF WalkInv, Given, Found, Position, ListDirectory, given

LEMMA CutKeeps ==
  ASSUME WalkInv, Cut
  PROVE  WalkInv'
<1> DEFINE o == frames[Len(frames)].off
<1>1. frames # <<>> /\ o \in 1 .. size /\ size \in Nat /\ <<>> \in Seq(Char) /\ Len(<<>>) = 0
  BY Left, Size, EmptySeq DEF WalkInv, Cut, Position
<1>2. o \in 0 .. size /\ EraseAfter(o)
  BY <1>1 DEF Cut, CutPath, Depth
<1>3. \A i \in DOMAIN frames : frames[i].off <= o
  BY AllOpen
<1> HIDE DEF o
<1>4. Replaces(o, <<>>)
  BY <1>2, EraseReplaces DEF WalkInv
<1>5. Leads(frames, tree, base, Contents')
  BY <1>1, <1>2, <1>3, <1>4, Replaced DEF WalkInv
<1>6. size' = o /\ Inv'
  BY <1>1, <1>4 DEF Replaces
<1>7. QED
  BY <1>1, <1>5, <1>6 DEF WalkInv, Given, Found, Position, Cut, Goto, Keep, given, o

\* The new buffer, in its state after the step.
LEMMA NewBufferKeeps ==
  ASSUME WalkInv, NewBuffer
  PROVE  WalkInv'
<1> DEFINE cap == capacity'
           fresh == [k \in 0 .. cap - 1 |-> Junk]
<1>1. cap \in Nat \ {0} /\ size' = 0 /\ outside' = outside /\ frames' = frames /\ frames = <<>>
  BY StringAssumption DEF NewBuffer, WalkInv, Position
<1>2. data' = [k \in 0 .. cap - 1 |-> IF k = 0 THEN Nul ELSE Junk]
  <2>1. data' = [k \in DOMAIN fresh |-> IF k \in 0 .. 0 + Len(<<Nul>>) - 1 THEN <<Nul>>[k - 0 + 1]
                                      ELSE fresh[k]]
    BY DEF NewBuffer, Copy
  <2>2. DOMAIN fresh = 0 .. cap - 1 /\ Len(<<Nul>>) = 1 /\ 0 + 1 - 1 = 0
    OBVIOUS
  <2>3. \A k \in 0 .. cap - 1 : (k \in 0 .. 0 <=> k = 0) /\ fresh[k] = Junk /\ <<Nul>>[0 - 0 + 1] = Nul
    BY <1>1
  <2> HIDE DEF fresh, cap
  <2>4. QED
    BY <2>1, <2>2, <2>3
<1> HIDE DEF cap, fresh
<1>3. data' \in [0 .. cap - 1 -> Byte] /\ 0 \in 0 .. cap - 1 /\ data'[0] = Nul
  BY <1>1, <1>2 DEF Byte
<1>4. Inv'
  BY <1>1, <1>3 DEF WalkInv, Inv, TypeOK, InBounds, IsCString, cap
<1>5. Contents' = <<>>
  <2>1. DOMAIN Contents' = {} /\ Contents' \in [1 .. 0 -> Char]
    BY <1>1 DEF Contents
  <2>2. Contents' \in Seq(Char) /\ Len(Contents') = 0
    BY <2>1, IndexedSeq
  <2>3. QED
    BY <2>2, EmptySeq
<1>6. Leads(frames', tree, base, Contents')
  <2>1. <<>> \in Seq(Frame(tree)) /\ DOMAIN <<>> = {}
    BY EmptySeq
  <2>2. QED
    BY <1>1, <2>1 DEF Leads
<1>7. QED
  BY <1>1, <1>4, <1>5, <1>6 DEF WalkInv, Given, Found, Position, NewBuffer, Goto, given

LEMMA OtherSideKeeps ==
  ASSUME WalkInv, OtherSide
  PROVE  WalkInv'
<1>1. Contents = <<>> /\ size = 0 /\ frames = <<>> /\ Dest \in Seq(Char) /\ size \in 0 .. size
  BY WalkAssumption, Size, EmptySeq DEF WalkInv, OtherSide, Position
<1>2. Replaces(size, Dest)
  BY <1>1, AppendReplaces DEF WalkInv, OtherSide
<1>3. Leads(frames, tree, base, Contents')
  BY <1>1, <1>2, Replaced DEF WalkInv
<1>4. Contents' = Dest
  <2>1. Contents' = SubSeq(Contents, 1, size) \o Dest
    BY <1>1, <1>2, Replaced
  <2>2. SubSeq(Contents, 1, size) = <<>>
    BY <1>1, SubSeqEmpty
  <2>3. QED
    BY <1>1, <2>1, <2>2, ConcatEmptySeq
<1>5. QED
  BY <1>1, <1>2, <1>3, <1>4
     DEF Replaces, WalkInv, Given, Found, Position, OtherSide, Goto, Keep, given

LEMMA OtherSlashKeeps ==
  ASSUME WalkInv, OtherSlash
  PROVE  WalkInv'
<1>1. /\ Contents = Dest /\ frames = <<>> /\ Len(Dest) = size /\ size \in Nat /\ size \in 0 .. size
      /\ <<"/">> \in Seq(Char) /\ Contents \in Seq(Char) /\ Len(<<"/">>) = 1
  <2>1. Contents = Dest /\ frames = <<>>
    BY DEF WalkInv, OtherSlash, Position
  <2>2. size \in Nat /\ Contents \in Seq(Char) /\ Len(Contents) = size
    BY Size DEF WalkInv
  <2>3. <<"/">> \in Seq(Char)
    BY WalkAssumption
  <2>4. QED
    BY <2>1, <2>2, <2>3
<1>2. Replaces(size, <<"/">>)
  BY PushReplaces DEF WalkInv, OtherSlash
<1>3. Inv' /\ size' = size + 1 /\ Leads(frames, tree, base, Contents')
  BY <1>2, LastSlash
<1>4. Contents' = Dest \o <<"/">>
  <2>1. Contents' = SubSeq(Contents, 1, size) \o <<"/">>
    BY <1>1, <1>2, Replaced
  <2>2. QED
    BY <1>1, <2>1, SubSeqFull
<1>5. SubSeq(Contents', 1, size') = Contents'
  <2>1. Dest \o <<"/">> \in Seq(Char) /\ Len(Dest \o <<"/">>) = size + 1
    BY <1>1, ConcatProperties
  <2>2. QED
    BY <1>3, <1>4, <2>1, SubSeqFull
<1>6. off' \in Nat /\ off' = Len(Dest) + 1 /\ off' <= size' /\ off' = size'
      /\ pc' = "next" /\ UNCHANGED <<given, frames, items, item>>
  <2>1. off' = size' /\ pc' = "next" /\ UNCHANGED <<given, frames, items, item>>
    BY DEF OtherSlash, Goto
  <2>2. size' \in Nat /\ size' = Len(Dest) + 1
    BY <1>1, <1>3
  <2>3. QED
    BY <2>1, <2>2
<1>7. QED
  BY <1>1, <1>3, <1>4, <1>5, <1>6 DEF WalkInv, Given, Found, Position, given

LEMMA NextItemKeeps ==
  ASSUME WalkInv, NextItem
  PROVE  WalkInv'
<1>1. /\ frames = <<>> /\ off = Len(Dest) + 1 /\ off \in 0 .. size /\ off \in Nat
      /\ SubSeq(Contents, 1, off) = Dest \o <<"/">>
      /\ item' \in Seq(Char) /\ items' \subseteq Seq(Char) /\ UNCHANGED <<given, off, frames>>
  BY Size DEF WalkInv, NextItem, Position, Found
<1>2. Replaces(off, item')
  BY <1>1, AssignReplaces DEF WalkInv, NextItem, PutName, AssignAt
<1>3. /\ Contents' = SubSeq(Contents, 1, off) \o item'
      /\ SubSeq(Contents', 1, off) = SubSeq(Contents, 1, off)
  <2>0. off \in 0 .. size /\ item' \in Seq(Char) /\ off \in 0 .. off
    BY <1>1
  <2>1. Contents' = SubSeq(Contents, 1, off) \o item'
    BY ONLY WalkInv, <1>2, <2>0, Replaced, ZenonT(60)
  <2>2. \A o \in 0 .. off : SubSeq(Contents', 1, o) = SubSeq(Contents, 1, o)
    BY ONLY WalkInv, <1>2, <2>0, Replaced, ZenonT(60)
  <2>3. QED
    BY <2>0, <2>1, <2>2
<1>4. Leads(frames, tree, base, Contents')
  <2>0. off \in 0 .. size /\ item' \in Seq(Char) /\ \A i \in DOMAIN frames : frames[i].off <= off
    BY <1>1
  <2>1. Leads(frames, tree, base, Contents)
    BY DEF WalkInv
  <2>2. QED
    BY ONLY WalkInv, <1>2, <2>0, <2>1, Replaced, ZenonT(60)
<1>5. Inv' /\ off <= size'
  <2>1. size' = off + Len(item') /\ Len(item') \in Nat /\ Inv'
    BY <1>1, <1>2, LenProperties DEF Replaces
  <2>2. QED
    BY <1>1, <2>1
<1>6. Contents' = Dest \o <<"/">> \o item'
  BY <1>1, <1>3
<1>7. QED
  BY <1>1, <1>3, <1>4, <1>5, <1>6 DEF WalkInv, Given, Found, Position, NextItem, Goto, given

LEMMA StillKeeps ==
  ASSUME WalkInv, Ask \/ LastItem \/ UNCHANGED wvars
  PROVE  WalkInv'
<1>1. Inv' /\ Contents' = Contents /\ size' = size
  BY SameText DEF Ask, LastItem, wvars
<1>2. CASE Ask
  BY <1>1, <1>2 DEF WalkInv, Given, Found, Position, Ask, Goto, Keep, given
<1>3. CASE LastItem
  BY <1>1, <1>3 DEF WalkInv, Given, Found, Position, LastItem, Goto, Keep, given
<1>4. CASE UNCHANGED wvars
  BY <1>1, <1>4 DEF WalkInv, Given, Found, Position, wvars, given
<1>5. QED
  BY <1>2, <1>3, <1>4

LEMMA WalkInitInv ==
  ASSUME WalkInit
  PROVE  WalkInv
<1>1. Inv
  BY InitInv DEF WalkInit, Init
<1>2. frames = <<>> /\ <<>> \in Seq(Frame(tree)) /\ DOMAIN <<>> = {} /\ <<>> \in Seq(Char)
  BY EmptySeq DEF WalkInit
<1>3. Leads(frames, tree, base, Contents)
  BY <1>2 DEF Leads
<1>4. QED
  BY <1>1, <1>2, <1>3 DEF WalkInv, Given, Found, Position, WalkInit

THEOREM WalkInvariance == WalkSpec => []WalkInv
<1>1. WalkInv /\ [WalkNext]_wvars => WalkInv'
  <2> SUFFICES ASSUME WalkInv, [WalkNext]_wvars PROVE WalkInv'
    OBVIOUS
  <2>1. ASSUME NEW name \in frames[Depth].left, Read(name) PROVE WalkInv'
    BY <2>1, ReadKeeps
  <2>2. QED
    BY <2>1, BeginKeeps, AddSlashKeeps, OpenKeeps, CloseDirKeeps, StatKeeps, ListDirectoryKeeps,
       CutKeeps, NewBufferKeeps, OtherSideKeeps, OtherSlashKeeps, NextItemKeeps, StillKeeps
       DEF WalkNext, WalkStep, Done
<1>2. QED
  BY <1>1, WalkInitInv, PTL DEF WalkSpec

-----------------------------------------------------------------------------
(***************************************************************************)
(* Every path that the walk and the loop over the items hand to the system *)
(* is a terminated text, and nothing was written outside of the buffer.    *)
(***************************************************************************)
THEOREM PathsAreStrings == WalkSpec => [](InBounds /\ IsCString)
<1>1. WalkInv => InBounds /\ IsCString
  BY DEF WalkInv, Inv
<1>2. QED
  BY <1>1, WalkInvariance, PTL

(***************************************************************************)
(* After any number of directories below it, the buffer leads to the       *)
(* directory that is being read: the offsets kept in the calls of          *)
(* iterate_local_directory and iterate_remote_directory always fit.        *)
(***************************************************************************)
THEOREM NeverLost == WalkSpec => []PathIsDirectoryRead
<1>1. WalkInv => PathIsDirectoryRead
  <2> SUFFICES ASSUME WalkInv, pc = "read" PROVE PathIsDirectoryRead
    BY DEF PathIsDirectoryRead
  <2> DEFINE f == frames[Len(frames)]
  <2>1. frames # <<>> /\ size = f.off
    BY DEF WalkInv, Position
  <2>2. Len(frames) \in DOMAIN frames /\ f \in Frame(tree)
    BY <2>1, AllOpen
  <2>3. Contents[size] = "/" /\ LookupIn(tree, base, SubSeq(Contents, 1, size), TRUE).dir = f.dir
    BY <2>1, <2>2 DEF WalkInv, Leads
  <2>4. SubSeq(Contents, 1, size) = Contents
    BY Size, SubSeqFull DEF WalkInv
  <2>5. QED
    BY <2>1, <2>2, <2>3, <2>4 DEF PathIsDirectoryRead, Lookup, Depth, Frame
<1>2. QED
  BY <1>1, WalkInvariance, PTL

(***************************************************************************)
(* iterate_directory_setextra asks for each item by the very name that the *)
(* walk found, behind the path of the other side.                          *)
(***************************************************************************)
THEOREM RightName == WalkSpec => []AskedByName
<1>1. WalkInv => AskedByName
  BY DEF WalkInv, Position, AskedByName
<1>2. QED
  BY <1>1, WalkInvariance, PTL

-----------------------------------------------------------------------------
(* What a path leads to: LookupIn goes from one name to the next.          *)

SlashAt(b, s, i) == i \in {Len(b), Len(s) + 1} \/ s[i] = "/"
NoSlash(b, s, k, i) == \A l \in k + 1 .. i - 1 : ~SlashAt(b, s, l)
Previous(b, s, i) == CHOOSE k \in Len(b) .. i - 1 : SlashAt(b, s, k) /\ NoSlash(b, s, k, i)

First == {[kind |-> "dir", dir |-> Root, links |-> 0]}

\* What the path leads to at i, if g says it for the places before.
LeadsTo(t, b, s, f, g, i) ==
  IF i = Len(b) THEN First
  ELSE Enter(t, g[Previous(b, s, i)], SubSeq(s, Previous(b, s, i) + 1, i - 1), f \/ i <= Len(s))

\* A directory is one of the tree's, and nothing else is.
IsPlace(t, d) == d.kind = "dir" <=> d.dir \in DOMAIN t

LEMMA LeastNat ==
  ASSUME NEW T, T \subseteq Nat, T # {}
  PROVE  \E x \in T : \A y \in T : x <= y
<1> DEFINE Less == OpToRel(<, Nat)
<1> HIDE DEF Less
<1>1. IsWellFoundedOn(Less, Nat)
  BY NatLessThanWellFounded, Zenon DEF Less
<1>2. \E x \in T : \A y \in T : ~(<<y, x>> \in Less)
  BY <1>1, WFMin
<1>3. \A y, z \in Nat : <<y, z>> \in Less <=> y < z
  BY DEF Less, OpToRel
<1>4. PICK x \in T : \A y \in T : ~(<<y, x>> \in Less)
  BY <1>2
<1>5. ASSUME NEW y \in T PROVE x <= y
  <2>1. x \in Nat /\ y \in Nat
    OBVIOUS
  <2>2. ~(y < x)
    BY <1>3, <1>4, <2>1
  <2>3. QED
    BY <2>1, <2>2
<1>6. QED
  BY <1>5

LEMMA PreviousSlash ==
  ASSUME NEW b, NEW s, Len(b) \in Nat, Len(s) \in Nat, NEW i \in Len(b) + 1 .. Len(s) + 1
  PROVE  /\ Previous(b, s, i) \in Len(b) .. i - 1 /\ SlashAt(b, s, Previous(b, s, i))
         /\ NoSlash(b, s, Previous(b, s, i), i)
<1> DEFINE T == {n \in 1 .. i - Len(b) : SlashAt(b, s, i - n)}
<1>1. T \subseteq Nat /\ i - Len(b) \in T
  BY DEF SlashAt
<1>2. PICK n \in T : \A m \in T : n <= m
  BY <1>1, LeastNat
<1>3. n \in 1 .. i - Len(b) /\ SlashAt(b, s, i - n) /\ i - n \in Len(b) .. i - 1
  BY <1>2
<1>4. ASSUME NEW l \in (i - n) + 1 .. i - 1 PROVE ~SlashAt(b, s, l)
  <2>1. i - l \in 1 .. i - Len(b) /\ i - (i - l) = l /\ ~(n <= i - l)
    BY <1>3, <1>4
  <2>2. i - l \notin T
    BY <1>2, <2>1
  <2>3. QED
    BY <2>1, <2>2
<1>5. \E k \in Len(b) .. i - 1 : SlashAt(b, s, k) /\ NoSlash(b, s, k, i)
  BY <1>3, <1>4 DEF NoSlash
<1>6. QED
  BY <1>5, Zenon DEF Previous

LEMMA LooksBack ==
  ASSUME NEW t, NEW b, NEW s, NEW f, Len(b) \in Nat, Len(s) \in Nat, NEW i \in Len(b) .. Len(s) + 1,
         NEW g, NEW h, \A j \in Len(b) .. i - 1 : g[j] = h[j]
  PROVE  LeadsTo(t, b, s, f, g, i) = LeadsTo(t, b, s, f, h, i)
<1>1. CASE i = Len(b)
  BY <1>1 DEF LeadsTo
<1>2. CASE i # Len(b)
  <2>1. i \in Len(b) + 1 .. Len(s) + 1
    BY <1>2
  <2>2. Previous(b, s, i) \in Len(b) .. i - 1
    BY <2>1, PreviousSlash
  <2>3. g[Previous(b, s, i)] = h[Previous(b, s, i)]
    BY <2>2
  <2>4. QED
    BY <1>2, <2>3 DEF LeadsTo
<1>3. QED
  BY <1>1, <1>2

\* The function that LookupIn defines.
IsSearch(g, t, b, s, f) == g = [i \in Len(b) .. Len(s) + 1 |-> LeadsTo(t, b, s, f, g, i)]

LEMMA LeadsSomewhere ==
  ASSUME NEW t, NEW b, NEW s, NEW f, Len(b) \in Nat, Len(s) \in Nat
  PROVE  \E g : IsSearch(g, t, b, s, f)
<1> DEFINE N == Len(s) + 1
           Upto(m) == \E g : \A i \in Len(b) .. m : g[i] = LeadsTo(t, b, s, f, g, i)
           Bad == {m \in Nat : m <= N /\ ~Upto(m)}
<1>1. Bad = {}
  <2>1. SUFFICES ASSUME Bad # {} PROVE FALSE
    OBVIOUS
  <2>2. Bad \subseteq Nat
    OBVIOUS
  <2>3. PICK m \in Bad : \A y \in Bad : m <= y
    BY <2>1, <2>2, LeastNat
  <2>4. m \in Nat /\ m <= N /\ ~Upto(m)
    BY <2>3
  <2>5. \E g : \A i \in Len(b) .. m - 1 : g[i] = LeadsTo(t, b, s, f, g, i)
    <3>1. CASE m = 0
      <4>1. Len(b) .. m - 1 = {}
        BY <3>1
      <4>2. QED
        BY <4>1
    <3>2. CASE m # 0
      <4>1. m - 1 \in Nat /\ m - 1 <= N /\ ~(m <= m - 1)
        BY <2>4, <3>2
      <4>2. m - 1 \notin Bad
        BY <2>3, <4>1
      <4>3. Upto(m - 1)
        BY <4>1, <4>2
      <4>4. QED
        BY <4>3
    <3>3. QED
      BY <3>1, <3>2
  <2>6. PICK g : \A i \in Len(b) .. m - 1 : g[i] = LeadsTo(t, b, s, f, g, i)
    BY <2>5
  <2> DEFINE h == [i \in Len(b) .. m |-> IF i = m THEN LeadsTo(t, b, s, f, g, m) ELSE g[i]]
  <2>7. \A j \in Len(b) .. m : h[j] = IF j = m THEN LeadsTo(t, b, s, f, g, m) ELSE g[j]
    OBVIOUS
  <2> HIDE DEF h
  <2>8. ASSUME NEW i \in Len(b) .. m PROVE h[i] = LeadsTo(t, b, s, f, h, i)
    <3>1. i \in Len(b) .. N /\ \A j \in Len(b) .. i - 1 : j \in Len(b) .. m /\ j # m
      BY <2>4
    <3>2. \A j \in Len(b) .. i - 1 : g[j] = h[j]
      BY <2>7, <3>1
    <3>3. LeadsTo(t, b, s, f, g, i) = LeadsTo(t, b, s, f, h, i)
      BY <3>1, <3>2, LooksBack
    <3>4. CASE i = m
      BY <2>7, <3>3, <3>4
    <3>5. CASE i # m
      <4>1. i \in Len(b) .. m - 1
        BY <2>4, <3>5
      <4>2. QED
        BY <2>6, <2>7, <3>3, <3>5, <4>1
    <3>6. QED
      BY <3>4, <3>5
  <2>9. Upto(m)
    BY <2>8
  <2>10. QED
    BY <2>4, <2>9
<1>2. N \in Nat /\ N <= N /\ N \notin Bad
  BY <1>1
<1>3. PICK g : \A i \in Len(b) .. N : g[i] = LeadsTo(t, b, s, f, g, i)
  BY <1>2
<1> DEFINE h == [i \in Len(b) .. N |-> g[i]]
<1>4. ASSUME NEW i \in Len(b) .. N PROVE g[i] = LeadsTo(t, b, s, f, h, i)
  <2>1. \A j \in Len(b) .. i - 1 : j \in Len(b) .. N
    BY <1>4
  <2>2. \A j \in Len(b) .. i - 1 : g[j] = h[j]
    BY <2>1
  <2> HIDE DEF h
  <2>3. LeadsTo(t, b, s, f, g, i) = LeadsTo(t, b, s, f, h, i)
    BY <1>4, <2>2, LooksBack
  <2>4. QED
    BY <1>3, <2>3
<1>5. h = [i \in Len(b) .. Len(s) + 1 |-> LeadsTo(t, b, s, f, h, i)]
  BY <1>4
<1>6. QED
  BY <1>5 DEF IsSearch

LEMMA TargetPlace ==
  ASSUME NEW t \in Trees, NEW x \in DOMAIN t, NEW n \in DOMAIN t[x], NEW d, NEW f
  PROVE  IsPlace(t, Target(d, t[x][n], f)) /\ IsPlace(t, None)
<1> DEFINE e == t[x][n]
<1>1. 0 \notin DOMAIN t /\ ((IF e.kind = "link" THEN e.target ELSE e.kind) = "dir" <=> e.dir \in DOMAIN t)
  BY WalkAssumption
<1> HIDE DEF e
<1>2. IsPlace(t, None)
  BY <1>1 DEF IsPlace, None
<1>3. ASSUME e.kind # "link" PROVE IsPlace(t, Target(d, e, f))
  <2>1. Target(d, e, f) = [kind |-> e.kind, dir |-> e.dir, links |-> d.links]
    BY <1>3 DEF Target
  <2>2. QED
    BY <1>1, <1>3, <2>1 DEF IsPlace
<1>4. ASSUME e.kind = "link" PROVE IsPlace(t, Target(d, e, f))
  <2>1. CASE ~f
    <3>1. Target(d, e, f) = [kind |-> "link", dir |-> 0, links |-> d.links]
      BY <1>4, <2>1 DEF Target
    <3>2. QED
      BY <1>1, <3>1 DEF IsPlace
  <2>2. CASE f /\ d.links = MaxLinks
    <3>1. Target(d, e, f) = None
      BY <1>4, <2>2 DEF Target
    <3>2. QED
      BY <1>2, <3>1
  <2>3. CASE f /\ d.links # MaxLinks
    <3>1. Target(d, e, f) = [kind |-> e.target, dir |-> e.dir, links |-> d.links + 1]
      BY <1>4, <2>3 DEF Target
    <3>2. QED
      BY <1>1, <1>4, <3>1 DEF IsPlace
  <2>4. QED
    BY <2>1, <2>2, <2>3
<1>5. QED
  BY <1>2, <1>3, <1>4 DEF e

\* Only directories of the tree are found, and on paths that are not too long.
LEMMA PlaceFound ==
  ASSUME NEW t \in Trees, NEW b, NEW s, NEW f, Len(b) \in Nat, Len(s) \in Nat, Len(b) <= Len(s)
  PROVE  /\ IsPlace(t, LookupIn(t, b, s, f))
         /\ LookupIn(t, b, s, f).dir \in DOMAIN t => Len(s) <= PathMax
<1> DEFINE Slash(i) == i \in {Len(b), Len(s) + 1} \/ s[i] = "/"
           U(g) == [i \in Len(b) .. Len(s) + 1 |->
                      IF i = Len(b) THEN {[kind |-> "dir", dir |-> Root, links |-> 0]}
                      ELSE LET j == CHOOSE k \in Len(b) .. i - 1 :
                                      Slash(k) /\ \A l \in k + 1 .. i - 1 : ~Slash(l)
                           IN  Enter(t, g[j], SubSeq(s, j + 1, i - 1), f \/ i <= Len(s))]
           G == CHOOSE g : g = U(g)
           found == IF Len(s) > PathMax THEN {} ELSE G[Len(s) + 1]
           look == IF found = {} THEN None ELSE CHOOSE d \in found : TRUE
<1>1. LookupIn(t, b, s, f) = look
  BY Zenon DEF LookupIn
<1>2. ASSUME NEW g PROVE U(g) = [i \in Len(b) .. Len(s) + 1 |-> LeadsTo(t, b, s, f, g, i)]
  <2> DEFINE P(i) == CHOOSE k \in Len(b) .. i - 1 : Slash(k) /\ \A l \in k + 1 .. i - 1 : ~Slash(l)
  <2>1. \A i : P(i) = Previous(b, s, i)
    BY Zenon DEF Previous, SlashAt, NoSlash
  <2> HIDE DEF P
  <2>2. \A i : LeadsTo(t, b, s, f, g, i) =
               IF i = Len(b) THEN {[kind |-> "dir", dir |-> Root, links |-> 0]}
               ELSE Enter(t, g[P(i)], SubSeq(s, P(i) + 1, i - 1), f \/ i <= Len(s))
    BY <2>1, Zenon DEF LeadsTo, First
  <2>3. QED
    BY <2>2, Zenon DEF P
<1>3. G = [i \in Len(b) .. Len(s) + 1 |-> LeadsTo(t, b, s, f, G, i)]
  <2> HIDE DEF U
  <2>1. \E g : g = U(g)
    <3>1. PICK g : IsSearch(g, t, b, s, f)
      BY LeadsSomewhere
    <3>2. U(g) = [i \in Len(b) .. Len(s) + 1 |-> LeadsTo(t, b, s, f, g, i)]
      BY <1>2
    <3>3. g = U(g)
      BY <3>1, <3>2, Zenon DEF IsSearch
    <3>4. QED
      BY <3>3
  <2>2. G = U(G)
    BY <2>1
  <2> HIDE DEF G
  <2>3. QED
    BY <1>2, <2>2
<1> HIDE DEF G
<1>4. \A i \in Len(b) .. Len(s) + 1 : G[i] = LeadsTo(t, b, s, f, G, i)
  BY <1>3
<1> DEFINE Bad == {i \in Len(b) .. Len(s) + 1 : \E d \in G[i] : ~IsPlace(t, d)}
<1>5. Bad = {}
  <2>1. SUFFICES ASSUME Bad # {} PROVE FALSE
    OBVIOUS
  <2>2. Bad \subseteq Nat
    OBVIOUS
  <2>3. PICK i \in Bad : \A y \in Bad : i <= y
    BY <2>1, <2>2, LeastNat
  <2>4. i \in Len(b) .. Len(s) + 1 /\ G[i] = LeadsTo(t, b, s, f, G, i)
    BY <1>4, <2>3
  <2>5. PICK d \in G[i] : ~IsPlace(t, d)
    BY <2>3
  <2>6. CASE i = Len(b)
    <3>1. d = [kind |-> "dir", dir |-> Root, links |-> 0]
      BY <2>4, <2>5, <2>6 DEF LeadsTo, First
    <3>2. Root \in DOMAIN t
      BY WalkAssumption
    <3>3. QED
      BY <2>5, <3>1, <3>2 DEF IsPlace
  <2>7. CASE i # Len(b)
    <3> DEFINE j == Previous(b, s, i)
               name == SubSeq(s, j + 1, i - 1)
    <3>1. j \in Len(b) .. i - 1
      <4>1. i \in Len(b) + 1 .. Len(s) + 1
        BY <2>4, <2>7
      <4>2. QED
        BY <4>1, PreviousSlash
    <3>2. d \in Enter(t, G[j], name, f \/ i <= Len(s))
      BY <2>4, <2>5, <2>7 DEF LeadsTo
    <3>3. \A x \in G[j] : IsPlace(t, x)
      <4>1. j \in Len(b) .. Len(s) + 1 /\ ~(i <= j)
        BY <2>4, <3>1
      <4>2. j \notin Bad
        BY <2>3, <4>1
      <4>3. QED
        BY <4>1, <4>2
    <3> HIDE DEF j, name
    <3>4. CASE name = <<>>
      BY <2>5, <3>2, <3>3, <3>4 DEF Enter
    <3>5. CASE name # <<>>
      <4>1. PICK x \in G[j] : /\ x.dir \in DOMAIN t /\ name \in DOMAIN t[x.dir]
                              /\ d = Target(x, t[x.dir][name], f \/ i <= Len(s))
        BY <3>2, <3>5 DEF Enter
      <4>2. QED
        BY <2>5, <4>1, TargetPlace
    <3>6. QED
      BY <3>4, <3>5
  <2>8. QED
    BY <2>6, <2>7
<1>6. Len(s) + 1 \in Len(b) .. Len(s) + 1
  OBVIOUS
<1>7. \A d \in found : IsPlace(t, d)
  BY <1>5, <1>6
<1>8. IsPlace(t, None) /\ None.dir \notin DOMAIN t
  BY WalkAssumption DEF IsPlace, None
<1>9. CASE found = {}
  BY <1>1, <1>8, <1>9
<1>10. CASE found # {}
  <2>1. look \in found /\ Len(s) <= PathMax
    <3>1. ~(Len(s) > PathMax) /\ PathMax \in Nat
      BY <1>10, WalkAssumption
    <3>2. QED
      BY <1>10, <3>1
  <2>2. QED
    BY <1>1, <1>7, <2>1
<1>11. QED
  BY <1>9, <1>10
-----------------------------------------------------------------------------
(* What can be reached.                                                    *)

LEMMA SameSearch ==
  ASSUME UNCHANGED given
  PROVE  /\ Within' = Within /\ ignored' = ignored /\ tree' = tree
         /\ \A r : FullPath(r)' = FullPath(r) /\ Entries(r)' = Entries(r)
         /\ \A d, r, n : Entry(d, r, n)' = Entry(d, r, n)
         /\ \A d, n, s : Seen(d, n, s)' = Seen(d, n, s)
<1>1. tree' = tree /\ base' = base /\ remote' = remote /\ follow' = follow /\ ignored' = ignored
  BY DEF given
<1>2. Within' = Within
  BY <1>1 DEF Within, Entries, Entry, Seen, IsAsked, Lookup, FullPath
<1>3. \A r : FullPath(r)' = FullPath(r)
  BY <1>1 DEF FullPath
<1>4. \A d, n, s : Seen(d, n, s)' = Seen(d, n, s)
  BY <1>1 DEF Seen, IsAsked, Lookup
<1>5. \A d, r, n : Entry(d, r, n)' = Entry(d, r, n)
  BY <1>1 DEF Entry, Seen, IsAsked, Lookup, FullPath
<1>6. \A r : Entries(r)' = Entries(r)
  BY <1>1 DEF Entries, Entry, Seen, IsAsked, Lookup, FullPath
<1>7. QED
  BY <1>1, <1>2, <1>3, <1>4, <1>5, <1>6

\* The function that Within is.
Further(S) == S \cup UNION {Entries(r) : r \in {s \in S : LeadsOn(s)}}
IsWithin(g) == g = [k \in 0 .. PathMax |-> IF k = 0 THEN {<<>>} ELSE Further(g[k - 1])]

LEMMA WithinExists == \E g : IsWithin(g)
<1> DEFINE Upto(m) == \E g : \A k \in 0 .. m : g[k] = IF k = 0 THEN {<<>>} ELSE Further(g[k - 1])
           Bad == {m \in Nat : ~Upto(m)}
<1>1. Bad = {}
  <2>1. SUFFICES ASSUME Bad # {} PROVE FALSE
    OBVIOUS
  <2>2. Bad \subseteq Nat
    OBVIOUS
  <2>3. PICK m \in Bad : \A y \in Bad : m <= y
    BY <2>1, <2>2, LeastNat
  <2>4. m \in Nat /\ ~Upto(m)
    BY <2>3
  <2>5. CASE m = 0
    <3> DEFINE g == [k \in {0} |-> {<<>>}]
    <3>1. \A k \in 0 .. m : g[k] = IF k = 0 THEN {<<>>} ELSE Further(g[k - 1])
      BY <2>5
    <3>2. QED
      BY <2>4, <3>1
  <2>6. CASE m # 0
    <3>1. m - 1 \in Nat /\ ~(m <= m - 1)
      BY <2>4, <2>6
    <3>2. m - 1 \notin Bad
      BY <2>3, <3>1
    <3>3. PICK g : \A k \in 0 .. m - 1 : g[k] = IF k = 0 THEN {<<>>} ELSE Further(g[k - 1])
      BY <3>1, <3>2
    <3> DEFINE h == [k \in 0 .. m |-> IF k = m THEN Further(g[m - 1]) ELSE g[k]]
    <3>4. \A k \in 0 .. m : h[k] = IF k = m THEN Further(g[m - 1]) ELSE g[k]
      OBVIOUS
    <3> HIDE DEF h
    <3>5. ASSUME NEW k \in 0 .. m PROVE h[k] = IF k = 0 THEN {<<>>} ELSE Further(h[k - 1])
      <4>1. CASE k = 0
        <5>1. h[k] = g[k] /\ k \in 0 .. m - 1
          BY <2>4, <2>6, <3>4, <4>1
        <5>2. QED
          BY <3>3, <4>1, <5>1
      <4>2. CASE k # 0
        <5>1. k - 1 \in 0 .. m /\ k - 1 # m
          BY <2>4, <4>2
        <5>2. h[k - 1] = g[k - 1]
          BY <3>4, <5>1
        <5>3. CASE k = m
          BY <3>4, <4>2, <5>2, <5>3
        <5>4. CASE k # m
          <6>1. k \in 0 .. m - 1
            BY <2>4, <5>4
          <6>2. QED
            BY <3>3, <3>4, <4>2, <5>2, <5>4, <6>1
        <5>5. QED
          BY <5>3, <5>4
      <4>3. QED
        BY <4>1, <4>2
    <3>6. QED
      BY <2>4, <3>5
  <2>7. QED
    BY <2>5, <2>6
<1>2. PathMax \in Nat /\ PathMax \notin Bad
  BY <1>1, WalkAssumption
<1>3. PICK g : \A k \in 0 .. PathMax : g[k] = IF k = 0 THEN {<<>>} ELSE Further(g[k - 1])
  BY <1>2
<1> DEFINE h == [k \in 0 .. PathMax |-> g[k]]
<1>4. \A k \in 0 .. PathMax : h[k] = g[k]
  OBVIOUS
<1>5. h = [k \in 0 .. PathMax |-> h[k]]
  BY <1>4
<1> HIDE DEF h
<1>6. ASSUME NEW k \in 0 .. PathMax PROVE h[k] = IF k = 0 THEN {<<>>} ELSE Further(h[k - 1])
  <2>1. CASE k = 0
    BY <1>3, <1>4, <2>1
  <2>2. CASE k # 0
    <3>1. k - 1 \in 0 .. PathMax
      BY <1>2, <2>2
    <3>2. QED
      BY <1>3, <1>4, <2>2, <3>1
  <2>3. QED
    BY <2>1, <2>2
<1>7. QED
  BY <1>5, <1>6 DEF IsWithin

LEMMA WithinDefined ==
  /\ Within[0] = {<<>>}
  /\ \A k \in 1 .. PathMax : Within[k] = Further(Within[k - 1])
<1>1. PathMax \in Nat
  BY WalkAssumption
<1> DEFINE U(g) == [k \in 0 .. PathMax |->
                      IF k = 0 THEN {<<>>}
                      ELSE LET above == g[k - 1]
                           IN  above \cup UNION {Entries(r) : r \in {s \in above : LeadsOn(s)}}]
<1>2. Within = CHOOSE g : g = U(g)
  BY Zenon DEF Within
<1>3. \A g : IsWithin(g) <=> g = U(g)
  BY Zenon DEF IsWithin, Further
<1> HIDE DEF U
<1>4. Within = U(Within)
  <2>1. \E g : g = U(g)
    BY <1>3, WithinExists
  <2>2. QED
    BY <1>2, <2>1
<1>5. Within = [k \in 0 .. PathMax |-> IF k = 0 THEN {<<>>} ELSE Further(Within[k - 1])]
  BY <1>3, <1>4 DEF IsWithin
<1>6. \A k \in 0 .. PathMax : Within[k] = IF k = 0 THEN {<<>>} ELSE Further(Within[k - 1])
  BY <1>5
<1>7. QED
  BY <1>1, <1>6

\* Each name leads one further, and what is within stays so.
LEMMA GoesFurther ==
  ASSUME NEW k \in 1 .. PathMax, NEW r \in Within[k - 1], LeadsOn(r)
  PROVE  Entries(r) \subseteq Within[k]
BY WithinDefined DEF Further

LEMMA StaysWithin ==
  ASSUME NEW k \in 0 .. PathMax
  PROVE  Within[k] \subseteq Within[PathMax]
<1> DEFINE Bad == {m \in 0 .. PathMax : ~(Within[PathMax - m] \subseteq Within[PathMax])}
<1>1. PathMax \in Nat
  BY WalkAssumption
<1>2. Bad = {}
  <2>1. SUFFICES ASSUME Bad # {} PROVE FALSE
    OBVIOUS
  <2>2. Bad \subseteq Nat
    OBVIOUS
  <2>3. PICK m \in Bad : \A y \in Bad : m <= y
    BY <2>1, <2>2, LeastNat
  <2>4. m \in 0 .. PathMax /\ m # 0
    BY <1>1, <2>3
  <2>5. m - 1 \in 0 .. PathMax /\ ~(m <= m - 1)
    BY <1>1, <2>4
  <2>6. Within[PathMax - (m - 1)] \subseteq Within[PathMax]
    <3>1. m - 1 \notin Bad
      BY <2>3, <2>5
    <3>2. QED
      BY <2>5, <3>1
  <2>7. PathMax - (m - 1) \in 1 .. PathMax /\ (PathMax - (m - 1)) - 1 = PathMax - m
    BY <1>1, <2>4
  <2>8. Within[PathMax - m] \subseteq Within[PathMax - (m - 1)]
    BY <2>7, WithinDefined DEF Further
  <2>9. QED
    BY <2>3, <2>6, <2>8
<1>3. PathMax - k \in 0 .. PathMax /\ PathMax - (PathMax - k) = k
  BY <1>1
<1>4. QED
  BY <1>2, <1>3

\* What is closed under listing holds all of it.
LEMMA ClosedHoldsAll ==
  ASSUME NEW S, <<>> \in S, \A x \in S : LeadsOn(x) => Entries(x) \subseteq S
  PROVE  Within[PathMax] \subseteq S
<1> DEFINE Bad == {k \in 0 .. PathMax : ~(Within[k] \subseteq S)}
<1>1. PathMax \in Nat
  BY WalkAssumption
<1>2. Bad = {}
  <2>1. SUFFICES ASSUME Bad # {} PROVE FALSE
    OBVIOUS
  <2>2. Bad \subseteq Nat
    OBVIOUS
  <2>3. PICK k \in Bad : \A y \in Bad : k <= y
    BY <2>1, <2>2, LeastNat
  <2>4. CASE k = 0
    BY <2>3, <2>4, WithinDefined
  <2>5. CASE k # 0
    <3>1. k \in 1 .. PathMax /\ k - 1 \in 0 .. PathMax /\ ~(k <= k - 1)
      BY <1>1, <2>3, <2>5
    <3>2. Within[k - 1] \subseteq S
      <4>1. k - 1 \notin Bad
        BY <2>3, <3>1
      <4>2. QED
        BY <3>1, <4>1
    <3>3. Within[k] \subseteq S
      BY <3>1, <3>2, WithinDefined DEF Further
    <3>4. QED
      BY <2>3, <3>3
  <2>6. QED
    BY <2>4, <2>5
<1>3. QED
  BY <1>1, <1>2
-----------------------------------------------------------------------------
(* The paths in the buffer.                                                *)

Start == base \o (IF base[Len(base)] = "/" THEN <<>> ELSE <<"/">>)

LEMMA PathText ==
  ASSUME Given, NEW r \in Seq(Char)
  PROVE  /\ base \in Seq(Char) /\ Len(base) \in Nat /\ Len(base) > 0
         /\ Start \in Seq(Char) /\ Len(Start) \in Nat /\ Len(base) <= Len(Start)
         /\ FullPath(r) = Start \o r /\ FullPath(r) \in Seq(Char)
         /\ Len(FullPath(r)) = Len(Start) + Len(r) /\ Len(r) \in Nat
<1>1. base \in Seq(Char) /\ base # <<>>
  BY WalkAssumption DEF Given
<1>2. Len(base) \in Nat /\ Len(base) > 0
  BY <1>1, EmptySeq
<1> DEFINE e == IF base[Len(base)] = "/" THEN <<>> ELSE <<"/">>
<1>3. e \in Seq(Char) /\ Len(e) \in Nat
  BY WalkAssumption
<1> HIDE DEF e
<1>4. Start \in Seq(Char) /\ Len(Start) = Len(base) + Len(e)
  BY <1>1, <1>3, ConcatProperties DEF Start, e
<1>5. FullPath(r) = Start \o r
  BY DEF FullPath, Start
<1>6. Start \o r \in Seq(Char) /\ Len(Start \o r) = Len(Start) + Len(r)
  BY <1>4, ConcatProperties
<1>7. Len(r) \in Nat
  BY LenProperties
<1>8. QED
  BY <1>1, <1>2, <1>3, <1>4, <1>5, <1>6, <1>7

\* A part of a path that ends where the rest begins.
LEMMA PartsOf ==
  ASSUME NEW p \in Seq(Char), NEW q \in Seq(Char)
  PROVE  /\ SubSeq(p \o q, 1, Len(p)) = p
         /\ SubSeq(p \o q, Len(p) + 1, Len(p \o q)) = q
         /\ p \o q \in Seq(Char) /\ Len(p \o q) = Len(p) + Len(q)
<1>1. /\ p \o q \in Seq(Char) /\ Len(p \o q) = Len(p) + Len(q)
      /\ \A i \in 1 .. Len(p) + Len(q) : (p \o q)[i] = IF i <= Len(p) THEN p[i] ELSE q[i - Len(p)]
  BY ConcatProperties
<1>2. Len(p) \in Nat /\ Len(q) \in Nat
      /\ (\A i \in 1 .. Len(p) : p[i] \in Char) /\ \A i \in 1 .. Len(q) : q[i] \in Char
  BY LenProperties, ElementOfSeq
<1>3. PICK c : c = p \o q
  OBVIOUS
<1>4. SubSeq(c, 1, Len(p)) = p
  <2>1. \A i \in 1 .. Len(p) : c[i] = p[i] /\ c[i] \in Char
    BY <1>1, <1>2, <1>3
  <2>2. PICK x : x = SubSeq(c, 1, Len(p))
    OBVIOUS
  <2>3. x \in Seq(Char) /\ Len(x) = Len(p) /\ \A i \in 1 .. Len(p) : x[i] = c[i]
    BY <1>2, <2>1, <2>2, SubSeqProperties
  <2>4. x = p
    BY <2>1, <2>3, SeqEqual
  <2>5. QED
    BY <2>2, <2>4
<1>5. SubSeq(c, Len(p) + 1, Len(c)) = q
  <2> DEFINE m == Len(p) + 1
             n == Len(p) + Len(q)
  <2>1. \A i \in 1 .. Len(q) : c[m + i - 1] = q[i]
    <3>1. TAKE i \in 1 .. Len(q)
    <3>2. m + i - 1 \in 1 .. Len(p) + Len(q) /\ ~(m + i - 1 <= Len(p)) /\ (m + i - 1) - Len(p) = i
      BY <1>2
    <3> HIDE DEF m
    <3>3. QED
      BY <1>1, <1>3, <3>2
  <2>2. m \in Int /\ n \in Int /\ n - m + 1 = Len(q) /\ (m <= n <=> Len(q) # 0)
    BY <1>2
  <2>3. \A i \in m .. n : c[i] \in Char
    <3>1. TAKE i \in m .. n
    <3>2. i - Len(p) \in 1 .. Len(q) /\ m + (i - Len(p)) - 1 = i
      BY <1>2
    <3> HIDE DEF m, n
    <3>3. QED
      BY <1>2, <2>1, <3>2
  <2>4. Len(c) = n
    BY <1>1, <1>3
  <2> HIDE DEF m, n
  <2>5. PICK x : x = SubSeq(c, m, n)
    OBVIOUS
  <2>6. x \in Seq(Char) /\ Len(x) = Len(q) /\ \A i \in 1 .. Len(q) : x[i] = c[m + i - 1]
    BY <1>2, <2>2, <2>3, <2>5, SubSeqProperties
  <2>7. x = q
    BY <2>1, <2>6, SeqEqual
  <2>8. QED
    BY <2>4, <2>5, <2>7 DEF m
<1>6. QED
  BY <1>1, <1>3, <1>4, <1>5

LEMMA PathLonger ==
  ASSUME Given, NEW r \in Seq(Char), NEW q \in Seq(Char)
  PROVE  FullPath(r \o q) = FullPath(r) \o q /\ r \o q \in Seq(Char)
<1>1. r \o q \in Seq(Char)
  BY ConcatProperties
<1>2. Start \in Seq(Char) /\ FullPath(r) = Start \o r /\ FullPath(r \o q) = Start \o (r \o q)
  BY <1>1, PathText
<1>3. (Start \o r) \o q = Start \o (r \o q)
  BY <1>2, ConcatAssociative
<1>4. QED
  BY <1>1, <1>2, <1>3

LEMMA RelativePart ==
  ASSUME WalkInv, NEW r \in Seq(Char), Contents = FullPath(r), off = Len(Start)
  PROVE  From(off) = r
<1>1. Given /\ Len(Contents) = size
  BY Size DEF WalkInv
<1>2. Start \in Seq(Char) /\ Contents = Start \o r
  BY <1>1, PathText
<1>3. QED
  BY <1>1, <1>2, PartsOf DEF From

\* Only a directory's path ends in a slash.
LEMMA EndOf ==
  ASSUME NEW r \in Seq(Char), NEW q \in Seq(Char), q # <<>>
  PROVE  r \o q # <<>> /\ (LeadsOn(r \o q) <=> q[Len(q)] = "/")
<1>1. Len(q) \in Nat \ {0} /\ Len(r) \in Nat
  BY EmptySeq
<1>2. Len(r \o q) = Len(r) + Len(q) /\ r \o q \in Seq(Char)
      /\ (r \o q)[Len(r) + Len(q)] = q[(Len(r) + Len(q)) - Len(r)]
  BY <1>1, ConcatProperties
<1>3. (Len(r) + Len(q)) - Len(r) = Len(q) /\ Len(r \o q) # 0
  BY <1>1, <1>2
<1>4. r \o q # <<>>
  BY <1>2, <1>3, EmptySeq
<1>5. QED
  BY <1>2, <1>3, <1>4 DEF LeadsOn

\* The name of an entry.
LEMMA NameText ==
  ASSUME Given, NEW d \in DOMAIN tree, NEW name \in DOMAIN tree[d]
  PROVE  name \in Seq(Char) /\ name # <<>> /\ Len(name) \in Nat /\ Len(name) > 0 /\ name[Len(name)] # "/"
<1>1. name \in Seq(Char) /\ name # <<>> /\ \A i \in DOMAIN name : name[i] # "/"
  BY WalkAssumption DEF Given
<1>2. Len(name) \in Nat /\ Len(name) > 0
  BY <1>1, EmptySeq
<1>3. Len(name) \in DOMAIN name
  BY <1>1, <1>2, LenProperties
<1>4. QED
  BY <1>1, <1>2, <1>3
-----------------------------------------------------------------------------
(* What was listed, at any moment of the walk.                             *)

\* R are the relative paths of the directories that are being read.
Along(R) ==
  /\ DOMAIN R = DOMAIN frames
  /\ \A i \in DOMAIN frames :
       /\ R[i] \in Seq(Char) /\ R[i] \in Within[i - 1] /\ LeadsOn(R[i])
       /\ i <= frames[i].off /\ frames[i].off <= PathMax
       /\ SubSeq(Contents, 1, frames[i].off) = FullPath(R[i])
       /\ frames[i].left \subseteq DOMAIN tree[frames[i].dir]

\* now is the directory to open, or the name of the entry looked at.
Doing(R, now) ==
  LET n == Len(frames)
  IN  /\ now \in Seq(Char)
      /\ pc = "open" =>
           now \in Within[n] /\ LeadsOn(now) /\ n < size /\ Contents = FullPath(now)
      /\ pc \in {"stat", "directory"} => now \in DOMAIN tree[frames[n].dir] \ {Dot, DotDot}
      /\ pc = "stat" => Contents = FullPath(R[n] \o now)
      /\ pc = "directory" =>
           /\ Contents = FullPath(R[n] \o now \o <<"/">>)
           /\ Seen(frames[n].dir, now, FullPath(R[n] \o now)) = "dir"

\* If nothing failed, the entries of each directory listed are listed as well, except for what
\* is still to come or looked at now.
Accounted(R, now) ==
  failures = 0 =>
    /\ \A x \in items \cup {<<>>} : LeadsOn(x) =>
         Entries(x) \subseteq items \/ (\E i \in DOMAIN R : R[i] = x) \/ (pc = "open" /\ x = now)
    /\ \A i \in DOMAIN frames : \A name \in DOMAIN tree[frames[i].dir] \ {Dot, DotDot} :
         \/ name \in frames[i].left
         \/ Entry(frames[i].dir, R[i], name) \subseteq items
         \/ i = Len(frames) /\ pc \in {"stat", "directory"} /\ name = now

Searches == pc \in {"open", "read", "stat", "directory", "cut", "sort"}

Search ==
  /\ off = Len(Start) /\ items \subseteq Within[PathMax] \ {<<>>}
  /\ \E R, now : Along(R) /\ Doing(R, now) /\ Accounted(R, now)

SearchInv ==
  /\ failures \in Nat
  /\ pc \in {"base", "slash"} => items = {}
  /\ pc = "base" => Contents = <<>>
  /\ pc = "slash" => Contents = base
  /\ Searches => Search

\* The directories being read, and what is listed of them.
LEMMA BeingRead ==
  ASSUME WalkInv, NEW R, Along(R), NEW i \in DOMAIN frames
  PROVE  /\ i \in 1 .. PathMax /\ i \in Nat
         /\ frames[i].dir \in DOMAIN tree
         /\ Entries(R[i]) = UNION {Entry(frames[i].dir, R[i], name) :
                                     name \in DOMAIN tree[frames[i].dir] \ {Dot, DotDot}}
         /\ Entries(R[i]) \subseteq Within[i] /\ Within[i] \subseteq Within[PathMax]
<1>1. /\ i \in 1 .. Len(frames) /\ Len(frames) \in Nat /\ frames[i] \in Frame(tree)
      /\ frames[i].off \in 1 .. size /\ size \in Nat
  BY AllOpen, Size DEF WalkInv
<1>2. /\ R[i] \in Seq(Char) /\ R[i] \in Within[i - 1] /\ LeadsOn(R[i])
      /\ i <= frames[i].off /\ frames[i].off <= PathMax
      /\ SubSeq(Contents, 1, frames[i].off) = FullPath(R[i])
  BY DEF Along
<1>3. PathMax \in Nat /\ i \in 1 .. PathMax /\ i \in Nat
  BY <1>1, <1>2, WalkAssumption
<1>4. frames[i].dir \in DOMAIN tree
  BY <1>1 DEF Frame
<1>5. Lookup(FullPath(R[i]), TRUE).dir = frames[i].dir
  BY <1>2 DEF WalkInv, Leads, Lookup
<1>6. Lookup(FullPath(R[i]), TRUE).kind = "dir"
  <2>1. /\ tree \in Trees /\ Len(base) \in Nat /\ Len(FullPath(R[i])) \in Nat
        /\ Len(base) <= Len(FullPath(R[i]))
    BY <1>2, PathText DEF WalkInv, Given
  <2>2. IsPlace(tree, Lookup(FullPath(R[i]), TRUE))
    BY <2>1, PlaceFound DEF Lookup
  <2>3. QED
    BY <1>4, <1>5, <2>2 DEF IsPlace
<1>7. Entries(R[i]) = UNION {Entry(frames[i].dir, R[i], name) :
                               name \in DOMAIN tree[frames[i].dir] \ {Dot, DotDot}}
  BY <1>5, <1>6 DEF Entries
<1>8. Entries(R[i]) \subseteq Within[i]
  BY <1>2, <1>3, GoesFurther
<1>9. Within[i] \subseteq Within[PathMax]
  BY <1>3, StaysWithin
<1>10. QED
  BY <1>3, <1>4, <1>7, <1>8, <1>9

\* Nothing happens to the directories being read.
LEMMA AlongStays ==
  ASSUME UNCHANGED given, NEW R, Along(R), DOMAIN frames' = DOMAIN frames,
         \A i \in DOMAIN frames :
           /\ frames'[i].off = frames[i].off /\ frames'[i].dir = frames[i].dir
           /\ frames'[i].left \subseteq frames[i].left
           /\ SubSeq(Contents', 1, frames[i].off) = SubSeq(Contents, 1, frames[i].off)
  PROVE  Along(R)'
<1>1. Within' = Within /\ tree' = tree /\ \A r : FullPath(r)' = FullPath(r)
  BY SameSearch
<1>2. QED
  BY <1>1 DEF Along

LEMMA AlongReplaced ==
  ASSUME WalkInv, UNCHANGED given, frames' = frames, NEW R, Along(R),
         NEW p \in 0 .. size, NEW s \in Seq(Char), Replaces(p, s), \A i \in DOMAIN frames : frames[i].off <= p
  PROVE  Along(R)'
<1>1. p \in Nat /\ \A i \in DOMAIN frames : frames[i].off \in 1 .. size
  BY AllOpen, Size DEF WalkInv
<1>2. \A i \in DOMAIN frames : frames[i].off \in 0 .. p
  BY <1>1
<1>3. \A o \in 0 .. p : SubSeq(Contents', 1, o) = SubSeq(Contents, 1, o)
  <2>1. p \in 0 .. size /\ s \in Seq(Char)
    OBVIOUS
  <2>2. QED
    BY ONLY WalkInv, Replaces(p, s), <2>1, Replaced, ZenonT(60)
<1>4. QED
  BY <1>2, <1>3, AlongStays

LEMMA BeginSearches ==
  ASSUME WalkInv, SearchInv, Begin
  PROVE  SearchInv'
<1>1. base \in Seq(Char) /\ size \in 0 .. size /\ Contents = <<>> /\ items = {} /\ pc = "base"
  BY WalkAssumption, Size DEF WalkInv, Given, Begin, SearchInv
<1>2. Replaces(size, base)
  BY <1>1, AppendReplaces DEF WalkInv, Begin
<1>3. Contents' = SubSeq(Contents, 1, size) \o base
  BY <1>1, <1>2, Replaced
<1>4. SubSeq(Contents, 1, size) = Contents
  BY Size, SubSeqFull DEF WalkInv
<1>5. Contents' = base
  BY <1>1, <1>3, <1>4, ConcatEmptySeq
<1>6. pc' = "slash" /\ base' = base /\ items' = items /\ failures' = failures
  BY DEF Begin, Goto, Keep, given
<1>7. QED
  BY <1>1, <1>5, <1>6 DEF SearchInv, Searches

LEMMA AddSlashSearches ==
  ASSUME WalkInv, SearchInv, AddSlash
  PROVE  SearchInv'
<1>1. /\ Contents = base /\ items = {} /\ pc = "slash" /\ frames = <<>> /\ size \in Nat /\ size > 0
      /\ Len(base) = size /\ base \in Seq(Char) /\ Given /\ size \in 0 .. size /\ <<"/">> \in Seq(Char)
  BY WalkAssumption, Size DEF WalkInv, AddSlash, SearchInv, Position, Given
<1>2. Contents' = Start /\ size' = Len(Start)
  <2>1. data[size - 1] = base[size]
    <3>1. size \in 1 .. size
      BY <1>1
    <3>2. Contents[size] = data[size - 1]
      BY <3>1 DEF Contents
    <3>3. QED
      BY <1>1, <3>2
  <2>2. CASE data[size - 1] = "/"
    <3>1. Contents' = Contents /\ size' = size
      BY <2>2, SameText DEF AddSlash
    <3>2. QED
      BY <1>1, <2>1, <2>2, <3>1, ConcatEmptySeq DEF Start
  <2>3. CASE data[size - 1] # "/"
    <3>1. Replaces(size, <<"/">>)
      BY <2>3, PushReplaces DEF WalkInv, AddSlash
    <3>2. Contents' = SubSeq(Contents, 1, size) \o <<"/">>
      BY <1>1, <3>1, Replaced
    <3>3. SubSeq(Contents, 1, size) = Contents
      BY <1>1, SubSeqFull
    <3>4. Start = base \o <<"/">>
      BY <1>1, <2>1, <2>3 DEF Start
    <3>5. Len(Start) = size + 1 /\ size' = size + 1
      <4>1. Len(<<"/">>) = 1
        OBVIOUS
      <4>2. size' = size + Len(<<"/">>)
        BY <3>1 DEF Replaces
      <4>3. Len(base \o <<"/">>) = Len(base) + Len(<<"/">>)
        BY <1>1, ConcatProperties
      <4>4. QED
        BY <1>1, <3>4, <4>1, <4>2, <4>3
    <3>6. QED
      BY <1>1, <3>2, <3>3, <3>4, <3>5
  <2>4. QED
    BY <2>2, <2>3
<1>3. WalkInv' /\ UNCHANGED given /\ pc' = "open" /\ frames' = frames /\ items' = items
      /\ failures' = failures /\ off' = size'
  BY AddSlashKeeps DEF AddSlash, Goto
<1>5. base' = base /\ Start' = Start /\ Within' = Within /\ FullPath(<<>>)' = FullPath(<<>>)
  BY <1>3, SameSearch DEF given, Start
<1>6. <<>> \in Seq(Char)
  OBVIOUS
<1>7. FullPath(<<>>) = Start /\ Len(Start) > 0
  <2>1. FullPath(<<>>) = Start \o <<>> /\ Start \in Seq(Char)
    BY <1>1, <1>6, PathText
  <2>2. Len(base) <= Len(Start) /\ Len(Start) \in Nat
    BY <1>1, <1>6, PathText
  <2>3. QED
    BY <1>1, <2>1, <2>2, ConcatEmptySeq
<1>8. frames' = <<>> /\ DOMAIN frames' = {} /\ Len(frames') = 0
  BY <1>1, <1>3
<1>9. Along(<<>>)'
  BY <1>8 DEF Along
<1>10. Doing(<<>>, <<>>)'
  BY <1>2, <1>3, <1>5, <1>6, <1>7, <1>8, WithinDefined DEF Doing, LeadsOn
<1>11. Accounted(<<>>, <<>>)'
  BY <1>1, <1>3, <1>8 DEF Accounted
<1>12. Search'
  BY <1>1, <1>2, <1>3, <1>5, <1>9, <1>10, <1>11 DEF Search
<1>13. QED
  BY <1>3, <1>12 DEF SearchInv

LEMMA OpenSearches ==
  ASSUME WalkInv, SearchInv, Open
  PROVE  SearchInv'
<1> DEFINE d == Lookup(Contents, TRUE)
           n == Len(frames)
           new == [off |-> size, dir |-> d.dir, left |-> DOMAIN tree[d.dir]]
<1>1. PICK R, now : Along(R) /\ Doing(R, now) /\ Accounted(R, now)
  BY DEF SearchInv, Search, Searches, Open
<1>2. /\ Contents' = Contents /\ size' = size /\ UNCHANGED given /\ items' = items /\ off' = off
      /\ pc = "open" /\ Start' = Start /\ failures \in Nat
      /\ off = Len(Start) /\ items \subseteq Within[PathMax] \ {<<>>}
  BY SameText DEF Open, SearchInv, Search, Searches, Start, given
<1>3. /\ Within' = Within /\ tree' = tree
      /\ \A r : FullPath(r)' = FullPath(r) /\ Entries(r)' = Entries(r)
      /\ \A x, r, m : Entry(x, r, m)' = Entry(x, r, m)
  BY <1>2, SameSearch
<1>4. now \in Seq(Char) /\ now \in Within[n] /\ LeadsOn(now) /\ n < size /\ Contents = FullPath(now)
  BY <1>1, <1>2 DEF Doing
<1>5. n \in Nat /\ DOMAIN frames = 1 .. n /\ size \in Nat /\ Len(Contents) = size
  BY AllOpen, Size DEF WalkInv
<1>6. IsPlace(tree, d) /\ (d.dir \in DOMAIN tree => size <= PathMax)
  <2>1. tree \in Trees /\ Len(base) \in Nat /\ Len(base) <= Len(Contents)
    BY <1>4, PathText DEF WalkInv, Given
  <2>2. QED
    BY <1>5, <2>1, PlaceFound DEF Lookup
<1>7. CASE d.dir \in DOMAIN tree /\ pc' = "read" /\ frames' = Append(frames, new) /\ failures' = failures
  <2>1. frames \in Seq(Frame(tree)) /\ new \in Frame(tree)
    <3>1. DOMAIN tree[d.dir] \subseteq Seq(Char)
      BY <1>7, WalkAssumption DEF WalkInv, Given
    <3>2. QED
      BY <1>5, <1>7, <3>1 DEF WalkInv, Leads, Frame
  <2>2. /\ frames' \in Seq(Frame(tree)) /\ Len(frames') = n + 1
        /\ \A i \in 1 .. n : frames'[i] = frames[i]
        /\ frames'[n + 1] = new
    BY <1>5, <1>7, <2>1, AppendProperties
  <2>3. DOMAIN frames' = 1 .. n + 1
    BY <2>2, LenProperties
  <2>4. PICK Q : DOMAIN Q = 1 .. n + 1 /\ Q[n + 1] = now /\ \A i \in 1 .. n : Q[i] = R[i]
    <3> DEFINE x == [i \in 1 .. n + 1 |-> IF i = n + 1 THEN now ELSE R[i]]
    <3>1. DOMAIN x = 1 .. n + 1 /\ x[n + 1] = now /\ \A i \in 1 .. n : x[i] = R[i]
      BY <1>5
    <3>2. QED
      BY <3>1
  <2>5. new.off = size /\ new.dir = d.dir /\ new.left = DOMAIN tree[d.dir]
    OBVIOUS
  <2>6. SubSeq(Contents, 1, size) = Contents
    BY <1>5, Size, SubSeqFull DEF WalkInv
  <2> HIDE DEF new, d
  <2>7. Along(Q)'
    <3>1. ASSUME NEW i \in 1 .. n + 1
          PROVE  /\ Q[i] \in Seq(Char) /\ Q[i] \in Within[i - 1] /\ LeadsOn(Q[i])
                 /\ i <= frames'[i].off /\ frames'[i].off <= PathMax
                 /\ SubSeq(Contents, 1, frames'[i].off) = FullPath(Q[i])
                 /\ frames'[i].left \subseteq DOMAIN tree[frames'[i].dir]
      <4>1. CASE i = n + 1
        <5>1. i - 1 = n /\ i <= size
          BY <1>4, <1>5, <4>1
        <5>2. QED
          BY <1>4, <1>6, <1>7, <2>2, <2>4, <2>5, <2>6, <4>1, <5>1
      <4>2. CASE i # n + 1
        <5>1. i \in 1 .. n
          BY <1>5, <4>2
        <5>2. QED
          BY <1>1, <1>5, <2>2, <2>4, <5>1 DEF Along
      <4>3. QED
        BY <4>1, <4>2
    <3>2. QED
      BY <1>2, <1>3, <2>3, <2>4, <3>1 DEF Along
  <2>8. Doing(Q, now)'
    BY <1>4, <1>7 DEF Doing
  <2>9. Accounted(Q, now)'
    <3>1. SUFFICES ASSUME failures = 0
                   PROVE  /\ \A x \in items \cup {<<>>} : LeadsOn(x) =>
                               Entries(x) \subseteq items \/ (\E i \in DOMAIN Q : Q[i] = x)
                          /\ \A i \in 1 .. n + 1 : \A name \in DOMAIN tree[frames'[i].dir] \ {Dot, DotDot} :
                               name \in frames'[i].left \/ Entry(frames'[i].dir, Q[i], name) \subseteq items
      BY <1>2, <1>3, <1>7, <2>3 DEF Accounted
    <3>2. ASSUME NEW x \in items \cup {<<>>}, LeadsOn(x)
          PROVE  Entries(x) \subseteq items \/ (\E i \in DOMAIN Q : Q[i] = x)
      <4>1. Entries(x) \subseteq items \/ (\E i \in DOMAIN R : R[i] = x) \/ x = now
        BY <1>1, <3>1, <3>2 DEF Accounted
      <4>2. DOMAIN R = 1 .. n /\ n + 1 \in DOMAIN Q /\ \A i \in 1 .. n : i \in DOMAIN Q
        BY <1>1, <1>5, <2>4 DEF Along
      <4>3. QED
        BY <2>4, <4>1, <4>2
    <3>3. ASSUME NEW i \in 1 .. n + 1, NEW name \in DOMAIN tree[frames'[i].dir] \ {Dot, DotDot}
          PROVE  name \in frames'[i].left \/ Entry(frames'[i].dir, Q[i], name) \subseteq items
      <4>1. CASE i = n + 1
        BY <2>2, <2>5, <3>3, <4>1
      <4>2. CASE i # n + 1
        <5>1. i \in 1 .. n
          BY <1>5, <4>2
        <5>2. frames'[i] = frames[i] /\ Q[i] = R[i]
          BY <2>2, <2>4, <5>1
        <5>3. QED
          BY <1>1, <1>2, <1>5, <3>1, <5>1, <5>2 DEF Accounted
      <4>3. QED
        BY <4>1, <4>2
    <3>4. QED
      BY <3>2, <3>3
  <2>10. Search'
    BY <1>2, <1>3, <2>7, <2>8, <2>9 DEF Search
  <2>11. QED
    BY <1>2, <1>7, <2>10 DEF SearchInv
<1>8. CASE /\ pc' \in {"cut", "sort"} /\ frames' = frames
           /\ failures' = failures + 1 \/ (failures' = failures /\ d.dir \notin DOMAIN tree)
  <2>1. Along(R)'
    BY <1>1, <1>2, <1>8, AlongStays
  <2>2. Doing(R, now)'
    BY <1>4, <1>8 DEF Doing
  <2>3. Accounted(R, now)'
    <3>1. CASE failures' = failures + 1
      BY <1>2, <3>1 DEF Accounted
    <3>2. CASE failures' = failures /\ d.dir \notin DOMAIN tree
      <4>1. Entries(now) = {}
        BY <1>4, <1>6, <3>2 DEF Entries, IsPlace
      <4>2. QED
        BY <1>1, <1>2, <1>3, <1>8, <3>2, <4>1 DEF Accounted
    <3>3. QED
      BY <1>8, <3>1, <3>2
  <2>4. Search'
    <3>1. off' = Len(Start') /\ items' \subseteq Within'[PathMax] \ {<<>>}
      BY <1>2, <1>3
    <3>2. QED
      BY <2>1, <2>2, <2>3, <3>1, Zenon DEF Search
  <2>5. failures' \in Nat
    <3>1. failures \in Nat
      BY <1>2
    <3>2. failures' = failures + 1 \/ failures' = failures
      BY <1>8
    <3>3. QED
      BY <3>1, <3>2
  <2>6. QED
    BY <1>8, <2>4, <2>5 DEF SearchInv
<1>9. QED
  BY <1>7, <1>8 DEF Open, Goto, OtherFailure

\* What a step that does not walk leaves.
LEMMA Elsewhere ==
  ASSUME SearchInv, pc' \notin {"base", "slash"}, ~Searches', failures' = failures
  PROVE  SearchInv'
BY DEF SearchInv

LEMMA ReadSearches ==
  ASSUME WalkInv, SearchInv, NEW name, Read(name)
  PROVE  SearchInv'
<1> DEFINE n == Len(frames)
           fewer == [frames[n] EXCEPT !.left = @ \ {name}]
<1>1. PICK R, now : Along(R) /\ Doing(R, now) /\ Accounted(R, now)
  BY DEF SearchInv, Search, Searches, Read
<1>2. /\ UNCHANGED given /\ items' = items /\ off' = off /\ failures' = failures /\ pc = "read"
      /\ Start' = Start /\ failures \in Nat
      /\ off = Len(Start) /\ items \subseteq Within[PathMax] \ {<<>>}
  BY DEF Read, SearchInv, Search, Searches, Start, given
<1>3. /\ Within' = Within /\ tree' = tree
      /\ \A r : FullPath(r)' = FullPath(r) /\ Entries(r)' = Entries(r)
      /\ \A x, r, m : Entry(x, r, m)' = Entry(x, r, m)
  BY <1>2, SameSearch
<1>4. /\ n \in DOMAIN frames /\ DOMAIN frames = 1 .. n /\ n \in Nat /\ frames # <<>>
      /\ size = frames[n].off /\ size \in Nat /\ frames \in Seq(Frame(tree))
      /\ \A i \in DOMAIN frames : frames[i] \in Frame(tree) /\ frames[i].off \in 1 .. size
  BY <1>2, AllOpen, Size DEF WalkInv, Position, Leads
<1>5. /\ name \in frames[n].left /\ name \in DOMAIN tree[frames[n].dir] /\ name \in Seq(Char)
      /\ R[n] \in Seq(Char) /\ SubSeq(Contents, 1, size) = FullPath(R[n])
  BY <1>1, <1>4 DEF Read, Along, Depth, Frame
<1>6. frames' = [frames EXCEPT ![n] = fewer]
  BY DEF Read, Taken, Depth
<1>7. /\ fewer.off = frames[n].off /\ fewer.dir = frames[n].dir
      /\ fewer.left = frames[n].left \ {name}
  BY <1>4 DEF Frame
<1> HIDE DEF fewer
<1>8. /\ DOMAIN frames' = 1 .. n /\ Len(frames') = n
      /\ \A i \in 1 .. n : /\ frames'[i].off = frames[i].off /\ frames'[i].dir = frames[i].dir
                           /\ frames'[i].left = IF i = n THEN frames[i].left \ {name} ELSE frames[i].left
  <2>1. DOMAIN frames' = 1 .. n /\ \A i \in 1 .. n : frames'[i] = IF i = n THEN fewer ELSE frames[i]
    BY <1>4, <1>6
  <2>2. Len(frames') = n
    BY <1>4, <1>6
  <2>3. QED
    BY <1>4, <1>7, <2>1, <2>2
<1>9. CASE IsValidName(name)
  <2>1. Replaces(size, name) /\ pc' = "stat" /\ name \notin {Dot, DotDot}
    BY <1>5, <1>9, AppendReplaces DEF WalkInv, Read, Goto, IsValidName
  <2>2. size \in 0 .. size /\ \A i \in DOMAIN frames : frames[i].off \in 0 .. size
    BY <1>4
  <2>3. /\ Contents' = SubSeq(Contents, 1, size) \o name
        /\ \A o \in 0 .. size : SubSeq(Contents', 1, o) = SubSeq(Contents, 1, o)
    BY <1>5, <2>1, <2>2, Replaced
  <2>4. Along(R)'
    BY <1>1, <1>2, <1>4, <1>8, <2>2, <2>3, AlongStays
  <2>5. Contents' = FullPath(R[n] \o name)
    BY <1>5, <2>3, PathLonger DEF WalkInv
  <2>6. Doing(R, name)'
    BY <1>3, <1>4, <1>5, <1>8, <2>1, <2>5 DEF Doing
  <2>7. Accounted(R, name)'
    BY <1>1, <1>2, <1>3, <1>4, <1>8, <2>1 DEF Accounted
  <2>8. Search'
    BY <1>2, <1>3, <2>4, <2>6, <2>7 DEF Search
  <2>9. QED
    BY <1>2, <2>1, <2>8 DEF SearchInv
<1>10. CASE ~IsValidName(name)
  <2>1. Contents' = Contents /\ pc' = "read" /\ name \in {Dot, DotDot}
    BY <1>2, <1>10, SameText DEF Read, IsValidName
  <2>2. Along(R)'
    BY <1>1, <1>2, <1>4, <1>8, <2>1, AlongStays
  <2>3. Doing(R, now)'
    BY <1>1, <2>1 DEF Doing
  <2>4. Accounted(R, now)'
    BY <1>1, <1>2, <1>3, <1>4, <1>8, <2>1 DEF Accounted
  <2>5. Search'
    BY <1>2, <1>3, <2>2, <2>3, <2>4 DEF Search
  <2>6. QED
    BY <1>2, <2>1, <2>5 DEF SearchInv
<1>11. QED
  BY <1>9, <1>10

LEMMA CloseDirSearches ==
  ASSUME WalkInv, SearchInv, CloseDir
  PROVE  SearchInv'
<1> DEFINE n == Len(frames)
<1>1. PICK R, now : Along(R) /\ Doing(R, now) /\ Accounted(R, now)
  BY DEF SearchInv, Search, Searches, CloseDir
<1>2. /\ UNCHANGED given /\ items' = items /\ off' = off /\ pc = "read" /\ pc' \in {"sort", "cut"}
      /\ Contents' = Contents /\ Start' = Start /\ failures \in Nat
      /\ off = Len(Start) /\ items \subseteq Within[PathMax] \ {<<>>}
  BY SameText DEF CloseDir, Goto, SearchInv, Search, Searches, Start, given
<1>3. /\ Within' = Within /\ tree' = tree
      /\ \A r : FullPath(r)' = FullPath(r) /\ Entries(r)' = Entries(r)
      /\ \A x, r, m : Entry(x, r, m)' = Entry(x, r, m)
  BY <1>2, SameSearch
<1>4. n \in DOMAIN frames /\ DOMAIN frames = 1 .. n /\ n \in Nat
      /\ frames \in Seq(Frame(tree)) /\ \A i \in 1 .. n : frames[i] \in Frame(tree)
  BY <1>2, AllOpen DEF WalkInv, Position, Leads
<1>5. failures' = failures + 1 \/ (failures' = failures /\ frames[n].left = {})
  BY DEF CloseDir, Depth, OtherFailure
<1>6. DOMAIN frames' = 1 .. n - 1 /\ \A i \in 1 .. n - 1 : frames'[i] = frames[i]
  <2>1. PICK m : m = n - 1
    OBVIOUS
  <2>2. m \in Nat /\ \A i \in 1 .. m : frames[i] \in Frame(tree)
    BY <1>4, <2>1
  <2>3. frames' = SubSeq(frames, 1, m)
    BY <2>1 DEF CloseDir, Front
  <2>4. frames' \in Seq(Frame(tree)) /\ Len(frames') = m /\ \A i \in 1 .. m : frames'[i] = frames[i]
    BY <2>2, <2>3, SubSeqProperties
  <2>5. QED
    BY <2>1, <2>4, LenProperties
<1>7. PICK Q : DOMAIN Q = 1 .. n - 1 /\ \A i \in 1 .. n - 1 : Q[i] = R[i]
  <2> DEFINE x == [i \in 1 .. n - 1 |-> R[i]]
  <2>1. DOMAIN x = 1 .. n - 1 /\ \A i \in 1 .. n - 1 : x[i] = R[i]
    OBVIOUS
  <2>2. QED
    BY <2>1
<1>8. \A i \in 1 .. n - 1 : i \in 1 .. n /\ i # n
  <2>1. n \in Nat
    BY <1>4
  <2> HIDE DEF n
  <2>2. QED
    BY <2>1
<1>9. Along(Q)'
  <2>1. ASSUME NEW i \in 1 .. n - 1
        PROVE  /\ Q[i] \in Seq(Char) /\ Q[i] \in Within[i - 1] /\ LeadsOn(Q[i])
               /\ i <= frames'[i].off /\ frames'[i].off <= PathMax
               /\ SubSeq(Contents, 1, frames'[i].off) = FullPath(Q[i])
               /\ frames'[i].left \subseteq DOMAIN tree[frames'[i].dir]
    <3>1. frames'[i] = frames[i] /\ Q[i] = R[i] /\ i \in DOMAIN frames
      BY <1>4, <1>6, <1>7, <1>8
    <3>2. QED
      BY <1>1, <3>1 DEF Along
  <2>2. QED
    BY <1>2, <1>3, <1>6, <1>7, <2>1 DEF Along
<1>10. Doing(Q, now)'
  BY <1>1, <1>2 DEF Doing
<1>11. Accounted(Q, now)'
  <2>1. CASE failures' = failures + 1
    BY <1>2, <2>1 DEF Accounted
  <2>2. CASE failures' = failures /\ frames[n].left = {} /\ failures = 0
    <3>1. Entries(R[n]) \subseteq items
      <4>1. Entries(R[n]) = UNION {Entry(frames[n].dir, R[n], name) :
                                     name \in DOMAIN tree[frames[n].dir] \ {Dot, DotDot}}
        BY <1>1, <1>4, BeingRead
      <4>2. \A name \in DOMAIN tree[frames[n].dir] \ {Dot, DotDot} :
              Entry(frames[n].dir, R[n], name) \subseteq items
        BY <1>1, <1>2, <1>4, <2>2 DEF Accounted
      <4>3. QED
        BY <4>1, <4>2
    <3>2. ASSUME NEW x \in items \cup {<<>>}, LeadsOn(x)
          PROVE  Entries(x) \subseteq items \/ \E i \in DOMAIN Q : Q[i] = x
      <4>1. Entries(x) \subseteq items \/ \E i \in DOMAIN R : R[i] = x
        BY <1>1, <1>2, <2>2, <3>2 DEF Accounted
      <4>2. ASSUME NEW i \in DOMAIN R, R[i] = x, i # n PROVE i \in DOMAIN Q /\ Q[i] = x
        <5>1. i \in 1 .. n - 1
          BY <1>1, <1>4, <4>2 DEF Along
        <5>2. QED
          BY <1>7, <4>2, <5>1
      <4>3. QED
        BY <3>1, <4>1, <4>2
    <3>3. ASSUME NEW i \in 1 .. n - 1, NEW name \in DOMAIN tree[frames[i].dir] \ {Dot, DotDot}
          PROVE  name \in frames[i].left \/ Entry(frames[i].dir, Q[i], name) \subseteq items
      BY <1>1, <1>2, <1>4, <1>7, <1>8, <2>2, <3>3 DEF Accounted
    <3>4. QED
      BY <1>2, <1>3, <1>6, <2>2, <3>2, <3>3 DEF Accounted
  <2>3. CASE failures' = failures /\ failures # 0
    BY <2>3 DEF Accounted
  <2>4. QED
    BY <1>5, <2>1, <2>2, <2>3
<1>12. Search'
  BY <1>2, <1>3, <1>9, <1>10, <1>11 DEF Search
<1>13. failures' \in Nat
  <2>1. failures \in Nat
    BY <1>2
  <2>2. QED
    BY <1>5, <2>1
<1>14. QED
  BY <1>2, <1>12, <1>13 DEF SearchInv

\* The entry looked at: its name, its path, and what it is listed as.
LEMMA LooksAt ==
  ASSUME WalkInv, NEW R, NEW now, Along(R), Doing(R, now), pc \in {"stat", "directory"}
  PROVE  LET n == Len(frames)
             c == R[n] \o now
         IN  /\ n \in DOMAIN frames /\ n \in Nat /\ R[n] \in Seq(Char) /\ now \in Seq(Char)
             /\ now \in DOMAIN tree[frames[n].dir] \ {Dot, DotDot}
             /\ c \in Seq(Char) /\ c # <<>> /\ ~LeadsOn(c)
             /\ c \o <<"/">> \in Seq(Char) /\ c \o <<"/">> # <<>> /\ LeadsOn(c \o <<"/">>)
             /\ FullPath(c) = FullPath(R[n]) \o now
             /\ FullPath(c \o <<"/">>) = FullPath(c) \o <<"/">>
             /\ Len(FullPath(R[n])) = frames[n].off /\ FullPath(R[n]) \in Seq(Char)
             /\ n <= frames[n].off /\ Len(FullPath(c \o <<"/">>)) = frames[n].off + Len(now) + 1
             /\ frames[n].off \in Nat /\ Len(now) \in Nat
<1> DEFINE n == Len(frames)
           c == R[n] \o now
           o == frames[n].off
<1>1. /\ n \in DOMAIN frames /\ n \in Nat /\ frames[n] \in Frame(tree) /\ o \in 1 .. size
      /\ size \in Nat /\ Contents \in Seq(Char) /\ Len(Contents) = size
  BY AllOpen, Size DEF WalkInv, Position
<1>2. now \in DOMAIN tree[frames[n].dir] \ {Dot, DotDot}
  BY DEF Doing
<1>3. /\ R[n] \in Seq(Char) /\ n <= o /\ SubSeq(Contents, 1, o) = FullPath(R[n])
  BY <1>1 DEF Along
<1>4. now \in Seq(Char) /\ now # <<>> /\ Len(now) \in Nat /\ now[Len(now)] # "/"
  BY <1>1, <1>2, NameText DEF WalkInv, Frame
<1> HIDE DEF n, o
<1>5. Len(FullPath(R[n])) = o /\ FullPath(R[n]) \in Seq(Char)
  <2>1. \A i \in 1 .. o : Contents[i] \in Char
    BY <1>1, ElementOfSeq
  <2>2. 1 \in Int /\ o \in Int /\ 1 <= o /\ o - 1 + 1 = o
    BY <1>1
  <2>3. SubSeq(Contents, 1, o) \in Seq(Char) /\ Len(SubSeq(Contents, 1, o)) = o
    BY <2>1, <2>2, SubSeqProperties
  <2>4. QED
    BY <1>3, <2>3
<1>6. c \in Seq(Char) /\ c # <<>> /\ ~LeadsOn(c)
  <2>1. c \in Seq(Char)
    BY <1>3, <1>4, ConcatProperties
  <2>2. QED
    BY <1>3, <1>4, <2>1, EndOf
<1>7. FullPath(c) = FullPath(R[n]) \o now
  BY <1>3, <1>4, PathLonger DEF WalkInv
<1>8. <<"/">> \in Seq(Char) /\ <<"/">> # <<>> /\ Len(<<"/">>) = 1 /\ <<"/">>[Len(<<"/">>)] = "/"
  BY WalkAssumption
<1> HIDE DEF c
<1>9. c \o <<"/">> \in Seq(Char) /\ FullPath(c \o <<"/">>) = FullPath(c) \o <<"/">>
  BY <1>6, <1>8, PathLonger DEF WalkInv
<1>10. c \o <<"/">> # <<>> /\ LeadsOn(c \o <<"/">>)
  BY <1>6, <1>8, EndOf
<1>11. Len(FullPath(c \o <<"/">>)) = o + Len(now) + 1
  <2>1. FullPath(c) \in Seq(Char) /\ Len(FullPath(c)) = o + Len(now)
    BY <1>4, <1>5, <1>7, PartsOf
  <2>2. Len(FullPath(c) \o <<"/">>) = Len(FullPath(c)) + 1
    BY <1>8, <2>1, PartsOf
  <2>3. QED
    BY <1>9, <2>1, <2>2
<1>12. o \in Nat
  BY <1>1
<1>13. QED
  BY <1>1, <1>2, <1>3, <1>4, <1>5, <1>6, <1>7, <1>9, <1>10, <1>11, <1>12 DEF n, c, o

\* What is listed of it can be reached.
LEMMA ListsWithin ==
  ASSUME WalkInv, NEW R, NEW now, Along(R), Doing(R, now), pc \in {"stat", "directory"}
  PROVE  LET n == Len(frames)
         IN  /\ Entry(frames[n].dir, R[n], now) \subseteq Within[n]
             /\ Entry(frames[n].dir, R[n], now) \subseteq Within[PathMax] \ {<<>>}
<1> DEFINE n == Len(frames)
           e == Entry(frames[n].dir, R[n], now)
<1>1. n \in DOMAIN frames /\ now \in DOMAIN tree[frames[n].dir] \ {Dot, DotDot}
  BY LooksAt
<1>2. e \subseteq Entries(R[n]) /\ Entries(R[n]) \subseteq Within[n] /\ Within[n] \subseteq Within[PathMax]
  BY <1>1, BeingRead
<1>3. <<>> \notin e
  BY LooksAt DEF Entry
<1>4. QED
  BY <1>2, <1>3

LEMMA StatSearches ==
  ASSUME WalkInv, SearchInv, Stat
  PROVE  SearchInv'
<1> DEFINE n == Len(frames)
           e(R, now) == Entry(frames[n].dir, R[n], now)
           kind(R, now) == Seen(frames[n].dir, now, FullPath(R[n] \o now))
<1>1. PICK R, now : Along(R) /\ Doing(R, now) /\ Accounted(R, now)
  BY DEF SearchInv, Search, Searches, Stat
<1>2. /\ UNCHANGED given /\ off' = off /\ frames' = frames /\ pc = "stat" /\ Start' = Start
      /\ failures \in Nat /\ off = Len(Start) /\ items \subseteq Within[PathMax] \ {<<>>}
  BY DEF Stat, SearchInv, Search, Searches, Start, given
<1>3. /\ Within' = Within /\ tree' = tree /\ ignored' = ignored
      /\ \A r : FullPath(r)' = FullPath(r) /\ Entries(r)' = Entries(r)
      /\ \A x, r, m : Entry(x, r, m)' = Entry(x, r, m)
      /\ \A x, m, s : Seen(x, m, s)' = Seen(x, m, s)
  BY <1>2, SameSearch
<1> DEFINE c == R[n] \o now
<1>4. /\ n \in DOMAIN frames /\ R[n] \in Seq(Char) /\ now \in Seq(Char) /\ c \in Seq(Char)
      /\ now \in DOMAIN tree[frames[n].dir] \ {Dot, DotDot}
      /\ ~LeadsOn(c) /\ FullPath(c) = FullPath(R[n]) \o now
      /\ FullPath(c \o <<"/">>) = FullPath(c) \o <<"/">>
      /\ Len(FullPath(R[n])) = frames[n].off /\ FullPath(R[n]) \in Seq(Char)
  BY <1>1, <1>2, LooksAt
<1>5. Contents = FullPath(c)
  BY <1>1, <1>2 DEF Doing
<1>6. From(frames[n].off) = now
  <2>1. Len(Contents) = size
    BY Size DEF WalkInv
  <2>2. PICK p : p = FullPath(R[n])
    OBVIOUS
  <2>3. p \in Seq(Char) /\ Contents = p \o now /\ Len(p) = frames[n].off
    BY <1>4, <1>5, <2>2
  <2>4. SubSeq(p \o now, Len(p) + 1, Len(p \o now)) = now
    BY <1>4, <2>3, PartsOf
  <2>5. QED
    BY <2>1, <2>3, <2>4 DEF From
<1>7. From(off) = c
  BY <1>2, <1>4, <1>5, RelativePart
<1>8. e(R, now) = (IF kind(R, now) = "none" THEN {}
                   ELSE {IF kind(R, now) = "dir" THEN c \o <<"/">> ELSE c}) \ ignored
  BY DEF Entry
<1> HIDE DEF c, n
<1>9. \/ kind(R, now) = "dir" /\ PushBack("/") /\ pc' = "directory" /\ items' = items /\ failures' = failures
      \/ kind(R, now) \notin {"dir", "none"} /\ ListIt /\ pc' = "cut" /\ UNCHANGED vars /\ failures' = failures
      \/ pc' = "cut" /\ UNCHANGED vars /\ items' = items /\ kind(R, now) = "none" /\ failures' = failures
      \/ pc' = "cut" /\ UNCHANGED vars /\ items' = items /\ failures' = failures + 1
  BY <1>5, <1>6 DEF Stat, Goto, OtherFailure, Depth, n, c
<1>10. CASE kind(R, now) = "dir" /\ PushBack("/") /\ pc' = "directory" /\ items' = items /\ failures' = failures
  <2>1. Replaces(size, <<"/">>) /\ <<"/">> \in Seq(Char) /\ size \in 0 .. size /\ size \in Nat
    BY <1>10, WalkAssumption, PushReplaces, Size DEF WalkInv
  <2>2. \A i \in DOMAIN frames : frames[i].off \in 1 .. size /\ frames[i].off <= size
    BY <2>1, AllOpen
  <2>3. Along(R)'
    BY <1>1, <1>2, <2>1, <2>2, AlongReplaced
  <2>4. Contents' = FullPath(c \o <<"/">>)
    <3>1. Contents' = SubSeq(Contents, 1, size) \o <<"/">>
      BY <2>1, Replaced
    <3>2. SubSeq(Contents, 1, size) = Contents
      BY Size, SubSeqFull DEF WalkInv
    <3>3. QED
      BY <1>4, <1>5, <3>1, <3>2
  <2>5. Doing(R, now)'
    BY <1>2, <1>3, <1>4, <1>10, <2>4 DEF Doing, n, c
  <2>6. Accounted(R, now)'
    BY <1>1, <1>2, <1>3, <1>10 DEF Accounted
  <2>7. Search'
    BY <1>2, <1>3, <1>10, <2>3, <2>5, <2>6 DEF Search
  <2>8. QED
    BY <1>2, <1>10, <2>7 DEF SearchInv
<1>11. CASE pc' = "cut" /\ UNCHANGED vars /\ failures' = failures /\ items' = items \cup e(R, now)
            /\ \A x \in e(R, now) : ~LeadsOn(x)
  <2>1. Contents' = Contents
    BY <1>11, SameText
  <2>2. Along(R)'
    BY <1>1, <1>2, <2>1, AlongStays
  <2>3. Doing(R, now)'
    BY <1>4, <1>11 DEF Doing
  <2>4. items' \subseteq Within[PathMax] \ {<<>>}
    BY <1>1, <1>2, <1>11, ListsWithin DEF n
  <2>5. Accounted(R, now)'
    <3>1. SUFFICES ASSUME failures = 0
                   PROVE  /\ \A x \in items' \cup {<<>>} : LeadsOn(x) =>
                               Entries(x) \subseteq items' \/ \E i \in DOMAIN R : R[i] = x
                          /\ \A i \in DOMAIN frames : \A name \in DOMAIN tree[frames[i].dir] \ {Dot, DotDot} :
                               name \in frames[i].left \/ Entry(frames[i].dir, R[i], name) \subseteq items'
      BY <1>2, <1>3, <1>11 DEF Accounted
    <3>2. ASSUME NEW x \in items' \cup {<<>>}, LeadsOn(x)
          PROVE  Entries(x) \subseteq items' \/ \E i \in DOMAIN R : R[i] = x
      <4>1. x \in items \cup {<<>>}
        BY <1>11, <3>2
      <4>2. Entries(x) \subseteq items \/ \E i \in DOMAIN R : R[i] = x
        BY <1>1, <1>2, <3>1, <3>2, <4>1 DEF Accounted
      <4>3. QED
        BY <1>11, <4>2
    <3>3. ASSUME NEW i \in DOMAIN frames, NEW name \in DOMAIN tree[frames[i].dir] \ {Dot, DotDot}
          PROVE  name \in frames[i].left \/ Entry(frames[i].dir, R[i], name) \subseteq items'
      <4>1. \/ name \in frames[i].left
            \/ Entry(frames[i].dir, R[i], name) \subseteq items
            \/ i = n /\ name = now
        BY <1>1, <3>1, <3>3 DEF Accounted, n
      <4>2. QED
        BY <1>11, <4>1
    <3>4. QED
      BY <3>2, <3>3
  <2>6. Search'
    BY <1>2, <1>3, <2>2, <2>3, <2>4, <2>5 DEF Search
  <2>7. QED
    BY <1>2, <1>11, <2>6 DEF SearchInv
<1>12. CASE kind(R, now) \notin {"dir", "none"} /\ ListIt /\ pc' = "cut" /\ UNCHANGED vars /\ failures' = failures
  <2>1. e(R, now) = {c} \ ignored
    BY <1>8, <1>12
  <2>2. items' = items \cup e(R, now)
    BY <1>7, <1>12, <2>1 DEF ListIt
  <2>3. \A x \in e(R, now) : ~LeadsOn(x)
    BY <1>4, <2>1
  <2>4. QED
    BY <1>11, <1>12, <2>2, <2>3
<1>13. CASE pc' = "cut" /\ UNCHANGED vars /\ items' = items /\ kind(R, now) = "none" /\ failures' = failures
  <2>1. e(R, now) = {}
    BY <1>8, <1>13
  <2>2. QED
    BY <1>11, <1>13, <2>1
<1>14. CASE pc' = "cut" /\ UNCHANGED vars /\ items' = items /\ failures' = failures + 1
  <2>1. Contents' = Contents
    BY <1>14, SameText
  <2>2. Along(R)'
    BY <1>1, <1>2, <2>1, AlongStays
  <2>3. Doing(R, now)'
    BY <1>4, <1>14 DEF Doing
  <2>4. failures' \in Nat /\ failures' # 0
    BY <1>2, <1>14
  <2>5. Accounted(R, now)'
    BY <2>4 DEF Accounted
  <2>6. Search'
    BY <1>2, <1>3, <1>14, <2>2, <2>3, <2>5 DEF Search
  <2>7. QED
    BY <1>14, <2>4, <2>6 DEF SearchInv
<1>15. QED
  BY <1>9, <1>10, <1>12, <1>13, <1>14

LEMMA ListDirectorySearches ==
  ASSUME WalkInv, SearchInv, ListDirectory
  PROVE  SearchInv'
<1> DEFINE n == Len(frames)
<1>1. PICK R, now : Along(R) /\ Doing(R, now) /\ Accounted(R, now)
  BY DEF SearchInv, Search, Searches, ListDirectory
<1>2. /\ UNCHANGED given /\ off' = off /\ frames' = frames /\ pc = "directory" /\ Start' = Start
      /\ failures' = failures /\ failures \in Nat /\ Contents' = Contents /\ size' = size
      /\ off = Len(Start) /\ items \subseteq Within[PathMax] \ {<<>>}
  BY SameText DEF ListDirectory, SearchInv, Search, Searches, Start, given
<1>3. /\ Within' = Within /\ tree' = tree /\ ignored' = ignored
      /\ \A r : FullPath(r)' = FullPath(r) /\ Entries(r)' = Entries(r)
      /\ \A d, r, m : Entry(d, r, m)' = Entry(d, r, m)
  BY <1>2, SameSearch
<1> DEFINE x == R[n] \o now \o <<"/">>
           e == Entry(frames[n].dir, R[n], now)
<1>4. /\ n \in DOMAIN frames /\ n \in Nat /\ now \in Seq(Char) /\ x \in Seq(Char)
      /\ now \in DOMAIN tree[frames[n].dir] \ {Dot, DotDot}
      /\ LeadsOn(x) /\ n <= frames[n].off /\ frames[n].off \in Nat /\ Len(now) \in Nat
      /\ Len(FullPath(x)) = frames[n].off + Len(now) + 1
  BY <1>1, <1>2, LooksAt
<1>5. Contents = FullPath(x) /\ Seen(frames[n].dir, now, FullPath(R[n] \o now)) = "dir"
  BY <1>1, <1>2 DEF Doing
<1>6. From(off) = x
  BY <1>2, <1>4, <1>5, RelativePart
<1>7. e = {x} \ ignored
  BY <1>5 DEF Entry
<1>8. n < size
  <2>1. Len(Contents) = size
    BY Size DEF WalkInv
  <2>2. QED
    BY <1>4, <1>5, <2>1
<1>9. e \subseteq Within[n] /\ e \subseteq Within[PathMax] \ {<<>>}
  BY <1>1, <1>2, ListsWithin
<1> HIDE DEF x, e, n
<1>10. items' = items \cup e /\ IF x \in ignored THEN pc' = "cut" ELSE pc' = "open"
  BY <1>6, <1>7 DEF ListDirectory, ListIt, Goto
<1>11. items' \subseteq Within[PathMax] \ {<<>>}
  BY <1>2, <1>9, <1>10
<1>12. Along(R)'
  BY <1>1, <1>2, AlongStays
<1>13. PICK z : z = x
  OBVIOUS
<1>14. Doing(R, z)'
  <2>1. z \notin ignored => z \in Within[n]
    BY <1>7, <1>9, <1>13
  <2>2. CASE z \in ignored
    BY <1>4, <1>10, <1>13, <2>2 DEF Doing
  <2>3. CASE z \notin ignored
    <3>1. /\ z \in Seq(Char) /\ pc' = "open" /\ z \in Within'[Len(frames')] /\ LeadsOn(z)
          /\ Len(frames') < size' /\ Contents' = FullPath(z)' /\ LeadsOn(z)' = LeadsOn(z)
      BY <1>2, <1>3, <1>4, <1>5, <1>8, <1>10, <1>13, <2>1, <2>3 DEF n, LeadsOn
    <3>2. QED
      BY <3>1 DEF Doing
  <2>4. QED
    BY <2>2, <2>3
<1>15. Accounted(R, z)'
  <2>1. SUFFICES ASSUME failures = 0
                 PROVE  /\ \A y \in items' \cup {<<>>} : LeadsOn(y) =>
                             Entries(y) \subseteq items' \/ (\E i \in DOMAIN R : R[i] = y) \/ (pc' = "open" /\ y = z)
                        /\ \A i \in DOMAIN frames : \A name \in DOMAIN tree[frames[i].dir] \ {Dot, DotDot} :
                             name \in frames[i].left \/ Entry(frames[i].dir, R[i], name) \subseteq items'
    <3>1. failures' = failures /\ frames' = frames /\ Len(frames') \in Nat
      BY <1>2, <1>4 DEF n
    <3>2. \A y : LeadsOn(y)' = LeadsOn(y)
      BY <1>3 DEF LeadsOn
    <3>3. QED
      BY <1>3, <2>1, <3>1, <3>2 DEF Accounted
  <2>2. ASSUME NEW y \in items' \cup {<<>>}, LeadsOn(y)
        PROVE  Entries(y) \subseteq items' \/ (\E i \in DOMAIN R : R[i] = y) \/ (pc' = "open" /\ y = z)
    <3>1. CASE y \in e
      BY <1>7, <1>10, <1>13, <3>1
    <3>2. CASE y \notin e
      <4>1. y \in items \cup {<<>>}
        BY <1>10, <2>2, <3>2
      <4>2. Entries(y) \subseteq items \/ \E i \in DOMAIN R : R[i] = y
        BY <1>1, <1>2, <2>1, <2>2, <4>1 DEF Accounted
      <4>3. QED
        BY <1>10, <4>2
    <3>3. QED
      BY <3>1, <3>2
  <2>3. ASSUME NEW i \in DOMAIN frames, NEW name \in DOMAIN tree[frames[i].dir] \ {Dot, DotDot}
        PROVE  name \in frames[i].left \/ Entry(frames[i].dir, R[i], name) \subseteq items'
    <3>1. \/ name \in frames[i].left
          \/ Entry(frames[i].dir, R[i], name) \subseteq items
          \/ i = n /\ name = now
      BY <1>1, <2>1, <2>3 DEF Accounted, n
    <3>2. i = n /\ name = now => Entry(frames[i].dir, R[i], name) = e
      BY DEF e
    <3>3. QED
      BY <1>10, <3>1, <3>2
  <2>4. QED
    BY <2>2, <2>3
<1>16. Search'
  <2>2. off' = Len(Start') /\ items' \subseteq Within'[PathMax] \ {<<>>}
    BY <1>2, <1>3, <1>11
  <2>3. QED
    BY <1>12, <1>14, <1>15, <2>2 DEF Search
<1>17. QED
  BY <1>2, <1>10, <1>16 DEF SearchInv

LEMMA CutSearches ==
  ASSUME WalkInv, SearchInv, Cut
  PROVE  SearchInv'
<1>1. PICK R, now : Along(R) /\ Doing(R, now) /\ Accounted(R, now)
  BY DEF SearchInv, Search, Searches, Cut
<1>2. /\ UNCHANGED given /\ off' = off /\ frames' = frames /\ pc = "cut" /\ pc' = "read"
      /\ Start' = Start /\ failures' = failures /\ failures \in Nat /\ items' = items
      /\ off = Len(Start) /\ items \subseteq Within[PathMax] \ {<<>>}
  BY DEF Cut, Goto, Keep, SearchInv, Search, Searches, Start, given
<1>3. /\ Within' = Within /\ tree' = tree
      /\ \A r : FullPath(r)' = FullPath(r) /\ Entries(r)' = Entries(r)
      /\ \A d, r, m : Entry(d, r, m)' = Entry(d, r, m)
  BY <1>2, SameSearch
<1>4. Along(R)'
  <2>1. PICK o : o = frames[Len(frames)].off
    OBVIOUS
  <2>2. o \in 1 .. size /\ size \in Nat /\ <<>> \in Seq(Char)
    BY <1>2, <2>1, Left, Size DEF WalkInv, Position
  <2>3. o \in 0 .. size /\ EraseAfter(o)
    BY <2>1, <2>2 DEF Cut, CutPath, Depth
  <2>4. Replaces(o, <<>>)
    BY <2>3, EraseReplaces DEF WalkInv
  <2>5. \A i \in DOMAIN frames : frames[i].off <= o
    BY <2>1, AllOpen
  <2>6. QED
    BY <1>1, <1>2, <2>2, <2>3, <2>4, <2>5, AlongReplaced
<1>5. Doing(R, now)'
  BY <1>1, <1>2 DEF Doing
<1>6. Accounted(R, now)'
  BY <1>1, <1>2, <1>3 DEF Accounted
<1>7. Search'
  BY <1>2, <1>3, <1>4, <1>5, <1>6 DEF Search
<1>8. QED
  BY <1>2, <1>7 DEF SearchInv

LEMMA StillSearches ==
  ASSUME WalkInv, SearchInv, UNCHANGED wvars
  PROVE  SearchInv'
<1>1. /\ UNCHANGED given /\ off' = off /\ frames' = frames /\ pc' = pc /\ Contents' = Contents
      /\ size' = size /\ Start' = Start /\ base' = base /\ failures' = failures /\ items' = items
  BY SameText DEF wvars, Start, given
<1>2. /\ Within' = Within /\ tree' = tree
      /\ \A r : FullPath(r)' = FullPath(r) /\ Entries(r)' = Entries(r)
      /\ \A d, r, m : Entry(d, r, m)' = Entry(d, r, m)
      /\ \A d, m, s : Seen(d, m, s)' = Seen(d, m, s)
  BY <1>1, SameSearch
<1>3. ASSUME Search PROVE Search'
  <2>1. PICK R, now : Along(R) /\ Doing(R, now) /\ Accounted(R, now)
    BY <1>3 DEF Search
  <2>2. Along(R)'
    BY <1>1, <2>1, AlongStays
  <2>3. Doing(R, now)'
    BY <1>1, <1>2, <2>1 DEF Doing
  <2>4. Accounted(R, now)'
    BY <1>1, <1>2, <2>1 DEF Accounted
  <2>5. QED
    BY <1>1, <1>2, <1>3, <2>2, <2>3, <2>4 DEF Search
<1>4. QED
  BY <1>1, <1>3 DEF SearchInv, Searches

LEMMA OthersSearch ==
  ASSUME SearchInv, NewBuffer \/ OtherSide \/ OtherSlash \/ NextItem \/ Ask \/ LastItem
  PROVE  SearchInv'
<1>1. pc' \in {"dest", "dest slash", "next", "ask", "done"} /\ failures' = failures
  BY DEF NewBuffer, OtherSide, OtherSlash, NextItem, Ask, LastItem, Goto, Keep
<1>2. QED
  BY <1>1, Elsewhere DEF Searches

LEMMA SearchBegins ==
  ASSUME WalkInit
  PROVE  SearchInv
<1>1. failures = 0 /\ items = {} /\ pc = "base" /\ size = 0
  BY DEF WalkInit
<1>2. Contents = <<>>
  <2>1. Contents \in Seq(Char) /\ Len(Contents) = size
    BY WalkInitInv, Size DEF WalkInv
  <2>2. QED
    BY <1>1, <2>1, EmptySeq
<1>3. QED
  BY <1>1, <1>2 DEF SearchInv, Searches

(***************************************************************************)
(* In any tree, with any links, failures and patterns: what                *)
(* iterate_local_directory or iterate_remote_directory lists can be        *)
(* reached without passing an ignored directory, and if no call failed     *)
(* everything that can be is listed.                                       *)
(***************************************************************************)
THEOREM ListsWhatIsThere == WalkSpec => []ListsReachable
<1>1. WalkInv /\ SearchInv /\ [WalkNext]_wvars => SearchInv'
  <2> SUFFICES ASSUME WalkInv, SearchInv, [WalkNext]_wvars PROVE SearchInv'
    OBVIOUS
  <2>1. ASSUME NEW name \in frames[Depth].left, Read(name) PROVE SearchInv'
    BY <2>1, ReadSearches
  <2>2. QED
    BY <2>1, BeginSearches, AddSlashSearches, OpenSearches, CloseDirSearches, StatSearches,
       ListDirectorySearches, CutSearches, OthersSearch, StillSearches
       DEF WalkNext, WalkStep, Done
<1>2. WalkInv /\ SearchInv => ListsReachable
  <2> SUFFICES ASSUME WalkInv, SearchInv, pc = "sort"
               PROVE  items \subseteq Reachable /\ (failures = 0 => items = Reachable)
    BY DEF ListsReachable
  <2>1. PICK R, now : Along(R) /\ Doing(R, now) /\ Accounted(R, now)
    BY DEF SearchInv, Search, Searches
  <2>2. items \subseteq Reachable
    BY DEF SearchInv, Search, Searches, Reachable
  <2>3. ASSUME failures = 0 PROVE Reachable \subseteq items
    <3>1. DOMAIN R = {}
      BY <2>1 DEF Along, WalkInv, Position
    <3>2. \A x \in items \cup {<<>>} : LeadsOn(x) => Entries(x) \subseteq items \cup {<<>>}
      BY <2>1, <2>3, <3>1 DEF Accounted
    <3>3. Within[PathMax] \subseteq items \cup {<<>>}
      BY <3>2, ClosedHoldsAll
    <3>4. QED
      BY <3>3 DEF Reachable
  <2>4. QED
    BY <2>2, <2>3
<1>3. QED
  BY <1>1, <1>2, SearchBegins, WalkInvariance, PTL DEF WalkSpec
=============================================================================
