----------------------------- MODULE XListProofs -----------------------------
(***************************************************************************)
(* The list of xlist.c and the sort inside its links, for lists of every   *)
(* length.  There is always an arrangement of the nodes, a sequence of     *)
(* them, in which every list that the links hold is a stretch of places    *)
(* (IInv).  The sort is taken step by step first, then its cost, then the  *)
(* other operations; the properties and the refinement of ListSpec follow  *)
(* from what Path, Run and Values are on an arrangement.                   *)
(***************************************************************************)
EXTENDS XList, FiniteSetTheorems, SequenceTheorems, WellFoundedInduction, TLAPS

-----------------------------------------------------------------------------
(* Induction over the numbers, from their order being well founded.        *)

LEMMA Upwards ==
  ASSUME NEW S, 0 \in S, \A n \in Nat : n \in S => n + 1 \in S
  PROVE  \A n \in Nat : n \in S
<1> DEFINE Less == OpToRel(<, Nat)
           Bad == Nat \ S
<1>1. IsWellFoundedOn(Less, Nat)
  BY NatLessThanWellFounded, Zenon
<1>2. \A y, x \in Nat : y < x => <<y, x>> \in Less
  BY DEF OpToRel
<1> HIDE DEF Less
<1>3. ASSUME Bad # {} PROVE FALSE
  <2>1. \E x \in Bad : \A y \in Bad : <<y, x>> \notin Less
    <3>1. Bad \subseteq Nat
      OBVIOUS
    <3> HIDE DEF Bad
    <3>2. QED
      BY <1>1, <1>3, <3>1, WFMin
  <2>2. PICK x \in Bad : \A y \in Bad : <<y, x>> \notin Less
    BY <2>1
  <2>3. x - 1 \in Nat /\ x - 1 < x /\ x = (x - 1) + 1
    OBVIOUS
  <2>4. x - 1 \in S
    BY <1>2, <2>2, <2>3
  <2>5. QED
    BY <2>3, <2>4
<1>4. QED
  BY <1>3

\* Among numbers there is a least one.
LEMMA Least ==
  ASSUME NEW S, NEW m \in S, S \subseteq Nat
  PROVE  \E x \in S : \A y \in S : x <= y
<1> DEFINE Less == OpToRel(<, Nat)
<1>1. IsWellFoundedOn(Less, Nat)
  BY NatLessThanWellFounded, Zenon
<1>2. \A y, x \in Nat : y < x => <<y, x>> \in Less
  BY DEF OpToRel
<1> HIDE DEF Less
<1>3. PICK x \in S : \A y \in S : <<y, x>> \notin Less
  BY <1>1, WFMin
<1>4. ASSUME NEW y \in S PROVE x <= y
  <2>1. x \in Nat /\ y \in Nat /\ ~(y < x)
    BY <1>2, <1>3
  <2>2. QED
    BY <2>1
<1>5. QED
  BY <1>4

\* The same between two bounds.
LEMMA UpTo ==
  ASSUME NEW n \in Int, NEW S, 0 \in S, \A i \in 1 .. n : i - 1 \in S => i \in S
  PROVE  \A i \in 0 .. n : i \in S
<1> DEFINE T == {i \in Nat : i <= n => i \in S}
<1>1. 0 \in T
  OBVIOUS
<1>2. ASSUME NEW i \in Nat, i \in T PROVE i + 1 \in T
  <2>1. i + 1 <= n => i + 1 \in 1 .. n /\ (i + 1) - 1 = i /\ i <= n
    OBVIOUS
  <2>2. QED
    BY <1>2, <2>1
<1> HIDE DEF T
<1>3. \A i \in Nat : i \in T
  BY <1>1, <1>2, Upwards
<1>4. QED
  BY <1>3 DEF T

-----------------------------------------------------------------------------
(* Powers of two.                                                          *)

Doubles(f, n) == \A k \in 0 .. n : f[k] = IF k = 0 THEN 1 ELSE 2 * f[k - 1]

LEMMA DoublesExists == \A n \in Nat : \E f \in [0 .. n -> Nat] : Doubles(f, n)
<1> DEFINE S == {n \in Nat : \E f \in [0 .. n -> Nat] : Doubles(f, n)}
<1>1. 0 \in S
  <2>1. [k \in 0 .. 0 |-> 1] \in [0 .. 0 -> Nat] /\ Doubles([k \in 0 .. 0 |-> 1], 0)
    BY DEF Doubles
  <2>2. QED
    BY <2>1
<1>2. ASSUME NEW n \in Nat, n \in S PROVE n + 1 \in S
  <2>1. PICK f \in [0 .. n -> Nat] : Doubles(f, n)
    BY <1>2
  <2> DEFINE g == [k \in 0 .. n + 1 |-> IF k = n + 1 THEN 2 * f[n] ELSE f[k]]
  <2>2. g \in [0 .. n + 1 -> Nat]
    OBVIOUS
  <2>3. ASSUME NEW k \in 0 .. n + 1 PROVE g[k] = IF k = 0 THEN 1 ELSE 2 * g[k - 1]
    <3>1. CASE k = n + 1
      BY <3>1
    <3>2. CASE k \in 0 .. n
      BY <2>1, <3>2 DEF Doubles
    <3>3. QED
      BY <3>1, <3>2
  <2>4. Doubles(g, n + 1)
    BY <2>3 DEF Doubles
  <2>5. QED
    BY <2>2, <2>4
<1> HIDE DEF S
<1>3. \A n \in Nat : n \in S
  BY <1>1, <1>2, Upwards
<1>4. QED
  BY <1>3 DEF S

LEMMA DoublesOnce ==
  ASSUME NEW m \in Nat, NEW n \in Nat, m <= n, NEW f \in [0 .. m -> Nat],
         NEW g \in [0 .. n -> Nat], Doubles(f, m), Doubles(g, n)
  PROVE  \A k \in 0 .. m : f[k] = g[k]
<1> DEFINE S == {k \in 0 .. m : f[k] = g[k]}
<1>1. 0 \in S
  BY DEF Doubles
<1>2. ASSUME NEW k \in 1 .. m, k - 1 \in S PROVE k \in S
  BY <1>2 DEF Doubles
<1>3. \A k \in 1 .. m : k - 1 \in S => k \in S
  BY <1>2
<1> HIDE DEF S
<1>4. \A k \in 0 .. m : k \in S
  BY <1>1, <1>3, UpTo, m \in Int
<1>5. QED
  BY <1>4 DEF S

LEMMA Pow2Def == Pow2[0] = 1 /\ \A k \in Nat : Pow2[k] \in Nat \ {0} /\ Pow2[k + 1] = 2 * Pow2[k]
<1> DEFINE Table(n) == CHOOSE f \in [0 .. n -> Nat] : Doubles(f, n)
           p == [n \in Nat |-> Table(n)[n]]
           Body(f) == [k \in Nat |-> IF k = 0 THEN 1 ELSE 2 * f[k - 1]]
<1>1. ASSUME NEW n \in Nat PROVE Table(n) \in [0 .. n -> Nat] /\ Doubles(Table(n), n)
  BY DoublesExists
<1> HIDE DEF Table
<1>2. ASSUME NEW k \in Nat PROVE p[k] = IF k = 0 THEN 1 ELSE 2 * p[k - 1]
  <2>1. CASE k = 0
    BY <1>1, <2>1 DEF Doubles
  <2>2. CASE k # 0
    <3>1. k - 1 \in Nat /\ k - 1 <= k /\ k - 1 \in 0 .. k - 1
      BY <2>2
    <3>2. Table(k)[k] = 2 * Table(k)[k - 1]
      BY <1>1, <2>2 DEF Doubles
    <3>3. Table(k - 1)[k - 1] = Table(k)[k - 1]
      BY <1>1, <3>1, DoublesOnce
    <3>4. QED
      BY <2>2, <3>1, <3>2, <3>3
  <2>3. QED
    BY <2>1, <2>2
<1>3. p = Body(p)
  BY <1>2
<1>4. Pow2 = Body(Pow2)
  <2>1. \E f : f = Body(f)
    BY <1>3
  <2>2. Pow2 = CHOOSE f : f = Body(f)
    BY Zenon DEF Pow2
  <2> HIDE DEF Body, p
  <2>3. QED
    BY <2>1, <2>2
<1>5. Pow2[0] = 1 /\ \A k \in Nat : Pow2[k + 1] = 2 * Pow2[k]
  <2>1. \A k \in Nat : Pow2[k] = IF k = 0 THEN 1 ELSE 2 * Pow2[k - 1]
    BY <1>4
  <2>2. ASSUME NEW k \in Nat PROVE Pow2[k + 1] = 2 * Pow2[k]
    <3>1. k + 1 \in Nat /\ k + 1 # 0 /\ (k + 1) - 1 = k
      OBVIOUS
    <3>2. QED
      BY <2>1, <3>1
  <2>3. QED
    BY <2>1, <2>2
<1>6. \A k \in Nat : Pow2[k] \in Nat \ {0}
  <2> DEFINE S == {k \in Nat : Pow2[k] \in Nat \ {0}}
  <2>1. 0 \in S
    BY <1>5
  <2>2. ASSUME NEW k \in Nat, k \in S PROVE k + 1 \in S
    <3>1. Pow2[k + 1] = 2 * Pow2[k]
      BY <1>5
    <3>2. QED
      BY <2>2, <3>1
  <2> HIDE DEF S
  <2>3. \A k \in Nat : k \in S
    BY <2>1, <2>2, Upwards
  <2>4. QED
    BY <2>3 DEF S
<1>7. QED
  BY <1>5, <1>6

LEMMA Cancel ==
  ASSUME NEW x \in Int, NEW y \in Int, NEW m \in Nat \ {0}, x * m = y * m
  PROVE  x = y
<1>1. ASSUME x < y PROVE FALSE
  <2>1. y = x + (y - x) /\ y - x \in Nat \ {0}
    BY <1>1
  <2> DEFINE d == y - x
  <2>2. (x + d) * m = x * m + d * m /\ d * m > 0
    BY <2>1
  <2>3. QED
    BY <2>1, <2>2
<1>2. ASSUME y < x PROVE FALSE
  <2>1. x = y + (x - y) /\ x - y \in Nat \ {0}
    BY <1>2
  <2> DEFINE d == x - y
  <2>2. (y + d) * m = y * m + d * m /\ d * m > 0
    BY <2>1
  <2>3. QED
    BY <2>1, <2>2
<1>3. QED
  BY <1>1, <1>2

LEMMA Pow2Grows == \A k \in Nat : k < Pow2[k]
<1> DEFINE S == {k \in Nat : k < Pow2[k]}
<1>1. 0 \in S
  BY Pow2Def
<1>2. ASSUME NEW k \in Nat, k \in S PROVE k + 1 \in S
  BY <1>2, Pow2Def
<1> HIDE DEF S
<1>3. \A k \in Nat : k \in S
  BY <1>1, <1>2, Upwards
<1>4. QED
  BY <1>3 DEF S

\* A larger power is a multiple of a smaller one.
LEMMA Pow2Divides ==
  \A j, k \in Nat : \E m \in Nat \ {0} : Pow2[j + k] = m * Pow2[j] /\ (k > 0 => m % 2 = 0)
<1> SUFFICES ASSUME NEW j \in Nat
    PROVE \A k \in Nat : \E m \in Nat \ {0} : Pow2[j + k] = m * Pow2[j] /\ (k > 0 => m % 2 = 0)
  OBVIOUS
<1> DEFINE S == {k \in Nat :
                   \E m \in Nat \ {0} : Pow2[j + k] = m * Pow2[j] /\ (k > 0 => m % 2 = 0)}
<1>1. 0 \in S
  <2>1. Pow2[j + 0] = 1 * Pow2[j]
    BY Pow2Def
  <2>2. QED
    BY <2>1
<1>2. ASSUME NEW k \in Nat, k \in S PROVE k + 1 \in S
  <2>1. PICK m \in Nat \ {0} : Pow2[j + k] = m * Pow2[j]
    BY <1>2
  <2>2. Pow2[j + (k + 1)] = 2 * Pow2[j + k]
    <3>1. j + (k + 1) = (j + k) + 1 /\ j + k \in Nat
      OBVIOUS
    <3>2. QED
      BY <3>1, Pow2Def
  <2>3. 2 * (m * Pow2[j]) = (2 * m) * Pow2[j] /\ 2 * m \in Nat \ {0} /\ (2 * m) % 2 = 0
    BY Pow2Def
  <2>4. QED
    BY <2>1, <2>2, <2>3
<1> HIDE DEF S
<1>3. \A k \in Nat : k \in S
  BY <1>1, <1>2, Upwards
<1>4. QED
  BY <1>3 DEF S

LEMMA Pow2Monotone ==
  ASSUME NEW j \in Nat, NEW k \in Nat
  PROVE  /\ j <= k => Pow2[j] <= Pow2[k]
         /\ Pow2[j] < Pow2[k] => j < k
         /\ j < k => 2 * Pow2[j] <= Pow2[k]
<1>1. ASSUME NEW x \in Nat, NEW y \in Nat, x <= y PROVE Pow2[x] <= Pow2[y]
  <2>1. y - x \in Nat /\ x + (y - x) = y
    BY <1>1
  <2>2. PICK m \in Nat \ {0} : Pow2[y] = m * Pow2[x]
    BY <2>1, Pow2Divides
  <2>3. m * Pow2[x] >= Pow2[x]
    BY Pow2Def
  <2>4. QED
    BY <2>2, <2>3
<1>2. ASSUME Pow2[j] < Pow2[k] PROVE j < k
  <2>1. ASSUME k <= j PROVE FALSE
    BY <1>1, <1>2, <2>1, Pow2Def
  <2>2. QED
    BY <2>1
<1>3. ASSUME j < k PROVE 2 * Pow2[j] <= Pow2[k]
  <2>1. Pow2[j + 1] <= Pow2[k]
    BY <1>1, <1>3
  <2>2. QED
    BY <2>1, Pow2Def
<1>4. QED
  BY <1>1, <1>2, <1>3

\* An odd multiple of a power is no multiple of a larger one.
LEMMA Coarser ==
  ASSUME NEW h \in Nat, NEW g \in Nat, NEW j \in Nat, NEW k \in Nat,
         (2 * h + 1) * Pow2[k] = g * Pow2[j]
  PROVE  j <= k
<1> SUFFICES ASSUME k < j PROVE FALSE
  OBVIOUS
<1>1. j - k \in Nat /\ j - k > 0 /\ k + (j - k) = j
  OBVIOUS
<1>2. PICK m \in Nat \ {0} : Pow2[j] = m * Pow2[k] /\ m % 2 = 0
  <2> DEFINE d == j - k
  <2>1. d \in Nat /\ d > 0 /\ k + d = j
    BY <1>1
  <2> HIDE DEF d
  <2>2. PICK m \in Nat \ {0} : Pow2[k + d] = m * Pow2[k] /\ (d > 0 => m % 2 = 0)
    BY <2>1, Pow2Divides
  <2>3. QED
    BY <2>1, <2>2
<1>3. Pow2[k] \in Nat \ {0}
  BY Pow2Def
<1>4. (2 * h + 1) * Pow2[k] = (g * m) * Pow2[k]
  <2>1. \A x \in Nat : g * (m * x) = (g * m) * x
    OBVIOUS
  <2>2. g * (m * Pow2[k]) = (g * m) * Pow2[k]
    BY <1>3, <2>1
  <2>3. QED
    BY <1>2, <2>2
<1>5. 2 * h + 1 = g * m
  BY <1>3, <1>4, Cancel
<1>6. PICK n \in Nat : m = 2 * n
  BY <1>2
<1>7. 2 * h + 1 = 2 * (g * n)
  <2>1. g * (2 * n) = 2 * (g * n)
    OBVIOUS
  <2>2. 2 * h + 1 = g * (2 * n)
    BY <1>5, <1>6
  <2>3. QED
    BY <2>1, <2>2
<1>8. g * n \in Nat
  OBVIOUS
<1>9. QED
  BY <1>7, <1>8

LEMMA SameGrain ==
  ASSUME NEW h \in Nat, NEW g \in Nat, NEW j \in Nat, NEW k \in Nat,
         (2 * h + 1) * Pow2[k] = (2 * g + 1) * Pow2[j]
  PROVE  j = k
<1>1. j <= k
  BY Coarser, 2 * g + 1 \in Nat
<1>2. k <= j
  BY Coarser, 2 * h + 1 \in Nat, (2 * g + 1) * Pow2[j] = (2 * h + 1) * Pow2[k]
<1>3. QED
  BY <1>1, <1>2

-----------------------------------------------------------------------------
(* An arrangement of the nodes on the list, and lists inside of it.        *)

\* The sequence s of length n holds every node of N once.
Order(s, n, N) ==
  /\ s \in [1 .. n -> N]
  /\ \A i, j \in 1 .. n : s[i] = s[j] => i = j
  /\ \A x \in N : \E i \in 1 .. n : s[i] = x

\* The places i to j are one list along the links f, which ends in Null.
ListOf(f, s, i, j) == (\A k \in i .. j - 1 : f[s[k]] = s[k + 1]) /\ f[s[j]] = Null

\* The values of these places do not decrease.
InOrd(K, s, i, j) == \A k \in i .. j - 1 : K[s[k]] <= K[s[k + 1]]

(* Of the places above lo, those up to p are merged, those up to q are     *)
(* what is left of the earlier list, those up to hi of the later one.      *)
Merging(f, K, s, lo, p, q, hi) ==
  /\ lo <= p /\ p < q /\ q < hi
  /\ \A k \in lo + 1 .. p - 1 : f[s[k]] = s[k + 1]
  /\ ListOf(f, s, p + 1, q) /\ ListOf(f, s, q + 1, hi)
  /\ InOrd(K, s, lo + 1, p) /\ InOrd(K, s, p + 1, q) /\ InOrd(K, s, q + 1, hi)
  /\ p > lo => K[s[p]] <= K[s[p + 1]] /\ K[s[p]] <= K[s[q + 1]]

\* The node at place q + 1 is moved to place p + 1.
Rot(s, n, p, q) ==
  [k \in 1 .. n |-> IF k = p + 1 THEN s[q + 1] ELSE IF k \in p + 2 .. q + 1 THEN s[k - 1] ELSE s[k]]

LEMMA RotOrder ==
  ASSUME NEW n \in Nat, NEW N, NEW s, Order(s, n, N),
         NEW p \in Nat, NEW q \in Nat, p < q, q < n
  PROVE  /\ Order(Rot(s, n, p, q), n, N)
         /\ Rot(s, n, p, q)[p + 1] = s[q + 1]
         /\ \A k \in p + 2 .. q + 1 : Rot(s, n, p, q)[k] = s[k - 1]
         /\ \A k \in p + 1 .. q : Rot(s, n, p, q)[k + 1] = s[k]
         /\ \A k \in 1 .. n : k <= p \/ k > q + 1 => Rot(s, n, p, q)[k] = s[k]
<1> DEFINE t == Rot(s, n, p, q)
<1>1. /\ t[p + 1] = s[q + 1]
      /\ \A k \in p + 2 .. q + 1 : t[k] = s[k - 1]
      /\ \A k \in 1 .. n : k <= p \/ k > q + 1 => t[k] = s[k]
  BY DEF Rot
<1>2. ASSUME NEW k \in p + 1 .. q PROVE t[k + 1] = s[k]
  <2>1. k + 1 \in p + 2 .. q + 1 /\ (k + 1) - 1 = k
    OBVIOUS
  <2>2. QED
    BY <1>1, <2>1
<1>3. t \in [1 .. n -> N]
  BY DEF Rot, Order
<1> DEFINE From(k) == IF k = p + 1 THEN q + 1 ELSE IF k \in p + 2 .. q + 1 THEN k - 1 ELSE k
<1>4. ASSUME NEW k \in 1 .. n PROVE From(k) \in 1 .. n /\ t[k] = s[From(k)]
  BY <1>1
<1>5. ASSUME NEW i \in 1 .. n, NEW j \in 1 .. n, t[i] = t[j] PROVE i = j
  <2>1. From(i) = From(j)
    BY <1>4, <1>5 DEF Order
  <2>2. QED
    BY <2>1
<1>6. ASSUME NEW x \in N PROVE \E i \in 1 .. n : t[i] = x
  <2>1. PICK k \in 1 .. n : s[k] = x
    BY DEF Order
  <2>2. CASE k = q + 1
    BY <1>1, <2>1, <2>2
  <2>3. CASE k \in p + 1 .. q
    <3>1. k + 1 \in 1 .. n
      BY <2>3
    <3>2. QED
      BY <1>2, <2>1, <2>3, <3>1
  <2>4. CASE k <= p \/ k > q + 1
    BY <1>1, <2>1, <2>4
  <2>5. QED
    BY <2>2, <2>3, <2>4
<1>7. Order(t, n, N)
  BY <1>3, <1>5, <1>6 DEF Order
<1>8. QED
  BY <1>1, <1>2, <1>7

\* The link of the node t, if there is one, leads to x.
Linked1(f, t, x) == IF t = Null THEN f ELSE [f EXCEPT ![t] = x]

LEMMA Linked1Is ==
  ASSUME NEW f, NEW t, NEW x
  PROVE  /\ DOMAIN Linked1(f, t, x) = DOMAIN f
         /\ t # Null /\ t \in DOMAIN f => Linked1(f, t, x)[t] = x
         /\ \A y \in DOMAIN f : y # t \/ t = Null => Linked1(f, t, x)[y] = f[y]
  BY DEF Linked1

TailAt(s, lo, p) == IF p = lo THEN Null ELSE s[p]

LEMMA TakeLater ==
  ASSUME NEW n \in Nat, NEW N, NEW s, Order(s, n, N), N \subseteq Nat \ {0},
         NEW f, NEW K \in [N -> Int], N \subseteq DOMAIN f,
         NEW lo \in Nat, NEW p \in Nat, NEW q \in Nat, NEW hi \in Nat, hi <= n,
         Merging(f, K, s, lo, p, q, hi), K[s[q + 1]] <= K[s[p + 1]], q + 1 < hi
  PROVE  Merging(Linked1(f, TailAt(s, lo, p), s[q + 1]), K, Rot(s, n, p, q), lo, p + 1, q + 1, hi)
<1> DEFINE t == Rot(s, n, p, q)
           g == Linked1(f, TailAt(s, lo, p), s[q + 1])
<1>1. lo <= p /\ p < q /\ q < hi /\ q < n
  BY DEF Merging
<1>2. /\ Order(t, n, N)
      /\ t[p + 1] = s[q + 1]
      /\ \A k \in p + 2 .. q + 1 : t[k] = s[k - 1]
      /\ \A k \in p + 1 .. q : t[k + 1] = s[k]
      /\ \A k \in 1 .. n : k <= p \/ k > q + 1 => t[k] = s[k]
  BY <1>1, RotOrder
<1>3. \A k \in 1 .. n : s[k] \in N /\ s[k] # Null
  BY DEF Order, Null
<1>4. \A k \in 1 .. n : k # p \/ p = lo => g[s[k]] = f[s[k]]
  BY <1>1, <1>3 DEF Linked1, TailAt, Order
<1>5. ASSUME p > lo PROVE g[s[p]] = s[q + 1]
  <2>1. p \in 1 .. n /\ p # lo
    BY <1>1, <1>5
  <2>2. TailAt(s, lo, p) = s[p] /\ s[p] # Null /\ s[p] \in DOMAIN f
    BY <1>3, <2>1 DEF TailAt
  <2>3. QED
    BY <2>2, Linked1Is
<1> HIDE DEF t, g
<1>6. ASSUME NEW k \in lo + 1 .. (p + 1) - 1 PROVE g[t[k]] = t[k + 1]
  <2>1. CASE k = p
    BY <1>1, <1>2, <1>5, <2>1
  <2>2. CASE k \in lo + 1 .. p - 1
    <3>1. g[s[k]] = s[k + 1]
      BY <1>1, <1>4, <2>2 DEF Merging
    <3>2. QED
      BY <1>1, <1>2, <2>2, <3>1
  <2>3. QED
    BY <2>1, <2>2
<1>7. ListOf(g, t, (p + 1) + 1, q + 1)
  <2>1. ASSUME NEW k \in (p + 1) + 1 .. (q + 1) - 1 PROVE g[t[k]] = t[k + 1]
    <3>1. k - 1 \in p + 1 .. q - 1 /\ k \in p + 1 .. q /\ k - 1 \in 1 .. n /\ (k - 1) + 1 = k
      BY <1>1, <2>1
    <3>2. f[s[k - 1]] = s[k] /\ g[s[k - 1]] = f[s[k - 1]]
      BY <1>1, <1>4, <3>1 DEF Merging, ListOf
    <3>3. t[k] = s[k - 1] /\ t[k + 1] = s[k]
      BY <1>1, <1>2, <3>1
    <3>4. QED
      BY <3>2, <3>3
  <2>2. g[t[q + 1]] = Null
    <3>1. t[q + 1] = s[q] /\ g[s[q]] = f[s[q]] /\ f[s[q]] = Null
      BY <1>1, <1>2, <1>4 DEF Merging, ListOf
    <3>2. QED
      BY <3>1
  <2>3. QED
    BY <2>1, <2>2 DEF ListOf
<1>8. ListOf(g, t, (q + 1) + 1, hi)
  <2>1. ASSUME NEW k \in (q + 1) + 1 .. hi PROVE g[t[k]] = f[s[k]] /\ t[k] = s[k]
    BY <1>1, <1>2, <1>4
  <2>2. \A k \in (q + 1) + 1 .. hi - 1 : k \in q + 1 .. hi - 1 /\ k + 1 \in (q + 1) + 1 .. hi
    OBVIOUS
  <2>3. hi \in (q + 1) + 1 .. hi
    OBVIOUS
  <2>4. QED
    BY <2>1, <2>2, <2>3 DEF Merging, ListOf
<1>9. InOrd(K, t, lo + 1, p + 1)
  <2>1. ASSUME NEW k \in lo + 1 .. (p + 1) - 1 PROVE K[t[k]] <= K[t[k + 1]]
    <3>1. CASE k = p
      BY <1>1, <1>2, <3>1 DEF Merging
    <3>2. CASE k \in lo + 1 .. p - 1
      BY <1>1, <1>2, <3>2 DEF Merging, InOrd
    <3>3. QED
      BY <3>1, <3>2
  <2>2. QED
    BY <2>1 DEF InOrd
<1>10. InOrd(K, t, (p + 1) + 1, q + 1)
  <2>1. ASSUME NEW k \in (p + 1) + 1 .. (q + 1) - 1 PROVE K[t[k]] <= K[t[k + 1]]
    <3>1. k - 1 \in p + 1 .. q - 1 /\ k \in p + 1 .. q /\ (k - 1) + 1 = k
      BY <1>1, <2>1
    <3>2. K[s[k - 1]] <= K[s[k]]
      BY <1>1, <3>1 DEF Merging, InOrd
    <3>3. t[k] = s[k - 1] /\ t[k + 1] = s[k]
      BY <1>1, <1>2, <3>1
    <3>4. QED
      BY <3>2, <3>3
  <2>2. QED
    BY <2>1 DEF InOrd
<1>11. InOrd(K, t, (q + 1) + 1, hi)
  BY <1>1, <1>2 DEF Merging, InOrd
<1>12. K[t[p + 1]] <= K[t[(p + 1) + 1]] /\ K[t[p + 1]] <= K[t[(q + 1) + 1]]
  <2>1. t[(p + 1) + 1] = s[p + 1] /\ t[(q + 1) + 1] = s[(q + 1) + 1]
    BY <1>1, <1>2
  <2>2. K[s[q + 1]] <= K[s[(q + 1) + 1]]
    BY <1>1 DEF Merging, InOrd
  <2>3. QED
    BY <1>2, <2>1, <2>2
<1>13. QED
  BY <1>1, <1>6, <1>7, <1>8, <1>9, <1>10, <1>11, <1>12 DEF Merging, t, g

LEMMA TakeEarlier ==
  ASSUME NEW n \in Nat, NEW N, NEW s, Order(s, n, N), N \subseteq Nat \ {0},
         NEW f, NEW K \in [N -> Int], N \subseteq DOMAIN f,
         NEW lo \in Nat, NEW p \in Nat, NEW q \in Nat, NEW hi \in Nat, hi <= n,
         Merging(f, K, s, lo, p, q, hi), K[s[p + 1]] <= K[s[q + 1]], p + 1 < q
  PROVE  Merging(Linked1(f, TailAt(s, lo, p), s[p + 1]), K, s, lo, p + 1, q, hi)
<1> DEFINE g == Linked1(f, TailAt(s, lo, p), s[p + 1])
<1>1. lo <= p /\ p < q /\ q < hi /\ q < n
  BY DEF Merging
<1>2. \A k \in 1 .. n : s[k] \in N /\ s[k] # Null
  BY DEF Order, Null
<1>3. \A k \in 1 .. n : k # p \/ p = lo => g[s[k]] = f[s[k]]
  BY <1>1, <1>2 DEF Linked1, TailAt, Order
<1>4. ASSUME p > lo PROVE g[s[p]] = s[p + 1]
  <2>1. p \in 1 .. n /\ p # lo
    BY <1>1, <1>4
  <2>2. TailAt(s, lo, p) = s[p] /\ s[p] # Null /\ s[p] \in DOMAIN f
    BY <1>2, <2>1 DEF TailAt
  <2>3. QED
    BY <2>2, Linked1Is
<1> HIDE DEF g
<1>5. ASSUME NEW k \in lo + 1 .. (p + 1) - 1 PROVE g[s[k]] = s[k + 1]
  <2>1. CASE k = p
    BY <1>1, <1>4, <2>1
  <2>2. CASE k \in lo + 1 .. p - 1
    BY <1>1, <1>3, <2>2 DEF Merging
  <2>3. QED
    BY <2>1, <2>2
<1>6. ListOf(g, s, (p + 1) + 1, q) /\ ListOf(g, s, q + 1, hi)
  <2>1. \A k \in p + 1 .. hi : g[s[k]] = f[s[k]]
    BY <1>1, <1>3
  <2>2. QED
    BY <1>1, <2>1 DEF Merging, ListOf
<1>7. InOrd(K, s, lo + 1, p + 1)
  <2>1. ASSUME NEW k \in lo + 1 .. (p + 1) - 1 PROVE K[s[k]] <= K[s[k + 1]]
    <3>1. CASE k = p
      BY <1>1, <3>1 DEF Merging
    <3>2. CASE k \in lo + 1 .. p - 1
      BY <1>1, <3>2 DEF Merging, InOrd
    <3>3. QED
      BY <3>1, <3>2
  <2>2. QED
    BY <2>1 DEF InOrd
<1>8. InOrd(K, s, (p + 1) + 1, q) /\ InOrd(K, s, q + 1, hi)
  BY <1>1 DEF Merging, InOrd
<1>9. K[s[p + 1]] <= K[s[(p + 1) + 1]]
  BY <1>1 DEF Merging, InOrd
<1>10. QED
  BY <1>1, <1>5, <1>6, <1>7, <1>8, <1>9 DEF Merging, g

\* The last node of one list is linked behind the tail and before what is
\* left of the other: both are one list.
LEMMA LastEarlier ==
  ASSUME NEW n \in Nat, NEW N, NEW s, Order(s, n, N), N \subseteq Nat \ {0},
         NEW f, NEW K \in [N -> Int], N \subseteq DOMAIN f,
         NEW lo \in Nat, NEW p \in Nat, NEW hi \in Nat, hi <= n,
         Merging(f, K, s, lo, p, p + 1, hi), K[s[p + 1]] <= K[s[p + 2]],
         NEW g, g = Linked1(Linked1(f, TailAt(s, lo, p), s[p + 1]), s[p + 1], s[p + 2])
  PROVE  ListOf(g, s, lo + 1, hi) /\ InOrd(K, s, lo + 1, hi)
<1> DEFINE e == Linked1(f, TailAt(s, lo, p), s[p + 1])
<1>1. lo <= p /\ p + 1 < hi /\ p + 1 \in 1 .. n /\ (p + 1) + 1 = p + 2
  <2>1. lo <= p /\ p + 1 < hi
    BY ONLY Merging(f, K, s, lo, p, p + 1, hi) DEF Merging
  <2>2. QED
    BY <2>1
<1>2. ASSUME NEW k \in 1 .. n PROVE s[k] \in N /\ s[k] # Null /\ s[k] \in DOMAIN f
  <2>1. s[k] \in N
    BY DEF Order
  <2>2. s[k] # Null
    BY ONLY <2>1, N \subseteq Nat \ {0} DEF Null
  <2>3. s[k] \in DOMAIN f
    BY ONLY <2>1, N \subseteq DOMAIN f
  <2>4. QED
    BY <2>1, <2>2, <2>3
<1>3. ASSUME NEW k \in lo + 1 .. p PROVE g[s[k]] = s[k + 1]
  <2>1. s[k] \in DOMAIN f /\ s[k] # s[p + 1] /\ k \in 1 .. n
    BY <1>1, <1>2 DEF Order
  <2>2. g[s[k]] = e[s[k]]
    BY <2>1, Linked1Is
  <2>3. CASE k = p
    <3>1. TailAt(s, lo, p) = s[p] /\ s[p] # Null
      BY <1>2, <2>1, <2>3 DEF TailAt
    <3>2. QED
      BY <2>1, <2>2, <2>3, <3>1, Linked1Is
  <2>4. CASE k < p
    <3>1. TailAt(s, lo, p) = s[p] /\ s[p] # s[k] /\ k \in lo + 1 .. p - 1
      BY <1>1, <2>4 DEF TailAt, Order
    <3>2. e[s[k]] = f[s[k]]
      BY <2>1, <3>1, Linked1Is
    <3>3. QED
      BY <2>2, <3>1, <3>2 DEF Merging
  <2>5. QED
    BY <2>3, <2>4
<1>4. g[s[p + 1]] = s[p + 2]
  BY <1>1, <1>2, Linked1Is
<1>5. ASSUME NEW k \in p + 2 .. hi PROVE g[s[k]] = f[s[k]]
  <2>1. s[k] \in DOMAIN f /\ s[k] # s[p + 1] /\ s[k] # TailAt(s, lo, p)
    BY <1>1, <1>2 DEF Order, TailAt
  <2>2. QED
    BY <2>1, Linked1Is
<1>6. ListOf(g, s, lo + 1, hi)
  <2>1. ASSUME NEW k \in lo + 1 .. hi - 1 PROVE g[s[k]] = s[k + 1]
    <3>1. CASE k \in lo + 1 .. p
      BY <1>3, <3>1
    <3>2. CASE k = p + 1
      BY <1>1, <1>4, <3>2
    <3>3. CASE k \in p + 2 .. hi - 1
      <4>1. f[s[k]] = s[k + 1]
        BY <1>1, <3>3 DEF Merging, ListOf
      <4>2. QED
        BY <1>5, <3>3, <4>1
    <3>4. QED
      BY <3>1, <3>2, <3>3
  <2>2. g[s[hi]] = Null
    BY <1>1, <1>5 DEF Merging, ListOf
  <2>3. QED
    BY <2>1, <2>2 DEF ListOf
<1>7. InOrd(K, s, lo + 1, hi)
  <2>1. ASSUME NEW k \in lo + 1 .. hi - 1 PROVE K[s[k]] <= K[s[k + 1]]
    <3>1. CASE k \in lo + 1 .. p - 1
      BY <3>1 DEF Merging, InOrd
    <3>2. CASE k = p
      BY <3>2 DEF Merging
    <3>3. CASE k = p + 1
      BY <1>1, <3>3
    <3>4. CASE k \in p + 2 .. hi - 1
      BY <1>1, <3>4 DEF Merging, InOrd
    <3>5. QED
      BY <3>1, <3>2, <3>3, <3>4
  <2>2. QED
    BY <2>1 DEF InOrd
<1>8. QED
  BY <1>6, <1>7

\* A later list of one node may as well be the earlier one.
LEMMA Swapped ==
  ASSUME NEW n \in Nat, NEW N, NEW s, Order(s, n, N),
         NEW f, NEW K \in [N -> Int],
         NEW lo \in Nat, NEW p \in Nat, NEW q \in Nat, q < n,
         Merging(f, K, s, lo, p, q, q + 1)
  PROVE  Merging(f, K, Rot(s, n, p, q), lo, p, p + 1, q + 1)
<1> DEFINE t == Rot(s, n, p, q)
<1>1. lo <= p /\ p < q
  BY ONLY Merging(f, K, s, lo, p, q, q + 1) DEF Merging
<1>2. /\ t[p + 1] = s[q + 1]
      /\ \A k \in p + 2 .. q + 1 : t[k] = s[k - 1]
      /\ \A k \in p + 1 .. q : t[k + 1] = s[k]
      /\ \A k \in 1 .. n : k <= p \/ k > q + 1 => t[k] = s[k]
  BY <1>1, RotOrder
<1> HIDE DEF t
<1>3. \A k \in lo + 1 .. p - 1 : f[t[k]] = t[k + 1] /\ K[t[k]] <= K[t[k + 1]]
  BY <1>1, <1>2 DEF Merging, InOrd
<1>4. ListOf(f, t, p + 1, p + 1)
  BY <1>1, <1>2 DEF Merging, ListOf
<1>5. ASSUME NEW k \in (p + 1) + 1 .. (q + 1) - 1
      PROVE f[t[k]] = t[k + 1] /\ K[t[k]] <= K[t[k + 1]]
  <2>1. k - 1 \in p + 1 .. q - 1 /\ k \in p + 1 .. q /\ (k - 1) + 1 = k /\ k \in p + 2 .. q + 1
    BY <1>1, <1>5
  <2>2. f[s[k - 1]] = s[k] /\ K[s[k - 1]] <= K[s[k]]
    BY <1>1, <2>1 DEF Merging, ListOf, InOrd
  <2>3. t[k] = s[k - 1] /\ t[k + 1] = s[k]
    BY <1>2, <2>1
  <2>4. QED
    BY <2>2, <2>3
<1>6. f[t[q + 1]] = Null
  <2>1. t[q + 1] = s[q]
    BY <1>1, <1>2
  <2>2. QED
    BY <2>1 DEF Merging, ListOf
<1>7. p > lo => K[t[p]] <= K[t[p + 1]] /\ K[t[p]] <= K[t[(p + 1) + 1]]
  <2>1. t[(p + 1) + 1] = s[p + 1]
    BY <1>1, <1>2
  <2>2. p > lo => t[p] = s[p]
    BY <1>1, <1>2
  <2>3. QED
    BY <1>2, <2>1, <2>2 DEF Merging
<1>8. QED
  BY <1>1, <1>3, <1>4, <1>5, <1>6, <1>7 DEF Merging, ListOf, InOrd, t

-----------------------------------------------------------------------------
(* The runs below the latest one.  Run i of r takes the places above       *)
(* st[i - 1] up to st[i]; its length is a power of two, with the exponent  *)
(* e[i], and the places before it are a multiple of twice its length.      *)
(* Runs of these lengths cost acc[r] comparisons together.                 *)

\* The comparisons that sorting 2^k nodes takes at most.
Cost(k) == k * Pow2[k] - Pow2[k] + 1

IsRun(st, e, acc, i) ==
  /\ st[i] = st[i - 1] + Pow2[e[i]] /\ acc[i] = acc[i - 1] + Cost(e[i])
  /\ \E h \in Nat : st[i - 1] = (2 * h) * Pow2[e[i]]

Shape(r, st, e, acc) ==
  /\ r \in Nat /\ st \in [Nat -> Nat] /\ e \in [Nat -> Nat] /\ acc \in [Nat -> Nat]
  /\ st[0] = 0 /\ acc[0] = 0
  /\ \A i \in 1 .. r : IsRun(st, e, acc, i)

\* The first node of run r.
HeadAt(s, st, r) == IF r = 0 THEN Null ELSE s[st[r - 1] + 1]

\* Each of the runs is a sorted list, and its head links the one before.
IsHeld(f, g, K, s, st, i) ==
  /\ ListOf(f, s, st[i - 1] + 1, st[i]) /\ InOrd(K, s, st[i - 1] + 1, st[i])
  /\ g[s[st[i - 1] + 1]] = HeadAt(s, st, i - 1)

Held(f, g, K, s, r, st) == \A i \in 1 .. r : IsHeld(f, g, K, s, st, i)

LEMMA CostType ==
  ASSUME NEW k \in Nat
  PROVE  Cost(k) \in Nat /\ Cost(0) = 0 /\ Cost(k + 1) = (2 * k) * Pow2[k] + 1
<1>1. Pow2[k] \in Nat \ {0} /\ Pow2[k + 1] = 2 * Pow2[k] /\ Pow2[0] = 1 /\ k + 1 \in Nat
  BY Pow2Def
<1>2. Cost(0) = 0
  BY <1>1 DEF Cost
<1>3. ASSUME NEW j \in Nat PROVE Cost(j + 1) = (2 * j) * Pow2[j] + 1
  <2>1. Pow2[j] \in Nat /\ Pow2[j + 1] = 2 * Pow2[j]
    BY Pow2Def
  <2>2. \A x \in Nat : (j + 1) * (2 * x) - 2 * x + 1 = (2 * j) * x + 1
    OBVIOUS
  <2>3. QED
    BY <2>1, <2>2 DEF Cost
<1>4. Cost(k) \in Nat
  <2>1. CASE k = 0
    BY <1>2, <2>1
  <2>2. CASE k > 0
    <3>1. k - 1 \in Nat /\ (k - 1) + 1 = k /\ Pow2[k - 1] \in Nat
      BY <2>2, Pow2Def
    <3>2. Cost(k) = (2 * (k - 1)) * Pow2[k - 1] + 1
      BY <1>3, <3>1
    <3>3. \A x, y \in Nat : (2 * x) * y + 1 \in Nat
      OBVIOUS
    <3>4. QED
      BY <3>1, <3>2, <3>3
  <2>3. QED
    BY <2>1, <2>2
<1>5. QED
  BY <1>2, <1>3, <1>4

LEMMA ShapeBelow ==
  ASSUME NEW r, NEW st, NEW e, NEW acc, Shape(r, st, e, acc)
  PROVE  /\ \A i \in 0 .. r : st[i] \in Nat /\ st[i] <= st[r]
         /\ \A i \in 1 .. r : st[i - 1] < st[i]
<1>1. \A i \in 1 .. r : st[i - 1] \in Nat /\ st[i] \in Nat /\ st[i - 1] < st[i]
  <2>1. ASSUME NEW i \in 1 .. r PROVE st[i - 1] \in Nat /\ st[i] \in Nat /\ st[i - 1] < st[i]
    <3>1. e[i] \in Nat /\ st[i - 1] \in Nat /\ st[i] \in Nat /\ st[i] = st[i - 1] + Pow2[e[i]]
      BY DEF Shape, IsRun
    <3>2. Pow2[e[i]] \in Nat \ {0}
      BY <3>1, Pow2Def
    <3>3. QED
      BY <3>1, <3>2
  <2>2. QED
    BY <2>1
<1>2. r \in Nat
  BY DEF Shape
<1> DEFINE S == {k \in 0 .. r : st[r - k] <= st[r]}
<1>3. 0 \in S
  BY <1>2 DEF Shape
<1>4. \A k \in 1 .. r : k - 1 \in S => k \in S
  <2>1. ASSUME NEW k \in 1 .. r, k - 1 \in S PROVE k \in S
    <3>1. r - k + 1 \in 1 .. r /\ (r - k + 1) - 1 = r - k /\ r - (k - 1) = r - k + 1
      BY <1>2
    <3>2. st[r - k] \in Nat /\ st[r - k + 1] \in Nat /\ st[r - k] < st[r - k + 1]
      BY <1>1, <3>1
    <3>3. st[r - k + 1] <= st[r]
      BY <2>1, <3>1
    <3>4. QED
      BY <3>2, <3>3, <1>2 DEF Shape
  <2>2. QED
    BY <2>1
<1> HIDE DEF S
<1>5. \A k \in 0 .. r : k \in S
  BY <1>2, <1>3, <1>4, UpTo
<1>6. ASSUME NEW i \in 0 .. r PROVE st[i] \in Nat /\ st[i] <= st[r]
  <2>1. r - i \in 0 .. r /\ r - (r - i) = i
    BY <1>2
  <2>2. st[i] <= st[r]
    BY <1>5, <2>1 DEF S
  <2>3. QED
    BY <2>2 DEF Shape
<1>7. QED
  BY <1>1, <1>6

\* The runs below are kept when their places, links and heads are.
LEMMA HeldSame ==
  ASSUME NEW r, NEW st, NEW e, NEW acc, Shape(r, st, e, acc),
         NEW K, NEW f, NEW g, NEW s, NEW f2, NEW g2, NEW t,
         Held(f, g, K, s, r, st),
         \A k \in 1 .. st[r] : t[k] = s[k] /\ f2[s[k]] = f[s[k]] /\ g2[s[k]] = g[s[k]]
  PROVE  Held(f2, g2, K, t, r, st) /\ HeadAt(t, st, r) = HeadAt(s, st, r)
<1>0. r \in Nat
  BY DEF Shape
<1>1. /\ \A i \in 0 .. r : st[i] \in Nat /\ st[i] <= st[r]
      /\ \A i \in 1 .. r : st[i - 1] < st[i]
  BY ShapeBelow
<1>2. ASSUME NEW i \in 0 .. r PROVE HeadAt(t, st, i) = HeadAt(s, st, i)
  <2>1. CASE i = 0
    BY <2>1 DEF HeadAt
  <2>2. CASE i > 0
    <3>1. i \in 1 .. r /\ i - 1 \in 0 .. r /\ r \in 0 .. r
      BY <1>0, <2>2
    <3>2. st[i - 1] + 1 \in 1 .. st[r]
      BY <1>1, <3>1
    <3>3. QED
      BY <2>2, <3>2 DEF HeadAt
  <2>3. QED
    BY <2>1, <2>2
<1>3. ASSUME NEW i \in 1 .. r PROVE IsHeld(f2, g2, K, t, st, i)
  <2>1. i - 1 \in 0 .. r /\ i \in 0 .. r /\ r \in 0 .. r
    BY <1>0
  <2>2. /\ st[i - 1] + 1 \in 1 .. st[r] /\ st[i] \in 1 .. st[r]
        /\ \A k \in st[i - 1] + 1 .. st[i] - 1 : k \in 1 .. st[r] /\ k + 1 \in 1 .. st[r]
    BY <1>1, <2>1
  <2>3. ListOf(f, s, st[i - 1] + 1, st[i]) /\ InOrd(K, s, st[i - 1] + 1, st[i])
        /\ g[s[st[i - 1] + 1]] = HeadAt(s, st, i - 1)
    BY DEF Held, IsHeld
  <2>4. ListOf(f2, t, st[i - 1] + 1, st[i])
    BY <2>2, <2>3 DEF ListOf
  <2>5. InOrd(K, t, st[i - 1] + 1, st[i])
    BY <2>2, <2>3 DEF InOrd
  <2>6. g2[t[st[i - 1] + 1]] = HeadAt(t, st, i - 1)
    BY <1>2, <2>1, <2>2, <2>3
  <2>7. QED
    BY <2>4, <2>5, <2>6 DEF IsHeld
<1>4. r \in 0 .. r
  BY <1>0
<1>5. QED
  BY <1>2, <1>3, <1>4 DEF Held

LEMMA TopRun ==
  ASSUME NEW r, NEW st, NEW e, NEW acc, Shape(r, st, e, acc), r # 0
  PROVE  /\ Shape(r - 1, st, e, acc) /\ r - 1 \in Nat /\ r \in 1 .. r /\ e[r] \in Nat
         /\ st[r - 1] \in Nat /\ st[r] = st[r - 1] + Pow2[e[r]] /\ st[r - 1] < st[r]
         /\ acc[r - 1] \in Nat /\ acc[r] = acc[r - 1] + Cost(e[r])
<1>1. r \in 1 .. r /\ r - 1 \in Nat
  BY DEF Shape
<1>2. Shape(r - 1, st, e, acc)
  <2>1. \A i \in 1 .. r - 1 : i \in 1 .. r
    BY <1>1
  <2>2. QED
    BY <1>1, <2>1 DEF Shape
<1>3. IsRun(st, e, acc, r) /\ e[r] \in Nat /\ st[r - 1] \in Nat /\ acc[r - 1] \in Nat
  BY <1>1 DEF Shape
<1>4. Pow2[e[r]] \in Nat \ {0}
  BY <1>3, Pow2Def
<1>5. st[r] = st[r - 1] + Pow2[e[r]] /\ acc[r] = acc[r - 1] + Cost(e[r])
  BY <1>3 DEF IsRun
<1>6. st[r - 1] < st[r]
  BY <1>3, <1>4, <1>5
<1>7. QED
  BY <1>1, <1>2, <1>3, <1>5, <1>6

\* The nodes up to the end of a run are an odd multiple of its length.
LEMMA OddMultiple ==
  ASSUME NEW r, NEW st, NEW e, NEW acc, Shape(r, st, e, acc), r # 0
  PROVE  \E h \in Nat : st[r - 1] = (2 * h) * Pow2[e[r]] /\ st[r] = (2 * h + 1) * Pow2[e[r]]
<1>1. r \in 1 .. r /\ e[r] \in Nat /\ st[r] = st[r - 1] + Pow2[e[r]]
  BY TopRun
<1>2. PICK h \in Nat : st[r - 1] = (2 * h) * Pow2[e[r]]
  BY <1>1 DEF Shape, IsRun
<1>3. Pow2[e[r]] \in Nat
  BY <1>1, Pow2Def
<1>4. \A x \in Nat : (2 * h) * x + x = (2 * h + 1) * x
  OBVIOUS
<1>5. QED
  BY <1>1, <1>2, <1>3, <1>4

\* Testing a digit compares the length of the latest run, 2^j, with that of
\* the run below.
LEMMA OddIsEqual ==
  ASSUME NEW r, NEW st, NEW e, NEW acc, Shape(r, st, e, acc),
         NEW j \in Nat, NEW n \in Nat, st[r] = n * Pow2[j]
  PROVE  /\ n % 2 = 1 => r # 0 /\ e[r] = j
         /\ n % 2 # 1 => (r # 0 => j <= e[r])
<1>1. Pow2[j] \in Nat \ {0}
  BY Pow2Def
<1>2. ASSUME n % 2 = 1 PROVE r # 0
  <2>1. n > 0
    BY <1>2
  <2>2. n * Pow2[j] > 0
    BY <1>1, <2>1
  <2>3. QED
    BY <2>2 DEF Shape
<1>3. ASSUME r # 0, n % 2 = 1 PROVE e[r] = j
  <2>1. PICK h \in Nat : st[r] = (2 * h + 1) * Pow2[e[r]]
    BY <1>3, OddMultiple
  <2>2. PICK g \in Nat : n = 2 * g + 1
    BY <1>3
  <2>3. (2 * h + 1) * Pow2[e[r]] = (2 * g + 1) * Pow2[j] /\ e[r] \in Nat
    BY <1>3, <2>1, <2>2, TopRun
  <2>4. QED
    BY <2>3, SameGrain
<1>4. ASSUME r # 0 PROVE j <= e[r]
  <2>1. PICK h \in Nat : st[r] = (2 * h + 1) * Pow2[e[r]]
    BY <1>4, OddMultiple
  <2>2. (2 * h + 1) * Pow2[e[r]] = n * Pow2[j] /\ e[r] \in Nat
    BY <1>4, <2>1, TopRun
  <2>3. QED
    BY <2>2, Coarser
<1>5. QED
  BY <1>2, <1>3, <1>4

\* The runs are the shorter the later they are.
LEMMA Decreasing ==
  ASSUME NEW r, NEW st, NEW e, NEW acc, Shape(r, st, e, acc), NEW j \in Nat,
         NEW h \in Nat, st[r] = (2 * h) * Pow2[j], r # 0
  PROVE  j + 1 <= e[r]
<1>1. Pow2[j + 1] = 2 * Pow2[j] /\ Pow2[j] \in Nat
  BY Pow2Def
<1>2. (2 * h) * Pow2[j] = h * Pow2[j + 1]
  <2>1. \A x \in Nat : (2 * h) * x = h * (2 * x)
    OBVIOUS
  <2>2. QED
    BY <1>1, <2>1
<1>3. PICK g \in Nat : st[r] = (2 * g + 1) * Pow2[e[r]]
  BY OddMultiple
<1>4. (2 * g + 1) * Pow2[e[r]] = h * Pow2[j + 1]
  BY <1>2, <1>3
<1>5. e[r] \in Nat /\ j + 1 \in Nat
  BY DEF Shape
<1>6. QED
  BY <1>4, <1>5, Coarser

LEMMA PushRun ==
  ASSUME NEW r, NEW st, NEW e, NEW acc, Shape(r, st, e, acc), NEW j \in Nat,
         NEW h \in Nat, st[r] = (2 * h) * Pow2[j],
         NEW f, NEW g, NEW K, NEW s, Held(f, g, K, s, r, st),
         ListOf(f, s, st[r] + 1, st[r] + Pow2[j]), InOrd(K, s, st[r] + 1, st[r] + Pow2[j]),
         g[s[st[r] + 1]] = HeadAt(s, st, r)
  PROVE  \E st2, e2, acc2 :
           /\ Shape(r + 1, st2, e2, acc2) /\ Held(f, g, K, s, r + 1, st2)
           /\ st2[r + 1] = st[r] + Pow2[j] /\ acc2[r + 1] = acc[r] + Cost(j)
           /\ HeadAt(s, st2, r + 1) = s[st[r] + 1] /\ e2[r + 1] = j
<1> DEFINE st2 == [st EXCEPT ![r + 1] = st[r] + Pow2[j]]
           e2 == [e EXCEPT ![r + 1] = j]
           acc2 == [acc EXCEPT ![r + 1] = acc[r] + Cost(j)]
<1>0. Pow2[j] \in Nat /\ Cost(j) \in Nat
  BY Pow2Def, CostType
<1>1. r \in Nat /\ r + 1 \in Nat /\ Pow2[j] \in Nat /\ Cost(j) \in Nat /\ st[r] \in Nat /\ acc[r] \in Nat
  BY <1>0 DEF Shape
<1>2. st2 \in [Nat -> Nat] /\ e2 \in [Nat -> Nat] /\ acc2 \in [Nat -> Nat]
  BY <1>1 DEF Shape
<1>3. \A i \in 0 .. r : st2[i] = st[i] /\ e2[i] = e[i] /\ acc2[i] = acc[i]
  BY <1>1 DEF Shape
<1>4. st2[r + 1] = st[r] + Pow2[j] /\ e2[r + 1] = j /\ acc2[r + 1] = acc[r] + Cost(j)
  BY <1>1 DEF Shape
<1> HIDE DEF st2, e2, acc2
<1>5. \A i \in 1 .. r : i \in 0 .. r /\ i - 1 \in 0 .. r
  BY <1>1
<1>6. \A i \in 0 .. r + 1 : HeadAt(s, st2, i) = IF i = 0 THEN Null ELSE s[st[i - 1] + 1]
  <2>1. \A i \in 1 .. r + 1 : i - 1 \in 0 .. r
    BY <1>1
  <2>2. QED
    BY <1>1, <1>3, <2>1 DEF HeadAt
<1>7. ASSUME NEW i \in 1 .. r + 1 PROVE IsRun(st2, e2, acc2, i) /\ IsHeld(f, g, K, s, st2, i)
  <2>1. CASE i = r + 1
    <3>1. i - 1 = r /\ r \in 0 .. r
      BY <1>1, <2>1
    <3>2. HeadAt(s, st2, r) = HeadAt(s, st, r)
      BY <1>1, <1>6 DEF HeadAt
    <3>3. st2[r] = st[r] /\ acc2[r] = acc[r]
      BY <1>3, <3>1
    <3>4. IsRun(st2, e2, acc2, i)
      BY <1>4, <2>1, <3>1, <3>3 DEF IsRun
    <3>5. IsHeld(f, g, K, s, st2, i)
      BY <1>4, <2>1, <3>1, <3>2, <3>3 DEF IsHeld
    <3>6. QED
      BY <3>4, <3>5
  <2>2. CASE i \in 1 .. r
    <3>1. IsRun(st, e, acc, i) /\ IsHeld(f, g, K, s, st, i)
      BY <2>2 DEF Shape, Held
    <3>2. st2[i] = st[i] /\ st2[i - 1] = st[i - 1] /\ e2[i] = e[i] /\ acc2[i] = acc[i] /\ acc2[i - 1] = acc[i - 1]
      BY <1>3, <1>5, <2>2
    <3>3. HeadAt(s, st2, i - 1) = HeadAt(s, st, i - 1)
      <4>1. i - 1 \in 0 .. r + 1
        BY <1>1, <2>2
      <4>2. HeadAt(s, st2, i - 1) = IF i - 1 = 0 THEN Null ELSE s[st[(i - 1) - 1] + 1]
        BY <1>6, <4>1
      <4>3. QED
        BY <4>2 DEF HeadAt
    <3>4. QED
      BY <3>1, <3>2, <3>3 DEF IsRun, IsHeld
  <2>3. QED
    BY <1>1, <2>1, <2>2
<1>8. st2[0] = 0 /\ acc2[0] = 0
  BY <1>1, <1>3 DEF Shape
<1>9. Shape(r + 1, st2, e2, acc2) /\ Held(f, g, K, s, r + 1, st2)
  BY <1>1, <1>2, <1>7, <1>8 DEF Shape, Held
<1>10. HeadAt(s, st2, r + 1) = s[st[r] + 1]
  BY <1>1, <1>6
<1>11. QED
  BY <1>4, <1>9, <1>10

LEMMA HeldKept ==
  ASSUME NEW r, NEW st, NEW e, NEW acc, Shape(r, st, e, acc),
         NEW K, NEW f, NEW g, NEW s, NEW f2, NEW g2, Held(f, g, K, s, r, st),
         \A k \in 1 .. st[r] : f2[s[k]] = f[s[k]] /\ g2[s[k]] = g[s[k]]
  PROVE  Held(f2, g2, K, s, r, st)
<1>1. \A k \in 1 .. st[r] : s[k] = s[k] /\ f2[s[k]] = f[s[k]] /\ g2[s[k]] = g[s[k]]
  OBVIOUS
<1>2. QED
  BY <1>1, HeldSame

-----------------------------------------------------------------------------
(* The inductive invariant.  There is one arrangement s of the nodes in    *)
(* which each of the lists in the links is a stretch of places.            *)

Labels == {"idle", "take", "fold", "foldMerge", "foldMerged",
           "rest", "restMerge", "restMerged", "relink", "done"}

TypeOK ==
  /\ size \in Nat /\ compared \in Nat /\ pc \in Labels
  /\ Nodes \subseteq Nat \ {0} /\ key \in [Nodes -> Int]
  /\ DOMAIN cut \subseteq Nat \ {0} /\ cut \in [DOMAIN cut -> Int]
  /\ IsFiniteSet(DOMAIN cut) /\ DOMAIN cut \cap Nodes = {}
  /\ DOMAIN next = Iterators \cup DOMAIN cut /\ DOMAIN prev = Iterators \cup DOMAIN cut

\* The k-th node of a list of n, and the head on either side of it.
Place(s, n, k) == IF k \in 1 .. n THEN s[k] ELSE ListHead

Circle(f, g, s, n) ==
  \A k \in 0 .. n : f[Place(s, n, k)] = Place(s, n, k + 1) /\ g[Place(s, n, k + 1)] = Place(s, n, k)

Ghost(s, r, st, e, acc) ==
  /\ Order(s, size, Nodes) /\ Shape(r, st, e, acc) /\ Held(next, prev, key, s, r, st)
  /\ st[r] < size /\ temp = ListHead

RestOfInput(s) ==
  /\ count <= size
  /\ list = IF count < size THEN s[count + 1] ELSE Null
  /\ count < size => ListOf(next, s, count + 1, size)

TakeAt(s, r, st, e, acc) ==
  /\ Ghost(s, r, st, e, acc) /\ count = st[r] /\ RestOfInput(s)
  /\ pending = HeadAt(s, st, r) /\ compared <= acc[r]

FoldAt(s, r, st, e, acc, j) ==
  /\ Ghost(s, r, st, e, acc) /\ bits \in Nat
  /\ count = st[r] + Pow2[j] /\ st[r] = bits * Pow2[j] /\ RestOfInput(s)
  /\ ListOf(next, s, st[r] + 1, count) /\ InOrd(key, s, st[r] + 1, count)
  /\ pending = s[st[r] + 1] /\ prev[pending] = HeadAt(s, st, r)
  /\ compared <= acc[r] + Cost(j)

\* The head of the later list is a, that of the earlier one b.
MergeAt(s, lo, p, q, hi) ==
  /\ Merging(next, key, s, lo, p, q, hi)
  /\ a = s[q + 1] /\ b = s[p + 1] /\ tail = TailAt(s, lo, p)
  /\ merged = IF p = lo THEN Null ELSE s[lo + 1]

InFoldAt(s, r, st, e, acc, j, h) ==
  /\ Ghost(s, r, st, e, acc) /\ bits = 2 * h + 1
  /\ count = st[r] + 2 * Pow2[j] /\ st[r] = (2 * h) * Pow2[j]
  /\ RestOfInput(s) /\ prev[prev[pending]] = HeadAt(s, st, r)

MergeInFoldAt(s, r, st, e, acc, j, h, p, q) ==
  /\ InFoldAt(s, r, st, e, acc, j, h)
  /\ MergeAt(s, st[r], p, q, count) /\ compared <= acc[r] + 2 * Cost(j) + (p - st[r])

MergedInFoldAt(s, r, st, e, acc, j, h) ==
  /\ InFoldAt(s, r, st, e, acc, j, h)
  /\ merged = s[st[r] + 1] /\ ListOf(next, s, st[r] + 1, count) /\ InOrd(key, s, st[r] + 1, count)
  /\ compared <= acc[r] + Cost(j + 1)

\* t is the logarithm of m to the base of two, rounded up.
LogOf(m, t) == m \in Nat \ {0} /\ m <= Pow2[t] /\ (t > 0 => Pow2[t - 1] < m)

RestAt(s, r, st, e, acc, t, x) ==
  /\ Ghost(s, r, st, e, acc)
  /\ x = s[st[r] + 1] /\ ListOf(next, s, st[r] + 1, size) /\ InOrd(key, s, st[r] + 1, size)
  /\ LogOf(size - st[r], t) /\ (r # 0 => t <= e[r])
  /\ compared <= acc[r] + (size - st[r]) * t - (size - st[r]) + 1

MergeInRestAt(s, r, st, e, acc, j, h, t, m, p, q) ==
  /\ Ghost(s, r, st, e, acc) /\ prev[prev[pending]] = HeadAt(s, st, r)
  /\ size - st[r] = m + Pow2[j] /\ LogOf(m, t) /\ t <= j /\ st[r] = (2 * h) * Pow2[j]
  /\ MergeAt(s, st[r], p, q, size)
  /\ compared <= acc[r] + Cost(j) + m * t - m + 1 + (p - st[r])

RelinkAt(s, k) ==
  /\ Order(s, size, Nodes) /\ InOrd(key, s, 1, size)
  /\ next[ListHead] = s[1] /\ ListOf(next, s, 1, size)
  /\ list = (IF k < size THEN s[k + 1] ELSE Null) /\ temp = (IF k = 0 THEN ListHead ELSE s[k])
  /\ \A i \in 1 .. k : prev[s[i]] = IF i = 1 THEN ListHead ELSE s[i - 1]

Resting == AtRest /\ \E s : Order(s, size, Nodes) /\ Circle(next, prev, s, size)
Taking == \E s, r, st, e, acc : TakeAt(s, r, st, e, acc)
Folding == \E s, r, st, e, acc : \E j \in Nat : FoldAt(s, r, st, e, acc, j)
MergingInFold ==
  \E s, r, st, e, acc : \E j, h, p, q \in Nat : MergeInFoldAt(s, r, st, e, acc, j, h, p, q)
MergedInFold == \E s, r, st, e, acc : \E j, h \in Nat : MergedInFoldAt(s, r, st, e, acc, j, h)
MergingRest ==
  \E s, r, st, e, acc : \E t \in Nat :
    RestAt(s, r, st, e, acc, t, list) /\ prev[pending] = HeadAt(s, st, r)
MergingInRest ==
  \E s, r, st, e, acc : \E j, h, t, m, p, q \in Nat :
    MergeInRestAt(s, r, st, e, acc, j, h, t, m, p, q)
MergedInRest ==
  \E s, r, st, e, acc : \E t \in Nat :
    RestAt(s, r, st, e, acc, t, merged) /\ prev[prev[pending]] = HeadAt(s, st, r)
Relinking == compared <= Bound /\ \E s : \E k \in 0 .. size : RelinkAt(s, k)
Sorted ==
  /\ compared <= Bound
  /\ \E s : Order(s, size, Nodes) /\ Circle(next, prev, s, size) /\ InOrd(key, s, 1, size)

\* What a sort began with.
BeforeOK ==
  /\ size >= 2
  /\ \E s : Order(s, size, Nodes) /\ before = [k \in 1 .. size |-> key[s[k]]]

IInv ==
  /\ TypeOK
  /\ pc # "idle" => BeforeOK
  /\ pc = "idle" => Resting
  /\ pc = "take" => Taking
  /\ pc = "fold" => Folding
  /\ pc = "foldMerge" => MergingInFold
  /\ pc = "foldMerged" => MergedInFold
  /\ pc = "rest" => MergingRest
  /\ pc = "restMerge" => MergingInRest
  /\ pc = "restMerged" => MergedInRest
  /\ pc = "relink" => Relinking
  /\ pc = "done" => Sorted

LEMMA TakeStep ==
  ASSUME TypeOK, Taking, Take
  PROVE  Folding'
<1>1. PICK s, r, st, e, acc : TakeAt(s, r, st, e, acc)
  BY DEF Taking
<1> DEFINE n == st[r]
<1>2. /\ Order(s, size, Nodes) /\ Shape(r, st, e, acc) /\ Held(next, prev, key, s, r, st)
      /\ n < size /\ temp = ListHead
      /\ count = n /\ RestOfInput(s) /\ pending = HeadAt(s, st, r) /\ compared <= acc[r]
  BY <1>1 DEF TakeAt, Ghost
<1>3. n \in Nat /\ acc[r] \in Nat /\ n + 1 \in 1 .. size /\ size \in Nat
  BY <1>2 DEF Shape, TypeOK
<1>4. list = s[n + 1] /\ ListOf(next, s, n + 1, size)
  BY <1>2 DEF RestOfInput
<1>5. \A k \in 1 .. size : s[k] \in Nodes /\ s[k] # Null /\ s[k] \in DOMAIN next /\ s[k] \in DOMAIN prev
  BY <1>2 DEF Order, TypeOK, Null, Iterators
<1>6. \A k \in 1 .. size : k # n + 1 => s[k] # s[n + 1]
  BY <1>2, <1>3 DEF Order
<1>7. /\ pending' = s[n + 1] /\ list' = next[s[n + 1]] /\ count' = n + 1 /\ bits' = n
      /\ prev' = [prev EXCEPT ![s[n + 1]] = pending] /\ next' = [next EXCEPT ![s[n + 1]] = Null]
      /\ key' = key /\ size' = size /\ compared' = compared /\ temp' = temp
  BY <1>2, <1>4 DEF Take, input
<1>8. /\ next'[s[n + 1]] = Null /\ prev'[s[n + 1]] = HeadAt(s, st, r)
      /\ \A k \in 1 .. size : k # n + 1 => next'[s[k]] = next[s[k]] /\ prev'[s[k]] = prev[s[k]]
  BY <1>2, <1>3, <1>5, <1>6, <1>7
<1>9. Held(next', prev', key, s, r, st)
  <2>1. \A k \in 1 .. st[r] : next'[s[k]] = next[s[k]] /\ prev'[s[k]] = prev[s[k]]
    BY <1>3, <1>8
  <2>2. QED
    BY <1>2, <2>1, HeldKept
<1>10. RestOfInput(s)'
  <2>1. CASE n + 1 = size
    <3>1. list' = Null
      BY <1>4, <1>7, <2>1 DEF ListOf
    <3>2. QED
      BY <1>3, <1>7, <2>1, <3>1 DEF RestOfInput
  <2>2. CASE n + 1 < size
    <3>1. list' = s[(n + 1) + 1]
      BY <1>3, <1>4, <1>7, <2>2 DEF ListOf
    <3>2. ListOf(next', s, (n + 1) + 1, size)
      BY <1>3, <1>4, <1>8, <2>2 DEF ListOf, TypeOK
    <3>3. QED
      BY <1>3, <1>7, <2>2, <3>1, <3>2 DEF RestOfInput
  <2>3. QED
    BY <1>3, <2>1, <2>2
<1>11. Pow2[0] = 1 /\ Cost(0) = 0
  BY Pow2Def, CostType
<1>12. ListOf(next', s, n + 1, n + 1) /\ InOrd(key, s, n + 1, n + 1)
  BY <1>3, <1>8 DEF ListOf, InOrd
<1>13. FoldAt(s, r, st, e, acc, 0)'
  BY <1>2, <1>3, <1>7, <1>8, <1>9, <1>10, <1>11, <1>12 DEF FoldAt, Ghost, Nodes
<1>14. QED
  BY <1>13 DEF Folding

\* The state of the sort at the latest run, while runs are folded.
LEMMA FoldFacts ==
  ASSUME TypeOK, NEW s, NEW r, NEW st, NEW e, NEW acc, Ghost(s, r, st, e, acc)
  PROVE  /\ Order(s, size, Nodes) /\ Shape(r, st, e, acc) /\ Held(next, prev, key, s, r, st)
         /\ st[r] < size /\ temp = ListHead
         /\ size \in Nat /\ st[r] \in Nat /\ acc[r] \in Nat /\ r \in Nat
         /\ \A k \in 1 .. size : /\ s[k] \in Nodes /\ s[k] # Null
                                 /\ s[k] \in DOMAIN next /\ s[k] \in DOMAIN prev
<1>1. /\ Order(s, size, Nodes) /\ Shape(r, st, e, acc) /\ Held(next, prev, key, s, r, st)
      /\ st[r] < size /\ temp = ListHead
  BY DEF Ghost
<1>2. size \in Nat /\ st[r] \in Nat /\ acc[r] \in Nat /\ r \in Nat
  BY <1>1 DEF TypeOK, Shape
<1>3. ASSUME NEW x \in Nodes PROVE x # Null /\ x \in DOMAIN next /\ x \in DOMAIN prev
  BY <1>3 DEF TypeOK, Null, Iterators
<1>4. \A k \in 1 .. size : s[k] \in Nodes
  BY <1>1 DEF Order
<1>5. QED
  BY <1>1, <1>2, <1>3, <1>4

LEMMA FoldBegins ==
  ASSUME TypeOK, NEW s, NEW r, NEW st, NEW e, NEW acc, NEW j \in Nat,
         FoldAt(s, r, st, e, acc, j), Fold, Folds(bits)
  PROVE  pc' = "foldMerge" /\ MergingInFold'
<1> DEFINE P == Pow2[j]
           o == r - 1
<1>1. /\ Ghost(s, r, st, e, acc) /\ bits \in Nat /\ count = st[r] + P /\ st[r] = bits * P
      /\ RestOfInput(s) /\ ListOf(next, s, st[r] + 1, count) /\ InOrd(key, s, st[r] + 1, count)
      /\ pending = s[st[r] + 1] /\ prev[pending] = HeadAt(s, st, r) /\ compared <= acc[r] + Cost(j)
  BY DEF FoldAt
<1>2. /\ Order(s, size, Nodes) /\ Shape(r, st, e, acc) /\ Held(next, prev, key, s, r, st)
      /\ st[r] < size /\ temp = ListHead
      /\ size \in Nat /\ st[r] \in Nat /\ acc[r] \in Nat /\ r \in Nat
  BY <1>1, FoldFacts
<1>3. P \in Nat \ {0} /\ Cost(j) \in Nat
  BY Pow2Def, CostType
<1>4. r # 0 /\ e[r] = j
  BY <1>1, <1>2, OddIsEqual DEF Folds
<1>5. /\ Shape(o, st, e, acc) /\ o \in Nat /\ r \in 1 .. r
      /\ st[o] \in Nat /\ st[r] = st[o] + P /\ acc[o] \in Nat /\ acc[r] = acc[o] + Cost(j)
  BY <1>2, <1>4, TopRun
<1>6. PICK h \in Nat : st[o] = (2 * h) * P /\ st[r] = (2 * h + 1) * P
  BY <1>2, <1>4, OddMultiple
<1>7. bits = 2 * h + 1
  <2>1. bits * P = (2 * h + 1) * P /\ bits \in Int /\ 2 * h + 1 \in Int
    BY <1>1, <1>6
  <2>2. QED
    BY <1>3, <2>1, Cancel
<1>8. /\ ListOf(next, s, st[o] + 1, st[r]) /\ InOrd(key, s, st[o] + 1, st[r])
      /\ prev[s[st[o] + 1]] = HeadAt(s, st, o) /\ HeadAt(s, st, r) = s[st[o] + 1]
  BY <1>2, <1>4, <1>5 DEF Held, IsHeld, HeadAt
<1>9. Held(next, prev, key, s, o, st)
  BY <1>2, <1>5 DEF Held
<1>10. /\ pc' = "foldMerge" /\ a' = pending /\ b' = prev[pending] /\ tail' = Null /\ merged' = Null
       /\ UNCHANGED <<size, key, next, prev, list, pending, count, bits, compared, temp>>
  BY <1>1 DEF Fold, Folds, Merge, Goto, input, links
<1>11. Ghost(s, o, st, e, acc)'
  <2>1. st[o] < size
    BY <1>2, <1>3, <1>5
  <2> HIDE DEF o
  <2>2. QED
    BY <1>2, <1>5, <1>9, <1>10, <2>1 DEF Ghost, Nodes
<1>12. InFoldAt(s, o, st, e, acc, j, h)'
  <2>1. RestOfInput(s)'
    BY <1>1, <1>10 DEF RestOfInput
  <2>2. (prev[prev[pending]])' = HeadAt(s, st, o)
    BY <1>1, <1>8, <1>10
  <2>3. count = st[o] + 2 * P
    BY <1>1, <1>3, <1>5
  <2>4. QED
    BY <1>6, <1>7, <1>10, <1>11, <2>1, <2>2, <2>3 DEF InFoldAt
<1>13. Merging(next, key, s, st[o], st[o], st[r], count)
  BY <1>1, <1>3, <1>5, <1>8 DEF Merging, InOrd
<1>14. MergeAt(s, st[o], st[o], st[r], count)'
  BY <1>1, <1>8, <1>10, <1>13 DEF MergeAt, TailAt
<1>15. compared' <= acc[o] + 2 * Cost(j) + (st[o] - st[o])
  <2>1. compared <= (acc[o] + Cost(j)) + Cost(j)
    BY <1>1, <1>5
  <2>2. compared \in Nat /\ compared' = compared
    BY <1>10 DEF TypeOK
  <2> HIDE DEF o
  <2>3. QED
    BY <1>3, <1>5, <2>1, <2>2
<1>16. MergeInFoldAt(s, o, st, e, acc, j, h, st[o], st[r])'
  BY <1>10, <1>12, <1>14, <1>15 DEF MergeInFoldAt
<1>17. QED
  BY <1>2, <1>5, <1>10, <1>16 DEF MergingInFold

LEMMA FoldEnds ==
  ASSUME TypeOK, NEW s, NEW r, NEW st, NEW e, NEW acc, NEW j \in Nat,
         FoldAt(s, r, st, e, acc, j), Fold, ~Folds(bits)
  PROVE  (pc' = "take" /\ Taking') \/ (pc' = "rest" /\ MergingRest')
<1> DEFINE P == Pow2[j]
<1>1. /\ Ghost(s, r, st, e, acc) /\ bits \in Nat /\ count = st[r] + P /\ st[r] = bits * P
      /\ RestOfInput(s) /\ ListOf(next, s, st[r] + 1, count) /\ InOrd(key, s, st[r] + 1, count)
      /\ pending = s[st[r] + 1] /\ prev[pending] = HeadAt(s, st, r) /\ compared <= acc[r] + Cost(j)
  BY DEF FoldAt
<1>2. /\ Order(s, size, Nodes) /\ Shape(r, st, e, acc) /\ Held(next, prev, key, s, r, st)
      /\ st[r] < size /\ size \in Nat /\ st[r] \in Nat /\ acc[r] \in Nat /\ r \in Nat
      /\ \A k \in 1 .. size : s[k] # Null
  BY <1>1, FoldFacts
<1>3. P \in Nat \ {0} /\ Cost(j) \in Nat
  BY Pow2Def, CostType
<1>4. PICK h \in Nat : bits = 2 * h
  BY <1>1 DEF Folds
<1>5. count \in Nat /\ count <= size /\ (count < size <=> list # Null)
  BY <1>1, <1>2, <1>3 DEF RestOfInput
<1>6. UNCHANGED <<size, key, next, prev, pending, count, compared, temp>>
  BY DEF Fold, Folds, input, links
<1>7. CASE list # Null
  <2>1. pc' = "take" /\ list' = list
    BY <1>7 DEF Fold, Folds, Goto
  <2>2. PICK st2, e2, acc2 :
           /\ Shape(r + 1, st2, e2, acc2) /\ Held(next, prev, key, s, r + 1, st2)
           /\ st2[r + 1] = st[r] + P /\ acc2[r + 1] = acc[r] + Cost(j)
           /\ HeadAt(s, st2, r + 1) = s[st[r] + 1] /\ e2[r + 1] = j
    BY <1>1, <1>2, <1>4, PushRun
  <2>3. Ghost(s, r + 1, st2, e2, acc2)'
    BY <1>1, <1>2, <1>5, <1>6, <1>7, <2>2 DEF Ghost, Nodes
  <2>4. RestOfInput(s)'
    BY <1>1, <1>6, <2>1 DEF RestOfInput
  <2>5. TakeAt(s, r + 1, st2, e2, acc2)'
    BY <1>1, <1>6, <2>2, <2>3, <2>4 DEF TakeAt
  <2>6. QED
    BY <2>1, <2>5 DEF Taking
<1>8. CASE list = Null
  <2>1. pc' = "rest" /\ list' = pending /\ count = size
    <3>1. count = size
      BY <1>2, <1>5, <1>8
    <3>2. QED
      BY <1>8, <3>1 DEF Fold, Folds, Goto
  <2>2. Ghost(s, r, st, e, acc)'
    BY <1>1, <1>6 DEF Ghost, Nodes
  <2>3. size - st[r] = P /\ LogOf(P, j)
    <3>1. j > 0 => Pow2[j - 1] < Pow2[j]
      <4>1. j > 0 => j - 1 \in Nat /\ (j - 1) + 1 = j
        OBVIOUS
      <4>2. j > 0 => Pow2[j] = 2 * Pow2[j - 1] /\ Pow2[j - 1] \in Nat \ {0}
        BY <4>1, Pow2Def
      <4>3. QED
        BY <4>2
    <3>2. QED
      BY <1>1, <1>2, <1>3, <2>1, <3>1 DEF LogOf
  <2>4. r # 0 => j <= e[r]
    BY <1>1, <1>2, OddIsEqual DEF Folds
  <2>5. compared <= acc[r] + P * j - P + 1
    <3>1. P * j = j * P /\ P * j \in Nat
      BY <1>3
    <3>2. QED
      BY <1>1, <1>2, <1>3, <3>1 DEF Cost, TypeOK
  <2>6. RestAt(s, r, st, e, acc, j, list)'
    BY <1>1, <1>6, <2>1, <2>2, <2>3, <2>4, <2>5 DEF RestAt
  <2>7. QED
    BY <1>1, <1>6, <2>1, <2>6 DEF MergingRest
<1>9. QED
  BY <1>7, <1>8

-----------------------------------------------------------------------------
(* A round of _merge_list.                                                 *)

\* Going over from the arrangement s to t changes no list outside of the
\* places lo + 1 to hi.
Beside(s, t, lo, hi) ==
  \A k \in 1 .. size : k <= lo \/ k > hi => t[k] = s[k] /\ next'[s[k]] = next[s[k]]

Whole(t, lo, hi) ==
  merged' = t[lo + 1] /\ ListOf(next', t, lo + 1, hi) /\ InOrd(key, t, lo + 1, hi)

AfterRound(s, lo, p, hi) ==
  \E t : /\ Order(t, size, Nodes) /\ Beside(s, t, lo, hi)
         /\ \/ pc' = pc /\ \E q \in Nat : MergeAt(t, lo, p + 1, q, hi)'
            \/ MergeReturns(pc) /\ Whole(t, lo, hi)

LEMMA PutLinks ==
  ASSUME NEW x
  PROVE  /\ Put(x) => next' = Linked1(next, tail, x) /\ merged' = IF tail = Null THEN x ELSE merged
         /\ \A y : PutLast(x, y) /\ x # Null =>
              next' = Linked1(Linked1(next, tail, x), x, y) /\ merged' = IF tail = Null THEN x ELSE merged
<1>1. Put(x) => next' = Linked1(next, tail, x) /\ merged' = IF tail = Null THEN x ELSE merged
  BY DEF Put, Linked1
<1>2. ASSUME NEW y, PutLast(x, y), x # Null
      PROVE next' = Linked1(Linked1(next, tail, x), x, y) /\ merged' = IF tail = Null THEN x ELSE merged
  <2>1. CASE tail = Null
    BY <1>2, <2>1 DEF PutLast, Linked1
  <2>2. CASE tail # Null
    BY <1>2, <2>2 DEF PutLast, Linked1
  <2>3. QED
    BY <2>1, <2>2
<1>3. QED
  BY <1>1, <1>2

\* What links of the tail and of the last node leave alone.
LEMMA LinksBeside ==
  ASSUME TypeOK, NEW s, Order(s, size, Nodes), NEW t,
         NEW lo \in Nat, NEW p \in Nat, NEW q \in Nat, NEW hi \in Nat, hi <= size,
         lo <= p, p < q, q < hi, t = s \/ t = Rot(s, size, p, q),
         NEW x \in {s[p + 1], s[q + 1]}, NEW y,
         \/ next' = Linked1(next, TailAt(s, lo, p), x)
         \/ next' = Linked1(Linked1(next, TailAt(s, lo, p), x), x, y)
  PROVE  Beside(s, t, lo, hi)
<1>1. SUFFICES ASSUME NEW k \in 1 .. size, k <= lo \/ k > hi
               PROVE t[k] = s[k] /\ next'[s[k]] = next[s[k]]
  BY DEF Beside
<1>2. size \in Nat /\ s[k] \in DOMAIN next
  BY DEF TypeOK, Order, Iterators
<1>3. t[k] = s[k]
  <2>1. q < size /\ (k <= p \/ k > q + 1)
    BY <1>1, <1>2
  <2>2. Rot(s, size, p, q)[k] = s[k]
    BY <1>2, <2>1, RotOrder
  <2>3. QED
    BY <2>2
<1>4. p # lo => p \in 1 .. size
  BY <1>2
<1>5. p + 1 \in 1 .. size /\ q + 1 \in 1 .. size /\ k # p + 1 /\ k # q + 1
  BY <1>1, <1>2
<1>6. s[k] # x
  BY <1>5 DEF Order
<1>7. TailAt(s, lo, p) = Null \/ TailAt(s, lo, p) # s[k]
  <2>1. CASE p = lo
    BY <2>1 DEF TailAt
  <2>2. CASE p # lo
    <3>1. p \in 1 .. size /\ p # k
      BY <1>1, <1>4, <2>2
    <3>2. s[p] # s[k]
      BY <3>1 DEF Order
    <3>3. QED
      BY <2>2, <3>2 DEF TailAt
  <2>3. QED
    BY <2>1, <2>2
<1> DEFINE f == Linked1(next, TailAt(s, lo, p), x)
<1>8. f[s[k]] = next[s[k]] /\ DOMAIN f = DOMAIN next
  BY <1>2, <1>7, Linked1Is
<1>9. Linked1(f, x, y)[s[k]] = f[s[k]]
  <2> HIDE DEF f
  <2>1. s[k] \in DOMAIN f
    BY <1>2, <1>8
  <2>2. QED
    BY <1>6, <2>1, Linked1Is
<1>10. QED
  BY <1>3, <1>8, <1>9

LEMMA RoundLater ==
  ASSUME TypeOK, NEW s, Order(s, size, Nodes),
         NEW lo \in Nat, NEW p \in Nat, NEW q \in Nat, NEW hi \in Nat, hi <= size,
         MergeAt(s, lo, p, q, hi), Round, InOrder(a, b)
  PROVE  AfterRound(s, lo, p, hi)
<1>0. PICK t : t = Rot(s, size, p, q)
  OBVIOUS
<1>1. /\ Merging(next, key, s, lo, p, q, hi) /\ a = s[q + 1] /\ b = s[p + 1]
      /\ tail = TailAt(s, lo, p) /\ merged = IF p = lo THEN Null ELSE s[lo + 1]
  BY DEF MergeAt
<1>2. lo <= p /\ p < q /\ q < hi /\ ListOf(next, s, q + 1, hi)
  BY <1>1 DEF Merging
<1>3. size \in Nat /\ q < size /\ p < size /\ Nodes \subseteq Nat \ {0} /\ key \in [Nodes -> Int]
      /\ Nodes \subseteq DOMAIN next
  BY <1>2 DEF TypeOK, Iterators
<1>4. /\ Order(t, size, Nodes)
      /\ t[p + 1] = s[q + 1]
      /\ \A k \in p + 1 .. q : t[k + 1] = s[k]
      /\ \A k \in 1 .. size : k <= p \/ k > q + 1 => t[k] = s[k]
  BY <1>0, <1>2, <1>3, RotOrder
<1>5. key[s[q + 1]] <= key[s[p + 1]]
  BY <1>1 DEF InOrder
<1>6. \A k \in 1 .. size : s[k] \in Nodes /\ s[k] # Null
  BY <1>3 DEF Order, Null
<1>7. merged' = (IF tail = Null THEN a ELSE merged) => merged' = t[lo + 1]
  <2>1. CASE p = lo
    BY <1>1, <1>4, <2>1 DEF TailAt
  <2>2. CASE p # lo
    <3>1. p \in 1 .. size /\ lo + 1 <= p /\ lo + 1 \in 1 .. size
      BY <1>2, <1>3, <2>2
    <3>2. tail # Null
      BY <1>1, <1>6, <2>2, <3>1 DEF TailAt
    <3>3. QED
      BY <1>1, <1>4, <2>2, <3>1, <3>2
  <2>3. QED
    BY <2>1, <2>2
<1>8. t[p + 2] = s[p + 1]
  <2>1. p + 1 \in p + 1 .. q /\ (p + 1) + 1 = p + 2
    BY <1>2
  <2>2. QED
    BY <1>4, <2>1
<1>9. next[a] # Null <=> q + 1 < hi
  <2>1. CASE q + 1 < hi
    <3>1. next[s[q + 1]] = s[(q + 1) + 1] /\ (q + 1) + 1 \in 1 .. size
      BY <1>2, <1>3, <2>1 DEF ListOf
    <3>2. QED
      BY <1>1, <1>6, <2>1, <3>1
  <2>2. CASE q + 1 = hi
    BY <1>1, <1>2, <2>2 DEF ListOf
  <2>3. QED
    BY <1>2, <2>1, <2>2
<1>10. a # Null /\ a \in {s[p + 1], s[q + 1]}
  <2>1. q + 1 \in 1 .. size
    BY <1>3
  <2>2. QED
    BY <1>1, <1>6, <2>1
<1>11. CASE next[a] # Null
  <2>1. Put(a) /\ tail' = a /\ a' = next[a] /\ b' = b /\ pc' = pc /\ key' = key
    BY <1>11 DEF Round, input
  <2>2. next' = Linked1(next, tail, a) /\ merged' = t[lo + 1]
    BY <1>7, <2>1, PutLinks
  <2>3. q + 1 < hi
    BY <1>9, <1>11
  <2>4. Merging(next', key, t, lo, p + 1, q + 1, hi)
    BY <1>0, <1>1, <1>3, <1>5, <2>2, <2>3, TakeLater
  <2>5. Beside(s, t, lo, hi)
    BY <1>0, <1>1, <1>2, <1>10, <2>2, LinksBeside
  <2>6. a' = t[(q + 1) + 1]
    <3>1. (q + 1) + 1 \in 1 .. size /\ (q + 1) + 1 > q + 1 /\ q + 1 \in q + 1 .. hi - 1
      BY <1>2, <1>3, <2>3
    <3>2. t[(q + 1) + 1] = s[(q + 1) + 1]
      BY <1>4, <3>1
    <3>3. next[s[q + 1]] = s[(q + 1) + 1]
      BY <1>2, <3>1 DEF ListOf
    <3>4. QED
      BY <1>1, <2>1, <3>2, <3>3
  <2>7. b' = t[(p + 1) + 1] /\ tail' = TailAt(t, lo, p + 1)
    BY <1>1, <1>2, <1>4, <1>8, <2>1 DEF TailAt
  <2>8. p + 1 # lo
    BY <1>2
  <2>9. MergeAt(t, lo, p + 1, q + 1, hi)'
    BY <2>1, <2>2, <2>4, <2>6, <2>7, <2>8 DEF MergeAt
  <2>10. q + 1 \in Nat
    OBVIOUS
  <2>11. QED
    BY <1>4, <2>1, <2>5, <2>9, <2>10 DEF AfterRound
<1>12. CASE next[a] = Null
  <2>1. PutLast(a, b) /\ MergeReturns(pc)
    BY <1>12 DEF Round
  <2>2. next' = Linked1(Linked1(next, tail, a), a, b) /\ merged' = t[lo + 1]
    BY <1>7, <1>10, <2>1, PutLinks
  <2>3. q + 1 = hi
    BY <1>2, <1>9, <1>12
  <2>4. Merging(next, key, t, lo, p, p + 1, hi)
    BY <1>0, <1>1, <1>3, <2>3, Swapped
  <2>5. TailAt(t, lo, p) = TailAt(s, lo, p)
    BY <1>2, <1>3, <1>4 DEF TailAt
  <2>6. ListOf(next', t, lo + 1, hi) /\ InOrd(key, t, lo + 1, hi)
    <3>1. key[t[p + 1]] <= key[t[p + 2]]
      BY <1>4, <1>5, <1>8
    <3>2. next' = Linked1(Linked1(next, TailAt(t, lo, p), t[p + 1]), t[p + 1], t[p + 2])
      BY <1>1, <1>4, <1>8, <2>2, <2>5
    <3>3. QED
      BY <1>3, <1>4, <2>4, <3>1, <3>2, LastEarlier
  <2>7. Beside(s, t, lo, hi)
    BY <1>0, <1>1, <1>2, <1>10, <2>2, LinksBeside
  <2>8. QED
    BY <1>4, <2>1, <2>2, <2>6, <2>7 DEF Whole, AfterRound
<1>13. QED
  BY <1>11, <1>12

LEMMA RoundEarlier ==
  ASSUME TypeOK, NEW s, Order(s, size, Nodes),
         NEW lo \in Nat, NEW p \in Nat, NEW q \in Nat, NEW hi \in Nat, hi <= size,
         MergeAt(s, lo, p, q, hi), Round, ~InOrder(a, b)
  PROVE  AfterRound(s, lo, p, hi)
<1>1. /\ Merging(next, key, s, lo, p, q, hi) /\ a = s[q + 1] /\ b = s[p + 1]
      /\ tail = TailAt(s, lo, p) /\ merged = IF p = lo THEN Null ELSE s[lo + 1]
  BY DEF MergeAt
<1>2. lo <= p /\ p < q /\ q < hi /\ ListOf(next, s, p + 1, q)
  BY <1>1 DEF Merging
<1>3. size \in Nat /\ q < size /\ p < size /\ Nodes \subseteq Nat \ {0} /\ key \in [Nodes -> Int]
      /\ Nodes \subseteq DOMAIN next /\ p + 1 \in 1 .. size /\ q + 1 \in 1 .. size
  BY <1>2 DEF TypeOK, Iterators
<1>4. \A k \in 1 .. size : s[k] \in Nodes /\ s[k] # Null
  BY <1>3 DEF Order, Null
<1>5. key[s[p + 1]] <= key[s[q + 1]]
  <2>1. key[s[p + 1]] \in Int /\ key[s[q + 1]] \in Int
    BY <1>3, <1>4
  <2>2. QED
    BY <1>1, <2>1 DEF InOrder
<1>6. merged' = (IF tail = Null THEN b ELSE merged) => merged' = s[lo + 1]
  <2>1. CASE p = lo
    BY <1>1, <2>1 DEF TailAt
  <2>2. CASE p # lo
    <3>1. p \in 1 .. size
      BY <1>2, <1>3, <2>2
    <3>2. tail # Null
      BY <1>1, <1>4, <2>2, <3>1 DEF TailAt
    <3>3. QED
      BY <1>1, <2>2, <3>2
  <2>3. QED
    BY <2>1, <2>2
<1>7. next[b] # Null <=> p + 1 < q
  <2>1. CASE p + 1 < q
    <3>1. next[s[p + 1]] = s[(p + 1) + 1] /\ (p + 1) + 1 \in 1 .. size
      BY <1>2, <1>3, <2>1 DEF ListOf
    <3>2. QED
      BY <1>1, <1>4, <2>1, <3>1
  <2>2. CASE p + 1 = q
    BY <1>1, <1>2, <2>2 DEF ListOf
  <2>3. QED
    BY <1>2, <2>1, <2>2
<1>8. b # Null /\ b \in {s[p + 1], s[q + 1]} /\ b # a
  <2>1. s[p + 1] # s[q + 1]
    BY <1>2, <1>3 DEF Order
  <2>2. QED
    BY <1>1, <1>3, <1>4, <2>1
<1>9. CASE next[b] # Null
  <2>1. Put(b) /\ tail' = b /\ b' = next[b] /\ a' = a /\ pc' = pc /\ key' = key
    BY <1>8, <1>9 DEF Round, input
  <2>2. next' = Linked1(next, tail, b) /\ merged' = s[lo + 1]
    BY <1>6, <2>1, PutLinks
  <2>3. p + 1 < q
    BY <1>7, <1>9
  <2>4. Merging(next', key, s, lo, p + 1, q, hi)
    BY <1>1, <1>3, <1>5, <2>2, <2>3, TakeEarlier
  <2>5. Beside(s, s, lo, hi)
    BY <1>1, <1>2, <1>8, <2>2, LinksBeside
  <2>6. b' = s[(p + 1) + 1]
    BY <1>1, <1>2, <2>1, <2>3 DEF ListOf
  <2>7. tail' = TailAt(s, lo, p + 1) /\ p + 1 # lo
    BY <1>1, <1>2, <2>1 DEF TailAt
  <2>8. MergeAt(s, lo, p + 1, q, hi)'
    BY <1>1, <2>1, <2>2, <2>4, <2>6, <2>7 DEF MergeAt
  <2>9. QED
    BY <2>1, <2>5, <2>8 DEF AfterRound
<1>10. CASE next[b] = Null
  <2>1. PutLast(b, a) /\ MergeReturns(pc)
    BY <1>10 DEF Round
  <2>2. next' = Linked1(Linked1(next, tail, b), b, a) /\ merged' = s[lo + 1]
    BY <1>6, <1>8, <2>1, PutLinks
  <2>3. p + 1 = q
    BY <1>2, <1>7, <1>10
  <2>4. ListOf(next', s, lo + 1, hi) /\ InOrd(key, s, lo + 1, hi)
    <3>1. q + 1 = p + 2
      BY <2>3
    <3>2. key[s[p + 1]] <= key[s[p + 2]]
      BY <1>5, <3>1
    <3>3. next' = Linked1(Linked1(next, TailAt(s, lo, p), s[p + 1]), s[p + 1], s[p + 2])
      BY <1>1, <2>2, <3>1
    <3>4. Merging(next, key, s, lo, p, p + 1, hi)
      BY <1>1, <2>3
    <3>5. QED
      BY <1>3, <3>2, <3>3, <3>4, LastEarlier
  <2>5. Beside(s, s, lo, hi)
    BY <1>1, <1>2, <1>8, <2>2, LinksBeside
  <2>6. QED
    BY <2>1, <2>2, <2>4, <2>5 DEF Whole, AfterRound
<1>11. QED
  BY <1>9, <1>10

LEMMA RoundAt ==
  ASSUME TypeOK, NEW s, Order(s, size, Nodes),
         NEW lo \in Nat, NEW p \in Nat, NEW q \in Nat, NEW hi \in Nat, hi <= size,
         MergeAt(s, lo, p, q, hi), Round
  PROVE  AfterRound(s, lo, p, hi) /\ p + 2 <= hi /\ lo <= p /\ compared' \in Nat /\ compared' <= compared + 1
<1>1. AfterRound(s, lo, p, hi)
  BY RoundLater, RoundEarlier
<1>2. lo <= p /\ p < q /\ q < hi
  BY DEF MergeAt, Merging
<1>3. compared \in Nat /\ compared' = IF compared > Bound THEN compared ELSE compared + 1
  BY DEF TypeOK, Round
<1>4. QED
  BY <1>1, <1>2, <1>3

LEMMA GhostBeside ==
  ASSUME TypeOK, NEW s, NEW r, NEW st, NEW e, NEW acc, Ghost(s, r, st, e, acc),
         NEW t, Order(t, size, Nodes), NEW hi, Beside(s, t, st[r], hi),
         UNCHANGED <<size, key, prev, temp>>
  PROVE  Ghost(t, r, st, e, acc)' /\ HeadAt(t, st, r) = HeadAt(s, st, r)
<1>1. /\ Shape(r, st, e, acc) /\ Held(next, prev, key, s, r, st)
      /\ st[r] < size /\ size \in Nat /\ st[r] \in Nat /\ temp = ListHead
  BY FoldFacts
<1>2. \A k \in 1 .. st[r] : t[k] = s[k] /\ next'[s[k]] = next[s[k]] /\ prev[s[k]] = prev[s[k]]
  <2>1. \A k \in 1 .. st[r] : k \in 1 .. size /\ k <= st[r]
    BY <1>1
  <2>2. QED
    BY <2>1 DEF Beside
<1>3. Held(next', prev, key, t, r, st) /\ HeadAt(t, st, r) = HeadAt(s, st, r)
  <2>1. \A k \in 1 .. st[r] : t[k] = s[k] /\ next'[s[k]] = next[s[k]]
    BY <1>2
  <2>2. QED
    BY <1>1, <2>1, HeldSame
<1>4. QED
  BY <1>1, <1>3 DEF Ghost, Nodes

LEMMA RestBeside ==
  ASSUME TypeOK, NEW s, RestOfInput(s), count \in Nat, NEW t, NEW lo, Beside(s, t, lo, count),
         UNCHANGED <<size, list, count>>
  PROVE  RestOfInput(t)'
<1>1. size \in Nat
  BY DEF TypeOK
<1>2. CASE count < size
  <2>1. list = s[count + 1] /\ ListOf(next, s, count + 1, size)
    BY <1>2 DEF RestOfInput
  <2>2. \A k \in count + 1 .. size : t[k] = s[k] /\ next'[s[k]] = next[s[k]]
    BY <1>1 DEF Beside
  <2>3. ListOf(next', t, count + 1, size) /\ t[count + 1] = s[count + 1]
    BY <1>1, <1>2, <2>1, <2>2 DEF ListOf
  <2>4. QED
    BY <1>1, <1>2, <2>1, <2>3 DEF RestOfInput
<1>3. CASE ~(count < size)
  BY <1>3 DEF RestOfInput
<1>4. QED
  BY <1>2, <1>3

\* Merging two runs of 2^j nodes.
LEMMA FoldCosts ==
  ASSUME NEW j \in Nat
  PROVE  Pow2[j] \in Nat \ {0} /\ Cost(j) \in Nat /\ 2 * Cost(j) + 2 * Pow2[j] - 1 = Cost(j + 1)
<1>1. Pow2[j] \in Nat \ {0} /\ Cost(j) \in Nat /\ Cost(j + 1) = (2 * j) * Pow2[j] + 1
  BY Pow2Def, CostType
<1>2. \A x \in Nat : 2 * (j * x - x + 1) + 2 * x - 1 = (2 * j) * x + 1
  OBVIOUS
<1>3. QED
  BY <1>1, <1>2 DEF Cost

LEMMA RoundInFold ==
  ASSUME TypeOK, MergingInFold, Round, pc = "foldMerge"
  PROVE  (pc' = pc /\ MergingInFold') \/ (pc' = "foldMerged" /\ MergedInFold')
<1>1. PICK s, r, st, e, acc : \E j, h, p, q \in Nat : MergeInFoldAt(s, r, st, e, acc, j, h, p, q)
  BY DEF MergingInFold
<1>2. PICK j \in Nat, h \in Nat, p \in Nat, q \in Nat : MergeInFoldAt(s, r, st, e, acc, j, h, p, q)
  BY <1>1
<1> DEFINE P == Pow2[j]
<1>. j \in Nat /\ h \in Nat /\ p \in Nat /\ q \in Nat
  BY <1>2
<1>3. /\ Ghost(s, r, st, e, acc) /\ bits = 2 * h + 1
      /\ count = st[r] + 2 * P /\ st[r] = (2 * h) * P
      /\ RestOfInput(s) /\ prev[prev[pending]] = HeadAt(s, st, r)
      /\ MergeAt(s, st[r], p, q, count) /\ compared <= acc[r] + 2 * Cost(j) + (p - st[r])
  BY <1>2 DEF MergeInFoldAt, InFoldAt
<1>4. /\ Order(s, size, Nodes) /\ size \in Nat /\ st[r] \in Nat /\ acc[r] \in Nat
  BY <1>3, FoldFacts
<1>5. P \in Nat \ {0} /\ Cost(j) \in Nat /\ 2 * Cost(j) + 2 * P - 1 = Cost(j + 1)
  BY FoldCosts
<1> HIDE DEF P
<1>6. count \in Nat /\ count <= size
  <2>1. count \in Nat
    BY <1>3, <1>4, <1>5 DEF P
  <2>2. QED
    BY <1>3, <2>1 DEF RestOfInput
<1>7. /\ AfterRound(s, st[r], p, count) /\ p + 2 <= count /\ st[r] <= p
      /\ compared' \in Nat /\ compared' <= compared + 1
  BY <1>3, <1>4, <1>6, RoundAt
<1>8. UNCHANGED <<size, key, prev, list, pending, count, bits, temp>>
  BY DEF Round, input
<1>9. PICK t : /\ Order(t, size, Nodes) /\ Beside(s, t, st[r], count)
               /\ \/ pc' = pc /\ \E x \in Nat : MergeAt(t, st[r], p + 1, x, count)'
                  \/ MergeReturns(pc) /\ Whole(t, st[r], count)
  BY <1>7 DEF AfterRound
<1>10. Ghost(t, r, st, e, acc)' /\ HeadAt(t, st, r) = HeadAt(s, st, r)
  BY <1>3, <1>8, <1>9, GhostBeside
<1>11. RestOfInput(t)'
  BY <1>3, <1>6, <1>8, <1>9, RestBeside
<1>12. InFoldAt(t, r, st, e, acc, j, h)'
  BY <1>3, <1>8, <1>10, <1>11 DEF InFoldAt, P
<1>13. compared \in Nat
  BY DEF TypeOK
<1>14. CASE pc' = pc /\ \E x \in Nat : MergeAt(t, st[r], p + 1, x, count)'
  <2>1. PICK x \in Nat : MergeAt(t, st[r], p + 1, x, count)'
    BY <1>14
  <2>2. compared' <= acc[r] + 2 * Cost(j) + ((p + 1) - st[r])
    <3>1. compared <= acc[r] + 2 * Cost(j) + (p - st[r])
      BY <1>3
    <3>2. QED
      BY <1>4, <1>5, <1>7, <1>13, <3>1
  <2>3. MergeInFoldAt(t, r, st, e, acc, j, h, p + 1, x)'
    BY <1>8, <1>12, <2>1, <2>2 DEF MergeInFoldAt
  <2>4. p + 1 \in Nat
    OBVIOUS
  <2>5. QED
    BY <1>14, <2>3, <2>4 DEF MergingInFold
<1>15. CASE MergeReturns(pc) /\ Whole(t, st[r], count)
  <2>1. pc' = "foldMerged"
    BY <1>15 DEF MergeReturns
  <2>2. compared' <= acc[r] + Cost(j + 1)
    <3>1. compared <= acc[r] + 2 * Cost(j) + (p - st[r]) /\ count = st[r] + 2 * P
      BY <1>3 DEF P
    <3>2. QED
      BY <1>4, <1>5, <1>7, <1>13, <3>1
  <2>3. MergedInFoldAt(t, r, st, e, acc, j, h)'
    BY <1>8, <1>12, <1>15, <2>2 DEF MergedInFoldAt, Whole
  <2>4. QED
    BY <2>1, <2>3 DEF MergedInFold
<1>16. QED
  BY <1>9, <1>14, <1>15

LEMMA FoldedStep ==
  ASSUME TypeOK, MergedInFold, Folded
  PROVE  pc' = "fold" /\ Folding'
<1>1. PICK s, r, st, e, acc : \E j, h \in Nat : MergedInFoldAt(s, r, st, e, acc, j, h)
  BY DEF MergedInFold
<1>2. PICK j \in Nat, h \in Nat : MergedInFoldAt(s, r, st, e, acc, j, h)
  BY <1>1
<1>3. /\ Ghost(s, r, st, e, acc) /\ bits = 2 * h + 1
      /\ count = st[r] + 2 * Pow2[j] /\ st[r] = (2 * h) * Pow2[j]
      /\ RestOfInput(s) /\ prev[prev[pending]] = HeadAt(s, st, r)
      /\ merged = s[st[r] + 1] /\ ListOf(next, s, st[r] + 1, count) /\ InOrd(key, s, st[r] + 1, count)
      /\ compared <= acc[r] + Cost(j + 1)
  BY <1>2 DEF MergedInFoldAt, InFoldAt
<1>4. /\ Order(s, size, Nodes) /\ Shape(r, st, e, acc) /\ Held(next, prev, key, s, r, st)
      /\ st[r] < size /\ temp = ListHead /\ size \in Nat /\ st[r] \in Nat
      /\ \A k \in 1 .. size : s[k] \in DOMAIN prev
  BY <1>3, FoldFacts
<1>5. Pow2[j + 1] = 2 * Pow2[j] /\ Pow2[j] \in Nat /\ j + 1 \in Nat
  BY Pow2Def
<1>6. count = st[r] + Pow2[j + 1] /\ st[r] = h * Pow2[j + 1]
  <2>1. \A x \in Nat : (2 * h) * x = h * (2 * x)
    OBVIOUS
  <2>2. QED
    BY <1>3, <1>5, <2>1
<1>7. /\ pc' = "fold" /\ prev' = [prev EXCEPT ![merged] = prev[prev[pending]]]
      /\ pending' = merged /\ bits' = Shift(bits)
      /\ UNCHANGED <<size, key, next, list, count, compared, temp>>
  BY DEF Folded, Goto, input
<1>8. bits' = h
  BY <1>3, <1>7 DEF Shift
<1>9. st[r] + 1 \in 1 .. size
  BY <1>4
<1>10. /\ prev'[merged] = HeadAt(s, st, r)
       /\ \A k \in 1 .. st[r] : next'[s[k]] = next[s[k]] /\ prev'[s[k]] = prev[s[k]]
  <2>1. \A k \in 1 .. st[r] : s[k] \in DOMAIN prev /\ s[k] # merged
    BY <1>3, <1>4, <1>9 DEF Order
  <2>2. merged \in DOMAIN prev
    BY <1>3, <1>4, <1>9
  <2>3. QED
    BY <1>3, <1>7, <2>1, <2>2
<1>11. Held(next', prev', key, s, r, st)
  BY <1>4, <1>10, HeldKept
<1>12. Ghost(s, r, st, e, acc)'
  BY <1>4, <1>7, <1>11 DEF Ghost, Nodes
<1>13. RestOfInput(s)'
  BY <1>3, <1>7 DEF RestOfInput
<1>14. FoldAt(s, r, st, e, acc, j + 1)'
  BY <1>3, <1>6, <1>7, <1>8, <1>10, <1>12, <1>13 DEF FoldAt
<1>15. QED
  BY <1>5, <1>7, <1>14 DEF Folding

-----------------------------------------------------------------------------
(* Merging the runs that are left.                                         *)

LEMMA RestBegins ==
  ASSUME TypeOK, MergingRest, Rest, prev[pending] # Null
  PROVE  pc' = "restMerge" /\ MergingInRest'
<1>1. PICK s, r, st, e, acc : \E t \in Nat :
        RestAt(s, r, st, e, acc, t, list) /\ prev[pending] = HeadAt(s, st, r)
  BY DEF MergingRest
<1>2. PICK t \in Nat : RestAt(s, r, st, e, acc, t, list)
  BY <1>1
<1> DEFINE m == size - st[r]
           o == r - 1
           j == e[r]
<1>3. /\ Ghost(s, r, st, e, acc) /\ list = s[st[r] + 1]
      /\ ListOf(next, s, st[r] + 1, size) /\ InOrd(key, s, st[r] + 1, size)
      /\ LogOf(m, t) /\ (r # 0 => t <= j) /\ compared <= acc[r] + m * t - m + 1
  BY <1>2 DEF RestAt
<1>4. /\ Order(s, size, Nodes) /\ Shape(r, st, e, acc) /\ Held(next, prev, key, s, r, st)
      /\ st[r] < size /\ temp = ListHead
      /\ size \in Nat /\ st[r] \in Nat /\ acc[r] \in Nat /\ r \in Nat
  BY <1>3, FoldFacts
<1>5. r # 0
  BY <1>1 DEF HeadAt
<1>6. /\ Shape(o, st, e, acc) /\ o \in Nat /\ r \in 1 .. r /\ j \in Nat
      /\ st[o] \in Nat /\ st[r] = st[o] + Pow2[j] /\ st[o] < st[r]
      /\ acc[o] \in Nat /\ acc[r] = acc[o] + Cost(j)
  BY <1>4, <1>5, TopRun
<1>7. PICK h \in Nat : st[o] = (2 * h) * Pow2[j]
  BY <1>4, <1>5, OddMultiple
<1>8. Pow2[j] \in Nat /\ Cost(j) \in Nat
  BY <1>6, Pow2Def, CostType
<1>9. /\ ListOf(next, s, st[o] + 1, st[r]) /\ InOrd(key, s, st[o] + 1, st[r])
      /\ prev[s[st[o] + 1]] = HeadAt(s, st, o) /\ HeadAt(s, st, r) = s[st[o] + 1]
  BY <1>4, <1>5, <1>6 DEF Held, IsHeld, HeadAt
<1>10. Held(next, prev, key, s, o, st)
  BY <1>4, <1>6 DEF Held
<1>11. /\ pc' = "restMerge" /\ a' = list /\ b' = prev[pending] /\ tail' = Null /\ merged' = Null
       /\ UNCHANGED <<size, key, next, prev, pending, compared, temp>>
  BY DEF Rest, Merge, Goto, input
<1>12. m \in Nat /\ size - st[o] = m + Pow2[j]
  BY <1>4, <1>6, <1>8
<1>13. Merging(next, key, s, st[o], st[o], st[r], size)
  BY <1>3, <1>4, <1>6, <1>9 DEF Merging, InOrd
<1>14. MergeAt(s, st[o], st[o], st[r], size)'
  BY <1>1, <1>3, <1>9, <1>11, <1>13 DEF MergeAt, TailAt
<1>15. compared' <= acc[o] + Cost(j) + m * t - m + 1 + (st[o] - st[o])
  <2>1. m * t \in Nat /\ compared \in Nat
    BY <1>12 DEF TypeOK
  <2>2. compared' <= acc[o] + Cost(j) + m * t - m + 1
    BY <1>3, <1>6, <1>11
  <2> HIDE DEF m, j, o
  <2>3. QED
    BY <1>6, <1>8, <1>11, <1>12, <2>1, <2>2
<1>16. Ghost(s, o, st, e, acc)'
  <2>1. st[o] < size
    BY <1>4, <1>6
  <2> HIDE DEF o
  <2>2. QED
    BY <1>4, <1>6, <1>10, <1>11, <2>1 DEF Ghost, Nodes
<1>17. PICK n \in Nat, i \in Nat : n = m /\ i = j
  BY <1>6, <1>12
<1>18. MergeInRestAt(s, o, st, e, acc, i, h, t, n, st[o], st[r])'
  <2>1. (prev[prev[pending]])' = HeadAt(s, st, o)
    BY <1>1, <1>9, <1>11
  <2> HIDE DEF m, j, o
  <2>2. (size - st[o])' = n + Pow2[i] /\ LogOf(n, t) /\ t <= i /\ st[o] = (2 * h) * Pow2[i]
    BY <1>3, <1>5, <1>7, <1>11, <1>12, <1>17
  <2>3. QED
    BY <1>11, <1>14, <1>15, <1>16, <1>17, <2>1, <2>2 DEF MergeInRestAt
<1>19. QED
  BY <1>4, <1>6, <1>11, <1>17, <1>18 DEF MergingInRest

\* Merging a run of 2^j nodes with m nodes that are no more.
LEMMA RestCosts ==
  ASSUME NEW j \in Nat, NEW t \in Nat, NEW m \in Nat, LogOf(m, t), t <= j
  PROVE  /\ LogOf(m + Pow2[j], j + 1)
         /\ Cost(j) + m * t - m + 1 + (m + Pow2[j]) - 1
              <= (m + Pow2[j]) * (j + 1) - (m + Pow2[j]) + 1
<1> DEFINE P == Pow2[j]
<1>1. P \in Nat \ {0} /\ Pow2[j + 1] = 2 * P /\ Pow2[t] <= P /\ Pow2[t] \in Nat
  BY Pow2Def, Pow2Monotone
<1>2. m \in Nat \ {0} /\ m <= P
  BY <1>1 DEF LogOf
<1>3. LogOf(m + P, j + 1)
  BY <1>1, <1>2 DEF LogOf
<1>4. m * t <= m * j
  OBVIOUS
<1>5. m * t \in Nat /\ m * j \in Nat /\ j * P \in Nat
  BY <1>1
<1>6. (m + P) * (j + 1) - (m + P) + 1 = m * j + j * P + 1
  <2>1. \A x \in Nat : (m + x) * (j + 1) - (m + x) + 1 = m * j + j * x + 1
    OBVIOUS
  <2>2. QED
    BY <1>1, <2>1
<1>7. Cost(j) = j * P - P + 1
  BY DEF Cost
<1> HIDE DEF P
<1>8. Cost(j) + m * t - m + 1 + (m + P) - 1 = j * P + m * t + 1
  BY <1>1, <1>2, <1>5, <1>7
<1>9. QED
  BY <1>3, <1>4, <1>5, <1>6, <1>8 DEF P

LEMMA RoundInRest ==
  ASSUME TypeOK, MergingInRest, Round, pc = "restMerge"
  PROVE  (pc' = pc /\ MergingInRest') \/ (pc' = "restMerged" /\ MergedInRest')
<1>1. PICK s, r, st, e, acc : \E j, h, t, m, p, q \in Nat :
        MergeInRestAt(s, r, st, e, acc, j, h, t, m, p, q)
  BY DEF MergingInRest
<1>2. PICK j \in Nat, h \in Nat, t \in Nat, m \in Nat, p \in Nat, q \in Nat :
        MergeInRestAt(s, r, st, e, acc, j, h, t, m, p, q)
  BY <1>1
<1> DEFINE P == Pow2[j]
<1>3. /\ Ghost(s, r, st, e, acc) /\ prev[prev[pending]] = HeadAt(s, st, r)
      /\ size - st[r] = m + P /\ LogOf(m, t) /\ t <= j /\ st[r] = (2 * h) * P
      /\ MergeAt(s, st[r], p, q, size)
      /\ compared <= acc[r] + Cost(j) + m * t - m + 1 + (p - st[r])
  BY <1>2 DEF MergeInRestAt
<1>4. /\ Order(s, size, Nodes) /\ Shape(r, st, e, acc)
      /\ size \in Nat /\ st[r] \in Nat /\ acc[r] \in Nat /\ r \in Nat
  BY <1>3, FoldFacts
<1>5. P \in Nat /\ Cost(j) \in Nat /\ m * t \in Nat
  BY Pow2Def, CostType
<1> HIDE DEF P
<1>6. /\ AfterRound(s, st[r], p, size) /\ p + 2 <= size /\ st[r] <= p
      /\ compared' \in Nat /\ compared' <= compared + 1
  BY <1>3, <1>4, RoundAt
<1>7. UNCHANGED <<size, key, prev, pending, temp>>
  BY DEF Round, input
<1>8. PICK u : /\ Order(u, size, Nodes) /\ Beside(s, u, st[r], size)
               /\ \/ pc' = pc /\ \E x \in Nat : MergeAt(u, st[r], p + 1, x, size)'
                  \/ MergeReturns(pc) /\ Whole(u, st[r], size)
  BY <1>6 DEF AfterRound
<1>9. Ghost(u, r, st, e, acc)' /\ HeadAt(u, st, r) = HeadAt(s, st, r)
  BY <1>3, <1>7, <1>8, GhostBeside
<1>10. (prev[prev[pending]])' = HeadAt(u, st, r)
  BY <1>3, <1>7, <1>9
<1>11. compared \in Nat
  BY DEF TypeOK
<1>12. CASE pc' = pc /\ \E x \in Nat : MergeAt(u, st[r], p + 1, x, size)'
  <2>1. PICK x \in Nat : MergeAt(u, st[r], p + 1, x, size)'
    BY <1>12
  <2>2. compared' <= acc[r] + Cost(j) + m * t - m + 1 + ((p + 1) - st[r])
    <3>1. compared <= acc[r] + Cost(j) + m * t - m + 1 + (p - st[r])
      BY <1>3
    <3>2. QED
      BY <1>4, <1>5, <1>6, <1>11, <3>1
  <2>3. MergeInRestAt(u, r, st, e, acc, j, h, t, m, p + 1, x)'
    BY <1>3, <1>7, <1>9, <1>10, <2>1, <2>2 DEF MergeInRestAt, P
  <2>4. p + 1 \in Nat
    OBVIOUS
  <2>5. QED
    BY <1>12, <2>3, <2>4 DEF MergingInRest
<1>13. CASE MergeReturns(pc) /\ Whole(u, st[r], size)
  <2>1. pc' = "restMerged"
    BY <1>13 DEF MergeReturns
  <2>2. LogOf(m + P, j + 1)
        /\ Cost(j) + m * t - m + 1 + (m + P) - 1 <= (m + P) * (j + 1) - (m + P) + 1
    BY <1>3, RestCosts DEF P
  <2>3. compared' <= acc[r] + (m + P) * (j + 1) - (m + P) + 1
    <3>1. compared <= acc[r] + Cost(j) + m * t - m + 1 + (p - st[r]) /\ p - st[r] <= m + P - 2
      BY <1>3, <1>4, <1>5, <1>6
    <3>2. (m + P) * (j + 1) \in Nat
      BY <1>5
    <3>3. compared' <= acc[r] + (Cost(j) + m * t - m + 1 + (m + P) - 1)
      BY <1>4, <1>5, <1>6, <1>11, <3>1
    <3>4. QED
      BY <1>4, <1>5, <1>6, <2>2, <3>2, <3>3
  <2>4. r # 0 => j + 1 <= e[r]
    BY <1>3, <1>4, Decreasing DEF P
  <2>5. RestAt(u, r, st, e, acc, j + 1, merged)'
    BY <1>3, <1>7, <1>9, <1>13, <2>2, <2>3, <2>4 DEF RestAt, Whole
  <2>6. j + 1 \in Nat
    OBVIOUS
  <2>7. QED
    BY <1>10, <2>1, <2>5, <2>6 DEF MergedInRest
<1>14. QED
  BY <1>8, <1>12, <1>13

LEMMA RestMergedStep ==
  ASSUME TypeOK, MergedInRest, RestMerged
  PROVE  pc' = "rest" /\ MergingRest'
<1>1. PICK s, r, st, e, acc : \E t \in Nat :
        RestAt(s, r, st, e, acc, t, merged) /\ prev[prev[pending]] = HeadAt(s, st, r)
  BY DEF MergedInRest
<1>2. PICK t \in Nat : RestAt(s, r, st, e, acc, t, merged)
  BY <1>1
<1>3. /\ pc' = "rest" /\ list' = merged /\ pending' = prev[pending]
      /\ UNCHANGED <<size, key, next, prev, compared, temp>>
  BY DEF RestMerged, Goto, input, links
<1>4. RestAt(s, r, st, e, acc, t, list)'
  BY <1>2, <1>3 DEF RestAt, Ghost, Nodes
<1>5. QED
  BY <1>1, <1>3, <1>4 DEF MergingRest

-----------------------------------------------------------------------------
(* The comparisons taken so far are within the bound.                      *)

LEMMA LogExists ==
  ASSUME NEW n \in Nat \ {0}
  PROVE  \E t \in Nat : LogOf(n, t)
<1> DEFINE S == {t \in Nat : n <= Pow2[t]}
<1>1. n \in S
  BY Pow2Grows, Pow2Def
<1>2. PICK t \in S : \A y \in S : t <= y
  <2>1. S \subseteq Nat
    OBVIOUS
  <2> HIDE DEF S
  <2>2. QED
    BY <1>1, <2>1, Least
<1>3. t > 0 => Pow2[t - 1] < n
  <2>1. t > 0 => t - 1 \in Nat /\ t - 1 \notin S
    BY <1>2
  <2>2. t > 0 => Pow2[t - 1] \in Nat
    BY <2>1, Pow2Def
  <2>3. QED
    BY <2>1, <2>2
<1>4. QED
  BY <1>2, <1>3 DEF LogOf

\* The logarithm grows with the number.
LEMMA LogMonotone ==
  ASSUME NEW m \in Nat, NEW n \in Nat, m <= n, NEW t \in Nat, NEW u \in Nat, LogOf(m, t), LogOf(n, u)
  PROVE  t <= u
<1>1. ASSUME u < t PROVE FALSE
  <2>1. t - 1 \in Nat /\ u <= t - 1
    BY <1>1
  <2>2. Pow2[u] <= Pow2[t - 1] /\ Pow2[u] \in Nat /\ Pow2[t - 1] \in Nat
    BY <2>1, Pow2Monotone, Pow2Def
  <2>3. Pow2[t - 1] < m /\ n <= Pow2[u]
    BY <1>1 DEF LogOf
  <2>4. QED
    BY <2>2, <2>3
<1>2. QED
  BY <1>1

LEMMA CeilLog2Is ==
  ASSUME NEW n \in Nat \ {0}, NEW t \in Nat, LogOf(n, t)
  PROVE  CeilLog2(n) = t
<1> DEFINE Is(k) == k \in 0 .. n /\ Pow2[k] >= n /\ \A j \in 0 .. k - 1 : Pow2[j] < n
<1>1. Is(t)
  <2>1. n <= Pow2[t] /\ Pow2[t] \in Nat
    BY Pow2Def DEF LogOf
  <2>2. CASE t = 0
    BY <2>1, <2>2
  <2>3. CASE t > 0
    <3>1. t - 1 \in Nat /\ Pow2[t - 1] < n
      BY <2>3 DEF LogOf
    <3>2. t - 1 < Pow2[t - 1] /\ Pow2[t - 1] \in Nat
      BY <3>1, Pow2Grows, Pow2Def
    <3>3. ASSUME NEW j \in 0 .. t - 1 PROVE Pow2[j] < n
      <4>1. j \in Nat /\ j <= t - 1
        OBVIOUS
      <4>2. Pow2[j] <= Pow2[t - 1] /\ Pow2[j] \in Nat
        BY <3>1, <4>1, Pow2Monotone, Pow2Def
      <4>3. QED
        BY <3>1, <3>2, <4>2
    <3>4. t \in 0 .. n
      BY <3>1, <3>2
    <3>5. QED
      BY <2>1, <3>3, <3>4
  <2>4. QED
    BY <2>2, <2>3
<1>2. ASSUME NEW k, Is(k) PROVE k = t
  <2>1. k \in Nat
    BY <1>2
  <2>2. ASSUME k < t PROVE FALSE
    <3>1. k \in 0 .. t - 1
      BY <2>1, <2>2
    <3>2. Pow2[k] < n /\ Pow2[k] >= n /\ Pow2[k] \in Nat
      BY <1>1, <1>2, <2>1, <3>1, Pow2Def
    <3>3. QED
      BY <3>2
  <2>3. ASSUME t < k PROVE FALSE
    <3>1. t \in 0 .. k - 1
      BY <2>1, <2>3
    <3>2. Pow2[t] < n /\ Pow2[t] >= n /\ Pow2[t] \in Nat
      BY <1>1, <1>2, <3>1, Pow2Def
    <3>3. QED
      BY <3>2
  <2>4. QED
    BY <2>1, <2>2, <2>3
<1> HIDE DEF Is
<1>3. CeilLog2(n) = CHOOSE k \in 0 .. n : Pow2[k] >= n /\ \A j \in 0 .. k - 1 : Pow2[j] < n
  BY DEF CeilLog2
<1>4. \A k : Is(k) <=> k \in 0 .. n /\ (Pow2[k] >= n /\ \A j \in 0 .. k - 1 : Pow2[j] < n)
  BY DEF Is
<1>5. Is(CeilLog2(n))
  BY <1>1, <1>3, <1>4
<1>6. QED
  BY <1>2, <1>5

LEMMA BoundIs ==
  ASSUME NEW t \in Nat, LogOf(size, t)
  PROVE  Bound = size * t - size + 1
<1>1. size \in Nat \ {0}
  BY DEF LogOf
<1>2. QED
  BY <1>1, CeilLog2Is DEF Bound

\* The runs below cost little more than half a comparison too few.
LEMMA AccBound ==
  ASSUME NEW r, NEW st, NEW e, NEW acc, Shape(r, st, e, acc),
         NEW n \in Nat, st[r] < n, NEW t \in Nat, LogOf(n, t)
  PROVE  acc[r] <= st[r] * (t - 1)
<1>1. /\ \A i \in 0 .. r : st[i] \in Nat /\ st[i] <= st[r]
      /\ r \in Nat /\ st \in [Nat -> Nat] /\ acc \in [Nat -> Nat] /\ e \in [Nat -> Nat]
      /\ st[0] = 0 /\ acc[0] = 0
  BY ShapeBelow DEF Shape
<1>. r \in Int /\ 0 * (t - 1) = 0
  BY <1>1
<1> DEFINE S == {i \in 0 .. r : acc[i] <= st[i] * (t - 1)}
<1>2. 0 \in S
  BY <1>1
<1>3. ASSUME NEW i \in 1 .. r, i - 1 \in S PROVE i \in S
  <2> DEFINE k == e[i]
             P == Pow2[k]
  <2>1. /\ st[i] = st[i - 1] + P /\ acc[i] = acc[i - 1] + Cost(k)
        /\ k \in Nat /\ st[i - 1] \in Nat /\ acc[i - 1] \in Nat /\ st[i] <= st[r] /\ st[r] \in Nat
    BY <1>1, <1>3 DEF Shape, IsRun
  <2>2. P \in Nat \ {0} /\ Cost(k) = k * P - P + 1
    BY <2>1, Pow2Def DEF Cost
  <2>3. P < n /\ n <= Pow2[t] /\ Pow2[t] \in Nat
    BY <2>1, <2>2, Pow2Def DEF LogOf
  <2>4. k < t
    BY <2>1, <2>2, <2>3, Pow2Monotone
  <2> HIDE DEF P, k
  <2>5. k * P <= (t - 1) * P /\ k * P \in Nat /\ (t - 1) * P \in Nat
    <3>1. t - 1 \in Nat /\ k <= t - 1
      BY <2>1, <2>4
    <3>2. \A x, y, z \in Nat : x <= y => x * z <= y * z /\ x * z \in Nat /\ y * z \in Nat
      OBVIOUS
    <3>3. QED
      BY <2>1, <2>2, <3>1, <3>2
  <2>6. Cost(k) <= (t - 1) * P /\ Cost(k) \in Nat
    <3>1. \A x, y \in Nat : x <= y => x - P + 1 <= y
      BY <2>2
    <3>2. Cost(k) \in Nat
      BY <2>1, CostType
    <3>3. QED
      BY <2>2, <2>5, <3>1, <3>2
  <2>7. (st[i - 1] + P) * (t - 1) = st[i - 1] * (t - 1) + (t - 1) * P /\ st[i - 1] * (t - 1) \in Int
    <3>1. \A x, y \in Nat, z \in Int : (x + y) * z = x * z + z * y /\ x * z \in Int
      OBVIOUS
    <3>2. t - 1 \in Int
      OBVIOUS
    <3>3. QED
      BY <2>1, <2>2, <3>1, <3>2
  <2>8. acc[i - 1] <= st[i - 1] * (t - 1)
    BY <1>3
  <2>9. acc[i] <= st[i] * (t - 1)
    BY <2>1, <2>5, <2>6, <2>7, <2>8
  <2>10. QED
    BY <2>9
<1>4. \A i \in 1 .. r : i - 1 \in S => i \in S
  BY <1>3
<1> HIDE DEF S
<1>5. \A i \in 0 .. r : i \in S
  BY <1>1, <1>2, <1>4, UpTo
<1>6. r \in 0 .. r
  BY <1>1
<1>7. QED
  BY <1>5, <1>6 DEF S

\* Runs below and a run of 2^j nodes above them.
LEMMA FoldWithin ==
  ASSUME NEW r, NEW st, NEW e, NEW acc, Shape(r, st, e, acc), NEW n \in Nat, st[r] < n,
         NEW t \in Nat, LogOf(n, t), NEW j \in Nat, st[r] + Pow2[j] <= n
  PROVE  acc[r] + Cost(j) <= n * t - n + 1
<1> DEFINE P == Pow2[j]
           B == st[r]
<1>1. B \in Nat /\ acc[r] \in Nat /\ r \in Nat
  BY DEF Shape
<1>2. P \in Nat \ {0} /\ Cost(j) = j * P - P + 1 /\ Pow2[t] \in Nat /\ n <= Pow2[t]
  BY Pow2Def DEF Cost, LogOf
<1>3. acc[r] <= B * (t - 1)
  BY AccBound
<1>4. j <= t
  <2>1. ASSUME t < j PROVE FALSE
    <3>1. 2 * Pow2[t] <= P
      BY <2>1, Pow2Monotone
    <3>2. Pow2[t] > 0
      BY Pow2Def
    <3>3. QED
      BY <1>1, <1>2, <3>1, <3>2
  <2>2. QED
    BY <2>1
<1> HIDE DEF P, B
<1>5. j * P - P + 1 <= (t - 1) * P + 1
  <2>1. \A x \in Nat : j * x - x + 1 <= (t - 1) * x + 1
    BY <1>4
  <2>2. QED
    BY <1>2, <2>1
<1>6. t > 0 => (B + P) * (t - 1) <= n * (t - 1)
  <2>1. B + P <= n
    BY DEF B, P
  <2>2. t > 0 => t - 1 \in Nat
    OBVIOUS
  <2>3. \A x, y, z \in Nat : x <= y => x * z <= y * z
    OBVIOUS
  <2>4. B + P \in Nat
    BY <1>1, <1>2 DEF B
  <2>5. QED
    BY <2>1, <2>2, <2>3, <2>4
<1>7. (B + P) * (t - 1) = B * (t - 1) + (t - 1) * P /\ n * (t - 1) = n * t - n
      /\ B * (t - 1) \in Int /\ (t - 1) * P \in Int /\ n * t \in Int
  <2>1. \A x, y \in Nat : (x + y) * (t - 1) = x * (t - 1) + (t - 1) * y
                          /\ x * (t - 1) \in Int /\ (t - 1) * y \in Int
    OBVIOUS
  <2>2. B \in Nat
    BY <1>1 DEF B
  <2>3. n * (t - 1) = n * t - n /\ n * t \in Int
    OBVIOUS
  <2>4. QED
    BY <1>2, <2>1, <2>2, <2>3
<1>8. CASE t > 0
  <2>1. acc[r] \in Nat /\ acc[r] <= B * (t - 1)
    BY <1>1, <1>3
  <2>2. Cost(j) \in Nat /\ Cost(j) <= (t - 1) * P + 1
    BY <1>2, <1>5, CostType
  <2>3. B * (t - 1) + (t - 1) * P <= n * t - n
    BY <1>6, <1>7, <1>8
  <2>4. QED
    BY <1>7, <2>1, <2>2, <2>3
<1>9. CASE t = 0
  <2>1. n <= 1 /\ B = 0
    <3>1. Pow2[0] = 1 /\ B \in Nat /\ B < n
      BY <1>1, Pow2Def DEF B
    <3>2. QED
      BY <1>2, <1>9, <3>1
  <2>2. j = 0 /\ Cost(0) = 0
    BY <1>4, <1>9, CostType
  <2>3. acc[r] = 0
    BY <1>1, <1>3, <1>9, <2>1
  <2>4. n * t = 0
    BY <1>9
  <2>5. QED
    BY <1>9, <2>1, <2>2, <2>3, <2>4
<1>10. QED
  BY <1>8, <1>9

\* Runs below and what is above them merged.
LEMMA RestWithin ==
  ASSUME NEW r, NEW st, NEW e, NEW acc, Shape(r, st, e, acc), NEW n \in Nat, st[r] < n,
         NEW t \in Nat, LogOf(n, t), NEW m \in Nat, NEW u \in Nat, LogOf(m, u), n = st[r] + m
  PROVE  acc[r] + m * u - m + 1 <= n * t - n + 1
<1> DEFINE B == st[r]
<1>1. B \in Nat /\ acc[r] \in Nat /\ r \in Nat
  BY DEF Shape
<1>2. acc[r] <= B * (t - 1)
  BY AccBound
<1>3. u <= t
  BY <1>1, LogMonotone
<1> HIDE DEF B
<1>4. m * u <= m * t /\ m * u \in Nat /\ m * t \in Nat
  BY <1>3
<1>5. \A x \in Nat : (x + m) * t - (x + m) + 1 = x * (t - 1) + m * t - m + 1 /\ x * (t - 1) \in Int
  OBVIOUS
<1>6. B \in Nat /\ n = B + m
  BY <1>1 DEF B
<1>7. n * t - n + 1 = B * (t - 1) + m * t - m + 1 /\ B * (t - 1) \in Int
  BY <1>5, <1>6
<1>8. QED
  BY <1>1, <1>2, <1>4, <1>7

LEMMA BoundType == TypeOK => Bound \in Int
<1> SUFFICES ASSUME size \in Nat PROVE Bound \in Int
  BY DEF TypeOK
<1>1. CASE size = 0
  BY <1>1 DEF Bound
<1>2. CASE size # 0
  <2>1. PICK t \in Nat : LogOf(size, t)
    BY <1>2, LogExists
  <2>2. Bound = size * t - size + 1 /\ size * t \in Nat
    BY <2>1, BoundIs
  <2>3. QED
    BY <2>2
<1>3. QED
  BY <1>1, <1>2

\* Both for the arrangement that a state has.
LEMMA FoldAtWithin ==
  ASSUME TypeOK, NEW s, NEW r, NEW st, NEW e, NEW acc, Ghost(s, r, st, e, acc),
         NEW j \in Nat, st[r] + Pow2[j] <= size
  PROVE  acc[r] + Cost(j) <= Bound
<1>1. Shape(r, st, e, acc) /\ st[r] < size /\ st[r] \in Nat /\ size \in Nat \ {0}
  BY FoldFacts
<1>2. PICK t \in Nat : LogOf(size, t)
  BY <1>1, LogExists
<1>3. Bound = size * t - size + 1
  BY <1>2, BoundIs
<1>4. QED
  BY <1>1, <1>2, <1>3, FoldWithin

LEMMA RestAtWithin ==
  ASSUME TypeOK, NEW s, NEW r, NEW st, NEW e, NEW acc, Ghost(s, r, st, e, acc),
         NEW m \in Nat, NEW u \in Nat, LogOf(m, u), size - st[r] = m
  PROVE  acc[r] + m * u - m + 1 <= Bound
<1>1. Shape(r, st, e, acc) /\ st[r] < size /\ st[r] \in Nat /\ size \in Nat \ {0}
  BY FoldFacts
<1>2. PICK t \in Nat : LogOf(size, t)
  BY <1>1, LogExists
<1>3. Bound = size * t - size + 1
  BY <1>2, BoundIs
<1>4. size = st[r] + m
  BY <1>1
<1>5. QED
  BY <1>1, <1>2, <1>3, <1>4, RestWithin

LEMMA Few == IInv => FewComparisons
<1> SUFFICES ASSUME IInv PROVE FewComparisons
  OBVIOUS
<1>1. size \in Nat /\ compared \in Nat /\ pc \in Labels /\ TypeOK /\ Bound \in Int
  BY BoundType DEF IInv, TypeOK
<1>2. CASE pc = "idle"
  <2>1. compared = 0 /\ \E s : Order(s, size, Nodes)
    BY <1>2 DEF IInv, Resting, AtRest
  <2>2. CASE size = 0
    BY <2>1, <2>2 DEF FewComparisons, Bound
  <2>3. CASE size > 0
    <3>1. PICK t \in Nat : LogOf(size, t)
      BY <1>1, <2>3, LogExists
    <3>2. Bound = size * t - size + 1
      BY <3>1, BoundIs
    <3>3. CASE t = 0
      <4>1. size <= 1
        BY <3>1, <3>3, Pow2Def DEF LogOf
      <4>2. size * t = 0
        BY <1>1, <3>3
      <4>3. QED
        BY <1>1, <2>1, <3>2, <4>1, <4>2 DEF FewComparisons
    <3>4. CASE t > 0
      <4>1. size * t >= size /\ size * t \in Nat
        BY <1>1, <3>4
      <4>2. QED
        BY <1>1, <2>1, <3>2, <4>1 DEF FewComparisons
    <3>5. QED
      BY <3>3, <3>4
  <2>4. QED
    BY <1>1, <2>2, <2>3
<1>3. CASE pc = "take"
  <2>1. PICK s, r, st, e, acc : TakeAt(s, r, st, e, acc)
    BY <1>3 DEF IInv, Taking
  <2>2. Ghost(s, r, st, e, acc) /\ compared <= acc[r]
    BY <2>1 DEF TakeAt
  <2>3. st[r] < size /\ st[r] \in Nat /\ acc[r] \in Nat
    BY <1>1, <2>2, FoldFacts
  <2>4. st[r] + Pow2[0] <= size /\ Cost(0) = 0
    <3>1. Pow2[0] = 1 /\ Cost(0) = 0
      BY Pow2Def, CostType
    <3>2. QED
      BY <1>1, <2>3, <3>1
  <2>5. acc[r] + Cost(0) <= Bound
    BY <1>1, <2>2, <2>4, FoldAtWithin
  <2>6. QED
    BY <1>1, <2>2, <2>3, <2>4, <2>5 DEF FewComparisons
<1>4. CASE pc = "fold"
  <2>1. PICK s, r, st, e, acc : \E j \in Nat : FoldAt(s, r, st, e, acc, j)
    BY <1>4 DEF IInv, Folding
  <2>2. PICK j \in Nat : FoldAt(s, r, st, e, acc, j)
    BY <2>1
  <2>3. /\ Ghost(s, r, st, e, acc) /\ compared <= acc[r] + Cost(j)
        /\ count = st[r] + Pow2[j] /\ count <= size
    BY <2>2 DEF FoldAt, RestOfInput
  <2>4. acc[r] + Cost(j) <= Bound
    BY <1>1, <2>3, FoldAtWithin
  <2>5. acc[r] \in Nat /\ Cost(j) \in Nat
    BY <1>1, <2>3, FoldFacts, CostType
  <2>6. QED
    BY <1>1, <2>3, <2>4, <2>5 DEF FewComparisons
<1>5. CASE pc = "foldMerge"
  <2>1. PICK s, r, st, e, acc : \E j, h, p, q \in Nat : MergeInFoldAt(s, r, st, e, acc, j, h, p, q)
    BY <1>5 DEF IInv, MergingInFold
  <2>2. PICK j \in Nat, h \in Nat, p \in Nat, q \in Nat : MergeInFoldAt(s, r, st, e, acc, j, h, p, q)
    BY <2>1
  <2>3. /\ Ghost(s, r, st, e, acc) /\ compared <= acc[r] + 2 * Cost(j) + (p - st[r])
        /\ count = st[r] + 2 * Pow2[j] /\ count <= size /\ p < q /\ q < count
    BY <2>2 DEF MergeInFoldAt, InFoldAt, RestOfInput, MergeAt, Merging
  <2>4. /\ j + 1 \in Nat /\ Pow2[j + 1] = 2 * Pow2[j] /\ Pow2[j] \in Nat
        /\ Cost(j) \in Nat /\ Cost(j + 1) \in Nat /\ 2 * Cost(j) + 2 * Pow2[j] - 1 = Cost(j + 1)
    <3>1. j + 1 \in Nat
      OBVIOUS
    <3>2. Cost(j + 1) \in Nat
      BY <3>1, CostType
    <3>3. QED
      BY <3>1, <3>2, Pow2Def, FoldCosts
  <2>5. acc[r] + Cost(j + 1) <= Bound
    BY <1>1, <2>3, <2>4, FoldAtWithin
  <2>6. acc[r] \in Nat /\ st[r] \in Nat
    BY <1>1, <2>3, FoldFacts
  <2>7. p - st[r] <= 2 * Pow2[j] - 1
    BY <2>3, <2>4, <2>6
  <2>8. QED
    BY <1>1, <2>3, <2>4, <2>5, <2>6, <2>7 DEF FewComparisons
<1>6. CASE pc = "foldMerged"
  <2>1. PICK s, r, st, e, acc : \E j, h \in Nat : MergedInFoldAt(s, r, st, e, acc, j, h)
    BY <1>6 DEF IInv, MergedInFold
  <2>2. PICK j \in Nat, h \in Nat : MergedInFoldAt(s, r, st, e, acc, j, h)
    BY <2>1
  <2>3. /\ Ghost(s, r, st, e, acc) /\ compared <= acc[r] + Cost(j + 1)
        /\ count = st[r] + 2 * Pow2[j] /\ count <= size
    BY <2>2 DEF MergedInFoldAt, InFoldAt, RestOfInput
  <2>4. j + 1 \in Nat /\ Pow2[j + 1] = 2 * Pow2[j]
    BY Pow2Def
  <2>5. acc[r] + Cost(j + 1) <= Bound
    BY <1>1, <2>3, <2>4, FoldAtWithin
  <2>6. acc[r] \in Nat /\ Cost(j + 1) \in Nat
    <3>1. Cost(j + 1) \in Nat
      BY <2>4, CostType
    <3>2. QED
      BY <1>1, <2>3, <3>1, FoldFacts
  <2>7. QED
    BY <1>1, <2>3, <2>5, <2>6 DEF FewComparisons
<1>7. ASSUME NEW s, NEW r, NEW st, NEW e, NEW acc, NEW t \in Nat, NEW x, RestAt(s, r, st, e, acc, t, x)
      PROVE compared <= Bound
  <2>1. PICK m \in Nat : size - st[r] = m
    BY <1>1, <1>7 DEF RestAt, LogOf
  <2>2. Ghost(s, r, st, e, acc) /\ LogOf(m, t) /\ compared <= acc[r] + m * t - m + 1
    BY <1>7, <2>1 DEF RestAt
  <2>3. acc[r] + m * t - m + 1 <= Bound
    BY <1>1, <2>1, <2>2, RestAtWithin
  <2>4. acc[r] \in Nat /\ m * t \in Nat
    BY <1>1, <2>2, FoldFacts
  <2>5. acc[r] + m * t - m + 1 \in Int
    BY <2>4
  <2>6. QED
    BY <1>1, <2>2, <2>3, <2>5
<1>8. CASE pc = "rest"
  BY <1>7, <1>8 DEF IInv, MergingRest, FewComparisons
<1>9. CASE pc = "restMerged"
  BY <1>7, <1>9 DEF IInv, MergedInRest, FewComparisons
<1>10. CASE pc = "restMerge"
  <2>1. PICK s, r, st, e, acc : \E j, h, t, m, p, q \in Nat :
          MergeInRestAt(s, r, st, e, acc, j, h, t, m, p, q)
    BY <1>10 DEF IInv, MergingInRest
  <2>2. PICK j \in Nat, h \in Nat, t \in Nat, m \in Nat, p \in Nat, q \in Nat :
          MergeInRestAt(s, r, st, e, acc, j, h, t, m, p, q)
    BY <2>1
  <2>3. /\ Ghost(s, r, st, e, acc) /\ size - st[r] = m + Pow2[j] /\ LogOf(m, t) /\ t <= j
        /\ compared <= acc[r] + Cost(j) + m * t - m + 1 + (p - st[r]) /\ p < q /\ q < size
    BY <2>2 DEF MergeInRestAt, MergeAt, Merging
  <2>4. Pow2[j] \in Nat /\ Cost(j) \in Nat /\ j + 1 \in Nat /\ m * t \in Nat
    <3>1. Cost(j) \in Nat
      BY CostType
    <3>2. QED
      BY <3>1, Pow2Def
  <2>5. PICK n \in Nat : n = m + Pow2[j]
    BY <2>4
  <2>6. /\ LogOf(n, j + 1)
        /\ Cost(j) + m * t - m + 1 + n - 1 <= n * (j + 1) - n + 1
    BY <2>3, <2>5, RestCosts
  <2>7. acc[r] + n * (j + 1) - n + 1 <= Bound /\ n * (j + 1) \in Nat
    BY <1>1, <2>3, <2>4, <2>5, <2>6, RestAtWithin
  <2>8. acc[r] \in Nat /\ st[r] \in Nat /\ size = st[r] + n
    BY <1>1, <2>3, <2>5, FoldFacts
  <2>9. p - st[r] <= n - 1
    BY <1>1, <2>3, <2>8
  <2>10. compared <= acc[r] + (Cost(j) + m * t - m + 1 + n - 1)
    BY <1>1, <2>3, <2>4, <2>8, <2>9
  <2>11. compared <= acc[r] + n * (j + 1) - n + 1
    BY <1>1, <2>4, <2>6, <2>7, <2>8, <2>10
  <2>12. QED
    BY <1>1, <2>7, <2>8, <2>11 DEF FewComparisons
<1>11. CASE pc = "relink" \/ pc = "done"
  BY <1>11 DEF IInv, Relinking, Sorted, FewComparisons
<1>12. QED
  BY <1>1, <1>2, <1>3, <1>4, <1>5, <1>6, <1>8, <1>9, <1>10, <1>11 DEF Labels

-----------------------------------------------------------------------------
(* What Path, Run and Values are on an arrangement.                        *)

LEMMA OrderCounts ==
  ASSUME NEW n \in Nat, NEW N, NEW s, Order(s, n, N)
  PROVE  IsFiniteSet(N) /\ Cardinality(N) = n
<1>1. s \in Bijection(1 .. n, N)
  BY DEF Order, Bijection, Injection, Surjection, IsInjective
<1>2. ExistsBijection(1 .. n, N)
  BY <1>1 DEF ExistsBijection
<1>3. QED
  BY <1>2, FS_CountingElements, FS_NatBijection

\* w follows the links f from x on, for n steps.
Follows(f, x, n, w) ==
  /\ w = [k \in 0 .. n |-> w[k]]
  /\ \A k \in 0 .. n : w[k] = IF k = 0 THEN x ELSE IF w[k - 1] \in Nodes THEN f[w[k - 1]] ELSE Null

LEMMA PathIs ==
  ASSUME NEW f, NEW x, NEW n \in Nat, Cardinality(Nodes) = n, NEW w, Follows(f, x, n, w)
  PROVE  Path(f, x) = w
<1> USE DEF Follows
<1> DEFINE Body(p) == [k \in 0 .. Cardinality(Nodes) |->
                         IF k = 0 THEN x ELSE IF p[k - 1] \in Nodes THEN f[p[k - 1]] ELSE Null]
           q == Path(f, x)
<1>1. w = Body(w)
  OBVIOUS
<1>2. q = Body(q)
  <2>1. q = CHOOSE p : p = Body(p)
    BY Zenon DEF Path
  <2> HIDE DEF Body, q
  <2>2. QED
    BY <1>1, <2>1
<1>3. q = [k \in 0 .. n |-> q[k]]
  BY <1>2
<1>4. \A k \in 0 .. n : q[k] = IF k = 0 THEN x ELSE IF q[k - 1] \in Nodes THEN f[q[k - 1]] ELSE Null
  BY <1>2
<1> HIDE DEF q
<1> DEFINE S == {k \in 0 .. n : q[k] = w[k]}
<1>5. 0 \in S
  BY <1>4
<1>6. ASSUME NEW k \in 1 .. n, k - 1 \in S PROVE k \in S
  <2>1. k \in 0 .. n /\ k # 0 /\ q[k - 1] = w[k - 1]
    BY <1>6
  <2>2. QED
    BY <1>4, <2>1
<1>7. \A k \in 1 .. n : k - 1 \in S => k \in S
  BY <1>6
<1> HIDE DEF S
<1>8. \A k \in 0 .. n : k \in S
  BY <1>5, <1>7, UpTo
<1>9. \A k \in 0 .. n : q[k] = w[k]
  BY <1>8 DEF S
<1>10. QED
  BY <1>3, <1>9 DEF q

\* Along the circle.
LEMMA CirclePath ==
  ASSUME NEW s, size \in Nat, Nodes \subseteq Nat \ {0}, Order(s, size, Nodes), Circle(next, prev, s, size)
  PROVE  Path(next, next[ListHead]) = [k \in 0 .. size |-> Place(s, size, k + 1)]
<1> DEFINE w == [k \in 0 .. size |-> Place(s, size, k + 1)]
<1>1. Cardinality(Nodes) = size
  BY OrderCounts
<1>2. ASSUME NEW k \in 0 .. size
      PROVE w[k] = IF k = 0 THEN next[ListHead] ELSE IF w[k - 1] \in Nodes THEN next[w[k - 1]] ELSE Null
  <2>1. CASE k = 0
    <3>1. Place(s, size, 0) = ListHead /\ 0 \in 0 .. size
      BY DEF Place
    <3>2. next[Place(s, size, 0)] = Place(s, size, 0 + 1)
      BY <3>1 DEF Circle
    <3>3. QED
      BY <2>1, <3>1, <3>2
  <2>2. CASE k # 0
    <3>1. k - 1 \in 0 .. size /\ (k - 1) + 1 = k /\ k \in 1 .. size
      BY <2>2
    <3>2. w[k - 1] = s[k] /\ s[k] \in Nodes /\ Place(s, size, k) = s[k]
      BY <3>1 DEF Place, Order
    <3>3. next[s[k]] = Place(s, size, k + 1)
      BY <3>1, <3>2 DEF Circle
    <3>4. QED
      BY <2>2, <3>2, <3>3
  <2>3. QED
    BY <2>1, <2>2
<1>3. w = [k \in 0 .. size |-> w[k]]
  OBVIOUS
<1> HIDE DEF w
<1>4. \A k \in 0 .. size :
        w[k] = IF k = 0 THEN next[ListHead] ELSE IF w[k - 1] \in Nodes THEN next[w[k - 1]] ELSE Null
  BY <1>2
<1>5. PICK t : t = w
  OBVIOUS
<1>6. PICK f : f = next
  OBVIOUS
<1>7. PICK x : x = next[ListHead]
  OBVIOUS
<1>8. Path(f, x) = t
  <2>1. t = [k \in 0 .. size |-> t[k]]
    BY <1>3, <1>5
  <2>2. \A k \in 0 .. size : t[k] = IF k = 0 THEN x ELSE IF t[k - 1] \in Nodes THEN f[t[k - 1]] ELSE Null
    BY <1>4, <1>5, <1>6, <1>7
  <2>3. QED
    BY <1>1, <2>1, <2>2, PathIs DEF Follows
<1>9. QED
  BY <1>5, <1>6, <1>7, <1>8 DEF w

LEMMA ValuesAre ==
  ASSUME NEW s, size \in Nat, Nodes \subseteq Nat \ {0}, Order(s, size, Nodes), Circle(next, prev, s, size)
  PROVE  Values = [k \in 1 .. size |-> key[s[k]]]
<1> DEFINE p == Path(next, next[ListHead])
<1>1. p = [k \in 0 .. size |-> Place(s, size, k + 1)]
  BY CirclePath
<1>2. {k \in DOMAIN p : p[k] \in Nodes} = 0 .. size - 1
  <2>1. DOMAIN p = 0 .. size
    BY <1>1
  <2>2. ASSUME NEW k \in 0 .. size PROVE p[k] \in Nodes <=> k # size
    <3>1. p[k] = IF k + 1 \in 1 .. size THEN s[k + 1] ELSE ListHead
      BY <1>1 DEF Place
    <3>2. QED
      BY <3>1 DEF Order, ListHead
  <2> HIDE DEF p
  <2>3. QED
    BY <2>1, <2>2
<1>3. Cardinality(0 .. size - 1) = size
  BY FS_Interval
<1>4. \A k \in 1 .. size : p[k - 1] = s[k]
  BY <1>1 DEF Place
<1>5. Values = [k \in 1 .. Cardinality({k \in DOMAIN p : p[k] \in Nodes}) |-> key[p[k - 1]]]
  BY DEF Values
<1> HIDE DEF p
<1>6. QED
  BY <1>2, <1>3, <1>4, <1>5

-----------------------------------------------------------------------------
(* The end of the sort, and its begin.                                     *)

LEMMA RestEnds ==
  ASSUME TypeOK, MergingRest, Rest, prev[pending] = Null
  PROVE  pc' = "relink" /\ Relinking'
<1>1. PICK s, r, st, e, acc : \E t \in Nat :
        RestAt(s, r, st, e, acc, t, list) /\ prev[pending] = HeadAt(s, st, r)
  BY DEF MergingRest
<1>2. PICK t \in Nat : RestAt(s, r, st, e, acc, t, list)
  BY <1>1
<1>3. /\ Ghost(s, r, st, e, acc) /\ list = s[st[r] + 1]
      /\ ListOf(next, s, st[r] + 1, size) /\ InOrd(key, s, st[r] + 1, size)
      /\ LogOf(size - st[r], t)
      /\ compared <= acc[r] + (size - st[r]) * t - (size - st[r]) + 1
  BY <1>2 DEF RestAt
<1>4. /\ Order(s, size, Nodes) /\ Shape(r, st, e, acc) /\ st[r] < size /\ temp = ListHead
      /\ size \in Nat /\ st[r] \in Nat /\ acc[r] \in Nat /\ r \in Nat
      /\ \A k \in 1 .. size : s[k] \in Nodes /\ s[k] # Null /\ s[k] \in DOMAIN next
  BY <1>3, FoldFacts
<1>5. r = 0
  <2>1. ASSUME r # 0 PROVE FALSE
    <3>1. st[r - 1] \in Nat /\ st[r - 1] < st[r]
      BY <1>4, <2>1, TopRun
    <3>2. st[r - 1] + 1 \in 1 .. size
      BY <1>4, <3>1
    <3>3. HeadAt(s, st, r) \in Nodes /\ HeadAt(s, st, r) # Null
      BY <1>4, <2>1, <3>2 DEF HeadAt
    <3>4. QED
      BY <1>1, <3>3
  <2>2. QED
    BY <2>1
<1>6. st[r] = 0 /\ acc[r] = 0
  BY <1>4, <1>5 DEF Shape
<1>7. compared <= Bound
  <2>1. PICK m \in Nat : m = size - st[r]
    BY <1>4
  <2>2. acc[r] + m * t - m + 1 <= Bound
    BY <1>3, <2>1, RestAtWithin
  <2>3. m * t \in Nat /\ compared \in Nat /\ Bound \in Int
    BY <2>1, BoundType DEF TypeOK
  <2>4. compared <= acc[r] + m * t - m + 1
    BY <1>3, <2>1
  <2>5. QED
    BY <1>4, <2>1, <2>2, <2>3, <2>4
<1>8. /\ pc' = "relink" /\ next' = [next EXCEPT ![ListHead] = list]
      /\ UNCHANGED <<size, key, prev, list, compared, temp>>
  BY DEF Rest, Merge, Goto, input
<1>9. ListHead \in DOMAIN next /\ \A k \in 1 .. size : s[k] # ListHead
  BY <1>4 DEF TypeOK, Iterators, ListHead
<1>10. next'[ListHead] = s[1] /\ \A k \in 1 .. size : next'[s[k]] = next[s[k]]
  BY <1>3, <1>4, <1>6, <1>8, <1>9
<1>11. ListOf(next', s, 1, size)
  <2>1. ListOf(next, s, 1, size)
    BY <1>3, <1>6
  <2>2. size \in 1 .. size /\ \A k \in 1 .. size - 1 : k \in 1 .. size
    BY <1>4
  <2>3. QED
    BY <1>10, <2>1, <2>2 DEF ListOf
<1>12. RelinkAt(s, 0)'
  BY <1>3, <1>4, <1>6, <1>8, <1>10, <1>11 DEF RelinkAt, Nodes
<1>13. Bound' = Bound
  BY <1>8 DEF Bound
<1>14. 0 \in 0 .. size'
  BY <1>4, <1>8
<1>15. QED
  BY <1>7, <1>8, <1>12, <1>13, <1>14 DEF Relinking

LEMMA RelinkStep ==
  ASSUME TypeOK, BeforeOK, Relinking, Relink
  PROVE  \/ list # Null /\ pc' = pc /\ Relinking'
         \/ list = Null /\ pc' = "done" /\ Sorted'
<1>1. PICK s : \E k \in 0 .. size : RelinkAt(s, k)
  BY DEF Relinking
<1>2. PICK k \in 0 .. size : RelinkAt(s, k)
  BY <1>1
<1>3. /\ Order(s, size, Nodes) /\ InOrd(key, s, 1, size)
      /\ next[ListHead] = s[1] /\ ListOf(next, s, 1, size)
      /\ list = (IF k < size THEN s[k + 1] ELSE Null) /\ temp = (IF k = 0 THEN ListHead ELSE s[k])
      /\ \A i \in 1 .. k : prev[s[i]] = IF i = 1 THEN ListHead ELSE s[i - 1]
  BY <1>2 DEF RelinkAt
<1>4. /\ size \in Nat /\ size >= 2 /\ k \in Nat /\ k <= size
      /\ \A i \in 1 .. size : /\ s[i] \in Nodes /\ s[i] # Null /\ s[i] # ListHead
                              /\ s[i] \in DOMAIN next /\ s[i] \in DOMAIN prev
      /\ ListHead \in DOMAIN prev /\ ListHead \in DOMAIN next
  BY <1>3 DEF TypeOK, BeforeOK, Order, Iterators, Null, ListHead
<1>5. compared <= Bound /\ UNCHANGED <<size, key, compared>> /\ Bound' = Bound
  BY DEF Relinking, Relink, input, Bound
<1>6. CASE list # Null
  <2>1. k < size /\ k + 1 \in 1 .. size /\ list = s[k + 1]
    BY <1>3, <1>4, <1>6
  <2>2. /\ prev' = [prev EXCEPT ![list] = temp] /\ temp' = list /\ list' = next[list]
        /\ next' = next /\ pc' = pc
    BY <1>6 DEF Relink
  <2>3. \A i \in 1 .. k + 1 : prev'[s[i]] = IF i = 1 THEN ListHead ELSE s[i - 1]
    <3>1. ASSUME NEW i \in 1 .. k + 1 PROVE prev'[s[i]] = IF i = 1 THEN ListHead ELSE s[i - 1]
      <4>1. CASE i = k + 1
        BY <1>3, <1>4, <2>1, <2>2, <4>1
      <4>2. CASE i \in 1 .. k
        <5>1. s[i] # s[k + 1] /\ s[i] \in DOMAIN prev
          BY <1>3, <1>4, <2>1, <4>2 DEF Order
        <5>2. QED
          BY <1>3, <2>1, <2>2, <4>2, <5>1
      <4>3. QED
        BY <1>4, <4>1, <4>2
    <3>2. QED
      BY <3>1
  <2>4. list' = IF k + 1 < size THEN s[k + 2] ELSE Null
    <3>1. CASE k + 1 < size
      <4>1. k + 1 \in 1 .. size - 1 /\ (k + 1) + 1 = k + 2
        BY <1>4, <3>1
      <4>2. QED
        BY <1>3, <2>1, <2>2, <3>1, <4>1 DEF ListOf
    <3>2. CASE k + 1 = size
      BY <1>3, <2>1, <2>2, <3>2 DEF ListOf
    <3>3. QED
      BY <1>4, <2>1, <3>1, <3>2
  <2>5. PICK o \in 0 .. size : o = k + 1
    BY <1>4, <2>1
  <2>6. RelinkAt(s, o)'
    BY <1>3, <1>4, <1>5, <2>1, <2>2, <2>3, <2>4, <2>5 DEF RelinkAt, Nodes
  <2>7. o \in 0 .. size'
    BY <1>5
  <2>8. Relinking'
    BY <1>5, <2>6, <2>7 DEF Relinking
  <2>9. QED
    BY <1>6, <2>2, <2>8
<1>7. CASE list = Null
  <2>1. k = size /\ temp = s[size] /\ size \in 1 .. size
    BY <1>3, <1>4, <1>7
  <2>2. /\ prev' = [prev EXCEPT ![ListHead] = temp]
        /\ next' = [next EXCEPT ![temp] = ListHead] /\ pc' = "done"
    BY <1>7 DEF Relink, Goto
  <2>3. next'[s[size]] = ListHead /\ prev'[ListHead] = s[size]
    BY <1>4, <2>1, <2>2
  <2>4. \A i \in 1 .. size : prev'[s[i]] = IF i = 1 THEN ListHead ELSE s[i - 1]
    BY <1>3, <1>4, <2>1, <2>2
  <2>5. next'[ListHead] = s[1] /\ \A i \in 1 .. size - 1 : next'[s[i]] = s[i + 1]
    <3>1. ASSUME NEW i \in 1 .. size - 1 PROVE next'[s[i]] = s[i + 1]
      <4>1. i \in 1 .. size /\ s[i] # s[size] /\ next[s[i]] = s[i + 1]
        BY <1>3, <1>4, <2>1 DEF Order, ListOf
      <4>2. QED
        BY <1>4, <2>1, <2>2, <4>1
    <3>2. ListHead # temp
      BY <1>4, <2>1
    <3>3. QED
      BY <1>3, <1>4, <2>2, <3>1, <3>2
  <2>6. Circle(next', prev', s, size)
    <3>1. ASSUME NEW i \in 0 .. size
          PROVE /\ next'[Place(s, size, i)] = Place(s, size, i + 1)
                /\ prev'[Place(s, size, i + 1)] = Place(s, size, i)
      <4>1. CASE i = 0
        <5>1. Place(s, size, 0) = ListHead /\ Place(s, size, 1) = s[1] /\ 1 \in 1 .. size /\ 0 + 1 = 1
          BY <1>4 DEF Place
        <5>2. QED
          BY <2>4, <2>5, <4>1, <5>1
      <4>2. CASE i = size
        <5>1. Place(s, size, size) = s[size] /\ Place(s, size, size + 1) = ListHead
          BY <1>4 DEF Place
        <5>2. QED
          BY <2>3, <4>2, <5>1
      <4>3. CASE i \in 1 .. size - 1
        <5>1. /\ Place(s, size, i) = s[i] /\ Place(s, size, i + 1) = s[i + 1]
              /\ i + 1 \in 1 .. size /\ i + 1 # 1 /\ (i + 1) - 1 = i
          BY <1>4, <4>3 DEF Place
        <5>2. QED
          BY <2>4, <2>5, <4>3, <5>1
      <4>4. QED
        BY <1>4, <4>1, <4>2, <4>3
    <3>2. QED
      BY <3>1 DEF Circle
  <2>7. QED
    BY <1>3, <1>5, <1>7, <2>2, <2>6 DEF Sorted, Nodes
<1>8. QED
  BY <1>6, <1>7

LEMMA ReturnedStep ==
  ASSUME TypeOK, Sorted, Returned
  PROVE  pc' = "idle" /\ Resting'
<1>1. PICK s : Order(s, size, Nodes) /\ Circle(next, prev, s, size)
  BY DEF Sorted
<1>2. pc' = "idle" /\ AtRest' /\ UNCHANGED <<size, key, next, prev>>
  BY DEF Returned, AtRest, Goto, input, links
<1>3. (Order(s, size, Nodes) /\ Circle(next, prev, s, size))'
  BY <1>1, <1>2 DEF Nodes
<1>4. QED
  BY <1>2, <1>3 DEF Resting

LEMMA BeginStep ==
  ASSUME TypeOK, Resting, Begin
  PROVE  pc' = "take" /\ Taking' /\ BeforeOK'
<1>1. PICK s : Order(s, size, Nodes) /\ Circle(next, prev, s, size)
  BY DEF Resting
<1>2. /\ AtRest /\ pc' = "take" /\ next[ListHead] # prev[ListHead]
      /\ list' = next[ListHead] /\ next' = [next EXCEPT ![prev[ListHead]] = Null] /\ before' = Values
      /\ UNCHANGED <<size, key, prev, pending, count, compared, temp>>
  BY DEF Resting, Begin, Goto, input
<1>3. size \in Nat /\ Nodes \subseteq Nat \ {0}
  BY DEF TypeOK
<1>4. next[ListHead] = Place(s, size, 1) /\ prev[ListHead] = Place(s, size, size)
  <2>1. Place(s, size, 0) = ListHead /\ Place(s, size, size + 1) = ListHead
    BY <1>3 DEF Place
  <2>2. 0 \in 0 .. size /\ size \in 0 .. size /\ 0 + 1 = 1
    BY <1>3
  <2>3. QED
    BY <1>1, <2>1, <2>2 DEF Circle
<1>5. size >= 2
  <2>1. CASE size = 0
    BY <1>2, <1>4, <2>1 DEF Place
  <2>2. CASE size = 1
    BY <1>2, <1>4, <2>2 DEF Place
  <2>3. QED
    BY <1>3, <2>1, <2>2
<1>6. next[ListHead] = s[1] /\ prev[ListHead] = s[size] /\ 1 \in 1 .. size /\ size \in 1 .. size
  BY <1>3, <1>4, <1>5 DEF Place
<1>7. \A k \in 1 .. size : s[k] \in Nodes /\ s[k] \in DOMAIN next
  BY <1>1 DEF Order, TypeOK, Iterators
<1>8. ListOf(next', s, 1, size)
  <2>1. ASSUME NEW k \in 1 .. size - 1 PROVE next'[s[k]] = s[k + 1]
    <3>1. k \in 1 .. size /\ s[k] # s[size]
      BY <1>1, <1>3, <1>6 DEF Order
    <3>2. /\ Place(s, size, k) = s[k] /\ Place(s, size, k + 1) = s[k + 1]
          /\ k \in 0 .. size
      BY <1>3 DEF Place
    <3>3. next[s[k]] = s[k + 1]
      BY <1>1, <3>2 DEF Circle
    <3>4. QED
      BY <1>2, <1>6, <1>7, <3>1, <3>3
  <2>2. next'[s[size]] = Null
    BY <1>2, <1>6, <1>7
  <2>3. QED
    BY <2>1, <2>2 DEF ListOf
<1>9. PICK z : z = [k \in Nat |-> 0]
  OBVIOUS
<1>10. z \in [Nat -> Nat] /\ z[0] = 0
  BY <1>9
<1>11. Shape(0, z, z, z) /\ Held(next', prev', key, s, 0, z) /\ HeadAt(s, z, 0) = Null
  BY <1>10 DEF Shape, Held, HeadAt
<1>12. count = 0 /\ compared = 0 /\ pending = Null /\ temp = ListHead
  BY <1>2 DEF AtRest
<1>13. Ghost(s, 0, z, z, z)'
  BY <1>1, <1>2, <1>3, <1>5, <1>10, <1>11, <1>12 DEF Ghost, Nodes
<1>14. RestOfInput(s)'
  BY <1>2, <1>3, <1>5, <1>6, <1>8, <1>12 DEF RestOfInput
<1>15. TakeAt(s, 0, z, z, z)'
  BY <1>2, <1>10, <1>11, <1>12, <1>13, <1>14 DEF TakeAt
<1>16. before' = [k \in 1 .. size |-> key[s[k]]]
  BY <1>1, <1>2, <1>3, ValuesAre
<1>17. QED
  BY <1>1, <1>2, <1>5, <1>15, <1>16 DEF Taking, BeforeOK, Nodes

-----------------------------------------------------------------------------
(* The steps of a sort preserve the invariant.                             *)

\* Nothing is inserted or removed, and the links are of the same nodes.
LEMMA SortingKeeps ==
  ASSUME TypeOK, Begin \/ Sorting, UNCHANGED cut, pc' \in Labels
  PROVE  TypeOK' /\ size' = size /\ key' = key /\ (pc # "idle" => before' = before \/ pc' = "idle")
<1>1. UNCHANGED <<size, key, cut>>
  BY DEF Begin, Sorting, Take, Fold, Folded, Round, Rest, RestMerged, Relink, Returned, input
<1>2. compared' \in Nat
  <2>1. CASE Begin
    BY <2>1 DEF Begin, TypeOK
  <2>2. CASE Round
    BY <2>2 DEF Round, TypeOK
  <2>3. CASE Returned
    BY <2>3 DEF Returned
  <2>4. CASE Take \/ Fold \/ Folded \/ Rest \/ RestMerged \/ Relink
    BY <2>4 DEF Take, Fold, Folded, Rest, RestMerged, Relink, TypeOK
  <2>5. QED
    BY <2>1, <2>2, <2>3, <2>4 DEF Sorting
<1>3. DOMAIN next' = DOMAIN next
  <2>1. CASE Round
    <3>1. \A x, y : Put(x) \/ PutLast(x, y) => DOMAIN next' = DOMAIN next
      BY DEF Put, PutLast
    <3>2. QED
      BY <2>1, <3>1 DEF Round
  <2>2. CASE Begin \/ Take \/ Fold \/ Folded
    BY <2>2 DEF Begin, Take, Fold, Folded, links
  <2>3. CASE Rest \/ RestMerged \/ Relink \/ Returned
    BY <2>3 DEF Rest, RestMerged, Relink, Returned, links
  <2>4. QED
    BY <2>1, <2>2, <2>3 DEF Sorting
<1>4. DOMAIN prev' = DOMAIN prev
  <2>1. CASE Begin \/ Take \/ Fold \/ Folded
    BY <2>1 DEF Begin, Take, Fold, Folded, links
  <2>2. CASE Round \/ Rest \/ RestMerged \/ Relink \/ Returned
    BY <2>2 DEF Round, Rest, RestMerged, Relink, Returned, links
  <2>3. QED
    BY <2>1, <2>2 DEF Sorting
<1>5. pc # "idle" => before' = before \/ pc' = "idle"
  BY DEF Begin, Sorting, Take, Fold, Folded, Round, Rest, RestMerged, Relink, Returned, Goto
<1>6. TypeOK'
  BY <1>1, <1>2, <1>3, <1>4 DEF TypeOK, Nodes, Iterators
<1>7. QED
  BY <1>1, <1>5, <1>6

\* What holds at each place of xlist_msort.
AtLabel ==
  /\ pc = "idle" => Resting
  /\ pc = "take" => Taking
  /\ pc = "fold" => Folding
  /\ pc = "foldMerge" => MergingInFold
  /\ pc = "foldMerged" => MergedInFold
  /\ pc = "rest" => MergingRest
  /\ pc = "restMerge" => MergingInRest
  /\ pc = "restMerged" => MergedInRest
  /\ pc = "relink" => Relinking
  /\ pc = "done" => Sorted

LEMMA FoldStep ==
  ASSUME TypeOK, Folding, Fold
  PROVE  \/ pc' = "foldMerge" /\ MergingInFold'
         \/ pc' = "take" /\ Taking'
         \/ pc' = "rest" /\ MergingRest'
<1>1. PICK s, r, st, e, acc : \E j \in Nat : FoldAt(s, r, st, e, acc, j)
  BY DEF Folding
<1>2. PICK j \in Nat : FoldAt(s, r, st, e, acc, j)
  BY <1>1
<1>3. CASE Folds(bits)
  BY <1>2, <1>3, FoldBegins
<1>4. CASE ~Folds(bits)
  BY <1>2, <1>4, FoldEnds
<1>5. QED
  BY <1>3, <1>4

LEMMA SortStep ==
  ASSUME IInv, Sort
  PROVE  IInv'
<1> USE DEF Labels
<1>1. TypeOK /\ (pc # "idle" => BeforeOK) /\ AtLabel /\ UNCHANGED cut
  BY DEF IInv, AtLabel, Sort
<1>2. AtLabel' /\ pc' \in Labels
  <2>1. CASE Begin
    <3>1. pc' = "take" /\ Taking'
      BY <1>1, <2>1, BeginStep DEF AtLabel, Begin
    <3>2. QED
      BY <3>1 DEF AtLabel
  <2>2. CASE Take
    <3>1. pc' = "fold" /\ Folding'
      BY <1>1, <2>2, TakeStep DEF AtLabel, Take, Goto
    <3>2. QED
      BY <3>1 DEF AtLabel
  <2>3. CASE Fold
    <3>1. \/ pc' = "foldMerge" /\ MergingInFold'
          \/ pc' = "take" /\ Taking'
          \/ pc' = "rest" /\ MergingRest'
      BY <1>1, <2>3, FoldStep DEF AtLabel, Fold
    <3>2. QED
      BY <3>1 DEF AtLabel
  <2>4. CASE Folded
    <3>1. pc' = "fold" /\ Folding'
      BY <1>1, <2>4, FoldedStep DEF AtLabel, Folded
    <3>2. QED
      BY <3>1 DEF AtLabel
  <2>5. CASE Round
    <3>1. CASE pc = "foldMerge"
      <4>1. (pc' = pc /\ MergingInFold') \/ (pc' = "foldMerged" /\ MergedInFold')
        BY <1>1, <2>5, <3>1, RoundInFold DEF AtLabel
      <4>2. QED
        BY <3>1, <4>1 DEF AtLabel
    <3>2. CASE pc = "restMerge"
      <4>1. (pc' = pc /\ MergingInRest') \/ (pc' = "restMerged" /\ MergedInRest')
        BY <1>1, <2>5, <3>2, RoundInRest DEF AtLabel
      <4>2. QED
        BY <3>2, <4>1 DEF AtLabel
    <3>3. QED
      BY <2>5, <3>1, <3>2 DEF Round
  <2>6. CASE Rest
    <3>1. \/ pc' = "restMerge" /\ MergingInRest'
          \/ pc' = "relink" /\ Relinking'
      <4>1. MergingRest
        BY <1>1, <2>6 DEF AtLabel, Rest
      <4>2. QED
        BY <1>1, <2>6, <4>1, RestBegins, RestEnds
    <3>2. QED
      BY <3>1 DEF AtLabel
  <2>7. CASE RestMerged
    <3>1. pc' = "rest" /\ MergingRest'
      BY <1>1, <2>7, RestMergedStep DEF AtLabel, RestMerged
    <3>2. QED
      BY <3>1 DEF AtLabel
  <2>8. CASE Relink
    <3>1. pc = "relink" /\ ((pc' = pc /\ Relinking') \/ (pc' = "done" /\ Sorted'))
      BY <1>1, <2>8, RelinkStep DEF AtLabel, Relink
    <3>2. QED
      BY <3>1 DEF AtLabel
  <2>9. CASE Returned
    <3>1. pc' = "idle" /\ Resting'
      BY <1>1, <2>9, ReturnedStep DEF AtLabel, Returned
    <3>2. QED
      BY <3>1 DEF AtLabel
  <2>10. QED
    BY <2>1, <2>2, <2>3, <2>4, <2>5, <2>6, <2>7, <2>8, <2>9 DEF Sort, Sorting
<1>3. TypeOK' /\ size' = size /\ key' = key /\ (pc # "idle" => before' = before \/ pc' = "idle")
  BY <1>1, <1>2, SortingKeeps DEF Sort
<1>4. pc' # "idle" => BeforeOK'
  <2>1. CASE pc = "idle"
    <3>1. Begin
      BY <2>1 DEF Sort, Sorting, Take, Fold, Folded, Round, Rest, RestMerged, Relink, Returned
    <3>2. QED
      BY <1>1, <2>1, <3>1, BeginStep DEF AtLabel
  <2>2. CASE pc # "idle" /\ pc' # "idle"
    BY <1>1, <1>3, <2>2 DEF BeforeOK, Nodes
  <2>3. QED
    BY <2>1, <2>2
<1>5. QED
  BY <1>2, <1>3, <1>4 DEF IInv, AtLabel

-----------------------------------------------------------------------------
(* What the operations do to the arrangement.                              *)

\* The places around the circle, the head being both the first and the last.
LEMMA Places ==
  ASSUME NEW n \in Nat, NEW N, N \subseteq Nat \ {0}, NEW s, Order(s, n, N)
  PROVE  /\ \A i, j \in 0 .. n : Place(s, n, i) = Place(s, n, j) => i = j
         /\ \A i, j \in 1 .. n + 1 : Place(s, n, i) = Place(s, n, j) => i = j
         /\ \A i \in 0 .. n + 1 : Place(s, n, i) \in N \cup {ListHead}
<1>1. \A k \in 1 .. n : Place(s, n, k) = s[k] /\ s[k] \in N /\ s[k] # ListHead
  BY DEF Place, Order, ListHead
<1>2. \A k \in Int : k \notin 1 .. n => Place(s, n, k) = ListHead
  BY DEF Place
<1>3. \A i, j \in 1 .. n : s[i] = s[j] => i = j
  BY DEF Order
<1>4. \A i, j \in 0 .. n : Place(s, n, i) = Place(s, n, j) => i = j
  BY <1>1, <1>2, <1>3
<1>5. \A i, j \in 1 .. n + 1 : Place(s, n, i) = Place(s, n, j) => i = j
  BY <1>1, <1>2, <1>3
<1>6. \A i \in 0 .. n + 1 : Place(s, n, i) \in N \cup {ListHead}
  BY <1>1, <1>2
<1>7. QED
  BY <1>4, <1>5, <1>6

\* Where an iterator is.
LEMMA PlaceOf ==
  ASSUME NEW n \in Nat, NEW N, NEW s, Order(s, n, N), NEW y \in N \cup {ListHead}
  PROVE  \E i \in 0 .. n : Place(s, n, i + 1) = y
<1>1. CASE y = ListHead
  <2>1. n \in 0 .. n /\ Place(s, n, n + 1) = ListHead
    BY DEF Place
  <2>2. QED
    BY <1>1, <2>1
<1>2. CASE y \in N
  <2>1. PICK k \in 1 .. n : s[k] = y
    BY <1>2 DEF Order
  <2>2. k - 1 \in 0 .. n /\ Place(s, n, (k - 1) + 1) = y
    BY <2>1 DEF Place
  <2>3. QED
    BY <2>2
<1>3. QED
  BY <1>1, <1>2

\* Only the links of the nodes on the list count.
LEMMA CircleSame ==
  ASSUME NEW n \in Nat, NEW N, N \subseteq Nat \ {0}, NEW s, Order(s, n, N),
         NEW f, NEW g, Circle(f, g, s, n), NEW f2, NEW g2,
         \A y \in N \cup {ListHead} : f2[y] = f[y] /\ g2[y] = g[y]
  PROVE  Circle(f2, g2, s, n)
<1>1. \A k \in 0 .. n : Place(s, n, k) \in N \cup {ListHead} /\ Place(s, n, k + 1) \in N \cup {ListHead}
  <2>1. \A k \in 0 .. n : k \in 0 .. n + 1 /\ k + 1 \in 0 .. n + 1
    OBVIOUS
  <2>2. QED
    BY <2>1, Places
<1>2. QED
  BY <1>1 DEF Circle

\* The node x is put behind the first i nodes.
Inserted(s, n, i, x) ==
  [k \in 1 .. n + 1 |-> IF k <= i THEN s[k] ELSE IF k = i + 1 THEN x ELSE s[k - 1]]

LEMMA InsertedOrder ==
  ASSUME NEW n \in Nat, NEW N, NEW s, Order(s, n, N), NEW x, x \notin N, NEW i \in 0 .. n
  PROVE  Order(Inserted(s, n, i, x), n + 1, N \cup {x})
<1> DEFINE t == Inserted(s, n, i, x)
<1>1. /\ \A k \in 1 .. i : k \in 1 .. n + 1 /\ t[k] = s[k] /\ s[k] \in N
      /\ i + 1 \in 1 .. n + 1 /\ t[i + 1] = x
      /\ \A k \in i + 2 .. n + 1 : k \in 1 .. n + 1 /\ t[k] = s[k - 1] /\ s[k - 1] \in N
  BY DEF Inserted, Order
<1>2. t \in [1 .. n + 1 -> N \cup {x}]
  <2>1. \A k \in 1 .. n + 1 : t[k] \in N \cup {x}
    <3>1. \A k \in 1 .. n + 1 : k \in 1 .. i \/ k = i + 1 \/ k \in i + 2 .. n + 1
      OBVIOUS
    <3> HIDE DEF t
    <3>2. QED
      BY <1>1, <3>1
  <2>2. t = [k \in 1 .. n + 1 |-> t[k]]
    BY DEF Inserted
  <2> HIDE DEF t
  <2>3. QED
    BY <2>1, <2>2
<1>3. ASSUME NEW k \in 1 .. n + 1, NEW l \in 1 .. n + 1, t[k] = t[l] PROVE k = l
  <2>1. \A y, z \in 1 .. n : s[y] = s[z] => y = z
    BY DEF Order
  <2>2. /\ k \in 1 .. i \/ k = i + 1 \/ (k \in i + 2 .. n + 1 /\ k - 1 \in i + 1 .. n)
        /\ l \in 1 .. i \/ l = i + 1 \/ (l \in i + 2 .. n + 1 /\ l - 1 \in i + 1 .. n)
        /\ \A y \in 1 .. i : y \in 1 .. n
        /\ \A y \in i + 1 .. n : y \in 1 .. n
    OBVIOUS
  <2> HIDE DEF t
  <2>3. CASE k = i + 1
    BY <1>1, <1>3, <2>2, <2>3
  <2>4. CASE l = i + 1
    BY <1>1, <1>3, <2>2, <2>4
  <2>5. CASE k \in 1 .. i
    <3>1. CASE l \in 1 .. i
      BY <1>1, <1>3, <2>1, <2>2, <2>5, <3>1
    <3>2. CASE l \in i + 2 .. n + 1 /\ l - 1 \in i + 1 .. n
      <4>1. s[k] = s[l - 1]
        BY <1>1, <1>3, <2>5, <3>2
      <4>2. k = l - 1
        BY <2>1, <2>2, <2>5, <3>2, <4>1
      <4>3. QED
        BY <2>5, <3>2, <4>2
    <3>3. QED
      BY <2>2, <2>4, <3>1, <3>2
  <2>6. CASE k \in i + 2 .. n + 1 /\ k - 1 \in i + 1 .. n
    <3>1. CASE l \in 1 .. i
      <4>1. s[k - 1] = s[l]
        BY <1>1, <1>3, <2>6, <3>1
      <4>2. k - 1 = l
        BY <2>1, <2>2, <2>6, <3>1, <4>1
      <4>3. QED
        BY <2>6, <3>1, <4>2
    <3>2. CASE l \in i + 2 .. n + 1 /\ l - 1 \in i + 1 .. n
      <4>1. s[k - 1] = s[l - 1]
        BY <1>1, <1>3, <2>6, <3>2
      <4>2. k - 1 = l - 1
        BY <2>1, <2>2, <2>6, <3>2, <4>1
      <4>3. QED
        BY <4>2
    <3>3. QED
      BY <2>2, <2>4, <3>1, <3>2
  <2>7. QED
    BY <2>2, <2>3, <2>5, <2>6
<1>4. ASSUME NEW y \in N \cup {x} PROVE \E k \in 1 .. n + 1 : t[k] = y
  <2> HIDE DEF t
  <2>1. CASE y = x
    BY <1>1, <2>1
  <2>2. CASE y \in N
    <3>1. PICK k \in 1 .. n : s[k] = y
      BY <2>2 DEF Order
    <3>2. CASE k \in 1 .. i
      BY <1>1, <3>1, <3>2
    <3>3. CASE k \in i + 1 .. n
      <4>1. k + 1 \in i + 2 .. n + 1 /\ (k + 1) - 1 = k
        BY <3>3
      <4>2. t[k + 1] = y /\ k + 1 \in 1 .. n + 1
        BY <1>1, <3>1, <4>1
      <4>3. QED
        BY <4>2
    <3>4. QED
      BY <3>2, <3>3
  <2>3. QED
    BY <2>1, <2>2
<1>5. QED
  BY <1>2, <1>3, <1>4 DEF Order

LEMMA InsertedCircle ==
  ASSUME NEW n \in Nat, NEW N, N \subseteq Nat \ {0}, NEW s, Order(s, n, N),
         NEW f, NEW g, Circle(f, g, s, n),
         N \cup {ListHead} \subseteq DOMAIN f, N \cup {ListHead} \subseteq DOMAIN g,
         NEW x, x \notin N, x # ListHead, NEW i \in 0 .. n, NEW y, y = Place(s, n, i + 1),
         NEW f2, f2 = With([f EXCEPT ![g[y]] = x], x, y),
         NEW g2, g2 = With([g EXCEPT ![y] = x], x, g[y])
  PROVE  Circle(f2, g2, Inserted(s, n, i, x), n + 1)
<1> DEFINE t == Inserted(s, n, i, x)
           Is(k) == Place(s, n, k)
<1>1. /\ \A k, l \in 0 .. n : Is(k) = Is(l) => k = l
      /\ \A k, l \in 1 .. n + 1 : Is(k) = Is(l) => k = l
      /\ \A k \in 0 .. n + 1 : Is(k) \in N \cup {ListHead}
  BY Places
<1>2. \A k \in 0 .. n : f[Is(k)] = Is(k + 1) /\ g[Is(k + 1)] = Is(k)
  BY DEF Circle
<1>3. /\ \A k \in 0 .. i : Place(t, n + 1, k) = Is(k)
      /\ Place(t, n + 1, i + 1) = x
      /\ \A k \in i + 2 .. n + 2 : Place(t, n + 1, k) = Is(k - 1)
  BY DEF Place, Inserted
<1> HIDE DEF t, Is
<1>4. y = Is(i + 1) /\ g[y] = Is(i)
  BY <1>2 DEF Is
<1>5. /\ f2[x] = Is(i + 1) /\ f2[Is(i)] = x
      /\ \A k \in 0 .. n : k # i => f2[Is(k)] = Is(k + 1)
  <2>1. \A k \in 0 .. n : Is(k) \in DOMAIN f /\ Is(k) # x
    <3>1. \A k \in 0 .. n : k \in 0 .. n + 1
      OBVIOUS
    <3>2. QED
      BY <1>1, <3>1
  <2>2. QED
    BY <1>1, <1>2, <1>4, <2>1 DEF With
<1>6. /\ g2[x] = Is(i) /\ g2[Is(i + 1)] = x
      /\ \A k \in 0 .. n : k # i => g2[Is(k + 1)] = Is(k)
  <2>1. \A k \in 0 .. n : k + 1 \in 1 .. n + 1 /\ k + 1 \in 0 .. n + 1
    OBVIOUS
  <2>2. \A k \in 0 .. n : Is(k + 1) \in DOMAIN g /\ Is(k + 1) # x
    BY <1>1, <2>1
  <2>3. \A k \in 0 .. n : k # i => Is(k + 1) # Is(i + 1)
    BY <1>1, <2>1
  <2>4. QED
    BY <1>2, <1>4, <2>2, <2>3 DEF With
<1>7. ASSUME NEW k \in 0 .. n + 1
      PROVE /\ f2[Place(t, n + 1, k)] = Place(t, n + 1, k + 1)
            /\ g2[Place(t, n + 1, k + 1)] = Place(t, n + 1, k)
  <2>1. CASE k < i
    <3>1. k \in 0 .. i /\ k + 1 \in 0 .. i /\ k \in 0 .. n /\ k # i
      BY <2>1
    <3>2. QED
      BY <1>3, <1>5, <1>6, <3>1
  <2>2. CASE k = i
    <3>1. i \in 0 .. i
      OBVIOUS
    <3>2. QED
      BY <1>3, <1>5, <1>6, <2>2, <3>1
  <2>3. CASE k = i + 1
    <3>1. i + 2 \in i + 2 .. n + 2 /\ (i + 2) - 1 = i + 1 /\ k + 1 = i + 2
      BY <2>3
    <3>2. QED
      BY <1>3, <1>5, <1>6, <2>3, <3>1
  <2>4. CASE k > i + 1
    <3>1. /\ k \in i + 2 .. n + 2 /\ k + 1 \in i + 2 .. n + 2 /\ (k + 1) - 1 = (k - 1) + 1
          /\ k - 1 \in 0 .. n /\ k - 1 # i
      BY <2>4
    <3>2. QED
      BY <1>3, <1>5, <1>6, <3>1
  <2>5. QED
    BY <2>1, <2>2, <2>3, <2>4
<1>8. QED
  BY <1>7 DEF Circle, t

\* The i-th node is taken out.
Removed(s, n, i) == [k \in 1 .. n - 1 |-> IF k < i THEN s[k] ELSE s[k + 1]]

LEMMA RemovedOrder ==
  ASSUME NEW n \in Nat, NEW N, NEW s, Order(s, n, N), NEW i \in 1 .. n
  PROVE  Order(Removed(s, n, i), n - 1, N \ {s[i]})
<1> DEFINE t == Removed(s, n, i)
           From(k) == IF k < i THEN k ELSE k + 1
<1>1. ASSUME NEW k \in 1 .. n - 1 PROVE t[k] = s[From(k)] /\ From(k) \in 1 .. n /\ From(k) # i
  BY DEF Removed
<1>2. \A k, l \in 1 .. n - 1 : From(k) = From(l) => k = l
  OBVIOUS
<1>3. \A k, l \in 1 .. n : s[k] = s[l] => k = l
  BY DEF Order
<1>4. t = [k \in 1 .. n - 1 |-> t[k]]
  BY DEF Removed
<1>5. ASSUME NEW k \in 1 .. n, k # i PROVE \E l \in 1 .. n - 1 : From(l) = k
  <2>1. CASE k < i
    <3>1. k \in 1 .. n - 1 /\ From(k) = k
      BY <2>1
    <3>2. QED
      BY <3>1
  <2>2. CASE k > i
    <3>1. k - 1 \in 1 .. n - 1 /\ From(k - 1) = k
      BY <2>2
    <3>2. QED
      BY <3>1
  <2>3. QED
    BY <1>5, <2>1, <2>2
<1> HIDE DEF t, From
<1>6. t \in [1 .. n - 1 -> N \ {s[i]}]
  <2>1. \A k \in 1 .. n - 1 : t[k] \in N \ {s[i]}
    BY <1>1, <1>3 DEF Order
  <2>2. QED
    BY <1>4, <2>1
<1>7. \A k, l \in 1 .. n - 1 : t[k] = t[l] => k = l
  BY <1>1, <1>2, <1>3
<1>8. ASSUME NEW y \in N \ {s[i]} PROVE \E l \in 1 .. n - 1 : t[l] = y
  <2>1. PICK k \in 1 .. n : s[k] = y
    BY DEF Order
  <2>2. PICK l \in 1 .. n - 1 : From(l) = k
    BY <1>5, <2>1
  <2>3. QED
    BY <1>1, <2>1, <2>2
<1>9. Order(t, n - 1, N \ {s[i]})
  BY <1>6, <1>7, <1>8 DEF Order
<1>10. QED
  BY <1>9 DEF t

LEMMA RemovedCircle ==
  ASSUME NEW n \in Nat, NEW N, N \subseteq Nat \ {0}, NEW s, Order(s, n, N),
         NEW f, NEW g, Circle(f, g, s, n),
         N \cup {ListHead} \subseteq DOMAIN f, N \cup {ListHead} \subseteq DOMAIN g,
         NEW i \in 1 .. n, NEW x, x = s[i],
         NEW f2, f2 = [f EXCEPT ![g[x]] = f[x]], NEW g2, g2 = [g EXCEPT ![f[x]] = g[x]]
  PROVE  Circle(f2, g2, Removed(s, n, i), n - 1)
<1> DEFINE t == Removed(s, n, i)
           Is(k) == Place(s, n, k)
<1>1. /\ \A k, l \in 0 .. n : Is(k) = Is(l) => k = l
      /\ \A k, l \in 1 .. n + 1 : Is(k) = Is(l) => k = l
      /\ \A k \in 0 .. n + 1 : Is(k) \in N \cup {ListHead}
  BY Places
<1>2. \A k \in 0 .. n : f[Is(k)] = Is(k + 1) /\ g[Is(k + 1)] = Is(k)
  BY DEF Circle
<1>3. /\ \A k \in 0 .. i - 1 : Place(t, n - 1, k) = Is(k)
      /\ \A k \in i .. n : Place(t, n - 1, k) = Is(k + 1)
  BY DEF Place, Removed
<1>4. x = Is(i)
  BY DEF Place
<1> HIDE DEF t, Is
<1>5. f[x] = Is(i + 1) /\ g[x] = Is(i - 1)
  <2>1. i \in 0 .. n /\ i - 1 \in 0 .. n /\ (i - 1) + 1 = i
    OBVIOUS
  <2>2. f[Is(i)] = Is(i + 1)
    BY <1>2, <2>1
  <2>3. g[Is((i - 1) + 1)] = Is(i - 1)
    BY <1>2, <2>1
  <2>4. QED
    BY <1>4, <2>1, <2>2, <2>3
<1>6. /\ f2[Is(i - 1)] = Is(i + 1)
      /\ \A k \in 0 .. n : k # i - 1 => f2[Is(k)] = Is(k + 1)
  <2>1. i - 1 \in 0 .. n /\ \A k \in 0 .. n : k \in 0 .. n + 1
    OBVIOUS
  <2>2. \A k \in 0 .. n : Is(k) \in DOMAIN f /\ (k # i - 1 => Is(k) # Is(i - 1))
    BY <1>1, <2>1
  <2>3. QED
    BY <1>2, <1>5, <2>1, <2>2
<1>7. /\ g2[Is(i + 1)] = Is(i - 1)
      /\ \A k \in 0 .. n : k # i => g2[Is(k + 1)] = Is(k)
  <2>1. i \in 0 .. n /\ \A k \in 0 .. n : k + 1 \in 1 .. n + 1 /\ k + 1 \in 0 .. n + 1
    OBVIOUS
  <2>2. \A k \in 0 .. n : Is(k + 1) \in DOMAIN g /\ (k # i => Is(k + 1) # Is(i + 1))
    BY <1>1, <2>1
  <2>3. QED
    BY <1>2, <1>5, <2>1, <2>2
<1>8. ASSUME NEW k \in 0 .. n - 1
      PROVE /\ f2[Place(t, n - 1, k)] = Place(t, n - 1, k + 1)
            /\ g2[Place(t, n - 1, k + 1)] = Place(t, n - 1, k)
  <2>1. CASE k < i - 1
    <3>1. k \in 0 .. i - 1 /\ k + 1 \in 0 .. i - 1 /\ k \in 0 .. n /\ k # i - 1 /\ k # i
      BY <2>1
    <3>2. QED
      BY <1>3, <1>6, <1>7, <3>1
  <2>2. CASE k = i - 1
    <3>1. k \in 0 .. i - 1 /\ k + 1 \in i .. n /\ k + 1 = i
      BY <2>2
    <3>2. QED
      BY <1>3, <1>6, <1>7, <2>2, <3>1
  <2>3. CASE k > i - 1
    <3>1. /\ k \in i .. n /\ k + 1 \in i .. n /\ k + 1 \in 0 .. n /\ k + 1 # i /\ k + 1 # i - 1
      BY <2>3
    <3>2. QED
      BY <1>3, <1>6, <1>7, <3>1
  <2>4. QED
    BY <2>1, <2>2, <2>3
<1>9. QED
  BY <1>8 DEF Circle, t

-----------------------------------------------------------------------------
(* The operations preserve the invariant.                                  *)

LEMMA WithIs ==
  ASSUME NEW f, NEW x, NEW v
  PROVE  /\ DOMAIN With(f, x, v) = DOMAIN f \cup {x}
         /\ \A T : f \in [DOMAIN f -> T] /\ v \in T => With(f, x, v) \in [DOMAIN f \cup {x} -> T]
         /\ With(f, x, v)[x] = v
         /\ \A y \in DOMAIN f : y # x => With(f, x, v)[y] = f[y]
  BY DEF With

LEMMA WithoutIs ==
  ASSUME NEW f, NEW S
  PROVE  /\ DOMAIN Without(f, S) = DOMAIN f \ S
         /\ \A T : f \in [DOMAIN f -> T] => Without(f, S) \in [DOMAIN f \ S -> T]
         /\ \A y \in DOMAIN f \ S : Without(f, S)[y] = f[y]
  BY DEF Without, Restrict

\* Linking a node on the list, for insert and paste.
LEMMA LinkStep ==
  ASSUME TypeOK, NEW s, Order(s, size, Nodes), Circle(next, prev, s, size),
         NEW x, x \in Nat \ {0}, x \notin Nodes, NEW v \in Int,
         NEW i \in 0 .. size, LinkBefore(x, Place(s, size, i + 1)),
         key' = With(key, x, v), size' = size + 1
  PROVE  /\ Order(Inserted(s, size, i, x), size', Nodes')
         /\ Circle(next', prev', Inserted(s, size, i, x), size')
         /\ Nodes' = Nodes \cup {x} /\ Nodes' \subseteq Nat \ {0} /\ key' \in [Nodes' -> Int]
         /\ size' \in Nat
         /\ DOMAIN next' = DOMAIN next \cup {x} /\ DOMAIN prev' = DOMAIN prev \cup {x}
<1>1. /\ size \in Nat /\ Nodes \subseteq Nat \ {0} /\ key \in [Nodes -> Int]
      /\ Nodes \cup {ListHead} \subseteq DOMAIN next /\ Nodes \cup {ListHead} \subseteq DOMAIN prev
  BY DEF TypeOK, Iterators
<1>2. Nodes' = Nodes \cup {x} /\ key' \in [Nodes' -> Int]
  BY <1>1, WithIs DEF Nodes
<1>3. PICK t : t = Inserted(s, size, i, x)
  OBVIOUS
<1>4. Order(t, size + 1, Nodes \cup {x})
  BY <1>1, <1>3, InsertedOrder
<1>5. PICK y : y = Place(s, size, i + 1)
  OBVIOUS
<1>6. next' = With([next EXCEPT ![prev[y]] = x], x, y) /\ prev' = With([prev EXCEPT ![y] = x], x, prev[y])
  BY <1>5 DEF LinkBefore
<1>7. Circle(next', prev', t, size + 1)
  <2>1. x # ListHead
    BY DEF ListHead
  <2>2. QED
    BY <1>1, <1>3, <1>5, <1>6, <2>1, InsertedCircle
<1>8. DOMAIN next' = DOMAIN next \cup {x} /\ DOMAIN prev' = DOMAIN prev \cup {x}
  <2>1. DOMAIN [next EXCEPT ![prev[y]] = x] = DOMAIN next /\ DOMAIN [prev EXCEPT ![y] = x] = DOMAIN prev
    OBVIOUS
  <2>2. QED
    BY <1>6, <2>1, WithIs
<1>9. size' \in Nat /\ Nodes' \subseteq Nat \ {0}
  BY <1>1, <1>2
<1>10. QED
  BY <1>2, <1>3, <1>4, <1>7, <1>8, <1>9

\* Taking a node out, for erase and cut.
LEMMA UnlinkStep ==
  ASSUME TypeOK, NEW s, Order(s, size, Nodes), Circle(next, prev, s, size),
         NEW i \in 1 .. size, NEW x, x = s[i],
         \A y \in (Nodes \cup {ListHead}) \ {x} : next'[y] = NextWithout(x)[y] /\ prev'[y] = PrevWithout(x)[y],
         key' = Without(key, {x}), size' = size - 1
  PROVE  /\ Order(Removed(s, size, i), size', Nodes')
         /\ Circle(next', prev', Removed(s, size, i), size')
         /\ Nodes' = Nodes \ {x} /\ x \in Nodes /\ key' \in [Nodes' -> Int] /\ size' \in Nat
<1>1. /\ size \in Nat /\ Nodes \subseteq Nat \ {0} /\ key \in [Nodes -> Int]
      /\ Nodes \cup {ListHead} \subseteq DOMAIN next /\ Nodes \cup {ListHead} \subseteq DOMAIN prev
  BY DEF TypeOK, Iterators
<1>2. Nodes' = Nodes \ {x} /\ key' \in [Nodes' -> Int]
  BY <1>1, WithoutIs DEF Nodes
<1>3. PICK t : t = Removed(s, size, i)
  OBVIOUS
<1>4. Order(t, size - 1, Nodes \ {x})
  BY <1>1, <1>3, RemovedOrder
<1>5. PICK f, g : f = NextWithout(x) /\ g = PrevWithout(x)
  OBVIOUS
<1>6. Circle(f, g, t, size - 1)
  <2>1. f = [next EXCEPT ![prev[x]] = next[x]] /\ g = [prev EXCEPT ![next[x]] = prev[x]]
    BY <1>5 DEF NextWithout, PrevWithout
  <2>2. Circle(f, g, Removed(s, size, i), size - 1)
    BY <1>1, <2>1, RemovedCircle
  <2>3. QED
    BY <1>3, <2>2
<1>7. x \in Nodes /\ size - 1 \in Nat /\ Nodes \ {x} \subseteq Nat \ {0} /\ x # ListHead
  <2>1. x \in Nodes
    BY DEF Order
  <2>2. size - 1 \in Nat
    BY <1>1
  <2>3. QED
    BY <1>1, <2>1, <2>2 DEF ListHead
<1>8. \A y \in (Nodes \ {x}) \cup {ListHead} : next'[y] = f[y] /\ prev'[y] = g[y]
  BY <1>5, <1>7
<1>9. Circle(next', prev', t, size - 1)
  BY <1>4, <1>6, <1>7, <1>8, CircleSame
<1>10. QED
  BY <1>2, <1>3, <1>4, <1>7, <1>9

LEMMA StaysAtRest ==
  ASSUME TypeOK, AtRest, Operates
  PROVE  AtRest' /\ pc = "idle" /\ pc' = "idle" /\ pc' \in Labels /\ compared' \in Nat
<1>1. pc = "idle" /\ UNCHANGED <<pc, list, pending, count, bits, a, b, tail, merged, temp, compared, before>>
  BY DEF Operates, locals, merging
<1>2. QED
  BY <1>1 DEF AtRest, TypeOK

LEMMA InsertStep ==
  ASSUME TypeOK, Resting, NEW iter \in Iterators, NEW x \in Addr, NEW v \in Keys, Insert(iter, x, v)
  PROVE  TypeOK' /\ Resting' /\ pc' = "idle"
<1>1. PICK s : Order(s, size, Nodes) /\ Circle(next, prev, s, size)
  BY DEF Resting
<1>2. /\ Operates /\ x \notin Nodes /\ x \notin DOMAIN cut /\ LinkBefore(x, iter)
      /\ key' = With(key, x, v) /\ size' = size + 1 /\ cut' = cut
  BY DEF Insert
<1>3. AtRest' /\ pc' = "idle" /\ pc' \in Labels /\ compared' \in Nat
  BY <1>2, StaysAtRest DEF Resting
<1>4. x \in Nat \ {0} /\ v \in Int /\ size \in Nat
  BY XListAssumption DEF TypeOK
<1>5. PICK i \in 0 .. size : Place(s, size, i + 1) = iter
  BY <1>1, <1>4, PlaceOf DEF Iterators
<1>6. /\ Order(Inserted(s, size, i, x), size', Nodes')
      /\ Circle(next', prev', Inserted(s, size, i, x), size')
      /\ Nodes' = Nodes \cup {x} /\ Nodes' \subseteq Nat \ {0} /\ key' \in [Nodes' -> Int]
      /\ size' \in Nat
      /\ DOMAIN next' = DOMAIN next \cup {x} /\ DOMAIN prev' = DOMAIN prev \cup {x}
  BY <1>1, <1>2, <1>4, <1>5, LinkStep
<1>7. TypeOK'
  <2>1. Iterators' = Iterators \cup {x}
    BY <1>6 DEF Iterators
  <2>2. DOMAIN cut' \cap Nodes' = {}
    BY <1>2, <1>6 DEF TypeOK
  <2>3. DOMAIN next' = Iterators' \cup DOMAIN cut' /\ DOMAIN prev' = Iterators' \cup DOMAIN cut'
    BY <1>2, <1>6, <2>1 DEF TypeOK
  <2>4. QED
    BY <1>2, <1>3, <1>6, <2>2, <2>3 DEF TypeOK
<1>8. QED
  BY <1>3, <1>6, <1>7 DEF Resting

LEMMA PasteStep ==
  ASSUME TypeOK, Resting, NEW iter \in Iterators, NEW x \in DOMAIN cut, Paste(iter, x)
  PROVE  TypeOK' /\ Resting' /\ pc' = "idle"
<1>1. PICK s : Order(s, size, Nodes) /\ Circle(next, prev, s, size)
  BY DEF Resting
<1>2. /\ Operates /\ LinkBefore(x, iter)
      /\ key' = With(key, x, cut[x]) /\ size' = size + 1 /\ cut' = Without(cut, {x})
  BY DEF Paste
<1>3. AtRest' /\ pc' = "idle" /\ pc' \in Labels /\ compared' \in Nat
  BY <1>2, StaysAtRest DEF Resting
<1>4. x \in Nat \ {0} /\ cut[x] \in Int /\ size \in Nat /\ x \notin Nodes
  BY DEF TypeOK
<1>5. PICK i \in 0 .. size : Place(s, size, i + 1) = iter
  BY <1>1, <1>4, PlaceOf DEF Iterators
<1>6. /\ Order(Inserted(s, size, i, x), size', Nodes')
      /\ Circle(next', prev', Inserted(s, size, i, x), size')
      /\ Nodes' = Nodes \cup {x} /\ Nodes' \subseteq Nat \ {0} /\ key' \in [Nodes' -> Int]
      /\ size' \in Nat
      /\ DOMAIN next' = DOMAIN next \cup {x} /\ DOMAIN prev' = DOMAIN prev \cup {x}
  BY <1>1, <1>2, <1>4, <1>5, LinkStep
<1>7. TypeOK'
  <2>1. Iterators' = Iterators \cup {x}
    BY <1>6 DEF Iterators
  <2>2. DOMAIN cut' = DOMAIN cut \ {x} /\ cut' \in [DOMAIN cut' -> Int]
    BY <1>2, WithoutIs DEF TypeOK
  <2>3. IsFiniteSet(DOMAIN cut') /\ DOMAIN cut' \subseteq Nat \ {0}
    BY <2>2, FS_RemoveElement DEF TypeOK
  <2>4. DOMAIN cut' \cap Nodes' = {}
    BY <1>6, <2>2 DEF TypeOK
  <2>5. DOMAIN next' = Iterators' \cup DOMAIN cut' /\ DOMAIN prev' = Iterators' \cup DOMAIN cut'
    BY <1>6, <2>1, <2>2 DEF TypeOK
  <2>6. QED
    BY <1>3, <1>6, <2>2, <2>3, <2>4, <2>5 DEF TypeOK
<1>8. QED
  BY <1>3, <1>6, <1>7 DEF Resting

LEMMA EraseStep ==
  ASSUME TypeOK, Resting, NEW x \in Nodes, Erase(x)
  PROVE  TypeOK' /\ Resting' /\ pc' = "idle"
<1>1. PICK s : Order(s, size, Nodes) /\ Circle(next, prev, s, size)
  BY DEF Resting
<1>2. /\ Operates
      /\ next' = Without(NextWithout(x), {x}) /\ prev' = Without(PrevWithout(x), {x})
      /\ key' = Without(key, {x}) /\ size' = size - 1 /\ cut' = cut
  BY DEF Erase
<1>3. AtRest' /\ pc' = "idle" /\ pc' \in Labels /\ compared' \in Nat
  BY <1>2, StaysAtRest DEF Resting
<1>4. PICK i \in 1 .. size : x = s[i]
  BY <1>1 DEF Order
<1>5. DOMAIN NextWithout(x) = DOMAIN next /\ DOMAIN PrevWithout(x) = DOMAIN prev
  BY DEF NextWithout, PrevWithout
<1>6. DOMAIN next = Nodes \cup {ListHead} \cup DOMAIN cut /\ DOMAIN prev = Nodes \cup {ListHead} \cup DOMAIN cut
  BY DEF TypeOK, Iterators
<1>7. \A y \in (Nodes \cup {ListHead}) \ {x} : next'[y] = NextWithout(x)[y] /\ prev'[y] = PrevWithout(x)[y]
  BY <1>2, <1>5, <1>6, WithoutIs
<1>8. /\ Order(Removed(s, size, i), size', Nodes')
      /\ Circle(next', prev', Removed(s, size, i), size')
      /\ Nodes' = Nodes \ {x} /\ x \in Nodes /\ key' \in [Nodes' -> Int] /\ size' \in Nat
  BY <1>1, <1>2, <1>4, <1>7, UnlinkStep
<1>9. TypeOK'
  <2>1. DOMAIN next' = DOMAIN next \ {x} /\ DOMAIN prev' = DOMAIN prev \ {x}
    BY <1>2, <1>5 DEF Without, Restrict
  <2>2. x \notin DOMAIN cut /\ x # ListHead
    BY DEF TypeOK, ListHead
  <2>3. DOMAIN next' = Iterators' \cup DOMAIN cut' /\ DOMAIN prev' = Iterators' \cup DOMAIN cut'
    BY <1>2, <1>6, <1>8, <2>1, <2>2 DEF Iterators
  <2>4. QED
    BY <1>2, <1>3, <1>8, <2>3 DEF TypeOK
<1>10. QED
  BY <1>3, <1>8, <1>9 DEF Resting

LEMMA CutStep ==
  ASSUME TypeOK, Resting, NEW x \in Nodes, Cut(x)
  PROVE  TypeOK' /\ Resting' /\ pc' = "idle"
<1>1. PICK s : Order(s, size, Nodes) /\ Circle(next, prev, s, size)
  BY DEF Resting
<1>2. /\ Operates
      /\ next' = NextWithout(x) /\ prev' = PrevWithout(x)
      /\ key' = Without(key, {x}) /\ size' = size - 1 /\ cut' = With(cut, x, key[x])
  BY DEF Cut
<1>3. AtRest' /\ pc' = "idle" /\ pc' \in Labels /\ compared' \in Nat
  BY <1>2, StaysAtRest DEF Resting
<1>4. PICK i \in 1 .. size : x = s[i]
  BY <1>1 DEF Order
<1>5. /\ Order(Removed(s, size, i), size', Nodes')
      /\ Circle(next', prev', Removed(s, size, i), size')
      /\ Nodes' = Nodes \ {x} /\ x \in Nodes /\ key' \in [Nodes' -> Int] /\ size' \in Nat
  BY <1>1, <1>2, <1>4, UnlinkStep
<1>6. TypeOK'
  <2>1. DOMAIN next' = DOMAIN next /\ DOMAIN prev' = DOMAIN prev
    BY <1>2 DEF NextWithout, PrevWithout
  <2>2. key[x] \in Int /\ x \in Nat \ {0}
    BY DEF TypeOK
  <2>3. DOMAIN cut' = DOMAIN cut \cup {x} /\ cut' \in [DOMAIN cut' -> Int]
    BY <1>2, <2>2 DEF TypeOK, With
  <2>4. IsFiniteSet(DOMAIN cut') /\ DOMAIN cut' \subseteq Nat \ {0}
    BY <2>2, <2>3, FS_AddElement DEF TypeOK
  <2>5. DOMAIN cut' \cap Nodes' = {}
    BY <1>5, <2>3 DEF TypeOK
  <2>6. DOMAIN next' = Iterators' \cup DOMAIN cut' /\ DOMAIN prev' = Iterators' \cup DOMAIN cut'
    BY <1>5, <2>1, <2>3 DEF TypeOK, Iterators
  <2>7. QED
    BY <1>3, <1>5, <2>3, <2>4, <2>5, <2>6 DEF TypeOK
<1>7. QED
  BY <1>3, <1>5, <1>6 DEF Resting

LEMMA CutFreeStep ==
  ASSUME TypeOK, Resting, NEW x \in DOMAIN cut, CutFree(x)
  PROVE  TypeOK' /\ Resting' /\ pc' = "idle"
<1>1. PICK s : Order(s, size, Nodes) /\ Circle(next, prev, s, size)
  BY DEF Resting
<1>2. /\ Operates /\ next' = Without(next, {x}) /\ prev' = Without(prev, {x})
      /\ cut' = Without(cut, {x}) /\ size' = size /\ key' = key
  BY DEF CutFree, input
<1>3. AtRest' /\ pc' = "idle" /\ pc' \in Labels /\ compared' \in Nat
  BY <1>2, StaysAtRest DEF Resting
<1>4. /\ DOMAIN next = Nodes \cup {ListHead} \cup DOMAIN cut
      /\ DOMAIN prev = Nodes \cup {ListHead} \cup DOMAIN cut
      /\ x \notin Nodes \cup {ListHead} /\ size \in Nat /\ Nodes \subseteq Nat \ {0}
  BY DEF TypeOK, Iterators, ListHead
<1>5. \A y \in Nodes \cup {ListHead} : next'[y] = next[y] /\ prev'[y] = prev[y]
  BY <1>2, <1>4, WithoutIs
<1>6. Circle(next', prev', s, size)
  <2>1. \A k \in 0 .. size : k \in 0 .. size + 1 /\ k + 1 \in 0 .. size + 1
    BY <1>4
  <2>2. \A k \in 0 .. size + 1 : Place(s, size, k) \in Nodes \cup {ListHead}
    BY <1>1, <1>4, Places
  <2>3. \A k \in 0 .. size : /\ Place(s, size, k) \in Nodes \cup {ListHead}
                             /\ Place(s, size, k + 1) \in Nodes \cup {ListHead}
    BY <2>1, <2>2
  <2>4. QED
    BY <1>1, <1>5, <2>3 DEF Circle
<1>7. TypeOK'
  <2>1. DOMAIN next' = DOMAIN next \ {x} /\ DOMAIN prev' = DOMAIN prev \ {x}
    BY <1>2, WithoutIs
  <2>2. DOMAIN cut' = DOMAIN cut \ {x} /\ cut' \in [DOMAIN cut' -> Int]
    BY <1>2, WithoutIs DEF TypeOK
  <2>3. IsFiniteSet(DOMAIN cut') /\ DOMAIN cut' \subseteq Nat \ {0}
    BY <2>2, FS_RemoveElement DEF TypeOK
  <2>4. Nodes' = Nodes /\ DOMAIN cut' \cap Nodes' = {}
    BY <1>2, <2>2 DEF TypeOK, Nodes
  <2>5. DOMAIN next' = Iterators' \cup DOMAIN cut' /\ DOMAIN prev' = Iterators' \cup DOMAIN cut'
    BY <1>4, <2>1, <2>2, <2>4 DEF Iterators
  <2>6. QED
    BY <1>2, <1>3, <2>2, <2>3, <2>4, <2>5 DEF TypeOK
<1>8. (Order(s, size, Nodes) /\ Circle(next, prev, s, size))'
  BY <1>1, <1>2, <1>6 DEF Nodes
<1>9. QED
  BY <1>3, <1>7, <1>8 DEF Resting

\* The nodes from the begin on are all of them.
LEMMA RunIsAll ==
  ASSUME NEW s, size \in Nat, Nodes \subseteq Nat \ {0}, Order(s, size, Nodes), Circle(next, prev, s, size)
  PROVE  Run(next[ListHead]) = Nodes
<1> DEFINE p == Path(next, next[ListHead])
<1>1. p = [k \in 0 .. size |-> Place(s, size, k + 1)]
  BY CirclePath
<1>2. ASSUME NEW y \in Nodes PROVE y \in {p[k] : k \in DOMAIN p}
  <2>1. PICK i \in 1 .. size : s[i] = y
    BY DEF Order
  <2>2. i - 1 \in 0 .. size /\ Place(s, size, (i - 1) + 1) = y
    BY <2>1 DEF Place
  <2>3. QED
    BY <1>1, <2>2
<1>3. Run(next[ListHead]) = {p[k] : k \in DOMAIN p} \cap Nodes
  BY DEF Run
<1>4. QED
  BY <1>2, <1>3

LEMMA ClearStep ==
  ASSUME TypeOK, Resting, Clear
  PROVE  TypeOK' /\ Resting' /\ pc' = "idle"
<1>1. PICK s : Order(s, size, Nodes) /\ Circle(next, prev, s, size)
  BY DEF Resting
<1>2. Run(next[ListHead]) = Nodes
  BY <1>1, RunIsAll DEF TypeOK
<1>3. /\ Operates /\ next' = [Without(next, Nodes) EXCEPT ![ListHead] = ListHead]
      /\ prev' = [Without(prev, Nodes) EXCEPT ![ListHead] = ListHead]
      /\ key' = Without(key, Nodes) /\ size' = 0 /\ cut' = cut
  BY <1>2 DEF Clear
<1>4. AtRest' /\ pc' = "idle" /\ pc' \in Labels /\ compared' \in Nat
  BY <1>3, StaysAtRest DEF Resting
<1>5. /\ DOMAIN next = Nodes \cup {ListHead} \cup DOMAIN cut
      /\ DOMAIN prev = Nodes \cup {ListHead} \cup DOMAIN cut
      /\ DOMAIN cut \cap Nodes = {} /\ ListHead \notin Nodes
  BY DEF TypeOK, Iterators, ListHead
<1>6. DOMAIN Without(next, Nodes) = {ListHead} \cup DOMAIN cut /\ DOMAIN Without(prev, Nodes) = {ListHead} \cup DOMAIN cut
  BY <1>5 DEF Without, Restrict
<1>7. /\ next'[ListHead] = ListHead /\ prev'[ListHead] = ListHead
      /\ DOMAIN next' = {ListHead} \cup DOMAIN cut /\ DOMAIN prev' = {ListHead} \cup DOMAIN cut
  BY <1>3, <1>6
<1>8. Nodes' = {} /\ key' \in [Nodes' -> Int]
  <2>1. DOMAIN key' = {} /\ key' \in [DOMAIN key \ Nodes -> Int]
    BY <1>3 DEF TypeOK, Nodes, Without, Restrict
  <2>2. QED
    BY <2>1 DEF Nodes
<1>9. TypeOK'
  BY <1>3, <1>4, <1>7, <1>8 DEF TypeOK, Iterators
<1>10. PICK z : z = [k \in 1 .. 0 |-> 0]
  OBVIOUS
<1>11. Order(z, 0, {}) /\ Circle(next', prev', z, 0)
  BY <1>7, <1>10 DEF Order, Circle, Place
<1>12. (Order(z, size, Nodes) /\ Circle(next, prev, z, size))'
  BY <1>3, <1>8, <1>11
<1>13. QED
  BY <1>4, <1>9, <1>12 DEF Resting

LEMMA OperationStep ==
  ASSUME IInv, Operation
  PROVE  IInv'
<1>1. pc = "idle"
  BY DEF Operation, Insert, Paste, Erase, Cut, CutFree, Clear, Operates
<1>2. TypeOK /\ Resting
  BY <1>1 DEF IInv
<1>3. TypeOK' /\ Resting' /\ pc' = "idle"
  <2>1. CASE \E iter \in Iterators : \E x \in Addr, v \in Keys : Insert(iter, x, v)
    BY <1>2, <2>1, InsertStep
  <2>2. CASE \E iter \in Iterators : \E x \in DOMAIN cut : Paste(iter, x)
    BY <1>2, <2>2, PasteStep
  <2>3. CASE \E x \in Nodes : Erase(x) \/ Cut(x)
    BY <1>2, <2>3, EraseStep, CutStep
  <2>4. CASE \E x \in DOMAIN cut : CutFree(x)
    BY <1>2, <2>4, CutFreeStep
  <2>5. CASE Clear
    BY <1>2, <2>5, ClearStep
  <2>6. QED
    BY <2>1, <2>2, <2>3, <2>4, <2>5 DEF Operation
<1>4. QED
  BY <1>3 DEF IInv

LEMMA Initially == Init => IInv
<1> SUFFICES ASSUME Init PROVE IInv
  OBVIOUS
<1>1. /\ key \in Seq(Int) /\ size = Len(key) /\ AtRest /\ cut = <<>>
      /\ next = [x \in 0 .. size |-> IF x = size THEN ListHead ELSE x + 1]
      /\ prev = [x \in 0 .. size |-> IF x = ListHead THEN size ELSE x - 1]
  <2>1. <<>> \in Seq(Int)
    OBVIOUS
  <2>2. QED
    BY <2>1, XListAssumption DEF Init
<1>2. size \in Nat /\ Nodes = 1 .. size /\ key \in [Nodes -> Int] /\ DOMAIN cut = {}
  BY <1>1 DEF Nodes
<1>3. TypeOK
  <2>1. DOMAIN next = Iterators \cup DOMAIN cut /\ DOMAIN prev = Iterators \cup DOMAIN cut
    BY <1>1, <1>2 DEF Iterators, ListHead
  <2>2. IsFiniteSet(DOMAIN cut) /\ cut \in [DOMAIN cut -> Int]
    BY <1>1, <1>2, FS_EmptySet
  <2>3. pc \in Labels /\ compared \in Nat
    BY <1>1 DEF AtRest, Labels
  <2>4. QED
    BY <1>2, <2>1, <2>2, <2>3 DEF TypeOK
<1>4. PICK s : s = [k \in 1 .. size |-> k]
  OBVIOUS
<1>5. Order(s, size, Nodes)
  BY <1>2, <1>4 DEF Order
<1>6. Circle(next, prev, s, size)
  BY <1>1, <1>2, <1>4 DEF Circle, Place, ListHead
<1>7. Resting
  BY <1>1, <1>5, <1>6 DEF Resting
<1>8. pc = "idle"
  BY <1>1 DEF AtRest
<1>9. QED
  BY <1>3, <1>7, <1>8 DEF IInv

-----------------------------------------------------------------------------
(***************************************************************************)
(* At every point of the program the nodes on the list can be arranged so  *)
(* that each of the lists its links hold is a stretch of that arrangement: *)
(* one circle between the calls of xlist.c, and, inside of xlist_msort,    *)
(* the sorted runs with the input that is left behind them.                *)
(***************************************************************************)
THEOREM Inductive == Spec => []IInv
<1>1. IInv /\ [Next]_xvars => IInv'
  <2>1. ASSUME IInv, UNCHANGED xvars PROVE IInv'
    <3>1. UNCHANGED <<size, key, next, prev, pc, list, pending, count, bits, a, b, tail, merged,
                      temp, compared, before, cut>>
      BY <2>1 DEF xvars, vars, input, links, locals, merging
    <3> USE <3>1 DEF Nodes
    <3>2. TypeOK' /\ (BeforeOK => BeforeOK') /\ (Resting => Resting') /\ (Sorted => Sorted')
      BY <2>1 DEF IInv, TypeOK, BeforeOK, Resting, Sorted, AtRest, Iterators, Bound
    <3>3. (Taking => Taking') /\ (Folding => Folding')
      BY DEF Taking, TakeAt, Folding, FoldAt, Ghost, RestOfInput
    <3>4. (MergingInFold => MergingInFold') /\ (MergedInFold => MergedInFold')
      BY DEF MergingInFold, MergeInFoldAt, MergedInFold, MergedInFoldAt, InFoldAt, MergeAt, Ghost, RestOfInput
    <3>5. (MergingRest => MergingRest') /\ (MergedInRest => MergedInRest')
      BY DEF MergingRest, MergedInRest, RestAt, Ghost
    <3>6. (MergingInRest => MergingInRest') /\ (Relinking => Relinking')
      BY DEF MergingInRest, MergeInRestAt, MergeAt, Ghost, Relinking, RelinkAt, Bound
    <3>7. QED
      BY <2>1, <3>2, <3>3, <3>4, <3>5, <3>6 DEF IInv
  <2>2. QED
    BY <2>1, SortStep, OperationStep DEF Next
<1>2. QED
  BY <1>1, Initially, PTL DEF Spec

(***************************************************************************)
(* xlist_msort calls its comparison at most as often as a balanced merge   *)
(* sort does, for a list of every length.                                  *)
(***************************************************************************)
THEOREM SortIsEconomical == Spec => []FewComparisons
  BY Inductive, Few, PTL

(***************************************************************************)
(* Between the calls of xlist.c the list is one circle through the nodes   *)
(* that were inserted or pasted and not erased or cut, the same in both    *)
(* directions, and its size is their number.                               *)
(***************************************************************************)
THEOREM AlwaysLinked == Spec => []Linked
<1>1. IInv => Linked
  <2> SUFFICES ASSUME IInv, pc = "idle"
        PROVE  /\ \A x \in Iterators : next[x] \in Iterators /\ prev[next[x]] = x
               /\ Run(next[ListHead]) = Nodes
               /\ size = Cardinality(Nodes)
    BY DEF Linked
  <2>1. TypeOK /\ size \in Nat /\ Nodes \subseteq Nat \ {0}
    BY DEF IInv, TypeOK
  <2>2. PICK s : Order(s, size, Nodes) /\ Circle(next, prev, s, size)
    BY DEF IInv, Resting
  <2>3. ASSUME NEW x \in Iterators PROVE next[x] \in Iterators /\ prev[next[x]] = x
    <3>1. PICK i \in 0 .. size : Place(s, size, i) = x
      <4>1. CASE x = ListHead
        <5>1. 0 \in 0 .. size /\ Place(s, size, 0) = ListHead
          BY <2>1 DEF Place
        <5>2. QED
          BY <4>1, <5>1
      <4>2. CASE x \in Nodes
        <5>1. PICK k \in 1 .. size : s[k] = x
          BY <2>2, <4>2 DEF Order
        <5>2. k \in 0 .. size /\ Place(s, size, k) = x
          BY <5>1 DEF Place
        <5>3. QED
          BY <5>2
      <4>3. QED
        BY <4>1, <4>2 DEF Iterators
    <3>2. next[x] = Place(s, size, i + 1) /\ prev[next[x]] = x
      BY <2>2, <3>1 DEF Circle
    <3>3. Place(s, size, i + 1) \in Iterators
      <4>1. i + 1 \in 0 .. size + 1
        BY <2>1
      <4>2. QED
        BY <2>1, <2>2, <4>1, Places DEF Iterators
    <3>4. QED
      BY <3>2, <3>3
  <2>4. Run(next[ListHead]) = Nodes
    BY <2>1, <2>2, RunIsAll
  <2>5. size = Cardinality(Nodes)
    BY <2>1, <2>2, OrderCounts
  <2>6. QED
    BY <2>3, <2>4, <2>5
<1>2. QED
  BY <1>1, Inductive, PTL

-----------------------------------------------------------------------------
(* The digits of the counter and the runs.                                 *)

LEMMA Quotient ==
  ASSUME NEW x \in Nat, NEW y \in Nat \ {0}, NEW q \in Nat, NEW c \in Nat, x = q * y + c, c < y
  PROVE  x \div y = q
<1> DEFINE p == x \div y
           d == x % y
<1>1. p \in Int /\ d \in 0 .. y - 1 /\ x = y * p + d
  OBVIOUS
<1> HIDE DEF p, d
<1>2. y * p = p * y
  BY <1>1
<1>3. ASSUME p < q PROVE FALSE
  <2>1. q - p \in Nat /\ q - p >= 1 /\ q = p + (q - p)
    BY <1>1, <1>3
  <2>2. PICK z \in Nat : z = q - p
    BY <2>1
  <2>3. q * y = p * y + z * y /\ z * y >= y
    <3>1. q = p + z /\ z >= 1
      BY <2>1, <2>2
    <3>2. \A w \in Nat \ {0} : (p + z) * w = p * w + z * w /\ z * w >= w
      BY <1>1, <3>1
    <3>3. QED
      BY <3>1, <3>2
  <2>4. p * y \in Int /\ z * y \in Int /\ q * y \in Int
    BY <1>1
  <2>5. QED
    BY <1>1, <1>2, <2>3, <2>4
<1>4. ASSUME q < p PROVE FALSE
  <2>1. p - q \in Nat /\ p - q >= 1 /\ p = q + (p - q)
    BY <1>1, <1>4
  <2>2. PICK z \in Nat : z = p - q
    BY <2>1
  <2>3. p * y = q * y + z * y /\ z * y >= y
    <3>1. p = q + z /\ z >= 1
      BY <1>1, <2>1, <2>2
    <3>2. \A w \in Nat \ {0} : (q + z) * w = q * w + z * w /\ z * w >= w
      BY <3>1
    <3>3. QED
      BY <3>1, <3>2
  <2>4. p * y \in Int /\ z * y \in Int /\ q * y \in Int
    BY <1>1
  <2>5. QED
    BY <1>1, <1>2, <2>3, <2>4
<1>5. p = q
  BY <1>1, <1>3, <1>4
<1>6. QED
  BY <1>5 DEF p

LEMMA Division ==
  ASSUME NEW x \in Nat, NEW y \in Nat \ {0}
  PROVE  \E q \in Nat, c \in 0 .. y - 1 : x = q * y + c
<1> DEFINE p == x \div y
           d == x % y
<1>1. p \in Int /\ d \in 0 .. y - 1 /\ x = y * p + d
  OBVIOUS
<1> HIDE DEF p, d
<1>2. y * p = p * y
  BY <1>1
<1>3. p \in Nat
  <2>1. ASSUME p < 0 PROVE FALSE
    <3>1. PICK z \in Nat \ {0} : z = 0 - p
      BY <1>1, <2>1
    <3>2. y * p = 0 - y * z /\ y * z >= y
      BY <1>1, <3>1
    <3>3. y * z \in Nat
      OBVIOUS
    <3>4. QED
      BY <1>1, <3>2, <3>3
  <2>2. QED
    BY <1>1, <2>1
<1>4. QED
  BY <1>1, <1>2, <1>3

\* Digit j of n.
IsDigit(n, j) == (n \div Pow2[j]) % 2 = 1

LEMMA NewDigit ==
  ASSUME NEW h \in Nat, NEW k \in Nat, NEW j \in Nat
  PROVE  /\ j = k => IsDigit((2 * h + 1) * Pow2[k], j)
         /\ j < k => ~IsDigit((2 * h + 1) * Pow2[k], j)
         /\ j > k => (IsDigit((2 * h + 1) * Pow2[k], j) <=> IsDigit((2 * h) * Pow2[k], j))
         /\ j <= k => ~IsDigit((2 * h) * Pow2[k], j)
<1>1. Pow2[k] \in Nat \ {0} /\ Pow2[j] \in Nat \ {0}
  BY Pow2Def
<1>2. (2 * h + 1) * Pow2[k] \in Nat /\ (2 * h) * Pow2[k] \in Nat
  BY <1>1
<1>3. ASSUME j <= k
      PROVE /\ j = k => IsDigit((2 * h + 1) * Pow2[k], j)
            /\ j < k => ~IsDigit((2 * h + 1) * Pow2[k], j)
            /\ ~IsDigit((2 * h) * Pow2[k], j)
  <2>1. PICK d \in Nat : d = k - j /\ j + d = k
    BY <1>3
  <2>2. PICK m \in Nat \ {0} : Pow2[k] = m * Pow2[j] /\ (d > 0 => m % 2 = 0)
    <3>1. PICK m \in Nat \ {0} : Pow2[j + d] = m * Pow2[j] /\ (d > 0 => m % 2 = 0)
      BY Pow2Divides
    <3>2. QED
      BY <2>1, <3>1
  <2>3. /\ (2 * h + 1) * Pow2[k] = ((2 * h + 1) * m) * Pow2[j] + 0
        /\ (2 * h) * Pow2[k] = (2 * (h * m)) * Pow2[j] + 0
    <3>1. \A x \in Nat : /\ (2 * h + 1) * (m * x) = ((2 * h + 1) * m) * x + 0
                         /\ (2 * h) * (m * x) = (2 * (h * m)) * x + 0
      OBVIOUS
    <3>2. QED
      BY <1>1, <2>2, <3>1
  <2>4. (2 * h + 1) * m \in Nat /\ 2 * (h * m) \in Nat /\ h * m \in Nat /\ (2 * h + 1) * m = 2 * (h * m) + m
    <3>1. \A x \in Nat : (2 * h + 1) * x = 2 * (h * x) + x
      OBVIOUS
    <3>2. QED
      BY <3>1
  <2>5. /\ ((2 * h + 1) * Pow2[k]) \div Pow2[j] = (2 * h + 1) * m
        /\ ((2 * h) * Pow2[k]) \div Pow2[j] = 2 * (h * m)
    <3>1. PICK x, y, z, w \in Nat : /\ x = (2 * h + 1) * Pow2[k] /\ y = (2 * h) * Pow2[k]
                                    /\ z = (2 * h + 1) * m /\ w = 2 * (h * m)
      BY <1>2, <2>4
    <3>2. PICK v \in Nat \ {0} : v = Pow2[j]
      BY <1>1
    <3>3. x = z * v + 0 /\ y = w * v + 0 /\ 0 < v
      BY <2>3, <3>1, <3>2
    <3>4. x \div v = z /\ y \div v = w
      BY <3>3, Quotient, 0 \in Nat
    <3>5. QED
      BY <3>1, <3>2, <3>4
  <2>6. (2 * (h * m)) % 2 = 0 /\ (2 * (h * m) + m) % 2 = m % 2
    BY <2>4
  <2>7. j = k => m = 1
    <3>1. ASSUME j = k PROVE m = 1
      <4>1. m * Pow2[j] = 1 * Pow2[j]
        BY <1>1, <2>2, <3>1
      <4>2. QED
        BY <1>1, <4>1, Cancel
    <3>2. QED
      BY <3>1
  <2>8. j < k => m % 2 = 0
    BY <2>1, <2>2
  <2>9. 1 % 2 = 1
    OBVIOUS
  <2>10. QED
    BY <2>4, <2>5, <2>6, <2>7, <2>8, <2>9 DEF IsDigit
<1>4. ASSUME j > k
      PROVE IsDigit((2 * h + 1) * Pow2[k], j) <=> IsDigit((2 * h) * Pow2[k], j)
  <2>1. PICK d \in Nat : d = j - k /\ k + d = j /\ d > 0
    BY <1>4
  <2>2. PICK m \in Nat \ {0} : Pow2[j] = m * Pow2[k] /\ (d > 0 => m % 2 = 0)
    <3>1. PICK m \in Nat \ {0} : Pow2[k + d] = m * Pow2[k] /\ (d > 0 => m % 2 = 0)
      BY Pow2Divides
    <3>2. QED
      BY <2>1, <3>1
  <2>3. PICK n \in Nat \ {0} : m = 2 * n
    BY <2>1, <2>2
  <2>4. PICK q \in Nat, c \in 0 .. n - 1 : h = q * n + c
    BY Division
  <2>5. \A x \in Nat \ {0} :
          /\ (2 * (q * n + c)) * x = q * ((2 * n) * x) + (2 * c) * x
          /\ (2 * (q * n + c) + 1) * x = q * ((2 * n) * x) + (2 * c + 1) * x
    OBVIOUS
  <2>6. \A x \in Nat \ {0} : /\ (2 * c) * x \in Nat /\ (2 * c) * x < (2 * n) * x
                             /\ (2 * c + 1) * x \in Nat /\ (2 * c + 1) * x < (2 * n) * x
    <3>1. \A y, z \in Nat : y < z => \A x \in Nat \ {0} : y * x \in Nat /\ y * x < z * x
      <4>1. ASSUME NEW y \in Nat, NEW z \in Nat, y < z, NEW x \in Nat \ {0}
            PROVE y * x \in Nat /\ y * x < z * x
        <5>1. PICK w \in Nat \ {0} : z = y + w
          <6>1. z - y \in Nat \ {0} /\ z = y + (z - y)
            BY <4>1
          <6>2. QED
            BY <6>1
        <5>2. (y + w) * x = y * x + w * x /\ w * x > 0 /\ y * x \in Nat /\ w * x \in Nat
          OBVIOUS
        <5>3. QED
          BY <5>1, <5>2
      <4>2. QED
        BY <4>1
    <3>2. 2 * c \in Nat /\ 2 * c + 1 \in Nat /\ 2 * n \in Nat /\ 2 * c < 2 * n /\ 2 * c + 1 < 2 * n
      OBVIOUS
    <3>3. QED
      BY <3>1, <3>2
  <2>7. /\ (2 * h) * Pow2[k] = q * Pow2[j] + (2 * c) * Pow2[k]
        /\ (2 * h + 1) * Pow2[k] = q * Pow2[j] + (2 * c + 1) * Pow2[k]
        /\ (2 * c) * Pow2[k] \in Nat /\ (2 * c) * Pow2[k] < Pow2[j]
        /\ (2 * c + 1) * Pow2[k] \in Nat /\ (2 * c + 1) * Pow2[k] < Pow2[j]
    BY <1>1, <2>2, <2>3, <2>4, <2>5, <2>6
  <2>8. PICK x, y \in Nat : x = (2 * c) * Pow2[k] /\ y = (2 * c + 1) * Pow2[k]
    BY <2>7
  <2>9. ((2 * h) * Pow2[k]) \div Pow2[j] = q
    BY <1>1, <1>2, <2>7, <2>8, Quotient
  <2>10. ((2 * h + 1) * Pow2[k]) \div Pow2[j] = q
    BY <1>1, <1>2, <2>7, <2>8, Quotient
  <2>11. QED
    BY <2>9, <2>10 DEF IsDigit
<1>5. QED
  BY <1>3, <1>4

LEMMA ShapePrefix ==
  ASSUME NEW r, NEW st, NEW e, NEW acc, Shape(r, st, e, acc), NEW i \in 0 .. r
  PROVE  Shape(i, st, e, acc)
<1>1. i \in Nat /\ \A k \in 1 .. i : k \in 1 .. r
  BY DEF Shape
<1>2. QED
  BY <1>1 DEF Shape

LEMMA DigitsAreRuns ==
  ASSUME NEW r, NEW st, NEW e, NEW acc, Shape(r, st, e, acc), NEW j \in Nat
  PROVE  IsDigit(st[r], j) <=> \E i \in 1 .. r : e[i] = j
<1> DEFINE S == {k \in 0 .. r : IsDigit(st[k], j) <=> \E i \in 1 .. k : e[i] = j}
<1>1. r \in Nat
  BY DEF Shape
<1>2. 0 \in S
  <2>1. st[0] = 0 /\ Pow2[j] \in Nat \ {0}
    BY Pow2Def DEF Shape
  <2>2. 0 \div Pow2[j] = 0
    <3>1. 0 = 0 * Pow2[j] + 0
      BY <2>1
    <3>2. QED
      BY <2>1, <3>1, Quotient
  <2>3. 0 % 2 # 1
    OBVIOUS
  <2>4. ~IsDigit(st[0], j)
    BY <2>1, <2>2, <2>3 DEF IsDigit
  <2>5. QED
    BY <1>1, <2>4
<1>3. ASSUME NEW k \in 1 .. r, k - 1 \in S PROVE k \in S
  <2>1. Shape(k, st, e, acc) /\ k # 0 /\ e[k] \in Nat
    <3>1. k \in 0 .. r /\ k # 0
      BY <1>1
    <3>2. QED
      BY <3>1, ShapePrefix DEF Shape
  <2>2. PICK h \in Nat : st[k - 1] = (2 * h) * Pow2[e[k]] /\ st[k] = (2 * h + 1) * Pow2[e[k]]
    BY <2>1, OddMultiple
  <2>3. IsDigit(st[k - 1], j) <=> \E i \in 1 .. k - 1 : e[i] = j
    BY <1>3
  <2>4. \A i \in 1 .. k : i = k \/ i \in 1 .. k - 1
    BY <1>1
  <2>5. \A i \in 1 .. k - 1 : i \in 1 .. k
    BY <1>1
  <2>6. k \in 1 .. k
    BY <1>1
  <2>7. CASE j = e[k]
    BY <2>1, <2>2, <2>6, <2>7, NewDigit
  <2>8. CASE j < e[k]
    <3>1. ~IsDigit(st[k], j) /\ ~IsDigit(st[k - 1], j)
      BY <2>1, <2>2, <2>8, NewDigit
    <3>2. QED
      BY <2>1, <2>3, <2>4, <2>8, <3>1
  <2>9. CASE j > e[k]
    <3>1. IsDigit(st[k], j) <=> IsDigit(st[k - 1], j)
      BY <2>1, <2>2, <2>9, NewDigit
    <3>2. QED
      BY <2>1, <2>3, <2>4, <2>5, <2>9, <3>1
  <2>10. QED
    BY <2>1, <2>7, <2>8, <2>9
<1>4. \A k \in 1 .. r : k - 1 \in S => k \in S
  BY <1>3
<1> HIDE DEF S
<1>5. \A k \in 0 .. r : k \in S
  BY <1>1, <1>2, <1>4, UpTo
<1>6. r \in S
  BY <1>1, <1>5
<1>7. QED
  BY <1>6 DEF S

\* Along a list that is a stretch of places.
LEMMA StretchPath ==
  ASSUME TypeOK, NEW s, Order(s, size, Nodes), NEW i \in Nat, NEW j \in Nat, i >= 1, i <= j, j <= size,
         ListOf(next, s, i, j)
  PROVE  Path(next, s[i]) = [k \in 0 .. size |-> IF k <= j - i THEN s[i + k] ELSE Null]
<1>0. size \in Nat /\ Null \notin Nodes
  BY DEF TypeOK, Null
<1>1. \A k \in i .. j : s[k] \in Nodes
  BY <1>0 DEF Order
<1>2. PICK w : w = [k \in 0 .. size |-> IF k <= j - i THEN s[i + k] ELSE Null]
  OBVIOUS
<1>3. PICK f : f = next
  OBVIOUS
<1>4. PICK x : x = s[i]
  OBVIOUS
<1>5. ASSUME NEW k \in 0 .. size
      PROVE w[k] = IF k = 0 THEN x ELSE IF w[k - 1] \in Nodes THEN f[w[k - 1]] ELSE Null
  <2>1. CASE k = 0
    BY <1>2, <1>4, <2>1
  <2>2. CASE k # 0
    <3>1. k - 1 \in 0 .. size
      BY <1>0, <2>2
    <3>2. CASE k <= j - i
      <4>1. i + (k - 1) \in i .. j - 1 /\ i + (k - 1) \in i .. j /\ i + k = (i + (k - 1)) + 1 /\ k - 1 <= j - i
        BY <2>2, <3>2
      <4>2. w[k - 1] = s[i + (k - 1)] /\ w[k] = s[(i + (k - 1)) + 1]
        BY <1>2, <3>1, <3>2, <4>1
      <4>3. next[s[i + (k - 1)]] = s[(i + (k - 1)) + 1] /\ s[i + (k - 1)] \in Nodes
        BY <1>1, <4>1 DEF ListOf
      <4>4. QED
        BY <1>3, <2>2, <4>2, <4>3
    <3>3. CASE k = j - i + 1
      <4>1. i + (k - 1) = j /\ j \in i .. j
        BY <3>3
      <4>2. w[k - 1] = s[j] /\ w[k] = Null
        BY <1>2, <3>1, <3>3, <4>1
      <4>3. next[s[j]] = Null
        BY DEF ListOf
      <4>4. QED
        BY <1>3, <1>1, <2>2, <4>1, <4>2, <4>3
    <3>4. CASE k > j - i + 1
      <4>1. w[k - 1] = Null /\ w[k] = Null
        BY <1>2, <3>1, <3>4
      <4>2. QED
        BY <1>0, <2>2, <4>1
    <3>5. QED
      BY <1>0, <3>2, <3>3, <3>4
  <2>3. QED
    BY <2>1, <2>2
<1>6. w = [k \in 0 .. size |-> w[k]]
  BY <1>2
<1>7. \A k \in 0 .. size : w[k] = IF k = 0 THEN x ELSE IF w[k - 1] \in Nodes THEN f[w[k - 1]] ELSE Null
  BY <1>5
<1>8. Follows(f, x, size, w) /\ Cardinality(Nodes) = size
  BY <1>0, <1>6, <1>7, OrderCounts DEF Follows
<1>9. Path(f, x) = w
  BY <1>0, <1>8, PathIs
<1>10. QED
  BY <1>2, <1>3, <1>4, <1>9

\* From run to run.
LEMMA HeadsPath ==
  ASSUME TypeOK, NEW s, Order(s, size, Nodes),
         NEW r, NEW st, NEW e, NEW acc, Shape(r, st, e, acc), r # 0, st[r] <= size,
         Held(next, prev, key, s, r, st)
  PROVE  Path(prev, HeadAt(s, st, r - 1))
           = [k \in 0 .. size |-> IF k < r THEN HeadAt(s, st, r - 1 - k) ELSE Null]
<1>1. /\ size \in Nat /\ Cardinality(Nodes) = size /\ Null \notin Nodes /\ r \in Nat /\ r >= 1
  BY OrderCounts DEF TypeOK, Null, Shape
<1>2. PICK w : w = [k \in 0 .. size |-> IF k < r THEN HeadAt(s, st, r - 1 - k) ELSE Null]
  OBVIOUS
<1>3. PICK f : f = prev
  OBVIOUS
<1>4. PICK x : x = HeadAt(s, st, r - 1)
  OBVIOUS
<1>5. ASSUME NEW i \in 1 .. r
      PROVE HeadAt(s, st, i) \in Nodes /\ prev[HeadAt(s, st, i)] = HeadAt(s, st, i - 1)
  <2>1. /\ i - 1 \in 0 .. r /\ i \in 0 .. r /\ st[i - 1] \in Nat /\ st[i] \in Nat
        /\ st[i - 1] < st[i] /\ st[i] <= st[r] /\ st[r] \in Nat
    <3>1. i - 1 \in 0 .. r /\ i \in 0 .. r /\ r \in 0 .. r
      BY <1>1
    <3>2. QED
      BY <3>1, ShapeBelow
  <2>2. st[i - 1] + 1 \in 1 .. size /\ HeadAt(s, st, i) = s[st[i - 1] + 1]
    BY <1>1, <2>1 DEF HeadAt
  <2>3. QED
    BY <2>2 DEF Order, Held, IsHeld
<1>6. HeadAt(s, st, 0) = Null
  BY DEF HeadAt
<1>7. ASSUME NEW k \in 0 .. size
      PROVE w[k] = IF k = 0 THEN x ELSE IF w[k - 1] \in Nodes THEN f[w[k - 1]] ELSE Null
  <2>1. CASE k = 0
    <3>1. r - 1 - 0 = r - 1
      BY <1>1
    <3>2. QED
      BY <1>1, <1>2, <1>4, <2>1, <3>1
  <2>2. CASE k # 0
    <3>1. k - 1 \in 0 .. size
      BY <1>1, <2>2
    <3>2. CASE k < r
      <4>1. r - 1 - (k - 1) = r - k /\ r - k \in 1 .. r /\ r - 1 - k = (r - k) - 1
        BY <1>1, <2>2, <3>2
      <4>2. w[k - 1] = HeadAt(s, st, r - k) /\ w[k] = HeadAt(s, st, (r - k) - 1)
        BY <1>1, <1>2, <3>1, <3>2, <4>1
      <4>3. QED
        BY <1>3, <1>5, <2>2, <4>1, <4>2
    <3>3. CASE k >= r
      <4>1. w[k] = Null
        BY <1>1, <1>2, <3>3
      <4>2. w[k - 1] = Null
        <5>1. CASE k = r
          <6>1. r - 1 - (k - 1) = 0 /\ k - 1 < r
            BY <1>1, <5>1
          <6>2. QED
            BY <1>2, <1>6, <3>1, <6>1
        <5>2. CASE k > r
          BY <1>1, <1>2, <3>1, <5>2
        <5>3. QED
          BY <1>1, <3>3, <5>1, <5>2
      <4>3. QED
        BY <1>1, <2>2, <4>1, <4>2
    <3>4. QED
      BY <1>1, <3>2, <3>3
  <2>3. QED
    BY <2>1, <2>2
<1>8. w = [k \in 0 .. size |-> w[k]]
  BY <1>2
<1>9. Follows(f, x, size, w)
  BY <1>7, <1>8 DEF Follows
<1>10. Path(f, x) = w
  BY <1>1, <1>9, PathIs
<1>11. QED
  BY <1>2, <1>3, <1>4, <1>10

\* There are no more runs than nodes in them.
LEMMA RunsFit ==
  ASSUME NEW r, NEW st, NEW e, NEW acc, Shape(r, st, e, acc), NEW i \in 0 .. r
  PROVE  i <= st[i] /\ (i # 0 => e[i] < st[i])
<1>1. r \in Nat /\ \A k \in 0 .. r : st[k] \in Nat
  BY DEF Shape
<1> DEFINE S == {k \in 0 .. r : k <= st[k]}
<1>2. 0 \in S
  BY <1>1
<1>3. ASSUME NEW k \in 1 .. r, k - 1 \in S PROVE k \in S
  <2>1. k - 1 <= st[k - 1] /\ st[k - 1] \in Nat /\ st[k] \in Nat /\ st[k - 1] < st[k]
    BY <1>1, <1>3, ShapeBelow
  <2>2. QED
    BY <1>1, <2>1
<1>4. \A k \in 1 .. r : k - 1 \in S => k \in S
  BY <1>3
<1> HIDE DEF S
<1>5. \A k \in 0 .. r : k \in S
  BY <1>1, <1>2, <1>4, UpTo
<1>6. ASSUME i # 0 PROVE e[i] < st[i]
  <2>1. i \in 1 .. r /\ i - 1 \in 0 .. r
    BY <1>1, <1>6
  <2>2. st[i] = st[i - 1] + Pow2[e[i]] /\ e[i] \in Nat /\ st[i - 1] \in Nat
    BY <1>1, <2>1 DEF Shape, IsRun
  <2>3. e[i] < Pow2[e[i]] /\ Pow2[e[i]] \in Nat
    BY <2>2, Pow2Grows, Pow2Def
  <2>4. QED
    BY <2>2, <2>3
<1>7. QED
  BY <1>5, <1>6 DEF S

LEMMA RunLength ==
  ASSUME TypeOK, NEW s, Order(s, size, Nodes), NEW i \in Nat, NEW j \in Nat, i >= 1, i <= j, j <= size,
         ListOf(next, s, i, j)
  PROVE  (CHOOSE k \in 1 .. size : Path(next, s[i])[k - 1] # Null /\ Path(next, s[i])[k] = Null) = j - i + 1
<1>1. PICK p : p = Path(next, s[i])
  OBVIOUS
<1>2. p = [k \in 0 .. size |-> IF k <= j - i THEN s[i + k] ELSE Null]
  BY <1>1, StretchPath
<1>3. size \in Nat /\ \A k \in 1 .. size : s[k] # Null
  BY DEF TypeOK, Order, Null
<1>4. \A k \in 0 .. size : p[k] # Null <=> k <= j - i
  <2>1. ASSUME NEW k \in 0 .. size PROVE p[k] # Null <=> k <= j - i
    <3>1. CASE k <= j - i
      <4>1. i + k \in 1 .. size
        BY <1>3, <3>1
      <4>2. QED
        BY <1>2, <1>3, <3>1, <4>1
    <3>2. CASE ~(k <= j - i)
      BY <1>2, <3>2
    <3>3. QED
      BY <3>1, <3>2
  <2>2. QED
    BY <2>1
<1>5. ASSUME NEW k \in 1 .. size PROVE (p[k - 1] # Null /\ p[k] = Null) <=> k = j - i + 1
  <2>1. k \in 0 .. size /\ k - 1 \in 0 .. size
    BY <1>3
  <2>2. (p[k - 1] # Null <=> k - 1 <= j - i) /\ (p[k] # Null <=> k <= j - i)
    BY <1>4, <2>1
  <2>3. QED
    BY <2>1, <2>2
<1>6. j - i + 1 \in 1 .. size
  BY <1>3
<1>7. (CHOOSE k \in 1 .. size : p[k - 1] # Null /\ p[k] = Null) = j - i + 1
  BY <1>5, <1>6
<1>8. QED
  BY <1>1, <1>7

(***************************************************************************)
(* When xlist_msort takes a node, the sorted runs in the links have the    *)
(* lengths that the digits of its counter stand for, the shortest latest:  *)
(* the test of a digit is the test whether two runs are of equal length.   *)
(***************************************************************************)
THEOREM RunsFollowDigits == Spec => []RunsAreDigits
<1> DEFINE Long(x) == CHOOSE k \in 1 .. size : Path(next, x)[k - 1] # Null /\ Path(next, x)[k] = Null
           runs == {pending} \cup Below
           Digits == {Pow2[k] : k \in {j \in 0 .. size : (count \div Pow2[j]) % 2 = 1}}
<1>1. ASSUME IInv, pc = "take", pending # Null
      PROVE  /\ {Long(x) : x \in runs} = Digits
             /\ \A x \in runs : prev[x] # Null => Long(x) < Long(prev[x])
  <2>1. PICK s, r, st, e, acc : TakeAt(s, r, st, e, acc)
    BY <1>1 DEF IInv, Taking
  <2>2. /\ TypeOK /\ Ghost(s, r, st, e, acc) /\ count = st[r] /\ pending = HeadAt(s, st, r)
    BY <1>1, <2>1 DEF IInv, TakeAt
  <2>3. /\ Order(s, size, Nodes) /\ Shape(r, st, e, acc) /\ Held(next, prev, key, s, r, st)
        /\ st[r] < size /\ size \in Nat /\ st[r] \in Nat /\ r \in Nat
        /\ \A k \in 1 .. size : s[k] \in Nodes /\ s[k] # Null
    BY <2>2, FoldFacts
  <2>4. r # 0 /\ r \in 1 .. r
    BY <1>1, <2>2, <2>3 DEF HeadAt
  <2>5. ASSUME NEW i \in 1 .. r
        PROVE /\ Shape(i, st, e, acc) /\ i # 0 /\ e[i] \in Nat /\ i - 1 \in 0 .. r
              /\ st[i - 1] \in Nat /\ st[i] \in Nat /\ st[i] <= size
              /\ st[i] = st[i - 1] + Pow2[e[i]] /\ Pow2[e[i]] \in Nat \ {0}
              /\ HeadAt(s, st, i) = s[st[i - 1] + 1] /\ HeadAt(s, st, i) \in Nodes
              /\ HeadAt(s, st, i) # Null /\ prev[HeadAt(s, st, i)] = HeadAt(s, st, i - 1)
              /\ ListOf(next, s, st[i - 1] + 1, st[i])
    <3>1. i \in 0 .. r /\ i # 0 /\ i - 1 \in 0 .. r
      BY <2>3
    <3>2. Shape(i, st, e, acc)
      BY <2>3, <3>1, ShapePrefix
    <3>3. e[i] \in Nat /\ st[i - 1] \in Nat /\ st[i] \in Nat /\ st[i] <= st[r] /\ IsRun(st, e, acc, i)
      <4>1. st[i] <= st[r]
        BY <2>3, <3>1, ShapeBelow
      <4>2. e[i] \in Nat /\ st[i - 1] \in Nat /\ st[i] \in Nat /\ IsRun(st, e, acc, i)
        BY <2>3, <3>1 DEF Shape
      <4>3. QED
        BY <4>1, <4>2
    <3>4. Pow2[e[i]] \in Nat \ {0} /\ st[i] = st[i - 1] + Pow2[e[i]]
      BY <3>3, Pow2Def DEF IsRun
    <3>5. st[i - 1] + 1 \in 1 .. size /\ HeadAt(s, st, i) = s[st[i - 1] + 1]
      BY <2>3, <3>1, <3>3, <3>4 DEF HeadAt
    <3>6. QED
      BY <2>3, <3>1, <3>2, <3>3, <3>4, <3>5 DEF Held, IsHeld
  <2>6. runs = {HeadAt(s, st, i) : i \in 1 .. r}
    <3>1. PICK p : p = Path(prev, prev[pending])
      OBVIOUS
    <3>2. prev[pending] = HeadAt(s, st, r - 1)
      BY <2>2, <2>4, <2>5
    <3>3. st[r] <= size
      BY <2>3
    <3>4. p = [k \in 0 .. size |-> IF k < r THEN HeadAt(s, st, r - 1 - k) ELSE Null]
      BY <2>2, <2>3, <2>4, <3>1, <3>2, <3>3, HeadsPath
    <3>5. Below = {p[k] : k \in DOMAIN p} \cap Nodes
      BY <3>1 DEF Below
    <3>6. HeadAt(s, st, 0) \notin Nodes /\ Null \notin Nodes
      BY <2>2 DEF HeadAt, TypeOK, Null
    <3>7. ASSUME NEW x \in Below PROVE \E i \in 1 .. r : x = HeadAt(s, st, i)
      <4>1. PICK k \in 0 .. size : x = p[k] /\ x \in Nodes
        BY <3>4, <3>5
      <4>2. k < r /\ x = HeadAt(s, st, r - 1 - k)
        BY <2>3, <3>4, <3>6, <4>1
      <4>3. r - 1 - k # 0
        BY <3>6, <4>1, <4>2
      <4>4. r - 1 - k \in 1 .. r
        BY <2>3, <4>2, <4>3
      <4>5. QED
        BY <4>2, <4>4
    <3>8. ASSUME NEW i \in 1 .. r, i # r PROVE HeadAt(s, st, i) \in Below
      <4>1. r - 1 - i \in 0 .. size /\ r - 1 - i < r /\ r - 1 - (r - 1 - i) = i
        <5>1. r <= st[r]
          <6>1. r \in 0 .. r
            BY <2>3
          <6>2. QED
            BY <2>3, <6>1, RunsFit
        <5>2. QED
          BY <2>3, <3>8, <5>1
      <4>2. p[r - 1 - i] = HeadAt(s, st, i)
        BY <3>4, <4>1
      <4>3. QED
        BY <2>5, <3>4, <3>5, <4>1, <4>2
    <3>9. QED
      BY <2>2, <2>4, <3>7, <3>8
  <2>7. ASSUME NEW i \in 1 .. r PROVE Long(HeadAt(s, st, i)) = Pow2[e[i]]
    <3>1. PICK y \in Nat, z \in Nat : y = st[i - 1] + 1 /\ z = st[i]
      BY <2>5
    <3>2. y >= 1 /\ y <= z /\ z <= size /\ z - y + 1 = Pow2[e[i]] /\ HeadAt(s, st, i) = s[y]
      BY <2>5, <3>1
    <3>3. ListOf(next, s, y, z)
      BY <2>5, <3>1
    <3>4. (CHOOSE k \in 1 .. size : Path(next, s[y])[k - 1] # Null /\ Path(next, s[y])[k] = Null) = z - y + 1
      BY <2>2, <2>3, <3>2, <3>3, RunLength
    <3>5. Long(s[y]) = z - y + 1
      BY <3>4
    <3> HIDE DEF Long
    <3>6. QED
      BY <3>2, <3>5
  <2>8. Digits = {Pow2[e[i]] : i \in 1 .. r}
    <3>1. \A j \in Nat : (count \div Pow2[j]) % 2 = 1 <=> \E i \in 1 .. r : e[i] = j
      BY <2>2, <2>3, DigitsAreRuns DEF IsDigit
    <3>2. ASSUME NEW i \in 1 .. r PROVE e[i] \in 0 .. size /\ (count \div Pow2[e[i]]) % 2 = 1
      <4>1. e[i] < st[i] /\ e[i] \in Nat /\ st[i] \in Nat /\ st[i] <= size
        <5>1. i \in 0 .. r /\ i # 0
          BY <2>3
        <5>2. QED
          BY <2>3, <2>5, <5>1, RunsFit
      <4>2. QED
        BY <2>3, <3>1, <4>1
    <3>3. \A j \in 0 .. size : j \in Nat
      BY <2>3
    <3>4. QED
      BY <3>1, <3>2, <3>3
  <2>9. ASSUME NEW i \in 1 .. r, prev[HeadAt(s, st, i)] # Null
        PROVE Long(HeadAt(s, st, i)) < Long(prev[HeadAt(s, st, i)])
    <3>1. prev[HeadAt(s, st, i)] = HeadAt(s, st, i - 1) /\ i - 1 \in 1 .. r
      <4>1. prev[HeadAt(s, st, i)] = HeadAt(s, st, i - 1) /\ i - 1 \in 0 .. r
        BY <2>5
      <4>2. i - 1 # 0
        BY <2>9, <4>1 DEF HeadAt
      <4>3. QED
        BY <2>3, <4>1, <4>2
    <3>2. Shape(i, st, e, acc) /\ i # 0
      BY <2>5
    <3>3. Shape(i - 1, st, e, acc) /\ i - 1 # 0 /\ e[i] \in Nat /\ e[i - 1] \in Nat
      BY <2>5, <3>1
    <3>4. PICK h \in Nat : st[i - 1] = (2 * h) * Pow2[e[i]]
      BY <3>2, OddMultiple
    <3>5. e[i] + 1 <= e[i - 1]
      BY <3>3, <3>4, Decreasing
    <3>6. Pow2[e[i]] < Pow2[e[i - 1]]
      <4>1. 2 * Pow2[e[i]] <= Pow2[e[i - 1]] /\ Pow2[e[i]] \in Nat \ {0} /\ Pow2[e[i - 1]] \in Nat
        BY <3>3, <3>5, Pow2Monotone, Pow2Def
      <4>2. QED
        BY <4>1
    <3> HIDE DEF Long
    <3>7. QED
      BY <2>7, <3>1, <3>6
  <2> HIDE DEF Long, runs, Digits
  <2>10. {Long(x) : x \in runs} = {Pow2[e[i]] : i \in 1 .. r}
    BY <2>6, <2>7
  <2>11. QED
    BY <2>6, <2>8, <2>9, <2>10
<1>2. IInv => RunsAreDigits
  BY <1>1 DEF RunsAreDigits
<1>3. QED
  BY <1>2, Inductive, PTL

-----------------------------------------------------------------------------
(* The place that an operation changes.                                    *)

LEMMA InsertSeq ==
  ASSUME NEW V \in Seq(Int), NEW p \in 0 .. Len(V), NEW v \in Int,
         NEW W \in Seq(Int), Len(W) = Len(V) + 1,
         \A k \in 1 .. p : W[k] = V[k], W[p + 1] = v,
         \A k \in p + 2 .. Len(V) + 1 : W[k] = V[k - 1]
  PROVE  W = SubSeq(V, 1, p) \o <<v>> \o SubSeq(V, p + 1, Len(V))
<1>1. Len(V) \in Nat /\ \A k \in 1 .. Len(V) : V[k] \in Int
  BY LenProperties, ElementOfSeq
<1>2. PICK A : A = SubSeq(V, 1, p)
  OBVIOUS
<1>3. A \in Seq(Int) /\ Len(A) = p /\ \A k \in 1 .. p : A[k] = V[k]
  <2>1. \A k \in 1 .. p : V[k] \in Int
    BY <1>1
  <2>2. p \in Int /\ 1 \in Int
    OBVIOUS
  <2>3. SubSeq(V, 1, p) \in Seq(Int) /\ Len(SubSeq(V, 1, p)) = (IF 1 <= p THEN p - 1 + 1 ELSE 0)
        /\ \A k \in 1 .. p - 1 + 1 : SubSeq(V, 1, p)[k] = V[1 + k - 1]
    BY <2>1, <2>2, SubSeqProperties
  <2>4. QED
    BY <1>1, <1>2, <2>3
<1>4. PICK B : B = SubSeq(V, p + 1, Len(V))
  OBVIOUS
<1>5. B \in Seq(Int) /\ Len(B) = Len(V) - p /\ \A k \in 1 .. Len(V) - p : B[k] = V[p + k]
  <2>1. PICK i, n \in Int : i = p + 1 /\ n = Len(V)
    BY <1>1
  <2>2. \A k \in i .. n : V[k] \in Int
    BY <1>1, <2>1
  <2>3. SubSeq(V, i, n) \in Seq(Int) /\ Len(SubSeq(V, i, n)) = (IF i <= n THEN n - i + 1 ELSE 0)
        /\ \A k \in 1 .. n - i + 1 : SubSeq(V, i, n)[k] = V[i + k - 1]
    BY <2>2, SubSeqProperties
  <2>4. QED
    BY <1>1, <1>4, <2>1, <2>3
<1>6. PICK O : O = <<v>>
  OBVIOUS
<1>7. O \in Seq(Int) /\ Len(O) = 1 /\ O[1] = v
  BY <1>6
<1>8. PICK C : C = A \o O
  OBVIOUS
<1>9. /\ C \in Seq(Int) /\ Len(C) = p + 1
      /\ \A k \in 1 .. p + 1 : C[k] = IF k <= p THEN A[k] ELSE O[k - p]
  <2>1. /\ A \o O \in Seq(Int) /\ Len(A \o O) = Len(A) + Len(O)
        /\ \A k \in 1 .. Len(A) + Len(O) :
             (A \o O)[k] = IF k <= Len(A) THEN A[k] ELSE O[k - Len(A)]
    BY <1>3, <1>7, ConcatProperties
  <2>2. QED
    BY <1>3, <1>7, <1>8, <2>1
<1>10. PICK D : D = C \o B
  OBVIOUS
<1>11. /\ D \in Seq(Int) /\ Len(D) = (p + 1) + (Len(V) - p)
       /\ \A k \in 1 .. (p + 1) + (Len(V) - p) : D[k] = IF k <= p + 1 THEN C[k] ELSE B[k - (p + 1)]
  <2>1. /\ C \o B \in Seq(Int) /\ Len(C \o B) = Len(C) + Len(B)
        /\ \A k \in 1 .. Len(C) + Len(B) :
             (C \o B)[k] = IF k <= Len(C) THEN C[k] ELSE B[k - Len(C)]
    BY <1>5, <1>9, ConcatProperties
  <2>2. QED
    BY <1>5, <1>9, <1>10, <2>1
<1>12. ASSUME NEW k \in 1 .. Len(W) PROVE D[k] = W[k]
  <2>1. CASE k <= p
    <3>1. k \in 1 .. p /\ k \in 1 .. p + 1 /\ k <= p + 1 /\ k \in 1 .. (p + 1) + (Len(V) - p)
      BY <1>1, <2>1
    <3>2. D[k] = C[k] /\ C[k] = A[k] /\ A[k] = V[k]
      BY <1>3, <1>9, <1>11, <2>1, <3>1
    <3>3. QED
      BY <3>1, <3>2
  <2>2. CASE k = p + 1
    <3>1. D[k] = C[k] /\ C[k] = O[1]
      BY <1>1, <1>9, <1>11, <2>2
    <3>2. QED
      BY <1>7, <2>2, <3>1
  <2>3. CASE k > p + 1
    <3>1. k - (p + 1) \in 1 .. Len(V) - p /\ p + (k - (p + 1)) = k - 1 /\ k \in p + 2 .. Len(V) + 1
      BY <1>1, <2>3
    <3>2. k \in 1 .. (p + 1) + (Len(V) - p) /\ ~(k <= p + 1)
      BY <1>1, <2>3
    <3>3. D[k] = B[k - (p + 1)]
      BY <1>11, <3>2
    <3>4. B[k - (p + 1)] = V[k - 1]
      BY <1>5, <3>1
    <3>5. QED
      BY <3>1, <3>3, <3>4
  <2>4. QED
    BY <1>1, <2>1, <2>2, <2>3
<1>13. Len(D) = Len(W)
  BY <1>1, <1>11
<1>14. D = W
  BY <1>11, <1>12, <1>13, SeqEqual
<1>15. QED
  BY <1>2, <1>4, <1>6, <1>8, <1>10, <1>14

LEMMA RemoveSeq ==
  ASSUME NEW V \in Seq(Int), NEW p \in 1 .. Len(V),
         NEW W \in Seq(Int), Len(W) = Len(V) - 1,
         \A k \in 1 .. p - 1 : W[k] = V[k],
         \A k \in p .. Len(V) - 1 : W[k] = V[k + 1]
  PROVE  W = SubSeq(V, 1, p - 1) \o SubSeq(V, p + 1, Len(V))
<1>1. Len(V) \in Nat /\ \A k \in 1 .. Len(V) : V[k] \in Int
  BY LenProperties, ElementOfSeq
<1>2. PICK A : A = SubSeq(V, 1, p - 1)
  OBVIOUS
<1>3. A \in Seq(Int) /\ Len(A) = p - 1 /\ \A k \in 1 .. p - 1 : A[k] = V[k]
  <2>1. PICK o \in Int : o = p - 1
    OBVIOUS
  <2>2. \A k \in 1 .. o : V[k] \in Int
    BY <1>1, <2>1
  <2>3. SubSeq(V, 1, o) \in Seq(Int) /\ Len(SubSeq(V, 1, o)) = (IF 1 <= o THEN o - 1 + 1 ELSE 0)
        /\ \A k \in 1 .. o - 1 + 1 : SubSeq(V, 1, o)[k] = V[1 + k - 1]
    BY <2>2, SubSeqProperties, 1 \in Int
  <2>4. QED
    BY <1>1, <1>2, <2>1, <2>3
<1>4. PICK B : B = SubSeq(V, p + 1, Len(V))
  OBVIOUS
<1>5. B \in Seq(Int) /\ Len(B) = Len(V) - p /\ \A k \in 1 .. Len(V) - p : B[k] = V[p + k]
  <2>1. PICK i, n \in Int : i = p + 1 /\ n = Len(V)
    BY <1>1
  <2>2. \A k \in i .. n : V[k] \in Int
    BY <1>1, <2>1
  <2>3. SubSeq(V, i, n) \in Seq(Int) /\ Len(SubSeq(V, i, n)) = (IF i <= n THEN n - i + 1 ELSE 0)
        /\ \A k \in 1 .. n - i + 1 : SubSeq(V, i, n)[k] = V[i + k - 1]
    BY <2>2, SubSeqProperties
  <2>4. QED
    BY <1>1, <1>4, <2>1, <2>3
<1>6. PICK D : D = A \o B
  OBVIOUS
<1>7. /\ D \in Seq(Int) /\ Len(D) = (p - 1) + (Len(V) - p)
      /\ \A k \in 1 .. (p - 1) + (Len(V) - p) : D[k] = IF k <= p - 1 THEN A[k] ELSE B[k - (p - 1)]
  <2>1. /\ A \o B \in Seq(Int) /\ Len(A \o B) = Len(A) + Len(B)
        /\ \A k \in 1 .. Len(A) + Len(B) :
             (A \o B)[k] = IF k <= Len(A) THEN A[k] ELSE B[k - Len(A)]
    BY <1>3, <1>5, ConcatProperties
  <2>2. QED
    BY <1>3, <1>5, <1>6, <2>1
<1>8. ASSUME NEW k \in 1 .. Len(W) PROVE D[k] = W[k]
  <2>1. CASE k <= p - 1
    <3>1. k \in 1 .. p - 1 /\ k \in 1 .. (p - 1) + (Len(V) - p)
      BY <1>1, <2>1
    <3>2. D[k] = A[k] /\ A[k] = V[k]
      BY <1>3, <1>7, <2>1, <3>1
    <3>3. QED
      BY <3>1, <3>2
  <2>2. CASE k > p - 1
    <3>1. k - (p - 1) \in 1 .. Len(V) - p /\ p + (k - (p - 1)) = k + 1 /\ k \in p .. Len(V) - 1
      BY <1>1, <2>2
    <3>2. k \in 1 .. (p - 1) + (Len(V) - p) /\ ~(k <= p - 1)
      BY <1>1, <2>2
    <3>3. D[k] = B[k - (p - 1)]
      BY <1>7, <3>2
    <3>4. B[k - (p - 1)] = V[k + 1]
      BY <1>5, <3>1
    <3>5. QED
      BY <3>1, <3>3, <3>4
  <2>3. QED
    BY <1>1, <2>1, <2>2
<1>9. Len(D) = Len(W)
  BY <1>1, <1>7
<1>10. D = W
  BY <1>7, <1>8, <1>9, SeqEqual
<1>11. QED
  BY <1>2, <1>4, <1>6, <1>10

\* The list as a sequence, with an arrangement of it.
LEMMA ValuesAll ==
  \A s : size \in Nat /\ Nodes \subseteq Nat \ {0} /\ Order(s, size, Nodes) /\ Circle(next, prev, s, size)
           => Values = [k \in 1 .. size |-> key[s[k]]]
  BY ValuesAre

LEMMA ValuesNext ==
  \A s : size' \in Nat /\ Nodes' \subseteq Nat \ {0}
         /\ Order(s, size', Nodes') /\ Circle(next', prev', s, size')
           => Values' = [k \in 1 .. size' |-> key'[s[k]]]
<1>1. (\A s : size \in Nat /\ Nodes \subseteq Nat \ {0} /\ Order(s, size, Nodes) /\ Circle(next, prev, s, size)
         => Values = [k \in 1 .. size |-> key[s[k]]])'
  BY ValuesAll, PTL
<1>2. QED
  BY <1>1

\* A sequence given place by place.
LEMMA IsSeq ==
  ASSUME NEW n \in Nat, NEW V, V \in [1 .. n -> Int]
  PROVE  V \in Seq(Int) /\ Len(V) = n /\ DOMAIN V = 1 .. n
  OBVIOUS

LEMMA ValuesSeq ==
  ASSUME TypeOK, NEW s, Order(s, size, Nodes), Circle(next, prev, s, size)
  PROVE  /\ Values \in Seq(Int) /\ Len(Values) = size /\ DOMAIN Values = 1 .. size
         /\ \A k \in 1 .. size : Values[k] = key[s[k]]
<1>1. size \in Nat /\ Values = [k \in 1 .. size |-> key[s[k]]]
  BY ValuesAll DEF TypeOK
<1>2. \A k \in 1 .. size : key[s[k]] \in Int
  BY DEF TypeOK, Order
<1>3. Values \in [1 .. size -> Int]
  BY <1>1, <1>2
<1>4. Values \in Seq(Int) /\ Len(Values) = size /\ DOMAIN Values = 1 .. size
  BY <1>1, <1>3, IsSeq
<1>5. QED
  BY <1>1, <1>4

LEMMA OffsetIs ==
  ASSUME TypeOK, NEW s, Order(s, size, Nodes), Circle(next, prev, s, size), NEW i \in 0 .. size
  PROVE  Offset(Place(s, size, i + 1)) = i
<1>1. size \in Nat /\ Nodes \subseteq Nat \ {0}
  BY DEF TypeOK
<1>2. PICK p : p = Path(next, next[ListHead])
  OBVIOUS
<1>3. p = [k \in 0 .. size |-> Place(s, size, k + 1)]
  BY <1>1, <1>2, CirclePath
<1>4. ASSUME NEW k \in 0 .. size, p[k] = Place(s, size, i + 1) PROVE k = i
  <2>1. k + 1 \in 1 .. size + 1 /\ i + 1 \in 1 .. size + 1
    BY <1>1
  <2>2. Place(s, size, k + 1) = Place(s, size, i + 1)
    BY <1>3, <1>4
  <2>3. PICK n, N : n = size /\ N = Nodes
    OBVIOUS
  <2>31. n \in Nat /\ N \subseteq Nat \ {0} /\ Order(s, n, N)
    BY <1>1, <2>3
  <2>32. /\ \A j, l \in 0 .. n : Place(s, n, j) = Place(s, n, l) => j = l
         /\ \A j, l \in 1 .. n + 1 : Place(s, n, j) = Place(s, n, l) => j = l
         /\ \A j \in 0 .. n + 1 : Place(s, n, j) \in N \cup {ListHead}
    BY <2>31, Places, Zenon
  <2>4. k + 1 = i + 1
    BY <2>1, <2>2, <2>3, <2>32
  <2>5. QED
    BY <1>1, <2>4
<1>5. (CHOOSE k \in DOMAIN p : p[k] = Place(s, size, i + 1)) = i
  BY <1>3, <1>4
<1>6. QED
  BY <1>2, <1>5 DEF Offset

LEMMA LinkedValues ==
  ASSUME TypeOK, NEW s, Order(s, size, Nodes), Circle(next, prev, s, size),
         NEW x, x \in Nat \ {0}, x \notin Nodes, NEW v \in Int,
         NEW i \in 0 .. size, LinkBefore(x, Place(s, size, i + 1)),
         key' = With(key, x, v), size' = size + 1
  PROVE  /\ Values' = SubSeq(Values, 1, i) \o <<v>> \o SubSeq(Values, i + 1, Len(Values))
         /\ i \in 0 .. Len(Values)
<1>1. PICK t : t = Inserted(s, size, i, x)
  OBVIOUS
<1>2. /\ Order(t, size', Nodes') /\ Circle(next', prev', t, size')
      /\ Nodes' \subseteq Nat \ {0} /\ key' \in [Nodes' -> Int] /\ size' \in Nat
  BY <1>1, LinkStep
<1>3. Values' = [k \in 1 .. size' |-> key'[t[k]]]
  BY <1>2, ValuesNext
<1>4. PICK W : W = Values'
  OBVIOUS
<1>5. W \in [1 .. size' -> Int] /\ \A k \in 1 .. size' : W[k] = key'[t[k]]
  <2>1. \A k \in 1 .. size' : key'[t[k]] \in Int
    BY <1>2 DEF Order
  <2>2. QED
    BY <1>3, <1>4, <2>1
<1>6. W \in Seq(Int) /\ Len(W) = size'
  BY <1>2, <1>5, IsSeq
<1>7. PICK V : V = Values
  OBVIOUS
<1>8. /\ V \in Seq(Int) /\ Len(V) = size /\ size \in Nat
      /\ \A k \in 1 .. size : V[k] = key[s[k]]
  BY <1>7, ValuesSeq DEF TypeOK
<1>9. \A y \in Nodes : y # x /\ key'[y] = key[y]
  BY DEF With, Nodes
<1>10. \A k \in 1 .. i : W[k] = V[k]
  <2>1. ASSUME NEW k \in 1 .. i PROVE W[k] = V[k]
    <3>1. k \in 1 .. size /\ k \in 1 .. size' /\ t[k] = s[k] /\ s[k] \in Nodes
      BY <1>1, <1>8 DEF Inserted, Order
    <3>2. W[k] = key'[s[k]] /\ V[k] = key[s[k]]
      <4>1. W[k] = key'[t[k]]
        BY <1>5, <3>1
      <4>2. V[k] = key[s[k]]
        BY <1>8, <3>1
      <4>3. QED
        BY <3>1, <4>1, <4>2
    <3>3. key'[s[k]] = key[s[k]]
      BY <1>9, <3>1
    <3>4. QED
      BY <3>2, <3>3
  <2>2. QED
    BY <2>1
<1>11. W[i + 1] = v
  <2>1. i + 1 \in 1 .. size' /\ t[i + 1] = x
    BY <1>1, <1>8 DEF Inserted
  <2>2. key'[x] = v
    BY DEF With
  <2>3. QED
    BY <1>5, <2>1, <2>2
<1>12. \A k \in i + 2 .. Len(V) + 1 : W[k] = V[k - 1]
  <2>1. ASSUME NEW k \in i + 2 .. Len(V) + 1 PROVE W[k] = V[k - 1]
    <3>1. k - 1 \in 1 .. size /\ k \in 1 .. size' /\ t[k] = s[k - 1] /\ s[k - 1] \in Nodes
      BY <1>1, <1>8 DEF Inserted, Order
    <3>2. W[k] = key'[s[k - 1]] /\ V[k - 1] = key[s[k - 1]]
      <4>1. W[k] = key'[t[k]]
        BY <1>5, <3>1
      <4>2. V[k - 1] = key[s[k - 1]]
        BY <1>8, <3>1
      <4>3. QED
        BY <3>1, <4>1, <4>2
    <3>3. key'[s[k - 1]] = key[s[k - 1]]
      BY <1>9, <3>1
    <3>4. QED
      BY <3>2, <3>3
  <2>2. QED
    BY <2>1
<1>13. Len(W) = Len(V) + 1 /\ i \in 0 .. Len(V)
  BY <1>6, <1>8
<1>14. W = SubSeq(V, 1, i) \o <<v>> \o SubSeq(V, i + 1, Len(V))
  BY <1>6, <1>8, <1>10, <1>11, <1>12, <1>13, InsertSeq
<1>15. QED
  BY <1>4, <1>7, <1>13, <1>14

\* The links of the other nodes lead past x.
LeadPast(x) ==
  \A y \in (Nodes \cup {ListHead}) \ {x} : next'[y] = NextWithout(x)[y] /\ prev'[y] = PrevWithout(x)[y]

LEMMA UnlinkedValues ==
  ASSUME TypeOK, NEW s, Order(s, size, Nodes), Circle(next, prev, s, size),
         NEW i \in 1 .. size, NEW x, x = s[i], LeadPast(x),
         key' = Without(key, {x}), size' = size - 1
  PROVE  /\ Values' = SubSeq(Values, 1, i - 1) \o SubSeq(Values, i + 1, Len(Values))
         /\ i \in DOMAIN Values /\ Values[i] = key[x] /\ Offset(x) + 1 = i
<1>1. PICK t : t = Removed(s, size, i)
  OBVIOUS
<1>2. /\ Order(t, size', Nodes') /\ Circle(next', prev', t, size')
      /\ Nodes' = Nodes \ {x} /\ key' \in [Nodes' -> Int] /\ size' \in Nat
  BY <1>1, UnlinkStep DEF LeadPast
<1>3. Values' = [k \in 1 .. size' |-> key'[t[k]]]
  <2>1. Nodes' \subseteq Nat \ {0}
    BY <1>2 DEF TypeOK
  <2>2. QED
    BY <1>2, <2>1, ValuesNext
<1>4. PICK W : W = Values'
  OBVIOUS
<1>5. W \in [1 .. size' -> Int] /\ \A k \in 1 .. size' : W[k] = key'[t[k]]
  <2>1. \A k \in 1 .. size' : key'[t[k]] \in Int
    BY <1>2 DEF Order
  <2>2. QED
    BY <1>3, <1>4, <2>1
<1>6. W \in Seq(Int) /\ Len(W) = size'
  BY <1>2, <1>5, IsSeq
<1>7. PICK V : V = Values
  OBVIOUS
<1>8. /\ V \in Seq(Int) /\ Len(V) = size /\ size \in Nat /\ DOMAIN V = 1 .. size
      /\ \A k \in 1 .. size : V[k] = key[s[k]]
  BY <1>7, ValuesSeq DEF TypeOK
<1>9. \A k \in 1 .. size : k # i => s[k] \in Nodes /\ s[k] # x /\ key'[s[k]] = key[s[k]]
  BY DEF Without, Restrict, Order, Nodes
<1>10. \A k \in 1 .. i - 1 : W[k] = V[k]
  <2>1. ASSUME NEW k \in 1 .. i - 1 PROVE W[k] = V[k]
    <3>1. k \in 1 .. size /\ k # i /\ k \in 1 .. size' /\ t[k] = s[k]
      BY <1>1, <1>8 DEF Removed
    <3>2. W[k] = key'[s[k]] /\ V[k] = key[s[k]]
      <4>1. W[k] = key'[t[k]]
        BY <1>5, <3>1
      <4>2. V[k] = key[s[k]]
        BY <1>8, <3>1
      <4>3. QED
        BY <3>1, <4>1, <4>2
    <3>3. key'[s[k]] = key[s[k]]
      BY <1>9, <3>1
    <3>4. QED
      BY <3>2, <3>3
  <2>2. QED
    BY <2>1
<1>11. \A k \in i .. Len(V) - 1 : W[k] = V[k + 1]
  <2>1. ASSUME NEW k \in i .. Len(V) - 1 PROVE W[k] = V[k + 1]
    <3>1. k + 1 \in 1 .. size /\ k + 1 # i /\ k \in 1 .. size' /\ t[k] = s[k + 1]
      BY <1>1, <1>8 DEF Removed
    <3>2. W[k] = key'[s[k + 1]] /\ V[k + 1] = key[s[k + 1]]
      <4>1. W[k] = key'[t[k]]
        BY <1>5, <3>1
      <4>2. V[k + 1] = key[s[k + 1]]
        BY <1>8, <3>1
      <4>3. QED
        BY <3>1, <4>1, <4>2
    <3>3. key'[s[k + 1]] = key[s[k + 1]]
      BY <1>9, <3>1
    <3>4. QED
      BY <3>2, <3>3
  <2>2. QED
    BY <2>1
<1>12. Len(W) = Len(V) - 1 /\ i \in 1 .. Len(V)
  BY <1>6, <1>8
<1>13. W = SubSeq(V, 1, i - 1) \o SubSeq(V, i + 1, Len(V))
  BY <1>6, <1>8, <1>10, <1>11, <1>12, RemoveSeq
<1>14. Offset(x) + 1 = i
  <2>1. PICK o \in 0 .. size : o = i - 1 /\ o + 1 = i
    BY <1>8
  <2>2. Place(s, size, o + 1) = x
    BY <1>8, <2>1 DEF Place
  <2>3. Offset(Place(s, size, o + 1)) = o
    BY OffsetIs
  <2>4. QED
    BY <2>1, <2>2, <2>3
<1>15. i \in DOMAIN V /\ V[i] = key[x]
  BY <1>8
<1>16. QED
  BY <1>4, <1>7, <1>13, <1>14, <1>15

-----------------------------------------------------------------------------
(* What the operations do to the list as a sequence.                       *)

LEMMA InsertedBefore ==
  ASSUME TypeOK, Resting, Operates, NEW iter \in Iterators,
         NEW x, x \in Nat \ {0}, x \notin Nodes, NEW v \in Int,
         LinkBefore(x, iter), key' = With(key, x, v), size' = size + 1
  PROVE  Abstract!InsertAt(Offset(iter), v) /\ Offset(iter) \in 0 .. Len(Values)
<1>1. PICK s : Order(s, size, Nodes) /\ Circle(next, prev, s, size)
  BY DEF Resting
<1>2. PICK i \in 0 .. size : Place(s, size, i + 1) = iter
  BY <1>1, PlaceOf DEF Iterators, TypeOK
<1>3. Offset(iter) = i
  BY <1>1, <1>2, OffsetIs
<1>4. /\ Values' = SubSeq(Values, 1, i) \o <<v>> \o SubSeq(Values, i + 1, Len(Values))
      /\ i \in 0 .. Len(Values)
  BY <1>1, <1>2, LinkedValues
<1>5. pc = "idle" /\ pc' = "idle"
  BY StaysAtRest DEF Resting
<1>6. QED
  BY <1>3, <1>4, <1>5 DEF Abstract!InsertAt

LEMMA TakenOut ==
  ASSUME TypeOK, Resting, NEW x \in Nodes, Erase(x) \/ Cut(x)
  PROVE  /\ Abstract!RemoveAt(Offset(x) + 1)
         /\ Offset(x) + 1 \in DOMAIN Values /\ Values[Offset(x) + 1] = key[x]
<1>1. PICK s : Order(s, size, Nodes) /\ Circle(next, prev, s, size)
  BY DEF Resting
<1>2. Operates /\ key' = Without(key, {x}) /\ size' = size - 1
  BY DEF Erase, Cut
<1>3. DOMAIN NextWithout(x) = DOMAIN next /\ DOMAIN PrevWithout(x) = DOMAIN prev
  BY DEF NextWithout, PrevWithout
<1>4. DOMAIN next = Nodes \cup {ListHead} \cup DOMAIN cut /\ DOMAIN prev = Nodes \cup {ListHead} \cup DOMAIN cut
  BY DEF TypeOK, Iterators
<1>5. LeadPast(x)
  <2>1. CASE Erase(x)
    <3>1. next' = Without(NextWithout(x), {x}) /\ prev' = Without(PrevWithout(x), {x})
      BY <2>1 DEF Erase
    <3>2. QED
      BY <1>3, <1>4, <3>1, WithoutIs DEF LeadPast
  <2>2. CASE Cut(x)
    BY <2>2 DEF Cut, LeadPast
  <2>3. QED
    BY <2>1, <2>2
<1>6. PICK i \in 1 .. size : x = s[i]
  BY <1>1 DEF Order
<1>7. /\ Values' = SubSeq(Values, 1, i - 1) \o SubSeq(Values, i + 1, Len(Values))
      /\ i \in DOMAIN Values /\ Values[i] = key[x] /\ Offset(x) + 1 = i
  BY <1>1, <1>2, <1>5, <1>6, UnlinkedValues
<1>8. pc = "idle" /\ pc' = "idle"
  BY <1>2, StaysAtRest DEF Resting
<1>9. QED
  BY <1>7, <1>8 DEF Abstract!RemoveAt

(***************************************************************************)
(* An insertion goes directly before the given iterator and an erasure or  *)
(* a cut takes out exactly the given node: xlist_insert, xlist_paste,      *)
(* xlist_erase and xlist_cut of xlist.c.                                   *)
(***************************************************************************)
THEOREM OperationsAtIterator == Spec => AtIterator
<1> DEFINE Places_ ==
      /\ \A iter \in Iterators :
           /\ \A x \in Addr, v \in Keys : Insert(iter, x, v) => Abstract!InsertAt(Offset(iter), v)
           /\ \A x \in DOMAIN cut : Paste(iter, x) => Abstract!InsertAt(Offset(iter), cut[x])
      /\ \A x \in Nodes : Erase(x) \/ Cut(x) => Abstract!RemoveAt(Offset(x) + 1)
<1>1. ASSUME IInv PROVE Places_
  <2>1. ASSUME NEW iter \in Iterators, NEW x \in Addr, NEW v \in Keys, Insert(iter, x, v)
        PROVE  Abstract!InsertAt(Offset(iter), v)
    <3>1. /\ Operates /\ x \notin Nodes /\ LinkBefore(x, iter)
          /\ key' = With(key, x, v) /\ size' = size + 1
      BY <2>1 DEF Insert
    <3>2. x \in Nat \ {0} /\ v \in Int
      BY XListAssumption
    <3>3. TypeOK /\ Resting
      BY <1>1, <3>1 DEF IInv, Operates
    <3>4. QED
      BY <3>1, <3>2, <3>3, InsertedBefore
  <2>2. ASSUME NEW iter \in Iterators, NEW x \in DOMAIN cut, Paste(iter, x)
        PROVE  Abstract!InsertAt(Offset(iter), cut[x])
    <3>1. /\ Operates /\ LinkBefore(x, iter)
          /\ key' = With(key, x, cut[x]) /\ size' = size + 1
      BY <2>2 DEF Paste
    <3>2. TypeOK /\ Resting
      BY <1>1, <3>1 DEF IInv, Operates
    <3>3. x \in Nat \ {0} /\ cut[x] \in Int /\ x \notin Nodes
      BY <3>2 DEF TypeOK
    <3>4. QED
      BY <3>1, <3>2, <3>3, InsertedBefore
  <2>3. ASSUME NEW x \in Nodes, Erase(x) \/ Cut(x)
        PROVE  Abstract!RemoveAt(Offset(x) + 1)
    <3>1. TypeOK /\ Resting
      BY <1>1, <2>3 DEF IInv, Operates, Erase, Cut
    <3>2. QED
      BY <2>3, <3>1, TakenOut
  <2>4. QED
    BY <2>1, <2>2, <2>3
<1>2. IInv => [Places_]_xvars
  BY <1>1
<1>3. QED
  BY <1>2, Inductive, PTL DEF AtIterator

-----------------------------------------------------------------------------
(* The bag of the values that are kept aside.                              *)

At(c, v) == {x \in DOMAIN c : c[x] = v}
BagOf(c) == [v \in Range(c) |-> Cardinality(At(c, v))]

OneMore(B, v) ==
  [e \in DOMAIN B \cup {v} |-> (IF e \in DOMAIN B THEN B[e] ELSE 0) + (IF e = v THEN 1 ELSE 0)]
OneLess(B, v) ==
  [e \in {d \in DOMAIN B : B[d] > (IF d = v THEN 1 ELSE 0)} |-> B[e] - (IF e = v THEN 1 ELSE 0)]

LEMMA BagType ==
  ASSUME NEW c, IsFiniteSet(DOMAIN c)
  PROVE  \A v : /\ IsFiniteSet(At(c, v)) /\ Cardinality(At(c, v)) \in Nat
                /\ (v \in Range(c) <=> Cardinality(At(c, v)) # 0)
                /\ v \notin Range(c) => At(c, v) = {}
<1> TAKE v
<1>1. IsFiniteSet(At(c, v)) /\ Cardinality(At(c, v)) \in Nat
  BY FS_Subset, FS_CardinalityType DEF At
<1>2. v \in Range(c) <=> At(c, v) # {}
  BY DEF Range, At
<1>3. QED
  BY <1>1, <1>2, FS_EmptySet

LEMMA BagGrows ==
  ASSUME NEW c, IsFiniteSet(DOMAIN c), NEW x, x \notin DOMAIN c, NEW v
  PROVE  BagOf(With(c, x, v)) = OneMore(BagOf(c), v)
<1>1. PICK d : d = With(c, x, v)
  OBVIOUS
<1>2. DOMAIN d = DOMAIN c \cup {x} /\ d[x] = v /\ \A y \in DOMAIN c : d[y] = c[y]
  BY <1>1 DEF With
<1>3. Range(d) = Range(c) \cup {v}
  BY <1>2 DEF Range
<1>4. ASSUME NEW e \in Range(d)
      PROVE  Cardinality(At(d, e))
               = (IF e \in Range(c) THEN Cardinality(At(c, e)) ELSE 0) + (IF e = v THEN 1 ELSE 0)
  <2>1. IsFiniteSet(At(c, e)) /\ Cardinality(At(c, e)) \in Nat
        /\ (e \notin Range(c) => Cardinality(At(c, e)) = 0)
    BY BagType
  <2>2. CASE e = v
    <3>1. At(d, e) = At(c, e) \cup {x} /\ x \notin At(c, e)
      BY <1>2, <2>2 DEF At
    <3>2. Cardinality(At(d, e)) = Cardinality(At(c, e)) + 1
      BY <2>1, <3>1, FS_AddElement
    <3>3. QED
      BY <2>1, <2>2, <3>2
  <2>3. CASE e # v
    <3>1. At(d, e) = At(c, e)
      BY <1>2, <2>3 DEF At
    <3>2. QED
      BY <2>1, <2>3, <3>1
  <2>4. QED
    BY <2>2, <2>3
<1>5. BagOf(d) = OneMore(BagOf(c), v)
  <2>1. DOMAIN BagOf(c) = Range(c) /\ \A e \in Range(c) : BagOf(c)[e] = Cardinality(At(c, e))
    BY DEF BagOf
  <2>2. BagOf(d) = [e \in Range(d) |-> Cardinality(At(d, e))]
    BY DEF BagOf
  <2>3. OneMore(BagOf(c), v)
          = [e \in Range(d) |-> (IF e \in Range(c) THEN Cardinality(At(c, e)) ELSE 0) + (IF e = v THEN 1 ELSE 0)]
    BY <1>3, <2>1 DEF OneMore
  <2>4. QED
    BY <1>4, <2>2, <2>3
<1>6. QED
  BY <1>1, <1>5

LEMMA BagShrinks ==
  ASSUME NEW c, IsFiniteSet(DOMAIN c), NEW x \in DOMAIN c
  PROVE  BagOf(Without(c, {x})) = OneLess(BagOf(c), c[x]) /\ c[x] \in DOMAIN BagOf(c)
<1>1. PICK d, v : d = Without(c, {x}) /\ v = c[x]
  OBVIOUS
<1>2. DOMAIN d = DOMAIN c \ {x} /\ \A y \in DOMAIN d : d[y] = c[y]
  BY <1>1 DEF Without, Restrict
<1>3. IsFiniteSet(DOMAIN d)
  BY <1>2, FS_RemoveElement
<1>4. ASSUME NEW e
      PROVE  Cardinality(At(d, e)) = Cardinality(At(c, e)) - (IF e = v THEN 1 ELSE 0)
  <2>1. IsFiniteSet(At(c, e)) /\ Cardinality(At(c, e)) \in Nat
    BY BagType
  <2>2. CASE e = v
    <3>1. At(d, e) = At(c, e) \ {x} /\ x \in At(c, e)
      BY <1>1, <1>2, <2>2 DEF At
    <3>2. Cardinality(At(d, e)) = Cardinality(At(c, e)) - 1
      BY <2>1, <3>1, FS_RemoveElement
    <3>3. QED
      BY <2>2, <3>2
  <2>3. CASE e # v
    <3>1. At(d, e) = At(c, e)
      BY <1>1, <1>2, <2>3 DEF At
    <3>2. QED
      BY <2>1, <2>3, <3>1
  <2>4. QED
    BY <2>2, <2>3
<1>5. v \in Range(c)
  BY <1>1 DEF Range
<1>6. Range(d) = {e \in Range(c) : Cardinality(At(c, e)) > (IF e = v THEN 1 ELSE 0)}
  <2>1. Range(d) \subseteq Range(c)
    BY <1>2 DEF Range
  <2>2. ASSUME NEW e \in Range(c)
        PROVE  e \in Range(d) <=> Cardinality(At(c, e)) > (IF e = v THEN 1 ELSE 0)
    <3>1. Cardinality(At(d, e)) \in Nat /\ (e \in Range(d) <=> Cardinality(At(d, e)) # 0)
      BY <1>3, BagType
    <3>2. Cardinality(At(c, e)) \in Nat
      BY BagType
    <3>3. QED
      BY <1>4, <3>1, <3>2
  <2>3. QED
    BY <2>1, <2>2
<1>7. BagOf(d) = OneLess(BagOf(c), v)
  <2>1. DOMAIN BagOf(c) = Range(c) /\ \A e \in Range(c) : BagOf(c)[e] = Cardinality(At(c, e))
    BY DEF BagOf
  <2>2. BagOf(d) = [e \in Range(d) |-> Cardinality(At(d, e))]
    BY DEF BagOf
  <2>3. {e \in DOMAIN BagOf(c) : BagOf(c)[e] > (IF e = v THEN 1 ELSE 0)} = Range(d)
    BY <1>6, <2>1
  <2>4. OneLess(BagOf(c), v) = [e \in Range(d) |-> BagOf(c)[e] - (IF e = v THEN 1 ELSE 0)]
    BY <2>3 DEF OneLess
  <2>5. \A e \in Range(d) : Cardinality(At(d, e)) = BagOf(c)[e] - (IF e = v THEN 1 ELSE 0)
    BY <1>4, <1>6, <2>1
  <2>6. QED
    BY <2>2, <2>4, <2>5
<1>8. QED
  BY <1>1, <1>5, <1>7 DEF BagOf

\* How often a value occurs does not depend on the arrangement.
PlacesOf(K, s, n, v) == {q \in 1 .. n : K[s[q]] = v}
NodesOf(K, N, v) == {x \in N : K[x] = v}

LEMMA CountIs ==
  ASSUME NEW n \in Nat, NEW N, NEW s, Order(s, n, N), NEW K, NEW v
  PROVE  Cardinality(PlacesOf(K, s, n, v)) = Cardinality(NodesOf(K, N, v))
<1> DEFINE Q == {q \in 1 .. n : K[s[q]] = v}
           X == {x \in N : K[x] = v}
           f == [q \in Q |-> s[q]]
<1>1. \A q \in Q : q \in 1 .. n /\ s[q] \in N /\ f[q] = s[q] /\ s[q] \in X
  BY DEF Order
<1>2. \A x \in X : \E q \in Q : f[q] = x
  BY DEF Order
<1>3. \A q, r \in Q : f[q] = f[r] => q = r
  BY DEF Order
<1>4. f \in Bijection(Q, X)
  <2>1. f \in [Q -> X]
    BY <1>1
  <2> HIDE DEF f, Q, X
  <2>2. QED
    BY <1>2, <1>3, <2>1 DEF Bijection, Injection, Surjection, IsInjective
<1>5. IsFiniteSet(Q)
  <2>1. Q \in SUBSET (1 .. n) /\ IsFiniteSet(1 .. n)
    BY FS_Interval
  <2> HIDE DEF Q
  <2>2. QED
    BY <2>1, FS_Subset
<1> HIDE DEF f, Q, X
<1>6. Cardinality(X) = Cardinality(Q)
  <2>1. ExistsBijection(Q, X)
    BY <1>4 DEF ExistsBijection
  <2>2. QED
    BY <1>5, <2>1, FS_Bijection
<1>7. QED
  BY <1>6 DEF Q, X, PlacesOf, NodesOf

-----------------------------------------------------------------------------
(* The list implements the sequence of ListSpec.                           *)

Items == IF pc \in {"idle", "done"} THEN Values ELSE before
Kept == [v \in Range(cut) |-> Cardinality({x \in DOMAIN cut : cut[x] = v})]

LEMMA AddedIs ==
  ASSUME NEW B, NEW v
  PROVE  Abstract!(+)(B, Abstract!One(v)) = OneMore(B, v)
<1>1. PICK C : C = [e \in {v} |-> 1]
  OBVIOUS
<1>2. Abstract!One(v) = C
  BY <1>1 DEF Abstract!One, Abstract!SetToBag
<1>3. DOMAIN C = {v} /\ \A e \in {v} : C[e] = 1
  BY <1>1
<1>4. Abstract!(+)(B, C)
        = [e \in DOMAIN B \cup {v} |-> (IF e \in DOMAIN B THEN B[e] ELSE 0) + (IF e = v THEN 1 ELSE 0)]
  BY <1>3 DEF Abstract!(+)
<1>5. QED
  BY <1>2, <1>4 DEF OneMore

LEMMA TakenIs ==
  ASSUME NEW B, B \in [DOMAIN B -> Nat], NEW v
  PROVE  Abstract!(-)(B, Abstract!One(v)) = OneLess(B, v)
<1>1. PICK C : C = [e \in {v} |-> 1]
  OBVIOUS
<1>2. Abstract!One(v) = C
  BY <1>1 DEF Abstract!One, Abstract!SetToBag
<1>3. DOMAIN C = {v} /\ \A e \in {v} : C[e] = 1
  BY <1>1
<1>4. PICK D : D = [e \in DOMAIN B |-> IF e \in DOMAIN C THEN B[e] - C[e] ELSE B[e]]
  OBVIOUS
<1>5. DOMAIN D = DOMAIN B /\ \A e \in DOMAIN B : D[e] = B[e] - (IF e = v THEN 1 ELSE 0)
  BY <1>3, <1>4
<1>6. Abstract!(-)(B, C) = [e \in {d \in DOMAIN D : D[d] > 0} |-> D[e]]
  BY <1>4 DEF Abstract!(-)
<1>7. {d \in DOMAIN D : D[d] > 0} = {d \in DOMAIN B : B[d] > (IF d = v THEN 1 ELSE 0)}
  BY <1>5
<1>8. QED
  BY <1>2, <1>5, <1>6, <1>7 DEF OneLess

LEMMA KeptIs == Kept = BagOf(cut)
  BY DEF Kept, BagOf, At

LEMMA ItemsAre ==
  ASSUME TypeOK, Resting, Operates
  PROVE  /\ Items = Values /\ Items' = Values'
         /\ Values \in Seq(Int)
<1>1. pc = "idle" /\ pc' = "idle"
  BY StaysAtRest DEF Resting
<1>2. PICK s : Order(s, size, Nodes) /\ Circle(next, prev, s, size)
  BY DEF Resting
<1>3. QED
  BY <1>1, <1>2, ValuesSeq DEF Items

LEMMA InsertImplements ==
  ASSUME TypeOK, Resting, NEW iter \in Iterators, NEW x \in Addr, NEW v \in Keys, Insert(iter, x, v)
  PROVE  Abstract!Insert
<1>1. /\ Operates /\ x \notin Nodes /\ LinkBefore(x, iter)
      /\ key' = With(key, x, v) /\ size' = size + 1 /\ cut' = cut
  BY DEF Insert
<1>2. x \in Nat \ {0} /\ v \in Int
  BY XListAssumption
<1>3. Abstract!InsertAt(Offset(iter), v) /\ Offset(iter) \in 0 .. Len(Values)
  BY <1>1, <1>2, InsertedBefore
<1>4. Items = Values
  BY <1>1, ItemsAre
<1>5. Kept' = Kept
  BY <1>1 DEF Kept
<1>6. QED
  BY <1>3, <1>4, <1>5 DEF Abstract!Insert, Items, Kept

LEMMA PasteImplements ==
  ASSUME TypeOK, Resting, NEW iter \in Iterators, NEW x \in DOMAIN cut, Paste(iter, x)
  PROVE  Abstract!Paste
<1>1. /\ Operates /\ LinkBefore(x, iter)
      /\ key' = With(key, x, cut[x]) /\ size' = size + 1 /\ cut' = Without(cut, {x})
  BY DEF Paste
<1>2. x \in Nat \ {0} /\ cut[x] \in Int /\ x \notin Nodes /\ IsFiniteSet(DOMAIN cut)
  BY DEF TypeOK
<1>3. Abstract!InsertAt(Offset(iter), cut[x]) /\ Offset(iter) \in 0 .. Len(Values)
  BY <1>1, <1>2, InsertedBefore
<1>4. Items = Values
  BY <1>1, ItemsAre
<1>5. BagOf(Without(cut, {x})) = OneLess(BagOf(cut), cut[x]) /\ cut[x] \in DOMAIN BagOf(cut)
  BY <1>2, BagShrinks
<1>6. Kept' = OneLess(Kept, cut[x]) /\ cut[x] \in DOMAIN Kept
  <2>1. Kept' = BagOf(cut')
    BY DEF Kept, BagOf, At
  <2>2. QED
    BY <1>1, <1>5, <2>1, KeptIs
<1>7. Kept \in [DOMAIN Kept -> Nat]
  BY <1>2, BagType, KeptIs DEF BagOf
<1>8. Kept' = Abstract!(-)(Kept, Abstract!One(cut[x]))
  BY <1>6, <1>7, TakenIs
<1>9. QED
  BY <1>3, <1>4, <1>6, <1>8 DEF Abstract!Paste, Items, Kept

LEMMA EraseImplements ==
  ASSUME TypeOK, Resting, NEW x \in Nodes, Erase(x)
  PROVE  Abstract!Erase
<1>1. Operates /\ cut' = cut
  BY DEF Erase
<1>2. Abstract!RemoveAt(Offset(x) + 1) /\ Offset(x) + 1 \in DOMAIN Values
  BY TakenOut
<1>3. Items = Values
  BY <1>1, ItemsAre
<1>4. Kept' = Kept
  BY <1>1 DEF Kept
<1>5. QED
  BY <1>2, <1>3, <1>4 DEF Abstract!Erase, Items, Kept

LEMMA CutImplements ==
  ASSUME TypeOK, Resting, NEW x \in Nodes, Cut(x)
  PROVE  Abstract!Cut
<1>1. Operates /\ cut' = With(cut, x, key[x])
  BY DEF Cut
<1>2. Abstract!RemoveAt(Offset(x) + 1) /\ Offset(x) + 1 \in DOMAIN Values /\ Values[Offset(x) + 1] = key[x]
  BY TakenOut
<1>3. Items = Values
  BY <1>1, ItemsAre
<1>4. IsFiniteSet(DOMAIN cut) /\ x \notin DOMAIN cut
  BY DEF TypeOK
<1>5. Kept' = OneMore(Kept, key[x])
  <2>1. Kept' = BagOf(cut')
    BY DEF Kept, BagOf, At
  <2>2. BagOf(With(cut, x, key[x])) = OneMore(BagOf(cut), key[x])
    BY <1>4, BagGrows
  <2>3. QED
    BY <1>1, <2>1, <2>2, KeptIs
<1>6. Kept' = Abstract!(+)(Kept, Abstract!One(key[x]))
  BY <1>5, AddedIs
<1>7. QED
  BY <1>2, <1>3, <1>6 DEF Abstract!Cut, Items, Kept

LEMMA CutFreeImplements ==
  ASSUME TypeOK, Resting, NEW x \in DOMAIN cut, CutFree(x)
  PROVE  Abstract!CutFree
<1>1. /\ Operates /\ next' = Without(next, {x}) /\ prev' = Without(prev, {x})
      /\ cut' = Without(cut, {x}) /\ size' = size /\ key' = key
  BY DEF CutFree, input
<1>2. IsFiniteSet(DOMAIN cut)
  BY DEF TypeOK
<1>3. BagOf(Without(cut, {x})) = OneLess(BagOf(cut), cut[x]) /\ cut[x] \in DOMAIN BagOf(cut)
  BY <1>2, BagShrinks
<1>4. Kept' = OneLess(Kept, cut[x]) /\ cut[x] \in DOMAIN Kept
  <2>1. Kept' = BagOf(cut')
    BY DEF Kept, BagOf, At
  <2>2. QED
    BY <1>1, <1>3, <2>1, KeptIs
<1>5. Kept \in [DOMAIN Kept -> Nat]
  BY <1>2, BagType, KeptIs DEF BagOf
<1>6. Kept' = Abstract!(-)(Kept, Abstract!One(cut[x]))
  BY <1>4, <1>5, TakenIs
<1>7. Values' = Values
  <2>1. PICK s : Order(s, size, Nodes) /\ Circle(next, prev, s, size)
    BY DEF Resting
  <2>2. size \in Nat /\ Nodes \subseteq Nat \ {0} /\ Nodes' = Nodes
    BY <1>1 DEF TypeOK, Nodes
  <2>3. Circle(next', prev', s, size')
    <3>1. \A y \in Nodes \cup {ListHead} : next'[y] = next[y] /\ prev'[y] = prev[y]
      <4>1. /\ DOMAIN next = Nodes \cup {ListHead} \cup DOMAIN cut
            /\ DOMAIN prev = Nodes \cup {ListHead} \cup DOMAIN cut
            /\ x \notin Nodes \cup {ListHead}
        BY DEF TypeOK, Iterators, ListHead
      <4>2. ASSUME NEW y \in Nodes \cup {ListHead} PROVE next'[y] = next[y] /\ prev'[y] = prev[y]
        <5>1. y \in DOMAIN next \ {x} /\ y \in DOMAIN prev \ {x}
          BY <4>1
        <5>2. Without(next, {x})[y] = next[y] /\ Without(prev, {x})[y] = prev[y]
          BY <5>1 DEF Without, Restrict
        <5>3. QED
          BY <1>1, <5>2
      <4>3. QED
        BY <4>2
    <3>2. Circle(next', prev', s, size)
      <4>1. \A k \in 0 .. size : k \in 0 .. size + 1 /\ k + 1 \in 0 .. size + 1
        BY <2>2
      <4>2. \A k \in 0 .. size + 1 : Place(s, size, k) \in Nodes \cup {ListHead}
        BY <2>1, <2>2, Places
      <4>3. \A k \in 0 .. size : /\ Place(s, size, k) \in Nodes \cup {ListHead}
                               /\ Place(s, size, k + 1) \in Nodes \cup {ListHead}
        BY <4>1, <4>2
      <4>4. QED
        BY <2>1, <3>1, <4>3 DEF Circle
    <3>3. QED
      BY <1>1, <3>2
  <2>4. Values = [k \in 1 .. size |-> key[s[k]]]
    BY <2>1, <2>2, ValuesAll
  <2>5. Values' = [k \in 1 .. size' |-> key'[s[k]]]
    <3>1. size' \in Nat /\ Nodes' \subseteq Nat \ {0} /\ Order(s, size', Nodes')
      BY <1>1, <2>1, <2>2
    <3>2. QED
      BY <2>3, <3>1, ValuesNext
  <2>6. QED
    BY <1>1, <2>4, <2>5
<1>8. Items' = Items
  BY <1>1, <1>7, ItemsAre
<1>9. QED
  BY <1>4, <1>6, <1>8 DEF Abstract!CutFree, Items, Kept

LEMMA ClearImplements ==
  ASSUME TypeOK, Resting, Clear
  PROVE  Abstract!Clear
<1>1. Operates /\ size' = 0 /\ cut' = cut
  BY DEF Clear
<1>2. TypeOK' /\ Resting'
  BY ClearStep
<1>3. PICK s : (Order(s, size, Nodes) /\ Circle(next, prev, s, size))'
  BY <1>2 DEF Resting
<1>4. Values' = [k \in 1 .. size' |-> key'[s[k]]]
  <2>1. size' \in Nat /\ Nodes' \subseteq Nat \ {0}
    BY <1>2 DEF TypeOK
  <2>2. QED
    BY <1>3, <2>1, ValuesNext
<1>5. Values' = <<>>
  BY <1>1, <1>4
<1>6. Items' = Values' /\ Kept' = Kept
  BY <1>1, ItemsAre DEF Kept
<1>7. QED
  BY <1>5, <1>6 DEF Abstract!Clear, Items, Kept

LEMMA OperationImplements ==
  ASSUME TypeOK, Resting, Operation
  PROVE  Abstract!Next
<1>1. CASE \E iter \in Iterators : \E x \in Addr, v \in Keys : Insert(iter, x, v)
  BY <1>1, InsertImplements DEF Abstract!Next
<1>2. CASE \E iter \in Iterators : \E x \in DOMAIN cut : Paste(iter, x)
  BY <1>2, PasteImplements DEF Abstract!Next
<1>3. CASE \E x \in Nodes : Erase(x) \/ Cut(x)
  BY <1>3, EraseImplements, CutImplements DEF Abstract!Next
<1>4. CASE \E x \in DOMAIN cut : CutFree(x)
  BY <1>4, CutFreeImplements DEF Abstract!Next
<1>5. CASE Clear
  BY <1>5, ClearImplements DEF Abstract!Next
<1>6. QED
  BY <1>1, <1>2, <1>3, <1>4, <1>5 DEF Operation

LEMMA CountsAlike == \A S : Abstract!Cardinality(S) = Cardinality(S)
  BY DEF Abstract!Cardinality, Cardinality

\* The step that closes the circle shows the sorted list.
LEMMA SortImplements ==
  ASSUME IInv, IInv', Sort, pc = "relink", pc' = "done"
  PROVE  Abstract!Sort
<1>1. TypeOK /\ BeforeOK /\ cut' = cut /\ Sorted' /\ TypeOK'
  BY DEF IInv, Sort
<1>2. Relink
  BY DEF Sort, Sorting, Begin, Take, Fold, Folded, Round, Rest, RestMerged, Returned
<1>3. size' = size /\ key' = key /\ size \in Nat
  BY <1>1, <1>2 DEF Relink, input, TypeOK
<1>4. PICK s : Order(s, size, Nodes) /\ before = [k \in 1 .. size |-> key[s[k]]]
  BY <1>1 DEF BeforeOK
<1>5. PICK t : (Order(t, size, Nodes) /\ Circle(next, prev, t, size) /\ InOrd(key, t, 1, size))'
  BY <1>1 DEF Sorted
<1>6. PICK N, K, n : N = Nodes /\ K = key /\ n = size
  OBVIOUS
<1>7. /\ n \in Nat /\ Order(s, n, N) /\ Order(t, n, N) /\ InOrd(K, t, 1, n)
      /\ before = [k \in 1 .. n |-> K[s[k]]] /\ K \in [N -> Int]
  BY <1>1, <1>3, <1>4, <1>5, <1>6 DEF Nodes, TypeOK
<1>8. PICK V, W : V = before /\ W = Values'
  OBVIOUS
<1>9. W = [k \in 1 .. n |-> K[t[k]]]
  <2>1. size' \in Nat /\ Nodes' \subseteq Nat \ {0}
    BY <1>1 DEF TypeOK
  <2>2. Values' = [k \in 1 .. size' |-> key'[t[k]]]
    BY <1>5, <2>1, ValuesNext
  <2>3. QED
    BY <1>3, <1>6, <1>8, <2>2
<1>10. DOMAIN V = 1 .. n /\ DOMAIN W = 1 .. n /\ Len(V) = n
  <2>1. V = [k \in 1 .. n |-> K[s[k]]]
    BY <1>7, <1>8
  <2>2. V \in [1 .. n -> Int]
    BY <1>7, <2>1 DEF Order
  <2>3. QED
    BY <1>7, <1>9, <2>1, <2>2, IsSeq
<1>11. ASSUME NEW p \in DOMAIN V
       PROVE  Cardinality({q \in DOMAIN V : V[q] = V[p]}) = Cardinality({q \in DOMAIN V : W[q] = V[p]})
  <2>1. PICK v : v = V[p]
    OBVIOUS
  <2>2. {q \in DOMAIN V : V[q] = v} = PlacesOf(K, s, n, v)
    BY <1>7, <1>8, <1>10 DEF PlacesOf
  <2>3. {q \in DOMAIN V : W[q] = v} = PlacesOf(K, t, n, v)
    BY <1>9, <1>10 DEF PlacesOf
  <2>4. Cardinality(PlacesOf(K, s, n, v)) = Cardinality(NodesOf(K, N, v))
    BY <1>7, CountIs
  <2>5. Cardinality(PlacesOf(K, t, n, v)) = Cardinality(NodesOf(K, N, v))
    BY <1>7, CountIs
  <2>6. QED
    BY <2>1, <2>2, <2>3, <2>4, <2>5
<1>12. \A p \in 1 .. Len(V) - 1 : W[p] <= W[p + 1]
  <2>1. ASSUME NEW p \in 1 .. n - 1 PROVE W[p] <= W[p + 1]
    <3>1. p \in 1 .. n /\ p + 1 \in 1 .. n
      BY <1>7
    <3>2. K[t[p]] <= K[t[p + 1]]
      BY <1>7 DEF InOrd
    <3>3. QED
      BY <1>9, <3>1, <3>2
  <2>2. QED
    BY <1>10, <2>1
<1>13. Items = V /\ Items' = W /\ Kept' = Kept
  BY <1>1, <1>8 DEF Items, Kept
<1>14. /\ DOMAIN Items' = DOMAIN Items
       /\ \A p \in DOMAIN Items : Cardinality({q \in DOMAIN Items : Items[q] = Items[p]})
                                    = Cardinality({q \in DOMAIN Items : Items'[q] = Items[p]})
       /\ \A p \in 1 .. Len(Items) - 1 : Items'[p] <= Items'[p + 1]
  BY <1>10, <1>11, <1>12, <1>13
<1>15. \A p \in DOMAIN Items : Abstract!Cardinality({q \in DOMAIN Items : Items[q] = Items[p]})
                                = Abstract!Cardinality({q \in DOMAIN Items : Items'[q] = Items[p]})
  BY <1>14, CountsAlike
<1>16. QED
  BY <1>13, <1>14, <1>15, Zenon DEF Abstract!Sort, Items, Kept

\* The other steps of a sort change nothing that is seen.
LEMMA HiddenSteps ==
  ASSUME IInv, Sort, ~(pc = "relink" /\ pc' = "done")
  PROVE  Items' = Items /\ Kept' = Kept
<1>1. cut' = cut /\ TypeOK
  BY DEF IInv, Sort
<1>2. Kept' = Kept
  BY <1>1 DEF Kept
<1>3. CASE Begin
  <2>1. pc = "idle" /\ pc' = "take" /\ before' = Values
    BY <1>3 DEF Begin, Goto
  <2>2. QED
    BY <1>2, <2>1 DEF Items
<1>4. CASE Returned
  <2>1. pc = "done" /\ pc' = "idle" /\ UNCHANGED <<size, key, next, prev>>
    BY <1>4 DEF Returned, Goto, input, links
  <2>2. Values' = Values
    BY <2>1 DEF Values, Path, Nodes
  <2>3. QED
    BY <1>2, <2>1, <2>2 DEF Items
<1>5. CASE Take \/ Fold \/ Folded \/ Round \/ Rest \/ RestMerged \/ Relink
  <2>1. pc \notin {"idle", "done"}
    BY <1>5 DEF Take, Fold, Folded, Round, Rest, RestMerged, Relink
  <2>2. before' = before
    BY <1>5 DEF Take, Fold, Folded, Round, Rest, RestMerged, Relink
  <2>3. pc' \notin {"idle", "done"}
    <3>1. CASE Relink
      BY <1>5, <3>1 DEF Relink, Goto
    <3>2. CASE Take \/ Fold \/ Folded \/ Round \/ Rest \/ RestMerged
      BY <2>1, <3>2 DEF Take, Fold, Folded, Round, Rest, RestMerged, Goto, Merge, MergeReturns
    <3>3. QED
      BY <1>5, <3>1, <3>2
  <2>4. QED
    BY <1>2, <2>1, <2>2, <2>3 DEF Items
<1>6. QED
  BY <1>3, <1>4, <1>5 DEF Sort, Sorting

LEMMA Implementing ==
  ASSUME IInv, IInv', [Next]_xvars
  PROVE  Abstract!Next \/ (Items' = Items /\ Kept' = Kept)
<1>1. CASE Operation
  <2>1. TypeOK /\ Resting
    BY <1>1 DEF IInv, Operation, Insert, Paste, Erase, Cut, CutFree, Clear, Operates
  <2>2. QED
    BY <1>1, <2>1, OperationImplements
<1>2. CASE Sort
  <2>1. CASE pc = "relink" /\ pc' = "done"
    <3>1. Abstract!Sort
      BY <1>2, <2>1, SortImplements
    <3>2. QED
      BY <3>1 DEF Abstract!Next
  <2>2. QED
    BY <1>2, <2>1, HiddenSteps
<1>3. CASE UNCHANGED xvars
  <2>1. UNCHANGED <<size, key, next, prev, pc, before, cut>>
    BY <1>3 DEF xvars, vars, input, links, locals
  <2>2. Values' = Values
    BY <2>1 DEF Values, Path, Nodes
  <2>3. QED
    BY <2>1, <2>2 DEF Items, Kept
<1>4. QED
  BY <1>1, <1>2, <1>3 DEF Next

(***************************************************************************)
(* The list in its links implements the sequence of ListSpec: each call of *)
(* xlist.h changes the sequence as that says, values that are cut are kept *)
(* once for each node, and xlist_msort, seen when it returns, has put the  *)
(* same values, each as often, in order.                                   *)
(***************************************************************************)
THEOREM ImplementsList == Spec => Implements
<1>1. Init => Abstract!Init
  <2>1. ASSUME Init PROVE Abstract!Init
    <3>1. IInv /\ pc = "idle" /\ cut = <<>>
      BY <2>1, Initially DEF Init, AtRest
    <3>2. PICK s : Order(s, size, Nodes) /\ Circle(next, prev, s, size)
      BY <3>1 DEF IInv, Resting
    <3>3. Values \in Seq(Int)
      BY <3>1, <3>2, ValuesSeq DEF IInv
    <3>4. Kept = Abstract!EmptyBag
      <4>1. Range(cut) = {}
        BY <3>1 DEF Range
      <4>2. QED
        BY <4>1 DEF Kept, Abstract!EmptyBag, Abstract!SetToBag
    <3>5. QED
      BY <3>1, <3>3, <3>4 DEF Abstract!Init, Kept
  <2>2. QED
    BY <2>1
<1>2. IInv /\ IInv' /\ [Next]_xvars
        => [Abstract!Next]_<<IF pc \in {"idle", "done"} THEN Values ELSE before,
                             [v \in Range(cut) |-> Cardinality({x \in DOMAIN cut : cut[x] = v})]>>
  BY Implementing DEF Items, Kept
<1>3. QED
  BY <1>1, <1>2, Inductive, PTL DEF Spec, Implements, Abstract!Spec
=============================================================================
