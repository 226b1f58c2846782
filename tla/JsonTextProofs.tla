---------------------------- MODULE JsonTextProofs ----------------------------
(***************************************************************************)
(* Proof that the parser of module JsonParse gives what the grammar of     *)
(* module JsonText says, for every text, every set of languages and every  *)
(* IntMax.  The functions of the grammar are first shown to be what their  *)
(* definitions say.  Along the configurations of module JsonProofs a       *)
(* record g is then kept of where values began and what has been made of   *)
(* them, and Agrees says what the grammar has, given g, for the text from  *)
(* there on: every step of the loop keeps it, the last one makes it the    *)
(* meaning of the whole, and where no step is left the text means nothing. *)
(* The first pass does not know what follows, so that it keeps Agrees for  *)
(* all texts that go on as it began.  The second pass keeps Holds as well: *)
(* what is in memory is what g has.                                        *)
(***************************************************************************)
EXTENDS JsonText, JsonProofs

-----------------------------------------------------------------------------
(* The first place of a set of tokens.                                     *)

IsFirst(t, p, S, q) ==
  /\ q \in p .. Len(t) + 1 /\ (q <= Len(t) => t[q] \in S)
  /\ \A k \in p .. q - 1 : t[k] \notin S

LEMMA FirstExists ==
  ASSUME NEW t, NEW S, Len(t) \in Nat, NEW p \in Nat, p <= Len(t) + 1
  PROVE  \E q : IsFirst(t, p, S, q)
<1> DEFINE Q == {q \in p .. Len(t) + 1 : q <= Len(t) => t[q] \in S}
<1>1. Q \subseteq Nat /\ Len(t) + 1 \in Q
  OBVIOUS
<1>2. PICK q \in Q : \A y \in Q : q <= y
  <2>1. Q # {}
    BY <1>1
  <2> HIDE DEF Q
  <2>2. QED
    BY <1>1, <2>1, Least
<1>3. q \in p .. Len(t) + 1 /\ (q <= Len(t) => t[q] \in S)
  BY <1>2
<1>4. ASSUME NEW k \in p .. q - 1 PROVE t[k] \notin S
  <2>1. k \in p .. Len(t) + 1 /\ k < q /\ k <= Len(t)
    BY <1>3
  <2>2. k \notin Q
    BY <1>2, <1>3, <2>1
  <2>3. QED
    BY <2>1, <2>2
<1>5. QED
  BY <1>3, <1>4 DEF IsFirst

LEMMA FirstOnly ==
  ASSUME NEW t, NEW S, Len(t) \in Nat, NEW p \in Nat, NEW x, NEW y, IsFirst(t, p, S, x), IsFirst(t, p, S, y)
  PROVE  x = y
<1>1. /\ x \in p .. Len(t) + 1 /\ y \in p .. Len(t) + 1 /\ (x <= Len(t) => t[x] \in S) /\ (y <= Len(t) => t[y] \in S)
      /\ \A k \in p .. x - 1 : t[k] \notin S
      /\ \A k \in p .. y - 1 : t[k] \notin S
  BY DEF IsFirst
<1>2. ~(x < y)
  BY <1>1
<1>3. ~(y < x)
  BY <1>1
<1>4. QED
  BY <1>1, <1>2, <1>3

LEMMA FirstOfIs ==
  ASSUME NEW t, NEW S, Len(t) \in Nat, NEW p \in Nat, p <= Len(t) + 1
  PROVE  /\ IsFirst(t, p, S, FirstOf(t, p, S))
         /\ \A q : IsFirst(t, p, S, q) => FirstOf(t, p, S) = q
<1> DEFINE P(q) == q \in p .. Len(t) + 1 /\ ((q <= Len(t) => t[q] \in S) /\ \A k \in p .. q - 1 : t[k] \notin S)
<1>1. FirstOf(t, p, S) = CHOOSE q : P(q)
  BY Zenon DEF FirstOf
<1>2. \A q : P(q) <=> IsFirst(t, p, S, q)
  BY Zenon DEF IsFirst
<1>3. \E q : P(q)
  BY <1>2, FirstExists
<1> HIDE DEF P
<1>4. P(CHOOSE q : P(q))
  BY <1>3, Zenon
<1>5. IsFirst(t, p, S, FirstOf(t, p, S))
  BY <1>1, <1>2, <1>4, Zenon
<1>6. QED
  BY <1>5, FirstOnly

\* Stepping towards it.
LEMMA FirstOfNext ==
  ASSUME NEW t, NEW S, Len(t) \in Nat, NEW p \in Nat, p <= Len(t)
  PROVE  FirstOf(t, p, S) = IF t[p] \in S THEN p ELSE FirstOf(t, p + 1, S)
<1>1. CASE t[p] \in S
  <2>1. IsFirst(t, p, S, p)
    BY <1>1 DEF IsFirst
  <2>2. QED
    BY <1>1, <2>1, FirstOfIs
<1>2. CASE t[p] \notin S
  <2>1. PICK q : q = FirstOf(t, p + 1, S)
    OBVIOUS
  <2>2. IsFirst(t, p + 1, S, q)
    BY <2>1, FirstOfIs
  <2>3. IsFirst(t, p, S, q)
    BY <1>2, <2>2 DEF IsFirst
  <2>4. QED
    BY <1>2, <2>1, <2>3, FirstOfIs
<1>3. QED
  BY <1>1, <1>2

LEMMA FirstOfEnd ==
  ASSUME NEW t, NEW S, Len(t) \in Nat
  PROVE  FirstOf(t, Len(t) + 1, S) = Len(t) + 1
<1>1. IsFirst(t, Len(t) + 1, S, Len(t) + 1)
  BY DEF IsFirst
<1>2. QED
  BY <1>1, FirstOfIs

-----------------------------------------------------------------------------
(* The functions of the grammar are what their definitions say.            *)

\* A text with its end.
Whole(t) ==
  /\ t \in Seq(Token) /\ Len(t) >= 1 /\ t[Len(t)] = "end"
  /\ \A i \in 1 .. Len(t) - 1 : t[i] # "end"

LEMMA WholeAt ==
  ASSUME NEW t, Whole(t)
  PROVE  /\ Len(t) \in Nat /\ Len(t) >= 1 /\ Places(t) = 1 .. Len(t) + 2
         /\ \A p \in Nat : /\ p >= 1 => At(t, p) \in Token
                           /\ p >= 1 /\ p <= Len(t) => At(t, p) = t[p]
                           /\ p >= Len(t) => At(t, p) = "end"
                           /\ p >= 1 /\ At(t, p) # "end" => p < Len(t)
<1>1. Len(t) \in Nat /\ \A i \in 1 .. Len(t) : t[i] \in Token
  BY LenProperties, ElementOfSeq DEF Whole
<1>2. "end" \in Token
  BY DEF Token
<1>3. QED
  BY <1>1, <1>2 DEF Whole, At, Places

\* The place to go on from when nothing is read at p but what is skipped, or p.
Passed(t, p) ==
  IF At(t, p) \in Blank THEN p + 1
  ELSE IF At(t, p) = "//" THEN FirstOf(t, p + 1, {"newline", "end"})
  ELSE IF At(t, p) = "/*" THEN FirstOf(t, p + 1, {"*/"}) + 1
  ELSE p

Skipping(t, f, p) == IF Passed(t, p) = p THEN p ELSE f[Passed(t, p)]

LEMMA PassedBounds ==
  ASSUME NEW t, Whole(t), NEW p \in Places(t)
  PROVE  /\ Passed(t, p) \in p .. Len(t) + 2
         /\ Passed(t, p) = p <=> At(t, p) \notin Blank \cup {"//", "/*"}
<1>1. Len(t) \in Nat /\ p \in Nat /\ p >= 1 /\ p <= Len(t) + 2
  BY WholeAt
<1>2. At(t, p) \in Blank \cup {"//", "/*"} => p < Len(t)
  BY <1>1, WholeAt DEF Blank
<1>3. p < Len(t) => \A S : FirstOf(t, p + 1, S) \in p + 1 .. Len(t) + 1
  <2>1. SUFFICES ASSUME p < Len(t), NEW S PROVE FirstOf(t, p + 1, S) \in p + 1 .. Len(t) + 1
    OBVIOUS
  <2>2. p + 1 \in Nat /\ p + 1 <= Len(t) + 1
    BY <1>1, <2>1
  <2>3. IsFirst(t, p + 1, S, FirstOf(t, p + 1, S))
    BY <1>1, <2>2, FirstOfIs
  <2>4. QED
    BY <2>3 DEF IsFirst
<1>4. CASE p < Len(t)
  <2>1. /\ FirstOf(t, p + 1, {"newline", "end"}) \in p + 1 .. Len(t) + 1
        /\ FirstOf(t, p + 1, {"*/"}) \in p + 1 .. Len(t) + 1
    BY <1>3, <1>4
  <2>2. QED
    BY <1>1, <2>1 DEF Passed, Blank
<1>5. CASE ~(p < Len(t))
  BY <1>1, <1>2, <1>5 DEF Passed
<1>6. QED
  BY <1>4, <1>5

LEMMA SkipsExist ==
  ASSUME NEW t, Whole(t)
  PROVE  \E f : f = [p \in Places(t) |-> Skipping(t, f, p)]
<1> DEFINE N == Len(t) + 2
           Upto(k) == \E f : \A p \in k .. N : f[p] = Skipping(t, f, p)
           Bad == {j \in Nat : j < N /\ ~Upto(N - j)}
<1>1. Len(t) \in Nat /\ N \in Nat /\ Places(t) = 1 .. N
  BY WholeAt
<1>2. Bad = {}
  <2>1. SUFFICES ASSUME Bad # {} PROVE FALSE
    OBVIOUS
  <2>2. Bad \subseteq Nat
    OBVIOUS
  <2>3. PICK j \in Bad : \A y \in Bad : j <= y
    BY <2>1, <2>2, Least
  <2>4. PICK k : k = N - j
    OBVIOUS
  <2>5. j \in Nat /\ k \in 1 .. N /\ ~Upto(k)
    BY <1>1, <2>3, <2>4
  <2>6. \E f : \A p \in k + 1 .. N : f[p] = Skipping(t, f, p)
    <3>1. CASE j = 0
      BY <1>1, <2>4, <2>5, <3>1
    <3>2. CASE j # 0
      <4>1. j - 1 \in Nat /\ j - 1 < N /\ ~(j <= j - 1) /\ N - (j - 1) = k + 1
        BY <1>1, <2>3, <2>4, <2>5, <3>2
      <4>2. j - 1 \notin Bad
        BY <2>3, <4>1
      <4>3. Upto(N - (j - 1))
        BY <4>1, <4>2
      <4>4. QED
        BY <4>1, <4>3
    <3>3. QED
      BY <3>1, <3>2
  <2>7. PICK f : \A p \in k + 1 .. N : f[p] = Skipping(t, f, p)
    BY <2>6
  <2> DEFINE h == [p \in k .. N |-> IF p = k THEN Skipping(t, f, k) ELSE f[p]]
  <2>8. \A p \in k .. N : h[p] = IF p = k THEN Skipping(t, f, k) ELSE f[p]
    OBVIOUS
  <2> HIDE DEF h
  <2>9. ASSUME NEW p \in k .. N PROVE h[p] = Skipping(t, h, p)
    <3>1. p \in Places(t)
      BY <1>1, <2>5
    <3>2. Passed(t, p) \in p .. N
      BY <3>1, PassedBounds
    <3>3. Passed(t, p) # p => h[Passed(t, p)] = f[Passed(t, p)]
      BY <2>5, <2>8, <3>2
    <3>4. Skipping(t, h, p) = Skipping(t, f, p)
      BY <3>3 DEF Skipping
    <3>5. QED
      BY <2>5, <2>7, <2>8, <3>4
  <2>10. QED
    BY <2>5, <2>9
<1>3. Upto(1)
  <2>1. N - 1 \in Nat /\ N - 1 < N /\ N - (N - 1) = 1
    BY <1>1
  <2>2. N - 1 \notin Bad
    BY <1>2
  <2>3. Upto(N - (N - 1))
    BY <2>1, <2>2
  <2>4. QED
    BY <2>1, <2>3
<1>4. PICK f : \A p \in 1 .. N : f[p] = Skipping(t, f, p)
  BY <1>3
<1> DEFINE h == [p \in 1 .. N |-> f[p]]
<1>5. \A p \in 1 .. N : h[p] = f[p]
  OBVIOUS
<1>6. h = [p \in 1 .. N |-> h[p]]
  BY <1>5
<1> HIDE DEF h
<1>7. ASSUME NEW p \in 1 .. N PROVE h[p] = Skipping(t, h, p)
  <2>1. Passed(t, p) \in 1 .. N
    BY <1>1, PassedBounds
  <2>2. QED
    BY <1>4, <1>5, <2>1 DEF Skipping
<1>8. h = [p \in 1 .. N |-> Skipping(t, h, p)]
  BY <1>6, <1>7
<1>9. QED
  BY <1>1, <1>8

LEMMA SkipsDefined ==
  ASSUME NEW t, Whole(t)
  PROVE  \A p \in Places(t) : Skip(t, p) = IF Passed(t, p) = p THEN p ELSE Skip(t, Passed(t, p))
<1> DEFINE U(f) == [p \in Places(t) |->
                      IF At(t, p) \in Blank THEN f[p + 1]
                      ELSE IF At(t, p) = "//" THEN f[FirstOf(t, p + 1, {"newline", "end"})]
                      ELSE IF At(t, p) = "/*" THEN f[FirstOf(t, p + 1, {"*/"}) + 1]
                      ELSE p]
<1>1. Skips(t) = CHOOSE f : f = U(f)
  BY Zenon DEF Skips
<1>2. ASSUME NEW f PROVE U(f) = [p \in Places(t) |-> Skipping(t, f, p)]
  <2>1. ASSUME NEW p \in Places(t)
        PROVE  (IF At(t, p) \in Blank THEN f[p + 1]
                ELSE IF At(t, p) = "//" THEN f[FirstOf(t, p + 1, {"newline", "end"})]
                ELSE IF At(t, p) = "/*" THEN f[FirstOf(t, p + 1, {"*/"}) + 1]
                ELSE p) = Skipping(t, f, p)
    <3>1. Passed(t, p) = p <=> At(t, p) \notin Blank \cup {"//", "/*"}
      BY PassedBounds
    <3>2. CASE Passed(t, p) = p
      BY <3>1, <3>2 DEF Skipping
    <3>3. CASE Passed(t, p) # p
      BY <3>1, <3>3 DEF Skipping, Passed
    <3>4. QED
      BY <3>2, <3>3
  <2>2. QED
    BY <2>1, Zenon
<1> HIDE DEF U
<1>3. \E f : f = U(f)
  BY <1>2, SkipsExist
<1>4. Skips(t) = U(Skips(t))
  BY <1>1, <1>3, Zenon
<1>5. Skips(t) = [p \in Places(t) |-> Skipping(t, Skips(t), p)]
  BY <1>2, <1>4
<1>6. \A p \in Places(t) : Skips(t)[p] = Skipping(t, Skips(t), p)
  BY <1>5
<1>7. QED
  BY <1>6 DEF Skip, Skipping

LEMMA SkipBounds ==
  ASSUME NEW t, Whole(t)
  PROVE  \A p \in Places(t) : Skip(t, p) \in p .. Len(t) + 2
<1> DEFINE N == Len(t) + 2
           Bad == {j \in Nat : j < N /\ Skip(t, N - j) \notin N - j .. N}
<1>1. Len(t) \in Nat /\ N \in Nat /\ Places(t) = 1 .. N
  BY WholeAt
<1>2. Bad = {}
  <2>1. SUFFICES ASSUME Bad # {} PROVE FALSE
    OBVIOUS
  <2>2. Bad \subseteq Nat
    OBVIOUS
  <2>3. PICK j \in Bad : \A y \in Bad : j <= y
    BY <2>1, <2>2, Least
  <2>4. PICK k : k = N - j
    OBVIOUS
  <2>5. j \in Nat /\ k \in 1 .. N /\ Skip(t, k) \notin k .. N
    BY <1>1, <2>3, <2>4
  <2>6. PICK q : q = Passed(t, k)
    OBVIOUS
  <2>7. q \in k .. N /\ Skip(t, k) = IF q = k THEN k ELSE Skip(t, q)
    BY <1>1, <2>5, <2>6, PassedBounds, SkipsDefined
  <2>8. q # k /\ Skip(t, q) \notin k .. N
    BY <2>5, <2>7
  <2>9. N - q \in Nat /\ N - q < N /\ ~(j <= N - q) /\ N - (N - q) = q
    BY <1>1, <2>4, <2>5, <2>7, <2>8
  <2>10. N - q \notin Bad
    BY <2>3, <2>9
  <2>11. Skip(t, q) \in q .. N
    BY <2>9, <2>10
  <2>12. QED
    BY <2>5, <2>7, <2>8, <2>11
<1>3. ASSUME NEW p \in Places(t) PROVE Skip(t, p) \in p .. N
  <2>1. N - p \in Nat /\ N - p < N /\ N - (N - p) = p
    BY <1>1
  <2>2. N - p \notin Bad
    BY <1>2
  <2>3. QED
    BY <2>1, <2>2
<1>4. QED
  BY <1>3

-----------------------------------------------------------------------------
(* Sequences and results.                                                  *)

IsSeq(s) == \E S : s \in Seq(S)

LEMMA SeqsTogether ==
  ASSUME NEW s, NEW u, IsSeq(s), IsSeq(u)
  PROVE  \E S : s \in Seq(S) /\ u \in Seq(S)
<1>1. PICK A : s \in Seq(A)
  BY DEF IsSeq
<1>2. PICK B : u \in Seq(B)
  BY DEF IsSeq
<1>3. s \in Seq(A \cup B) /\ u \in Seq(A \cup B)
  BY <1>1, <1>2, SeqMonotonic
<1>4. QED
  BY <1>3

LEMMA SeqFacts ==
  /\ IsSeq(<<>>) /\ Len(<<>>) = 0
  /\ \A x : /\ IsSeq(<<x>>) /\ Len(<<x>>) = 1 /\ <<x>>[1] = x
  /\ \A s : IsSeq(s) => Len(s) \in Nat
<1>1. IsSeq(<<>>) /\ Len(<<>>) = 0
  BY EmptySeq DEF IsSeq
<1>2. \A x : <<x>> \in Seq({x}) /\ Len(<<x>>) = 1 /\ <<x>>[1] = x
  OBVIOUS
<1>3. \A s : IsSeq(s) => Len(s) \in Nat
  BY LenProperties DEF IsSeq
<1>4. QED
  BY <1>1, <1>2, <1>3 DEF IsSeq

LEMMA SeqsEqual ==
  ASSUME NEW s, NEW u, IsSeq(s), IsSeq(u), Len(s) = Len(u), \A i \in 1 .. Len(s) : s[i] = u[i]
  PROVE  s = u
<1>1. PICK S : s \in Seq(S) /\ u \in Seq(S)
  BY SeqsTogether
<1>2. QED
  BY <1>1, SeqEqual

LEMMA SeqConcat ==
  ASSUME NEW s, NEW u, IsSeq(s), IsSeq(u)
  PROVE  /\ IsSeq(s \o u) /\ Len(s \o u) = Len(s) + Len(u)
         /\ \A i \in 1 .. Len(s) : (s \o u)[i] = s[i]
         /\ \A i \in 1 .. Len(u) : (s \o u)[Len(s) + i] = u[i]
         /\ <<>> \o u = u /\ s \o <<>> = s
<1>1. PICK S : s \in Seq(S) /\ u \in Seq(S)
  BY SeqsTogether
<1>2. Len(s) \in Nat /\ Len(u) \in Nat
  BY <1>1, LenProperties
<1>3. /\ s \o u \in Seq(S) /\ Len(s \o u) = Len(s) + Len(u)
      /\ \A i \in 1 .. Len(s) + Len(u) : (s \o u)[i] = IF i <= Len(s) THEN s[i] ELSE u[i - Len(s)]
  BY <1>1, ConcatProperties
<1>4. \A i \in 1 .. Len(s) : (s \o u)[i] = s[i]
  BY <1>2, <1>3
<1>5. ASSUME NEW i \in 1 .. Len(u) PROVE (s \o u)[Len(s) + i] = u[i]
  <2>1. Len(s) + i \in 1 .. Len(s) + Len(u) /\ ~(Len(s) + i <= Len(s)) /\ Len(s) + i - Len(s) = i
    BY <1>2
  <2>2. QED
    BY <1>3, <2>1
<1>6. <<>> \o u = u /\ s \o <<>> = s
  BY <1>1, ConcatEmptySeq
<1>7. QED
  BY <1>3, <1>4, <1>5, <1>6 DEF IsSeq

LEMMA SeqAssociative ==
  ASSUME NEW s, NEW u, NEW w, IsSeq(s), IsSeq(u), IsSeq(w)
  PROVE  (s \o u) \o w = s \o (u \o w)
<1>1. PICK A : s \in Seq(A) /\ u \in Seq(A)
  BY SeqsTogether
<1>2. PICK B : w \in Seq(B)
  BY DEF IsSeq
<1>3. s \in Seq(A \cup B) /\ u \in Seq(A \cup B) /\ w \in Seq(A \cup B)
  BY <1>1, <1>2, SeqMonotonic
<1>4. QED
  BY <1>3, ConcatAssociative

\* Either no result, or one that ends behind p and within t.
Sound(t, p, r) == r = None \/ \E v, q : r = Result(v, q) /\ q \in p + 1 .. Len(t)
Listed(t, p, r) == r = None \/ \E v, q : r = Result(v, q) /\ q \in p + 1 .. Len(t) /\ IsSeq(v)

LEMMA ResultFields ==
  /\ ~None.ok
  /\ \A v, q : Result(v, q).ok /\ Result(v, q).value = v /\ Result(v, q).behind = q
BY DEF None, Result

LEMMA JoinedFields ==
  /\ \A s : Joined(s, None) = None
  /\ \A s, v, q : Joined(s, Result(v, q)) = Result(s \o v, q)
BY ResultFields DEF Joined

LEMMA HolderFields ==
  /\ \A type : Holder(type, None) = None
  /\ \A type, v, q : Holder(type, Result(v, q)) = Result([type |-> type, items |-> v], q)
BY ResultFields DEF Holder

LEMMA SoundFields ==
  ASSUME NEW t, NEW p, NEW r, Sound(t, p, r)
  PROVE  /\ ~r.ok => r = None
         /\ r.ok => r = Result(r.value, r.behind) /\ r.behind \in p + 1 .. Len(t)
BY ResultFields DEF Sound

LEMMA ListedFields ==
  ASSUME NEW t, NEW p, NEW r, Listed(t, p, r)
  PROVE  /\ Sound(t, p, r)
         /\ ~r.ok => r = None
         /\ r.ok => r = Result(r.value, r.behind) /\ r.behind \in p + 1 .. Len(t) /\ IsSeq(r.value)
         /\ Joined(<<>>, r) = r
         /\ \A s : IsSeq(s) => /\ Listed(t, p, Joined(s, r))
                               /\ \A u : IsSeq(u) => Joined(u, Joined(s, r)) = Joined(u \o s, r)
<1>1. CASE r = None
  <2>1. Sound(t, p, r) /\ ~r.ok /\ Listed(t, p, r)
    BY <1>1, ResultFields DEF Listed, Sound
  <2>2. \A s : Joined(s, r) = r
    BY <1>1, JoinedFields
  <2>3. QED
    BY <1>1, <2>1, <2>2
<1>2. CASE r # None
  <2>1. PICK v, q : r = Result(v, q) /\ q \in p + 1 .. Len(t) /\ IsSeq(v)
    BY <1>2 DEF Listed
  <2>2. Sound(t, p, r)
    BY <2>1 DEF Sound
  <2>3. r.ok /\ r.value = v /\ r.behind = q
    BY <2>1, ResultFields
  <2>4. Joined(<<>>, r) = r
    <3>1. PICK e : e = <<>>
      OBVIOUS
    <3>2. e \o v = v
      BY <2>1, <3>1, SeqConcat, SeqFacts
    <3>3. Joined(e, Result(v, q)) = Result(e \o v, q)
      BY JoinedFields
    <3>4. QED
      BY <2>1, <3>1, <3>2, <3>3
  <2>5. ASSUME NEW s, IsSeq(s)
        PROVE  /\ Listed(t, p, Joined(s, r))
               /\ \A u : IsSeq(u) => Joined(u, Joined(s, r)) = Joined(u \o s, r)
    <3>1. Joined(s, r) = Result(s \o v, q) /\ IsSeq(s \o v)
      BY <2>1, <2>5, JoinedFields, SeqConcat
    <3>2. Listed(t, p, Joined(s, r))
      BY <2>1, <3>1 DEF Listed
    <3>3. ASSUME NEW u, IsSeq(u) PROVE Joined(u, Joined(s, r)) = Joined(u \o s, r)
      <4>1. Joined(u, Joined(s, r)) = Result(u \o (s \o v), q)
        BY <3>1, JoinedFields
      <4>2. Joined(u \o s, r) = Result((u \o s) \o v, q)
        BY <2>1, JoinedFields
      <4>3. (u \o s) \o v = u \o (s \o v)
        BY <2>1, <2>5, <3>3, SeqAssociative
      <4>4. QED
        BY <4>1, <4>2, <4>3
    <3>4. QED
      BY <3>2, <3>3
  <2>6. QED
    BY <2>1, <2>2, <2>3, <2>4, <2>5
<1>3. QED
  BY <1>1, <1>2

\* From an earlier place on, too.
LEMMA ListedBefore ==
  ASSUME NEW t, NEW p \in Nat, NEW k \in Nat, k <= p, NEW r, Len(t) \in Nat
  PROVE  (Listed(t, p, r) => Listed(t, k, r)) /\ (Sound(t, p, r) => Sound(t, k, r))
<1>1. \A q : q \in p + 1 .. Len(t) => q \in k + 1 .. Len(t)
  OBVIOUS
<1>2. Listed(t, p, r) => Listed(t, k, r)
  BY <1>1, Zenon DEF Listed
<1>3. Sound(t, p, r) => Sound(t, k, r)
  BY <1>1, Zenon DEF Sound
<1>4. QED
  BY <1>2, <1>3

LEMMA BytesFacts ==
  ASSUME NEW b \in Token
  PROVE  /\ Bytes(b) \in Seq(Token) /\ IsSeq(Bytes(b)) /\ Len(Bytes(b)) = Width(b)
         /\ \A i \in 1 .. Width(b) : Bytes(b)[i] = b
<1>1. Width(b) \in Nat
  BY DEF Width
<1> DEFINE s == [i \in 1 .. Width(b) |-> b]
<1>2. s \in Seq(Token) /\ Len(s) = Width(b) /\ \A i \in 1 .. Width(b) : s[i] = b
  BY <1>1
<1>3. QED
  BY <1>2 DEF Bytes, IsSeq

-----------------------------------------------------------------------------
(* Strings.                                                                *)

Escaped(t, p) == At(t, p) = "backslash"
Letter(t, p) == IF Escaped(t, p) THEN At(t, p + 1) ELSE At(t, p)
Onward(t, p) == IF Escaped(t, p) THEN p + 2 ELSE p + 1

Spelling(t, f, p) ==
  IF Letter(t, p) = "end" \/ (Escaped(t, p) /\ Letter(t, p) = "u?") THEN None
  ELSE IF Letter(t, p) = "quote" /\ ~Escaped(t, p) THEN Result(<<>>, p + 1)
  ELSE Joined(Bytes(Letter(t, p)), f[Onward(t, p)])

LEMMA LetterBounds ==
  ASSUME NEW t, Whole(t), NEW p \in Places(t)
  PROVE  /\ Letter(t, p) \in Token /\ p \in Nat /\ p >= 1 /\ Len(t) \in Nat
         /\ Letter(t, p) # "end" => p < Len(t) /\ Onward(t, p) \in p + 1 .. Len(t)
<1>1. Len(t) \in Nat /\ p \in Nat /\ p >= 1
  BY WholeAt
<1>2. /\ At(t, p) \in Token /\ At(t, p + 1) \in Token
      /\ At(t, p) # "end" => p < Len(t)
      /\ At(t, p + 1) # "end" => p + 1 < Len(t)
  BY <1>1, WholeAt
<1>3. CASE Escaped(t, p)
  BY <1>1, <1>2, <1>3 DEF Letter, Onward
<1>4. CASE ~Escaped(t, p)
  BY <1>1, <1>2, <1>4 DEF Letter, Onward
<1>5. QED
  BY <1>3, <1>4

\* What it depends on.
LEMMA SpellingListed ==
  ASSUME NEW t, Whole(t), NEW p \in Places(t), NEW f, \A q \in p + 1 .. Len(t) : Listed(t, q, f[q])
  PROVE  /\ Listed(t, p, Spelling(t, f, p))
         /\ \A h : (\A q \in p + 1 .. Len(t) : h[q] = f[q]) => Spelling(t, h, p) = Spelling(t, f, p)
<1>1. /\ Letter(t, p) \in Token /\ p \in Nat /\ p >= 1 /\ Len(t) \in Nat
      /\ Letter(t, p) # "end" => p < Len(t) /\ Onward(t, p) \in p + 1 .. Len(t)
  BY LetterBounds
<1>2. CASE Letter(t, p) = "end" \/ (Escaped(t, p) /\ Letter(t, p) = "u?")
  BY <1>2 DEF Spelling, Listed
<1>3. CASE ~(Letter(t, p) = "end" \/ (Escaped(t, p) /\ Letter(t, p) = "u?")) /\ Letter(t, p) = "quote" /\ ~Escaped(t, p)
  <2>1. \A h : Spelling(t, h, p) = Result(<<>>, p + 1)
    BY <1>3 DEF Spelling
  <2>2. IsSeq(<<>>) /\ p + 1 \in p + 1 .. Len(t)
    BY <1>1, <1>3, SeqFacts
  <2>3. Listed(t, p, Result(<<>>, p + 1))
    BY <2>2 DEF Listed
  <2>4. QED
    BY <2>1, <2>3
<1>4. CASE ~(Letter(t, p) = "end" \/ (Escaped(t, p) /\ Letter(t, p) = "u?")) /\ ~(Letter(t, p) = "quote" /\ ~Escaped(t, p))
  <2>1. \A h : Spelling(t, h, p) = Joined(Bytes(Letter(t, p)), h[Onward(t, p)])
    BY <1>4 DEF Spelling
  <2>2. PICK q \in p + 1 .. Len(t) : q = Onward(t, p)
    BY <1>1, <1>4
  <2>3. Listed(t, q, f[q]) /\ IsSeq(Bytes(Letter(t, p)))
    BY <1>1, BytesFacts
  <2>4. Listed(t, q, Joined(Bytes(Letter(t, p)), f[q]))
    BY <2>3, ListedFields
  <2>5. Listed(t, p, Joined(Bytes(Letter(t, p)), f[q]))
    BY <1>1, <2>2, <2>4, ListedBefore
  <2>6. QED
    BY <2>1, <2>2, <2>5
<1>5. QED
  BY <1>2, <1>3, <1>4

LEMMA LettersExist ==
  ASSUME NEW t, Whole(t)
  PROVE  \E f : f = [p \in Places(t) |-> Spelling(t, f, p)]
<1> DEFINE N == Len(t) + 2
           Upto(k) == \E f : \A p \in k .. N : f[p] = Spelling(t, f, p) /\ Listed(t, p, f[p])
           Bad == {j \in Nat : j < N /\ ~Upto(N - j)}
<1>1. Len(t) \in Nat /\ N \in Nat /\ Places(t) = 1 .. N
  BY WholeAt
<1>2. Bad = {}
  <2>1. SUFFICES ASSUME Bad # {} PROVE FALSE
    OBVIOUS
  <2>2. Bad \subseteq Nat
    OBVIOUS
  <2>3. PICK j \in Bad : \A y \in Bad : j <= y
    BY <2>1, <2>2, Least
  <2>4. PICK k : k = N - j
    OBVIOUS
  <2>5. j \in Nat /\ k \in 1 .. N /\ ~Upto(k)
    BY <1>1, <2>3, <2>4
  <2>6. \E f : \A p \in k + 1 .. N : f[p] = Spelling(t, f, p) /\ Listed(t, p, f[p])
    <3>1. CASE j = 0
      BY <1>1, <2>4, <2>5, <3>1
    <3>2. CASE j # 0
      <4>1. j - 1 \in Nat /\ j - 1 < N /\ ~(j <= j - 1) /\ N - (j - 1) = k + 1
        BY <1>1, <2>3, <2>4, <2>5, <3>2
      <4>2. j - 1 \notin Bad
        BY <2>3, <4>1
      <4>3. Upto(N - (j - 1))
        BY <4>1, <4>2
      <4>4. QED
        BY <4>1, <4>3
    <3>3. QED
      BY <3>1, <3>2
  <2>7. PICK f : \A p \in k + 1 .. N : f[p] = Spelling(t, f, p) /\ Listed(t, p, f[p])
    BY <2>6
  <2> DEFINE h == [p \in k .. N |-> IF p = k THEN Spelling(t, f, k) ELSE f[p]]
  <2>8. \A p \in k .. N : h[p] = IF p = k THEN Spelling(t, f, k) ELSE f[p]
    OBVIOUS
  <2> HIDE DEF h
  <2>9. ASSUME NEW p \in k .. N PROVE h[p] = Spelling(t, h, p) /\ Listed(t, p, h[p])
    <3>1. p \in Places(t)
      BY <1>1, <2>5
    <3>2. \A q \in p + 1 .. Len(t) : q \in k + 1 .. N /\ q \in k .. N /\ q # k
      BY <1>1, <2>5
    <3>3. \A q \in p + 1 .. Len(t) : Listed(t, q, f[q]) /\ h[q] = f[q]
      BY <2>7, <2>8, <3>2
    <3>4. Spelling(t, h, p) = Spelling(t, f, p) /\ Listed(t, p, Spelling(t, f, p))
      BY <3>1, <3>3, SpellingListed
    <3>5. p # k => p \in k + 1 .. N
      BY <2>5
    <3>6. QED
      BY <2>7, <2>8, <3>4, <3>5
  <2>10. QED
    BY <2>5, <2>9
<1>3. Upto(1)
  <2>1. N - 1 \in Nat /\ N - 1 < N /\ N - (N - 1) = 1
    BY <1>1
  <2>2. N - 1 \notin Bad
    BY <1>2
  <2>3. Upto(N - (N - 1))
    BY <2>1, <2>2
  <2>4. QED
    BY <2>1, <2>3
<1>4. PICK f : \A p \in 1 .. N : f[p] = Spelling(t, f, p) /\ Listed(t, p, f[p])
  BY <1>3
<1> DEFINE h == [p \in 1 .. N |-> f[p]]
<1>5. \A p \in 1 .. N : h[p] = f[p]
  OBVIOUS
<1>6. h = [p \in 1 .. N |-> h[p]]
  BY <1>5
<1> HIDE DEF h
<1>7. ASSUME NEW p \in 1 .. N PROVE h[p] = Spelling(t, h, p)
  <2>1. \A q \in p + 1 .. Len(t) : q \in 1 .. N
    BY <1>1
  <2>2. \A q \in p + 1 .. Len(t) : Listed(t, q, f[q]) /\ h[q] = f[q]
    BY <1>4, <1>5, <2>1
  <2>3. Spelling(t, h, p) = Spelling(t, f, p)
    BY <1>1, <2>2, SpellingListed
  <2>4. QED
    BY <1>4, <1>5, <2>3
<1>8. h = [p \in 1 .. N |-> Spelling(t, h, p)]
  BY <1>6, <1>7
<1>9. QED
  BY <1>1, <1>8

LEMMA LettersDefined ==
  ASSUME NEW t, Whole(t)
  PROVE  \A p \in Places(t) : Letters(t)[p] = Spelling(t, Letters(t), p) /\ Listed(t, p, Letters(t)[p])
<1> DEFINE U(f) == [p \in Places(t) |->
                      LET escaped == At(t, p) = "backslash"
                          b == IF escaped THEN At(t, p + 1) ELSE At(t, p)
                      IN  IF b = "end" \/ (escaped /\ b = "u?") THEN None
                          ELSE IF b = "quote" /\ ~escaped THEN Result(<<>>, p + 1)
                          ELSE Joined(Bytes(b), f[p + (IF escaped THEN 2 ELSE 1)])]
<1>1. Letters(t) = CHOOSE f : f = U(f)
  BY Zenon DEF Letters
<1>2. ASSUME NEW f PROVE U(f) = [p \in Places(t) |-> Spelling(t, f, p)]
  <2>1. \A p : p + (IF Escaped(t, p) THEN 2 ELSE 1) = Onward(t, p)
    BY DEF Onward
  <2>2. QED
    BY <2>1, Zenon DEF Spelling, Letter, Escaped
<1> HIDE DEF U
<1>3. \E f : f = U(f)
  BY <1>2, LettersExist
<1>4. Letters(t) = U(Letters(t))
  BY <1>1, <1>3, Zenon
<1>5. PICK f : f = Letters(t)
  OBVIOUS
<1>6. f = [p \in Places(t) |-> Spelling(t, f, p)]
  BY <1>2, <1>4, <1>5
<1>7. \A p \in Places(t) : f[p] = Spelling(t, f, p)
  BY <1>6
<1> DEFINE N == Len(t) + 2
           Bad == {j \in Nat : j < N /\ ~Listed(t, N - j, f[N - j])}
<1>8. Len(t) \in Nat /\ N \in Nat /\ Places(t) = 1 .. N
  BY WholeAt
<1>9. Bad = {}
  <2>1. SUFFICES ASSUME Bad # {} PROVE FALSE
    OBVIOUS
  <2>2. Bad \subseteq Nat
    OBVIOUS
  <2>3. PICK j \in Bad : \A y \in Bad : j <= y
    BY <2>1, <2>2, Least
  <2>4. PICK k : k = N - j
    OBVIOUS
  <2>5. j \in Nat /\ k \in 1 .. N /\ ~Listed(t, k, f[k])
    BY <1>8, <2>3, <2>4
  <2>6. ASSUME NEW q \in k + 1 .. Len(t) PROVE Listed(t, q, f[q])
    <3>1. N - q \in Nat /\ N - q < N /\ ~(j <= N - q) /\ N - (N - q) = q
      BY <1>8, <2>4, <2>5
    <3>2. N - q \notin Bad
      BY <2>3, <3>1
    <3>3. QED
      BY <3>1, <3>2
  <2>7. Listed(t, k, Spelling(t, f, k))
    BY <1>8, <2>5, <2>6, SpellingListed
  <2>8. QED
    BY <1>7, <1>8, <2>5, <2>7
<1>10. ASSUME NEW p \in Places(t) PROVE Listed(t, p, f[p])
  <2>1. N - p \in Nat /\ N - p < N /\ N - (N - p) = p
    BY <1>8
  <2>2. N - p \notin Bad
    BY <1>9
  <2>3. QED
    BY <2>1, <2>2
<1>11. QED
  BY <1>5, <1>7, <1>10

-----------------------------------------------------------------------------
(* Numbers.                                                                *)

DigitsEnd(t, q) == FirstOf(t, q, Token \ Digit)
From(t, p) == IF At(t, p) = "-" THEN p + 1 ELSE p
PointAt(t, p) == DigitsEnd(t, From(t, p))
HasFraction(t, p) == At(t, PointAt(t, p)) = "."
ExponentAt(t, p) == IF HasFraction(t, p) THEN DigitsEnd(t, PointAt(t, p) + 1) ELSE PointAt(t, p)
HasExponent(t, p) == At(t, ExponentAt(t, p)) = "e"
PowerAt(t, p) ==
  IF At(t, ExponentAt(t, p) + 1) \in {"+", "-"} THEN ExponentAt(t, p) + 2 ELSE ExponentAt(t, p) + 1
LastAt(t, p) == IF HasExponent(t, p) THEN DigitsEnd(t, PowerAt(t, p)) ELSE ExponentAt(t, p)
WholeOf(t, p) == Decimal(t, From(t, p), PointAt(t, p))

Follows(t, p) == At(t, LastAt(t, p)) \notin NumberToken \cup {"//", "/*"}
ProperWhole(t, p) == PointAt(t, p) > From(t, p) + 1 => t[From(t, p)] # "0"
ProperFraction(t, p) ==
  HasFraction(t, p) =>
    From(t, p) < PointAt(t, p) /\ PointAt(t, p) + 1 < ExponentAt(t, p) /\ WholeOf(t, p) <= IntMax
ProperExponent(t, p) == HasExponent(t, p) => PowerAt(t, p) < LastAt(t, p)

NumberOf(t, p) ==
  IF HasFraction(t, p) \/ HasExponent(t, p) \/ WholeOf(t, p) > IntMax THEN [type |-> "double"]
  ELSE [type |-> "integer", integer |-> (IF At(t, p) = "-" THEN -1 ELSE 1) * WholeOf(t, p)]

LEMMA NumberIs ==
  ASSUME NEW t, NEW p
  PROVE  Number(t, p) = IF Follows(t, p) /\ ProperWhole(t, p) /\ ProperFraction(t, p) /\ ProperExponent(t, p)
                        THEN Result(NumberOf(t, p), LastAt(t, p)) ELSE None
BY Zenon DEF Number, Follows, ProperWhole, ProperFraction, ProperExponent, NumberOf, LastAt, WholeOf, PowerAt,
             HasExponent, ExponentAt, HasFraction, PointAt, From, DigitsEnd

LEMMA DigitsEndIs ==
  ASSUME NEW t, Whole(t), NEW q \in Nat, q >= 1, q <= Len(t)
  PROVE  /\ DigitsEnd(t, q) \in q .. Len(t) /\ At(t, DigitsEnd(t, q)) \notin Digit
         /\ \A k \in q .. DigitsEnd(t, q) - 1 : t[k] \in Digit
         /\ \A r \in q .. Len(t) : (\A k \in q .. r - 1 : t[k] \in Digit) /\ t[r] \notin Digit => DigitsEnd(t, q) = r
<1> DEFINE S == Token \ Digit
<1>1. Len(t) \in Nat /\ \A i \in 1 .. Len(t) : t[i] \in Token /\ At(t, i) = t[i]
  <2>1. Len(t) \in Nat /\ \A i \in 1 .. Len(t) : t[i] \in Token
    BY LenProperties, ElementOfSeq DEF Whole
  <2>2. QED
    BY <2>1 DEF At
<1>2. IsFirst(t, q, S, DigitsEnd(t, q)) /\ \A r : IsFirst(t, q, S, r) => DigitsEnd(t, q) = r
  BY <1>1, FirstOfIs DEF DigitsEnd
<1>3. "end" \notin Digit /\ t[Len(t)] = "end"
  BY DEF Digit, Whole
<1>4. PICK e : e = DigitsEnd(t, q)
  OBVIOUS
<1>5. e \in q .. Len(t) + 1 /\ (e <= Len(t) => t[e] \in S) /\ \A k \in q .. e - 1 : t[k] \notin S
  BY <1>2, <1>4 DEF IsFirst
<1>6. e # Len(t) + 1
  <2>1. SUFFICES ASSUME e = Len(t) + 1 PROVE FALSE
    OBVIOUS
  <2>2. Len(t) \in q .. e - 1 /\ Len(t) \in 1 .. Len(t)
    BY <1>1, <2>1
  <2>3. t[Len(t)] \notin S /\ t[Len(t)] \in Token
    BY <1>1, <1>5, <2>2
  <2>4. QED
    BY <1>3, <2>3
<1>7. e \in q .. Len(t) /\ e \in 1 .. Len(t)
  BY <1>1, <1>5, <1>6
<1>8. At(t, e) \notin Digit
  BY <1>1, <1>5, <1>7
<1>9. ASSUME NEW k \in q .. e - 1 PROVE t[k] \in Digit
  <2>1. k \in 1 .. Len(t) /\ t[k] \notin S
    BY <1>1, <1>5, <1>7
  <2>2. QED
    BY <1>1, <2>1
<1>10. ASSUME NEW r \in q .. Len(t), \A k \in q .. r - 1 : t[k] \in Digit, t[r] \notin Digit PROVE e = r
  <2>1. r \in 1 .. Len(t)
    BY <1>1
  <2>2. IsFirst(t, q, S, r)
    BY <1>1, <1>10, <2>1 DEF IsFirst
  <2>3. QED
    BY <1>2, <1>4, <2>2
<1>11. QED
  BY <1>4, <1>7, <1>8, <1>9, <1>10

\* Where its parts are.
LEMMA NumberBounds ==
  ASSUME NEW t, Whole(t), NEW p \in Places(t), At(t, p) \in Digit \cup {"-"}
  PROVE  /\ p \in Nat /\ p >= 1 /\ p < Len(t) /\ Len(t) \in Nat
         /\ From(t, p) \in p .. Len(t) /\ PointAt(t, p) \in From(t, p) .. Len(t)
         /\ HasFraction(t, p) => PointAt(t, p) < Len(t)
         /\ ExponentAt(t, p) \in PointAt(t, p) .. Len(t)
         /\ HasExponent(t, p) => PowerAt(t, p) \in ExponentAt(t, p) + 1 .. Len(t)
         /\ LastAt(t, p) \in p + 1 .. Len(t)
<1>1. p \in Nat /\ p >= 1 /\ Len(t) \in Nat
  BY WholeAt
<1>2. "end" \notin Digit \cup {"-"}
  BY DEF Digit
<1>3. p < Len(t)
  BY <1>1, <1>2, WholeAt
<1>4. From(t, p) \in p .. Len(t) /\ (At(t, p) = "-" => From(t, p) = p + 1) /\ (At(t, p) # "-" => From(t, p) = p)
  BY <1>1, <1>3 DEF From
<1> HIDE DEF From
<1>5. PICK x : x = PointAt(t, p)
  OBVIOUS
<1>6. x \in From(t, p) .. Len(t) /\ x \in Nat /\ At(t, x) \notin Digit
  BY <1>1, <1>4, <1>5, DigitsEndIs DEF PointAt
<1>7. HasFraction(t, p) => x < Len(t)
  BY <1>1, <1>4, <1>5, <1>6, WholeAt DEF HasFraction
<1>8. PICK y : y = ExponentAt(t, p)
  OBVIOUS
<1>9. y \in x .. Len(t) /\ y \in Nat /\ y >= 1
  <2>1. CASE HasFraction(t, p)
    <3>1. x + 1 \in Nat /\ x + 1 >= 1 /\ x + 1 <= Len(t)
      BY <1>1, <1>4, <1>6, <1>7, <2>1
    <3>2. y \in x + 1 .. Len(t)
      BY <1>5, <1>8, <2>1, <3>1, DigitsEndIs DEF ExponentAt
    <3>3. QED
      BY <1>1, <1>6, <3>2
  <2>2. CASE ~HasFraction(t, p)
    BY <1>1, <1>4, <1>5, <1>6, <1>8, <2>2 DEF ExponentAt
  <2>3. QED
    BY <2>1, <2>2
<1>10. HasExponent(t, p) => PowerAt(t, p) \in y + 1 .. Len(t)
  <2>1. SUFFICES ASSUME HasExponent(t, p) PROVE PowerAt(t, p) \in y + 1 .. Len(t)
    OBVIOUS
  <2>2. At(t, y) = "e"
    BY <1>8, <2>1 DEF HasExponent
  <2>3. y < Len(t)
    BY <1>9, <2>2, WholeAt
  <2>4. At(t, y + 1) \in {"+", "-"} => y + 1 < Len(t)
    BY <1>9, WholeAt
  <2>5. QED
    BY <1>1, <1>8, <1>9, <2>3, <2>4 DEF PowerAt
<1>11. LastAt(t, p) \in y .. Len(t)
  <2>1. CASE HasExponent(t, p)
    <3>1. PICK w : w = PowerAt(t, p)
      OBVIOUS
    <3>2. w \in Nat /\ w >= 1 /\ w <= Len(t) /\ w >= y
      BY <1>1, <1>9, <1>10, <2>1, <3>1
    <3>3. LastAt(t, p) \in w .. Len(t)
      BY <2>1, <3>1, <3>2, DigitsEndIs DEF LastAt
    <3>4. QED
      BY <1>1, <1>9, <3>2, <3>3
  <2>2. CASE ~HasExponent(t, p)
    BY <1>1, <1>8, <1>9, <2>2 DEF LastAt
  <2>3. QED
    BY <2>1, <2>2
<1>12. y >= p + 1
  <2>1. CASE At(t, p) = "-"
    BY <1>1, <1>4, <1>6, <1>9, <2>1
  <2>2. CASE At(t, p) # "-"
    <3>1. x # p
      BY <1>6, <2>2
    <3>2. QED
      BY <1>1, <1>4, <1>6, <1>9, <2>2, <3>1
  <2>3. QED
    BY <2>1, <2>2
<1>13. LastAt(t, p) \in p + 1 .. Len(t)
  BY <1>1, <1>9, <1>11, <1>12
<1>14. QED
  BY <1>1, <1>3, <1>4, <1>5, <1>6, <1>7, <1>8, <1>9, <1>10, <1>13

LEMMA NumberSound ==
  ASSUME NEW t, Whole(t), NEW p \in Places(t), At(t, p) \in Digit \cup {"-"}
  PROVE  Sound(t, p, Number(t, p))
<1>1. LastAt(t, p) \in p + 1 .. Len(t)
  BY NumberBounds
<1>2. QED
  BY <1>1, NumberIs DEF Sound

-----------------------------------------------------------------------------
(* The number of some digits.                                              *)

Summed(t, p, f, k) == IF k = p THEN 0 ELSE f[k - 1] * 10 + Value(t[k - 1])

LEMMA DecimalsExist ==
  ASSUME NEW t, Len(t) \in Nat, NEW p \in Nat
  PROVE  \E f : f = [k \in p .. Len(t) |-> Summed(t, p, f, k)]
<1> DEFINE Upto(m) == \E f : \A k \in p .. p + m : f[k] = Summed(t, p, f, k)
           Bad == {m \in Nat : ~Upto(m)}
<1>1. Bad = {}
  <2>1. SUFFICES ASSUME Bad # {} PROVE FALSE
    OBVIOUS
  <2>2. Bad \subseteq Nat
    OBVIOUS
  <2>3. PICK m \in Bad : \A y \in Bad : m <= y
    BY <2>1, <2>2, Least
  <2>4. m \in Nat /\ ~Upto(m)
    BY <2>3
  <2>5. \E f : \A k \in p .. p + m - 1 : f[k] = Summed(t, p, f, k)
    <3>1. CASE m = 0
      BY <2>4, <3>1
    <3>2. CASE m # 0
      <4>1. m - 1 \in Nat /\ ~(m <= m - 1) /\ p + (m - 1) = p + m - 1
        BY <2>4, <3>2
      <4>2. m - 1 \notin Bad
        BY <2>3, <4>1
      <4>3. Upto(m - 1)
        BY <4>1, <4>2
      <4>4. QED
        BY <4>1, <4>3
    <3>3. QED
      BY <3>1, <3>2
  <2>6. PICK f : \A k \in p .. p + m - 1 : f[k] = Summed(t, p, f, k)
    BY <2>5
  <2> DEFINE h == [k \in p .. p + m |-> IF k = p + m THEN Summed(t, p, f, k) ELSE f[k]]
  <2>7. \A k \in p .. p + m : h[k] = IF k = p + m THEN Summed(t, p, f, k) ELSE f[k]
    OBVIOUS
  <2> HIDE DEF h
  <2>8. ASSUME NEW k \in p .. p + m PROVE h[k] = Summed(t, p, h, k)
    <3>1. k # p => k - 1 \in p .. p + m /\ k - 1 # p + m
      BY <2>4
    <3>2. k # p => h[k - 1] = f[k - 1]
      BY <2>7, <3>1
    <3>3. Summed(t, p, h, k) = Summed(t, p, f, k)
      BY <3>2 DEF Summed
    <3>4. k # p + m => k \in p .. p + m - 1
      BY <2>4
    <3>5. QED
      BY <2>6, <2>7, <3>3, <3>4
  <2>9. QED
    BY <2>4, <2>8
<1>2. \E f : \A k \in p .. Len(t) : f[k] = Summed(t, p, f, k)
  <2>1. CASE p <= Len(t)
    <3>1. Len(t) - p \in Nat /\ p + (Len(t) - p) = Len(t)
      BY <2>1
    <3>2. Len(t) - p \notin Bad
      BY <1>1
    <3>3. Upto(Len(t) - p)
      BY <3>1, <3>2
    <3>4. QED
      BY <3>1, <3>3
  <2>2. CASE ~(p <= Len(t))
    BY <2>2
  <2>3. QED
    BY <2>1, <2>2
<1>3. PICK f : \A k \in p .. Len(t) : f[k] = Summed(t, p, f, k)
  BY <1>2
<1> DEFINE h == [k \in p .. Len(t) |-> f[k]]
<1>4. \A k \in p .. Len(t) : h[k] = f[k]
  OBVIOUS
<1>5. h = [k \in p .. Len(t) |-> h[k]]
  BY <1>4
<1> HIDE DEF h
<1>6. ASSUME NEW k \in p .. Len(t) PROVE h[k] = Summed(t, p, h, k)
  <2>1. k # p => k - 1 \in p .. Len(t)
    OBVIOUS
  <2>2. QED
    BY <1>3, <1>4, <2>1 DEF Summed
<1>7. h = [k \in p .. Len(t) |-> Summed(t, p, h, k)]
  BY <1>5, <1>6
<1>8. QED
  BY <1>7

LEMMA DecimalNext ==
  ASSUME NEW t, Len(t) \in Nat, NEW p \in Nat
  PROVE  /\ p <= Len(t) => Decimal(t, p, p) = 0
         /\ \A q \in p .. Len(t) - 1 : Decimal(t, p, q + 1) = Decimal(t, p, q) * 10 + Value(t[q])
<1> DEFINE U(f) == [k \in p .. Len(t) |-> IF k = p THEN 0 ELSE f[k - 1] * 10 + Value(t[k - 1])]
           G == CHOOSE f : f = U(f)
<1>1. \A f : U(f) = [k \in p .. Len(t) |-> Summed(t, p, f, k)]
  BY Zenon DEF Summed
<1>2. \A q : Decimal(t, p, q) = G[q]
  BY Zenon DEF Decimal
<1>3. \E f : f = U(f)
  <2>1. PICK f : f = [k \in p .. Len(t) |-> Summed(t, p, f, k)]
    BY DecimalsExist
  <2>2. f = U(f)
    BY <1>1, <2>1, Zenon
  <2>3. QED
    BY <2>2, Zenon
<1>4. G = U(G)
  <2> HIDE DEF U
  <2>1. QED
    BY <1>3, Zenon
<1> HIDE DEF G, U
<1>5. G = [k \in p .. Len(t) |-> Summed(t, p, G, k)]
  BY <1>1, <1>4
<1>6. \A k \in p .. Len(t) : G[k] = Summed(t, p, G, k)
  BY <1>5
<1>7. p <= Len(t) => G[p] = 0
  BY <1>6 DEF Summed
<1>8. ASSUME NEW q \in p .. Len(t) - 1 PROVE G[q + 1] = G[q] * 10 + Value(t[q])
  <2>1. q + 1 \in p .. Len(t) /\ q + 1 # p /\ (q + 1) - 1 = q
    OBVIOUS
  <2>2. G[q + 1] = Summed(t, p, G, q + 1)
    BY <1>6, <2>1
  <2>3. QED
    BY <2>1, <2>2 DEF Summed
<1>9. QED
  BY <1>2, <1>7, <1>8

LEMMA DecimalNat ==
  ASSUME NEW t, Len(t) \in Nat, NEW p \in Nat
  PROVE  /\ \A q \in p .. Len(t) : Decimal(t, p, q) \in Nat
         /\ \A q, r \in p .. Len(t) : q <= r => Decimal(t, p, q) <= Decimal(t, p, r)
<1>1. \A b : Value(b) \in Nat
  BY DEF Value
<1> DEFINE Bad == {q \in p .. Len(t) : Decimal(t, p, q) \notin Nat}
<1>2. Bad = {}
  <2>1. SUFFICES ASSUME Bad # {} PROVE FALSE
    OBVIOUS
  <2>2. Bad \subseteq Nat
    OBVIOUS
  <2>3. PICK q \in Bad : \A y \in Bad : q <= y
    BY <2>1, <2>2, Least
  <2>4. q # p
    BY <2>3, DecimalNext
  <2>5. q - 1 \in p .. Len(t) - 1 /\ (q - 1) + 1 = q /\ q - 1 \in p .. Len(t) /\ ~(q <= q - 1)
    BY <2>3, <2>4
  <2>6. Decimal(t, p, q - 1) \in Nat
    BY <2>3, <2>5
  <2>7. Decimal(t, p, q) = Decimal(t, p, q - 1) * 10 + Value(t[q - 1])
    BY <2>5, DecimalNext
  <2>8. Decimal(t, p, q) \in Nat
    BY <1>1, <2>6, <2>7
  <2>9. QED
    BY <2>3, <2>8
<1>3. \A q \in p .. Len(t) : Decimal(t, p, q) \in Nat
  BY <1>2
<1>4. ASSUME NEW q \in p .. Len(t)
      PROVE  \A r \in p .. Len(t) : q <= r => Decimal(t, p, q) <= Decimal(t, p, r)
  <2> DEFINE Low == {r \in p .. Len(t) : q <= r /\ ~(Decimal(t, p, q) <= Decimal(t, p, r))}
  <2>1. Low = {}
    <3>1. SUFFICES ASSUME Low # {} PROVE FALSE
      OBVIOUS
    <3>2. Low \subseteq Nat
      OBVIOUS
    <3>3. PICK r \in Low : \A y \in Low : r <= y
      BY <3>1, <3>2, Least
    <3>4. Decimal(t, p, q) \in Nat /\ Decimal(t, p, r) \in Nat
      BY <1>3, <3>3
    <3>5. r # q
      BY <3>3, <3>4
    <3>6. r - 1 \in p .. Len(t) - 1 /\ (r - 1) + 1 = r /\ r - 1 \in p .. Len(t) /\ ~(r <= r - 1) /\ q <= r - 1
      BY <3>3, <3>5
    <3>7. Decimal(t, p, q) <= Decimal(t, p, r - 1) /\ Decimal(t, p, r - 1) \in Nat
      BY <1>3, <3>3, <3>6
    <3>8. Decimal(t, p, r) = Decimal(t, p, r - 1) * 10 + Value(t[r - 1])
      BY <3>6, DecimalNext
    <3>9. Value(t[r - 1]) \in Nat
      BY <1>1
    <3>10. Decimal(t, p, q) <= Decimal(t, p, r)
      BY <3>4, <3>7, <3>8, <3>9
    <3>11. QED
      BY <3>3, <3>10
  <2>2. QED
    BY <2>1
<1>5. QED
  BY <1>3, <1>4

-----------------------------------------------------------------------------
(* Values, items and entries: what depends on what m says from k on.       *)

Understood(t, p, r) == Sound(t, p, r.value) /\ Listed(t, p, r.items) /\ Listed(t, p, r.entries)
Knows(t, m, k) == \A q \in k .. Len(t) + 2 : Understood(t, q, m[q])
SameFrom(t, m, h, k) == \A q \in k .. Len(t) + 2 : h[q] = m[q]

LEMMA SkipFrom ==
  ASSUME NEW t, Whole(t), NEW p \in Nat, p >= 1, p <= Len(t) + 2
  PROVE  /\ Len(t) \in Nat /\ p \in Places(t)
         /\ Skip(t, p) \in p .. Len(t) + 2 /\ Skip(t, p) \in Places(t) /\ Skip(t, p) \in Nat
<1>1. Len(t) \in Nat /\ Places(t) = 1 .. Len(t) + 2
  BY WholeAt
<1>2. p \in Places(t)
  BY <1>1
<1>3. Skip(t, p) \in p .. Len(t) + 2
  BY <1>2, SkipBounds
<1>4. QED
  BY <1>1, <1>2, <1>3

LEMMA KnowsFrom ==
  ASSUME NEW t, Len(t) \in Nat, NEW m, NEW j \in Nat, NEW k \in Nat, j <= k
  PROVE  /\ Knows(t, m, j) => Knows(t, m, k)
         /\ \A h : SameFrom(t, m, h, j) => SameFrom(t, m, h, k)
<1>1. \A q \in k .. Len(t) + 2 : q \in j .. Len(t) + 2
  OBVIOUS
<1>2. QED
  BY <1>1 DEF Knows, SameFrom

\* One place behind the token at p, which is not the end.
LEMMA NextPlace ==
  ASSUME NEW t, Whole(t), NEW p \in Places(t), At(t, p) # "end"
  PROVE  /\ p \in Nat /\ p >= 1 /\ p < Len(t) /\ Len(t) \in Nat /\ p + 1 \in p + 1 .. Len(t) /\ p + 1 \in Places(t)
         /\ Skip(t, p + 1) \in p + 1 .. Len(t) + 2 /\ Skip(t, p + 1) \in Nat
<1>1. p \in Nat /\ p >= 1 /\ Len(t) \in Nat /\ p < Len(t)
  BY WholeAt
<1>2. p + 1 \in Nat /\ p + 1 >= 1 /\ p + 1 <= Len(t) + 2
  BY <1>1
<1>3. QED
  BY <1>1, <1>2, SkipFrom

LEMMA AfterItemListed ==
  ASSUME NEW t, Whole(t), NEW m, NEW a \in Places(t), Knows(t, m, a + 1)
  PROVE  /\ Listed(t, a, AfterItem(t, m, a))
         /\ \A h : SameFrom(t, m, h, a + 1) => AfterItem(t, h, a) = AfterItem(t, m, a)
<1>1. CASE At(t, a) = "comma"
  <2>1. PICK q : q = Skip(t, a + 1)
    OBVIOUS
  <2>2. q \in a + 1 .. Len(t) + 2 /\ q \in Nat /\ a \in Nat /\ a <= q /\ Len(t) \in Nat
    BY <1>1, <2>1, NextPlace
  <2>3. \A h : AfterItem(t, h, a) = h[q].items
    BY <1>1, <2>1 DEF AfterItem
  <2>4. Listed(t, q, m[q].items)
    BY <2>2 DEF Knows, Understood
  <2>5. Listed(t, a, m[q].items)
    BY <2>2, <2>4, ListedBefore
  <2>6. QED
    BY <2>2, <2>3, <2>5 DEF SameFrom
<1>2. CASE At(t, a) = "]"
  <2>1. a + 1 \in a + 1 .. Len(t)
    BY <1>2, NextPlace
  <2>2. \A h : AfterItem(t, h, a) = Result(<<>>, a + 1)
    BY <1>2 DEF AfterItem
  <2>3. Listed(t, a, Result(<<>>, a + 1))
    BY <2>1, SeqFacts DEF Listed
  <2>4. QED
    BY <2>2, <2>3
<1>3. CASE At(t, a) \notin {"comma", "]"}
  <2>1. \A h : AfterItem(t, h, a) = None
    BY <1>3 DEF AfterItem
  <2>2. QED
    BY <2>1 DEF Listed
<1>4. QED
  BY <1>1, <1>2, <1>3

LEMMA AfterEntryListed ==
  ASSUME NEW t, Whole(t), NEW m, NEW a \in Places(t), Knows(t, m, a + 1)
  PROVE  /\ Listed(t, a, AfterEntry(t, m, a))
         /\ \A h : SameFrom(t, m, h, a + 1) => AfterEntry(t, h, a) = AfterEntry(t, m, a)
<1>1. CASE At(t, a) = "comma"
  <2>1. PICK q : q = Skip(t, a + 1)
    OBVIOUS
  <2>2. q \in a + 1 .. Len(t) + 2 /\ q \in Nat /\ a \in Nat /\ a <= q /\ Len(t) \in Nat
    BY <1>1, <2>1, NextPlace
  <2>3. \A h : AfterEntry(t, h, a) = h[q].entries
    BY <1>1, <2>1 DEF AfterEntry
  <2>4. Listed(t, q, m[q].entries)
    BY <2>2 DEF Knows, Understood
  <2>5. Listed(t, a, m[q].entries)
    BY <2>2, <2>4, ListedBefore
  <2>6. QED
    BY <2>2, <2>3, <2>5 DEF SameFrom
<1>2. CASE At(t, a) = "rbrace"
  <2>1. a + 1 \in a + 1 .. Len(t)
    BY <1>2, NextPlace
  <2>2. \A h : AfterEntry(t, h, a) = Result(<<>>, a + 1)
    BY <1>2 DEF AfterEntry
  <2>3. Listed(t, a, Result(<<>>, a + 1))
    BY <2>1, SeqFacts DEF Listed
  <2>4. QED
    BY <2>2, <2>3
<1>3. CASE At(t, a) \notin {"comma", "rbrace"}
  <2>1. \A h : AfterEntry(t, h, a) = None
    BY <1>3 DEF AfterEntry
  <2>2. QED
    BY <2>1 DEF Listed
<1>4. QED
  BY <1>1, <1>2, <1>3

LEMMA EntryListed ==
  ASSUME NEW t, Whole(t), NEW m, NEW p \in Places(t), Knows(t, m, p), NEW name
  PROVE  /\ Listed(t, p, EntryAt(t, m, name, p))
         /\ \A h : SameFrom(t, m, h, p) => EntryAt(t, h, name, p) = EntryAt(t, m, name, p)
<1>1. PICK v : v = m[p].value
  OBVIOUS
<1>2. p \in p .. Len(t) + 2 /\ p \in Nat /\ p >= 1 /\ Len(t) \in Nat
  BY WholeAt
<1>3. Sound(t, p, v)
  BY <1>1, <1>2 DEF Knows, Understood
<1>4. \A h : SameFrom(t, m, h, p) => h[p].value = v
  BY <1>1, <1>2 DEF SameFrom
<1>5. CASE ~v.ok
  <2>1. EntryAt(t, m, name, p) = None
    BY <1>1, <1>5 DEF EntryAt
  <2>2. \A h : SameFrom(t, m, h, p) => EntryAt(t, h, name, p) = None
    BY <1>4, <1>5 DEF EntryAt
  <2>3. QED
    BY <2>1, <2>2 DEF Listed
<1>6. CASE v.ok
  <2>1. v.behind \in p + 1 .. Len(t)
    BY <1>3, <1>6, SoundFields
  <2>2. PICK a : a = Skip(t, v.behind)
    OBVIOUS
  <2>3. v.behind \in Nat /\ v.behind >= 1 /\ v.behind <= Len(t) + 2
    BY <1>2, <2>1
  <2>4. a \in v.behind .. Len(t) + 2 /\ a \in Places(t) /\ a \in Nat
    BY <2>2, <2>3, SkipFrom
  <2>5. p <= a + 1 /\ p <= a /\ a + 1 \in Nat
    BY <1>2, <2>1, <2>4
  <2>6. Knows(t, m, a + 1) /\ \A h : SameFrom(t, m, h, p) => SameFrom(t, m, h, a + 1)
    BY <1>2, <2>5, KnowsFrom
  <2>7. /\ Listed(t, a, AfterEntry(t, m, a))
        /\ \A h : SameFrom(t, m, h, p) => AfterEntry(t, h, a) = AfterEntry(t, m, a)
    BY <2>4, <2>6, AfterEntryListed
  <2> DEFINE e == <<[name |-> name, value |-> v.value]>>
  <2>8. IsSeq(e)
    BY SeqFacts
  <2>9. EntryAt(t, m, name, p) = Joined(e, AfterEntry(t, m, a))
    BY <1>1, <1>6, <2>2 DEF EntryAt
  <2>10. \A h : SameFrom(t, m, h, p) => EntryAt(t, h, name, p) = Joined(e, AfterEntry(t, h, a))
    BY <1>4, <1>6, <2>2 DEF EntryAt
  <2> HIDE DEF e
  <2>11. Listed(t, a, Joined(e, AfterEntry(t, m, a)))
    BY <2>7, <2>8, ListedFields
  <2>12. Listed(t, p, Joined(e, AfterEntry(t, m, a)))
    BY <1>2, <2>4, <2>5, <2>11, ListedBefore
  <2>13. QED
    BY <2>7, <2>9, <2>10, <2>12
<1>7. QED
  BY <1>5, <1>6

LEMMA AfterNameListed ==
  ASSUME NEW t, Whole(t), NEW m, NEW a \in Places(t), Knows(t, m, a + 1), NEW name
  PROVE  /\ Listed(t, a, AfterName(t, m, name, a))
         /\ \A h : SameFrom(t, m, h, a + 1) => AfterName(t, h, name, a) = AfterName(t, m, name, a)
<1>1. CASE At(t, a) = ":"
  <2>1. PICK q : q = Skip(t, a + 1)
    OBVIOUS
  <2>2. q \in a + 1 .. Len(t) + 2 /\ q \in Nat /\ a \in Nat /\ a <= q /\ Len(t) \in Nat /\ a + 1 \in Nat /\ a + 1 <= q
        /\ q \in Places(t)
    BY <1>1, <2>1, NextPlace, WholeAt
  <2>3. \A h : AfterName(t, h, name, a) = EntryAt(t, h, name, q)
    BY <1>1, <2>1 DEF AfterName
  <2>4. Knows(t, m, q) /\ \A h : SameFrom(t, m, h, a + 1) => SameFrom(t, m, h, q)
    BY <2>2, KnowsFrom
  <2>5. /\ Listed(t, q, EntryAt(t, m, name, q))
        /\ \A h : SameFrom(t, m, h, a + 1) => EntryAt(t, h, name, q) = EntryAt(t, m, name, q)
    BY <2>2, <2>4, EntryListed
  <2>6. Listed(t, a, EntryAt(t, m, name, q))
    BY <2>2, <2>5, ListedBefore
  <2>7. QED
    BY <2>3, <2>5, <2>6
<1>2. CASE At(t, a) # ":"
  <2>1. \A h : AfterName(t, h, name, a) = None
    BY <1>2 DEF AfterName
  <2>2. QED
    BY <2>1 DEF Listed
<1>3. QED
  BY <1>1, <1>2

LEMMA HolderSound ==
  ASSUME NEW t, NEW p, NEW r, Listed(t, p, r), NEW type
  PROVE  Sound(t, p, Holder(type, r))
<1>1. CASE r = None
  BY <1>1, HolderFields DEF Sound
<1>2. CASE r # None
  <2>1. PICK v, q : r = Result(v, q) /\ q \in p + 1 .. Len(t)
    BY <1>2 DEF Listed
  <2>2. Holder(type, r) = Result([type |-> type, items |-> v], q)
    BY <2>1, HolderFields
  <2>3. QED
    BY <2>1, <2>2 DEF Sound
<1>3. QED
  BY <1>1, <1>2

LEMMA ValueSound ==
  ASSUME NEW t, Whole(t), NEW m, NEW p \in Places(t), Knows(t, m, p + 1)
  PROVE  /\ Sound(t, p, ValueAt(t, m, p))
         /\ \A h : SameFrom(t, m, h, p + 1) => ValueAt(t, h, p) = ValueAt(t, m, p)
<1>0. "quote" \notin Digit \cup {"-"} /\ "literal" \notin Digit \cup {"-"} /\ "[" \notin Digit \cup {"-"}
      /\ "lbrace" \notin Digit \cup {"-"}
  BY DEF Digit
<1>1. CASE At(t, p) = "quote"
  <2>1. p \in Nat /\ p + 1 \in Nat /\ p <= p + 1 /\ p + 1 \in Places(t) /\ Len(t) \in Nat
    BY <1>1, NextPlace
  <2>2. PICK s : s = Letters(t)[p + 1]
    OBVIOUS
  <2>3. Listed(t, p + 1, s)
    BY <2>1, <2>2, LettersDefined
  <2>4. Listed(t, p, s)
    BY <2>1, <2>3, ListedBefore
  <2>5. \A h : ValueAt(t, h, p) = IF s.ok THEN Result([type |-> "string", bytes |-> s.value], s.behind) ELSE None
    BY <1>0, <1>1, <2>2 DEF ValueAt
  <2>6. s.ok => s.behind \in p + 1 .. Len(t)
    BY <2>4, ListedFields
  <2>7. PICK r : r = IF s.ok THEN Result([type |-> "string", bytes |-> s.value], s.behind) ELSE None
    OBVIOUS
  <2>8. Sound(t, p, r)
    BY <2>6, <2>7 DEF Sound
  <2>9. QED
    BY <2>5, <2>7, <2>8
<1>2. CASE At(t, p) = "literal"
  <2>1. p + 1 \in p + 1 .. Len(t)
    BY <1>2, NextPlace
  <2>2. \A h : ValueAt(t, h, p) = Result([type |-> "literal"], p + 1)
    BY <1>0, <1>2 DEF ValueAt
  <2>3. PICK r : r = Result([type |-> "literal"], p + 1)
    OBVIOUS
  <2>4. Sound(t, p, r)
    BY <2>1, <2>3, Zenon DEF Sound
  <2>5. QED
    BY <2>2, <2>3, <2>4
<1>3. CASE At(t, p) \in Digit \cup {"-"}
  <2>1. \A h : ValueAt(t, h, p) = Number(t, p)
    BY <1>0, <1>3 DEF ValueAt
  <2>2. QED
    BY <1>3, <2>1, NumberSound
<1>4. CASE At(t, p) \in {"[", "lbrace"}
  <2>1. PICK q : q = Skip(t, p + 1)
    OBVIOUS
  <2>2. q \in p + 1 .. Len(t) + 2 /\ q \in Nat /\ p \in Nat /\ p <= q /\ Len(t) \in Nat
    BY <1>4, <2>1, NextPlace
  <2>3. \A h : ValueAt(t, h, p) = IF At(t, p) = "[" THEN Holder("array", h[q].items) ELSE Holder("object", h[q].entries)
    BY <1>0, <1>4, <2>1 DEF ValueAt
  <2>4. Listed(t, q, m[q].items) /\ Listed(t, q, m[q].entries)
    BY <2>2 DEF Knows, Understood
  <2>5. Listed(t, p, m[q].items) /\ Listed(t, p, m[q].entries)
    BY <2>2, <2>4, ListedBefore
  <2>6. Sound(t, p, Holder("array", m[q].items)) /\ Sound(t, p, Holder("object", m[q].entries))
    BY <2>5, HolderSound
  <2>7. \A h : SameFrom(t, m, h, p + 1) => h[q] = m[q]
    BY <2>2 DEF SameFrom
  <2>8. QED
    BY <2>3, <2>6, <2>7
<1>5. CASE At(t, p) \notin Digit \cup {"-", "quote", "literal", "[", "lbrace"}
  <2>1. \A h : ValueAt(t, h, p) = None
    BY <1>5 DEF ValueAt
  <2>2. QED
    BY <2>1 DEF Sound
<1>6. QED
  BY <1>1, <1>2, <1>3, <1>4, <1>5

LEMMA ItemsListed ==
  ASSUME NEW t, Whole(t), NEW m, NEW p \in Places(t), Knows(t, m, p + 1), NEW v, Sound(t, p, v)
  PROVE  /\ Listed(t, p, ItemsAt(t, m, v, p))
         /\ \A h : SameFrom(t, m, h, p + 1) => ItemsAt(t, h, v, p) = ItemsAt(t, m, v, p)
<1>0. p \in Nat /\ p >= 1 /\ Len(t) \in Nat
  BY WholeAt
<1>1. CASE At(t, p) = "]"
  <2>1. p + 1 \in p + 1 .. Len(t)
    BY <1>1, NextPlace
  <2>2. \A h : ItemsAt(t, h, v, p) = Result(<<>>, p + 1)
    BY <1>1 DEF ItemsAt
  <2>3. Listed(t, p, Result(<<>>, p + 1))
    BY <2>1, SeqFacts DEF Listed
  <2>4. QED
    BY <2>2, <2>3
<1>2. CASE At(t, p) # "]" /\ ~v.ok
  <2>1. \A h : ItemsAt(t, h, v, p) = None
    BY <1>2 DEF ItemsAt
  <2>2. QED
    BY <2>1 DEF Listed
<1>3. CASE At(t, p) # "]" /\ v.ok
  <2>1. v.behind \in p + 1 .. Len(t)
    BY <1>3, SoundFields
  <2>2. PICK a : a = Skip(t, v.behind)
    OBVIOUS
  <2>3. v.behind \in Nat /\ v.behind >= 1 /\ v.behind <= Len(t) + 2
    BY <1>0, <2>1
  <2>4. a \in v.behind .. Len(t) + 2 /\ a \in Places(t) /\ a \in Nat
    BY <2>2, <2>3, SkipFrom
  <2>5. p + 1 <= a + 1 /\ p <= a /\ a + 1 \in Nat /\ p + 1 \in Nat
    BY <1>0, <2>1, <2>4
  <2>6. Knows(t, m, a + 1) /\ \A h : SameFrom(t, m, h, p + 1) => SameFrom(t, m, h, a + 1)
    BY <1>0, <2>5, KnowsFrom
  <2>7. /\ Listed(t, a, AfterItem(t, m, a))
        /\ \A h : SameFrom(t, m, h, p + 1) => AfterItem(t, h, a) = AfterItem(t, m, a)
    BY <2>4, <2>6, AfterItemListed
  <2> DEFINE e == <<v.value>>
  <2>8. IsSeq(e)
    BY SeqFacts
  <2>9. \A h : ItemsAt(t, h, v, p) = Joined(e, AfterItem(t, h, a))
    BY <1>3, <2>2 DEF ItemsAt
  <2> HIDE DEF e
  <2>10. Listed(t, a, Joined(e, AfterItem(t, m, a)))
    BY <2>7, <2>8, ListedFields
  <2>11. Listed(t, p, Joined(e, AfterItem(t, m, a)))
    BY <1>0, <2>4, <2>5, <2>10, ListedBefore
  <2>12. QED
    BY <2>7, <2>9, <2>11
<1>4. QED
  BY <1>1, <1>2, <1>3

LEMMA EntriesListed ==
  ASSUME NEW t, Whole(t), NEW m, NEW p \in Places(t), Knows(t, m, p + 1)
  PROVE  /\ Listed(t, p, EntriesAt(t, m, p))
         /\ \A h : SameFrom(t, m, h, p + 1) => EntriesAt(t, h, p) = EntriesAt(t, m, p)
<1>0. p \in Nat /\ p >= 1 /\ Len(t) \in Nat
  BY WholeAt
<1>1. CASE At(t, p) = "rbrace"
  <2>1. p + 1 \in p + 1 .. Len(t)
    BY <1>1, NextPlace
  <2>2. \A h : EntriesAt(t, h, p) = Result(<<>>, p + 1)
    BY <1>1 DEF EntriesAt
  <2>3. Listed(t, p, Result(<<>>, p + 1))
    BY <2>1, SeqFacts DEF Listed
  <2>4. QED
    BY <2>2, <2>3
<1>2. PICK s : s = Letters(t)[p + 1]
  OBVIOUS
<1>3. CASE At(t, p) = "quote" /\ s.ok
  <2>1. p + 1 \in Places(t) /\ p + 1 \in Nat
    BY <1>3, NextPlace
  <2>2. s.behind \in p + 2 .. Len(t)
    <3>1. Listed(t, p + 1, s)
      BY <1>2, <2>1, LettersDefined
    <3>2. s.behind \in (p + 1) + 1 .. Len(t)
      BY <1>3, <3>1, ListedFields
    <3>3. QED
      BY <1>0, <3>2
  <2>3. PICK a : a = Skip(t, s.behind)
    OBVIOUS
  <2>4. s.behind \in Nat /\ s.behind >= 1 /\ s.behind <= Len(t) + 2
    BY <1>0, <2>2
  <2>5. a \in s.behind .. Len(t) + 2 /\ a \in Places(t) /\ a \in Nat
    BY <2>3, <2>4, SkipFrom
  <2>6. p + 1 <= a + 1 /\ p <= a /\ a + 1 \in Nat
    BY <1>0, <2>2, <2>5
  <2>7. Knows(t, m, a + 1) /\ \A h : SameFrom(t, m, h, p + 1) => SameFrom(t, m, h, a + 1)
    BY <1>0, <2>1, <2>6, KnowsFrom
  <2>8. /\ Listed(t, a, AfterName(t, m, s.value, a))
        /\ \A h : SameFrom(t, m, h, p + 1) => AfterName(t, h, s.value, a) = AfterName(t, m, s.value, a)
    BY <2>5, <2>7, AfterNameListed
  <2>9. \A h : EntriesAt(t, h, p) = AfterName(t, h, s.value, a)
    BY <1>2, <1>3, <2>3 DEF EntriesAt
  <2>10. Listed(t, p, AfterName(t, m, s.value, a))
    BY <1>0, <2>5, <2>6, <2>8, ListedBefore
  <2>11. QED
    BY <2>8, <2>9, <2>10
<1>4. CASE At(t, p) # "rbrace" /\ ~(At(t, p) = "quote" /\ s.ok)
  <2>1. \A h : EntriesAt(t, h, p) = None
    BY <1>2, <1>4 DEF EntriesAt
  <2>2. QED
    BY <2>1 DEF Listed
<1>5. QED
  BY <1>1, <1>3, <1>4

Meant(t, m, p) ==
  [value |-> ValueAt(t, m, p), items |-> ItemsAt(t, m, ValueAt(t, m, p), p), entries |-> EntriesAt(t, m, p)]

LEMMA MeantUnderstood ==
  ASSUME NEW t, Whole(t), NEW m, NEW p \in Places(t), Knows(t, m, p + 1)
  PROVE  /\ Understood(t, p, Meant(t, m, p))
         /\ \A h : SameFrom(t, m, h, p + 1) => Meant(t, h, p) = Meant(t, m, p)
<1>1. PICK v : v = ValueAt(t, m, p)
  OBVIOUS
<1>2. Sound(t, p, v) /\ \A h : SameFrom(t, m, h, p + 1) => ValueAt(t, h, p) = v
  BY <1>1, ValueSound
<1>3. /\ Listed(t, p, ItemsAt(t, m, v, p))
      /\ \A h : SameFrom(t, m, h, p + 1) => ItemsAt(t, h, v, p) = ItemsAt(t, m, v, p)
  BY <1>2, ItemsListed
<1>4. /\ Listed(t, p, EntriesAt(t, m, p))
      /\ \A h : SameFrom(t, m, h, p + 1) => EntriesAt(t, h, p) = EntriesAt(t, m, p)
  BY EntriesListed
<1>5. Understood(t, p, Meant(t, m, p))
  BY <1>1, <1>2, <1>3, <1>4 DEF Understood, Meant
<1>6. \A h : SameFrom(t, m, h, p + 1) => Meant(t, h, p) = Meant(t, m, p)
  BY <1>1, <1>2, <1>3, <1>4 DEF Meant
<1>7. QED
  BY <1>5, <1>6

LEMMA MeaningsExist ==
  ASSUME NEW t, Whole(t)
  PROVE  \E f : f = [p \in Places(t) |-> Meant(t, f, p)]
<1> DEFINE N == Len(t) + 2
           Upto(k) == \E f : \A p \in k .. N : f[p] = Meant(t, f, p) /\ Understood(t, p, f[p])
           Bad == {j \in Nat : j < N /\ ~Upto(N - j)}
<1>1. Len(t) \in Nat /\ N \in Nat /\ Places(t) = 1 .. N
  BY WholeAt
<1>2. Bad = {}
  <2>1. SUFFICES ASSUME Bad # {} PROVE FALSE
    OBVIOUS
  <2>2. Bad \subseteq Nat
    OBVIOUS
  <2>3. PICK j \in Bad : \A y \in Bad : j <= y
    BY <2>1, <2>2, Least
  <2>4. PICK k : k = N - j
    OBVIOUS
  <2>5. j \in Nat /\ k \in 1 .. N /\ ~Upto(k)
    BY <1>1, <2>3, <2>4
  <2>6. \E f : \A p \in k + 1 .. N : f[p] = Meant(t, f, p) /\ Understood(t, p, f[p])
    <3>1. CASE j = 0
      BY <1>1, <2>4, <2>5, <3>1
    <3>2. CASE j # 0
      <4>1. j - 1 \in Nat /\ j - 1 < N /\ ~(j <= j - 1) /\ N - (j - 1) = k + 1
        BY <1>1, <2>3, <2>4, <2>5, <3>2
      <4>2. j - 1 \notin Bad
        BY <2>3, <4>1
      <4>3. Upto(N - (j - 1))
        BY <4>1, <4>2
      <4>4. QED
        BY <4>1, <4>3
    <3>3. QED
      BY <3>1, <3>2
  <2>7. PICK f : \A p \in k + 1 .. N : f[p] = Meant(t, f, p) /\ Understood(t, p, f[p])
    BY <2>6
  <2> DEFINE h == [p \in k .. N |-> IF p = k THEN Meant(t, f, k) ELSE f[p]]
  <2>8. \A p \in k .. N : h[p] = IF p = k THEN Meant(t, f, k) ELSE f[p]
    OBVIOUS
  <2> HIDE DEF h
  <2>9. ASSUME NEW p \in k .. N PROVE h[p] = Meant(t, h, p) /\ Understood(t, p, h[p])
    <3>1. p \in Places(t)
      BY <1>1, <2>5
    <3>2. \A q \in p + 1 .. N : q \in k + 1 .. N /\ q \in k .. N /\ q # k
      BY <1>1, <2>5
    <3>3. Knows(t, f, p + 1) /\ SameFrom(t, f, h, p + 1)
      BY <2>7, <2>8, <3>2 DEF Knows, SameFrom
    <3>4. Meant(t, h, p) = Meant(t, f, p) /\ Understood(t, p, Meant(t, f, p))
      BY <3>1, <3>3, MeantUnderstood
    <3>5. p # k => p \in k + 1 .. N
      BY <2>5
    <3>6. QED
      BY <2>7, <2>8, <3>4, <3>5
  <2>10. QED
    BY <2>5, <2>9
<1>3. Upto(1)
  <2>1. N - 1 \in Nat /\ N - 1 < N /\ N - (N - 1) = 1
    BY <1>1
  <2>2. N - 1 \notin Bad
    BY <1>2
  <2>3. Upto(N - (N - 1))
    BY <2>1, <2>2
  <2>4. QED
    BY <2>1, <2>3
<1>4. PICK f : \A p \in 1 .. N : f[p] = Meant(t, f, p) /\ Understood(t, p, f[p])
  BY <1>3
<1> DEFINE h == [p \in 1 .. N |-> f[p]]
<1>5. \A p \in 1 .. N : h[p] = f[p]
  OBVIOUS
<1>6. h = [p \in 1 .. N |-> h[p]]
  BY <1>5
<1> HIDE DEF h
<1>7. ASSUME NEW p \in 1 .. N PROVE h[p] = Meant(t, h, p)
  <2>1. \A q \in p + 1 .. N : q \in 1 .. N
    BY <1>1
  <2>2. Knows(t, f, p + 1) /\ SameFrom(t, f, h, p + 1)
    BY <1>4, <1>5, <2>1 DEF Knows, SameFrom
  <2>3. Meant(t, h, p) = Meant(t, f, p)
    BY <1>1, <2>2, MeantUnderstood
  <2>4. QED
    BY <1>4, <1>5, <2>3
<1>8. h = [p \in 1 .. N |-> Meant(t, h, p)]
  BY <1>6, <1>7
<1>9. QED
  BY <1>1, <1>8

LEMMA MeaningsDefined ==
  ASSUME NEW t, Whole(t)
  PROVE  \A p \in Places(t) : /\ Meanings(t)[p] = Meant(t, Meanings(t), p)
                              /\ Understood(t, p, Meanings(t)[p])
<1> DEFINE U(f) == [p \in Places(t) |->
                      LET v == ValueAt(t, f, p)
                      IN  [value |-> v, items |-> ItemsAt(t, f, v, p), entries |-> EntriesAt(t, f, p)]]
<1>1. Meanings(t) = CHOOSE f : f = U(f)
  BY Zenon DEF Meanings
<1>2. ASSUME NEW f PROVE U(f) = [p \in Places(t) |-> Meant(t, f, p)]
  BY Zenon DEF Meant
<1> HIDE DEF U
<1>3. \E f : f = U(f)
  BY <1>2, MeaningsExist
<1>4. Meanings(t) = U(Meanings(t))
  BY <1>1, <1>3, Zenon
<1>5. PICK f : f = Meanings(t)
  OBVIOUS
<1>6. f = [p \in Places(t) |-> Meant(t, f, p)]
  BY <1>2, <1>4, <1>5
<1>7. \A p \in Places(t) : f[p] = Meant(t, f, p)
  BY <1>6
<1> DEFINE N == Len(t) + 2
           Bad == {j \in Nat : j < N /\ ~Understood(t, N - j, f[N - j])}
<1>8. Len(t) \in Nat /\ N \in Nat /\ Places(t) = 1 .. N
  BY WholeAt
<1>9. Bad = {}
  <2>1. SUFFICES ASSUME Bad # {} PROVE FALSE
    OBVIOUS
  <2>2. Bad \subseteq Nat
    OBVIOUS
  <2>3. PICK j \in Bad : \A y \in Bad : j <= y
    BY <2>1, <2>2, Least
  <2>4. PICK k : k = N - j
    OBVIOUS
  <2>5. j \in Nat /\ k \in 1 .. N /\ ~Understood(t, k, f[k])
    BY <1>8, <2>3, <2>4
  <2>6. ASSUME NEW q \in k + 1 .. N PROVE Understood(t, q, f[q])
    <3>1. N - q \in Nat /\ N - q < N /\ ~(j <= N - q) /\ N - (N - q) = q
      BY <1>8, <2>4, <2>5
    <3>2. N - q \notin Bad
      BY <2>3, <3>1
    <3>3. QED
      BY <3>1, <3>2
  <2>7. Understood(t, k, Meant(t, f, k))
    BY <1>8, <2>5, <2>6, MeantUnderstood DEF Knows
  <2>8. QED
    BY <1>7, <1>8, <2>5, <2>7
<1>10. ASSUME NEW p \in Places(t) PROVE Understood(t, p, f[p])
  <2>1. N - p \in Nat /\ N - p < N /\ N - (N - p) = p
    BY <1>8
  <2>2. N - p \notin Bad
    BY <1>9
  <2>3. QED
    BY <2>1, <2>2
<1>11. QED
  BY <1>5, <1>7, <1>10

-----------------------------------------------------------------------------
(* The grammar, with what it says of t.                                    *)

ValueOf(t, p) == Meanings(t)[p].value
ItemsOf(t, p) == Meanings(t)[p].items
EntriesOf(t, p) == Meanings(t)[p].entries
NextItem(t, p) == AfterItem(t, Meanings(t), p)
NextEntry(t, p) == AfterEntry(t, Meanings(t), p)
NamedEntry(t, name, p) == EntryAt(t, Meanings(t), name, p)
FromColon(t, name, p) == AfterName(t, Meanings(t), name, p)

Quoted(s) == IF s.ok THEN Result([type |-> "string", bytes |-> s.value], s.behind) ELSE None
FromName(t, s) == IF s.ok THEN FromColon(t, s.value, Skip(t, s.behind)) ELSE None

LEMMA MeaningsParts ==
  ASSUME NEW t, Whole(t), NEW p \in Places(t)
  PROVE  /\ ValueOf(t, p) = ValueAt(t, Meanings(t), p) /\ Sound(t, p, ValueOf(t, p))
         /\ ItemsOf(t, p) = ItemsAt(t, Meanings(t), ValueOf(t, p), p) /\ Listed(t, p, ItemsOf(t, p))
         /\ EntriesOf(t, p) = EntriesAt(t, Meanings(t), p) /\ Listed(t, p, EntriesOf(t, p))
<1>1. PICK m : m = Meanings(t)
  OBVIOUS
<1>2. m[p] = Meant(t, m, p) /\ Understood(t, p, m[p])
  BY <1>1, MeaningsDefined
<1>3. PICK v, i, e : v = ValueAt(t, m, p) /\ i = ItemsAt(t, m, v, p) /\ e = EntriesAt(t, m, p)
  OBVIOUS
<1>4. m[p] = [value |-> v, items |-> i, entries |-> e]
  BY <1>2, <1>3 DEF Meant
<1>5. m[p].value = v /\ m[p].items = i /\ m[p].entries = e
  BY <1>4
<1>6. Sound(t, p, v) /\ Listed(t, p, i) /\ Listed(t, p, e)
  BY <1>2, <1>5 DEF Understood
<1>7. ValueOf(t, p) = v /\ ItemsOf(t, p) = i /\ EntriesOf(t, p) = e
  BY <1>1, <1>5 DEF ValueOf, ItemsOf, EntriesOf
<1>8. QED
  BY <1>1, <1>3, <1>6, <1>7

LEMMA GrammarValues ==
  ASSUME NEW t, Whole(t), NEW p \in Places(t)
  PROVE  /\ Sound(t, p, ValueOf(t, p))
         /\ At(t, p) = "quote" => ValueOf(t, p) = Quoted(Letters(t)[p + 1])
         /\ At(t, p) = "literal" => ValueOf(t, p) = Result([type |-> "literal"], p + 1)
         /\ At(t, p) \in Digit \cup {"-"} => ValueOf(t, p) = Number(t, p)
         /\ At(t, p) = "[" => ValueOf(t, p) = Holder("array", ItemsOf(t, Skip(t, p + 1)))
         /\ At(t, p) = "lbrace" => ValueOf(t, p) = Holder("object", EntriesOf(t, Skip(t, p + 1)))
         /\ At(t, p) \notin Digit \cup {"-", "quote", "literal", "[", "lbrace"} => ValueOf(t, p) = None
<1>1. ValueOf(t, p) = ValueAt(t, Meanings(t), p) /\ Sound(t, p, ValueOf(t, p))
  BY MeaningsParts
<1>2. "quote" \notin Digit \cup {"-"} /\ "literal" \notin Digit \cup {"-"} /\ "[" \notin Digit \cup {"-"}
      /\ "lbrace" \notin Digit \cup {"-"}
  BY DEF Digit
<1>3. CASE At(t, p) = "quote"
  BY <1>1, <1>2, <1>3 DEF ValueAt, Quoted
<1>4. CASE At(t, p) = "literal"
  BY <1>1, <1>2, <1>4 DEF ValueAt
<1>5. CASE At(t, p) \in Digit \cup {"-"}
  BY <1>1, <1>2, <1>5 DEF ValueAt
<1>6. CASE At(t, p) = "["
  BY <1>1, <1>2, <1>6 DEF ValueAt, ItemsOf
<1>7. CASE At(t, p) = "lbrace"
  BY <1>1, <1>2, <1>7 DEF ValueAt, EntriesOf
<1>8. CASE At(t, p) \notin Digit \cup {"-", "quote", "literal", "[", "lbrace"}
  BY <1>1, <1>2, <1>8 DEF ValueAt
<1>9. QED
  BY <1>3, <1>4, <1>5, <1>6, <1>7, <1>8

LEMMA KnowsMeanings ==
  ASSUME NEW t, Whole(t), NEW k \in Nat, k >= 1
  PROVE  Knows(t, Meanings(t), k)
<1>1. Len(t) \in Nat /\ Places(t) = 1 .. Len(t) + 2
  BY WholeAt
<1>2. \A q \in k .. Len(t) + 2 : q \in Places(t)
  BY <1>1
<1>3. QED
  BY <1>2, MeaningsDefined DEF Knows

LEMMA GrammarItems ==
  ASSUME NEW t, Whole(t), NEW p \in Places(t)
  PROVE  /\ Listed(t, p, ItemsOf(t, p)) /\ Listed(t, p, NextItem(t, p))
         /\ At(t, p) = "]" => ItemsOf(t, p) = Result(<<>>, p + 1) /\ NextItem(t, p) = Result(<<>>, p + 1)
         /\ At(t, p) = "comma" => NextItem(t, p) = ItemsOf(t, Skip(t, p + 1))
         /\ At(t, p) \notin {"]", "comma"} => NextItem(t, p) = None
         /\ At(t, p) # "]" /\ ~ValueOf(t, p).ok => ItemsOf(t, p) = None
         /\ \A x, q : At(t, p) # "]" /\ ValueOf(t, p) = Result(x, q) =>
                        ItemsOf(t, p) = Joined(<<x>>, NextItem(t, Skip(t, q)))
<1>1. ItemsOf(t, p) = ItemsAt(t, Meanings(t), ValueOf(t, p), p) /\ Listed(t, p, ItemsOf(t, p))
  BY MeaningsParts
<1>2. p \in Nat /\ p + 1 \in Nat /\ p + 1 >= 1
  BY WholeAt
<1>3. Listed(t, p, NextItem(t, p))
  BY <1>2, KnowsMeanings, AfterItemListed DEF NextItem
<1>4. At(t, p) = "]" => ItemsOf(t, p) = Result(<<>>, p + 1) /\ NextItem(t, p) = Result(<<>>, p + 1)
  BY <1>1 DEF ItemsAt, NextItem, AfterItem
<1>5. At(t, p) = "comma" => NextItem(t, p) = ItemsOf(t, Skip(t, p + 1))
  BY DEF NextItem, AfterItem, ItemsOf
<1>6. At(t, p) \notin {"]", "comma"} => NextItem(t, p) = None
  BY DEF NextItem, AfterItem
<1>7. At(t, p) # "]" /\ ~ValueOf(t, p).ok => ItemsOf(t, p) = None
  BY <1>1 DEF ItemsAt
<1>8. ASSUME NEW x, NEW q, At(t, p) # "]", ValueOf(t, p) = Result(x, q)
      PROVE  ItemsOf(t, p) = Joined(<<x>>, NextItem(t, Skip(t, q)))
  <2>1. Result(x, q).ok /\ Result(x, q).value = x /\ Result(x, q).behind = q
    BY ResultFields
  <2>2. QED
    BY <1>1, <1>8, <2>1 DEF ItemsAt, NextItem
<1>9. QED
  BY <1>1, <1>3, <1>4, <1>5, <1>6, <1>7, <1>8

LEMMA GrammarEntries ==
  ASSUME NEW t, Whole(t), NEW p \in Places(t)
  PROVE  /\ Listed(t, p, EntriesOf(t, p)) /\ Listed(t, p, NextEntry(t, p))
         /\ At(t, p) = "rbrace" => EntriesOf(t, p) = Result(<<>>, p + 1) /\ NextEntry(t, p) = Result(<<>>, p + 1)
         /\ At(t, p) = "comma" => NextEntry(t, p) = EntriesOf(t, Skip(t, p + 1))
         /\ At(t, p) \notin {"rbrace", "comma"} => NextEntry(t, p) = None
         /\ At(t, p) = "quote" => EntriesOf(t, p) = FromName(t, Letters(t)[p + 1])
         /\ At(t, p) \notin {"rbrace", "quote"} => EntriesOf(t, p) = None
<1>1. EntriesOf(t, p) = EntriesAt(t, Meanings(t), p) /\ Listed(t, p, EntriesOf(t, p))
  BY MeaningsParts
<1>2. p \in Nat /\ p + 1 \in Nat /\ p + 1 >= 1
  BY WholeAt
<1>3. Listed(t, p, NextEntry(t, p))
  BY <1>2, KnowsMeanings, AfterEntryListed DEF NextEntry
<1>4. At(t, p) = "rbrace" => EntriesOf(t, p) = Result(<<>>, p + 1) /\ NextEntry(t, p) = Result(<<>>, p + 1)
  BY <1>1 DEF EntriesAt, NextEntry, AfterEntry
<1>5. At(t, p) = "comma" => NextEntry(t, p) = EntriesOf(t, Skip(t, p + 1))
  BY DEF NextEntry, AfterEntry, EntriesOf
<1>6. At(t, p) \notin {"rbrace", "comma"} => NextEntry(t, p) = None
  BY DEF NextEntry, AfterEntry
<1>7. At(t, p) = "quote" => EntriesOf(t, p) = FromName(t, Letters(t)[p + 1])
  BY <1>1 DEF EntriesAt, FromName, FromColon
<1>8. At(t, p) \notin {"rbrace", "quote"} => EntriesOf(t, p) = None
  BY <1>1 DEF EntriesAt
<1>9. QED
  BY <1>1, <1>3, <1>4, <1>5, <1>6, <1>7, <1>8

LEMMA GrammarNames ==
  ASSUME NEW t, Whole(t), NEW p \in Places(t), NEW name
  PROVE  /\ Listed(t, p, FromColon(t, name, p)) /\ Listed(t, p, NamedEntry(t, name, p))
         /\ At(t, p) = ":" => FromColon(t, name, p) = NamedEntry(t, name, Skip(t, p + 1))
         /\ At(t, p) # ":" => FromColon(t, name, p) = None
         /\ ~ValueOf(t, p).ok => NamedEntry(t, name, p) = None
         /\ \A x, q : ValueOf(t, p) = Result(x, q) =>
              NamedEntry(t, name, p) = Joined(<<[name |-> name, value |-> x]>>, NextEntry(t, Skip(t, q)))
<1>1. p \in Nat /\ p >= 1 /\ p + 1 \in Nat /\ p + 1 >= 1
  BY WholeAt
<1>2. Listed(t, p, FromColon(t, name, p)) /\ Listed(t, p, NamedEntry(t, name, p))
  <2>1. Knows(t, Meanings(t), p) /\ Knows(t, Meanings(t), p + 1)
    BY <1>1, KnowsMeanings
  <2>2. QED
    BY <2>1, AfterNameListed, EntryListed DEF FromColon, NamedEntry
<1>3. At(t, p) = ":" => FromColon(t, name, p) = NamedEntry(t, name, Skip(t, p + 1))
  BY DEF FromColon, AfterName, NamedEntry
<1>4. At(t, p) # ":" => FromColon(t, name, p) = None
  BY DEF FromColon, AfterName
<1>5. ~ValueOf(t, p).ok => NamedEntry(t, name, p) = None
  BY DEF NamedEntry, EntryAt, ValueOf
<1>6. ASSUME NEW x, NEW q, ValueOf(t, p) = Result(x, q)
      PROVE  NamedEntry(t, name, p) = Joined(<<[name |-> name, value |-> x]>>, NextEntry(t, Skip(t, q)))
  <2>1. Result(x, q).ok /\ Result(x, q).value = x /\ Result(x, q).behind = q
    BY ResultFields
  <2>2. QED
    BY <1>6, <2>1 DEF NamedEntry, EntryAt, NextEntry, ValueOf
<1>7. QED
  BY <1>2, <1>3, <1>4, <1>5, <1>6

LEMMA GrammarLetters ==
  ASSUME NEW t, Whole(t), NEW p \in Places(t)
  PROVE  /\ Listed(t, p, Letters(t)[p])
         /\ At(t, p) = "end" => Letters(t)[p] = None
         /\ At(t, p) = "quote" => Letters(t)[p] = Result(<<>>, p + 1)
         /\ At(t, p) \notin {"end", "quote", "backslash"} => Letters(t)[p] = Joined(Bytes(At(t, p)), Letters(t)[p + 1])
         /\ At(t, p) = "backslash" => Letters(t)[p] = IF At(t, p + 1) \in {"end", "u?"} THEN None
                                                     ELSE Joined(Bytes(At(t, p + 1)), Letters(t)[p + 2])
<1>1. Letters(t)[p] = Spelling(t, Letters(t), p) /\ Listed(t, p, Letters(t)[p])
  BY LettersDefined
<1>2. CASE At(t, p) = "backslash"
  <2>1. Escaped(t, p) /\ Letter(t, p) = At(t, p + 1) /\ Onward(t, p) = p + 2
    BY <1>2 DEF Escaped, Letter, Onward
  <2>2. QED
    BY <1>1, <1>2, <2>1 DEF Spelling
<1>3. CASE At(t, p) # "backslash"
  <2>1. ~Escaped(t, p) /\ Letter(t, p) = At(t, p) /\ Onward(t, p) = p + 1
    BY <1>3 DEF Escaped, Letter, Onward
  <2>2. QED
    BY <1>1, <1>3, <2>1 DEF Spelling
<1>4. QED
  BY <1>2, <1>3

-----------------------------------------------------------------------------
(* What a configuration has read so far and what the grammar says of the   *)
(* rest.                                                                   *)

\* Where what follows begins, behind blanks and comments.
Ahead(c, t) ==
  IF In(c, "line_comment") THEN Skip(t, FirstOf(t, c.ptr, {"newline", "end"}))
  ELSE IF In(c, "block_comment") THEN Skip(t, FirstOf(t, c.ptr, {"*/"}) + 1)
  ELSE Skip(t, c.ptr)

\* The next letter of the string.
Cursor(c) == IF In(c, "escaped") THEN c.ptr - 1 ELSE c.ptr

\* What g has of the values: where they start, what was made of those they
\* hold, the name that the next one is for, and what they are when complete;
\* and the bytes of the string being read.
Spelled(c, g, t) == Joined(g.bytes, Letters(t)[Cursor(c)])

Place(kind, t, name, p) == IF kind = "array" THEN ItemsOf(t, p) ELSE NamedEntry(t, name, p)
NextIn(kind, t, p) == IF kind = "array" THEN NextItem(t, p) ELSE NextEntry(t, p)
Member(kind, name, x) == IF kind = "array" THEN x ELSE [name |-> name, value |-> x]

Rest(c, g, t) ==
  IF In(c, "string") THEN FromName(t, Spelled(c, g, t))
  ELSE IF In(c, "need_comma") THEN NextIn(TopKind(c), t, Ahead(c, t))
  ELSE IF In(c, "need_colon") THEN FromColon(t, g.name[c.top], Ahead(c, t))
  ELSE IF In(c, "seek_value") THEN Place(TopKind(c), t, g.name[c.top], Ahead(c, t))
  ELSE EntriesOf(t, Ahead(c, t))

Expected(c, g, t) ==
  IF TopKind(c) = "string" THEN Quoted(Spelled(c, g, t))
  ELSE Holder(TopKind(c), Joined(g.made[c.top], Rest(c, g, t)))

\* v, where it starts, is the next that its container w holds.
Inside(g, t, kind, w, v) ==
  ValueOf(t, g.start[w]) = Holder(kind, Joined(g.made[w], Place(kind, t, g.name[w], g.start[v])))

Located(g, t, v) ==
  g.start[v] \in 1 .. Len(t) /\ At(t, g.start[v]) \notin {"]", "end"} /\ IsSeq(g.made[v])

Agrees(c, g, t) ==
  /\ c.ptr \in 1 .. Len(t)
  /\ In(c, "escaped") => c.ptr >= 2 /\ t[c.ptr - 1] = "backslash"
  /\ In(c, "string") => IsSeq(g.bytes)
  /\ c.n = 0 => Ahead(c, t) = Skip(t, 1)
  /\ c.n > 0 => g.start[1] = Skip(t, 1)
  /\ In(c, "done") => \E q \in Places(t) : /\ ValueOf(t, Skip(t, 1)) = Result(g.value[1], q)
                                           /\ Skip(t, q) = Ahead(c, t)
  /\ ~In(c, "done") /\ c.n > 0 => ValueOf(t, g.start[c.top]) = Expected(c, g, t)
  /\ \A v \in Unclosed(c) : Located(g, t, v)
  /\ \A v \in Unclosed(c) : v # 1 => Inside(g, t, c.type[c.parent[v]], c.parent[v], v)

\* Flags that exclude each other.
Neat(c) ==
  /\ In(c, "escaped") => In(c, "string")
  /\ TopKind(c) = "object" /\ (In(c, "seek_value") \/ In(c, "string")) => ~In(c, "need_comma")
  /\ TopKind(c) = "none" => ~In(c, "need_comma")

LEMMA StartNeat == Neat(Start)
BY StartFields DEF Neat, In, TopKind

LEMMA NeatNext ==
  ASSUME NEW c, NEW d, NEW t, Regular(c), Neat(c), Leads(c, d, t)
  PROVE  Neat(d)
<1>1. Modes(c) /\ Typed(c) /\ Family(c)
  BY DEF Regular
<1>2. PICK b : b = t[c.ptr]
  OBVIOUS
<1>3. ASSUME KeepsValues(c, d), TopKind(c) = "object" \/ In(d, "need_comma") => In(c, "need_comma"),
             In(d, "escaped") => In(d, "string"),
             TopKind(c) = "object" /\ (In(d, "seek_value") \/ In(d, "string")) => ~In(d, "need_comma")
      PROVE  Neat(d)
  <2>1. TopKind(d) = TopKind(c)
    BY <1>3 DEF KeepsValues, TopKind
  <2>2. QED
    BY <1>3, <2>1 DEF Neat
<1>4. ASSUME NEW f, Closes(c, d, f), TopKind(c) \notin {"none"}, "string" \notin f, "escaped" \notin f, "seek_value" \notin f
      PROVE  Neat(d)
  <2>1. PICK p : p = c.parent[c.top]
    OBVIOUS
  <2>2. d.flags = Behind(c, p, f) /\ d.top = (IF p = 0 THEN c.top ELSE p) /\ d.type = c.type
    BY <1>4, <2>1 DEF Closes
  <2>3. c.top # 0
    BY <1>4 DEF TopKind
  <2>4. ~In(d, "string") /\ ~In(d, "escaped")
    BY <1>4, <2>2 DEF Behind, In
  <2>5. d.top # 0 /\ (In(d, "seek_value") => p # 0 /\ c.type[p] = "array")
    BY <1>4, <2>2, <2>3 DEF Behind, In
  <2>6. TopKind(d) = d.type[d.top]
    BY <2>5 DEF TopKind
  <2>7. In(d, "seek_value") => TopKind(d) = "array"
    BY <2>2, <2>5, <2>6
  <2>8. TopKind(d) # "none"
    <3>1. d.top \in 1 .. c.n
      BY <1>1, <2>1, <2>2, <2>3, <2>5 DEF Typed, Family
    <3>2. d.type[d.top] \in Kind
      BY <1>1, <2>2, <3>1 DEF Typed
    <3>3. QED
      BY <2>6, <3>2 DEF Kind, Container
  <2>9. QED
    BY <2>4, <2>7, <2>8 DEF Neat
<1>5. ASSUME NEW x, OpensValue(c, d, x), Starts(c), ~In(c, "string") PROVE Neat(d)
  <2>1. d.top = c.n + 1 /\ d.type[d.top] = OpenedKind(x) /\ d.flags = (c.flags \ {"seek_value"}) \cup OpenedFlags(x)
    BY <1>1, <1>5 DEF OpensValue, AddsValue, Typed
  <2>2. ~In(d, "need_comma") /\ ~In(d, "escaped")
    BY <1>5, <2>1 DEF Starts, In, OpenedFlags, Neat
  <2>3. QED
    BY <2>2 DEF Neat
<1>6. ASSUME NEW type \in Kind, AddsClosed(c, d, type), type # "object", ~In(c, "string")
      PROVE  Neat(d)
  <2>1. /\ d.top = (IF c.top = 0 THEN c.n + 1 ELSE c.top) /\ d.flags = Behind(c, c.top, c.flags \ {"seek_value"})
        /\ d.type = [w \in 1 .. c.n + 1 |-> IF w = c.n + 1 THEN type ELSE c.type[w]]
    BY <1>6 DEF AddsClosed, AddsValue
  <2>2. ~In(d, "string") /\ ~In(d, "escaped")
    BY <1>6, <2>1 DEF Behind, In, Neat
  <2>3. CASE c.top = 0
    <3>1. ~In(d, "seek_value")
      BY <2>1, <2>3 DEF Behind, In
    <3>2. d.top # 0 /\ d.type[d.top] = type
      BY <1>1, <2>1, <2>3 DEF Typed
    <3>3. QED
      BY <2>2, <3>1, <3>2 DEF Neat, TopKind, Kind, Container
  <2>4. CASE c.top # 0
    <3>1. In(d, "seek_value") => c.type[c.top] = "array"
      BY <2>1, <2>4 DEF Behind, In
    <3>2. d.top = c.top /\ d.type[d.top] = c.type[c.top] /\ c.type[c.top] \in Kind
      BY <1>1, <2>1, <2>4 DEF Typed
    <3>3. QED
      BY <2>2, <2>4, <3>1, <3>2 DEF Neat, TopKind, Kind, Container
  <2>5. QED
    BY <2>3, <2>4
<1>7. ASSUME NEW f, GoesOn(c, d, f), f \subseteq c.flags \cup {"line_comment", "block_comment"},
             ~In(c, "string")
      PROVE  Neat(d)
  <2>1. KeepsValues(c, d) /\ d.flags = f
    BY <1>7 DEF GoesOn
  <2>2. ~In(d, "escaped") /\ ~In(d, "string") /\ (\A x \in {"need_comma", "seek_value"} : In(d, x) => In(c, x))
    BY <1>7, <2>1 DEF In, Neat
  <2>3. QED
    BY <1>3, <1>7, <2>1, <2>2 DEF In, Neat
<1>8. CASE In(c, "string")
  BY <1>1, <1>2, <1>3, <1>4, <1>8 DEF Leads, InString, Writes, GoesOn, Names, Neat, In, KeepsValues, TopKind, Modes
<1>9. CASE ~In(c, "string") /\ In(c, "line_comment")
  BY <1>2, <1>3, <1>7, <1>9 DEF Leads, InLine, Uncomments, Neat, In
<1>10. CASE ~In(c, "string") /\ In(c, "block_comment") /\ ~In(c, "line_comment")
  BY <1>2, <1>7, <1>10 DEF Leads, InBlock
<1>11. CASE ~In(c, "string") /\ ~In(c, "line_comment") /\ ~In(c, "block_comment") /\ b \in {"//", "/*"}
  BY <1>2, <1>7, <1>11 DEF Leads, IntoComment
<1>12. CASE ~In(c, "string") /\ ~In(c, "line_comment") /\ ~In(c, "block_comment") /\ b \notin {"//", "/*"}
  <2>1. CASE In(c, "done")
    BY <1>2, <1>7, <1>12, <2>1 DEF Leads
  <2>2. CASE ~In(c, "done") /\ In(c, "seek_value")
    <3>1. Seeking(c, d, t, b)
      BY <1>2, <1>12, <2>2 DEF Leads
    <3>2. CASE \E x \in {"need_comma", "need_colon", "none"} : GoesOn(c, d, c.flags \ {x}) \/ GoesOn(c, d, c.flags)
      BY <1>7, <1>12, <3>2
    <3>3. CASE TopKind(c) = "array" /\ Closes(c, d, c.flags \ {"need_comma", "seek_value"})
      BY <1>4, <1>12, <3>3 DEF Neat, In
    <3>4. CASE \E x : Starts(c) /\ OpensValue(c, d, x)
      BY <1>5, <1>12, <3>4
    <3>5. CASE \E type \in {"literal", "integer", "double"} : AddsClosed(c, d, type)
      BY <1>6, <1>12, <3>5 DEF Kind, Container
    <3>6. QED
      BY <3>1, <3>2, <3>3, <3>4, <3>5 DEF Seeking
  <2>3. CASE ~In(c, "done") /\ ~In(c, "seek_value")
    <3>1. BetweenEntries(c, d, b) /\ TopKind(c) = "object"
      BY <1>1, <1>2, <1>12, <2>3 DEF Leads, Modes
    <3>2. CASE \E x \in {"need_comma", "none"} : GoesOn(c, d, c.flags \ {x}) \/ GoesOn(c, d, c.flags)
      BY <1>7, <1>12, <3>2
    <3>3. CASE ~In(c, "need_comma") /\ BeginsName(c, d)
      BY <1>3, <1>12, <3>3 DEF BeginsName, In, Neat
    <3>4. CASE Closes(c, d, c.flags \ {"need_comma"})
      BY <1>4, <1>12, <2>3, <3>1, <3>4 DEF Neat, In
    <3>5. QED
      BY <3>1, <3>2, <3>3, <3>4 DEF BetweenEntries
  <2>4. QED
    BY <2>1, <2>2, <2>3
<1>13. QED
  BY <1>8, <1>9, <1>10, <1>11, <1>12

-----------------------------------------------------------------------------
(* Steps through blanks and comments.                                      *)

LEMMA AheadHere ==
  ASSUME NEW c, NEW t, Whole(t), c.ptr \in 1 .. Len(t), ~Commented(c)
  PROVE  /\ t[c.ptr] \notin Blank \cup {"//", "/*"} => Ahead(c, t) = c.ptr
         /\ At(t, c.ptr) = t[c.ptr] /\ c.ptr \in Places(t)
         /\ t[c.ptr] # "end" => c.ptr + 1 \in 1 .. Len(t)
         /\ t[c.ptr] = "end" => c.ptr = Len(t)
<1>1. Len(t) \in Nat /\ Places(t) = 1 .. Len(t) + 2 /\ At(t, c.ptr) = t[c.ptr]
  BY WholeAt
<1>2. c.ptr \in Places(t)
  BY <1>1
<1>3. Ahead(c, t) = Skip(t, c.ptr)
  BY DEF Ahead, Commented
<1>4. t[c.ptr] \notin Blank \cup {"//", "/*"} => Skip(t, c.ptr) = c.ptr
  BY <1>1, <1>2, SkipsDefined, PassedBounds
<1>5. (t[c.ptr] # "end" => c.ptr + 1 \in 1 .. Len(t)) /\ (t[c.ptr] = "end" => c.ptr = Len(t))
  BY <1>1 DEF Whole
<1>6. QED
  BY <1>1, <1>2, <1>3, <1>4, <1>5

LEMMA AheadStays ==
  ASSUME NEW c, NEW d, NEW t, Whole(t), c.ptr \in 1 .. Len(t), NEW b, b = t[c.ptr],
         ~(In(c, "line_comment") /\ In(c, "block_comment")),
         \/ /\ In(c, "line_comment") /\ b \notin {"newline", "end"} /\ d.ptr = c.ptr + 1 /\ d.flags = c.flags
         \/ /\ In(c, "line_comment") /\ b \in {"newline", "end"} /\ d.ptr = c.ptr /\ d.flags = c.flags \ {"line_comment"}
         \/ /\ In(c, "block_comment") /\ b = "*/" /\ d.ptr = c.ptr + 1 /\ d.flags = c.flags \ {"block_comment"}
         \/ /\ In(c, "block_comment") /\ b # "*/" /\ d.ptr = c.ptr + 1 /\ d.flags = c.flags
         \/ /\ ~Commented(c) /\ b = "//" /\ d.ptr = c.ptr + 1 /\ d.flags = c.flags \cup {"line_comment"}
         \/ /\ ~Commented(c) /\ b = "/*" /\ d.ptr = c.ptr + 1 /\ d.flags = c.flags \cup {"block_comment"}
         \/ /\ ~Commented(c) /\ b \in Blank /\ d.ptr = c.ptr + 1 /\ d.flags = c.flags
  PROVE  Ahead(d, t) = Ahead(c, t)
<1>1. PICK p : p = c.ptr
  OBVIOUS
<1>2. Len(t) \in Nat /\ p \in Nat /\ p >= 1 /\ p <= Len(t) /\ p \in Places(t) /\ At(t, p) = b /\ b = t[p]
  BY <1>1, WholeAt
<1>3. \A S : FirstOf(t, p, S) = IF b \in S THEN p ELSE FirstOf(t, p + 1, S)
  BY <1>2, FirstOfNext
<1>4. CASE In(c, "line_comment") /\ b \notin {"newline", "end"} /\ d.ptr = c.ptr + 1 /\ d.flags = c.flags
  BY <1>1, <1>3, <1>4 DEF Ahead, In
<1>5. CASE In(c, "line_comment") /\ b \in {"newline", "end"} /\ d.ptr = c.ptr /\ d.flags = c.flags \ {"line_comment"}
  BY <1>1, <1>3, <1>5 DEF Ahead, In
<1>6. CASE In(c, "block_comment") /\ b = "*/" /\ d.ptr = c.ptr + 1 /\ d.flags = c.flags \ {"block_comment"}
  BY <1>1, <1>3, <1>6 DEF Ahead, In
<1>7. CASE In(c, "block_comment") /\ b # "*/" /\ d.ptr = c.ptr + 1 /\ d.flags = c.flags
  BY <1>1, <1>3, <1>7 DEF Ahead, In
<1>8. Skip(t, p) = IF Passed(t, p) = p THEN p ELSE Skip(t, Passed(t, p))
  BY <1>2, SkipsDefined
<1>9. Passed(t, p) = p <=> b \notin Blank \cup {"//", "/*"}
  BY <1>2, PassedBounds
<1>10. CASE ~Commented(c) /\ b = "//" /\ d.ptr = c.ptr + 1 /\ d.flags = c.flags \cup {"line_comment"}
  <2>1. Passed(t, p) = FirstOf(t, p + 1, {"newline", "end"})
    BY <1>2, <1>10 DEF Passed, Blank
  <2>2. Skip(t, p) = Skip(t, FirstOf(t, p + 1, {"newline", "end"}))
    BY <1>8, <1>9, <1>10, <2>1
  <2>3. QED
    BY <1>1, <1>10, <2>2 DEF Ahead, In, Commented
<1>11. CASE ~Commented(c) /\ b = "/*" /\ d.ptr = c.ptr + 1 /\ d.flags = c.flags \cup {"block_comment"}
  <2>1. Passed(t, p) = FirstOf(t, p + 1, {"*/"}) + 1
    BY <1>2, <1>11 DEF Passed, Blank
  <2>2. Skip(t, p) = Skip(t, FirstOf(t, p + 1, {"*/"}) + 1)
    BY <1>8, <1>9, <1>11, <2>1
  <2>3. QED
    BY <1>1, <1>11, <2>2 DEF Ahead, In, Commented
<1>12. CASE ~Commented(c) /\ b \in Blank /\ d.ptr = c.ptr + 1 /\ d.flags = c.flags
  <2>1. Passed(t, p) = p + 1
    BY <1>2, <1>12 DEF Passed
  <2>2. Skip(t, p) = Skip(t, p + 1)
    BY <1>8, <1>9, <1>12, <2>1
  <2>3. QED
    BY <1>1, <1>12, <2>2 DEF Ahead, In, Commented
<1>13. QED
  BY <1>4, <1>5, <1>6, <1>7, <1>10, <1>11, <1>12

-----------------------------------------------------------------------------
(* How g follows a step from c to d.                                       *)

\* Whether the step completes a value, and which one that is.
Completing(c, d) == d.closed # c.closed
Yield(c, d, g, t) == ValueOf(t, IF d.n > c.n THEN c.ptr ELSE g.start[c.top]).value

Enlarged(c, g, v, y) == g.made[v] \o <<Member(c.type[v], g.name[v], y)>>

Tracked(c, d, g, t) ==
  [start |-> [v \in 1 .. d.n |-> IF v > c.n THEN c.ptr ELSE g.start[v]],
   made |-> [v \in 1 .. d.n |->
               IF v > c.n THEN <<>>
               ELSE IF Completing(c, d) /\ ~In(d, "done") /\ v = d.top
                    THEN Enlarged(c, g, v, Yield(c, d, g, t))
               ELSE g.made[v]],
   name |-> [v \in 1 .. d.n |->
               IF TopKind(c) = "object" /\ In(c, "string") /\ ~In(d, "string") /\ v = c.top THEN g.bytes
               ELSE g.name[v]],
   value |-> [v \in 1 .. d.n |-> IF v \in d.closed \ c.closed THEN Yield(c, d, g, t) ELSE g.value[v]],
   bytes |-> IF ~In(c, "string") \/ ~In(d, "string") THEN <<>>
             ELSE IF d.sl # c.sl THEN g.bytes \o Bytes(t[c.ptr])
             ELSE g.bytes]

LEMMA TrackedFields ==
  ASSUME NEW c, NEW d, NEW g, NEW t, NEW h, h = Tracked(c, d, g, t), NEW y, y = Yield(c, d, g, t)
  PROVE  /\ \A v \in 1 .. d.n : h.start[v] = IF v > c.n THEN c.ptr ELSE g.start[v]
         /\ \A v \in 1 .. d.n : h.value[v] = IF v \in d.closed \ c.closed THEN y ELSE g.value[v]
         /\ \A v \in 1 .. d.n : h.made[v] = IF v > c.n THEN <<>>
                                            ELSE IF Completing(c, d) /\ ~In(d, "done") /\ v = d.top
                                                 THEN Enlarged(c, g, v, y)
                                            ELSE g.made[v]
         /\ \A v \in 1 .. d.n : h.name[v] = IF TopKind(c) = "object" /\ In(c, "string") /\ ~In(d, "string") /\ v = c.top
                                            THEN g.bytes ELSE g.name[v]
         /\ h.bytes = IF ~In(c, "string") \/ ~In(d, "string") THEN <<>>
                      ELSE IF d.sl # c.sl THEN g.bytes \o Bytes(t[c.ptr])
                      ELSE g.bytes
BY DEF Tracked

\* No value is new or complete.
Stays(c, d) == d.top = c.top /\ d.n = c.n /\ d.type = c.type /\ d.parent = c.parent /\ d.closed = c.closed

LEMMA TrackedKeeps ==
  ASSUME NEW c, NEW d, NEW g, NEW t, Stays(c, d), Typed(c), NEW h, h = Tracked(c, d, g, t)
  PROVE  /\ \A v \in 1 .. c.n : h.start[v] = g.start[v] /\ h.value[v] = g.value[v] /\ h.made[v] = g.made[v]
         /\ \A v \in 1 .. c.n : ~(TopKind(c) = "object" /\ In(c, "string") /\ ~In(d, "string") /\ v = c.top) => h.name[v] = g.name[v]
<1>1. d.n = c.n /\ d.closed = c.closed /\ ~Completing(c, d) /\ c.n \in Nat
  BY DEF Stays, Completing, Typed
<1>2. ASSUME NEW v \in 1 .. c.n
      PROVE  /\ h.start[v] = g.start[v] /\ h.value[v] = g.value[v] /\ h.made[v] = g.made[v]
             /\ ~(TopKind(c) = "object" /\ In(c, "string") /\ ~In(d, "string") /\ v = c.top) => h.name[v] = g.name[v]
  <2>1. ~(v > c.n) /\ v \notin d.closed \ c.closed /\ v \in 1 .. d.n
    BY <1>1
  <2>2. h.start[v] = g.start[v]
    BY <2>1, TrackedFields
  <2>3. h.value[v] = g.value[v]
    BY <2>1, TrackedFields
  <2>4. h.made[v] = g.made[v]
    BY <1>1, <2>1, TrackedFields
  <2>5. ~(TopKind(c) = "object" /\ In(c, "string") /\ ~In(d, "string") /\ v = c.top) => h.name[v] = g.name[v]
    BY <2>1, TrackedFields
  <2>6. QED
    BY <2>2, <2>3, <2>4, <2>5
<1>3. QED
  BY <1>2

LEMMA KeptAgrees ==
  ASSUME NEW c, NEW d, NEW g, NEW h, NEW t, Whole(t), Regular(c), Agrees(c, g, t), Stays(c, d),
         h = Tracked(c, d, g, t),
         d.ptr \in 1 .. Len(t), In(d, "escaped") => d.ptr >= 2 /\ t[d.ptr - 1] = "backslash",
         In(d, "string") => IsSeq(h.bytes), In(d, "done") <=> In(c, "done"),
         c.n = 0 \/ In(c, "done") => Ahead(d, t) = Ahead(c, t),
         ~In(c, "done") /\ c.n > 0 => Expected(d, h, t) = Expected(c, g, t)
  PROVE  Agrees(d, h, t)
<1>1. Typed(c) /\ Family(c) /\ Modes(c) /\ c.n \in Nat
  BY DEF Regular, Typed
<1>2. /\ d.n = c.n /\ d.closed = c.closed /\ d.top = c.top /\ d.type = c.type /\ d.parent = c.parent
      /\ Unclosed(d) = Unclosed(c)
  BY DEF Stays, Unclosed
<1>3. \A v \in 1 .. c.n : /\ h.start[v] = g.start[v] /\ h.value[v] = g.value[v] /\ h.made[v] = g.made[v]
                          /\ v # c.top => h.name[v] = g.name[v]
  BY <1>1, TrackedKeeps
<1>4. c.n > 0 => 1 \in 1 .. c.n /\ c.top \in 1 .. c.n
  BY <1>1 DEF Typed, Modes
<1>5. c.n = 0 => Ahead(d, t) = Skip(t, 1)
  BY DEF Agrees
<1>6. c.n > 0 => h.start[1] = Skip(t, 1)
  BY <1>3, <1>4 DEF Agrees
<1>7. In(c, "done") => \E q \in Places(t) : ValueOf(t, Skip(t, 1)) = Result(h.value[1], q) /\ Skip(t, q) = Ahead(d, t)
  <2>1. SUFFICES ASSUME In(c, "done") PROVE \E q \in Places(t) : ValueOf(t, Skip(t, 1)) = Result(h.value[1], q) /\ Skip(t, q) = Ahead(d, t)
    OBVIOUS
  <2>2. c.top = 1 /\ c.n > 0
    BY <1>1, <2>1 DEF Modes, Typed
  <2>3. h.value[1] = g.value[1]
    BY <1>3, <1>4, <2>2
  <2>4. QED
    BY <2>1, <2>3 DEF Agrees
<1>8. ~In(c, "done") /\ c.n > 0 => ValueOf(t, h.start[d.top]) = Expected(d, h, t)
  BY <1>2, <1>3, <1>4 DEF Agrees
<1>9. ASSUME NEW v \in Unclosed(c) PROVE Located(h, t, v)
  BY <1>3, <1>9 DEF Agrees, Unclosed, Located
<1>10. ASSUME NEW v \in Unclosed(c), v # 1 PROVE Inside(h, t, c.type[c.parent[v]], c.parent[v], v)
  <2>1. PICK p : p = c.parent[v]
    OBVIOUS
  <2>2. p \in Unclosed(c) /\ p # c.top /\ p \in 1 .. c.n /\ v \in 1 .. c.n
    BY <1>1, <1>10, <2>1 DEF Family, Unclosed
  <2>3. Inside(g, t, c.type[p], p, v)
    BY <1>10, <2>1 DEF Agrees
  <2>4. QED
    BY <1>3, <2>1, <2>2, <2>3 DEF Inside
<1>11. QED
  BY <1>2, <1>5, <1>6, <1>7, <1>8, <1>9, <1>10 DEF Agrees

\* Blanks and comments.
Aside(c, d) ==
  /\ KeepsValues(c, d) /\ d.sl = c.sl
  /\ \A f \in Flag \ {"line_comment", "block_comment"} : In(d, f) <=> In(c, f)

LEMMA AsideAgrees ==
  ASSUME NEW c, NEW d, NEW g, NEW t, Whole(t), Regular(c), Neat(c), Agrees(c, g, t), Aside(c, d), ~In(c, "string"),
         d.ptr \in 1 .. Len(t), Ahead(d, t) = Ahead(c, t)
  PROVE  Agrees(d, Tracked(c, d, g, t), t)
<1>1. PICK h : h = Tracked(c, d, g, t)
  OBVIOUS
<1>2. Stays(c, d) /\ ~In(d, "string") /\ ~In(d, "escaped") /\ (In(d, "done") <=> In(c, "done"))
      /\ (\A f \in {"need_comma", "need_colon", "seek_value"} : In(d, f) <=> In(c, f)) /\ d.top = c.top
      /\ TopKind(d) = TopKind(c)
  BY DEF Aside, Flag, Neat, KeepsValues, Stays, TopKind
<1>3. Typed(c) /\ Modes(c)
  BY DEF Regular
<1>4. ASSUME ~In(c, "done"), c.n > 0 PROVE Expected(d, h, t) = Expected(c, g, t)
  <2>1. c.top \in 1 .. c.n /\ TopKind(c) # "string"
    BY <1>3, <1>4 DEF Typed, Modes
  <2>2. h.made[c.top] = g.made[c.top] /\ h.name[c.top] = g.name[c.top]
    BY <1>1, <1>2, <1>3, <2>1, TrackedKeeps
  <2>3. Rest(d, h, t) = Rest(c, g, t)
    BY <1>2, <2>2 DEF Rest
  <2>4. QED
    BY <1>2, <2>1, <2>2, <2>3 DEF Expected
<1>5. QED
  BY <1>1, <1>2, <1>4, KeptAgrees

-----------------------------------------------------------------------------
(* Steps that keep the values.                                             *)

LEMMA SeparatorAgrees ==
  ASSUME NEW c, NEW d, NEW g, NEW t, Whole(t), Regular(c), Neat(c), Agrees(c, g, t),
         ~In(c, "string"), ~Commented(c), ~In(c, "done"), NEW f, GoesOn(c, d, c.flags \ {f}),
         \/ f = "need_comma" /\ t[c.ptr] = "comma" /\ In(c, "need_comma")
         \/ f = "need_colon" /\ t[c.ptr] = ":" /\ In(c, "need_colon") /\ ~In(c, "need_comma")
  PROVE  Agrees(d, Tracked(c, d, g, t), t)
<1>1. PICK h : h = Tracked(c, d, g, t)
  OBVIOUS
<1>2. Typed(c) /\ Modes(c) /\ c.ptr \in 1 .. Len(t)
  BY DEF Regular, Agrees
<1>3. PICK p : p = c.ptr
  OBVIOUS
<1>4. /\ Ahead(c, t) = p /\ At(t, p) = t[p] /\ p \in Places(t) /\ p + 1 \in 1 .. Len(t)
  BY <1>2, <1>3, AheadHere DEF Blank
<1>5. Stays(c, d) /\ d.ptr = p + 1 /\ d.flags = c.flags \ {f} /\ TopKind(d) = TopKind(c) /\ d.top = c.top
  BY <1>3 DEF GoesOn, KeepsValues, Stays, TopKind
<1>6. ~In(d, "string") /\ ~In(d, "escaped") /\ ~Commented(d) /\ ~In(d, "done")
  BY <1>5 DEF In, Commented, Neat
<1>7. Ahead(d, t) = Skip(t, p + 1)
  BY <1>5, <1>6 DEF Ahead, Commented
<1>8. c.n > 0 /\ c.top \in 1 .. c.n /\ TopKind(c) \in Container
  <2>1. TopKind(c) # "none"
    BY <1>2 DEF Neat, Modes
  <2>2. c.top # 0
    BY <2>1 DEF TopKind
  <2>3. QED
    BY <1>2, <2>1, <2>2 DEF Typed, Modes, Container
<1>9. h.made[c.top] = g.made[c.top] /\ h.name[c.top] = g.name[c.top]
  BY <1>1, <1>2, <1>5, <1>8, TrackedKeeps
<1>10. Rest(d, h, t) = Rest(c, g, t)
  <2>1. CASE f = "need_comma" /\ TopKind(c) = "array"
    <3>1. Rest(c, g, t) = NextItem(t, p) /\ In(c, "seek_value") /\ ~In(c, "need_colon")
      BY <1>2, <1>4, <2>1 DEF Rest, NextIn, Modes
    <3>2. Rest(d, h, t) = ItemsOf(t, Skip(t, p + 1))
      BY <1>5, <1>6, <1>7, <2>1, <3>1 DEF Rest, Place, In
    <3>3. QED
      BY <1>3, <1>4, <2>1, <3>1, <3>2, GrammarItems
  <2>2. CASE f = "need_comma" /\ TopKind(c) # "array"
    <3>1. TopKind(c) = "object" /\ ~In(c, "seek_value") /\ ~In(c, "need_colon")
      BY <1>2, <1>8, <2>2 DEF Neat, Modes, Container
    <3>2. Rest(c, g, t) = NextEntry(t, p)
      BY <1>4, <2>2 DEF Rest, NextIn
    <3>3. Rest(d, h, t) = EntriesOf(t, Skip(t, p + 1))
      BY <1>5, <1>6, <1>7, <2>2, <3>1 DEF Rest, In
    <3>4. QED
      BY <1>3, <1>4, <2>2, <3>2, <3>3, GrammarEntries
  <2>3. CASE f = "need_colon"
    <3>1. TopKind(c) = "object" /\ In(c, "seek_value") /\ ~In(c, "need_comma") /\ In(c, "need_colon")
      BY <1>2, <2>3 DEF Modes
    <3>2. Rest(c, g, t) = FromColon(t, g.name[c.top], p)
      BY <1>4, <3>1 DEF Rest
    <3>3. Rest(d, h, t) = NamedEntry(t, g.name[c.top], Skip(t, p + 1))
      BY <1>5, <1>6, <1>7, <1>9, <2>3, <3>1 DEF Rest, Place, In
    <3>4. QED
      BY <1>3, <1>4, <2>3, <3>2, <3>3, GrammarNames
  <2>4. QED
    BY <2>1, <2>2, <2>3
<1>11. Expected(d, h, t) = Expected(c, g, t)
  BY <1>5, <1>8, <1>9, <1>10 DEF Expected, Container
<1>12. QED
  BY <1>1, <1>4, <1>5, <1>6, <1>8, <1>11, KeptAgrees

LEMMA SpelledStart ==
  ASSUME NEW t, Whole(t), NEW p \in Places(t)
  PROVE  Joined(<<>>, Letters(t)[p]) = Letters(t)[p]
BY GrammarLetters, ListedFields

LEMMA BeginsNameAgrees ==
  ASSUME NEW c, NEW d, NEW g, NEW t, Whole(t), Regular(c), Neat(c), Agrees(c, g, t),
         ~In(c, "string"), ~Commented(c), ~In(c, "done"), ~In(c, "seek_value"), ~In(c, "need_comma"),
         t[c.ptr] = "quote", BeginsName(c, d)
  PROVE  Agrees(d, Tracked(c, d, g, t), t)
<1>1. PICK h : h = Tracked(c, d, g, t)
  OBVIOUS
<1>2. Typed(c) /\ Modes(c) /\ c.ptr \in 1 .. Len(t)
  BY DEF Regular, Agrees
<1>3. PICK p : p = c.ptr
  OBVIOUS
<1>4. /\ Ahead(c, t) = p /\ At(t, p) = t[p] /\ p \in Places(t) /\ p + 1 \in 1 .. Len(t)
  BY <1>2, <1>3, AheadHere DEF Blank
<1>5. Stays(c, d) /\ d.ptr = p + 1 /\ d.flags = c.flags \cup {"string"} /\ TopKind(d) = TopKind(c) /\ d.top = c.top
  BY <1>3 DEF BeginsName, KeepsValues, Stays, TopKind
<1>6. In(d, "string") /\ ~In(d, "escaped") /\ ~In(d, "done")
  BY <1>5 DEF In, Neat
<1>7. TopKind(c) = "object" /\ ~In(c, "need_colon") /\ c.n > 0 /\ c.top \in 1 .. c.n
  BY <1>2 DEF Modes, TopKind, Typed
<1>8. h.made[c.top] = g.made[c.top]
  BY <1>1, <1>2, <1>5, <1>7, TrackedKeeps
<1>9. h.bytes = <<>>
  BY <1>1, TrackedFields
<1>10. Spelled(d, h, t) = Letters(t)[p + 1]
  <2>1. p + 1 \in Places(t)
    BY <1>4 DEF Places
  <2>2. PICK e : e = <<>>
    OBVIOUS
  <2>3. Spelled(d, h, t) = Joined(e, Letters(t)[p + 1])
    BY <1>5, <1>6, <1>9, <2>2 DEF Spelled, Cursor
  <2>4. QED
    BY <2>1, <2>2, <2>3, SpelledStart
<1>11. Rest(c, g, t) = EntriesOf(t, p)
  BY <1>4, <1>7 DEF Rest
<1>12. Rest(d, h, t) = FromName(t, Letters(t)[p + 1])
  BY <1>6, <1>10 DEF Rest
<1>13. Rest(c, g, t) = Rest(d, h, t)
  BY <1>3, <1>4, <1>11, <1>12, GrammarEntries
<1>14. Expected(d, h, t) = Expected(c, g, t)
  BY <1>5, <1>7, <1>8, <1>13 DEF Expected
<1>15. IsSeq(h.bytes)
  BY <1>9, SeqFacts
<1>16. QED
  BY <1>1, <1>4, <1>5, <1>6, <1>7, <1>14, <1>15, KeptAgrees

\* A string or name goes on.
LEMMA StringAgrees ==
  ASSUME NEW c, NEW d, NEW g, NEW h, NEW t, Whole(t), Regular(c), Neat(c), Agrees(c, g, t),
         In(c, "string"), In(d, "string"), ~In(d, "done"), Stays(c, d), h = Tracked(c, d, g, t),
         d.ptr \in 1 .. Len(t), In(d, "escaped") => d.ptr >= 2 /\ t[d.ptr - 1] = "backslash",
         IsSeq(h.bytes), Spelled(d, h, t) = Spelled(c, g, t)
  PROVE  Agrees(d, h, t)
<1>1. Typed(c) /\ Modes(c)
  BY DEF Regular
<1>2. c.n > 0 /\ c.top \in 1 .. c.n /\ ~In(c, "done") /\ TopKind(c) \in {"string", "object"}
  BY <1>1 DEF Modes, TopKind, Typed
<1>3. TopKind(d) = TopKind(c) /\ d.top = c.top
  BY DEF Stays, TopKind
<1>4. h.made[c.top] = g.made[c.top]
  BY <1>1, <1>2, TrackedKeeps
<1>5. Rest(d, h, t) = Rest(c, g, t)
  BY DEF Rest
<1>6. Expected(d, h, t) = Expected(c, g, t)
  BY <1>3, <1>4, <1>5 DEF Expected
<1>7. QED
  BY <1>2, <1>6, KeptAgrees

LEMMA WritesAgrees ==
  ASSUME NEW c, NEW d, NEW g, NEW t, Whole(t), Regular(c), Neat(c), Agrees(c, g, t),
         In(c, "string"), Writes(c, d, t[c.ptr]),
         IF In(c, "escaped") THEN t[c.ptr] \notin {"end", "u?"} ELSE t[c.ptr] \notin {"end", "backslash", "quote"}
  PROVE  Agrees(d, Tracked(c, d, g, t), t)
<1>1. PICK h : h = Tracked(c, d, g, t)
  OBVIOUS
<1>2. Typed(c) /\ Modes(c) /\ c.ptr \in 1 .. Len(t) /\ IsSeq(g.bytes)
  BY DEF Regular, Agrees
<1>3. ~Commented(c) /\ ~In(c, "done")
  BY <1>2 DEF Modes
<1>4. PICK p, b : p = c.ptr /\ b = t[p]
  OBVIOUS
<1>5. /\ At(t, p) = b /\ p \in Places(t) /\ p + 1 \in 1 .. Len(t) /\ b # "end" /\ p \in Nat
  BY <1>2, <1>3, <1>4, AheadHere
<1>6. /\ Stays(c, d) /\ d.ptr = p + 1 /\ d.flags = c.flags \ {"escaped"} /\ d.sl = c.sl + Width(b) /\ c.sl \in Nat
  BY <1>2, <1>4 DEF Writes, KeepsValues, Stays, Typed
<1>7. In(d, "string") /\ ~In(d, "escaped") /\ ~In(d, "done")
  BY <1>3, <1>6 DEF In
<1>8. b \in Token /\ Len(t) \in Nat /\ Places(t) = 1 .. Len(t) + 2
  BY <1>5, WholeAt
<1>9. Width(b) \in Nat /\ Width(b) >= 1
  BY DEF Width
<1>10. h.bytes = g.bytes \o Bytes(b)
  <2>1. d.sl # c.sl
    BY <1>6, <1>9
  <2>2. PICK x, y : x = g.bytes \o Bytes(t[c.ptr]) /\ y = Yield(c, d, g, t)
    OBVIOUS
  <2>3. h.bytes = IF ~In(c, "string") \/ ~In(d, "string") THEN <<>> ELSE IF d.sl # c.sl THEN x ELSE g.bytes
    BY <1>1, <2>2, TrackedFields
  <2>4. QED
    BY <1>4, <1>7, <2>1, <2>2, <2>3
<1>11. IsSeq(Bytes(b)) /\ IsSeq(h.bytes)
  BY <1>2, <1>8, <1>10, BytesFacts, SeqConcat
<1>12. Letters(t)[Cursor(c)] = Joined(Bytes(b), Letters(t)[p + 1])
  <2>1. CASE In(c, "escaped")
    <3>1. p >= 2 /\ t[p - 1] = "backslash" /\ p - 1 \in Places(t) /\ Cursor(c) = p - 1
      BY <1>4, <1>5, <1>8, <2>1 DEF Agrees, Cursor
    <3>2. At(t, p - 1) = "backslash"
      BY <1>5, <1>8, <3>1 DEF At
    <3>3. (p - 1) + 1 = p /\ (p - 1) + 2 = p + 1
      BY <1>5
    <3>4. Letters(t)[p - 1] = IF At(t, p) \in {"end", "u?"} THEN None ELSE Joined(Bytes(At(t, p)), Letters(t)[p + 1])
      BY <3>1, <3>2, <3>3, GrammarLetters
    <3>5. QED
      BY <1>4, <1>5, <2>1, <3>1, <3>4
  <2>2. CASE ~In(c, "escaped")
    <3>1. Cursor(c) = p
      BY <1>4, <2>2 DEF Cursor
    <3>2. QED
      BY <1>4, <1>5, <2>2, <3>1, GrammarLetters
  <2>3. QED
    BY <2>1, <2>2
<1>13. Spelled(d, h, t) = Spelled(c, g, t)
  <2>1. Spelled(d, h, t) = Joined(g.bytes \o Bytes(b), Letters(t)[p + 1])
    BY <1>6, <1>7, <1>10 DEF Spelled, Cursor
  <2>2. Spelled(c, g, t) = Joined(g.bytes, Joined(Bytes(b), Letters(t)[p + 1]))
    BY <1>12 DEF Spelled
  <2>3. Listed(t, p + 1, Letters(t)[p + 1])
    BY <1>5, <1>8, GrammarLetters
  <2>4. QED
    BY <1>2, <1>11, <2>1, <2>2, <2>3, ListedFields
<1>14. QED
  BY <1>1, <1>5, <1>6, <1>7, <1>11, <1>13, StringAgrees

LEMMA EscapeAgrees ==
  ASSUME NEW c, NEW d, NEW g, NEW t, Whole(t), Regular(c), Neat(c), Agrees(c, g, t),
         In(c, "string"), ~In(c, "escaped"), t[c.ptr] = "backslash", GoesOn(c, d, c.flags \cup {"escaped"})
  PROVE  Agrees(d, Tracked(c, d, g, t), t)
<1>1. PICK h : h = Tracked(c, d, g, t)
  OBVIOUS
<1>2. Typed(c) /\ Modes(c) /\ c.ptr \in 1 .. Len(t) /\ IsSeq(g.bytes)
  BY DEF Regular, Agrees
<1>3. ~Commented(c) /\ ~In(c, "done")
  BY <1>2 DEF Modes
<1>4. PICK p : p = c.ptr
  OBVIOUS
<1>5. p \in Places(t) /\ p + 1 \in 1 .. Len(t) /\ p \in Nat /\ p >= 1
  BY <1>2, <1>3, <1>4, AheadHere
<1>6. /\ Stays(c, d) /\ d.ptr = p + 1 /\ d.flags = c.flags \cup {"escaped"} /\ d.sl = c.sl
  BY <1>2, <1>4 DEF GoesOn, KeepsValues, Stays, Typed
<1>7. In(d, "string") /\ In(d, "escaped") /\ ~In(d, "done")
  BY <1>3, <1>6 DEF In
<1>8. h.bytes = g.bytes
  BY <1>1, <1>6, <1>7, TrackedFields
<1>9. Cursor(d) = p /\ Cursor(c) = p
  BY <1>4, <1>5, <1>6, <1>7 DEF Cursor
<1>10. Spelled(d, h, t) = Spelled(c, g, t)
  BY <1>8, <1>9 DEF Spelled
<1>11. d.ptr >= 2 /\ t[d.ptr - 1] = "backslash"
  BY <1>4, <1>5, <1>6
<1>12. QED
  BY <1>1, <1>2, <1>5, <1>6, <1>7, <1>8, <1>10, <1>11, StringAgrees

LEMMA SpelledEnd ==
  ASSUME NEW c, NEW g, NEW t, Whole(t), Regular(c), Agrees(c, g, t), In(c, "string"), ~In(c, "escaped"),
         t[c.ptr] = "quote"
  PROVE  Spelled(c, g, t) = Result(g.bytes, c.ptr + 1) /\ c.ptr + 1 \in 1 .. Len(t)
<1>1. c.ptr \in 1 .. Len(t) /\ IsSeq(g.bytes) /\ ~Commented(c)
  BY DEF Agrees, Regular, Modes
<1>2. At(t, c.ptr) = "quote" /\ c.ptr \in Places(t) /\ c.ptr + 1 \in 1 .. Len(t)
  BY <1>1, AheadHere
<1>3. PICK e : e = <<>>
  OBVIOUS
<1>4. Letters(t)[c.ptr] = Result(e, c.ptr + 1)
  BY <1>2, <1>3, GrammarLetters
<1>5. g.bytes \o e = g.bytes
  BY <1>1, <1>3, SeqConcat
<1>6. Joined(g.bytes, Result(e, c.ptr + 1)) = Result(g.bytes \o e, c.ptr + 1)
  BY JoinedFields
<1>7. QED
  BY <1>2, <1>4, <1>5, <1>6 DEF Spelled, Cursor

LEMMA NamesAgrees ==
  ASSUME NEW c, NEW d, NEW g, NEW t, Whole(t), Regular(c), Neat(c), Agrees(c, g, t),
         In(c, "string"), ~In(c, "escaped"), t[c.ptr] = "quote", TopKind(c) = "object", Names(c, d)
  PROVE  Agrees(d, Tracked(c, d, g, t), t)
<1>1. PICK h : h = Tracked(c, d, g, t)
  OBVIOUS
<1>2. Typed(c) /\ Modes(c)
  BY DEF Regular
<1>3. ~Commented(c) /\ ~In(c, "done") /\ c.n > 0 /\ c.top \in 1 .. c.n
  BY <1>2 DEF Modes, TopKind, Typed
<1>4. PICK p : p = c.ptr
  OBVIOUS
<1>5. Spelled(c, g, t) = Result(g.bytes, p + 1) /\ p + 1 \in 1 .. Len(t)
  BY <1>4, SpelledEnd
<1>6. /\ Stays(c, d) /\ d.ptr = p + 1 /\ d.flags = (c.flags \ {"string"}) \cup {"seek_value", "need_colon"}
      /\ TopKind(d) = TopKind(c) /\ d.top = c.top
  BY <1>4 DEF Names, Stays, TopKind
<1>7. ~In(d, "string") /\ ~In(d, "escaped") /\ ~In(d, "done") /\ ~Commented(d) /\ In(d, "need_colon") /\ ~In(d, "need_comma")
  BY <1>3, <1>6 DEF In, Commented, Neat
<1>8. h.made[c.top] = g.made[c.top]
  BY <1>1, <1>2, <1>3, <1>6, TrackedKeeps
<1>9. h.name[c.top] = g.bytes
  <2>1. c.top \in 1 .. d.n
    BY <1>3, <1>6 DEF Stays
  <2>2. QED
    BY <1>1, <1>7, <2>1, TrackedFields
<1>10. Rest(c, g, t) = FromColon(t, g.bytes, Skip(t, p + 1))
  BY <1>5, ResultFields DEF Rest, FromName
<1>11. Rest(d, h, t) = FromColon(t, g.bytes, Skip(t, p + 1))
  BY <1>6, <1>7, <1>9 DEF Rest, Ahead, Commented
<1>12. Expected(d, h, t) = Expected(c, g, t)
  BY <1>6, <1>8, <1>10, <1>11 DEF Expected
<1>13. QED
  BY <1>1, <1>3, <1>5, <1>6, <1>7, <1>12, KeptAgrees

-----------------------------------------------------------------------------
(* Steps that begin or complete a value.                                   *)

LEMMA MemberPlaced ==
  ASSUME NEW t, Whole(t), NEW s \in 1 .. Len(t), At(t, s) # "]", NEW x, NEW q, ValueOf(t, s) = Result(x, q),
         NEW kind \in Container, NEW name, NEW m, IsSeq(m)
  PROVE  /\ IsSeq(m \o <<Member(kind, name, x)>>)
         /\ Joined(m, Place(kind, t, name, s)) = Joined(m \o <<Member(kind, name, x)>>, NextIn(kind, t, Skip(t, q)))
<1>1. Len(t) \in Nat /\ Places(t) = 1 .. Len(t) + 2 /\ s \in Places(t)
  BY WholeAt
<1>2. q \in Places(t)
  <2>1. Sound(t, s, Result(x, q))
    BY <1>1, GrammarValues
  <2>2. Result(x, q).ok /\ Result(x, q).behind = q
    BY ResultFields
  <2>3. q \in s + 1 .. Len(t)
    BY <2>1, <2>2, SoundFields
  <2>4. QED
    BY <1>1, <2>3
<1>3. PICK a : a = Skip(t, q)
  OBVIOUS
<1>4. a \in Places(t)
  BY <1>1, <1>2, <1>3, SkipBounds
<1>5. PICK y, e : y = Member(kind, name, x) /\ e = <<y>>
  OBVIOUS
<1>6. IsSeq(e) /\ IsSeq(m \o e)
  <2>1. e \in Seq({y})
    BY <1>5
  <2>2. QED
    BY <2>1, SeqConcat DEF IsSeq
<1>7. CASE kind = "array"
  <2>1. y = x
    BY <1>5, <1>7 DEF Member
  <2>2. Place(kind, t, name, s) = Joined(e, NextItem(t, a))
    BY <1>1, <1>3, <1>5, <1>7, <2>1, GrammarItems DEF Place
  <2>3. Listed(t, a, NextItem(t, a))
    BY <1>4, GrammarItems
  <2>4. Joined(m, Joined(e, NextItem(t, a))) = Joined(m \o e, NextItem(t, a))
    BY <1>6, <2>3, ListedFields
  <2>5. QED
    BY <1>3, <1>5, <1>6, <1>7, <2>2, <2>4 DEF NextIn
<1>8. CASE kind = "object"
  <2>1. y = [name |-> name, value |-> x]
    BY <1>5, <1>8 DEF Member
  <2>2. Place(kind, t, name, s) = Joined(e, NextEntry(t, a))
    BY <1>1, <1>3, <1>5, <1>8, <2>1, GrammarNames DEF Place
  <2>3. Listed(t, a, NextEntry(t, a))
    BY <1>4, GrammarEntries
  <2>4. Joined(m, Joined(e, NextEntry(t, a))) = Joined(m \o e, NextEntry(t, a))
    BY <1>6, <2>3, ListedFields
  <2>5. QED
    BY <1>3, <1>5, <1>6, <1>8, <2>2, <2>4 DEF NextIn
<1>9. QED
  BY <1>7, <1>8 DEF Container

LEMMA ClosesAgrees ==
  ASSUME NEW c, NEW d, NEW g, NEW t, Whole(t), Regular(c), Regular(d), Agrees(c, g, t), ~In(c, "done"), c.n > 0,
         NEW f, Closes(c, d, f), "done" \notin f, ~In(d, "string"), ~In(d, "escaped"), ~Commented(d),
         NEW x, Expected(c, g, t) = Result(x, c.ptr + 1), c.ptr + 1 \in 1 .. Len(t)
  PROVE  Agrees(d, Tracked(c, d, g, t), t) /\ Yield(c, d, g, t) = x
<1>1. PICK h : h = Tracked(c, d, g, t)
  OBVIOUS
<1>2. Typed(c) /\ Modes(c) /\ Family(c) /\ Modes(d) /\ Family(d)
  BY DEF Regular
<1>3. PICK k : k = c.top
  OBVIOUS
<1>4. PICK p : p = c.parent[k]
  OBVIOUS
<1>5. k \in 1 .. c.n /\ k \in Unclosed(c) /\ k \notin c.closed /\ c.n \in Nat
  BY <1>2, <1>3 DEF Typed, Modes, Unclosed
<1>6. /\ d.ptr = c.ptr + 1 /\ d.flags = Behind(c, p, f) /\ d.top = (IF p = 0 THEN k ELSE p)
      /\ d.n = c.n /\ d.type = c.type /\ d.parent = c.parent /\ d.closed = c.closed \cup {k}
  BY <1>3, <1>4 DEF Closes
<1>7. Completing(c, d) /\ d.closed \ c.closed = {k} /\ Unclosed(d) = Unclosed(c) \ {k} /\ ~(d.n > c.n)
  BY <1>5, <1>6 DEF Completing, Unclosed
<1>8. Yield(c, d, g, t) = x
  <2>1. ValueOf(t, g.start[k]) = Result(x, c.ptr + 1)
    BY <1>3 DEF Agrees
  <2>2. QED
    BY <1>3, <1>7, <2>1, ResultFields DEF Yield
<1>9. \A v \in 1 .. c.n : /\ h.start[v] = g.start[v]
                          /\ h.value[v] = IF v = k THEN x ELSE g.value[v]
                          /\ v # k => h.name[v] = g.name[v]
                          /\ v # d.top \/ In(d, "done") => h.made[v] = g.made[v]
                          /\ v = d.top /\ ~In(d, "done") => h.made[v] = Enlarged(c, g, v, x)
  <2>1. SUFFICES ASSUME NEW v \in 1 .. c.n
                 PROVE  /\ h.start[v] = g.start[v]
                        /\ h.value[v] = IF v = k THEN x ELSE g.value[v]
                        /\ v # k => h.name[v] = g.name[v]
                        /\ v # d.top \/ In(d, "done") => h.made[v] = g.made[v]
                        /\ v = d.top /\ ~In(d, "done") => h.made[v] = Enlarged(c, g, v, x)
    OBVIOUS
  <2>2. v \in 1 .. d.n /\ ~(v > c.n)
    BY <1>5, <1>6, <2>1
  <2>3. h.start[v] = g.start[v]
    BY <1>1, <2>2, TrackedFields
  <2>4. h.value[v] = IF v \in d.closed \ c.closed THEN x ELSE g.value[v]
    BY <1>1, <1>8, <2>2, TrackedFields
  <2>5. v # k => h.name[v] = g.name[v]
    BY <1>1, <1>3, <2>2, TrackedFields
  <2>6. h.made[v] = IF Completing(c, d) /\ ~In(d, "done") /\ v = d.top THEN Enlarged(c, g, v, x) ELSE g.made[v]
    BY <1>1, <1>8, <2>2, TrackedFields
  <2>7. QED
    BY <1>7, <2>3, <2>4, <2>5, <2>6
<1>10. d.ptr \in 1 .. Len(t) /\ Ahead(d, t) = Skip(t, c.ptr + 1)
  BY <1>6 DEF Ahead, Commented
<1>11. 1 \in 1 .. c.n /\ h.start[1] = Skip(t, 1)
  BY <1>5, <1>9 DEF Agrees
<1>12. ValueOf(t, g.start[k]) = Result(x, c.ptr + 1)
  BY <1>3 DEF Agrees
<1>13. CASE p = 0
  <2>1. In(d, "done") /\ k = 1
    BY <1>2, <1>4, <1>5, <1>6, <1>13 DEF Behind, In, Family
  <2>2. Unclosed(d) = {}
    BY <1>2, <2>1 DEF Modes, Unclosed
  <2>3. ValueOf(t, Skip(t, 1)) = Result(h.value[1], c.ptr + 1)
    BY <1>9, <1>11, <1>12, <2>1
  <2>4. c.ptr + 1 \in Places(t)
    BY WholeAt
  <2>5. QED
    BY <1>1, <1>6, <1>8, <1>10, <1>11, <2>1, <2>2, <2>3, <2>4 DEF Agrees
<1>14. CASE p # 0
  <2>1. k # 1 /\ p \in Unclosed(c) /\ p \in 1 .. c.n /\ p < k /\ c.type[p] \in Container
    BY <1>2, <1>4, <1>5, <1>14 DEF Family, Unclosed
  <2>2. ~In(d, "done") /\ In(d, "need_comma") /\ d.top = p /\ TopKind(d) = c.type[p]
    <3>1. ~In(d, "done") /\ In(d, "need_comma")
      BY <1>6, <1>14 DEF Behind, In
    <3>2. QED
      BY <1>6, <1>14, <3>1 DEF TopKind
  <2>3. Inside(g, t, c.type[p], p, k) /\ Located(g, t, k) /\ Located(g, t, p)
    BY <1>4, <1>5, <2>1 DEF Agrees
  <2>4. PICK s, m, name, kind : s = g.start[k] /\ m = g.made[p] /\ name = g.name[p] /\ kind = c.type[p]
    OBVIOUS
  <2>5. s \in 1 .. Len(t) /\ At(t, s) # "]" /\ IsSeq(m) /\ kind \in Container /\ ValueOf(t, s) = Result(x, c.ptr + 1)
    BY <1>12, <2>1, <2>3, <2>4 DEF Located
  <2>6. PICK mm : mm = m \o <<Member(kind, name, x)>>
    OBVIOUS
  <2>7. IsSeq(mm) /\ Joined(m, Place(kind, t, name, s)) = Joined(mm, NextIn(kind, t, Skip(t, c.ptr + 1)))
    BY <2>5, <2>6, MemberPlaced
  <2>8. h.made[p] = mm
    BY <1>9, <2>1, <2>2, <2>4, <2>6 DEF Enlarged
  <2>9. ValueOf(t, g.start[p]) = Holder(kind, Joined(mm, NextIn(kind, t, Skip(t, c.ptr + 1))))
    BY <2>3, <2>4, <2>7 DEF Inside
  <2>10. Rest(d, h, t) = NextIn(kind, t, Skip(t, c.ptr + 1))
    BY <1>10, <2>2, <2>4 DEF Rest
  <2>11. Expected(d, h, t) = Holder(kind, Joined(mm, Rest(d, h, t)))
    BY <2>1, <2>2, <2>4, <2>8 DEF Expected, Container
  <2>12. ValueOf(t, h.start[d.top]) = Expected(d, h, t)
    BY <1>9, <2>1, <2>2, <2>9, <2>10, <2>11
  <2>13. ASSUME NEW v \in Unclosed(d) PROVE Located(h, t, v)
    <3>1. v \in Unclosed(c) /\ v \in 1 .. c.n
      BY <1>7, <2>13 DEF Unclosed
    <3>2. Located(g, t, v)
      BY <3>1 DEF Agrees
    <3>3. IsSeq(h.made[v])
      BY <1>9, <2>2, <2>7, <2>8, <3>1, <3>2 DEF Located
    <3>4. QED
      BY <1>9, <3>1, <3>2, <3>3 DEF Located
  <2>14. ASSUME NEW v \in Unclosed(d), v # 1 PROVE Inside(h, t, d.type[d.parent[v]], d.parent[v], v)
    <3>1. v \in Unclosed(c) /\ v \in 1 .. c.n
      BY <1>7, <2>14 DEF Unclosed
    <3>2. PICK w : w = c.parent[v]
      OBVIOUS
    <3>3. w \in 1 .. c.n /\ w # k /\ w # d.top
      <4>1. w \in Unclosed(c) /\ w # k
        BY <1>2, <1>3, <2>14, <3>1, <3>2 DEF Family
      <4>2. w # d.top
        BY <1>2, <1>6, <2>14, <3>2 DEF Family
      <4>3. QED
        BY <4>1, <4>2 DEF Unclosed
    <3>4. Inside(g, t, c.type[w], w, v)
      BY <2>14, <3>1, <3>2 DEF Agrees
    <3>5. QED
      BY <1>6, <1>9, <3>1, <3>2, <3>3, <3>4 DEF Inside
  <2>15. QED
    BY <1>1, <1>6, <1>8, <1>10, <1>11, <2>2, <2>12, <2>13, <2>14 DEF Agrees
<1>15. QED
  BY <1>13, <1>14

\* What the container holds next begins where the configuration is.
LEMMA RestBegins ==
  ASSUME NEW c, NEW g, NEW t, Whole(t), Regular(c), Agrees(c, g, t),
         In(c, "seek_value"), Starts(c), ~In(c, "done"), ~In(c, "string"), ~Commented(c), c.n > 0,
         t[c.ptr] \notin Blank \cup {"//", "/*"}
  PROVE  /\ c.top \in 1 .. c.n /\ c.top \in Unclosed(c) /\ TopKind(c) = c.type[c.top] /\ TopKind(c) \in Container
         /\ ValueOf(t, g.start[c.top]) = Holder(TopKind(c), Joined(g.made[c.top], Place(TopKind(c), t, g.name[c.top], c.ptr)))
         /\ Located(g, t, c.top)
<1>1. Typed(c) /\ Modes(c) /\ c.ptr \in 1 .. Len(t)
  BY DEF Regular, Agrees
<1>2. c.top # 0 /\ c.top \in 1 .. c.n /\ c.top \notin c.closed
  BY <1>1 DEF Modes, Typed
<1>3. TopKind(c) = c.type[c.top] /\ c.type[c.top] \in Kind
  BY <1>1, <1>2 DEF TopKind, Typed
<1>4. TopKind(c) \in Container /\ TopKind(c) # "string"
  BY <1>1, <1>3 DEF Modes, Kind, Container
<1>5. Ahead(c, t) = c.ptr
  BY <1>1, AheadHere
<1>6. Rest(c, g, t) = Place(TopKind(c), t, g.name[c.top], c.ptr)
  BY <1>5 DEF Rest, Starts
<1>7. c.top \in Unclosed(c)
  BY <1>2 DEF Unclosed
<1>8. QED
  BY <1>2, <1>3, <1>4, <1>6, <1>7 DEF Agrees, Expected

LEMMA AddsAgrees ==
  ASSUME NEW c, NEW d, NEW g, NEW t, Whole(t), Regular(c), Regular(d), Neat(c), Agrees(c, g, t),
         In(c, "seek_value"), Starts(c), ~In(c, "done"), ~In(c, "string"), ~Commented(c),
         t[c.ptr] \notin Blank \cup {"//", "/*", "]"}, NEW type, AddsClosed(c, d, type),
         NEW x, ValueOf(t, c.ptr) = Result(x, d.ptr), d.ptr \in 1 .. Len(t)
  PROVE  Agrees(d, Tracked(c, d, g, t), t) /\ Yield(c, d, g, t) = x
<1>1. PICK h : h = Tracked(c, d, g, t)
  OBVIOUS
<1>2. Typed(c) /\ Modes(c) /\ Family(c) /\ Modes(d) /\ Family(d) /\ c.ptr \in 1 .. Len(t)
  BY DEF Regular, Agrees
<1>3. PICK k, p : k = c.n + 1 /\ p = c.top
  OBVIOUS
<1>4. c.n \in Nat /\ k \in Nat /\ k > c.n /\ p \in 0 .. c.n /\ c.closed \subseteq 1 .. c.n /\ (p = 0 <=> c.n = 0)
  BY <1>2, <1>3 DEF Typed, Modes
<1>5. /\ d.n = k /\ d.closed = c.closed \cup {k} /\ d.top = (IF p = 0 THEN k ELSE p)
      /\ d.flags = Behind(c, p, c.flags \ {"seek_value"})
      /\ d.type = [w \in 1 .. k |-> IF w = k THEN type ELSE c.type[w]]
      /\ d.parent = [w \in 1 .. k |-> IF w = k THEN p ELSE c.parent[w]]
  BY <1>3 DEF AddsClosed, AddsValue
<1>6. Completing(c, d) /\ d.closed \ c.closed = {k} /\ Unclosed(d) = Unclosed(c) /\ d.n > c.n
  BY <1>3, <1>4, <1>5 DEF Completing, Unclosed
<1>7. Yield(c, d, g, t) = x
  BY <1>6, ResultFields DEF Yield
<1>8. /\ \A v \in 1 .. c.n : h.start[v] = g.start[v] /\ h.name[v] = g.name[v]
      /\ \A v \in 1 .. c.n : (v # p \/ In(d, "done")) => h.made[v] = g.made[v]
      /\ \A v \in 1 .. c.n : (v = p /\ ~In(d, "done")) => h.made[v] = Enlarged(c, g, v, x)
      /\ h.start[k] = c.ptr /\ h.value[k] = x
  <2>1. ASSUME NEW v \in 1 .. c.n
        PROVE  /\ h.start[v] = g.start[v] /\ h.name[v] = g.name[v]
               /\ (v # p \/ In(d, "done")) => h.made[v] = g.made[v]
               /\ (v = p /\ ~In(d, "done")) => h.made[v] = Enlarged(c, g, v, x)
    <3>1. v \in 1 .. d.n /\ ~(v > c.n)
      BY <1>3, <1>4, <1>5, <2>1
    <3>2. h.start[v] = g.start[v]
      BY <1>1, <3>1, TrackedFields
    <3>3. h.name[v] = g.name[v]
      BY <1>1, <3>1, TrackedFields
    <3>4. h.made[v] = IF Completing(c, d) /\ ~In(d, "done") /\ v = d.top THEN Enlarged(c, g, v, x) ELSE g.made[v]
      BY <1>1, <1>7, <3>1, TrackedFields
    <3>5. v = d.top <=> v = p
      BY <1>4, <1>5, <2>1
    <3>6. QED
      BY <1>6, <3>2, <3>3, <3>4, <3>5
  <2>2. k \in 1 .. d.n /\ k \in d.closed \ c.closed
    BY <1>4, <1>5, <1>6
  <2>3. h.start[k] = c.ptr
    BY <1>1, <1>4, <2>2, TrackedFields
  <2>4. h.value[k] = x
    BY <1>1, <1>7, <2>2, TrackedFields
  <2>5. QED
    BY <2>1, <2>3, <2>4
<1>9. ~In(d, "string") /\ ~In(d, "escaped") /\ ~Commented(d) /\ Ahead(d, t) = Skip(t, d.ptr)
  <2>1. ~In(d, "string") /\ ~In(d, "escaped") /\ ~Commented(d)
    BY <1>5 DEF Behind, In, Commented, Neat
  <2>2. QED
    BY <2>1 DEF Ahead, Commented
<1>10. c.ptr \in Places(t) /\ Ahead(c, t) = c.ptr /\ At(t, c.ptr) = t[c.ptr]
  BY <1>2, AheadHere
<1>11. CASE p = 0
  <2>1. In(d, "done") /\ k = 1
    BY <1>3, <1>4, <1>5, <1>11 DEF Behind, In
  <2>2. Unclosed(d) = {}
    BY <1>2, <2>1 DEF Modes, Unclosed
  <2>3. h.start[1] = Skip(t, 1)
    BY <1>4, <1>8, <1>10, <1>11, <2>1 DEF Agrees
  <2>4. ValueOf(t, Skip(t, 1)) = Result(h.value[1], d.ptr)
    BY <1>8, <2>1, <2>3
  <2>5. d.ptr \in Places(t)
    BY WholeAt
  <2>6. QED
    BY <1>1, <1>5, <1>7, <1>9, <2>1, <2>2, <2>3, <2>4, <2>5 DEF Agrees
<1>12. CASE p # 0
  <2>1. c.n > 0 /\ p \in 1 .. c.n /\ 1 \in 1 .. c.n
    BY <1>4, <1>12
  <2>2. PICK s, m, name, kind : s = c.ptr /\ m = g.made[p] /\ name = g.name[p] /\ kind = c.type[p]
    OBVIOUS
  <2>3. /\ p \in Unclosed(c) /\ kind \in Container /\ IsSeq(m)
        /\ ValueOf(t, g.start[p]) = Holder(kind, Joined(m, Place(kind, t, name, s)))
    BY <1>3, <2>1, <2>2, RestBegins DEF Located
  <2>4. ~In(d, "done") /\ In(d, "need_comma") /\ d.top = p /\ TopKind(d) = kind
    <3>1. ~In(d, "done") /\ In(d, "need_comma")
      BY <1>5, <1>12 DEF Behind, In
    <3>2. d.top = p /\ p # k
      BY <1>4, <1>5, <1>12
    <3>3. d.type[p] = kind
      BY <1>3, <1>4, <1>5, <2>1, <2>2, <3>2
    <3>4. QED
      BY <1>12, <3>1, <3>2, <3>3 DEF TopKind
  <2>5. PICK mm : mm = m \o <<Member(kind, name, x)>>
    OBVIOUS
  <2>6. IsSeq(mm) /\ Joined(m, Place(kind, t, name, s)) = Joined(mm, NextIn(kind, t, Skip(t, d.ptr)))
    BY <1>2, <1>10, <2>2, <2>3, <2>5, MemberPlaced
  <2>7. h.made[p] = mm
    BY <1>8, <2>1, <2>2, <2>4, <2>5 DEF Enlarged
  <2>8. ValueOf(t, g.start[p]) = Holder(kind, Joined(mm, NextIn(kind, t, Skip(t, d.ptr))))
    BY <2>3, <2>6
  <2>9. Rest(d, h, t) = NextIn(kind, t, Skip(t, d.ptr))
    BY <1>9, <2>4 DEF Rest
  <2>10. Expected(d, h, t) = Holder(kind, Joined(mm, Rest(d, h, t)))
    BY <2>3, <2>4, <2>7 DEF Expected, Container
  <2>11. ValueOf(t, h.start[d.top]) = Expected(d, h, t)
    BY <1>8, <2>1, <2>4, <2>8, <2>9, <2>10
  <2>12. ASSUME NEW v \in Unclosed(d) PROVE Located(h, t, v)
    <3>1. v \in Unclosed(c) /\ v \in 1 .. c.n
      BY <1>6, <2>12 DEF Unclosed
    <3>2. Located(g, t, v)
      BY <3>1 DEF Agrees
    <3>3. IsSeq(h.made[v])
      BY <1>8, <2>4, <2>6, <2>7, <3>1, <3>2 DEF Located
    <3>4. QED
      BY <1>8, <3>1, <3>2, <3>3 DEF Located
  <2>13. ASSUME NEW v \in Unclosed(d), v # 1 PROVE Inside(h, t, d.type[d.parent[v]], d.parent[v], v)
    <3>1. v \in Unclosed(c) /\ v \in 1 .. c.n
      BY <1>6, <2>13 DEF Unclosed
    <3>2. PICK w : w = c.parent[v]
      OBVIOUS
    <3>3. w \in 1 .. c.n /\ w # p
      BY <1>2, <1>3, <2>13, <3>1, <3>2 DEF Family, Unclosed
    <3>4. Inside(g, t, c.type[w], w, v)
      BY <2>13, <3>1, <3>2 DEF Agrees
    <3>5. v # k /\ w # k /\ v \in 1 .. k /\ w \in 1 .. k
      BY <1>3, <1>4, <3>1, <3>3
    <3>6. d.parent[v] = w /\ d.type[w] = c.type[w]
      BY <1>5, <3>2, <3>5
    <3>7. QED
      BY <1>8, <3>1, <3>3, <3>4, <3>6 DEF Inside
  <2>14. h.start[1] = Skip(t, 1) /\ d.n # 0
    BY <1>4, <1>5, <1>8, <2>1 DEF Agrees
  <2>15. QED
    BY <1>1, <1>5, <1>7, <1>9, <2>4, <2>11, <2>12, <2>13, <2>14 DEF Agrees
<1>13. QED
  BY <1>11, <1>12

LEMMA OpensAgrees ==
  ASSUME NEW c, NEW d, NEW g, NEW t, Whole(t), Regular(c), Regular(d), Neat(c), Agrees(c, g, t),
         In(c, "seek_value"), Starts(c), ~In(c, "done"), ~In(c, "string"), ~Commented(c),
         NEW b, b = t[c.ptr], b \in {"[", "lbrace", "quote"}, OpensValue(c, d, b)
  PROVE  Agrees(d, Tracked(c, d, g, t), t)
<1>1. PICK h : h = Tracked(c, d, g, t)
  OBVIOUS
<1>2. Typed(c) /\ Modes(c) /\ Family(c) /\ Modes(d) /\ Family(d) /\ c.ptr \in 1 .. Len(t)
  BY DEF Regular, Agrees
<1>3. PICK k, p : k = c.n + 1 /\ p = c.top
  OBVIOUS
<1>4. c.n \in Nat /\ k \in Nat /\ k > c.n /\ p \in 0 .. c.n /\ c.closed \subseteq 1 .. c.n /\ (p = 0 <=> c.n = 0)
  BY <1>2, <1>3 DEF Typed, Modes
<1>5. /\ d.n = k /\ d.closed = c.closed /\ d.top = k /\ d.ptr = c.ptr + 1
      /\ d.flags = (c.flags \ {"seek_value"}) \cup OpenedFlags(b)
      /\ d.type = [w \in 1 .. k |-> IF w = k THEN OpenedKind(b) ELSE c.type[w]]
      /\ d.parent = [w \in 1 .. k |-> IF w = k THEN p ELSE c.parent[w]]
  BY <1>3 DEF OpensValue, AddsValue
<1>6. ~Completing(c, d) /\ d.closed \ c.closed = {} /\ Unclosed(d) = Unclosed(c) \cup {k} /\ d.n > c.n
  BY <1>3, <1>4, <1>5 DEF Completing, Unclosed
<1>7. PICK e : e = <<>>
  OBVIOUS
<1>8. /\ \A v \in 1 .. c.n : h.start[v] = g.start[v] /\ h.name[v] = g.name[v] /\ h.made[v] = g.made[v]
      /\ h.start[k] = c.ptr /\ h.made[k] = e /\ h.bytes = e
  <2>1. ASSUME NEW v \in 1 .. c.n
        PROVE  h.start[v] = g.start[v] /\ h.name[v] = g.name[v] /\ h.made[v] = g.made[v]
    <3>1. v \in 1 .. d.n /\ ~(v > c.n)
      BY <1>3, <1>4, <1>5, <2>1
    <3>2. h.start[v] = g.start[v]
      BY <1>1, <3>1, TrackedFields
    <3>3. h.name[v] = g.name[v]
      BY <1>1, <3>1, TrackedFields
    <3>4. h.made[v] = g.made[v]
      BY <1>1, <1>6, <3>1, TrackedFields
    <3>5. QED
      BY <3>2, <3>3, <3>4
  <2>2. k \in 1 .. d.n
    BY <1>4, <1>5
  <2>3. h.start[k] = c.ptr
    BY <1>1, <1>4, <2>2, TrackedFields
  <2>4. h.made[k] = e
    BY <1>1, <1>4, <1>7, <2>2, TrackedFields
  <2>5. h.bytes = e
    BY <1>1, <1>7, TrackedFields
  <2>6. QED
    BY <2>1, <2>3, <2>4, <2>5
<1>9. /\ c.ptr \in Places(t) /\ Ahead(c, t) = c.ptr /\ At(t, c.ptr) = b /\ c.ptr + 1 \in 1 .. Len(t)
  BY <1>2, AheadHere DEF Blank
<1>10. ~In(d, "escaped") /\ ~Commented(d) /\ ~In(d, "done") /\ ~In(d, "need_comma") /\ ~In(d, "need_colon")
       /\ (In(d, "string") <=> b = "quote") /\ (In(d, "seek_value") <=> b = "[")
  BY <1>5 DEF In, Commented, Neat, OpenedFlags, Starts
<1>11. Ahead(d, t) = Skip(t, c.ptr + 1) /\ Cursor(d) = c.ptr + 1
  BY <1>5, <1>10 DEF Ahead, Commented, Cursor
<1>12. c.ptr + 1 \in Places(t) /\ Skip(t, c.ptr + 1) \in Places(t)
  <2>1. Len(t) \in Nat /\ Places(t) = 1 .. Len(t) + 2
    BY WholeAt
  <2>2. c.ptr + 1 \in Places(t)
    BY <1>9, <2>1
  <2>3. Skip(t, c.ptr + 1) \in c.ptr + 1 .. Len(t) + 2
    BY <2>2, SkipBounds
  <2>4. QED
    BY <1>9, <2>1, <2>2, <2>3
<1>13. TopKind(d) = OpenedKind(b)
  <2>1. d.top # 0 /\ d.type[d.top] = OpenedKind(b)
    BY <1>4, <1>5
  <2>2. QED
    BY <2>1 DEF TopKind
<1>14. ValueOf(t, h.start[k]) = Expected(d, h, t)
  <2>1. CASE b = "["
    <3>1. TopKind(d) = "array" /\ Rest(d, h, t) = ItemsOf(t, Skip(t, c.ptr + 1))
      BY <1>10, <1>11, <1>13, <2>1 DEF OpenedKind, Rest, Place
    <3>2. Joined(e, ItemsOf(t, Skip(t, c.ptr + 1))) = ItemsOf(t, Skip(t, c.ptr + 1))
      BY <1>7, <1>12, GrammarItems, ListedFields
    <3>3. ValueOf(t, c.ptr) = Holder("array", ItemsOf(t, Skip(t, c.ptr + 1)))
      BY <1>9, <2>1, GrammarValues
    <3>4. QED
      BY <1>5, <1>8, <3>1, <3>2, <3>3 DEF Expected
  <2>2. CASE b = "lbrace"
    <3>1. TopKind(d) = "object" /\ Rest(d, h, t) = EntriesOf(t, Skip(t, c.ptr + 1))
      BY <1>10, <1>11, <1>13, <2>2 DEF OpenedKind, Rest
    <3>2. Joined(e, EntriesOf(t, Skip(t, c.ptr + 1))) = EntriesOf(t, Skip(t, c.ptr + 1))
      BY <1>7, <1>12, GrammarEntries, ListedFields
    <3>3. ValueOf(t, c.ptr) = Holder("object", EntriesOf(t, Skip(t, c.ptr + 1)))
      BY <1>9, <2>2, GrammarValues
    <3>4. QED
      BY <1>5, <1>8, <3>1, <3>2, <3>3 DEF Expected
  <2>3. CASE b = "quote"
    <3>1. TopKind(d) = "string"
      BY <1>13, <2>3 DEF OpenedKind
    <3>2. Spelled(d, h, t) = Letters(t)[c.ptr + 1]
      <4>1. Spelled(d, h, t) = Joined(e, Letters(t)[c.ptr + 1])
        BY <1>8, <1>11 DEF Spelled
      <4>2. QED
        BY <1>7, <1>12, <4>1, SpelledStart
    <3>3. ValueOf(t, c.ptr) = Quoted(Letters(t)[c.ptr + 1])
      BY <1>9, <2>3, GrammarValues
    <3>4. QED
      BY <1>8, <3>1, <3>2, <3>3 DEF Expected
  <2>4. QED
    BY <2>1, <2>2, <2>3
<1>15. ASSUME NEW v \in Unclosed(d) PROVE Located(h, t, v)
  <2>1. CASE v = k
    <3>1. b # "]" /\ b # "end"
      OBVIOUS
    <3>2. IsSeq(e)
      BY <1>7, SeqFacts
    <3>3. QED
      BY <1>2, <1>8, <1>9, <2>1, <3>1, <3>2 DEF Located
  <2>2. CASE v \in Unclosed(c)
    <3>1. Located(g, t, v) /\ v \in 1 .. c.n
      BY <2>2 DEF Agrees, Unclosed
    <3>2. QED
      BY <1>8, <3>1 DEF Located
  <2>3. QED
    BY <1>6, <1>15, <2>1, <2>2
<1>16. ASSUME NEW v \in Unclosed(d), v # 1 PROVE Inside(h, t, d.type[d.parent[v]], d.parent[v], v)
  <2>1. CASE v = k
    <3>1. c.n > 0 /\ p \in 1 .. c.n /\ p # k
      BY <1>3, <1>4, <1>16, <2>1
    <3>2. ValueOf(t, g.start[p]) = Holder(c.type[p], Joined(g.made[p], Place(c.type[p], t, g.name[p], c.ptr)))
      BY <1>3, <3>1, RestBegins DEF Blank
    <3>3. k \in 1 .. k /\ p \in 1 .. k
      BY <1>3, <1>4, <3>1
    <3>4. d.parent[v] = p /\ d.type[p] = c.type[p]
      BY <1>5, <2>1, <3>1, <3>3
    <3>5. QED
      BY <1>8, <2>1, <3>1, <3>2, <3>4 DEF Inside
  <2>2. CASE v \in Unclosed(c)
    <3>1. v \in 1 .. c.n
      BY <2>2 DEF Unclosed
    <3>2. PICK w : w = c.parent[v]
      OBVIOUS
    <3>3. w \in 1 .. c.n
      BY <1>2, <1>16, <2>2, <3>1, <3>2 DEF Family, Unclosed
    <3>4. Inside(g, t, c.type[w], w, v)
      BY <1>16, <2>2, <3>2 DEF Agrees
    <3>5. v # k /\ w # k /\ v \in 1 .. k /\ w \in 1 .. k
      BY <1>3, <1>4, <3>1, <3>3
    <3>6. d.parent[v] = w /\ d.type[w] = c.type[w]
      BY <1>5, <3>2, <3>5
    <3>7. QED
      BY <1>8, <3>1, <3>3, <3>4, <3>6 DEF Inside
  <2>3. QED
    BY <1>6, <1>16, <2>1, <2>2
<1>17. h.start[1] = Skip(t, 1)
  <2>1. CASE c.n = 0
    BY <1>3, <1>8, <1>9, <2>1 DEF Agrees
  <2>2. CASE c.n # 0
    <3>1. c.n > 0 /\ 1 \in 1 .. c.n
      BY <1>4, <2>2
    <3>2. QED
      BY <1>8, <3>1 DEF Agrees
  <2>3. QED
    BY <2>1, <2>2
<1>18. IsSeq(h.bytes) /\ d.n # 0
  BY <1>4, <1>5, <1>7, <1>8, SeqFacts
<1>19. QED
  BY <1>1, <1>5, <1>9, <1>10, <1>14, <1>15, <1>16, <1>17, <1>18 DEF Agrees

\* A step over a number goes as far as the grammar has it.
Numbers(c, d, t) == \A type \in Numeric : AddsClosed(c, d, type) => \E x : Number(t, c.ptr) = Result(x, d.ptr)

LEMMA ClosesWell ==
  ASSUME NEW c, NEW d, NEW g, NEW t, Whole(t), Regular(c), Regular(d), Agrees(c, g, t), Neat(c), ~In(c, "done"),
         c.n > 0, NEW f, Closes(c, d, f), f \subseteq c.flags, ~Commented(c), "string" \notin f, "escaped" \notin f,
         NEW x, Expected(c, g, t) = Result(x, c.ptr + 1), c.ptr + 1 \in 1 .. Len(t)
  PROVE  Agrees(d, Tracked(c, d, g, t), t) /\ Yield(c, d, g, t) = x
<1>1. d.flags = Behind(c, c.parent[c.top], f)
  BY DEF Closes
<1>2. ~In(d, "string") /\ ~In(d, "escaped") /\ ~Commented(d) /\ "done" \notin f
  BY <1>1 DEF Behind, In, Commented
<1>3. QED
  BY <1>2, ClosesAgrees

\* What is expected when the token that ends a value is next.
LEMMA ExpectedEnd ==
  ASSUME NEW c, NEW g, NEW t, Whole(t), Regular(c), Agrees(c, g, t), Neat(c), ~In(c, "done"), ~Commented(c),
         \/ TopKind(c) = "string" /\ In(c, "string") /\ ~In(c, "escaped") /\ t[c.ptr] = "quote"
         \/ TopKind(c) = "array" /\ ~In(c, "string") /\ t[c.ptr] = "]"
         \/ TopKind(c) = "object" /\ ~In(c, "string") /\ ~In(c, "seek_value") /\ t[c.ptr] = "rbrace"
  PROVE  /\ c.n > 0 /\ c.ptr + 1 \in 1 .. Len(t)
         /\ TopKind(c) = "string" => Expected(c, g, t) = Result([type |-> "string", bytes |-> g.bytes], c.ptr + 1)
         /\ TopKind(c) # "string" => Expected(c, g, t) = Result([type |-> TopKind(c), items |-> g.made[c.top]], c.ptr + 1)
<1>1. Typed(c) /\ Modes(c) /\ c.ptr \in 1 .. Len(t)
  BY DEF Regular, Agrees
<1>2. c.top # 0 /\ c.n > 0 /\ c.top \in 1 .. c.n /\ c.top \notin c.closed
  BY <1>1 DEF TopKind, Typed, Modes
<1>3. PICK p : p = c.ptr
  OBVIOUS
<1>4. At(t, p) = t[p] /\ p \in Places(t) /\ p + 1 \in 1 .. Len(t)
  BY <1>1, <1>3, AheadHere
<1>5. TopKind(c) # "string" => Ahead(c, t) = p
  BY <1>1, <1>3, AheadHere DEF Blank
<1>6. CASE TopKind(c) = "string"
  <2>1. Spelled(c, g, t) = Result(g.bytes, p + 1)
    BY <1>3, <1>6, SpelledEnd
  <2>2. Expected(c, g, t) = Quoted(Result(g.bytes, p + 1))
    BY <1>6, <2>1 DEF Expected
  <2>3. QED
    BY <1>2, <1>3, <1>4, <1>6, <2>2, ResultFields DEF Quoted
<1>7. CASE TopKind(c) # "string"
  <2>1. PICK e, m : e = <<>> /\ m = g.made[c.top]
    OBVIOUS
  <2>2. IsSeq(m) /\ m \o e = m
    <3>1. c.top \in Unclosed(c)
      BY <1>2 DEF Unclosed
    <3>2. IsSeq(m)
      BY <2>1, <3>1 DEF Agrees, Located
    <3>3. QED
      BY <2>1, <3>2, SeqConcat
  <2>3. Rest(c, g, t) = Result(e, p + 1)
    <3>1. CASE TopKind(c) = "array"
      <4>1. In(c, "seek_value") /\ ~In(c, "need_colon")
        BY <1>1, <1>7, <3>1 DEF Modes
      <4>2. Rest(c, g, t) \in {NextItem(t, p), ItemsOf(t, p)}
        BY <1>5, <1>7, <3>1, <4>1 DEF Rest, NextIn, Place
      <4>3. QED
        BY <1>3, <1>4, <1>7, <2>1, <3>1, <4>2, GrammarItems
    <3>2. CASE TopKind(c) = "object"
      <4>1. ~In(c, "need_colon") /\ ~In(c, "seek_value")
        BY <1>1, <1>7, <3>2 DEF Modes
      <4>2. Rest(c, g, t) \in {NextEntry(t, p), EntriesOf(t, p)}
        BY <1>5, <1>7, <3>2, <4>1 DEF Rest, NextIn
      <4>3. QED
        BY <1>3, <1>4, <1>7, <2>1, <3>2, <4>2, GrammarEntries
    <3>3. QED
      BY <1>7, <3>1, <3>2
  <2>4. Joined(m, Result(e, p + 1)) = Result(m, p + 1)
    <3>1. Joined(m, Result(e, p + 1)) = Result(m \o e, p + 1)
      BY JoinedFields
    <3>2. QED
      BY <2>2, <3>1
  <2>5. Expected(c, g, t) = Holder(TopKind(c), Result(m, p + 1))
    BY <1>7, <2>1, <2>3, <2>4 DEF Expected
  <2>6. Expected(c, g, t) = Result([type |-> TopKind(c), items |-> m], p + 1)
    BY <2>5, HolderFields
  <2>7. QED
    BY <1>2, <1>3, <1>4, <1>7, <2>1, <2>6
<1>8. QED
  BY <1>6, <1>7

LEMMA AsideStep ==
  ASSUME NEW c, NEW d, NEW t, Whole(t), Regular(c), Leads(c, d, t), ~In(c, "string"),
         Commented(c) \/ t[c.ptr] \in Blank \cup {"//", "/*"}
  PROVE  Aside(c, d) /\ d.ptr \in 1 .. Len(t) /\ Ahead(d, t) = Ahead(c, t)
<1>1. PICK b : b = t[c.ptr]
  OBVIOUS
<1>2. Typed(c) /\ Modes(c) /\ Len(t) \in Nat /\ c.ptr \in 1 .. Len(t)
  BY WholeAt DEF Regular, Leads, Typed
<1>3. \/ /\ In(c, "line_comment") /\ b \notin {"newline", "end"} /\ GoesOn(c, d, c.flags)
      \/ /\ In(c, "line_comment") /\ b \in {"newline", "end"} /\ Uncomments(c, d)
      \/ /\ In(c, "block_comment") /\ b = "*/" /\ GoesOn(c, d, c.flags \ {"block_comment"})
      \/ /\ In(c, "block_comment") /\ b \notin {"*/", "end"} /\ GoesOn(c, d, c.flags)
      \/ /\ ~Commented(c) /\ b = "//" /\ GoesOn(c, d, c.flags \cup {"line_comment"})
      \/ /\ ~Commented(c) /\ b = "/*" /\ GoesOn(c, d, c.flags \cup {"block_comment"})
      \/ /\ ~Commented(c) /\ b \in Blank /\ GoesOn(c, d, c.flags)
  <2>1. CASE In(c, "line_comment")
    BY <1>1, <2>1 DEF Leads, InLine
  <2>2. CASE ~In(c, "line_comment") /\ In(c, "block_comment")
    BY <1>1, <2>2 DEF Leads, InBlock
  <2>3. CASE ~Commented(c) /\ b \in {"//", "/*"}
    BY <1>1, <2>3 DEF Leads, IntoComment, Commented
  <2>4. CASE ~Commented(c) /\ b \in Blank
    <3>1. b \notin {"//", "/*", "comma", ":", "]", "[", "lbrace", "quote", "literal", "rbrace"} \cup Digit \cup {"-"}
      BY <2>4 DEF Blank, Digit
    <3>2. (In(c, "done") /\ GoesOn(c, d, c.flags)) \/ Seeking(c, d, t, b) \/ BetweenEntries(c, d, b)
      BY <1>1, <2>4, <3>1 DEF Leads, Commented
    <3>3. GoesOn(c, d, c.flags)
      BY <3>1, <3>2 DEF Seeking, BetweenEntries
    <3>4. QED
      BY <2>4, <3>3
  <2>5. QED
    BY <1>1, <2>1, <2>2, <2>3, <2>4 DEF Commented
<1>4. d.ptr \in 1 .. Len(t)
  <2>1. CASE b = "end"
    <3>1. Uncomments(c, d)
      BY <1>3, <2>1 DEF Blank
    <3>2. QED
      BY <1>2, <3>1 DEF Uncomments
  <2>2. CASE b # "end"
    <3>1. c.ptr + 1 \in 1 .. Len(t)
      BY <1>1, <1>2, <2>2 DEF Whole
    <3>2. d.ptr = c.ptr + 1 \/ d.ptr = c.ptr
      BY <1>3 DEF GoesOn, Uncomments
    <3>3. QED
      BY <1>2, <3>1, <3>2
  <2>3. QED
    BY <2>1, <2>2
<1>5. \E x \in {"line_comment", "block_comment"} : d.flags \in {c.flags, c.flags \cup {x}, c.flags \ {x}}
  BY <1>3 DEF GoesOn, Uncomments
<1>6. Aside(c, d)
  BY <1>3, <1>5 DEF Aside, GoesOn, Uncomments, In
<1>7. Ahead(d, t) = Ahead(c, t)
  <2>1. ~(In(c, "line_comment") /\ In(c, "block_comment"))
    BY <1>2 DEF Modes
  <2>2. QED
    BY <1>1, <1>2, <1>3, <2>1, AheadStays DEF GoesOn, Uncomments
<1>8. QED
  BY <1>4, <1>6, <1>7

LEMMA StringStep ==
  ASSUME NEW c, NEW d, NEW g, NEW t, Whole(t), Regular(c), Regular(d), Neat(c), Agrees(c, g, t), In(c, "string"),
         NEW b, b = t[c.ptr], InString(c, d, b)
  PROVE  Agrees(d, Tracked(c, d, g, t), t)
<1>1. Typed(c) /\ Modes(c) /\ ~In(c, "done") /\ ~Commented(c) /\ TopKind(c) \in {"string", "object"}
  BY DEF Regular, Modes
<1>2. CASE Writes(c, d, b) /\ (IF In(c, "escaped") THEN b \notin {"end", "u?"} ELSE b \notin {"end", "backslash", "quote"})
  BY <1>2, WritesAgrees
<1>3. CASE ~In(c, "escaped") /\ b = "backslash" /\ GoesOn(c, d, c.flags \cup {"escaped"})
  BY <1>3, EscapeAgrees
<1>4. CASE ~In(c, "escaped") /\ b = "quote" /\ TopKind(c) = "string" /\ Closes(c, d, c.flags \ {"string"})
  <2>1. PICK x : x = [type |-> "string", bytes |-> g.bytes]
    OBVIOUS
  <2>2. c.n > 0 /\ c.ptr + 1 \in 1 .. Len(t) /\ Expected(c, g, t) = Result(x, c.ptr + 1)
    BY <1>1, <1>4, <2>1, ExpectedEnd
  <2>3. PICK f : f = c.flags \ {"string"}
    OBVIOUS
  <2>4. f \subseteq c.flags /\ "string" \notin f /\ "escaped" \notin f
    BY <1>4, <2>3 DEF In
  <2>5. QED
    BY <1>1, <1>4, <2>2, <2>3, <2>4, ClosesWell
<1>5. CASE ~In(c, "escaped") /\ b = "quote" /\ TopKind(c) = "object" /\ Names(c, d)
  BY <1>5, NamesAgrees
<1>6. QED
  BY <1>2, <1>3, <1>4, <1>5 DEF InString

\* A container ends.
LEMMA EndStep ==
  ASSUME NEW c, NEW d, NEW g, NEW t, Whole(t), Regular(c), Regular(d), Neat(c), Agrees(c, g, t), ~In(c, "string"),
         ~Commented(c), ~In(c, "done"), NEW f, f \subseteq c.flags, Closes(c, d, f),
         \/ TopKind(c) = "array" /\ t[c.ptr] = "]"
         \/ TopKind(c) = "object" /\ ~In(c, "seek_value") /\ t[c.ptr] = "rbrace"
  PROVE  /\ Agrees(d, Tracked(c, d, g, t), t) /\ c.n > 0
         /\ Yield(c, d, g, t) = [type |-> TopKind(c), items |-> g.made[c.top]]
<1>1. PICK x : x = [type |-> TopKind(c), items |-> g.made[c.top]]
  OBVIOUS
<1>2. c.n > 0 /\ c.ptr + 1 \in 1 .. Len(t) /\ Expected(c, g, t) = Result(x, c.ptr + 1)
  BY <1>1, ExpectedEnd
<1>3. "string" \notin f /\ "escaped" \notin f
  BY DEF In, Neat
<1>4. Agrees(d, Tracked(c, d, g, t), t) /\ Yield(c, d, g, t) = x
  BY <1>2, <1>3, ClosesWell
<1>5. QED
  BY <1>1, <1>2, <1>4

LEMMA SeekingStep ==
  ASSUME NEW c, NEW d, NEW g, NEW t, Whole(t), Regular(c), Regular(d), Neat(c), Agrees(c, g, t), ~In(c, "string"),
         ~Commented(c), ~In(c, "done"), In(c, "seek_value"), Numbers(c, d, t),
         NEW b, b = t[c.ptr], b \notin Blank \cup {"//", "/*"}, Seeking(c, d, t, b)
  PROVE  Agrees(d, Tracked(c, d, g, t), t)
<1>1. PICK p : p = c.ptr
  OBVIOUS
<1>2. p \in Places(t) /\ At(t, p) = b /\ (b # "end" => p + 1 \in 1 .. Len(t)) /\ p \in 1 .. Len(t)
  BY <1>1, AheadHere DEF Agrees
<1>3. CASE In(c, "need_comma") /\ b = "comma" /\ GoesOn(c, d, c.flags \ {"need_comma"})
  BY <1>3, SeparatorAgrees
<1>4. CASE In(c, "need_colon") /\ ~In(c, "need_comma") /\ b = ":" /\ GoesOn(c, d, c.flags \ {"need_colon"})
  BY <1>4, SeparatorAgrees
<1>5. CASE b = "]" /\ TopKind(c) = "array" /\ Closes(c, d, c.flags \ {"need_comma", "seek_value"})
  <2>1. c.flags \ {"need_comma", "seek_value"} \subseteq c.flags
    OBVIOUS
  <2>2. QED
    BY <1>5, <2>1, EndStep
<1>6. CASE Starts(c) /\ b \in {"[", "lbrace", "quote"} /\ OpensValue(c, d, b)
  BY <1>6, OpensAgrees
<1>7. CASE Starts(c) /\ b = "literal" /\ AddsClosed(c, d, "literal") /\ d.ptr = c.ptr + 1
  <2>1. PICK x : x = [type |-> "literal"]
    OBVIOUS
  <2>2. ValueOf(t, c.ptr) = Result(x, d.ptr)
    BY <1>1, <1>2, <1>7, <2>1, GrammarValues
  <2>3. d.ptr \in 1 .. Len(t)
    BY <1>1, <1>2, <1>7
  <2>4. QED
    BY <1>7, <2>2, <2>3, AddsAgrees
<1>8. CASE Starts(c) /\ b \in Digit \cup {"-"} /\ IsNumber(t, c.ptr, d.ptr) /\ \E type \in Numeric : AddsClosed(c, d, type)
  <2>1. PICK type \in Numeric : AddsClosed(c, d, type)
    BY <1>8
  <2>2. PICK x : Number(t, c.ptr) = Result(x, d.ptr)
    BY <2>1 DEF Numbers
  <2>3. ValueOf(t, c.ptr) = Result(x, d.ptr)
    BY <1>1, <1>2, <1>8, <2>2, GrammarValues
  <2>4. d.ptr \in 1 .. Len(t)
    BY <1>1, <1>2, <1>8 DEF IsNumber
  <2>5. b # "]"
    BY <1>8 DEF Digit
  <2>6. QED
    BY <1>8, <2>1, <2>3, <2>4, <2>5, AddsAgrees
<1>9. QED
  BY <1>3, <1>4, <1>5, <1>6, <1>7, <1>8 DEF Seeking, Numeric

LEMMA EntriesStep ==
  ASSUME NEW c, NEW d, NEW g, NEW t, Whole(t), Regular(c), Regular(d), Neat(c), Agrees(c, g, t), ~In(c, "string"),
         ~Commented(c), ~In(c, "done"), ~In(c, "seek_value"),
         NEW b, b = t[c.ptr], b \notin Blank \cup {"//", "/*"}, BetweenEntries(c, d, b)
  PROVE  Agrees(d, Tracked(c, d, g, t), t)
<1>1. TopKind(c) = "object"
  BY DEF Regular, Modes
<1>2. CASE b = "quote" /\ ~In(c, "need_comma") /\ BeginsName(c, d)
  BY <1>2, BeginsNameAgrees
<1>3. CASE b = "comma" /\ In(c, "need_comma") /\ GoesOn(c, d, c.flags \ {"need_comma"})
  BY <1>3, SeparatorAgrees
<1>4. CASE b = "rbrace" /\ Closes(c, d, c.flags \ {"need_comma"})
  <2>1. c.flags \ {"need_comma"} \subseteq c.flags
    OBVIOUS
  <2>2. QED
    BY <1>1, <1>4, <2>1, EndStep
<1>5. QED
  BY <1>2, <1>3, <1>4 DEF BetweenEntries

\* What the grammar says of the rest is kept by every step.
LEMMA StepAgrees ==
  ASSUME NEW c, NEW d, NEW g, NEW t, Whole(t), Regular(c), Neat(c), Agrees(c, g, t), Leads(c, d, t), Numbers(c, d, t)
  PROVE  Agrees(d, Tracked(c, d, g, t), t)
<1>1. Regular(d)
  BY StepNext DEF Whole
<1>2. PICK b : b = t[c.ptr]
  OBVIOUS
<1>3. CASE In(c, "string")
  <2>1. InString(c, d, b)
    BY <1>2, <1>3 DEF Leads
  <2>2. QED
    BY <1>1, <1>2, <1>3, <2>1, StringStep
<1>4. CASE ~In(c, "string") /\ (Commented(c) \/ b \in Blank \cup {"//", "/*"})
  <2>1. Aside(c, d) /\ d.ptr \in 1 .. Len(t) /\ Ahead(d, t) = Ahead(c, t)
    BY <1>2, <1>4, AsideStep
  <2>2. QED
    BY <1>4, <2>1, AsideAgrees
<1>5. CASE ~In(c, "string") /\ ~Commented(c) /\ b \notin Blank \cup {"//", "/*"}
  <2>1. ~In(c, "line_comment") /\ ~In(c, "block_comment") /\ b \notin {"//", "/*"} /\ b \notin Blank
    BY <1>5 DEF Commented
  <2>2. ~In(c, "done") /\ IF In(c, "seek_value") THEN Seeking(c, d, t, b) ELSE BetweenEntries(c, d, b)
    BY <1>2, <1>5, <2>1 DEF Leads
  <2>3. CASE In(c, "seek_value")
    BY <1>1, <1>2, <1>5, <2>2, <2>3, SeekingStep
  <2>4. CASE ~In(c, "seek_value")
    BY <1>1, <1>2, <1>5, <2>2, <2>4, EntriesStep
  <2>5. QED
    BY <2>3, <2>4
<1>6. QED
  BY <1>3, <1>4, <1>5

LEMMA StartAgrees ==
  ASSUME NEW t, Whole(t), NEW g
  PROVE  Agrees(Start, g, t)
<1>1. PICK c : c = Start
  OBVIOUS
<1>2. c.ptr = 1 /\ c.flags = {"seek_value"} /\ c.n = 0 /\ c.closed = {}
  BY <1>1, StartFields
<1>3. ~In(c, "line_comment") /\ ~In(c, "block_comment") /\ ~In(c, "escaped") /\ ~In(c, "string") /\ ~In(c, "done")
  BY <1>2 DEF In
<1>4. Ahead(c, t) = Skip(t, 1)
  BY <1>2, <1>3 DEF Ahead
<1>5. Unclosed(c) = {}
  BY <1>2 DEF Unclosed
<1>6. c.ptr \in 1 .. Len(t)
  BY <1>2, WholeAt
<1>7. Agrees(c, g, t)
  BY <1>2, <1>3, <1>4, <1>5, <1>6 DEF Agrees
<1>8. QED
  BY <1>1, <1>7

\* A text that is read to its end means the value that was read.
LEMMA FinalAgrees ==
  ASSUME NEW c, NEW g, NEW t, Whole(t), Agrees(c, g, t), Final(c, t)
  PROVE  Meaning(t).ok /\ Meaning(t).value = g.value[1]
<1>1. PICK p : p = c.ptr
  OBVIOUS
<1>2. Ahead(c, t) = p /\ p = Len(t) /\ At(t, Len(t)) = "end"
  <2>1. t[p] \notin Blank \cup {"//", "/*"} /\ c.ptr \in 1 .. Len(t) /\ ~Commented(c)
    BY <1>1 DEF Final, Blank, Agrees
  <2>2. Ahead(c, t) = p /\ p = Len(t)
    BY <1>1, <2>1, AheadHere DEF Final
  <2>3. QED
    BY <2>2, WholeAt
<1>3. PICK q \in Places(t) : ValueOf(t, Skip(t, 1)) = Result(g.value[1], q) /\ Skip(t, q) = Ahead(c, t)
  BY DEF Agrees, Final
<1>4. PICK v : v = Meanings(t)[Skip(t, 1)].value
  OBVIOUS
<1>5. v = Result(g.value[1], q)
  BY <1>3, <1>4 DEF ValueOf
<1>6. v.ok /\ v.behind = q /\ v.value = g.value[1]
  BY <1>5, ResultFields
<1>7. Meaning(t) = v
  BY <1>2, <1>3, <1>4, <1>6 DEF Meaning
<1>8. QED
  BY <1>6, <1>7

-----------------------------------------------------------------------------
(* Texts that are refused.                                                 *)

\* Where a container was to hold no value nothing is one from its start on.
LEMMA Upwards ==
  ASSUME NEW c, NEW g, NEW t, Whole(t), Regular(c), Agrees(c, g, t), NEW v \in Unclosed(c), v # 1,
         ~ValueOf(t, g.start[v]).ok
  PROVE  c.parent[v] \in Unclosed(c) /\ c.parent[v] < v /\ ~ValueOf(t, g.start[c.parent[v]]).ok
<1>1. v \in 1 .. c.n /\ c.parent[v] < v /\ c.parent[v] \in Unclosed(c) /\ c.type[c.parent[v]] \in Container
  BY DEF Regular, Family, Unclosed
<1>2. PICK w, kind, p : w = c.parent[v] /\ kind = c.type[w] /\ p = g.start[v]
  OBVIOUS
<1>3. p \in 1 .. Len(t) /\ At(t, p) # "]" /\ p \in Places(t)
  BY <1>2, WholeAt DEF Agrees, Located
<1>4. Place(kind, t, g.name[w], p) = None
  BY <1>1, <1>2, <1>3, GrammarItems, GrammarNames DEF Place, Container
<1>5. ValueOf(t, g.start[w]) = Holder(kind, Joined(g.made[w], None))
  BY <1>2, <1>4 DEF Agrees, Inside
<1>6. ValueOf(t, g.start[w]) = None
  BY <1>5, JoinedFields, HolderFields
<1>7. QED
  BY <1>1, <1>2, <1>6, ResultFields

LEMMA Meaningless ==
  ASSUME NEW t, ~ValueOf(t, Skip(t, 1)).ok
  PROVE  ~Meaning(t).ok
<1>1. PICK v : v = Meanings(t)[Skip(t, 1)].value
  OBVIOUS
<1>2. ~v.ok
  BY <1>1 DEF ValueOf
<1>3. Meaning(t) = None
  BY <1>1, <1>2 DEF Meaning
<1>4. QED
  BY <1>3, ResultFields

LEMMA Blocked ==
  ASSUME NEW c, NEW g, NEW t, Whole(t), Regular(c), Agrees(c, g, t), ~In(c, "done"), c.n > 0,
         ~ValueOf(t, g.start[c.top]).ok
  PROVE  ~Meaning(t).ok
<1>1. DEFINE B == {v \in Unclosed(c) : ~ValueOf(t, g.start[v]).ok}
<1>2. c.top \in Unclosed(c) /\ c.n \in Nat
  BY DEF Regular, Typed, Modes, Unclosed
<1>3. c.top \in B /\ B \subseteq Nat
  BY <1>2 DEF Unclosed
<1>4. PICK v \in B : \A w \in B : v <= w
  <2>1. PICK T : T = B
    OBVIOUS
  <2>2. T \subseteq Nat /\ T # {}
    BY <1>3, <2>1
  <2>3. \E x \in T : \A y \in T : x <= y
    BY <2>2, Least
  <2>4. QED
    BY <2>1, <2>3
<1>5. v = 1
  <2>1. SUFFICES ASSUME v # 1 PROVE FALSE
    OBVIOUS
  <2>2. v \in Unclosed(c) /\ ~ValueOf(t, g.start[v]).ok
    OBVIOUS
  <2>3. c.parent[v] \in Unclosed(c) /\ c.parent[v] < v /\ ~ValueOf(t, g.start[c.parent[v]]).ok
    BY <2>1, <2>2, Upwards
  <2>4. c.parent[v] \in B
    BY <2>3
  <2>5. c.parent[v] \in Nat /\ v \in Nat
    BY <1>3, <2>4
  <2>6. QED
    BY <1>4, <2>3, <2>4, <2>5
<1>6. ~ValueOf(t, Skip(t, 1)).ok
  BY <1>4, <1>5 DEF Agrees
<1>7. QED
  BY <1>6, Meaningless

\* At the end, or where nothing fits, nothing follows.
LEMMA NothingFollows ==
  ASSUME NEW t, Whole(t), NEW p \in Places(t), NEW name, NEW kind \in Container
  PROVE  /\ At(t, p) = "end" => /\ NextIn(kind, t, p) = None /\ Place(kind, t, name, p) = None
                                /\ FromColon(t, name, p) = None /\ EntriesOf(t, p) = None /\ ValueOf(t, p) = None
         /\ At(t, p) # "comma" /\ ~(kind = "array" /\ At(t, p) = "]") /\ ~(kind = "object" /\ At(t, p) = "rbrace")
              => NextIn(kind, t, p) = None
         /\ At(t, p) \notin Digit \cup {"-", "[", "lbrace", "quote", "literal"} => ValueOf(t, p) = None
         /\ At(t, p) \notin Digit \cup {"-", "[", "lbrace", "quote", "literal"} /\ ~(kind = "array" /\ At(t, p) = "]")
              => Place(kind, t, name, p) = None
<1>1. PICK b : b = At(t, p)
  OBVIOUS
<1>2. b = "end" => b \notin Digit \cup {"-", "[", "lbrace", "quote", "literal"}
  BY DEF Digit
<1>3. b \notin Digit \cup {"-", "[", "lbrace", "quote", "literal"} => ValueOf(t, p) = None
  BY <1>1, GrammarValues
<1>4. b # "comma" /\ ~(kind = "array" /\ b = "]") /\ ~(kind = "object" /\ b = "rbrace") => NextIn(kind, t, p) = None
  BY <1>1, GrammarItems, GrammarEntries DEF NextIn, Container
<1>5. ValueOf(t, p) = None => ~ValueOf(t, p).ok
  BY ResultFields
<1>6. b \notin Digit \cup {"-", "[", "lbrace", "quote", "literal"} /\ ~(kind = "array" /\ b = "]") => Place(kind, t, name, p) = None
  <2>1. CASE kind = "array"
    BY <1>1, <1>3, <1>5, <2>1, GrammarItems DEF Place
  <2>2. CASE kind = "object"
    BY <1>1, <1>3, <1>5, <2>2, GrammarNames DEF Place
  <2>3. QED
    BY <2>1, <2>2 DEF Container
<1>7. b = "end" => FromColon(t, name, p) = None /\ EntriesOf(t, p) = None
  BY <1>1, GrammarNames, GrammarEntries
<1>8. QED
  BY <1>1, <1>2, <1>3, <1>4, <1>6, <1>7

\* When there is nothing at what is ahead of the container being read.
LEMMA NothingAhead ==
  ASSUME NEW c, NEW g, NEW t, Whole(t), Regular(c), Neat(c), Agrees(c, g, t), ~In(c, "done"), ~In(c, "string"), c.n > 0,
         NEW p \in Places(t), Ahead(c, t) = p, At(t, p) = "end" \/ (~Commented(c) /\ Stuck(c, At(t, p)))
  PROVE  ~Meaning(t).ok
<1>1. PICK b, kind, name : b = At(t, p) /\ kind = TopKind(c) /\ name = g.name[c.top]
  OBVIOUS
<1>2. Typed(c) /\ Modes(c) /\ kind \in Container
  <2>1. Typed(c) /\ Modes(c)
    BY DEF Regular
  <2>2. c.top # 0 /\ c.n \in Nat
    BY <2>1 DEF Modes, Typed
  <2>3. kind \in Kind /\ kind \in Container \cup {"none", "string"} /\ kind # "string"
    BY <1>1, <2>1, <2>2 DEF Modes, Typed, TopKind
  <2>4. QED
    BY <2>1, <2>3 DEF Kind, Container
<1>3. ~In(c, "seek_value") => kind = "object"
  BY <1>1, <1>2 DEF Modes
<1>4. kind = "object" /\ In(c, "seek_value") => ~In(c, "need_comma")
  BY <1>1 DEF Neat
<1>5. In(c, "need_colon") => kind = "object" /\ In(c, "seek_value")
  BY <1>1, <1>2 DEF Modes
<1>6. b = "end" \/ Stuck(c, b)
  BY <1>1
<1>7. Rest(c, g, t) = None
  <2>1. CASE b = "end"
    BY <1>1, <1>2, <2>1, NothingFollows DEF Rest
  <2>2. CASE Stuck(c, b) /\ ~Commented(c)
    <3>1. CASE In(c, "seek_value") /\ In(c, "need_comma")
      <4>1. kind = "array" /\ b # "comma" /\ b # "]"
        BY <1>1, <1>2, <1>4, <2>2, <3>1 DEF Stuck, Container
      <4>2. NextIn(kind, t, p) = None
        BY <1>1, <1>2, <4>1, NothingFollows
      <4>3. QED
        BY <1>1, <3>1, <4>2 DEF Rest
    <3>2. CASE In(c, "seek_value") /\ ~In(c, "need_comma") /\ In(c, "need_colon")
      <4>1. b # ":"
        BY <2>2, <3>2 DEF Stuck
      <4>2. FromColon(t, name, p) = None
        BY <1>1, <4>1, GrammarNames
      <4>3. QED
        BY <1>1, <3>2, <4>2 DEF Rest
    <3>3. CASE In(c, "seek_value") /\ ~In(c, "need_comma") /\ ~In(c, "need_colon")
      <4>1. IF b = "]" THEN kind # "array" ELSE b \notin Digit \cup {"-", "[", "lbrace", "quote", "literal"}
        BY <1>1, <2>2, <3>3 DEF Stuck
      <4>2. b = "]" => b \notin Digit \cup {"-", "[", "lbrace", "quote", "literal"}
        BY DEF Digit
      <4>3. Place(kind, t, name, p) = None
        BY <1>1, <1>2, <4>1, <4>2, NothingFollows
      <4>4. QED
        BY <1>1, <3>3, <4>3 DEF Rest
    <3>4. CASE ~In(c, "seek_value")
      <4>1. kind = "object" /\ ~In(c, "need_colon") /\ b # "rbrace" /\ IF In(c, "need_comma") THEN b # "comma" ELSE b # "quote"
        BY <1>3, <1>5, <2>2, <3>4 DEF Stuck
      <4>2. In(c, "need_comma") => NextIn(kind, t, p) = None
        BY <1>1, <1>2, <4>1, NothingFollows
      <4>3. ~In(c, "need_comma") => EntriesOf(t, p) = None
        BY <1>1, <4>1, GrammarEntries
      <4>4. QED
        BY <1>1, <3>4, <4>1, <4>2, <4>3 DEF Rest
    <3>5. QED
      BY <3>1, <3>2, <3>3, <3>4
  <2>3. QED
    BY <1>1, <2>1, <2>2
<1>8. Expected(c, g, t) = Holder(kind, Joined(g.made[c.top], None))
  BY <1>1, <1>2, <1>7 DEF Expected, Container
<1>9. Expected(c, g, t) = None
  BY <1>8, JoinedFields, HolderFields
<1>10. ~ValueOf(t, g.start[c.top]).ok
  BY <1>9, ResultFields DEF Agrees
<1>11. QED
  BY <1>10, Blocked

LEMMA StuckInString ==
  ASSUME NEW c, NEW g, NEW t, Whole(t), Regular(c), Neat(c), Agrees(c, g, t), In(c, "string"), Stuck(c, t[c.ptr])
  PROVE  ~Meaning(t).ok
<1>1. Typed(c) /\ Modes(c) /\ ~In(c, "done") /\ TopKind(c) \in {"string", "object"} /\ c.n > 0 /\ c.ptr \in 1 .. Len(t)
  <2>1. Typed(c) /\ Modes(c) /\ ~In(c, "done") /\ TopKind(c) \in {"string", "object"} /\ c.ptr \in 1 .. Len(t)
    BY DEF Regular, Modes, Agrees
  <2>2. c.top # 0
    BY <2>1 DEF TopKind
  <2>3. QED
    BY <2>1, <2>2 DEF Typed
<1>2. PICK p : p = c.ptr
  OBVIOUS
<1>3. p \in Nat /\ p >= 1 /\ At(t, p) = t[p] /\ p \in Places(t)
  BY <1>1, <1>2, WholeAt
<1>4. Letters(t)[Cursor(c)] = None
  <2>1. CASE In(c, "escaped")
    <3>1. PICK k : k = p - 1
      OBVIOUS
    <3>2. k \in Places(t) /\ At(t, k) = "backslash" /\ k + 1 = p
      <4>1. p >= 2 /\ t[k] = "backslash"
        BY <1>2, <2>1, <3>1 DEF Agrees
      <4>2. k \in Nat /\ k >= 1 /\ k <= Len(t) /\ k + 1 = p
        BY <1>1, <1>2, <1>3, <3>1, <4>1, WholeAt
      <4>3. QED
        BY <4>1, <4>2, WholeAt
    <3>3. At(t, k + 1) \in {"end", "u?"}
      BY <1>2, <1>3, <2>1, <3>2 DEF Stuck
    <3>4. QED
      BY <1>2, <2>1, <3>1, <3>2, <3>3, GrammarLetters DEF Cursor
  <2>2. CASE ~In(c, "escaped")
    <3>1. At(t, p) = "end"
      BY <1>2, <1>3, <2>2 DEF Stuck
    <3>2. QED
      BY <1>2, <1>3, <2>2, <3>1, GrammarLetters DEF Cursor
  <2>3. QED
    BY <2>1, <2>2
<1>5. Spelled(c, g, t) = None
  BY <1>4, JoinedFields DEF Spelled
<1>6. Expected(c, g, t) = None
  <2>1. CASE TopKind(c) = "string"
    BY <1>5, <2>1, ResultFields DEF Expected, Quoted
  <2>2. CASE TopKind(c) = "object"
    <3>1. Rest(c, g, t) = None
      BY <1>5, ResultFields DEF Rest, FromName
    <3>2. Expected(c, g, t) = Holder("object", Joined(g.made[c.top], None))
      BY <2>2, <3>1 DEF Expected
    <3>3. QED
      BY <3>2, JoinedFields, HolderFields
  <2>3. QED
    BY <1>1, <2>1, <2>2
<1>7. ~ValueOf(t, g.start[c.top]).ok
  BY <1>1, <1>6, ResultFields DEF Agrees
<1>8. QED
  BY <1>1, <1>7, Blocked

LEMMA StuckMeansNothing ==
  ASSUME NEW c, NEW g, NEW t, Whole(t), Regular(c), Neat(c), Agrees(c, g, t), Stuck(c, t[c.ptr])
  PROVE  ~Meaning(t).ok
<1>1. Typed(c) /\ Modes(c) /\ c.ptr \in 1 .. Len(t) /\ Len(t) \in Nat
  BY WholeAt DEF Regular, Agrees
<1>2. PICK p, b : p = c.ptr /\ b = t[p]
  OBVIOUS
<1>3. CASE In(c, "string")
  BY <1>3, StuckInString
<1>4. SUFFICES ASSUME ~In(c, "string") PROVE ~Meaning(t).ok
  BY <1>3
<1>5. PICK q : q = Ahead(c, t)
  OBVIOUS
<1>6. q \in Places(t) /\ \/ ~Commented(c) /\ q = p /\ At(t, q) = b
                         \/ Commented(c) /\ q = Len(t) + 2 /\ At(t, q) = "end"
  <2>1. CASE ~Commented(c)
    <3>1. b \notin Blank \cup {"//", "/*"}
      BY <1>2, <1>4, <2>1 DEF Stuck
    <3>2. QED
      BY <1>1, <1>2, <1>5, <2>1, <3>1, AheadHere
  <2>2. CASE Commented(c)
    <3>1. In(c, "block_comment") /\ ~In(c, "line_comment") /\ b = "end"
      BY <1>1, <1>2, <1>4, <2>2 DEF Stuck, Modes
    <3>2. p = Len(t) /\ p \in Nat
      <4>1. \A i \in 1 .. Len(t) - 1 : t[i] # "end"
        BY DEF Whole
      <4>2. p \in 1 .. Len(t) /\ t[p] = "end"
        BY <1>1, <1>2, <3>1
      <4>3. QED
        BY <1>1, <4>1, <4>2
    <3>3. FirstOf(t, p, {"*/"}) = Len(t) + 1
      <4>1. p <= Len(t) /\ t[p] \notin {"*/"}
        BY <1>1, <1>2, <3>1, <3>2
      <4>2. FirstOf(t, p, {"*/"}) = FirstOf(t, p + 1, {"*/"})
        BY <1>1, <3>2, <4>1, FirstOfNext
      <4>3. QED
        BY <1>1, <3>2, <4>2, FirstOfEnd
    <3>4. q = Skip(t, Len(t) + 2)
      BY <1>1, <1>2, <1>5, <3>1, <3>3 DEF Ahead
    <3>5. Len(t) + 2 \in Places(t) /\ Len(t) + 2 \in Nat
      BY <1>1 DEF Places
    <3>6. q = Len(t) + 2
      <4>1. Skip(t, Len(t) + 2) \in Len(t) + 2 .. Len(t) + 2
        BY <1>1, <3>5, SkipBounds
      <4>2. QED
        BY <1>1, <3>4, <4>1
    <3>7. At(t, q) = "end"
      BY <1>1, <3>5, <3>6, WholeAt
    <3>8. QED
      BY <2>2, <3>5, <3>6, <3>7
  <2>3. QED
    BY <2>1, <2>2
<1>7. CASE In(c, "done")
  <2>1. PICK k \in Places(t) : ValueOf(t, Skip(t, 1)) = Result(g.value[1], k) /\ Skip(t, k) = q
    BY <1>5, <1>7 DEF Agrees
  <2>2. q # Len(t)
    <3>1. CASE Commented(c)
      BY <1>1, <1>6, <3>1
    <3>2. CASE ~Commented(c)
      <4>1. b # "end"
        BY <1>2, <1>4, <1>7, <3>2 DEF Stuck
      <4>2. QED
        BY <1>2, <1>6, <3>2, <4>1 DEF Whole
    <3>3. QED
      BY <3>1, <3>2
  <2>3. PICK v : v = Meanings(t)[Skip(t, 1)].value
    OBVIOUS
  <2>4. v = Result(g.value[1], k)
    BY <2>1, <2>3 DEF ValueOf
  <2>5. v.behind = k
    BY <2>4, ResultFields
  <2>6. Meaning(t) = None
    BY <2>1, <2>2, <2>3, <2>5 DEF Meaning
  <2>7. QED
    BY <2>6, ResultFields
<1>8. CASE ~In(c, "done") /\ c.n > 0
  <2>1. At(t, q) = "end" \/ (~Commented(c) /\ Stuck(c, At(t, q)))
    BY <1>2, <1>6
  <2>2. QED
    BY <1>4, <1>5, <1>6, <1>8, <2>1, NothingAhead
<1>9. CASE ~In(c, "done") /\ c.n = 0
  <2>1. q = Skip(t, 1)
    BY <1>5, <1>9 DEF Agrees
  <2>2. TopKind(c) = "none" /\ ~In(c, "need_comma") /\ ~In(c, "need_colon") /\ In(c, "seek_value")
    <3>1. c.top = 0
      BY <1>1, <1>9 DEF Modes
    <3>2. TopKind(c) = "none"
      BY <3>1 DEF TopKind
    <3>3. QED
      BY <1>1, <1>4, <1>9, <3>2 DEF Modes, Neat
  <2>3. ~Commented(c) => At(t, q) \notin Digit \cup {"-", "[", "lbrace", "quote", "literal"}
    <3>1. SUFFICES ASSUME ~Commented(c) PROVE b \notin Digit \cup {"-", "[", "lbrace", "quote", "literal"}
      BY <1>6
    <3>2. b = "]" => b \notin Digit \cup {"-", "[", "lbrace", "quote", "literal"}
      BY DEF Digit
    <3>3. QED
      BY <1>2, <1>4, <1>9, <2>2, <3>1, <3>2 DEF Stuck
  <2>4. PICK kind \in Container : TRUE
    BY DEF Container
  <2>5. ValueOf(t, q) = None
    BY <1>6, <2>3, <2>4, NothingFollows
  <2>6. ~ValueOf(t, Skip(t, 1)).ok
    BY <2>1, <2>5, ResultFields
  <2>7. QED
    BY <2>6, Meaningless
<1>10. QED
  <2>1. c.n \in Nat
    BY <1>1 DEF Typed
  <2>2. QED
    BY <1>7, <1>8, <1>9, <2>1

-----------------------------------------------------------------------------
(* A number while it is read: the number at p as far as q, with the value  *)
(* n, the digits k and the flags fl.                                       *)

Digits(t, i, j) == \A l \in i .. j - 1 : t[l] \in Digit

InWhole(t, p, q, n, k, fl) ==
  /\ n.type = "integer" /\ "num_e" \notin fl /\ "num_e_got_sign" \notin fl
  /\ Digits(t, From(t, p), q) /\ k = q - From(t, p)
  /\ n.integer = Decimal(t, From(t, p), q) /\ n.integer <= IntMax
  /\ "num_zero" \in fl <=> q > From(t, p) /\ t[From(t, p)] = "0"
  /\ "num_zero" \in fl => q = From(t, p) + 1

InLarge(t, p, q, n, k, fl) ==
  /\ n.type = "double" /\ "num_e" \notin fl /\ "num_e_got_sign" \notin fl
  /\ Digits(t, From(t, p), q) /\ k = q - From(t, p) /\ t[From(t, p)] # "0"
  /\ \E j \in From(t, p) + 1 .. q + 1 : j <= Len(t) /\ Digits(t, From(t, p), j) /\ Decimal(t, From(t, p), j) > IntMax

InFraction(t, p, q, n, k, fl) ==
  /\ n.type = "double" /\ "num_e" \notin fl /\ "num_e_got_sign" \notin fl
  /\ From(t, p) < PointAt(t, p) /\ PointAt(t, p) < q /\ HasFraction(t, p)
  /\ Digits(t, PointAt(t, p) + 1, q) /\ k = q - PointAt(t, p) - 1
  /\ WholeOf(t, p) <= IntMax /\ ProperWhole(t, p)

InExponent(t, p, q, n, k, fl) ==
  /\ n.type = "double" /\ "num_e" \in fl
  /\ HasExponent(t, p) /\ ExponentAt(t, p) < q /\ ProperWhole(t, p) /\ ProperFraction(t, p)
  /\ IF "num_e_got_sign" \in fl
     THEN ExponentAt(t, p) + 1 < q /\ PowerAt(t, p) <= q /\ Digits(t, PowerAt(t, p), q) /\ k = q - PowerAt(t, p)
     ELSE q = ExponentAt(t, p) + 1 /\ k = 0

Partly(t, p, q, n, k, fl) ==
  /\ q \in From(t, p) .. Len(t) /\ ("num_negative" \in fl <=> At(t, p) = "-")
  /\ \/ InWhole(t, p, q, n, k, fl) \/ InLarge(t, p, q, n, k, fl)
     \/ InFraction(t, p, q, n, k, fl) \/ InExponent(t, p, q, n, k, fl)

NumberAt(t, p) == Whole(t) /\ p \in Places(t) /\ At(t, p) \in Digit \cup {"-"}

LEMMA NumberPlaces ==
  ASSUME NEW t, NEW p, NumberAt(t, p), NEW q \in From(t, p) .. Len(t)
  PROVE  /\ Len(t) \in Nat /\ p \in Nat /\ From(t, p) \in Nat /\ From(t, p) >= 1 /\ PointAt(t, p) \in Nat /\ ExponentAt(t, p) \in Nat
         /\ From(t, p) <= PointAt(t, p) /\ PointAt(t, p) <= ExponentAt(t, p) /\ ExponentAt(t, p) <= Len(t)
         /\ HasExponent(t, p) => PowerAt(t, p) \in ExponentAt(t, p) + 1 .. Len(t) /\ PowerAt(t, p) \in Nat
         /\ q \in Nat /\ q >= 1 /\ At(t, q) = t[q] /\ t[q] \in Token
         /\ t[q] # "end" => q + 1 <= Len(t) /\ q + 1 \in From(t, p) .. Len(t)
<1>1. /\ p \in Nat /\ p >= 1 /\ p < Len(t) /\ Len(t) \in Nat
      /\ From(t, p) \in p .. Len(t) /\ PointAt(t, p) \in From(t, p) .. Len(t)
      /\ ExponentAt(t, p) \in PointAt(t, p) .. Len(t)
      /\ HasExponent(t, p) => PowerAt(t, p) \in ExponentAt(t, p) + 1 .. Len(t)
  BY NumberBounds DEF NumberAt
<1>2. PICK a : a = From(t, p)
  OBVIOUS
<1>3. a \in Nat /\ a >= 1 /\ q \in Nat /\ q >= 1 /\ q <= Len(t)
  BY <1>1, <1>2
<1>4. At(t, q) = t[q] /\ At(t, q) \in Token /\ (At(t, q) # "end" => q < Len(t))
  BY <1>3, WholeAt DEF NumberAt
<1>5. t[q] # "end" => q + 1 <= Len(t) /\ q + 1 \in a .. Len(t)
  BY <1>1, <1>2, <1>3, <1>4
<1>6. QED
  BY <1>1, <1>2, <1>3, <1>4, <1>5

\* The digits end where no digit is.
LEMMA DigitsTo ==
  ASSUME NEW t, Whole(t), NEW i \in Nat, i >= 1, NEW j \in i .. Len(t), Digits(t, i, j)
  PROVE  /\ t[j] \notin Digit => DigitsEnd(t, i) = j
         /\ j <= DigitsEnd(t, i) /\ (t[j] \in Digit => j < DigitsEnd(t, i) /\ Digits(t, i, j + 1))
<1>1. Len(t) \in Nat /\ i <= Len(t) /\ j \in Nat /\ j >= 1 /\ j <= Len(t)
  BY WholeAt
<1>2. PICK e : e = DigitsEnd(t, i)
  OBVIOUS
<1>3. /\ e \in i .. Len(t) /\ At(t, e) \notin Digit
      /\ \A r \in i .. Len(t) : (\A k \in i .. r - 1 : t[k] \in Digit) /\ t[r] \notin Digit => e = r
  BY <1>1, <1>2, DigitsEndIs
<1>4. At(t, e) = t[e]
  BY <1>1, <1>3, WholeAt
<1>5. j <= e
  <2>1. SUFFICES ASSUME e < j PROVE FALSE
    BY <1>1, <1>3
  <2>2. t[e] \in Digit
    BY <1>1, <1>3, <2>1 DEF Digits
  <2>3. QED
    BY <1>3, <1>4, <2>2
<1>6. t[j] \in Digit => j < e
  BY <1>1, <1>3, <1>4, <1>5
<1>7. t[j] \in Digit => Digits(t, i, j + 1)
  BY <1>1 DEF Digits
<1>8. t[j] \notin Digit => e = j
  BY <1>1, <1>3 DEF Digits
<1>9. QED
  BY <1>2, <1>5, <1>6, <1>7, <1>8

\* would_overflow is exact.
LEMMA OverflowIs ==
  ASSUME NEW n \in Nat, NEW d \in {0, 1}
  PROVE  Overflows(n, d) <=> n * 10 + d > IntMax
<1>1. IntMax \in Nat
  BY JsonAssumption
<1>2. CASE d = 0
  BY <1>1, <1>2 DEF Overflows
<1>3. CASE d = 1
  BY <1>1, <1>3 DEF Overflows
<1>4. QED
  BY <1>2, <1>3

LEMMA DigitInWhole ==
  ASSUME NEW t, NEW p, NumberAt(t, p), NEW q \in From(t, p) .. Len(t), NEW n, NEW k, NEW fl,
         InWhole(t, p, q, n, k, fl), NEW b, b = t[q], b \in Digit
  PROVE  /\ "num_zero" \in fl => Number(t, p) = None
         /\ "num_zero" \notin fl /\ Overflows(n.integer, Value(b)) =>
              \A m : m.type = "double" => InLarge(t, p, q, m, k, fl)
         /\ "num_zero" \notin fl /\ ~Overflows(n.integer, Value(b)) =>
              \A m : m.type = "integer" /\ m.integer = n.integer * 10 + Value(b) =>
                InWhole(t, p, q + 1, m, k + 1, fl \cup (IF k = 0 /\ b = "0" THEN {"num_zero"} ELSE {}))
<1>1. PICK a : a = From(t, p)
  OBVIOUS
<1>2. /\ Len(t) \in Nat /\ a \in Nat /\ a >= 1 /\ q \in Nat /\ a <= q /\ q <= Len(t) /\ Whole(t)
      /\ q + 1 <= Len(t) /\ q + 1 \in a .. Len(t)
  <2>1. t[q] # "end"
    BY DEF Digit
  <2>2. QED
    BY <1>1, <2>1, NumberPlaces DEF NumberAt
<1>3. Digits(t, a, q + 1) /\ q < PointAt(t, p) /\ PointAt(t, p) = DigitsEnd(t, a)
  BY <1>1, <1>2, DigitsTo DEF InWhole, PointAt
<1>4. PICK i : i = n.integer
  OBVIOUS
<1>5. i \in Nat /\ i = Decimal(t, a, q) /\ Decimal(t, a, q + 1) = i * 10 + Value(b)
  <2>1. i = Decimal(t, a, q)
    BY <1>1, <1>4 DEF InWhole
  <2>2. i \in Nat
    BY <1>2, <2>1, DecimalNat
  <2>3. Decimal(t, a, q + 1) = i * 10 + Value(b)
    <3>1. q \in a .. Len(t) - 1
      BY <1>2
    <3>2. QED
      BY <1>2, <2>1, <3>1, DecimalNext
  <2>4. QED
    BY <2>1, <2>2, <2>3
<1>6. Value(b) \in {0, 1} /\ (Value(b) = 0 <=> b = "0")
  BY DEF Digit, Value
<1>7. k = q - a /\ ("num_zero" \in fl <=> q > a /\ t[a] = "0") /\ ("num_zero" \in fl => q = a + 1)
      /\ "num_e" \notin fl /\ "num_e_got_sign" \notin fl /\ i <= IntMax /\ IntMax \in Nat
  BY <1>1, <1>4, JsonAssumption DEF InWhole
<1>8. Overflows(i, Value(b)) <=> i * 10 + Value(b) > IntMax
  BY <1>5, <1>6, OverflowIs
<1>9. ASSUME "num_zero" \in fl PROVE Number(t, p) = None
  <2>1. t[a] = "0" /\ q = a + 1
    BY <1>7, <1>9
  <2>2. PointAt(t, p) > a + 1
    <3>1. PointAt(t, p) \in Nat
      BY NumberPlaces
    <3>2. QED
      BY <1>2, <1>3, <2>1, <3>1
  <2>3. ~ProperWhole(t, p)
    BY <1>1, <2>1, <2>2 DEF ProperWhole
  <2>4. QED
    BY <2>3, NumberIs
<1>10. ASSUME "num_zero" \notin fl, Overflows(i, Value(b)), NEW m, m.type = "double"
       PROVE  InLarge(t, p, q, m, k, fl)
  <2>1. t[a] # "0"
    <3>1. CASE q = a
      <4>1. i = 0
        BY <1>2, <1>5, <3>1, DecimalNext
      <4>2. Value(b) # 0
        BY <1>6, <1>7, <1>8, <1>10, <4>1
      <4>3. QED
        BY <1>6, <3>1, <4>2
    <3>2. CASE q # a
      BY <1>2, <1>7, <1>10, <3>2
    <3>3. QED
      BY <3>1, <3>2
  <2>2. Decimal(t, a, q + 1) > IntMax
    BY <1>5, <1>8, <1>10
  <2>3. q + 1 \in a + 1 .. q + 1
    BY <1>2
  <2>4. Digits(t, a, q)
    BY <1>1 DEF InWhole
  <2>5. QED
    BY <1>1, <1>2, <1>3, <1>7, <1>10, <2>1, <2>2, <2>3, <2>4 DEF InLarge
<1>11. ASSUME "num_zero" \notin fl, ~Overflows(i, Value(b)), NEW m, m.type = "integer", m.integer = i * 10 + Value(b),
              NEW z, z = IF k = 0 /\ b = "0" THEN {"num_zero"} ELSE {}
       PROVE  InWhole(t, p, q + 1, m, k + 1, fl \cup z)
  <2>1. z \subseteq {"num_zero"} /\ ("num_zero" \in z <=> k = 0 /\ b = "0")
    BY <1>11
  <2>2. "num_e" \notin fl \cup z /\ "num_e_got_sign" \notin fl \cup z /\ ("num_zero" \in fl \cup z <=> q = a /\ b = "0")
    BY <1>2, <1>7, <1>11, <2>1
  <2>3. m.integer = Decimal(t, a, q + 1) /\ m.integer <= IntMax
    BY <1>5, <1>6, <1>7, <1>8, <1>11
  <2>4. k + 1 = q + 1 - a
    BY <1>2, <1>7
  <2>5. "num_zero" \in fl \cup z <=> q + 1 > a /\ t[a] = "0"
    <3>1. CASE q = a
      BY <1>2, <2>2, <3>1
    <3>2. CASE q # a
      BY <1>2, <1>7, <1>11, <2>2, <3>2
    <3>3. QED
      BY <3>1, <3>2
  <2>6. "num_zero" \in fl \cup z => q + 1 = a + 1
    BY <2>2
  <2>7. QED
    BY <1>1, <1>2, <1>7, <1>3, <1>11, <2>2, <2>3, <2>4, <2>5, <2>6 DEF InWhole
<1>12. QED
  BY <1>4, <1>9, <1>10, <1>11

LEMMA DigitInDouble ==
  ASSUME NEW t, NEW p, NumberAt(t, p), NEW q \in From(t, p) .. Len(t), NEW n, NEW k \in Int, NEW fl, t[q] \in Digit
  PROVE  /\ InLarge(t, p, q, n, k, fl) => InLarge(t, p, q + 1, n, k + 1, fl)
         /\ InFraction(t, p, q, n, k, fl) => InFraction(t, p, q + 1, n, k + 1, fl)
         /\ InExponent(t, p, q, n, k, fl) => InExponent(t, p, q + 1, n, k + 1, fl \cup {"num_e_got_sign"})
<1>1. PICK a, point, e : a = From(t, p) /\ point = PointAt(t, p) /\ e = ExponentAt(t, p)
  OBVIOUS
<1>2. /\ Len(t) \in Nat /\ a \in Nat /\ a >= 1 /\ q \in Nat /\ a <= q /\ q <= Len(t) /\ Whole(t)
      /\ q + 1 <= Len(t) /\ q + 1 \in a .. Len(t) /\ point \in Nat /\ e \in Nat /\ At(t, q) = t[q]
      /\ HasExponent(t, p) => PowerAt(t, p) \in e + 1 .. Len(t) /\ PowerAt(t, p) \in Nat
  <2>1. t[q] # "end"
    BY DEF Digit
  <2>2. QED
    BY <1>1, <2>1, NumberPlaces DEF NumberAt
<1>3. ASSUME InLarge(t, p, q, n, k, fl) PROVE InLarge(t, p, q + 1, n, k + 1, fl)
  <2>1. Digits(t, a, q + 1)
    BY <1>1, <1>2, <1>3, DigitsTo DEF InLarge
  <2>2. PICK j \in a + 1 .. q + 1 : j <= Len(t) /\ Digits(t, a, j) /\ Decimal(t, a, j) > IntMax
    BY <1>1, <1>3 DEF InLarge
  <2>3. j \in a + 1 .. q + 1 + 1
    BY <1>2, <2>2
  <2>4. k + 1 = q + 1 - a
    BY <1>1, <1>2, <1>3 DEF InLarge
  <2>5. QED
    BY <1>1, <1>2, <1>3, <2>1, <2>2, <2>3, <2>4 DEF InLarge
<1>4. ASSUME InFraction(t, p, q, n, k, fl) PROVE InFraction(t, p, q + 1, n, k + 1, fl)
  <2>1. Digits(t, point + 1, q + 1)
    <3>1. Digits(t, point + 1, q) /\ point < q
      BY <1>1, <1>4 DEF InFraction
    <3>2. QED
      BY <1>2, <3>1, DigitsTo
  <2>2. k + 1 = q + 1 - point - 1
    BY <1>1, <1>2, <1>4 DEF InFraction
  <2>3. point < q + 1
    BY <1>1, <1>2, <1>4 DEF InFraction
  <2>4. QED
    BY <1>1, <1>2, <1>4, <2>1, <2>2, <2>3 DEF InFraction
<1>5. ASSUME InExponent(t, p, q, n, k, fl) PROVE InExponent(t, p, q + 1, n, k + 1, fl \cup {"num_e_got_sign"})
  <2>1. HasExponent(t, p) /\ e < q
    BY <1>1, <1>5 DEF InExponent
  <2>2. e + 1 < q + 1 /\ PowerAt(t, p) <= q + 1 /\ Digits(t, PowerAt(t, p), q + 1) /\ k + 1 = q + 1 - PowerAt(t, p)
    <3>1. CASE "num_e_got_sign" \in fl
      <4>1. PICK r : r = PowerAt(t, p)
        OBVIOUS
      <4>2. e + 1 < q /\ r <= q /\ Digits(t, r, q) /\ k = q - r
        BY <1>1, <1>5, <3>1, <4>1 DEF InExponent
      <4>3. r \in Nat /\ r >= 1
        BY <1>2, <2>1, <4>1
      <4>4. Digits(t, r, q + 1)
        BY <1>2, <4>2, <4>3, DigitsTo
      <4>5. QED
        BY <1>2, <4>1, <4>2, <4>3, <4>4
    <3>2. CASE "num_e_got_sign" \notin fl
      <4>1. q = e + 1 /\ k = 0
        BY <1>1, <1>5, <3>2 DEF InExponent
      <4>2. At(t, e + 1) \notin {"+", "-"}
        BY <1>2, <4>1 DEF Digit
      <4>3. PowerAt(t, p) = e + 1
        BY <1>1, <4>2 DEF PowerAt
      <4>4. Digits(t, e + 1, q + 1)
        BY <1>2, <4>1 DEF Digits
      <4>5. QED
        BY <1>2, <4>1, <4>3, <4>4
    <3>3. QED
      BY <3>1, <3>2
  <2>3. e < q + 1 /\ "num_e" \in fl \cup {"num_e_got_sign"} /\ "num_e_got_sign" \in fl \cup {"num_e_got_sign"}
    BY <1>1, <1>2, <1>5 DEF InExponent
  <2>4. QED
    BY <1>1, <1>2, <1>5, <2>2, <2>3 DEF InExponent
<1>6. QED
  BY <1>3, <1>4, <1>5

\* Where the digits of the whole part end.
LEMMA WholeEnds ==
  ASSUME NEW t, NEW p, NumberAt(t, p), NEW q \in From(t, p) .. Len(t), NEW n, NEW k, NEW fl, t[q] \notin Digit
  PROVE  /\ InWhole(t, p, q, n, k, fl) => /\ PointAt(t, p) = q /\ WholeOf(t, p) = n.integer /\ n.integer <= IntMax
                                          /\ n.integer \in Nat /\ k = q - From(t, p) /\ ProperWhole(t, p)
         /\ InLarge(t, p, q, n, k, fl) => /\ PointAt(t, p) = q /\ WholeOf(t, p) > IntMax /\ From(t, p) < q
                                          /\ k = q - From(t, p) /\ ProperWhole(t, p)
<1>1. PICK a : a = From(t, p)
  OBVIOUS
<1>2. Len(t) \in Nat /\ a \in Nat /\ a >= 1 /\ q \in Nat /\ a <= q /\ q <= Len(t) /\ Whole(t)
  BY <1>1, NumberPlaces DEF NumberAt
<1>3. Digits(t, a, q) => PointAt(t, p) = q
  BY <1>1, <1>2, DigitsTo DEF PointAt
<1>4. ASSUME InWhole(t, p, q, n, k, fl)
      PROVE  /\ PointAt(t, p) = q /\ WholeOf(t, p) = n.integer /\ n.integer <= IntMax
             /\ n.integer \in Nat /\ k = q - a /\ ProperWhole(t, p)
  <2>1. PointAt(t, p) = q
    BY <1>1, <1>3, <1>4 DEF InWhole
  <2>2. WholeOf(t, p) = n.integer
    BY <1>1, <1>4, <2>1 DEF InWhole, WholeOf
  <2>3. n.integer \in Nat
    <3>1. n.integer = Decimal(t, a, q)
      BY <1>1, <1>4 DEF InWhole
    <3>2. QED
      BY <1>2, <3>1, DecimalNat
  <2>4. ProperWhole(t, p)
    BY <1>1, <1>2, <1>4, <2>1 DEF ProperWhole, InWhole
  <2>5. QED
    BY <1>1, <1>4, <2>1, <2>2, <2>3, <2>4 DEF InWhole
<1>5. ASSUME InLarge(t, p, q, n, k, fl)
      PROVE  PointAt(t, p) = q /\ WholeOf(t, p) > IntMax /\ a < q /\ k = q - a /\ ProperWhole(t, p)
  <2>1. PointAt(t, p) = q
    BY <1>1, <1>3, <1>5 DEF InLarge
  <2>2. PICK j \in a + 1 .. q + 1 : j <= Len(t) /\ Digits(t, a, j) /\ Decimal(t, a, j) > IntMax
    BY <1>1, <1>5 DEF InLarge
  <2>3. j <= q /\ j \in Nat /\ a < q
    <3>1. j # q + 1
      BY <1>2, <2>2 DEF Digits
    <3>2. QED
      BY <1>2, <2>2, <3>1
  <2>4. Decimal(t, a, j) <= Decimal(t, a, q)
    BY <1>2, <2>2, <2>3, DecimalNat
  <2>5. WholeOf(t, p) > IntMax
    <3>1. Decimal(t, a, j) \in Nat /\ Decimal(t, a, q) \in Nat /\ IntMax \in Nat
      BY <1>2, <2>2, <2>3, DecimalNat, JsonAssumption
    <3>2. WholeOf(t, p) = Decimal(t, a, q)
      BY <1>1, <2>1 DEF WholeOf
    <3>3. QED
      BY <2>2, <2>4, <3>1, <3>2
  <2>6. ProperWhole(t, p)
    BY <1>1, <1>5 DEF ProperWhole, InLarge
  <2>7. QED
    BY <1>1, <1>5, <2>1, <2>3, <2>5, <2>6 DEF InLarge
<1>6. QED
  BY <1>1, <1>4, <1>5

\* A sign of an exponent, a point, an "e".
LEMMA SignInNumber ==
  ASSUME NEW t, NEW p, NumberAt(t, p), NEW q \in From(t, p) .. Len(t), NEW n, NEW k, NEW fl,
         t[q] \in {"+", "-"}, InExponent(t, p, q, n, k, fl), "num_e_got_sign" \notin fl
  PROVE  InExponent(t, p, q + 1, n, k, fl \cup {"num_e_got_sign"})
<1>1. PICK e : e = ExponentAt(t, p)
  OBVIOUS
<1>2. q = e + 1 /\ k = 0 /\ "num_e" \in fl /\ HasExponent(t, p)
  BY <1>1 DEF InExponent
<1>3. q \in Nat /\ e \in Nat /\ At(t, q) = t[q]
  BY <1>1, NumberPlaces
<1>4. PowerAt(t, p) = e + 2
  BY <1>1, <1>2, <1>3 DEF PowerAt
<1>5. Digits(t, e + 2, q + 1)
  BY <1>2, <1>3 DEF Digits
<1>6. e < q + 1 /\ e + 1 < q + 1 /\ e + 2 <= q + 1 /\ k = q + 1 - (e + 2)
  BY <1>2, <1>3
<1>7. QED
  BY <1>1, <1>2, <1>3, <1>4, <1>5, <1>6 DEF InExponent

LEMMA PointInNumber ==
  ASSUME NEW t, NEW p, NumberAt(t, p), NEW q \in From(t, p) .. Len(t), NEW n, NEW k, NEW fl,
         t[q] = ".", InWhole(t, p, q, n, k, fl)
  PROVE  /\ k = 0 => Number(t, p) = None
         /\ k # 0 => \A m : m.type = "double" => InFraction(t, p, q + 1, m, 0, fl)
<1>1. PICK a : a = From(t, p)
  OBVIOUS
<1>2. a \in Nat /\ q \in Nat /\ a <= q /\ At(t, q) = t[q]
  BY <1>1, NumberPlaces
<1>3. t[q] \notin Digit
  BY DEF Digit
<1>4. PointAt(t, p) = q /\ WholeOf(t, p) <= IntMax /\ k = q - a /\ ProperWhole(t, p)
  BY <1>1, <1>3, WholeEnds
<1>5. HasFraction(t, p)
  BY <1>2, <1>4 DEF HasFraction
<1>6. ASSUME k = 0 PROVE Number(t, p) = None
  <2>1. ~ProperFraction(t, p)
    BY <1>1, <1>2, <1>4, <1>5, <1>6 DEF ProperFraction
  <2>2. QED
    BY <2>1, NumberIs
<1>7. ASSUME k # 0, NEW m, m.type = "double" PROVE InFraction(t, p, q + 1, m, 0, fl)
  <2>1. a < q /\ q < q + 1 /\ 0 = q + 1 - q - 1
    BY <1>2, <1>4, <1>7
  <2>2. Digits(t, q + 1, q + 1)
    BY <1>2 DEF Digits
  <2>3. "num_e" \notin fl /\ "num_e_got_sign" \notin fl
    BY DEF InWhole
  <2>4. QED
    BY <1>1, <1>2, <1>4, <1>5, <1>7, <2>1, <2>2, <2>3 DEF InFraction
<1>8. QED
  BY <1>6, <1>7

\* The end of a fraction.
LEMMA FractionEnds ==
  ASSUME NEW t, NEW p, NumberAt(t, p), NEW q \in From(t, p) .. Len(t), NEW n, NEW k, NEW fl,
         t[q] \notin Digit, InFraction(t, p, q, n, k, fl)
  PROVE  /\ ExponentAt(t, p) = q /\ HasFraction(t, p) /\ ProperWhole(t, p)
         /\ k = 0 <=> ~ProperFraction(t, p)
<1>1. PICK a, point : a = From(t, p) /\ point = PointAt(t, p)
  OBVIOUS
<1>2. Len(t) \in Nat /\ a \in Nat /\ point \in Nat /\ q \in Nat /\ q <= Len(t) /\ Whole(t)
  BY <1>1, NumberPlaces DEF NumberAt
<1>3. a < point /\ point < q /\ HasFraction(t, p) /\ Digits(t, point + 1, q) /\ k = q - point - 1
      /\ WholeOf(t, p) <= IntMax /\ ProperWhole(t, p)
  BY <1>1 DEF InFraction
<1>4. DigitsEnd(t, point + 1) = q
  BY <1>2, <1>3, DigitsTo
<1>5. ExponentAt(t, p) = q
  BY <1>1, <1>3, <1>4 DEF ExponentAt
<1>6. ProperFraction(t, p) <=> point + 1 < q
  BY <1>1, <1>3, <1>5 DEF ProperFraction
<1>7. k = 0 <=> ~(point + 1 < q)
  BY <1>2, <1>3
<1>8. QED
  BY <1>3, <1>5, <1>6, <1>7

LEMMA ExponentInNumber ==
  ASSUME NEW t, NEW p, NumberAt(t, p), NEW q \in From(t, p) .. Len(t), NEW n, NEW k, NEW fl, t[q] = "e",
         InWhole(t, p, q, n, k, fl) \/ InLarge(t, p, q, n, k, fl) \/ InFraction(t, p, q, n, k, fl)
  PROVE  /\ k = 0 /\ n.type = "double" => Number(t, p) = None
         /\ ~(k = 0 /\ n.type = "double") =>
              \A m : m.type = "double" => InExponent(t, p, q + 1, m, 0, (fl \cup {"num_e"}) \ {"num_zero"})
<1>1. q \in Nat /\ At(t, q) = "e" /\ At(t, q) # "." /\ From(t, p) \in Nat
  BY NumberPlaces
<1>2. t[q] \notin Digit
  BY DEF Digit
<1>3. "num_e_got_sign" \notin fl
  BY DEF InWhole, InLarge, InFraction
<1>4. ASSUME ExponentAt(t, p) = q, ProperWhole(t, p), ProperFraction(t, p), NEW m, m.type = "double",
             NEW f, f = (fl \cup {"num_e"}) \ {"num_zero"}
      PROVE  InExponent(t, p, q + 1, m, 0, f)
  <2>1. "num_e" \in f /\ "num_e_got_sign" \notin f
    BY <1>3, <1>4
  <2>2. HasExponent(t, p) /\ q < q + 1
    BY <1>1, <1>4 DEF HasExponent
  <2>3. QED
    BY <1>1, <1>4, <2>1, <2>2 DEF InExponent
<1>5. ASSUME PointAt(t, p) = q PROVE ExponentAt(t, p) = q /\ ProperFraction(t, p)
  <2>1. ~HasFraction(t, p)
    BY <1>1, <1>5 DEF HasFraction
  <2>2. QED
    BY <1>5, <2>1 DEF ExponentAt, ProperFraction
<1>6. CASE InWhole(t, p, q, n, k, fl)
  <2>1. PointAt(t, p) = q /\ ProperWhole(t, p)
    BY <1>2, <1>6, WholeEnds
  <2>2. n.type # "double"
    BY <1>6 DEF InWhole
  <2>3. QED
    BY <1>4, <1>5, <2>1, <2>2
<1>7. CASE InLarge(t, p, q, n, k, fl)
  <2>1. PointAt(t, p) = q /\ ProperWhole(t, p) /\ From(t, p) < q /\ k = q - From(t, p)
    BY <1>2, <1>7, WholeEnds
  <2>2. k # 0
    BY <1>1, <2>1
  <2>3. QED
    BY <1>4, <1>5, <2>1, <2>2
<1>8. CASE InFraction(t, p, q, n, k, fl)
  <2>1. ExponentAt(t, p) = q /\ ProperWhole(t, p) /\ (k = 0 <=> ~ProperFraction(t, p))
    BY <1>2, <1>8, FractionEnds
  <2>4. n.type = "double"
    BY <1>8 DEF InFraction
  <2>2. ~ProperFraction(t, p) => Number(t, p) = None
    BY NumberIs
  <2>3. QED
    BY <1>4, <2>1, <2>2, <2>4
<1>9. QED
  BY <1>6, <1>7, <1>8

\* What the number that was read is.
NumberRead(n, fl) ==
  IF n.type = "integer" THEN [type |-> "integer", integer |-> IF "num_negative" \in fl THEN -n.integer ELSE n.integer]
  ELSE [type |-> "double"]

\* What there is of it where none of them follows.
LEMMA WholeStops ==
  ASSUME NEW t, NEW p, NumberAt(t, p), NEW q \in From(t, p) .. Len(t), NEW n, NEW k, NEW fl,
         t[q] \notin Digit \cup {"e"}, t[q] # ".", "num_negative" \in fl <=> At(t, p) = "-",
         InWhole(t, p, q, n, k, fl) \/ InLarge(t, p, q, n, k, fl)
  PROVE  /\ LastAt(t, p) = q /\ ProperWhole(t, p) /\ ProperFraction(t, p) /\ ProperExponent(t, p)
         /\ NumberOf(t, p) = NumberRead(n, fl) /\ (n.type = "double" => k # 0)
<1>1. q \in Nat /\ From(t, p) \in Nat /\ At(t, q) = t[q] /\ t[q] \notin Digit
  BY NumberPlaces
<1>2. PointAt(t, p) = q /\ ProperWhole(t, p)
  BY <1>1, WholeEnds
<1>3. ~HasFraction(t, p)
  BY <1>1, <1>2 DEF HasFraction
<1>4. ExponentAt(t, p) = q
  BY <1>2, <1>3 DEF ExponentAt
<1>5. ~HasExponent(t, p)
  BY <1>1, <1>4 DEF HasExponent
<1>6. LastAt(t, p) = q /\ ProperFraction(t, p) /\ ProperExponent(t, p)
  BY <1>3, <1>4, <1>5 DEF LastAt, ProperFraction, ProperExponent
<1>7. CASE InWhole(t, p, q, n, k, fl)
  <2>1. PICK i : i = n.integer
    OBVIOUS
  <2>2. WholeOf(t, p) = i /\ i <= IntMax /\ i \in Nat /\ n.type = "integer" /\ IntMax \in Nat
    BY <1>1, <1>7, <2>1, WholeEnds, JsonAssumption DEF InWhole
  <2>3. (IF At(t, p) = "-" THEN -1 ELSE 1) * i = IF "num_negative" \in fl THEN -i ELSE i
    BY <2>2
  <2>4. ~(WholeOf(t, p) > IntMax)
    BY <2>2
  <2>5. NumberOf(t, p) = [type |-> "integer", integer |-> IF "num_negative" \in fl THEN -i ELSE i]
    BY <1>3, <1>5, <2>2, <2>3, <2>4 DEF NumberOf
  <2>6. NumberRead(n, fl) = [type |-> "integer", integer |-> IF "num_negative" \in fl THEN -i ELSE i]
    BY <2>1, <2>2 DEF NumberRead
  <2>7. QED
    BY <1>2, <1>6, <2>2, <2>5, <2>6
<1>8. CASE InLarge(t, p, q, n, k, fl)
  <2>1. WholeOf(t, p) > IntMax /\ From(t, p) < q /\ k = q - From(t, p) /\ n.type = "double"
    BY <1>1, <1>8, WholeEnds DEF InLarge
  <2>2. k # 0
    BY <1>1, <2>1
  <2>3. QED
    BY <1>2, <1>6, <2>1, <2>2 DEF NumberOf, NumberRead
<1>9. QED
  BY <1>7, <1>8

LEMMA FractionStops ==
  ASSUME NEW t, NEW p, NumberAt(t, p), NEW q \in From(t, p) .. Len(t), NEW n, NEW k, NEW fl,
         t[q] \notin Digit \cup {"e"}, InFraction(t, p, q, n, k, fl)
  PROVE  /\ LastAt(t, p) = q /\ ProperWhole(t, p) /\ (k = 0 <=> ~ProperFraction(t, p)) /\ ProperExponent(t, p)
         /\ NumberOf(t, p) = NumberRead(n, fl) /\ n.type = "double"
<1>1. q \in Nat /\ At(t, q) = t[q] /\ t[q] \notin Digit
  BY NumberPlaces
<1>2. ExponentAt(t, p) = q /\ HasFraction(t, p) /\ ProperWhole(t, p) /\ (k = 0 <=> ~ProperFraction(t, p))
  BY <1>1, FractionEnds
<1>3. ~HasExponent(t, p)
  BY <1>1, <1>2 DEF HasExponent
<1>4. QED
  BY <1>2, <1>3 DEF LastAt, ProperExponent, NumberOf, NumberRead, InFraction

LEMMA ExponentStops ==
  ASSUME NEW t, NEW p, NumberAt(t, p), NEW q \in From(t, p) .. Len(t), NEW n, NEW k, NEW fl,
         t[q] \notin Digit, ~(t[q] \in {"+", "-"} /\ "num_e_got_sign" \notin fl), InExponent(t, p, q, n, k, fl)
  PROVE  /\ LastAt(t, p) = q /\ ProperWhole(t, p) /\ ProperFraction(t, p) /\ (k = 0 <=> ~ProperExponent(t, p))
         /\ NumberOf(t, p) = NumberRead(n, fl) /\ n.type = "double"
<1>1. PICK e, r : e = ExponentAt(t, p) /\ r = PowerAt(t, p)
  OBVIOUS
<1>2. HasExponent(t, p) /\ e < q /\ ProperWhole(t, p) /\ ProperFraction(t, p) /\ n.type = "double"
  BY <1>1 DEF InExponent
<1>3. /\ q \in Nat /\ At(t, q) = t[q] /\ e \in Nat /\ r \in e + 1 .. Len(t) /\ r \in Nat /\ Len(t) \in Nat /\ Whole(t)
      /\ q <= Len(t)
  BY <1>1, <1>2, NumberPlaces DEF NumberAt
<1>4. r <= q /\ Digits(t, r, q) /\ k = q - r
  <2>1. CASE "num_e_got_sign" \in fl
    BY <1>1, <2>1 DEF InExponent
  <2>2. CASE "num_e_got_sign" \notin fl
    <3>1. q = e + 1 /\ k = 0
      BY <1>1, <2>2 DEF InExponent
    <3>2. At(t, e + 1) \notin {"+", "-"}
      BY <1>3, <2>2, <3>1
    <3>3. r = e + 1
      BY <1>1, <3>2 DEF PowerAt
    <3>4. QED
      BY <1>3, <3>1, <3>3 DEF Digits
  <2>3. QED
    BY <2>1, <2>2
<1>5. DigitsEnd(t, r) = q
  BY <1>3, <1>4, DigitsTo
<1>6. LastAt(t, p) = q
  BY <1>1, <1>2, <1>5 DEF LastAt
<1>7. ProperExponent(t, p) <=> r < q
  BY <1>1, <1>2, <1>6 DEF ProperExponent
<1>8. k = 0 <=> ~(r < q)
  BY <1>3, <1>4
<1>9. NumberOf(t, p) = NumberRead(n, fl)
  BY <1>2 DEF NumberOf, NumberRead
<1>10. QED
  BY <1>2, <1>6, <1>7, <1>8, <1>9

LEMMA NumberStopped ==
  ASSUME NEW t, NEW p, NumberAt(t, p), NEW q, NEW n, NEW k, NEW fl, Partly(t, p, q, n, k, fl),
         NEW b, b = t[q], b \notin Digit,
         ~(b \in {"+", "-"} /\ "num_e" \in fl /\ "num_e_got_sign" \notin fl),
         ~(b = "." /\ n.type = "integer"), ~(b = "e" /\ "num_e" \notin fl)
  PROVE  /\ k = 0 /\ ("num_e" \in fl \/ n.type = "double") => Number(t, p) = None
         /\ b \in NumberToken \cup {"//", "/*"} => Number(t, p) = None
         /\ ~(k = 0 /\ ("num_e" \in fl \/ n.type = "double")) /\ b \notin NumberToken \cup {"//", "/*"} =>
              Number(t, p) = Result(NumberRead(n, fl), q)
<1>1. q \in From(t, p) .. Len(t) /\ ("num_negative" \in fl <=> At(t, p) = "-")
  BY DEF Partly
<1>2. q \in Nat /\ At(t, q) = b
  BY <1>1, NumberPlaces
<1>3. ASSUME LastAt(t, p) = q PROVE Follows(t, p) <=> b \notin NumberToken \cup {"//", "/*"}
  BY <1>2, <1>3 DEF Follows
<1>4. CASE (InWhole(t, p, q, n, k, fl) \/ InLarge(t, p, q, n, k, fl)) /\ b # "."
  <2>1. "num_e" \notin fl
    BY <1>4 DEF InWhole, InLarge
  <2>2. b \notin Digit \cup {"e"}
    BY <2>1
  <2>3. /\ LastAt(t, p) = q /\ ProperWhole(t, p) /\ ProperFraction(t, p) /\ ProperExponent(t, p)
        /\ NumberOf(t, p) = NumberRead(n, fl) /\ (n.type = "double" => k # 0)
    BY <1>1, <1>4, <2>2, WholeStops
  <2>4. QED
    BY <1>3, <2>1, <2>3, NumberIs
<1>5. CASE InLarge(t, p, q, n, k, fl) /\ b = "."
  <2>1. PointAt(t, p) = q /\ WholeOf(t, p) > IntMax
    BY <1>1, <1>5, WholeEnds
  <2>2. HasFraction(t, p)
    BY <1>2, <1>5, <2>1 DEF HasFraction
  <2>3. ~ProperFraction(t, p)
    <3>1. WholeOf(t, p) \in Nat /\ IntMax \in Nat
      <4>1. From(t, p) \in Nat /\ Len(t) \in Nat
        BY <1>1, NumberPlaces
      <4>2. QED
        BY <1>1, <2>1, <4>1, DecimalNat, JsonAssumption DEF WholeOf
    <3>2. QED
      BY <2>1, <2>2, <3>1 DEF ProperFraction
  <2>4. Number(t, p) = None
    BY <2>3, NumberIs
  <2>5. b \in NumberToken
    BY <1>5 DEF NumberToken
  <2>6. QED
    BY <2>4, <2>5
<1>6. CASE InWhole(t, p, q, n, k, fl) /\ b = "."
  BY <1>6 DEF InWhole
<1>7. CASE InFraction(t, p, q, n, k, fl)
  <2>1. "num_e" \notin fl
    BY <1>7 DEF InFraction
  <2>2. b \notin Digit \cup {"e"}
    BY <2>1
  <2>3. /\ LastAt(t, p) = q /\ ProperWhole(t, p) /\ (k = 0 <=> ~ProperFraction(t, p)) /\ ProperExponent(t, p)
        /\ NumberOf(t, p) = NumberRead(n, fl) /\ n.type = "double"
    BY <1>1, <1>7, <2>2, FractionStops
  <2>4. QED
    BY <1>3, <2>3, NumberIs
<1>8. CASE InExponent(t, p, q, n, k, fl)
  <2>1. "num_e" \in fl
    BY <1>8 DEF InExponent
  <2>2. /\ LastAt(t, p) = q /\ ProperWhole(t, p) /\ ProperFraction(t, p) /\ (k = 0 <=> ~ProperExponent(t, p))
        /\ NumberOf(t, p) = NumberRead(n, fl)
    BY <1>1, <1>8, <2>1, ExponentStops
  <2>3. QED
    BY <1>3, <2>1, <2>2, NumberIs
<1>9. QED
  BY <1>4, <1>5, <1>6, <1>7, <1>8 DEF Partly

LEMMA PartlyBounds ==
  ASSUME NEW t, NEW p, NumberAt(t, p), NEW q, NEW n, NEW k, NEW fl, Partly(t, p, q, n, k, fl)
  PROVE  /\ q \in From(t, p) .. Len(t) /\ q \in Nat /\ q >= 1 /\ k \in Int /\ t[q] \in Token
         /\ t[q] # "end" => q + 1 \in From(t, p) .. Len(t)
<1>1. q \in From(t, p) .. Len(t)
  BY DEF Partly
<1>2. /\ Len(t) \in Nat /\ From(t, p) \in Nat /\ PointAt(t, p) \in Nat /\ ExponentAt(t, p) \in Nat
      /\ HasExponent(t, p) => PowerAt(t, p) \in Nat
      /\ q \in Nat /\ q >= 1 /\ t[q] \in Token
      /\ t[q] # "end" => q + 1 \in From(t, p) .. Len(t)
  BY <1>1, NumberPlaces
<1>3. InWhole(t, p, q, n, k, fl) => k \in Int
  BY <1>2 DEF InWhole
<1>4. InLarge(t, p, q, n, k, fl) => k \in Int
  BY <1>2 DEF InLarge
<1>5. InFraction(t, p, q, n, k, fl) => k \in Int
  BY <1>2 DEF InFraction
<1>6. InExponent(t, p, q, n, k, fl) => k \in Int
  BY <1>2 DEF InExponent
<1>7. QED
  BY <1>1, <1>2, <1>3, <1>4, <1>5, <1>6 DEF Partly

LEMMA PartlyDigit ==
  ASSUME NEW t, NEW p, NumberAt(t, p), NEW q, NEW n, NEW k, NEW fl, Partly(t, p, q, n, k, fl),
         NEW b, b = t[q], b \in Digit
  PROVE  /\ "num_e" \in fl => Partly(t, p, q + 1, n, k + 1, fl \cup {"num_e_got_sign"})
         /\ "num_e" \notin fl /\ n.type = "double" => Partly(t, p, q + 1, n, k + 1, fl)
         /\ "num_e" \notin fl /\ n.type = "integer" =>
              /\ "num_zero" \in fl => Number(t, p) = None
              /\ "num_zero" \notin fl /\ Overflows(n.integer, Value(b)) =>
                   \A m : m.type = "double" => Partly(t, p, q, m, k, fl)
              /\ "num_zero" \notin fl /\ ~Overflows(n.integer, Value(b)) =>
                   \A m : m.type = "integer" /\ m.integer = n.integer * 10 + Value(b) =>
                     Partly(t, p, q + 1, m, k + 1, fl \cup (IF k = 0 /\ b = "0" THEN {"num_zero"} ELSE {}))
<1>1. /\ q \in From(t, p) .. Len(t) /\ k \in Int /\ q + 1 \in From(t, p) .. Len(t)
      /\ "num_negative" \in fl <=> At(t, p) = "-"
      /\ \/ InWhole(t, p, q, n, k, fl) \/ InLarge(t, p, q, n, k, fl)
         \/ InFraction(t, p, q, n, k, fl) \/ InExponent(t, p, q, n, k, fl)
  BY PartlyBounds DEF Partly, Digit
<1>2. /\ InLarge(t, p, q, n, k, fl) => InLarge(t, p, q + 1, n, k + 1, fl)
      /\ InFraction(t, p, q, n, k, fl) => InFraction(t, p, q + 1, n, k + 1, fl)
      /\ InExponent(t, p, q, n, k, fl) => InExponent(t, p, q + 1, n, k + 1, fl \cup {"num_e_got_sign"})
  BY <1>1, DigitInDouble
<1>3. /\ InWhole(t, p, q, n, k, fl) => n.type = "integer" /\ "num_e" \notin fl
      /\ InLarge(t, p, q, n, k, fl) => n.type = "double" /\ "num_e" \notin fl
      /\ InFraction(t, p, q, n, k, fl) => n.type = "double" /\ "num_e" \notin fl
      /\ InExponent(t, p, q, n, k, fl) => n.type = "double" /\ "num_e" \in fl
  BY DEF InWhole, InLarge, InFraction, InExponent
<1>4. "num_e" \in fl => Partly(t, p, q + 1, n, k + 1, fl \cup {"num_e_got_sign"})
  BY <1>1, <1>2, <1>3 DEF Partly
<1>5. "num_e" \notin fl /\ n.type = "double" => Partly(t, p, q + 1, n, k + 1, fl)
  BY <1>1, <1>2, <1>3 DEF Partly
<1>6. CASE "num_e" \notin fl /\ n.type = "integer"
  <2>1. InWhole(t, p, q, n, k, fl)
    BY <1>1, <1>3, <1>6
  <2>2. /\ "num_zero" \in fl => Number(t, p) = None
        /\ "num_zero" \notin fl /\ Overflows(n.integer, Value(b)) =>
             \A m : m.type = "double" => InLarge(t, p, q, m, k, fl)
        /\ "num_zero" \notin fl /\ ~Overflows(n.integer, Value(b)) =>
             \A m : m.type = "integer" /\ m.integer = n.integer * 10 + Value(b) =>
               InWhole(t, p, q + 1, m, k + 1, fl \cup (IF k = 0 /\ b = "0" THEN {"num_zero"} ELSE {}))
    BY <1>1, <2>1, DigitInWhole
  <2>3. ASSUME "num_zero" \notin fl, Overflows(n.integer, Value(b)), NEW m, m.type = "double"
        PROVE  Partly(t, p, q, m, k, fl)
    BY <1>1, <2>2, <2>3 DEF Partly
  <2>4. ASSUME "num_zero" \notin fl, ~Overflows(n.integer, Value(b)), NEW m, m.type = "integer",
               m.integer = n.integer * 10 + Value(b)
        PROVE  Partly(t, p, q + 1, m, k + 1, fl \cup (IF k = 0 /\ b = "0" THEN {"num_zero"} ELSE {}))
    <3>1. PICK gl : gl = fl \cup (IF k = 0 /\ b = "0" THEN {"num_zero"} ELSE {})
      OBVIOUS
    <3>2. InWhole(t, p, q + 1, m, k + 1, gl)
      BY <2>2, <2>4, <3>1
    <3>3. "num_negative" \in gl <=> At(t, p) = "-"
      BY <1>1, <3>1
    <3>4. QED
      BY <1>1, <3>1, <3>2, <3>3 DEF Partly
  <2>5. QED
    BY <1>6, <2>2, <2>3, <2>4, <1>4, <1>5
<1>7. QED
  BY <1>4, <1>5, <1>6

LEMMA PartlyPart ==
  ASSUME NEW t, NEW p, NumberAt(t, p), NEW q, NEW n, NEW k, NEW fl, Partly(t, p, q, n, k, fl),
         NEW b, b = t[q]
  PROVE  /\ b \in {"+", "-"} /\ "num_e" \in fl /\ "num_e_got_sign" \notin fl =>
              Partly(t, p, q + 1, n, k, fl \cup {"num_e_got_sign"})
         /\ b = "." /\ n.type = "integer" =>
              (k = 0 => Number(t, p) = None)
         /\ b = "e" /\ "num_e" \notin fl =>
              /\ k = 0 /\ n.type = "double" => Number(t, p) = None
              /\ ~(k = 0 /\ n.type = "double") =>
                   \A m : m.type = "double" => Partly(t, p, q + 1, m, 0, (fl \cup {"num_e"}) \ {"num_zero"})
<1>1. /\ q \in From(t, p) .. Len(t) /\ (b # "end" => q + 1 \in From(t, p) .. Len(t))
      /\ "num_negative" \in fl <=> At(t, p) = "-"
      /\ \/ InWhole(t, p, q, n, k, fl) \/ InLarge(t, p, q, n, k, fl)
         \/ InFraction(t, p, q, n, k, fl) \/ InExponent(t, p, q, n, k, fl)
  BY PartlyBounds DEF Partly
<1>2. /\ InWhole(t, p, q, n, k, fl) => n.type = "integer" /\ "num_e" \notin fl
      /\ InLarge(t, p, q, n, k, fl) => n.type = "double" /\ "num_e" \notin fl
      /\ InFraction(t, p, q, n, k, fl) => n.type = "double" /\ "num_e" \notin fl
      /\ InExponent(t, p, q, n, k, fl) => n.type = "double" /\ "num_e" \in fl
  BY DEF InWhole, InLarge, InFraction, InExponent
<1>3. CASE b \in {"+", "-"} /\ "num_e" \in fl /\ "num_e_got_sign" \notin fl
  <2>1. InExponent(t, p, q + 1, n, k, fl \cup {"num_e_got_sign"})
    BY <1>1, <1>2, <1>3, SignInNumber
  <2>2. QED
    BY <1>1, <1>3, <2>1 DEF Partly
<1>4. CASE b = "." /\ n.type = "integer"
  <2>1. InWhole(t, p, q, n, k, fl) /\ t[q] = "." /\ q \in From(t, p) .. Len(t)
    BY <1>1, <1>2, <1>4
  <2>2. k = 0 => Number(t, p) = None
    BY <2>1, PointInNumber
  <2>3. QED
    BY <1>4, <2>2
<1>5. CASE b = "e" /\ "num_e" \notin fl
  <2>0. /\ InWhole(t, p, q, n, k, fl) \/ InLarge(t, p, q, n, k, fl) \/ InFraction(t, p, q, n, k, fl)
        /\ t[q] = "e" /\ q \in From(t, p) .. Len(t)
    BY <1>1, <1>2, <1>5
  <2>1. /\ k = 0 /\ n.type = "double" => Number(t, p) = None
        /\ ~(k = 0 /\ n.type = "double") =>
              \A m : m.type = "double" => InExponent(t, p, q + 1, m, 0, (fl \cup {"num_e"}) \ {"num_zero"})
    BY <2>0, ExponentInNumber, Zenon
  <2>2. QED
    BY <1>1, <1>5, <2>1 DEF Partly
<1>6. QED
  BY <1>3, <1>4, <1>5

LEMMA PartlyPoint ==
  ASSUME NEW t, NEW p, NumberAt(t, p), NEW q, NEW n, NEW k, NEW fl, Partly(t, p, q, n, k, fl),
         t[q] = ".", n.type = "integer", k # 0, NEW m, m.type = "double"
  PROVE  Partly(t, p, q + 1, m, 0, fl)
<1>1. /\ q \in From(t, p) .. Len(t) /\ q + 1 \in From(t, p) .. Len(t)
      /\ "num_negative" \in fl <=> At(t, p) = "-"
  BY PartlyBounds DEF Partly
<1>2. InWhole(t, p, q, n, k, fl)
  BY DEF Partly, InLarge, InFraction, InExponent
<1>3. InFraction(t, p, q + 1, m, 0, fl)
  BY <1>1, <1>2, PointInNumber
<1>4. QED
  BY <1>1, <1>3 DEF Partly

LEMMA PartlyBegins ==
  ASSUME NEW t, NEW p, NumberAt(t, p), NEW n, n.type = "integer", n.integer = 0, NEW fl,
         "num_negative" \in fl <=> At(t, p) = "-", "num_e" \notin fl, "num_e_got_sign" \notin fl, "num_zero" \notin fl,
         NEW q, q = IF At(t, p) = "-" THEN p + 1 ELSE p
  PROVE  Partly(t, p, q, n, 0, fl)
<1>1. q = From(t, p)
  BY DEF From
<1>2. /\ p \in Nat /\ p >= 1 /\ p < Len(t) /\ Len(t) \in Nat
      /\ From(t, p) \in p .. Len(t)
  BY NumberBounds DEF NumberAt
<1>3. q \in Nat /\ q <= Len(t) /\ q \in q .. Len(t)
  BY <1>1, <1>2
<1>4. Decimal(t, q, q) = 0
  BY <1>2, <1>3, DecimalNext
<1>5. IntMax \in Nat
  BY JsonAssumption
<1>6. Digits(t, q, q)
  BY <1>3 DEF Digits
<1>7. 0 = q - q
  BY <1>3
<1>8. ~(q > q)
  BY <1>3
<1>9. InWhole(t, p, q, n, 0, fl)
  BY <1>1, <1>4, <1>5, <1>6, <1>7, <1>8 DEF InWhole
<1>10. QED
  BY <1>1, <1>3, <1>9 DEF Partly

-----------------------------------------------------------------------------
(* A number in the first pass, for every text that goes on as it began.    *)

Extends(s, t) == Len(s) <= Len(t) /\ \A i \in 1 .. Len(s) : t[i] = s[i]

NumberPartly(c) ==
  \A t : Whole(t) /\ Extends(text, t) => Partly(t, c.ptr, ptr, Top, num_digits, flags)

\* Where the number was to be there is none.
NoNumber(c, s) == \A t : Whole(t) /\ Extends(s, t) => Number(t, c.ptr) = None

LEMMA ExtendsBoth ==
  ASSUME NEW s \in Seq(Token), NEW u \in Seq(Token), Extends(s, u), NEW t \in Seq(Token), Extends(u, t)
  PROVE  Extends(s, t)
<1>1. Len(s) \in Nat /\ Len(u) \in Nat /\ Len(t) \in Nat
  OBVIOUS
<1>2. QED
  BY <1>1 DEF Extends

LEMMA ExtendsSelf ==
  ASSUME NEW t \in Seq(Token)
  PROVE  Extends(t, t)
<1>1. Len(t) \in Nat
  OBVIOUS
<1>2. QED
  BY <1>1 DEF Extends

LEMMA ExtendsAppended ==
  ASSUME NEW s \in Seq(Token), NEW u, u = s \/ \E b \in Token : u = Append(s, b)
  PROVE  u \in Seq(Token) /\ Extends(s, u)
<1>1. CASE u = s
  BY <1>1, ExtendsSelf
<1>2. CASE u # s
  <2>1. PICK b \in Token : u = Append(s, b)
    BY <1>2
  <2>2. /\ u \in Seq(Token) /\ Len(s) \in Nat /\ Len(u) = Len(s) + 1 /\ \A i \in 1 .. Len(s) : u[i] = s[i]
    BY <2>1, Appended
  <2>3. QED
    BY <2>2 DEF Extends
<1>3. QED
  BY <1>1, <1>2

LEMMA NumberPlaceHere ==
  ASSUME NEW c, InNumberAt(c), NEW b \in Token, Read(b), NEW t, Whole(t), Extends(text', t)
  PROVE  NumberAt(t, c.ptr) /\ t[ptr] = b /\ Extends(text, t)
<1>1. /\ c.ptr \in Nat /\ c.ptr >= 1
      /\ ptr \in Nat /\ ptr >= 1 /\ Len(text) \in Nat /\ ptr <= Len(text) + 1 /\ text \in Seq(Token)
  BY NumberHere
<1>2. /\ text' \in Seq(Token) /\ Len(text') \in Nat /\ Len(text) <= Len(text')
      /\ ptr \in 1 .. Len(text') /\ text'[ptr] = b
      /\ text' = text \/ text' = Append(text, b)
  BY <1>1, ReadText
<1>3. Extends(text, text')
  BY <1>1, <1>2, ExtendsAppended
<1>4. t \in Seq(Token) /\ Len(t) \in Nat
  BY DEF Whole
<1>5. Extends(text, t)
  BY <1>1, <1>2, <1>3, <1>4, ExtendsBoth
<1>6. t[ptr] = b
  BY <1>2 DEF Extends
<1>7. c.ptr \in 1 .. Len(text) /\ text[c.ptr] \in Digit \cup {"-"}
  BY DEF InNumberAt, Drawn
<1>8. t[c.ptr] \in Digit \cup {"-"} /\ c.ptr <= Len(t)
  BY <1>1, <1>4, <1>5, <1>7 DEF Extends
<1>9. At(t, c.ptr) = t[c.ptr] /\ c.ptr \in Places(t)
  BY <1>1, <1>8, WholeAt
<1>10. QED
  BY <1>5, <1>6, <1>8, <1>9 DEF NumberAt

LEMMA GoesOnTop ==
  ASSUME NEW c, InNumberAt(c), NEW STATE f, NEW STATE n, NEW STATE digits, NumberGoesOn(f, n, digits)
  PROVE  ptr' = ptr + 1 /\ flags' = f /\ Top' = n /\ num_digits' = digits /\ pc' = "parse"
<1>1. top = c.n + 1 /\ pc = "parse" /\ c.n \in Nat /\ nodes \in [1 .. c.n + 1 -> Node]
  BY NumberHere DEF InNumberAt, Extended
<1>2. top' = top /\ nodes' = [nodes EXCEPT ![top] = n]
  BY DEF NumberGoesOn
<1>3. top \in DOMAIN nodes
  BY <1>1
<1>4. nodes'[top'] = n
  BY <1>2, <1>3
<1>5. QED
  BY <1>1, <1>4 DEF NumberGoesOn, Round, Top

LEMMA NumberReadsOn ==
  ASSUME NEW c, InNumberAt(c), NumberPartly(c), NEW b \in Token, DigitRound(b) \/ NumberPart(b)
  PROVE  \/ Refuse /\ NoNumber(c, text')
         \/ NumberPartly(c)' /\ pc' = "parse"
<1>1. InNumber(b) /\ Read(b)
  BY DEF DigitRound, NumberPart, InNumber, Outside
<1>2. Top \in Node /\ Top.type \in Numeric /\ top # 0
  BY NumberHere
<1>3. \A type : Is(type) <=> Top.type = type
  BY <1>2 DEF Is
<1>4. \A t : Whole(t) /\ Extends(text', t) =>
        /\ NumberAt(t, c.ptr) /\ t[ptr] = b /\ Partly(t, c.ptr, ptr, Top, num_digits, flags)
  BY <1>1, NumberPlaceHere DEF NumberPartly
<1>5. ASSUME NEW STATE f, NEW STATE n, NEW STATE digits, NumberGoesOn(f, n, digits),
             \A t : Whole(t) /\ Extends(text', t) => Partly(t, c.ptr, ptr + 1, n, digits, f)
      PROVE  NumberPartly(c)' /\ pc' = "parse"
  <2>1. ptr' = ptr + 1 /\ flags' = f /\ Top' = n /\ num_digits' = digits /\ pc' = "parse"
    BY <1>5, GoesOnTop
  <2>2. QED
    BY <1>5, <2>1 DEF NumberPartly
<1>6. CASE DigitRound(b)
  <2>0. b \in Digit
    BY <1>6 DEF DigitRound
  <2>1. CASE Has("num_e") /\ NumberGoesOn(flags \cup {"num_e_got_sign"}, Top, num_digits + 1)
    <3>1. \A t : Whole(t) /\ Extends(text', t) =>
            Partly(t, c.ptr, ptr + 1, Top, num_digits + 1, flags \cup {"num_e_got_sign"})
      BY <1>4, <2>0, <2>1, PartlyDigit DEF Has
    <3>2. QED
      BY <1>5, <2>1, <3>1
  <2>2. CASE ~Has("num_e") /\ Is("double") /\ NumberGoesOn(flags, Top, num_digits + 1)
    <3>1. \A t : Whole(t) /\ Extends(text', t) => Partly(t, c.ptr, ptr + 1, Top, num_digits + 1, flags)
      BY <1>3, <1>4, <2>0, <2>2, PartlyDigit DEF Has
    <3>2. QED
      BY <1>5, <2>2, <3>1
  <2>3. CASE ~Has("num_e") /\ Is("integer") /\ Has("num_zero") /\ Refuse
    <3>1. NoNumber(c, text')
      BY <1>3, <1>4, <2>0, <2>3, PartlyDigit DEF Has, NoNumber
    <3>2. QED
      BY <2>3, <3>1
  <2>4. CASE ~Has("num_e") /\ Is("integer") /\ ~Has("num_zero") /\ Overflows(Top.integer, Value(b)) /\ BecomesDouble
    <3> DEFINE n == [Top EXCEPT !.type = "double"]
    <3>1. n.type = "double"
      BY <1>2 DEF Node
    <3> HIDE DEF n
    <3>2. \A t : Whole(t) /\ Extends(text', t) => Partly(t, c.ptr, ptr, n, num_digits, flags)
      BY <1>3, <1>4, <2>0, <2>4, <3>1, PartlyDigit DEF Has
    <3>3. ptr' = ptr /\ flags' = flags /\ num_digits' = num_digits /\ top' = top /\ pc' = pc
          /\ nodes' = [nodes EXCEPT ![top].type = "double"]
      BY <2>4 DEF BecomesDouble, Reproc
    <3>4. top = c.n + 1 /\ pc = "parse" /\ c.n \in Nat /\ nodes \in [1 .. c.n + 1 -> Node]
      BY NumberHere DEF InNumberAt, Extended
    <3>5. Top' = n
      BY <3>3, <3>4 DEF Top, n
    <3>6. QED
      BY <3>2, <3>3, <3>4, <3>5 DEF NumberPartly
  <2>5. ASSUME ~Has("num_e"), Is("integer"), ~Has("num_zero"), ~Overflows(Top.integer, Value(b)),
               NumberGoesOn(flags \cup (IF num_digits = 0 /\ b = "0" THEN {"num_zero"} ELSE {}),
                            [Top EXCEPT !.integer = @ * 10 + Value(b)], num_digits + 1)
        PROVE  NumberPartly(c)' /\ pc' = "parse"
    <3> DEFINE n == [Top EXCEPT !.integer = @ * 10 + Value(b)]
               f == flags \cup (IF num_digits = 0 /\ b = "0" THEN {"num_zero"} ELSE {})
    <3>1. n.type = "integer" /\ n.integer = Top.integer * 10 + Value(b)
      BY <1>2, <1>3, <2>5 DEF Node
    <3> HIDE DEF n
    <3>2. \A t : Whole(t) /\ Extends(text', t) => Partly(t, c.ptr, ptr + 1, n, num_digits + 1, f)
      <4>1. TAKE t
      <4>2. HAVE Whole(t) /\ Extends(text', t)
      <4>3. /\ NumberAt(t, c.ptr) /\ t[ptr] = b /\ Partly(t, c.ptr, ptr, Top, num_digits, flags)
        BY <1>4, <4>2
      <4>4. "num_e" \notin flags /\ Top.type = "integer" /\ "num_zero" \notin flags
        BY <1>3, <2>5 DEF Has
      <4>5. QED
        BY <2>0, <2>5, <3>1, <4>3, <4>4, PartlyDigit
    <3>3. NumberGoesOn(f, n, num_digits + 1)
      BY <2>5 DEF n
    <3> HIDE DEF f
    <3>4. QED
      BY <1>5, <3>2, <3>3
  <2>6. QED
    BY <1>6, <2>1, <2>2, <2>3, <2>4, <2>5 DEF DigitRound
<1>7. CASE NumberPart(b)
  <2> DEFINE n == [Top EXCEPT !.type = "double"]
  <2>1. n.type = "double"
    BY <1>2 DEF Node
  <2>2. /\ \/ Sign(b) /\ NumberGoesOn(flags \cup {"num_e_got_sign"}, Top, num_digits)
           \/ Point(b) /\ IF num_digits = 0 THEN Refuse ELSE NumberGoesOn(flags, n, 0)
           \/ Exponent(b) /\ IF NoDigit THEN Refuse ELSE NumberGoesOn((flags \cup {"num_e"}) \ {"num_zero"}, n, 0)
    BY <1>7 DEF NumberPart
  <2> HIDE DEF n
  <2>3. CASE Sign(b) /\ NumberGoesOn(flags \cup {"num_e_got_sign"}, Top, num_digits)
    <3>1. \A t : Whole(t) /\ Extends(text', t) =>
            Partly(t, c.ptr, ptr + 1, Top, num_digits, flags \cup {"num_e_got_sign"})
      BY <1>4, <2>3, PartlyPart DEF Has, Sign
    <3>2. QED
      BY <1>5, <2>3, <3>1
  <2>4. CASE Point(b) /\ IF num_digits = 0 THEN Refuse ELSE NumberGoesOn(flags, n, 0)
    <3>0. b = "." /\ Top.type = "integer"
      BY <1>3, <2>4 DEF Point
    <3>1. \A t : Whole(t) /\ Extends(text', t) =>
            /\ num_digits = 0 => Number(t, c.ptr) = None
            /\ num_digits # 0 => Partly(t, c.ptr, ptr + 1, n, 0, flags)
      <4>1. TAKE t
      <4>2. HAVE Whole(t) /\ Extends(text', t)
      <4>3. NumberAt(t, c.ptr) /\ t[ptr] = b /\ Partly(t, c.ptr, ptr, Top, num_digits, flags)
        BY <1>4, <4>2
      <4>4. num_digits = 0 => Number(t, c.ptr) = None
        BY <3>0, <4>3, PartlyPart
      <4>5. ASSUME num_digits # 0 PROVE Partly(t, c.ptr, ptr + 1, n, 0, flags)
        BY <2>1, <3>0, <4>3, <4>5, PartlyPoint
      <4>6. QED
        BY <4>4, <4>5
    <3>2. CASE num_digits = 0
      BY <2>4, <3>1, <3>2 DEF NoNumber
    <3>3. CASE num_digits # 0
      BY <1>5, <2>4, <3>1, <3>3
    <3>4. QED
      BY <3>2, <3>3
  <2>5. CASE Exponent(b) /\ IF NoDigit THEN Refuse ELSE NumberGoesOn((flags \cup {"num_e"}) \ {"num_zero"}, n, 0)
    <3> DEFINE f == (flags \cup {"num_e"}) \ {"num_zero"}
    <3>0. b = "e" /\ "num_e" \notin flags /\ (NoDigit <=> num_digits = 0 /\ Top.type = "double")
      BY <1>3, <2>5 DEF Exponent, NoDigit, Has
    <3>1. \A t : Whole(t) /\ Extends(text', t) =>
            /\ NoDigit => Number(t, c.ptr) = None
            /\ ~NoDigit => Partly(t, c.ptr, ptr + 1, n, 0, f)
      BY <1>4, <2>1, <3>0, PartlyPart
    <3> HIDE DEF f
    <3>2. CASE NoDigit
      BY <2>5, <3>1, <3>2 DEF NoNumber
    <3>3. CASE ~NoDigit
      BY <1>5, <2>5, <3>1, <3>3 DEF f
    <3>4. QED
      BY <3>2, <3>3
  <2>6. QED
    BY <2>2, <2>3, <2>4, <2>5
<1>8. QED
  BY <1>6, <1>7

\* What a number means, of which the caller finds a double's value elsewhere.
NumberContent(n) ==
  IF n.type = "integer" THEN [type |-> "integer", integer |-> n.integer] ELSE [type |-> "double"]

\* The number at c ends before q, with what the value v then is.
IsRead(c, s, n, q) ==
  \A t : Whole(t) /\ Extends(s, t) => Number(t, c.ptr) = Result(NumberContent(n), q)

LEMMA NumberStopsOn ==
  ASSUME NEW c, InNumberAt(c), NumberPartly(c), NEW b \in Token, NumberEnds(b)
  PROVE  \/ Refuse /\ NoNumber(c, text')
         \/ /\ ptr' = ptr /\ text'[ptr] = b /\ pc' = "parse"
            /\ b \in NumberToken => NoNumber(c, text')
            /\ b \notin NumberToken => IsRead(c, text', nodes'[c.n + 1], ptr)
<1>1. InNumber(b) /\ Read(b) /\ b \notin Digit /\ ~Sign(b) /\ ~Point(b) /\ ~Exponent(b) /\ b \notin {"//", "/*"}
  BY DEF NumberEnds, InNumber, Outside
<1>2. /\ Top \in Node /\ Top.type \in Numeric /\ top # 0 /\ Top.parent = c.top
      /\ c.n \in Nat /\ c.ptr \in Nat /\ c.ptr >= 1
      /\ ptr \in Nat /\ ptr >= 1 /\ Len(text) \in Nat /\ ptr <= Len(text) + 1 /\ text \in Seq(Token)
  BY NumberHere
<1>3. \A type : Is(type) <=> Top.type = type
  BY <1>2 DEF Is
<1>4. ASSUME NEW t, Whole(t), Extends(text', t)
      PROVE  /\ NoDigit => Number(t, c.ptr) = None
             /\ b \in NumberToken => Number(t, c.ptr) = None
             /\ ~NoDigit /\ b \notin NumberToken => Number(t, c.ptr) = Result(NumberRead(Top, flags), ptr)
  <2>1. NumberAt(t, c.ptr) /\ t[ptr] = b /\ Partly(t, c.ptr, ptr, Top, num_digits, flags)
    BY <1>1, <1>4, NumberPlaceHere DEF NumberPartly
  <2>2. /\ ~(b \in {"+", "-"} /\ "num_e" \in flags /\ "num_e_got_sign" \notin flags)
        /\ ~(b = "." /\ Top.type = "integer") /\ ~(b = "e" /\ "num_e" \notin flags)
    BY <1>1, <1>3 DEF Sign, Point, Exponent, Has
  <2>3. NoDigit <=> num_digits = 0 /\ ("num_e" \in flags \/ Top.type = "double")
    BY <1>3 DEF NoDigit, Has
  <2>4. PICK p : p = c.ptr
    OBVIOUS
  <2>5. NumberAt(t, p) /\ Partly(t, p, ptr, Top, num_digits, flags)
    BY <2>1, <2>4
  <2>6. /\ num_digits = 0 /\ ("num_e" \in flags \/ Top.type = "double") => Number(t, p) = None
        /\ b \in NumberToken \cup {"//", "/*"} => Number(t, p) = None
        /\ ~(num_digits = 0 /\ ("num_e" \in flags \/ Top.type = "double")) /\ b \notin NumberToken \cup {"//", "/*"} =>
              Number(t, p) = Result(NumberRead(Top, flags), ptr)
    BY <1>1, <2>1, <2>2, <2>5, NumberStopped
  <2>7. QED
    BY <1>1, <2>3, <2>4, <2>6
<1>5. CASE NoDigit
  <2>1. Refuse
    BY <1>5 DEF NumberEnds
  <2>2. QED
    BY <1>4, <1>5, <2>1 DEF NoNumber
<1>6. CASE ~NoDigit
  <2> DEFINE n == IF Has("num_negative") THEN [Top EXCEPT !.integer = -Top.integer] ELSE Top
             ns == [nodes EXCEPT ![top] = n]
  <2>1. NextFlag(ns, top, flags) /\ UNCHANGED ptr
    BY <1>6 DEF NumberEnds
  <2>2. NumberContent(n) = NumberRead(Top, flags)
    BY <1>2 DEF NumberContent, NumberRead, Node, Has
  <2>3. n.parent = c.top
    BY <1>2 DEF Node
  <2> HIDE DEF n
  <2>4. top = c.n + 1 /\ c.top \in 0 .. c.n /\ pc = "parse" /\ nodes \in [1 .. c.n + 1 -> Node]
    BY DEF InNumberAt, BeginsNumber, Regular, Typed, Extended
  <2>5. DOMAIN ns = 1 .. c.n + 1 /\ top \in 1 .. c.n + 1 /\ ns[top] = n /\ c.top # top
    BY <1>2, <2>4
  <2> HIDE DEF ns
  <2>6. nodes' = Completed(ns, top) /\ pc' = pc
    BY <2>1 DEF NextFlag
  <2>7. nodes'[c.n + 1] = n
    <3>1. CASE c.top = 0
      BY <2>3, <2>4, <2>5, <2>6, <3>1 DEF Completed
    <3>2. CASE c.top # 0
      <4>1. nodes' = [ns EXCEPT ![c.top] = Holding(@, top)]
        BY <2>3, <2>5, <2>6, <3>2 DEF Completed
      <4>2. QED
        BY <2>4, <2>5, <4>1
    <3>3. QED
      BY <3>1, <3>2
  <2>8. ASSUME NEW t, Whole(t), Extends(text', t), b \notin NumberToken
        PROVE  Number(t, c.ptr) = Result(NumberContent(nodes'[c.n + 1]), ptr)
    BY <1>4, <1>6, <2>2, <2>7, <2>8
  <2>9. text'[ptr] = b
    BY <1>1, <1>2, ReadText
  <2>10. b \in NumberToken => NoNumber(c, text')
    BY <1>4 DEF NoNumber
  <2>11. QED
    BY <2>1, <2>4, <2>6, <2>8, <2>9, <2>10 DEF IsRead
<1>7. QED
  BY <1>5, <1>6

LEMMA CommentInNumber ==
  ASSUME NEW c, InNumberAt(c), NumberPartly(c), NEW b \in Token, CommentBegins(b)
  PROVE  Refuse /\ NoNumber(c, text')
<1>1. Read(b) /\ b \in {"//", "/*"}
  BY DEF CommentBegins
<1>2. ~Has("seek_value") /\ ~Has("done") /\ ~Is("object") /\ Top \in Node
  BY NumberHere DEF Is, Numeric
<1>3. Refuse
  BY <1>2 DEF CommentBegins
<1>4. ASSUME NEW t, Whole(t), Extends(text', t) PROVE Number(t, c.ptr) = None
  <2>1. NumberAt(t, c.ptr) /\ t[ptr] = b /\ Partly(t, c.ptr, ptr, Top, num_digits, flags)
    BY <1>1, <1>4, NumberPlaceHere DEF NumberPartly
  <2>2. b \notin Digit /\ b \notin {"+", "-"} /\ b # "." /\ b # "e"
    BY <1>1 DEF Digit
  <2>3. PICK p : p = c.ptr
    OBVIOUS
  <2>4. NumberAt(t, p) /\ Partly(t, p, ptr, Top, num_digits, flags)
    BY <2>1, <2>3
  <2>5. Number(t, p) = None
    BY <1>1, <2>1, <2>2, <2>4, NumberStopped
  <2>6. QED
    BY <2>3, <2>5
<1>5. QED
  BY <1>3, <1>4 DEF NoNumber

LEMMA NumberStartsOn ==
  ASSUME NEW c, First(c), NEW b \in Token, NumberBegins(b)
  PROVE  NumberPartly(c)'
<1>1. InNumberAt(c)'
  BY NumberStarts
<1>2. Here(c) /\ pass = 1 /\ Chain(c.n) /\ ptr = c.ptr /\ top = c.top /\ Typed(c) /\ SameAs(c)
  BY DEF First, Here, Regular
<1>3. Read(b) /\ b \in Digit \cup {"-"} /\ NewValue /\ nodes' = WithNew("integer") /\ top' = New /\ num_digits' = 0
  BY DEF NumberBegins, Seeks, Outside
<1> DEFINE f == flags \ (NumberFlags \cup {"seek_value"})
<1>4. /\ ptr' = (IF b = "-" THEN ptr + 1 ELSE ptr)
      /\ flags' = (IF b = "-" THEN f \cup {"num_negative"} ELSE f)
  BY DEF NumberBegins, Round, Reproc
<1>5. /\ "num_negative" \in flags' <=> b = "-"
      /\ "num_e" \notin flags' /\ "num_e_got_sign" \notin flags' /\ "num_zero" \notin flags'
  BY <1>4 DEF NumberFlags
<1>6. c.n \in Nat /\ top \in Nat /\ "integer" \in Kind
  BY <1>2 DEF Typed, Kind
<1>7. Top' = NewNode("integer")
  BY <1>2, <1>3, <1>6, NewFirstFields DEF Top, Chain
<1>8. Top'.type = "integer" /\ Top'.integer = 0
  BY <1>7 DEF NewNode
<1>9. text' \in Seq(Token) /\ c.ptr \in 1 .. Len(text') /\ text'[c.ptr] = b /\ Len(text') \in Nat
  BY <1>2, <1>3, ReadHere
<1>10. ASSUME NEW t, Whole(t), Extends(text', t) PROVE Partly(t, c.ptr, ptr', Top', num_digits', flags')
  <2>1. t[c.ptr] = b /\ c.ptr <= Len(t) /\ Len(t) \in Nat
    BY <1>9, <1>10 DEF Extends, Whole
  <2>2. At(t, c.ptr) = b /\ c.ptr \in Places(t)
    BY <1>9, <1>10, <2>1, WholeAt
  <2>3. PICK p : p = c.ptr
    OBVIOUS
  <2>4. NumberAt(t, p) /\ At(t, p) = b
    BY <1>3, <1>10, <2>2, <2>3 DEF NumberAt
  <2>5. PICK n, q : n = Top' /\ q = ptr'
    OBVIOUS
  <2>6. PICK fl : fl = flags'
    OBVIOUS
  <2>7. Partly(t, p, q, n, 0, fl)
    BY <1>2, <1>4, <1>5, <1>8, <2>3, <2>4, <2>5, <2>6, PartlyBegins
  <2>8. QED
    BY <1>3, <2>3, <2>5, <2>6, <2>7
<1>11. QED
  BY <1>10 DEF NumberPartly

\* A round in a number, with what it says of the number.
LEMMA NumberOn ==
  ASSUME NEW c, InNumberAt(c), NumberPartly(c), Step
  PROVE  \/ Refuse /\ Dropped' /\ NoNumber(c, text')
         \/ InNumberAt(c)' /\ NumberPartly(c)'
         \/ Doomed(c.n + 1)' /\ NoNumber(c, text')
         \/ \E d : Leads(c, d, text') /\ First(d)' /\ IsRead(c, text', nodes'[c.n + 1], d.ptr)
<1>1. /\ ~Has("seek_value") /\ ~Has("done") /\ ~Has("string") /\ ~InComment
      /\ top # 0 /\ Top.type \in Numeric
      /\ ptr \in Nat /\ ptr >= 1 /\ Len(text) \in Nat /\ ptr <= Len(text) + 1 /\ text \in Seq(Token)
  BY NumberHere
<1>2. pc = "parse" /\ pass = 1 /\ Chain(c.n + 1)
  BY NumberChain DEF InNumberAt
<1>3. Refuse => Dropped'
  <2>1. PICK b \in Token : Read(b)
    BY <1>2, RoundReads
  <2>2. ptr <= Len(text') + 1
    BY <1>1, <2>1, ReadText
  <2>3. QED
    BY <1>2, <2>2, FirstDrops
<1>4. ~Is("object") /\ ~Is("array") /\ ~Is("string")
  BY <1>1 DEF Is, Numeric
<1>5. ASSUME NEW b \in Token,
             \/ StringRound(b) \/ LineComment(b) \/ BlockComment(b) \/ CommentBegins(b)
             \/ Trailing(b) \/ BetweenValues(b) \/ NoValue(b) \/ OutOfMemory(b)
             \/ NumberBegins(b) \/ NumberSkipped(b) \/ Entry(b)
             \/ DigitRound(b) \/ NumberPart(b) \/ NumberEnds(b)
      PROVE  CommentBegins(b) \/ DigitRound(b) \/ NumberPart(b) \/ NumberEnds(b)
  BY <1>1, <1>4, <1>5 DEF StringRound, LineComment, BlockComment, Trailing, BetweenValues,
       NoValue, OutOfMemory, NumberBegins, NumberSkipped, Entry, InObject, Seeks, InComment
<1>6. ~(StringEnds \/ NameEnds \/ PassEnds \/ ArrayEnds \/ Literal \/ ObjectEnds)
  BY <1>1, <1>4 DEF StringEnds, NameEnds, PassEnds, ArrayEnds, Literal, ObjectEnds, Seeks, InObject
<1>7. ~(Opens("lbrace", "object") \/ Opens("[", "array") \/ Opens("quote", "string"))
  BY <1>1 DEF Opens, Seeks
<1>8. ~Discard /\ ~Release /\ ~Free
  BY <1>2 DEF Discard, Release, Free
<1>9. PICK b \in Token : CommentBegins(b) \/ DigitRound(b) \/ NumberPart(b) \/ NumberEnds(b)
  BY <1>5, <1>6, <1>7, <1>8 DEF Step
<1>10. CASE CommentBegins(b)
  BY <1>3, <1>10, CommentInNumber
<1>11. CASE DigitRound(b) \/ NumberPart(b)
  <2>1. CASE Refuse /\ NoNumber(c, text')
    BY <1>3, <2>1
  <2>2. CASE NumberPartly(c)' /\ pc' = "parse"
    <3>1. ~Refuse
      BY <2>2 DEF Refuse, Fail
    <3>2. InNumberAt(c)'
      BY <1>11, <3>1, NumberReads
    <3>3. QED
      BY <2>2, <3>2
  <2>3. QED
    BY <1>11, <2>1, <2>2, NumberReadsOn
<1>12. CASE NumberEnds(b)
  <2>1. CASE Refuse /\ NoNumber(c, text')
    BY <1>3, <2>1
  <2>2. CASE /\ ptr' = ptr /\ text'[ptr] = b /\ pc' = "parse"
             /\ b \in NumberToken => NoNumber(c, text')
             /\ b \notin NumberToken => IsRead(c, text', nodes'[c.n + 1], ptr)
    <3>1. ~Refuse
      BY <2>2 DEF Refuse, Fail
    <3>2. CASE Doomed(c.n + 1)'
      <4>1. b \in NumberToken
        BY <2>2, <3>2 DEF Doomed
      <4>2. QED
        BY <2>2, <3>2, <4>1
    <3>3. ASSUME NEW d, Leads(c, d, text'), First(d)' PROVE b \notin NumberToken /\ d.ptr = ptr
      <4>1. d.ptr = ptr'
        BY <3>3 DEF First, Here
      <4>2. BeginsNumber(c) /\ Drawn(c)
        BY DEF InNumberAt
      <4>3. Read(b)
        BY <1>12 DEF NumberEnds, InNumber, Outside
      <4>4. /\ text' \in Seq(Token) /\ Len(text') \in Nat /\ Len(text) <= Len(text')
            /\ \A k \in 1 .. Len(text) : text'[k] = text[k]
        BY <1>1, <4>3, ReadText
      <4>5. c.ptr \in 1 .. Len(text) /\ text[c.ptr] \in Digit \cup {"-"}
        BY <4>2 DEF Drawn
      <4>6. PICK x : x = text'[c.ptr]
        OBVIOUS
      <4>7. x \in Digit \cup {"-"} /\ c.ptr <= Len(text')
        BY <1>1, <4>4, <4>5, <4>6
      <4>8. Seeking(c, d, text', x)
        BY <3>3, <4>2, <4>6, <4>7 DEF Leads, BeginsNumber, Commented, Digit
      <4>9. IsNumber(text', c.ptr, d.ptr)
        BY <4>2, <4>7, <4>8 DEF Seeking, BeginsNumber, Starts, Digit, Blank
      <4>10. text'[ptr] \notin NumberToken
        BY <2>2, <4>1, <4>9 DEF IsNumber
      <4>11. QED
        BY <2>2, <4>1, <4>10
    <3>4. CASE \E d : Leads(c, d, text') /\ First(d)'
      <4>1. PICK d : Leads(c, d, text') /\ First(d)'
        BY <3>4
      <4>2. b \notin NumberToken /\ d.ptr = ptr
        BY <3>3, <4>1
      <4>3. QED
        BY <2>2, <4>1, <4>2
    <3>5. QED
      BY <1>12, <3>1, <3>2, <3>4, NumberStops
  <2>3. QED
    BY <1>12, <2>1, <2>2, NumberStopsOn
<1>13. QED
  BY <1>9, <1>10, <1>11, <1>12

-----------------------------------------------------------------------------
(* What the operators of the parser keep of numbers, names and memory.     *)

LEMMA HoldingKeeps ==
  ASSUME NEW p \in Node, NEW v
  PROVE  Holding(p, v).integer = p.integer /\ Holding(p, v).names = p.names
<1> DEFINE its == IF pass = 2 THEN Append(p.items, v) ELSE p.items
           len == p.length + 1
<1>1. Holding(p, v) = [p EXCEPT !.length = len, !.items = its]
  BY DEF Holding
<1> HIDE DEF its, len
<1>2. QED
  BY <1>1 DEF Node

LEMMA CompletedKeeps ==
  ASSUME NEW k \in Nat, NEW ns \in [1 .. k -> Node], NEW v \in 1 .. k, ns[v].parent \in 0 .. k
  PROVE  \A w \in 1 .. k : /\ Completed(ns, v)[w].integer = ns[w].integer
                           /\ Completed(ns, v)[w].names = ns[w].names
<1>1. PICK p : p = ns[v].parent
  OBVIOUS
<1>2. CASE p = 0
  BY <1>1, <1>2 DEF Completed
<1>3. CASE p # 0
  <2>1. PICK o : o = Holding(ns[p], v)
    OBVIOUS
  <2>2. Completed(ns, v) = [ns EXCEPT ![p] = o]
    BY <1>1, <1>3, <2>1 DEF Completed
  <2>3. p \in 1 .. k /\ ns[p] \in Node
    BY <1>1, <1>3
  <2>4. o.integer = ns[p].integer /\ o.names = ns[p].names
    BY <2>1, <2>3, HoldingKeeps
  <2>5. QED
    BY <2>2, <2>3, <2>4
<1>4. QED
  BY <1>2, <1>3

LEMMA WrittenKeeps ==
  ASSUME NEW k \in Nat, nodes \in [1 .. k -> Node], top \in 1 .. k, NEW b, NEW j
  PROVE  /\ \A w \in 1 .. k : w # top => Written(b, j)[w] = nodes[w]
         /\ Written(b, j)[top].integer = nodes[top].integer /\ Written(b, j)[top].names = nodes[top].names
         /\ \A i \in 1 .. Len(nodes[top].mem) : Written(b, j)[top].mem[i] =
              IF i \in StringAt + string_length + 1 .. StringAt + string_length + j THEN b ELSE nodes[top].mem[i]
<1>1. nodes[top] \in Node /\ nodes[top].mem \in Seq(Byte)
  BY DEF Node
<1>2. DOMAIN nodes[top].mem = 1 .. Len(nodes[top].mem)
  BY <1>1, LenProperties
<1>3. PICK n, m : n = nodes[top] /\ m = n.mem
  OBVIOUS
<1> DEFINE new == [i \in DOMAIN m |-> IF i \in StringAt + string_length + 1 .. StringAt + string_length + j
                                      THEN b ELSE m[i]]
<1>4. Written(b, j) = [nodes EXCEPT ![top] = [n EXCEPT !.mem = new]]
  BY <1>3 DEF Written
<1>5. \A i \in 1 .. Len(m) : new[i] = IF i \in StringAt + string_length + 1 .. StringAt + string_length + j
                                      THEN b ELSE m[i]
  BY <1>2, <1>3
<1> HIDE DEF new
<1>6. PICK r : r = [n EXCEPT !.mem = new]
  OBVIOUS
<1>7. r.mem = new /\ r.integer = n.integer /\ r.names = n.names
  BY <1>1, <1>3, <1>6 DEF Node
<1>8. Written(b, j)[top] = r /\ \A w \in 1 .. k : w # top => Written(b, j)[w] = nodes[w]
  BY <1>4, <1>6
<1>9. QED
  BY <1>3, <1>5, <1>7, <1>8

LEMMA TerminatedKeeps ==
  ASSUME NEW k \in Nat, nodes \in [1 .. k -> Node], top \in 1 .. k, string_length \in Nat, StringAt \in Nat
  PROVE  /\ \A w \in 1 .. k : w # top => Terminated[w] = nodes[w]
         /\ Terminated \in [1 .. k -> Node]
         /\ Terminated[top].integer = nodes[top].integer /\ Terminated[top].names = nodes[top].names
         /\ Terminated[top].reserved = nodes[top].reserved
         /\ Terminated[top].length = nodes[top].length
         /\ pass # 2 => Terminated = nodes
         /\ pass = 2 => \A i \in 1 .. Len(nodes[top].mem) : Terminated[top].mem[i] =
              IF i = StringAt + string_length + 1 THEN "nul" ELSE nodes[top].mem[i]
<1>1. CASE pass = 2
  <2>1. Terminated = Written("nul", 1)
    BY <1>1 DEF Terminated
  <2>2. "nul" \in Byte /\ 1 \in Nat
    BY DEF Byte
  <2>3. PICK e : e = StringAt + string_length + 1
    OBVIOUS
  <2>4. \A i \in Int : i \in StringAt + string_length + 1 .. StringAt + string_length + 1 <=> i = e
    BY <2>3
  <2>5. Len(nodes[top].mem) \in Nat
    BY DEF Node
  <2>6. \A i \in 1 .. Len(nodes[top].mem) : Written("nul", 1)[top].mem[i] =
          IF i = e THEN "nul" ELSE nodes[top].mem[i]
    BY <2>4, <2>5, WrittenKeeps
  <2>7. /\ \A w \in 1 .. k : w # top => Written("nul", 1)[w] = nodes[w]
        /\ Written("nul", 1)[top].integer = nodes[top].integer
        /\ Written("nul", 1)[top].names = nodes[top].names
    BY <2>2, WrittenKeeps
  <2>8. /\ Written("nul", 1) \in [1 .. k -> Node]
        /\ Written("nul", 1)[top].reserved = nodes[top].reserved
        /\ Written("nul", 1)[top].length = nodes[top].length
    BY <2>2, WrittenFields
  <2>9. PICK ns : ns = Written("nul", 1)
    OBVIOUS
  <2>10. QED
    BY <1>1, <2>1, <2>3, <2>6, <2>7, <2>8, <2>9
<1>2. CASE pass # 2
  BY <1>2 DEF Terminated
<1>3. QED
  BY <1>1, <1>2

LEMMA ClosedTopKeeps ==
  ASSUME NEW k \in Nat, nodes \in [1 .. k -> Node], top \in 1 .. k, string_length \in Nat, StringAt \in Nat
  PROVE  /\ \A w \in 1 .. k : w # top \/ nodes[w].type # "string" => ClosedTop[w] = nodes[w]
         /\ ClosedTop[top].integer = nodes[top].integer /\ ClosedTop[top].names = nodes[top].names
         /\ pass = 2 /\ nodes[top].type = "string" =>
              \A i \in 1 .. Len(nodes[top].mem) : ClosedTop[top].mem[i] =
                IF i = StringAt + string_length + 1 THEN "nul" ELSE nodes[top].mem[i]
<1>1. CASE Top.type # "string"
  BY <1>1 DEF ClosedTop, Top
<1>2. CASE Top.type = "string"
  <2>1. PICK ns : ns = Terminated
    OBVIOUS
  <2>2. /\ \A w \in 1 .. k : w # top => ns[w] = nodes[w]
        /\ ns \in [1 .. k -> Node]
        /\ ns[top].integer = nodes[top].integer /\ ns[top].names = nodes[top].names
        /\ pass = 2 => \A i \in 1 .. Len(nodes[top].mem) : ns[top].mem[i] =
              IF i = StringAt + string_length + 1 THEN "nul" ELSE nodes[top].mem[i]
    BY <2>1, TerminatedKeeps
  <2>3. ClosedTop = [ns EXCEPT ![top].length = string_length]
    BY <1>2, <2>1 DEF ClosedTop
  <2>4. PICK r : r = [ns[top] EXCEPT !.length = string_length]
    OBVIOUS
  <2>5. r.integer = ns[top].integer /\ r.names = ns[top].names /\ r.mem = ns[top].mem
    BY <2>2, <2>4 DEF Node
  <2>6. ClosedTop[top] = r /\ \A w \in 1 .. k : w # top => ClosedTop[w] = ns[w]
    BY <2>2, <2>3, <2>4
  <2>7. \A w \in 1 .. k : w # top \/ nodes[w].type # "string" => ClosedTop[w] = nodes[w]
    BY <1>2, <2>2, <2>6 DEF Top
  <2>8. QED
    BY <2>2, <2>5, <2>6, <2>7
<1>3. QED
  BY <1>1, <1>2

LEMMA NamedKeeps ==
  ASSUME NEW n \in Node, string_length \in Nat
  PROVE  /\ Named(n).integer = n.integer
         /\ Named(n).names = IF pass = 1 THEN n.names ELSE Append(n.names, n.reserved)
<1>1. CASE pass = 1
  <2>1. PICK x : x = n.chars + string_length + 1
    OBVIOUS
  <2>2. Named(n) = [n EXCEPT !.chars = x]
    BY <1>1, <2>1 DEF Named
  <2>3. QED
    BY <1>1, <2>2 DEF Node
<1>2. CASE pass # 1
  <2>1. PICK x, y : x = n.reserved + string_length + 1 /\ y = Append(n.names, n.reserved)
    OBVIOUS
  <2>2. Named(n) = [n EXCEPT !.names = y, !.reserved = x]
    BY <1>2, <2>1 DEF Named
  <2>3. QED
    BY <1>2, <2>1, <2>2 DEF Node
<1>3. QED
  BY <1>1, <1>2

LEMMA OpenedKeeps ==
  ASSUME NEW n \in Node
  PROVE  Opened(n).integer = n.integer /\ Opened(n).names = n.names
<1>1. PICK x, y : x = Uninitialized(n.length + 1) /\ y = Uninitialized(n.chars)
  OBVIOUS
<1>2. CASE n.type = "string"
  <2>1. Opened(n) = [n EXCEPT !.mem = x, !.length = 0]
    BY <1>1, <1>2 DEF Opened
  <2>2. QED
    BY <2>1 DEF Node
<1>3. CASE n.type = "array"
  <2>1. Opened(n) = [n EXCEPT !.room = n.length, !.length = 0]
    BY <1>3 DEF Opened
  <2>2. QED
    BY <2>1 DEF Node
<1>4. CASE n.type # "string" /\ n.type # "array"
  <2>1. Opened(n) = [n EXCEPT !.room = n.length, !.mem = y, !.reserved = 0, !.length = 0]
    BY <1>1, <1>4 DEF Opened
  <2>2. QED
    BY <2>1 DEF Node
<1>5. QED
  BY <1>2, <1>3, <1>4

LEMMA NewFirstKeeps ==
  ASSUME NEW k \in Nat, nodes \in [1 .. k -> Node], alloc = k, pass = 1, top \in Nat, NEW type \in Kind
  PROVE  /\ \A w \in 1 .. k : /\ WithNew(type)[w].integer = nodes[w].integer
                              /\ WithNew(type)[w].names = nodes[w].names
         /\ WithNew(type)[k + 1].names = <<>>
<1>1. NewNode(type) \in Node
  BY NewNodeFields
<1>2. Len(nodes) = k /\ New = k + 1
  BY <1>1, AppendedNode DEF New
<1> DEFINE f == IF alloc = 0 THEN nodes ELSE [nodes EXCEPT ![alloc].reserved = k + 1]
<1>3. /\ f \in [1 .. k -> Node]
      /\ \A w \in 1 .. k : f[w].integer = nodes[w].integer /\ f[w].names = nodes[w].names
  <2>1. CASE k = 0
    BY <2>1
  <2>2. CASE k # 0
    <3>1. nodes[k] \in Node /\ k + 1 \in Nat /\ k \in 1 .. k
      BY <2>2
    <3>2. PICK r : r = [nodes[k] EXCEPT !.reserved = k + 1]
      OBVIOUS
    <3>3. r \in Node /\ r.integer = nodes[k].integer /\ r.names = nodes[k].names
      BY <3>1, <3>2 DEF Node
    <3>4. f = [nodes EXCEPT ![k] = r]
      BY <2>2, <3>2
    <3> HIDE DEF f
    <3>5. f[k] = r /\ f \in [1 .. k -> Node] /\ \A w \in 1 .. k : w # k => f[w] = nodes[w]
      BY <3>1, <3>3, <3>4
    <3>6. QED
      BY <3>3, <3>5
  <2>3. QED
    BY <2>1, <2>2
<1>4. WithNew(type) = Append(f, NewNode(type))
  BY <1>2 DEF WithNew
<1> HIDE DEF f
<1>5. /\ \A w \in 1 .. k : Append(f, NewNode(type))[w] = f[w]
      /\ Append(f, NewNode(type))[k + 1] = NewNode(type)
  BY <1>1, <1>3, AppendedNode
<1>6. NewNode(type).names = <<>>
  BY DEF NewNode
<1>7. QED
  BY <1>3, <1>4, <1>5, <1>6

LEMMA NewSecondKeeps ==
  ASSUME NEW k \in Nat, nodes \in [1 .. k -> Node], alloc \in 1 .. k, pass = 2, NEW type
  PROVE  /\ New = alloc /\ \A w \in 1 .. k : w # alloc => WithNew(type)[w] = nodes[w]
         /\ WithNew(type)[alloc].integer = nodes[alloc].integer
         /\ WithNew(type)[alloc].names = nodes[alloc].names
<1>1. New = alloc
  BY DEF New
<1>2. PICK n : n = nodes[alloc]
  OBVIOUS
<1>3. PICK o : o = IF Needs(n) THEN Opened(n) ELSE n
  OBVIOUS
<1>4. n \in Node
  BY <1>2
<1>5. o.integer = n.integer /\ o.names = n.names
  BY <1>3, <1>4, OpenedKeeps
<1>6. WithNew(type) = [nodes EXCEPT ![alloc] = o]
  BY <1>2, <1>3 DEF WithNew
<1>7. QED
  BY <1>1, <1>2, <1>5, <1>6

-----------------------------------------------------------------------------
(* In the first pass a number that was read stays what it is, and no value *)
(* has names.                                                              *)

Nameless(ns) == \A v \in DOMAIN ns : ns[v].names = <<>>
KeepsNumbers(ns, k) == \A v \in 1 .. k : ns[v].type = nodes[v].type /\ ns[v].integer = nodes[v].integer

LEMMA CompletedNumbers ==
  ASSUME NEW k \in Nat, NEW m \in Nat, m <= k, NEW STATE ns, ns \in [1 .. k -> Node], NEW v \in 1 .. k, ns[v].parent \in 0 .. k,
         KeepsNumbers(ns, m), Nameless(ns)
  PROVE  KeepsNumbers(Completed(ns, v), m) /\ Nameless(Completed(ns, v))
<1>1. PICK e : e = <<>>
  OBVIOUS
<1>2. PICK co : co = Completed(ns, v)
  OBVIOUS
<1>3. co \in [1 .. k -> Node] /\ \A w \in 1 .. k : co[w].type = ns[w].type
  BY <1>2, CompletedFields
<1>4. \A w \in 1 .. k : co[w].integer = ns[w].integer /\ co[w].names = ns[w].names
  BY <1>2, CompletedKeeps
<1>5. \A w \in 1 .. k : ns[w].names = e
  BY <1>1 DEF Nameless
<1>6. Nameless(co)
  BY <1>1, <1>3, <1>4, <1>5 DEF Nameless
<1>7. KeepsNumbers(co, m)
  BY <1>3, <1>4 DEF KeepsNumbers
<1>8. QED
  BY <1>2, <1>6, <1>7

LEMMA NewNumbers ==
  ASSUME NEW k \in Nat, nodes \in [1 .. k -> Node], alloc = k, pass = 1, top \in 0 .. k, NEW type \in Kind, Nameless(nodes)
  PROVE  /\ New = k + 1 /\ KeepsNumbers(WithNew(type), k) /\ Nameless(WithNew(type))
         /\ WithNew(type) \in [1 .. k + 1 -> Node] /\ WithNew(type)[k + 1].parent \in 0 .. k + 1
<1>1. PICK e : e = <<>>
  OBVIOUS
<1>2. PICK wn : wn = WithNew(type)
  OBVIOUS
<1>3. /\ New = k + 1 /\ wn \in [1 .. k + 1 -> Node] /\ wn[k + 1] = NewNode(type)
      /\ \A w \in 1 .. k : wn[w].type = nodes[w].type
  BY <1>2, NewFirstFields
<1>4. /\ \A w \in 1 .. k : wn[w].integer = nodes[w].integer /\ wn[w].names = nodes[w].names
      /\ wn[k + 1].names = e
  BY <1>1, <1>2, NewFirstKeeps
<1>5. \A w \in 1 .. k : nodes[w].names = e
  BY <1>1 DEF Nameless
<1>6. \A w \in 1 .. k + 1 : wn[w].names = e
  BY <1>4, <1>5
<1>7. Nameless(wn)
  BY <1>1, <1>3, <1>6 DEF Nameless
<1>8. wn[k + 1].parent = top
  BY <1>3, NewNodeFields
<1>9. KeepsNumbers(wn, k)
  BY <1>3, <1>4 DEF KeepsNumbers
<1>10. QED
  BY <1>2, <1>3, <1>7, <1>8, <1>9

LEMMA FirstKeeps ==
  ASSUME NEW c, First(c), Nameless(nodes), Step
  PROVE  KeepsNumbers(nodes', c.n) /\ Nameless(nodes')
<1>1. Here(c) /\ Regular(c) /\ pc = "parse" /\ pass = 1 /\ Chain(c.n) /\ top = c.top /\ Typed(c) /\ string_length \in Nat
  BY DEF First, Here, Regular
<1>2. c.n \in Nat /\ nodes \in [1 .. c.n -> Node] /\ alloc = c.n /\ top \in 0 .. c.n
  BY <1>1 DEF Chain, Typed
<1>3. \/ Chosen(c) \/ PassEnds
      \/ \E b \in Token : OutOfMemory(b) \/ NumberBegins(b) \/ NumberSkipped(b)
  BY <1>1, RoundChoice
<1>4. ASSUME nodes' = nodes PROVE KeepsNumbers(nodes', c.n) /\ Nameless(nodes')
  BY <1>4 DEF KeepsNumbers
<1>5. top # 0 => nodes[top] \in Node /\ nodes[top].parent \in 0 .. c.n
  <2>1. top # 0 => top \in 1 .. c.n /\ nodes[top].parent = c.parent[top] /\ nodes[top] \in Node
    BY <1>1, <1>2 DEF First, SameAs
  <2>2. \A v \in 1 .. c.n : c.parent[v] \in Nat /\ c.parent[v] < v
    BY <1>1 DEF Regular, Family, Typed
  <2>3. QED
    BY <1>2, <2>1, <2>2
<1>6. PICK e : e = <<>>
  OBVIOUS
<1>7. \A w \in 1 .. c.n : nodes[w].names = e
  BY <1>2, <1>6 DEF Nameless
<1>8. CASE Refused(c) \/ Went(c) \/ Uncommented(c) \/ NameBegan(c)
  BY <1>4, <1>8 DEF Refused, Went, Uncommented, NameBegan, Refuse, Continue, values
<1>9. CASE Wrote(c)
  BY <1>1, <1>4, <1>9 DEF Wrote, StringAdd
<1>10. CASE NameEnded(c)
  <2>1. nodes' = [nodes EXCEPT ![top] = Named(@)] /\ TopKind(c) = "object"
    BY <1>1, <1>10 DEF NameEnded, Terminated
  <2>2. top \in 1 .. c.n /\ nodes[top] \in Node
    BY <1>1, <1>2, <2>1 DEF TopKind
  <2>3. PICK n : n = Named(nodes[top])
    OBVIOUS
  <2>4. n.type = nodes[top].type /\ n.integer = nodes[top].integer /\ n.names = nodes[top].names
    BY <1>1, <2>2, <2>3, NamedFields, NamedKeeps
  <2>5. nodes' = [nodes EXCEPT ![top] = n]
    BY <2>1, <2>3
  <2>6. /\ DOMAIN nodes' = 1 .. c.n /\ nodes'[top] = n /\ \A w \in 1 .. c.n : w # top => nodes'[w] = nodes[w]
    BY <1>2, <2>2, <2>5
  <2>7. \A w \in 1 .. c.n : nodes'[w].names = e
    BY <1>7, <2>2, <2>4, <2>6
  <2>8. Nameless(nodes')
    BY <1>6, <2>6, <2>7 DEF Nameless
  <2>9. KeepsNumbers(nodes', c.n)
    BY <2>4, <2>6 DEF KeepsNumbers
  <2>10. QED
    BY <2>8, <2>9
<1>11. CASE ValueClosed(c)
  <2>1. PICK f : NextFlag(ClosedTop, top, f)
    BY <1>11 DEF ValueClosed
  <2>2. nodes' = Completed(ClosedTop, top)
    BY <2>1 DEF NextFlag
  <2>3. c.top # 0
    BY <1>11 DEF ValueClosed, TopKind, Container
  <2>4. top \in 1 .. c.n
    BY <1>1, <1>2, <2>3
  <2>5. StringAt \in Nat
    BY <1>1, <1>2, <1>5, <2>4 DEF StringAt, Top, Node
  <2>6. /\ ClosedTop \in [1 .. c.n -> Node] /\ ClosedTop[top].parent = nodes[top].parent
        /\ \A w \in 1 .. c.n : ClosedTop[w].type = nodes[w].type
    BY <1>1, <1>2, <2>4, ClosedTopFields
  <2>7. /\ \A w \in 1 .. c.n : w # top => ClosedTop[w] = nodes[w]
        /\ ClosedTop[top].integer = nodes[top].integer /\ ClosedTop[top].names = nodes[top].names
    BY <1>1, <1>2, <2>4, <2>5, ClosedTopKeeps
  <2>8. KeepsNumbers(ClosedTop, c.n)
    BY <2>6, <2>7 DEF KeepsNumbers
  <2>9. PICK ct : ct = ClosedTop
    OBVIOUS
  <2>10. \A w \in 1 .. c.n : ct[w].names = e
    BY <1>7, <2>4, <2>7, <2>9
  <2>11. Nameless(ClosedTop)
    BY <1>6, <2>6, <2>9, <2>10 DEF Nameless
  <2>12. ClosedTop[top].parent \in 0 .. c.n /\ c.n <= c.n
    BY <1>2, <1>5, <2>4, <2>6
  <2>13. QED
    BY <1>2, <2>2, <2>4, <2>6, <2>8, <2>11, <2>12, CompletedNumbers
<1>12. CASE ValueOpened(c)
  <2>1. PICK b \in {"[", "lbrace", "quote"} : nodes' = WithNew(OpenedKind(b))
    BY <1>12 DEF ValueOpened, Opens
  <2>2. OpenedKind(b) \in Kind
    BY DEF OpenedKind, Kind, Container
  <2>3. QED
    BY <1>1, <1>2, <2>1, <2>2, NewNumbers
<1>13. CASE LiteralRead(c)
  <2>1. nodes' = Completed(WithNew("literal"), New)
    BY <1>13 DEF LiteralRead, Literal, NextFlag
  <2>2. "literal" \in Kind
    BY DEF Kind
  <2>3. /\ New = c.n + 1 /\ KeepsNumbers(WithNew("literal"), c.n) /\ Nameless(WithNew("literal"))
        /\ WithNew("literal") \in [1 .. c.n + 1 -> Node] /\ WithNew("literal")[c.n + 1].parent \in 0 .. c.n + 1
    BY <1>1, <1>2, <2>2, NewNumbers
  <2>4. c.n <= c.n + 1 /\ c.n + 1 \in 1 .. c.n + 1 /\ c.n + 1 \in Nat
    BY <1>2
  <2>5. QED
    BY <1>2, <2>1, <2>3, <2>4, CompletedNumbers
<1>14. CASE Chosen(c)
  BY <1>8, <1>9, <1>10, <1>11, <1>12, <1>13, <1>14 DEF Chosen
<1>15. CASE PassEnds
  BY <1>4, <1>15 DEF PassEnds
<1>16. ASSUME NEW b \in Token, OutOfMemory(b) PROVE nodes' = nodes
  BY <1>16 DEF OutOfMemory, NewValueFails
<1>17. ASSUME NEW b \in Token, NumberBegins(b) PROVE KeepsNumbers(nodes', c.n) /\ Nameless(nodes')
  <2>1. nodes' = WithNew("integer")
    BY <1>17 DEF NumberBegins
  <2>2. "integer" \in Kind
    BY DEF Kind
  <2>3. QED
    BY <1>1, <1>2, <2>1, <2>2, NewNumbers
<1>18. ASSUME NEW b \in Token PROVE ~NumberSkipped(b)
  BY <1>1 DEF NumberSkipped
<1>19. QED
  BY <1>3, <1>4, <1>14, <1>15, <1>16, <1>17, <1>18

LEMMA NumberKeeps ==
  ASSUME NEW c, InNumberAt(c), NumberPartly(c), Nameless(nodes), Step
  PROVE  KeepsNumbers(nodes', c.n) /\ Nameless(nodes')
<1>1. /\ Top \in Node /\ Top.type \in Numeric /\ c.n \in Nat /\ top = c.n + 1 /\ Top.parent = c.top
      /\ nodes \in [1 .. c.n + 1 -> Node] /\ pc = "parse" /\ c.top \in 0 .. c.n
      /\ ~Has("seek_value") /\ ~Has("done") /\ ~Has("string") /\ ~InComment /\ top # 0
  BY NumberHere DEF InNumberAt, Extended, BeginsNumber, Regular, Typed
<1>2. PICK e : e = <<>>
  OBVIOUS
<1>3. ASSUME NEW n, n \in Node, n.names = Top.names, NEW ns, ns = [nodes EXCEPT ![top] = n]
      PROVE  KeepsNumbers(ns, c.n) /\ Nameless(ns) /\ ns \in [1 .. c.n + 1 -> Node] /\ ns[top] = n
  <2>1. /\ ns \in [1 .. c.n + 1 -> Node] /\ ns[top] = n /\ \A w \in 1 .. c.n : ns[w] = nodes[w]
    BY <1>1, <1>3
  <2>2. \A w \in 1 .. c.n + 1 : nodes[w].names = e
    BY <1>1, <1>2 DEF Nameless
  <2>3. \A w \in 1 .. c.n + 1 : ns[w].names = e
    BY <1>1, <1>3, <2>1, <2>2 DEF Top
  <2>4. Nameless(ns)
    BY <1>2, <2>1, <2>3 DEF Nameless
  <2>5. QED
    BY <2>1, <2>4 DEF KeepsNumbers
<1>4. ASSUME NEW f, NEW n, NEW digits, NumberGoesOn(f, n, digits), n \in Node, n.names = Top.names
      PROVE  KeepsNumbers(nodes', c.n) /\ Nameless(nodes')
  BY <1>3, <1>4 DEF NumberGoesOn
<1>5. \A x \in Int : [Top EXCEPT !.integer = x] \in Node /\ [Top EXCEPT !.integer = x].names = Top.names
  BY <1>1 DEF Node
<1>6. [Top EXCEPT !.type = "double"] \in Node /\ [Top EXCEPT !.type = "double"].names = Top.names
  BY <1>1 DEF Node, Kind
<1>7. ASSUME nodes' = nodes PROVE KeepsNumbers(nodes', c.n) /\ Nameless(nodes')
  BY <1>7 DEF KeepsNumbers
<1>8. CASE Refuse
  BY <1>7, <1>8 DEF Refuse
<1>9. ASSUME NEW b \in Token, DigitRound(b), ~Refuse
      PROVE  KeepsNumbers(nodes', c.n) /\ Nameless(nodes')
  <2>1. PICK x : x = Top.integer * 10 + Value(b)
    OBVIOUS
  <2>2. x \in Int
    BY <1>1, <2>1 DEF Node, Value
  <2>3. \/ \E f, digits : NumberGoesOn(f, Top, digits)
        \/ BecomesDouble
        \/ \E f, digits : NumberGoesOn(f, [Top EXCEPT !.integer = x], digits)
    BY <1>9, <2>1 DEF DigitRound
  <2>4. CASE BecomesDouble
    <3>1. nodes' = [nodes EXCEPT ![top] = [Top EXCEPT !.type = "double"]]
      BY <2>4 DEF BecomesDouble, Top
    <3>2. QED
      BY <1>3, <1>6, <3>1
  <2>5. QED
    BY <1>1, <1>4, <1>5, <2>2, <2>3, <2>4
<1>10. ASSUME NEW b \in Token, NumberPart(b), ~Refuse
       PROVE  KeepsNumbers(nodes', c.n) /\ Nameless(nodes')
  <2>1. PICK n : n = [Top EXCEPT !.type = "double"]
    OBVIOUS
  <2>2. \E f, digits : NumberGoesOn(f, Top, digits) \/ NumberGoesOn(f, n, digits)
    BY <1>10, <2>1 DEF NumberPart
  <2>3. QED
    BY <1>1, <1>4, <1>6, <2>1, <2>2
<1>11. ASSUME NEW b \in Token, NumberEnds(b), ~Refuse
       PROVE  KeepsNumbers(nodes', c.n) /\ Nameless(nodes')
  <2> DEFINE n == IF Has("num_negative") THEN [Top EXCEPT !.integer = -Top.integer] ELSE Top
             ns == [nodes EXCEPT ![top] = n]
  <2>1. NextFlag(ns, top, flags)
    BY <1>11 DEF NumberEnds
  <2>2. -Top.integer \in Int
    BY <1>1 DEF Node
  <2>3. n \in Node /\ n.names = Top.names
    BY <1>1, <1>5, <2>2
  <2>4. n.parent = c.top
    BY <1>1 DEF Node
  <2> HIDE DEF n
  <2>5. KeepsNumbers(ns, c.n) /\ Nameless(ns) /\ ns \in [1 .. c.n + 1 -> Node] /\ ns[top] = n
    BY <1>3, <2>3
  <2> HIDE DEF ns
  <2>6. nodes' = Completed(ns, top)
    BY <2>1 DEF NextFlag
  <2>7. c.n + 1 \in Nat /\ c.n <= c.n + 1 /\ top \in 1 .. c.n + 1 /\ ns[top].parent \in 0 .. c.n + 1
    BY <1>1, <2>4, <2>5
  <2>8. QED
    BY <1>1, <2>5, <2>6, <2>7, CompletedNumbers
<1>12. ~Is("object") /\ ~Is("array") /\ ~Is("string")
  BY <1>1 DEF Is, Numeric
<1>13. ASSUME NEW b \in Token,
             \/ StringRound(b) \/ LineComment(b) \/ BlockComment(b) \/ CommentBegins(b)
             \/ Trailing(b) \/ BetweenValues(b) \/ NoValue(b) \/ OutOfMemory(b)
             \/ NumberBegins(b) \/ NumberSkipped(b) \/ Entry(b)
             \/ DigitRound(b) \/ NumberPart(b) \/ NumberEnds(b)
      PROVE  Refuse \/ DigitRound(b) \/ NumberPart(b) \/ NumberEnds(b)
  BY <1>1, <1>12, <1>13 DEF StringRound, LineComment, BlockComment, CommentBegins, Trailing, BetweenValues,
       NoValue, OutOfMemory, NumberBegins, NumberSkipped, Entry, InObject, Seeks, InComment
<1>14. ~(StringEnds \/ NameEnds \/ PassEnds \/ ArrayEnds \/ Literal \/ ObjectEnds)
  BY <1>1, <1>12 DEF StringEnds, NameEnds, PassEnds, ArrayEnds, Literal, ObjectEnds, Seeks, InObject
<1>15. ~(Opens("lbrace", "object") \/ Opens("[", "array") \/ Opens("quote", "string"))
  BY <1>1 DEF Opens, Seeks
<1>16. ~Discard /\ ~Release /\ ~Free
  BY <1>1 DEF Discard, Release, Free
<1>17. \/ Refuse \/ \E b \in Token : DigitRound(b) \/ NumberPart(b) \/ NumberEnds(b)
  BY <1>13, <1>14, <1>15, <1>16 DEF Step
<1>18. QED
  BY <1>8, <1>9, <1>10, <1>11, <1>17

-----------------------------------------------------------------------------
(* What a step leaves of the text it was taken on.                         *)

\* No text that goes on as s means anything.
Refuted(s) == \A t : Whole(t) /\ Extends(s, t) => ~Meaning(t).ok

\* The end is not before p.
Unended(p, s) == \A k \in 1 .. Len(s) : k < p => s[k] # "end"

LEMMA LeadsFar ==
  ASSUME NEW c, NEW d, NEW s \in Seq(Token), NEW t \in Seq(Token), Extends(s, t), Regular(c), Leads(c, d, s)
  PROVE  Leads(c, d, t)
<1>1. c.ptr \in 1 .. Len(s) /\ Len(s) \in Nat /\ Len(t) \in Nat /\ Len(s) <= Len(t)
  BY LenProperties DEF Regular, Typed, Leads, Extends
<1>2. t[c.ptr] = s[c.ptr] /\ c.ptr <= Len(t)
  BY <1>1 DEF Extends
<1>3. IsNumber(s, c.ptr, d.ptr) => IsNumber(t, c.ptr, d.ptr)
  <2>1. SUFFICES ASSUME IsNumber(s, c.ptr, d.ptr) PROVE IsNumber(t, c.ptr, d.ptr)
    OBVIOUS
  <2>2. d.ptr \in 1 .. Len(s) /\ d.ptr >= c.ptr
    BY <1>1, <2>1 DEF IsNumber
  <2>3. \A k \in c.ptr .. d.ptr : t[k] = s[k]
    BY <1>1, <2>2 DEF Extends
  <2>4. d.ptr \in c.ptr .. Len(t)
    BY <1>1, <2>2
  <2>5. QED
    BY <1>1, <2>1, <2>2, <2>3, <2>4 DEF IsNumber
<1>4. QED
  BY <1>2, <1>3 DEF Leads, Seeking

\* A step passes no end.
LEMMA LeadsUnended ==
  ASSUME NEW c, NEW d, NEW s \in Seq(Token), Regular(c), Leads(c, d, s), Unended(c.ptr, s)
  PROVE  Unended(d.ptr, s)
<1>1. c.ptr \in 1 .. Len(s) /\ Len(s) \in Nat /\ c.ptr \in Nat
  BY LenProperties DEF Regular, Typed, Leads
<1>2. PICK b : b = s[c.ptr]
  OBVIOUS
<1>3. \/ d.ptr = c.ptr
      \/ d.ptr = c.ptr + 1 /\ b # "end"
      \/ IsNumber(s, c.ptr, d.ptr)
  <2>1. CASE In(c, "string")
    BY <1>2, <2>1 DEF Leads, InString, Writes, GoesOn, Closes, Names
  <2>2. CASE ~In(c, "string") /\ Commented(c)
    BY <1>2, <2>2 DEF Leads, Commented, InLine, InBlock, GoesOn, Uncomments
  <2>3. CASE ~In(c, "string") /\ ~Commented(c) /\ b \in {"//", "/*"}
    BY <1>2, <2>3 DEF Leads, Commented, IntoComment, GoesOn
  <2>4. CASE ~In(c, "string") /\ ~Commented(c) /\ b \notin {"//", "/*"} /\ In(c, "done")
    BY <1>2, <2>4 DEF Leads, Commented, GoesOn, Blank
  <2>5. CASE ~In(c, "string") /\ ~Commented(c) /\ b \notin {"//", "/*"} /\ ~In(c, "done") /\ In(c, "seek_value")
    <3>1. Seeking(c, d, s, b)
      BY <1>2, <2>5 DEF Leads, Commented
    <3>2. QED
      BY <3>1 DEF Seeking, GoesOn, Closes, OpensValue, Blank
  <2>6. CASE ~In(c, "string") /\ ~Commented(c) /\ b \notin {"//", "/*"} /\ ~In(c, "done") /\ ~In(c, "seek_value")
    <3>1. BetweenEntries(c, d, b)
      BY <1>2, <2>6 DEF Leads, Commented
    <3>2. QED
      BY <3>1 DEF BetweenEntries, GoesOn, BeginsName, Closes, Blank
  <2>7. QED
    BY <2>1, <2>2, <2>3, <2>4, <2>5, <2>6
<1>4. "end" \notin NumberToken
  BY DEF NumberToken, Digit
<1>5. CASE IsNumber(s, c.ptr, d.ptr)
  <2>1. \A k \in c.ptr .. d.ptr - 1 : s[k] # "end"
    BY <1>4, <1>5 DEF IsNumber
  <2>2. d.ptr \in Nat
    BY <1>1, <1>5 DEF IsNumber
  <2>3. ASSUME NEW k \in 1 .. Len(s), k < d.ptr PROVE s[k] # "end"
    <3>1. CASE k < c.ptr
      BY <3>1 DEF Unended
    <3>2. CASE ~(k < c.ptr)
      BY <1>1, <2>1, <2>2, <2>3, <3>2
    <3>3. QED
      BY <3>1, <3>2
  <2>4. QED
    BY <2>3 DEF Unended
<1>6. CASE d.ptr = c.ptr \/ (d.ptr = c.ptr + 1 /\ b # "end")
  <2>1. ASSUME NEW k \in 1 .. Len(s), k < d.ptr PROVE s[k] # "end"
    <3>1. CASE k < c.ptr
      BY <3>1 DEF Unended
    <3>2. CASE ~(k < c.ptr)
      BY <1>1, <1>2, <1>6, <2>1, <3>2
    <3>3. QED
      BY <3>1, <3>2
  <2>2. QED
    BY <2>1 DEF Unended
<1>7. QED
  BY <1>3, <1>5, <1>6

\* Where a value was to be a number and is none the text means nothing.
LEMMA NumberMissing ==
  ASSUME NEW c, NEW g, NEW t, Whole(t), BeginsNumber(c), Agrees(c, g, t),
         t[c.ptr] \in Digit \cup {"-"}, Number(t, c.ptr) = None
  PROVE  ~Meaning(t).ok
<1>1. PICK p : p = c.ptr
  OBVIOUS
<1>2. /\ Regular(c) /\ In(c, "seek_value") /\ Starts(c) /\ ~In(c, "done") /\ ~In(c, "string") /\ ~Commented(c)
      /\ p \in 1 .. Len(t) /\ c.n \in Nat
  BY <1>1 DEF BeginsNumber, Agrees, Regular, Typed
<1>3. t[p] \notin Blank \cup {"//", "/*", "]"}
  BY <1>1 DEF Digit, Blank
<1>4. Ahead(c, t) = p /\ At(t, p) = t[p] /\ p \in Places(t)
  BY <1>1, <1>2, <1>3, AheadHere
<1>5. ValueOf(t, p) = Number(t, p)
  BY <1>1, <1>4, GrammarValues
<1>6. ~ValueOf(t, p).ok
  BY <1>1, <1>5, ResultFields
<1>7. CASE c.n = 0
  <2>1. Skip(t, 1) = p
    BY <1>4, <1>7 DEF Agrees
  <2>2. QED
    BY <1>6, <2>1, Meaningless
<1>8. CASE c.n > 0
  <2>1. /\ TopKind(c) \in Container
        /\ ValueOf(t, g.start[c.top]) = Holder(TopKind(c), Joined(g.made[c.top], Place(TopKind(c), t, g.name[c.top], p)))
    BY <1>1, <1>2, <1>3, <1>8, RestBegins
  <2>2. Place(TopKind(c), t, g.name[c.top], p) = None
    <3>1. ItemsOf(t, p) = None
      BY <1>3, <1>4, <1>6, GrammarItems
    <3>2. NamedEntry(t, g.name[c.top], p) = None
      BY <1>4, <1>6, GrammarNames
    <3>3. QED
      BY <3>1, <3>2 DEF Place
  <2>3. ValueOf(t, g.start[c.top]) = None
    BY <2>1, <2>2, JoinedFields, HolderFields
  <2>4. QED
    BY <1>2, <1>8, <2>3, Blocked, ResultFields
<1>9. QED
  BY <1>2, <1>7, <1>8

-----------------------------------------------------------------------------
(* The first pass: what has been read so far is what every text that goes  *)
(* on as it does has there.                                                *)

Known(c) == \A t : Whole(t) /\ Extends(text, t) => \E g : Agrees(c, g, t)

\* What the run h has read of numbers is what the grammar has there.
Numbered(h, n) ==
  \A i \in 0 .. n - 1 : \A type \in Numeric : AddsClosed(h[i], h[i + 1], type) =>
    IsRead(h[i], text, nodes[h[i].n + 1], h[i + 1].ptr)

Followed(h, n) ==
  /\ Run(h, n, text)
  /\ First(h[n]) \/ (InNumberAt(h[n]) /\ NumberPartly(h[n]))
  /\ Neat(h[n]) /\ Known(h[n]) /\ Numbered(h, n)
  /\ Unended(h[n].ptr, text) /\ Len(text) <= ptr /\ Nameless(nodes)

\* A step that is none over a number.
LEMMA ChosenNotNumber ==
  ASSUME NEW c, NEW d, Here(c), Chosen(c), Leads(c, d, text'), NEW type \in Numeric
  PROVE  ~AddsClosed(c, d, type)
<1>1. c.n \in Nat
  BY DEF Here, Regular, Typed
<1>2. SUFFICES ASSUME AddsClosed(c, d, type) PROVE FALSE
  OBVIOUS
<1>3. d.n = c.n + 1 /\ d.type[c.n + 1] = type
  BY <1>1, <1>2 DEF AddsClosed, AddsValue
<1>4. d.n # c.n
  BY <1>1, <1>3
<1>5. ~Refused(c)
  BY DEF Refused
<1>6. ~Went(c) /\ ~Uncommented(c) /\ ~Wrote(c) /\ ~NameBegan(c) /\ ~NameEnded(c) /\ ~ValueClosed(c)
  BY <1>4 DEF Went, GoesOn, Uncommented, Uncomments, Wrote, Writes, NameBegan, BeginsName, NameEnded, Names,
       ValueClosed, Closes, KeepsValues
<1>7. ASSUME ValueOpened(c) PROVE FALSE
  <2>1. PICK b \in {"[", "lbrace", "quote"} : OpensValue(c, d, b)
    BY <1>7 DEF ValueOpened
  <2>2. d.type[c.n + 1] = OpenedKind(b)
    BY <1>1, <2>1 DEF OpensValue, AddsValue
  <2>3. QED
    BY <1>3, <2>2 DEF OpenedKind, Numeric
<1>8. ASSUME LiteralRead(c) PROVE FALSE
  <2>1. AddsClosed(c, d, "literal")
    BY <1>8 DEF LiteralRead
  <2>2. d.type[c.n + 1] = "literal"
    BY <1>1, <2>1 DEF AddsClosed, AddsValue
  <2>3. QED
    BY <1>3, <2>2 DEF Numeric
<1>9. QED
  BY <1>5, <1>6, <1>7, <1>8 DEF Chosen

\* The first pass reads a text token by token.
LEMMA FirstReads ==
  ASSUME pc = "parse", pass = 1, text \in Seq(Token), ptr \in Nat, ptr >= 1, ptr <= Len(text) + 1, Len(text) <= ptr, Step
  PROVE  /\ Len(text') = ptr /\ text' \in Seq(Token) /\ Extends(text, text')
         /\ text' = text \/ \E b \in Token : text' = Append(text, b)
<1>1. PICK b \in Token : Read(b)
  BY RoundReads
<1>2. Len(text) \in Nat
  BY LenProperties
<1>3. CASE text' = text /\ ptr <= Len(text)
  BY <1>2, <1>3, ExtendsSelf
<1>4. CASE text' = Append(text, b) /\ ptr > Len(text)
  <2>1. Len(text') = Len(text) + 1
    BY <1>4, AppendProperties
  <2>2. text' \in Seq(Token) /\ Extends(text, text')
    BY <1>4, ExtendsAppended
  <2>3. QED
    BY <1>2, <1>4, <2>1, <2>2
<1>5. QED
  BY <1>1, <1>3, <1>4 DEF Read

LEMMA PtrGoesOn ==
  ASSUME pc = "parse", pass = 1, ptr \in Nat, Step, pass' = 1
  PROVE  ptr' \in {ptr, ptr + 1}
<1>1. ASSUME NEW b \in Token,
             \/ StringRound(b) \/ LineComment(b) \/ BlockComment(b) \/ CommentBegins(b)
             \/ Trailing(b) \/ BetweenValues(b) \/ NoValue(b) \/ OutOfMemory(b) \/ Entry(b)
      PROVE  ptr' \in {ptr, ptr + 1}
  BY <1>1 DEF StringRound, LineComment, BlockComment, CommentBegins, Trailing, BetweenValues, NoValue, OutOfMemory, Entry,
    StringAdd, Refuse, Fail, Continue, Round, Reproc, NewValueFails
<1>2. ASSUME NEW b \in Token, NumberBegins(b) \/ DigitRound(b) \/ NumberPart(b) \/ NumberEnds(b)
      PROVE  ptr' \in {ptr, ptr + 1}
  <2>1. NumberBegins(b) => ptr' \in {ptr, ptr + 1}
    BY DEF NumberBegins, Round, Reproc
  <2>2. DigitRound(b) => ptr' \in {ptr, ptr + 1}
    BY DEF DigitRound, NumberGoesOn, BecomesDouble, Refuse, Fail, Round, Reproc
  <2>3. NumberPart(b) => ptr' \in {ptr, ptr + 1}
    BY DEF NumberPart, NumberGoesOn, Refuse, Fail, Round, Reproc
  <2>4. NumberEnds(b) => ptr' \in {ptr, ptr + 1}
    BY DEF NumberEnds, Refuse, Fail
  <2>5. QED
    BY <1>2, <2>1, <2>2, <2>3, <2>4
<1>3. ASSUME NEW b \in Token PROVE ~NumberSkipped(b)
  BY DEF NumberSkipped
<1>4. StringEnds \/ NameEnds \/ ArrayEnds \/ Literal \/ ObjectEnds => ptr' \in {ptr, ptr + 1}
  BY DEF StringEnds, NameEnds, ArrayEnds, Literal, ObjectEnds, Round
<1>5. ~PassEnds
  BY DEF PassEnds
<1>6. Opens("lbrace", "object") \/ Opens("[", "array") \/ Opens("quote", "string") => ptr' \in {ptr, ptr + 1}
  BY DEF Opens, Round
<1>7. ~Discard /\ ~Release /\ ~Free
  BY DEF Discard, Release, Free
<1>8. CASE \E b \in Token :
             \/ StringRound(b) \/ LineComment(b) \/ BlockComment(b) \/ CommentBegins(b)
             \/ Trailing(b) \/ BetweenValues(b) \/ NoValue(b) \/ OutOfMemory(b)
             \/ NumberBegins(b) \/ NumberSkipped(b) \/ Entry(b)
             \/ DigitRound(b) \/ NumberPart(b) \/ NumberEnds(b)
  BY <1>1, <1>2, <1>3, <1>8
<1>9. QED
  BY <1>4, <1>5, <1>6, <1>7, <1>8 DEF Step

LEMMA ReadStill ==
  ASSUME NEW c, NEW s \in Seq(Token), NEW u \in Seq(Token), Extends(s, u), NEW n, NEW m,
         m.type = n.type, m.integer = n.integer, NEW q, IsRead(c, s, n, q)
  PROVE  IsRead(c, u, m, q)
<1>1. NumberContent(m) = NumberContent(n)
  BY DEF NumberContent
<1>2. ASSUME NEW t, Whole(t), Extends(u, t) PROVE Number(t, c.ptr) = Result(NumberContent(m), q)
  <2>1. Extends(s, t)
    BY <1>2, ExtendsBoth DEF Whole
  <2>2. QED
    BY <1>1, <1>2, <2>1 DEF IsRead
<1>3. QED
  BY <1>2 DEF IsRead

\* The grammar says of the rest of a longer text what it did.
LEMMA KnownNext ==
  ASSUME NEW c, NEW d, Known(c), Regular(c), Neat(c), text \in Seq(Token), text' \in Seq(Token), Extends(text, text'),
         Leads(c, d, text'),
         \A type \in Numeric : AddsClosed(c, d, type) => \E n : IsRead(c, text', n, d.ptr)
  PROVE  Known(d)'
<1>1. ASSUME NEW t, Whole(t), Extends(text', t) PROVE \E g : Agrees(d, g, t)
  <2>1. t \in Seq(Token)
    BY <1>1 DEF Whole
  <2>2. Extends(text, t)
    BY <1>1, <2>1, ExtendsBoth
  <2>3. PICK g : Agrees(c, g, t)
    BY <1>1, <2>2 DEF Known
  <2>4. Leads(c, d, t)
    BY <1>1, <2>1, LeadsFar
  <2>5. Numbers(c, d, t)
    <3>1. ASSUME NEW type \in Numeric, AddsClosed(c, d, type) PROVE \E x : Number(t, c.ptr) = Result(x, d.ptr)
      <4>1. PICK n : IsRead(c, text', n, d.ptr)
        BY <3>1
      <4>2. Number(t, c.ptr) = Result(NumberContent(n), d.ptr)
        BY <1>1, <4>1 DEF IsRead
      <4>3. QED
        BY <4>2
    <3>2. QED
      BY <3>1 DEF Numbers
  <2>6. Agrees(d, Tracked(c, d, g, t), t)
    BY <1>1, <2>3, <2>4, <2>5, StepAgrees
  <2>7. QED
    BY <2>6
<1>2. QED
  BY <1>1 DEF Known

\* In a longer text, as long as the numbers stay what they are.
LEMMA KnownStill ==
  ASSUME NEW c, Known(c), text \in Seq(Token), text' \in Seq(Token), Extends(text, text')
  PROVE  Known(c)'
<1>1. ASSUME NEW t, Whole(t), Extends(text', t) PROVE \E g : Agrees(c, g, t)
  <2>1. Extends(text, t)
    BY <1>1, ExtendsBoth DEF Whole
  <2>2. QED
    BY <1>1, <2>1 DEF Known
<1>2. QED
  BY <1>1 DEF Known

LEMMA NumberedStill ==
  ASSUME NEW h, NEW n, Numbered(h, n), Run(h, n, text), text \in Seq(Token), text' \in Seq(Token), Extends(text, text'),
         KeepsNumbers(nodes', h[n].n)
  PROVE  Numbered(h, n)'
<1>1. ASSUME NEW i \in 0 .. n - 1, NEW type \in Numeric, AddsClosed(h[i], h[i + 1], type)
      PROVE  IsRead(h[i], text', nodes'[h[i].n + 1], h[i + 1].ptr)
  <2>1. n \in Nat /\ i \in 0 .. n /\ i + 1 \in 0 .. n /\ n \in 0 .. n /\ i + 1 <= n
    BY <1>1 DEF Run
  <2>2. Regular(h[i]) /\ Later(h[i + 1], h[n])
    BY <2>1 DEF Run
  <2>3. PICK v : v = h[i].n + 1
    OBVIOUS
  <2>4. h[i].n \in Nat /\ v <= h[n].n /\ v \in 1 .. h[n].n
    <3>1. h[i].n \in Nat /\ h[i + 1].n = v
      BY <1>1, <2>2, <2>3 DEF Regular, Typed, AddsClosed, AddsValue
    <3>2. v <= h[n].n /\ h[n].n \in Nat
      BY <2>1, <2>2, <3>1 DEF Later, Run, Regular, Typed
    <3>3. QED
      BY <2>3, <3>1, <3>2
  <2>5. nodes'[v].type = nodes[v].type /\ nodes'[v].integer = nodes[v].integer
    BY <2>4 DEF KeepsNumbers
  <2>6. IsRead(h[i], text, nodes[v], h[i + 1].ptr)
    BY <1>1, <2>3 DEF Numbered
  <2>7. IsRead(h[i], text', nodes'[v], h[i + 1].ptr)
    BY <2>5, <2>6, ReadStill
  <2>8. QED
    BY <2>3, <2>7
<1>2. QED
  BY <1>1 DEF Numbered

LEMMA NumberedNext ==
  ASSUME NEW h, NEW n, NEW g, NEW d, Numbered(h, n)', n \in Nat, \A i \in 0 .. n : g[i] = h[i], g[n + 1] = d,
         \A type \in Numeric : AddsClosed(h[n], d, type) => IsRead(h[n], text', nodes'[h[n].n + 1], d.ptr)
  PROVE  Numbered(g, n + 1)'
<1>1. ASSUME NEW i \in 0 .. (n + 1) - 1, NEW type \in Numeric, AddsClosed(g[i], g[i + 1], type)
      PROVE  IsRead(g[i], text', nodes'[g[i].n + 1], g[i + 1].ptr)
  <2>1. CASE i = n
    <3>1. g[i] = h[n] /\ g[i + 1] = d
      BY <2>1
    <3>2. QED
      BY <1>1, <3>1
  <2>2. CASE i # n
    <3>1. i \in 0 .. n - 1 /\ i \in 0 .. n /\ i + 1 \in 0 .. n
      BY <1>1, <2>2
    <3>2. g[i] = h[i] /\ g[i + 1] = h[i + 1]
      BY <3>1
    <3>3. QED
      BY <1>1, <3>1, <3>2 DEF Numbered
  <2>3. QED
    BY <2>1, <2>2
<1>2. QED
  BY <1>1 DEF Numbered

LEMMA FollowedHere ==
  ASSUME NEW h, NEW n, Followed(h, n), NEW c, c = h[n]
  PROVE  /\ n \in Nat /\ Regular(c) /\ Neat(c) /\ c.n \in Nat /\ c.ptr \in Nat
         /\ pc = "parse" /\ pass = 1 /\ text \in Seq(Token)
         /\ ptr \in Nat /\ ptr >= 1 /\ ptr <= Len(text) + 1 /\ Len(text) <= ptr
<1>1. Run(h, n, text) /\ Neat(c) /\ Len(text) <= ptr /\ (First(c) \/ InNumberAt(c))
  BY DEF Followed
<1>2. n \in Nat /\ Regular(c)
  BY <1>1 DEF Run
<1>3. c.n \in Nat /\ c.ptr \in Nat /\ c.ptr >= 1
  BY <1>2 DEF Regular, Typed
<1>4. CASE First(c)
  BY <1>1, <1>2, <1>3, <1>4 DEF First, Here
<1>5. CASE InNumberAt(c)
  BY <1>1, <1>2, <1>3, <1>5, NumberHere DEF InNumberAt
<1>6. QED
  BY <1>1, <1>2, <1>3, <1>4, <1>5

LEMMA FollowedText ==
  ASSUME NEW h, NEW n, Followed(h, n), Step
  PROVE  /\ Len(text') = ptr /\ text' \in Seq(Token) /\ Extends(text, text') /\ Run(h, n, text')
         /\ Unended(h[n].ptr, text') /\ (pass' = 1 => Len(text') <= ptr')
<1>1. PICK c : c = h[n]
  OBVIOUS
<1>2. /\ n \in Nat /\ Regular(c) /\ pc = "parse" /\ pass = 1 /\ text \in Seq(Token) /\ c.ptr \in Nat
      /\ ptr \in Nat /\ ptr >= 1 /\ ptr <= Len(text) + 1 /\ Len(text) <= ptr
  BY <1>1, FollowedHere
<1>3. /\ Len(text') = ptr /\ text' \in Seq(Token) /\ Extends(text, text')
      /\ text' = text \/ \E b \in Token : text' = Append(text, b)
  BY <1>2, FirstReads
<1>4. Run(h, n, text) /\ Unended(c.ptr, text)
  BY <1>1 DEF Followed
<1>5. Run(h, n, text')
  BY <1>2, <1>3, <1>4, RunStill
<1>6. c.ptr <= ptr
  <2>1. First(c) => c.ptr = ptr
    BY DEF First, Here
  <2>2. InNumberAt(c) => c.ptr <= ptr
    BY <1>2 DEF InNumberAt, Drawn
  <2>3. QED
    BY <1>1, <1>2, <2>1, <2>2 DEF Followed
<1>7. ASSUME NEW k \in 1 .. Len(text'), k < c.ptr PROVE text'[k] # "end"
  <2>1. k \in 1 .. Len(text)
    BY <1>2, <1>3, <1>6, <1>7, LenProperties
  <2>2. text'[k] = text[k]
    BY <1>3, <2>1 DEF Extends
  <2>3. QED
    BY <1>4, <1>7, <2>1, <2>2 DEF Unended
<1>8. Unended(c.ptr, text')
  BY <1>7 DEF Unended
<1>9. pass' = 1 => Len(text') <= ptr'
  BY <1>2, <1>3, PtrGoesOn
<1>10. QED
  BY <1>1, <1>3, <1>5, <1>8, <1>9

LEMMA FollowedNext ==
  ASSUME NEW h, NEW n, Followed(h, n), Step, NEW c, c = h[n], NEW d, Leads(c, d, text'), First(d)',
         \A type \in Numeric : AddsClosed(c, d, type) => IsRead(c, text', nodes'[c.n + 1], d.ptr),
         KeepsNumbers(nodes', c.n), Nameless(nodes')
  PROVE  \E g : Followed(g, n + 1)'
<1>1. /\ n \in Nat /\ Regular(c) /\ Neat(c) /\ pc = "parse" /\ pass = 1 /\ text \in Seq(Token)
  BY FollowedHere
<1>2. /\ text' \in Seq(Token) /\ Extends(text, text') /\ Run(h, n, text')
      /\ Unended(c.ptr, text') /\ (pass' = 1 => Len(text') <= ptr')
  BY FollowedText
<1>3. PICK t : t = text'
  OBVIOUS
<1>4. PICK g : Run(g, n + 1, t) /\ Prolongs(g, h, n, d)
  BY <1>2, <1>3, RunGoesOn
<1>5. g[n + 1] = d /\ \A i \in 0 .. n : g[i] = h[i]
  BY <1>4 DEF Prolongs
<1>6. Neat(d)
  BY <1>1, NeatNext
<1>7. Unended(d.ptr, text')
  BY <1>1, <1>2, LeadsUnended
<1>8. Known(d)'
  <2>1. Known(c)
    BY DEF Followed
  <2>2. QED
    BY <1>1, <1>2, <2>1, KnownNext
<1>9. Numbered(g, n + 1)'
  <2>1. Numbered(h, n) /\ Run(h, n, text)
    BY DEF Followed
  <2>2. Numbered(h, n)'
    BY <1>1, <1>2, <2>1, NumberedStill
  <2>3. QED
    BY <1>1, <1>5, <2>2, NumberedNext
<1>10. pass' = 1
  BY DEF First
<1>11. PICK m : m = n + 1
  OBVIOUS
<1>12. Run(g, m, text') /\ First(g[m])' /\ Neat(g[m]) /\ Known(g[m])' /\ Numbered(g, m)' /\ Unended(g[m].ptr, text')
  <2>1. g[m] = d
    BY <1>5, <1>11
  <2>2. QED
    BY <1>3, <1>4, <1>5, <1>6, <1>7, <1>8, <1>9, <1>11, <2>1
<1>13. Followed(g, m)'
  BY <1>2, <1>10, <1>12 DEF Followed
<1>14. QED
  BY <1>11, <1>13

LEMMA FollowedStays ==
  ASSUME NEW h, NEW n, Followed(h, n), Step, NEW c, c = h[n], InNumberAt(c)', NumberPartly(c)',
         KeepsNumbers(nodes', c.n), Nameless(nodes')
  PROVE  Followed(h, n)'
<1>1. /\ n \in Nat /\ text \in Seq(Token) /\ Neat(c)
  BY FollowedHere
<1>2. /\ text' \in Seq(Token) /\ Extends(text, text') /\ Run(h, n, text')
      /\ Unended(c.ptr, text') /\ (pass' = 1 => Len(text') <= ptr')
  BY FollowedText
<1>3. Numbered(h, n) /\ Run(h, n, text) /\ Known(c)
  BY DEF Followed
<1>4. Numbered(h, n)'
  BY <1>1, <1>2, <1>3, NumberedStill
<1>5. Known(c)'
  BY <1>1, <1>2, <1>3, KnownStill
<1>6. pass' = 1
  BY DEF InNumberAt
<1>7. QED
  BY <1>1, <1>2, <1>4, <1>5, <1>6 DEF Followed

LEMMA NoNumberRefutes ==
  ASSUME NEW c, InNumberAt(c), Known(c), text \in Seq(Token), text' \in Seq(Token), Extends(text, text'),
         NoNumber(c, text')
  PROVE  Refuted(text')
<1>1. /\ BeginsNumber(c) /\ c.ptr \in 1 .. Len(text) /\ text[c.ptr] \in Digit \cup {"-"}
  BY DEF InNumberAt, Drawn
<1>2. ASSUME NEW t, Whole(t), Extends(text', t) PROVE ~Meaning(t).ok
  <2>1. Extends(text, t)
    BY <1>2, ExtendsBoth DEF Whole
  <2>2. PICK g : Agrees(c, g, t)
    BY <1>2, <2>1 DEF Known
  <2>3. t[c.ptr] \in Digit \cup {"-"}
    BY <1>1, <2>1 DEF Extends
  <2>4. Number(t, c.ptr) = None
    BY <1>2 DEF NoNumber
  <2>5. QED
    BY <1>1, <1>2, <2>2, <2>3, <2>4, NumberMissing
<1>3. QED
  BY <1>2 DEF Refuted

LEMMA StuckRefutes ==
  ASSUME NEW c, Regular(c), Neat(c), Known(c), text \in Seq(Token), text' \in Seq(Token), Extends(text, text'),
         c.ptr \in 1 .. Len(text'), Stuck(c, text'[c.ptr])
  PROVE  Refuted(text')
<1>1. ASSUME NEW t, Whole(t), Extends(text', t) PROVE ~Meaning(t).ok
  <2>1. Extends(text, t)
    BY <1>1, ExtendsBoth DEF Whole
  <2>2. PICK g : Agrees(c, g, t)
    BY <1>1, <2>1 DEF Known
  <2>3. t[c.ptr] = text'[c.ptr]
    BY <1>1 DEF Extends
  <2>4. QED
    BY <1>1, <2>2, <2>3, StuckMeansNothing
<1>2. QED
  BY <1>1 DEF Refuted

\* What the first pass refuses means nothing.
FirstFails == Dropped' /\ (outcome' = "syntax" => Refuted(text'))

\* It ends at the end of a text whose numbers it has read as the grammar has them.
FirstEnds(h, n) ==
  /\ Run(h, n, text') /\ Final(h[n], text') /\ Second(Start, h[n])' /\ Whole(text') /\ Numbered(h, n)'
  /\ Nameless(nodes')

LEMMA NumberFollows ==
  ASSUME NEW h, NEW n, Followed(h, n), Step, NEW c, c = h[n], InNumberAt(c), NumberPartly(c)
  PROVE  \/ FirstFails
         \/ \E g, m : Followed(g, m)'
         \/ \E k : Doomed(k)' /\ Refuted(text')
<1>1. Known(c) /\ Nameless(nodes)
  BY DEF Followed
<1>2. text \in Seq(Token) /\ text' \in Seq(Token) /\ Extends(text, text')
  BY FollowedHere, FollowedText
<1>3. KeepsNumbers(nodes', c.n) /\ Nameless(nodes')
  BY <1>1, NumberKeeps
<1>4. NoNumber(c, text') => Refuted(text')
  BY <1>1, <1>2, NoNumberRefutes
<1>5. CASE Refuse /\ Dropped' /\ NoNumber(c, text')
  BY <1>4, <1>5 DEF FirstFails
<1>6. CASE InNumberAt(c)' /\ NumberPartly(c)'
  BY <1>3, <1>6, FollowedStays
<1>7. CASE Doomed(c.n + 1)' /\ NoNumber(c, text')
  BY <1>4, <1>7
<1>8. CASE \E d : Leads(c, d, text') /\ First(d)' /\ IsRead(c, text', nodes'[c.n + 1], d.ptr)
  <2>1. PICK d : Leads(c, d, text') /\ First(d)' /\ IsRead(c, text', nodes'[c.n + 1], d.ptr)
    BY <1>8
  <2>2. \E g : Followed(g, n + 1)'
    BY <1>3, <2>1, FollowedNext
  <2>3. QED
    BY <2>2
<1>9. QED
  BY <1>5, <1>6, <1>7, <1>8, NumberOn

LEMMA ChosenFollows ==
  ASSUME NEW h, NEW n, Followed(h, n), Step, NEW c, c = h[n], First(c), Reading(c), Chosen(c)
  PROVE  FirstFails \/ \E g, m : Followed(g, m)'
<1>1. Known(c) /\ Nameless(nodes) /\ Here(c) /\ Chain(c.n) /\ pass = 1 /\ ptr = c.ptr
  BY DEF Followed, First, Here
<1>2. /\ text \in Seq(Token) /\ text' \in Seq(Token) /\ Extends(text, text') /\ Regular(c) /\ Neat(c)
      /\ c.ptr \in 1 .. Len(text')
  BY FollowedHere, FollowedText DEF Reading
<1>3. KeepsNumbers(nodes', c.n) /\ Nameless(nodes')
  BY <1>1, FirstKeeps
<1>4. CASE Refused(c)
  <2>1. Refuted(text')
    BY <1>1, <1>2, <1>4, StuckRefutes DEF Refused
  <2>2. ptr <= Len(text') + 1
    BY <1>1, <1>2, LenProperties
  <2>3. Dropped'
    BY <1>1, <1>4, <2>2, FirstDrops DEF Refused
  <2>4. QED
    BY <2>1, <2>3 DEF FirstFails
<1>5. CASE ~Refused(c)
  <2>1. \E d : Leads(c, d, text') /\ First(d)'
    BY <1>5, FirstWent, FirstUncommented, FirstWrote, FirstNameBegan, FirstNameEnded, FirstClosed, FirstOpened,
       FirstLiteral DEF Chosen
  <2>2. PICK d : Leads(c, d, text') /\ First(d)'
    BY <2>1
  <2>3. \A type \in Numeric : ~AddsClosed(c, d, type)
    BY <1>1, <2>2, ChosenNotNumber
  <2>4. \E g : Followed(g, n + 1)'
    BY <1>3, <2>2, <2>3, FollowedNext
  <2>5. QED
    BY <2>4
<1>6. QED
  BY <1>4, <1>5

LEMMA FollowedEnds ==
  ASSUME NEW h, NEW n, Followed(h, n), Step, NEW c, c = h[n], First(c), PassEnds
  PROVE  FirstEnds(h, n)
<1>1. Numbered(h, n) /\ Nameless(nodes) /\ ptr = c.ptr /\ Run(h, n, text)
  BY DEF Followed, First, Here
<1>2. /\ Len(text') = ptr /\ text \in Seq(Token) /\ text' \in Seq(Token) /\ Extends(text, text') /\ Run(h, n, text')
      /\ Unended(c.ptr, text') /\ c.ptr \in Nat /\ ptr >= 1
  BY FollowedHere, FollowedText
<1>3. nodes' = nodes
  BY DEF PassEnds
<1>4. Numbered(h, n)'
  <2>1. KeepsNumbers(nodes', c.n)
    BY <1>3 DEF KeepsNumbers
  <2>2. QED
    BY <1>1, <1>2, <2>1, NumberedStill
<1>5. Final(c, text') /\ Second(Start, c)'
  BY PassOver
<1>6. Whole(text')
  <2>1. text'[Len(text')] = "end" /\ Len(text') >= 1
    BY <1>1, <1>2, <1>5 DEF Final
  <2>2. \A i \in 1 .. Len(text') - 1 : text'[i] # "end"
    BY <1>1, <1>2 DEF Unended
  <2>3. QED
    BY <1>2, <2>1, <2>2 DEF Whole
<1>7. QED
  BY <1>1, <1>2, <1>3, <1>4, <1>5, <1>6 DEF FirstEnds

\* A round of the first pass.
LEMMA FollowedStep ==
  ASSUME NEW h, NEW n, Followed(h, n), Step
  PROVE  \/ FirstFails
         \/ \E g, m : Followed(g, m)'
         \/ \E k : Doomed(k)' /\ Refuted(text')
         \/ FirstEnds(h, n)
<1>1. PICK c : c = h[n]
  OBVIOUS
<1>2. CASE InNumberAt(c) /\ NumberPartly(c)
  BY <1>1, <1>2, NumberFollows
<1>3. CASE First(c)
  <2>1. Here(c) /\ pc = "parse" /\ pass = 1 /\ Chain(c.n) /\ ptr = c.ptr /\ Nameless(nodes)
    BY <1>1, <1>3 DEF First, Here, Followed
  <2>2. /\ Reading(c)
        /\ \/ Chosen(c) \/ PassEnds
           \/ \E b \in Token : OutOfMemory(b) \/ NumberBegins(b) \/ NumberSkipped(b)
    BY <2>1, RoundChoice
  <2>3. CASE Chosen(c)
    BY <1>1, <1>3, <2>2, <2>3, ChosenFollows
  <2>4. CASE PassEnds
    BY <1>1, <1>3, <2>4, FollowedEnds
  <2>5. ASSUME NEW b \in Token, OutOfMemory(b) PROVE FirstFails
    <3>1. ptr <= Len(text') + 1
      BY <2>1, <2>2 DEF Reading
    <3>2. Dropped'
      BY <2>1, <2>5, <3>1, FirstDrops DEF OutOfMemory
    <3>3. outcome' = "memory"
      BY <2>5 DEF OutOfMemory, NewValueFails, Fail
    <3>4. QED
      BY <3>2, <3>3 DEF FirstFails
  <2>6. ASSUME NEW b \in Token, NumberBegins(b) PROVE \E g, m : Followed(g, m)'
    <3>1. InNumberAt(c)' /\ NumberPartly(c)'
      BY <1>3, <2>6, NumberStarts, NumberStartsOn
    <3>2. KeepsNumbers(nodes', c.n) /\ Nameless(nodes')
      BY <1>3, <2>1, FirstKeeps
    <3>3. QED
      BY <1>1, <3>1, <3>2, FollowedStays
  <2>7. ASSUME NEW b \in Token PROVE ~NumberSkipped(b)
    BY <2>1 DEF NumberSkipped
  <2>8. QED
    BY <2>2, <2>3, <2>4, <2>5, <2>6, <2>7
<1>4. QED
  BY <1>1, <1>2, <1>3 DEF Followed

-----------------------------------------------------------------------------
(* The second pass: what is in memory is what the grammar has.             *)

\* The string s with its terminator lies at that place, before bound.
Stored(mem, at, s, bound) ==
  /\ s \in Seq(Token) /\ at \in Nat /\ at + Len(s) + 1 <= bound
  /\ \A k \in 1 .. Len(s) : mem[at + k] = s[k]
  /\ mem[at + Len(s) + 1] = "nul"

\* A string of k bytes without its terminator.
Begun(mem, at, s, k) == s \in Seq(Token) /\ Len(s) = k /\ \A i \in 1 .. k : mem[at + i] = s[i]

\* The slots and names of the value n make what was made of it.
Lists(n, made, value, bound) ==
  /\ IsSeq(made) /\ Len(made) = Len(n.items)
  /\ \A i \in 1 .. Len(made) : \E s : /\ n.type = "object" => Stored(n.mem, n.names[i], s, bound)
                                      /\ made[i] = Member(n.type, s, value[n.items[i]])

\* Of an object there may be one more name, that of the entry being read.
Titles(n, name, bound, more) ==
  /\ Len(n.names) = Len(n.items) + more
  /\ more = 1 => Stored(n.mem, n.names[Len(n.items) + 1], name, bound)

\* The value n is complete and means x.
Stands(n, made, x) ==
  /\ n.type \in Container => x = [type |-> n.type, items |-> made]
  /\ n.type = "string" => \E s : Stored(n.mem, 0, s, Len(n.mem)) /\ x = [type |-> "string", bytes |-> s]
  /\ n.type = "literal" => x = [type |-> "literal"]
  /\ n.type \in Numeric => x = NumberContent(n)

Given(c, v) == IF v \in Unclosed(c) /\ (v # c.top \/ In(c, "seek_value")) THEN 1 ELSE 0

Held(c, g, n, v) ==
  /\ n.type \in Container => Lists(n, g.made[v], g.value, c.chars[v])
  /\ n.type = "object" => Titles(n, g.name[v], c.chars[v], Given(c, v))
  /\ v \in c.closed => Stands(n, g.made[v], g.value[v])

\* Where the string being read is.
WrittenAt(c) == IF TopKind(c) = "object" THEN c.chars[c.top] ELSE 0

Holds(c, g) ==
  /\ \A v \in 1 .. c.n : Held(c, g, nodes[v], v)
  /\ In(c, "string") => Begun(nodes[c.top].mem, WrittenAt(c), g.bytes, c.sl)
  /\ \A v \in DOMAIN nodes : v > c.n => Len(nodes[v].names) = 0

LEMMA StoredKept ==
  ASSUME NEW mem, NEW ram, NEW at, NEW s, NEW bound \in Nat, NEW limit \in Nat, bound <= limit, Stored(mem, at, s, bound),
         \A k \in 1 .. bound : ram[k] = mem[k]
  PROVE  Stored(ram, at, s, limit)
<1>1. s \in Seq(Token) /\ at \in Nat /\ Len(s) \in Nat /\ at + Len(s) + 1 <= bound
  BY LenProperties DEF Stored
<1>2. \A k \in 1 .. Len(s) : at + k \in 1 .. bound
  BY <1>1
<1>3. at + Len(s) + 1 \in 1 .. bound
  BY <1>1
<1>4. QED
  BY <1>1, <1>2, <1>3 DEF Stored

LEMMA ListsKept ==
  ASSUME NEW n, NEW m, NEW made, NEW value, NEW worth, NEW bound \in Nat, NEW limit \in Nat, bound <= limit,
         Lists(n, made, value, bound), m.type = n.type, m.items = n.items,
         n.type = "object" => /\ \A i \in 1 .. Len(n.items) : m.names[i] = n.names[i]
                              /\ \A k \in 1 .. bound : m.mem[k] = n.mem[k],
         \A i \in 1 .. Len(n.items) : worth[n.items[i]] = value[n.items[i]]
  PROVE  Lists(m, made, worth, limit)
<1>1. IsSeq(made) /\ Len(made) = Len(n.items)
  BY DEF Lists
<1>2. ASSUME NEW i \in 1 .. Len(made)
      PROVE  \E s : /\ m.type = "object" => Stored(m.mem, m.names[i], s, limit)
                    /\ made[i] = Member(m.type, s, worth[m.items[i]])
  <2>1. PICK s : /\ n.type = "object" => Stored(n.mem, n.names[i], s, bound)
                 /\ made[i] = Member(n.type, s, value[n.items[i]])
    BY DEF Lists
  <2>2. made[i] = Member(m.type, s, worth[m.items[i]])
    BY <1>1, <1>2, <2>1
  <2>3. ASSUME m.type = "object" PROVE Stored(m.mem, m.names[i], s, limit)
    <3>1. Stored(n.mem, n.names[i], s, bound) /\ m.names[i] = n.names[i] /\ \A k \in 1 .. bound : m.mem[k] = n.mem[k]
      BY <1>1, <1>2, <2>1, <2>3
    <3>2. PICK mem, ram, at : mem = n.mem /\ ram = m.mem /\ at = n.names[i]
      OBVIOUS
    <3>3. Stored(mem, at, s, bound) /\ \A k \in 1 .. bound : ram[k] = mem[k]
      BY <3>1, <3>2
    <3>4. Stored(ram, at, s, limit)
      BY <3>3, StoredKept
    <3>5. QED
      BY <3>1, <3>2, <3>4
  <2>4. QED
    BY <2>2, <2>3
<1>3. QED
  BY <1>1, <1>2 DEF Lists

\* A value that stays what it is.
LEMMA HeldStill ==
  ASSUME NEW c, NEW d, NEW g, NEW h, NEW v, NEW n, Held(c, g, n, v),
         c.chars[v] \in Nat, d.chars[v] = c.chars[v], h.made[v] = g.made[v], h.name[v] = g.name[v],
         n.type = "object" => Given(d, v) = Given(c, v),
         \A i \in 1 .. Len(n.items) : h.value[n.items[i]] = g.value[n.items[i]],
         v \in d.closed => v \in c.closed /\ h.value[v] = g.value[v]
  PROVE  Held(d, h, n, v)
<1>1. ASSUME n.type \in Container PROVE Lists(n, h.made[v], h.value, d.chars[v])
  <2>1. PICK made, value, worth, bound : made = g.made[v] /\ value = g.value /\ worth = h.value /\ bound = c.chars[v]
    OBVIOUS
  <2>2. Lists(n, made, value, bound) /\ bound \in Nat /\ bound <= bound
    BY <1>1, <2>1 DEF Held
  <2>3. \A i \in 1 .. Len(n.items) : worth[n.items[i]] = value[n.items[i]]
    BY <2>1
  <2>4. Lists(n, made, worth, bound)
    BY <2>2, <2>3, ListsKept
  <2>5. QED
    BY <2>1, <2>4
<1>2. n.type = "object" => Titles(n, h.name[v], d.chars[v], Given(d, v))
  BY DEF Held
<1>3. v \in d.closed => Stands(n, h.made[v], h.value[v])
  BY DEF Held
<1>4. QED
  BY <1>1, <1>2, <1>3 DEF Held

LEMMA SecondFacts ==
  ASSUME NEW c, NEW f, Second(c, f)
  PROVE  /\ f.n \in Nat /\ c.n \in Nat /\ c.n <= f.n /\ nodes \in [1 .. f.n -> Node] /\ Regular(c) /\ pass = 2
         /\ c.closed \subseteq 1 .. c.n /\ string_length \in Nat /\ top = c.top /\ text \in Seq(Token)
         /\ In(c, "string") => string_length = c.sl
         /\ \A v \in 1 .. c.n :
              /\ nodes[v] \in Node /\ nodes[v].type = c.type[v] /\ nodes[v].parent = c.parent[v]
              /\ f.type[v] = c.type[v] /\ f.parent[v] = c.parent[v]
              /\ c.chars[v] \in Nat /\ c.length[v] \in Nat /\ f.length[v] \in Nat /\ f.chars[v] \in Nat
              /\ Pending(c, v) \in Nat /\ PendingChars(c, v) \in Nat
              /\ c.length[v] + Pending(c, v) <= f.length[v] /\ c.chars[v] + PendingChars(c, v) <= f.chars[v]
              /\ \A i \in 1 .. Len(nodes[v].items) : nodes[v].items[i] \in c.closed
              /\ c.type[v] \in Container => Len(nodes[v].items) = c.length[v]
              /\ c.type[v] = "string" => Len(nodes[v].mem) = f.length[v] + 1
              /\ c.type[v] = "object" /\ f.length[v] > 0 =>
                   Len(nodes[v].mem) = f.chars[v] /\ nodes[v].reserved = c.chars[v]
<1>1. /\ Here(c) /\ Regular(c) /\ Finished(f) /\ Later(c, f) /\ Allocated(c, f) /\ Slotted(c, f) /\ pass = 2
      /\ string_length \in Nat /\ top = c.top /\ text \in Seq(Token) /\ (In(c, "string") => string_length = c.sl)
  BY DEF Second, Here
<1>2. Typed(c) /\ Typed(f)
  BY <1>1 DEF Finished, Regular
<1>3. f.n \in Nat /\ c.n \in Nat /\ c.n <= f.n /\ nodes \in [1 .. f.n -> Node] /\ c.closed \subseteq 1 .. c.n
  BY <1>1, <1>2 DEF Typed, Later, Allocated
<1>4. ASSUME NEW v \in 1 .. c.n
      PROVE   /\ nodes[v] \in Node /\ nodes[v].type = c.type[v] /\ nodes[v].parent = c.parent[v]
              /\ f.type[v] = c.type[v] /\ f.parent[v] = c.parent[v]
              /\ c.chars[v] \in Nat /\ c.length[v] \in Nat /\ f.length[v] \in Nat /\ f.chars[v] \in Nat
              /\ Pending(c, v) \in Nat /\ PendingChars(c, v) \in Nat
              /\ c.length[v] + Pending(c, v) <= f.length[v] /\ c.chars[v] + PendingChars(c, v) <= f.chars[v]
              /\ \A i \in 1 .. Len(nodes[v].items) : nodes[v].items[i] \in c.closed
              /\ c.type[v] \in Container => Len(nodes[v].items) = c.length[v]
              /\ c.type[v] = "string" => Len(nodes[v].mem) = f.length[v] + 1
              /\ c.type[v] = "object" /\ f.length[v] > 0 =>
                   Len(nodes[v].mem) = f.chars[v] /\ nodes[v].reserved = c.chars[v]
  <2>1. /\ v \in 1 .. f.n /\ f.type[v] = c.type[v] /\ f.parent[v] = c.parent[v]
        /\ c.length[v] \in Nat /\ f.length[v] \in Nat /\ c.chars[v] \in Nat /\ f.chars[v] \in Nat
        /\ Pending(c, v) \in Nat /\ PendingChars(c, v) \in Nat
        /\ c.length[v] + Pending(c, v) <= f.length[v]
        /\ c.chars[v] + PendingChars(c, v) <= f.chars[v]
    BY <1>1, <1>4, Counted
  <2>2. nodes[v] \in Node /\ nodes[v].type = f.type[v] /\ nodes[v].parent = f.parent[v] /\ Filled(c, f, v)
    BY <1>1, <1>3, <1>4, <2>1 DEF Allocated
  <2>3. Slots(nodes[v].items, v, c, f) /\ v <= c.n
    BY <1>1, <1>3, <1>4, <2>1 DEF Slotted
  <2>4. \A i \in 1 .. Len(nodes[v].items) : nodes[v].items[i] \in c.closed
    BY <2>3 DEF Slots
  <2>5. c.type[v] \in Container => Len(nodes[v].items) = c.length[v]
    BY <2>1, <2>3 DEF Slots
  <2>6. c.type[v] = "string" => Len(nodes[v].mem) = f.length[v] + 1
    BY <2>1, <2>2 DEF Filled
  <2>7. c.type[v] = "object" /\ f.length[v] > 0 => Len(nodes[v].mem) = f.chars[v] /\ nodes[v].reserved = c.chars[v]
    BY <2>1, <2>2 DEF Filled
  <2>8. QED
    BY <2>1, <2>2, <2>4, <2>5, <2>6, <2>7
<1>5. QED
  BY <1>1, <1>3, <1>4

\* Values that are complete keep their meaning.
LEMMA TrackedClosed ==
  ASSUME NEW c, NEW d, NEW g, NEW t, NEW h, h = Tracked(c, d, g, t), c.closed \subseteq 1 .. c.n,
         c.n \in Nat, d.n \in Nat, c.n <= d.n
  PROVE  \A w \in c.closed : h.value[w] = g.value[w]
<1>1. PICK y : y = Yield(c, d, g, t)
  OBVIOUS
<1>2. \A v \in 1 .. d.n : h.value[v] = IF v \in d.closed \ c.closed THEN y ELSE g.value[v]
  BY <1>1, TrackedFields
<1>3. \A w \in c.closed : w \in 1 .. d.n /\ w \notin d.closed \ c.closed
  OBVIOUS
<1>4. QED
  BY <1>2, <1>3

\* A value that the step has nothing to do with.
LEMMA HeldSame ==
  ASSUME NEW c, NEW f, Second(c, f), NEW g, Holds(c, g), NEW d, NEW t, NEW h, h = Tracked(c, d, g, t),
         d.n \in Nat, c.n <= d.n, NEW v \in 1 .. c.n, d.chars[v] = c.chars[v],
         ~(Completing(c, d) /\ ~In(d, "done") /\ v = d.top),
         ~(TopKind(c) = "object" /\ In(c, "string") /\ ~In(d, "string") /\ v = c.top),
         c.type[v] = "object" => Given(d, v) = Given(c, v), v \in d.closed => v \in c.closed
  PROVE  Held(d, h, nodes[v], v)
<1>1. /\ c.n \in Nat /\ c.closed \subseteq 1 .. c.n /\ c.chars[v] \in Nat /\ nodes[v].type = c.type[v]
      /\ \A i \in 1 .. Len(nodes[v].items) : nodes[v].items[i] \in c.closed
  BY SecondFacts
<1>2. PICK y : y = Yield(c, d, g, t)
  OBVIOUS
<1>3. v \in 1 .. d.n /\ ~(v > c.n)
  BY <1>1
<1>4. /\ \A w \in 1 .. d.n : h.made[w] = IF w > c.n THEN <<>>
                                         ELSE IF Completing(c, d) /\ ~In(d, "done") /\ w = d.top
                                              THEN Enlarged(c, g, w, y)
                                         ELSE g.made[w]
      /\ \A w \in 1 .. d.n : h.name[w] = IF TopKind(c) = "object" /\ In(c, "string") /\ ~In(d, "string") /\ w = c.top
                                         THEN g.bytes ELSE g.name[w]
  BY <1>2, TrackedFields
<1>5. h.made[v] = g.made[v]
  BY <1>3, <1>4
<1>6. h.name[v] = g.name[v]
  BY <1>3, <1>4
<1>7. \A w \in c.closed : h.value[w] = g.value[w]
  BY <1>1, TrackedClosed
<1>8. PICK n : n = nodes[v]
  OBVIOUS
<1>9. Held(c, g, n, v) /\ n.type = c.type[v] /\ \A i \in 1 .. Len(n.items) : n.items[i] \in c.closed
  BY <1>1, <1>8 DEF Holds
<1>10. \A i \in 1 .. Len(n.items) : h.value[n.items[i]] = g.value[n.items[i]]
  BY <1>7, <1>9
<1>11. v \in d.closed => v \in c.closed /\ h.value[v] = g.value[v]
  BY <1>7
<1>12. Held(d, h, n, v)
  BY <1>1, <1>5, <1>6, <1>9, <1>10, <1>11, HeldStill
<1>13. QED
  BY <1>8, <1>12

\* What the flags say when no value is new, counted or complete.
LEMMA KeptMode ==
  ASSUME NEW c, NEW d, NEW t, Regular(c), Leads(c, d, t), KeepsValues(c, d)
  PROVE  /\ In(d, "seek_value") <=> In(c, "seek_value")
         /\ In(c, "string") => In(d, "string")
         /\ In(d, "string") /\ ~In(c, "string") => d.sl = 0
<1>1. PICK b : b = t[c.ptr]
  OBVIOUS
<1>2. c.n \in Nat /\ c.top \in 0 .. c.n /\ c.sl \in Nat /\ c.chars \in [1 .. c.n -> Nat] /\ c.closed \subseteq 1 .. c.n
  BY DEF Regular, Typed
<1>3. ASSUME NEW x, Closes(c, d, x), ~In(c, "done") PROVE FALSE
  BY <1>3 DEF Closes, KeepsValues, Regular, Modes
<1>4. ASSUME Names(c, d), TopKind(c) = "object" PROVE FALSE
  <2>1. c.top \in 1 .. c.n
    BY <1>2, <1>4 DEF TopKind
  <2>2. d.chars[c.top] = c.chars[c.top] + c.sl + 1 /\ c.chars[c.top] \in Nat
    BY <1>2, <1>4, <2>1 DEF Names
  <2>3. d.chars[c.top] = c.chars[c.top]
    BY DEF KeepsValues
  <2>4. QED
    BY <1>2, <2>2, <2>3
<1>5. ASSUME NEW x, OpensValue(c, d, x) \/ AddsClosed(c, d, x) PROVE FALSE
  BY <1>2, <1>5 DEF OpensValue, AddsClosed, AddsValue, KeepsValues
<1>6. CASE In(c, "string")
  <2>1. InString(c, d, b) /\ ~In(c, "done")
    BY <1>1, <1>6 DEF Leads, Regular, Modes
  <2>2. Writes(c, d, b) \/ GoesOn(c, d, c.flags \cup {"escaped"})
    BY <1>3, <1>4, <2>1 DEF InString
  <2>3. QED
    BY <1>6, <2>2 DEF Writes, GoesOn, In
<1>7. CASE ~In(c, "string") /\ Commented(c)
  BY <1>1, <1>7 DEF Leads, Commented, InLine, InBlock, GoesOn, Uncomments, In
<1>8. CASE ~In(c, "string") /\ ~Commented(c) /\ b \in {"//", "/*"}
  BY <1>1, <1>8 DEF Leads, Commented, IntoComment, GoesOn, In
<1>9. CASE ~In(c, "string") /\ ~Commented(c) /\ b \notin {"//", "/*"} /\ In(c, "done")
  BY <1>1, <1>9 DEF Leads, Commented, GoesOn, In
<1>10. CASE ~In(c, "string") /\ ~Commented(c) /\ b \notin {"//", "/*"} /\ ~In(c, "done") /\ In(c, "seek_value")
  <2>1. Seeking(c, d, t, b)
    BY <1>1, <1>10 DEF Leads, Commented
  <2>2. \/ GoesOn(c, d, c.flags) \/ GoesOn(c, d, c.flags \ {"need_comma"}) \/ GoesOn(c, d, c.flags \ {"need_colon"})
    BY <1>3, <1>5, <1>10, <2>1 DEF Seeking
  <2>3. QED
    BY <1>10, <2>2 DEF GoesOn, In
<1>11. CASE ~In(c, "string") /\ ~Commented(c) /\ b \notin {"//", "/*"} /\ ~In(c, "done") /\ ~In(c, "seek_value")
  <2>1. BetweenEntries(c, d, b)
    BY <1>1, <1>11 DEF Leads, Commented
  <2>2. GoesOn(c, d, c.flags) \/ GoesOn(c, d, c.flags \ {"need_comma"}) \/ BeginsName(c, d)
    BY <1>3, <1>11, <2>1 DEF BetweenEntries
  <2>3. QED
    BY <1>11, <2>2 DEF GoesOn, BeginsName, In
<1>12. QED
  BY <1>6, <1>7, <1>8, <1>9, <1>10, <1>11

\* A round of the second pass, with what g says before it and h behind it.
Turn(c, d, f, g, h) ==
  /\ Second(c, f) /\ Repeats(c, d, f) /\ Reading(c) /\ Second(d, f)'
  /\ Neat(c) /\ Whole(text) /\ Agrees(c, g, text) /\ Holds(c, g) /\ h = Tracked(c, d, g, text)

LEMMA TurnFacts ==
  ASSUME NEW c, NEW d, NEW f, NEW g, NEW h, Turn(c, d, f, g, h)
  PROVE  /\ c.n \in Nat /\ d.n \in Nat /\ f.n \in Nat /\ c.n <= d.n /\ d.n <= f.n
         /\ Regular(c) /\ Regular(d) /\ Leads(c, d, text) /\ Leads(c, d, text') /\ text' = text
         /\ Later(c, d) /\ Later(c, f) /\ Later(d, f) /\ Here(c) /\ pass = 2
         /\ nodes \in [1 .. f.n -> Node] /\ nodes' \in [1 .. f.n -> Node]
         /\ c.closed \subseteq 1 .. c.n /\ top = c.top /\ c.top \in 0 .. c.n /\ text \in Seq(Token)
         /\ \A v \in 1 .. c.n : /\ d.type[v] = c.type[v] /\ d.parent[v] = c.parent[v]
                                /\ nodes[v].type = c.type[v] /\ nodes[v] \in Node /\ nodes'[v] \in Node
                                /\ nodes'[v].type = c.type[v]
<1>1. /\ Second(c, f) /\ Second(d, f)' /\ Regular(d) /\ Leads(c, d, text) /\ text' = text /\ Later(d, f)
  BY DEF Turn, Repeats
<1>2. /\ f.n \in Nat /\ c.n \in Nat /\ nodes \in [1 .. f.n -> Node] /\ Regular(c) /\ pass = 2
      /\ c.closed \subseteq 1 .. c.n /\ top = c.top /\ text \in Seq(Token) /\ c.n <= f.n
      /\ \A v \in 1 .. c.n : nodes[v].type = c.type[v] /\ nodes[v] \in Node
  BY <1>1, SecondFacts
<1>3. Here(c) /\ Later(c, f) /\ nodes' \in [1 .. f.n -> Node] /\ \A v \in 1 .. f.n : nodes'[v].type = f.type[v]
  BY <1>1 DEF Second, Allocated
<1>4. Later(c, d)
  BY <1>1, <1>2, StepNext
<1>5. d.n \in Nat /\ c.n <= d.n /\ d.n <= f.n /\ c.top \in 0 .. c.n
  BY <1>1, <1>2, <1>4 DEF Later, Regular, Typed
<1>6. \A v \in 1 .. c.n : /\ d.type[v] = c.type[v] /\ d.parent[v] = c.parent[v] /\ f.type[v] = c.type[v]
                          /\ v \in 1 .. f.n
  BY <1>2, <1>3, <1>4 DEF Later
<1>7. \A v \in 1 .. c.n : /\ d.type[v] = c.type[v] /\ d.parent[v] = c.parent[v]
                          /\ nodes[v].type = c.type[v] /\ nodes[v] \in Node /\ nodes'[v] \in Node
                          /\ nodes'[v].type = c.type[v]
  BY <1>2, <1>3, <1>6
<1>8. QED
  BY <1>1, <1>2, <1>3, <1>4, <1>5, <1>7

\* Flags, blanks and comments.
LEMMA QuietHolds ==
  ASSUME NEW c, NEW d, NEW f, NEW g, NEW h, Turn(c, d, f, g, h), KeepsValues(c, d), nodes' = nodes,
         d.sl = c.sl \/ ~In(c, "string")
  PROVE  Holds(d, h)'
<1>1. /\ c.n \in Nat /\ Regular(c) /\ Leads(c, d, text) /\ nodes \in [1 .. f.n -> Node] /\ text \in Seq(Token)
      /\ Second(c, f) /\ Holds(c, g) /\ h = Tracked(c, d, g, text)
  BY TurnFacts DEF Turn
<1>2. /\ d.top = c.top /\ d.n = c.n /\ d.type = c.type /\ d.chars = c.chars /\ d.closed = c.closed
  BY DEF KeepsValues
<1>3. /\ In(d, "seek_value") <=> In(c, "seek_value")
      /\ In(c, "string") => In(d, "string")
      /\ In(d, "string") /\ ~In(c, "string") => d.sl = 0
  BY <1>1, KeptMode
<1>4. \A v \in 1 .. d.n : Given(d, v) = Given(c, v)
  BY <1>2, <1>3 DEF Given, Unclosed
<1>5. ASSUME NEW v \in 1 .. d.n PROVE Held(d, h, nodes[v], v)
  <2>1. d.n \in Nat /\ c.n <= d.n /\ v \in 1 .. c.n /\ d.chars[v] = c.chars[v] /\ ~Completing(c, d)
    BY <1>1, <1>2 DEF Completing
  <2>2. ~(In(c, "string") /\ ~In(d, "string"))
    BY <1>3
  <2>3. QED
    BY <1>1, <1>2, <1>4, <2>1, <2>2, HeldSame
<1>6. In(d, "string") => Begun(nodes[d.top].mem, WrittenAt(d), h.bytes, d.sl)
  <2>1. SUFFICES ASSUME In(d, "string") PROVE Begun(nodes[d.top].mem, WrittenAt(d), h.bytes, d.sl)
    OBVIOUS
  <2>2. PICK e : e = <<>>
    OBVIOUS
  <2>3. h.bytes = IF ~In(c, "string") \/ ~In(d, "string") THEN e
                  ELSE IF d.sl # c.sl THEN g.bytes \o Bytes(text[c.ptr])
                  ELSE g.bytes
    BY <1>1, <2>2, TrackedFields
  <2>4. WrittenAt(d) = WrittenAt(c)
    BY <1>2 DEF WrittenAt, TopKind
  <2>5. CASE In(c, "string")
    <3>1. Begun(nodes[c.top].mem, WrittenAt(c), g.bytes, c.sl)
      BY <1>1, <2>5 DEF Holds
    <3>2. h.bytes = g.bytes /\ d.sl = c.sl
      BY <2>1, <2>3, <2>5
    <3>3. QED
      BY <1>2, <2>4, <3>1, <3>2
  <2>6. CASE ~In(c, "string")
    <3>1. h.bytes = e /\ d.sl = 0
      BY <1>3, <2>1, <2>3, <2>6
    <3>2. e \in Seq(Token) /\ Len(e) = 0
      BY <2>2
    <3>3. QED
      BY <3>1, <3>2 DEF Begun
  <2>7. QED
    BY <2>5, <2>6
<1>7. \A v \in DOMAIN nodes : v > d.n => Len(nodes[v].names) = 0
  BY <1>1, <1>2 DEF Holds
<1>8. QED
  BY <1>5, <1>6, <1>7 DEF Holds

LEMMA WentHolds ==
  ASSUME NEW c, NEW d, NEW f, NEW g, NEW h, Turn(c, d, f, g, h), Went(c)
  PROVE  Holds(d, h)' /\ nodes' = nodes
<1>1. Leads(c, d, text')
  BY TurnFacts
<1>2. PICK x : Continue(x) /\ GoesOn(c, d, x \ NumberFlags)
  BY <1>1 DEF Went
<1>3. nodes' = nodes /\ KeepsValues(c, d) /\ d.sl = c.sl
  BY <1>2 DEF Continue, GoesOn, values
<1>4. QED
  BY <1>3, QuietHolds

LEMMA UncommentedHolds ==
  ASSUME NEW c, NEW d, NEW f, NEW g, NEW h, Turn(c, d, f, g, h), Uncommented(c)
  PROVE  Holds(d, h)' /\ nodes' = nodes
<1>1. Leads(c, d, text')
  BY TurnFacts
<1>2. Uncomments(c, d) /\ UNCHANGED values
  BY <1>1 DEF Uncommented
<1>3. nodes' = nodes /\ KeepsValues(c, d) /\ d.sl = c.sl
  BY <1>2 DEF Uncomments, values
<1>4. QED
  BY <1>3, QuietHolds

LEMMA NameBeganHolds ==
  ASSUME NEW c, NEW d, NEW f, NEW g, NEW h, Turn(c, d, f, g, h), NameBegan(c), ~In(c, "string")
  PROVE  Holds(d, h)' /\ nodes' = nodes
<1>1. Leads(c, d, text')
  BY TurnFacts
<1>2. BeginsName(c, d) /\ UNCHANGED values
  BY <1>1 DEF NameBegan
<1>3. nodes' = nodes /\ KeepsValues(c, d)
  BY <1>2 DEF BeginsName, values
<1>4. QED
  BY <1>3, QuietHolds

\* What the first pass has counted is enough for the string being read.
LEMMA StringRoom ==
  ASSUME NEW c, NEW f, Regular(c), Finished(f), Later(c, f), In(c, "string")
  PROVE  /\ c.top \in 1 .. c.n /\ c.top \in Unclosed(c) /\ c.sl \in Nat /\ TopKind(c) = c.type[c.top]
         /\ c.type[c.top] \in {"string", "object"} /\ ~In(c, "seek_value")
         /\ c.type[c.top] = "string" => c.sl <= f.length[c.top] /\ f.length[c.top] \in Nat
         /\ c.type[c.top] = "object" => /\ f.length[c.top] \in Nat /\ f.length[c.top] > 0 /\ c.chars[c.top] \in Nat
                                        /\ f.chars[c.top] \in Nat /\ c.chars[c.top] + c.sl + 1 <= f.chars[c.top]
<1>1. /\ c.top # 0 /\ c.type[c.top] \in {"string", "object"} /\ c.top \in Unclosed(c)
  BY StringTop
<1>2. c.n \in Nat /\ c.top \in 0 .. c.n /\ c.sl \in Nat
  BY DEF Regular, Typed
<1>3. c.top \in 1 .. c.n /\ TopKind(c) = c.type[c.top] /\ ~In(c, "seek_value")
  BY <1>1, <1>2 DEF TopKind, Regular, Modes
<1>4. PICK v \in 1 .. c.n : v = c.top
  BY <1>3
<1>5. /\ c.length[v] \in Nat /\ f.length[v] \in Nat /\ c.chars[v] \in Nat /\ f.chars[v] \in Nat
      /\ Pending(c, v) \in Nat /\ PendingChars(c, v) \in Nat
      /\ c.length[v] + Pending(c, v) <= f.length[v]
      /\ c.chars[v] + PendingChars(c, v) <= f.chars[v]
  BY Counted
<1>6. \A w \in Unclosed(c) : c.parent[w] # c.top
  BY DEF Regular, Family
<1>7. CASE c.type[v] = "string"
  <2>1. Pending(c, v) = c.sl
    BY <1>3, <1>4, <1>6, <1>7 DEF Pending
  <2>2. c.sl <= f.length[v]
    BY <1>2, <1>5, <2>1
  <2>3. QED
    BY <1>1, <1>2, <1>3, <1>4, <1>5, <1>7, <2>2
<1>8. CASE c.type[v] = "object"
  <2>1. Pending(c, v) = 1 /\ PendingChars(c, v) = c.sl + 1
    BY <1>3, <1>4, <1>8 DEF Pending, PendingChars
  <2>2. f.length[v] > 0 /\ c.chars[v] + c.sl + 1 <= f.chars[v]
    BY <1>2, <1>5, <2>1
  <2>3. QED
    BY <1>1, <1>2, <1>3, <1>4, <1>5, <1>8, <2>2
<1>9. QED
  BY <1>1, <1>4, <1>7, <1>8

\* Where the second pass writes.
LEMMA StringPlace ==
  ASSUME NEW c, NEW f, Second(c, f), In(c, "string")
  PROVE  /\ StringAt = WrittenAt(c) /\ WrittenAt(c) \in Nat /\ string_length = c.sl /\ c.sl \in Nat
         /\ top = c.top /\ top \in 1 .. f.n /\ top \in 1 .. c.n
         /\ nodes[top].mem \in Seq(Byte) /\ Len(nodes[top].mem) \in Nat
         /\ c.type[top] = "string" => WrittenAt(c) = 0 /\ Len(nodes[top].mem) = f.length[top] + 1
         /\ c.type[top] = "object" => WrittenAt(c) = c.chars[top] /\ Len(nodes[top].mem) = f.chars[top]
         /\ WrittenAt(c) + c.sl + 1 <= Len(nodes[top].mem)
<1>1. /\ f.n \in Nat /\ c.n \in Nat /\ c.n <= f.n /\ Regular(c) /\ top = c.top /\ string_length = c.sl
      /\ \A v \in 1 .. c.n :
              /\ nodes[v] \in Node /\ nodes[v].type = c.type[v]
              /\ c.type[v] = "string" => Len(nodes[v].mem) = f.length[v] + 1
              /\ c.type[v] = "object" /\ f.length[v] > 0 =>
                   Len(nodes[v].mem) = f.chars[v] /\ nodes[v].reserved = c.chars[v]
  BY SecondFacts
<1>2. /\ c.top \in 1 .. c.n /\ c.sl \in Nat /\ TopKind(c) = c.type[c.top]
      /\ c.type[c.top] \in {"string", "object"}
      /\ c.type[c.top] = "string" => c.sl <= f.length[c.top] /\ f.length[c.top] \in Nat
      /\ c.type[c.top] = "object" => /\ f.length[c.top] \in Nat /\ f.length[c.top] > 0 /\ c.chars[c.top] \in Nat
                                     /\ f.chars[c.top] \in Nat /\ c.chars[c.top] + c.sl + 1 <= f.chars[c.top]
  BY <1>1, StringRoom DEF Second
<1>3. Top = nodes[top] /\ (Is("object") <=> c.type[top] = "object")
  BY <1>1, <1>2 DEF Top, Is
<1>4. nodes[top].mem \in Seq(Byte) /\ Len(nodes[top].mem) \in Nat /\ top \in 1 .. f.n
  <2>1. nodes[top] \in Node
    BY <1>1, <1>2
  <2>2. PICK m : m = nodes[top].mem
    OBVIOUS
  <2>3. m \in Seq(Byte)
    BY <2>1, <2>2 DEF Node
  <2>4. QED
    BY <1>1, <1>2, <2>2, <2>3
<1>5. CASE c.type[top] = "string"
  <2>1. StringAt = 0 /\ WrittenAt(c) = 0
    BY <1>1, <1>2, <1>3, <1>5 DEF StringAt, WrittenAt
  <2>2. Len(nodes[top].mem) = f.length[top] + 1
    BY <1>1, <1>2, <1>5
  <2>3. WrittenAt(c) + c.sl + 1 <= Len(nodes[top].mem)
    BY <1>1, <1>2, <1>5, <2>1, <2>2
  <2>4. QED
    BY <1>1, <1>2, <1>4, <1>5, <2>1, <2>2, <2>3
<1>6. CASE c.type[top] = "object"
  <2>1. Len(nodes[top].mem) = f.chars[top] /\ nodes[top].reserved = c.chars[top]
    BY <1>1, <1>2, <1>6
  <2>2. StringAt = c.chars[top] /\ WrittenAt(c) = c.chars[top]
    BY <1>1, <1>2, <1>3, <1>6, <2>1 DEF StringAt, WrittenAt
  <2>3. WrittenAt(c) + c.sl + 1 <= Len(nodes[top].mem)
    BY <1>1, <1>2, <1>6, <2>1, <2>2
  <2>4. QED
    BY <1>1, <1>2, <1>4, <1>6, <2>1, <2>2, <2>3
<1>7. QED
  BY <1>1, <1>2, <1>5, <1>6

\* A string with more bytes behind it.
LEMMA BegunOn ==
  ASSUME NEW mem, NEW ram, NEW at \in Nat, NEW s, NEW k \in Nat, NEW b \in Token, NEW j \in Nat, j = Width(b), Begun(mem, at, s, k),
         NEW size \in Nat, at + k + j <= size,
         \A i \in 1 .. size : ram[i] = IF i \in at + k + 1 .. at + k + j THEN b ELSE mem[i]
  PROVE  Begun(ram, at, s \o Bytes(b), k + j)
<1>1. s \in Seq(Token) /\ Len(s) = k /\ \A i \in 1 .. k : mem[at + i] = s[i]
  BY DEF Begun
<1>2. PICK u : u = Bytes(b)
  OBVIOUS
<1>3. u \in Seq(Token) /\ Len(u) = j /\ \A i \in 1 .. j : u[i] = b
  BY <1>2, BytesFacts
<1>4. PICK x : x = s \o u
  OBVIOUS
<1>5. /\ x \in Seq(Token) /\ Len(x) = k + j
      /\ \A i \in 1 .. k + j : x[i] = IF i <= k THEN s[i] ELSE u[i - k]
  <2>1. /\ s \o u \in Seq(Token) /\ Len(s \o u) = Len(s) + Len(u)
        /\ \A i \in 1 .. Len(s) + Len(u) : (s \o u)[i] = IF i <= Len(s) THEN s[i] ELSE u[i - Len(s)]
    BY <1>1, <1>3, ConcatProperties, Zenon
  <2>2. /\ x \in Seq(Token) /\ Len(x) = Len(s) + Len(u)
        /\ \A i \in 1 .. Len(s) + Len(u) : x[i] = IF i <= Len(s) THEN s[i] ELSE u[i - Len(s)]
    BY <1>4, <2>1
  <2>3. QED
    BY <1>1, <1>3, <2>2
<1>6. ASSUME NEW i \in 1 .. k + j PROVE ram[at + i] = x[i]
  <2>1. CASE i <= k
    <3>1. at + i \in 1 .. size /\ ~(at + i \in at + k + 1 .. at + k + j) /\ i \in 1 .. k
      BY <2>1
    <3>2. QED
      BY <1>1, <1>5, <2>1, <3>1
  <2>2. CASE ~(i <= k)
    <3>1. at + i \in 1 .. size /\ (at + i \in at + k + 1 .. at + k + j) /\ i - k \in 1 .. j
      BY <2>2
    <3>2. QED
      BY <1>3, <1>5, <2>2, <3>1
  <2>3. QED
    BY <2>1, <2>2
<1>7. Begun(ram, at, x, k + j)
  BY <1>5, <1>6 DEF Begun
<1>8. QED
  BY <1>2, <1>4, <1>7

\* A value whose memory changes behind its names, and that is not complete.
LEMMA HeldBehind ==
  ASSUME NEW c, NEW d, NEW g, NEW h, NEW v, NEW n, NEW m, Held(c, g, n, v), v \notin d.closed,
         c.chars[v] \in Nat, d.chars[v] \in Nat, c.chars[v] <= d.chars[v], h.made[v] = g.made[v],
         \A i \in 1 .. Len(n.items) : h.value[n.items[i]] = g.value[n.items[i]],
         m.type = n.type, m.items = n.items,
         n.type = "object" => /\ Titles(m, h.name[v], d.chars[v], Given(d, v))
                              /\ \A i \in 1 .. Len(n.items) : m.names[i] = n.names[i]
                              /\ \A k \in 1 .. c.chars[v] : m.mem[k] = n.mem[k]
  PROVE  Held(d, h, m, v)
<1>1. n.type \in Container => Lists(n, g.made[v], g.value, c.chars[v])
  BY DEF Held
<1>2. PICK x, y, z : x = g.made[v] /\ y = g.value /\ z = h.value
  OBVIOUS
<1>3. ASSUME n.type \in Container PROVE Lists(m, h.made[v], h.value, d.chars[v])
  <2>1. Lists(n, x, y, c.chars[v])
    BY <1>1, <1>2, <1>3
  <2>2. \A i \in 1 .. Len(n.items) : z[n.items[i]] = y[n.items[i]]
    BY <1>2
  <2>3. PICK bound, limit : bound = c.chars[v] /\ limit = d.chars[v]
    OBVIOUS
  <2>4. /\ bound \in Nat /\ limit \in Nat /\ bound <= limit /\ Lists(n, x, y, bound) /\ m.type = n.type /\ m.items = n.items
        /\ n.type = "object" => /\ \A i \in 1 .. Len(n.items) : m.names[i] = n.names[i]
                                /\ \A k \in 1 .. bound : m.mem[k] = n.mem[k]
    BY <2>1, <2>3
  <2>5. Lists(m, x, z, limit)
    BY <2>2, <2>4, ListsKept
  <2>6. QED
    BY <1>2, <2>3, <2>5
<1>4. QED
  BY <1>3 DEF Held

LEMMA WroteHolds ==
  ASSUME NEW c, NEW d, NEW f, NEW g, NEW h, Turn(c, d, f, g, h), Wrote(c)
  PROVE  Holds(d, h)' /\ KeepsNumbers(nodes', f.n)
<1>1. /\ c.n \in Nat /\ f.n \in Nat /\ Regular(c) /\ Leads(c, d, text) /\ nodes \in [1 .. f.n -> Node] /\ text \in Seq(Token)
      /\ pass = 2 /\ text' = text /\ Leads(c, d, text') /\ c.n <= f.n /\ Regular(d) /\ Later(d, f)
      /\ c.closed \subseteq 1 .. c.n
  BY TurnFacts
<1>2. Second(c, f) /\ Holds(c, g) /\ h = Tracked(c, d, g, text) /\ Finished(f)
  BY DEF Turn, Second
<1>3. PICK b \in Token : /\ StringAdd(b, flags \ {"escaped"}) /\ In(c, "string") /\ b = text[c.ptr]
                         /\ Writes(c, d, b)
  BY <1>1 DEF Wrote
<1>4. PICK j : j = Width(b)
  OBVIOUS
<1>5. j \in 1 .. 4
  BY <1>4, WidthTyped
<1>6. /\ KeepsValues(c, d) /\ d.sl = c.sl + j /\ nodes' = Written(b, j)
      /\ In(d, "string") /\ d.flags = c.flags \ {"escaped"}
  BY <1>1, <1>3, <1>4 DEF Writes, StringAdd, StringAdds, In
<1>7. /\ d.top = c.top /\ d.n = c.n /\ d.type = c.type /\ d.chars = c.chars /\ d.closed = c.closed
  BY <1>6 DEF KeepsValues
<1>8. PICK at : at = WrittenAt(c)
  OBVIOUS
<1>9. PICK mem : mem = nodes[top].mem
  OBVIOUS
<1>10. /\ StringAt = at /\ at \in Nat /\ string_length = c.sl /\ c.sl \in Nat
       /\ top = c.top /\ top \in 1 .. f.n /\ top \in 1 .. c.n
       /\ Len(mem) \in Nat
       /\ c.type[top] = "string" => at = 0 /\ Len(mem) = f.length[top] + 1
       /\ c.type[top] = "object" => at = c.chars[top] /\ Len(mem) = f.chars[top]
  BY <1>2, <1>3, <1>8, <1>9, StringPlace
<1>11. at + c.sl + j + 1 <= Len(mem)
  <2>1. /\ d.type[d.top] \in {"string", "object"}
        /\ d.type[d.top] = "string" => d.sl <= f.length[d.top] /\ f.length[d.top] \in Nat
        /\ d.type[d.top] = "object" => /\ d.chars[d.top] \in Nat
                                       /\ f.chars[d.top] \in Nat /\ d.chars[d.top] + d.sl + 1 <= f.chars[d.top]
    BY <1>1, <1>2, <1>6, StringRoom
  <2>2. CASE c.type[top] = "string"
    BY <1>5, <1>6, <1>7, <1>10, <2>1, <2>2
  <2>3. CASE c.type[top] = "object"
    BY <1>5, <1>6, <1>7, <1>10, <2>1, <2>3
  <2>4. QED
    BY <1>7, <1>10, <2>1, <2>2, <2>3
<1>12. PICK m : m = nodes'[top]
  OBVIOUS
<1>13. /\ \A w \in 1 .. f.n : w # top => nodes'[w] = nodes[w]
       /\ m.integer = nodes[top].integer /\ m.names = nodes[top].names
       /\ \A i \in 1 .. Len(mem) : m.mem[i] = IF i \in at + c.sl + 1 .. at + c.sl + j THEN b ELSE mem[i]
  <2>1. /\ \A w \in 1 .. f.n : w # top => Written(b, j)[w] = nodes[w]
        /\ Written(b, j)[top].integer = nodes[top].integer /\ Written(b, j)[top].names = nodes[top].names
        /\ \A i \in 1 .. Len(nodes[top].mem) : Written(b, j)[top].mem[i] =
             IF i \in StringAt + string_length + 1 .. StringAt + string_length + j THEN b ELSE nodes[top].mem[i]
    BY <1>1, <1>10, WrittenKeeps
  <2>2. \A i \in 1 .. Len(mem) : m.mem[i] = IF i \in at + c.sl + 1 .. at + c.sl + j THEN b ELSE mem[i]
    BY <1>6, <1>9, <1>10, <1>12, <2>1
  <2>3. QED
    BY <1>6, <1>12, <2>1, <2>2
<1>14. /\ nodes' \in [1 .. f.n -> Node] /\ m.type = nodes[top].type /\ m.items = nodes[top].items
  <2>1. b \in Byte /\ j \in Nat
    BY <1>5 DEF Byte
  <2>2. QED
    BY <1>1, <1>6, <1>10, <1>12, <2>1, WrittenFields
<1>15. \A v \in 1 .. d.n : Given(d, v) = Given(c, v)
  BY <1>6, <1>7 DEF Given, Unclosed, In
<1>16. ASSUME NEW v \in 1 .. d.n, v # top PROVE Held(d, h, nodes'[v], v)
  <2>1. d.n \in Nat /\ c.n <= d.n /\ v \in 1 .. c.n /\ d.chars[v] = c.chars[v] /\ ~Completing(c, d) /\ v \in 1 .. f.n
    BY <1>1, <1>7 DEF Completing
  <2>2. Held(d, h, nodes[v], v)
    BY <1>2, <1>6, <1>7, <1>15, <2>1, HeldSame
  <2>3. QED
    BY <1>13, <1>16, <2>1, <2>2
<1>17. Held(d, h, m, top)
  <2>1. PICK n : n = nodes[top]
    OBVIOUS
  <2>2. Held(c, g, n, top)
    BY <1>2, <1>10, <2>1 DEF Holds
  <2>3. top \notin d.closed /\ Given(d, top) = 0 /\ Given(c, top) = 0
    <3>1. top \in Unclosed(c) /\ ~In(c, "seek_value")
      BY <1>1, <1>2, <1>3, <1>10, StringRoom DEF Second
    <3>2. QED
      BY <1>6, <1>7, <1>10, <3>1 DEF Given, Unclosed, In
  <2>4. c.chars[top] \in Nat /\ n.type = c.type[top] /\ \A i \in 1 .. Len(n.items) : n.items[i] \in c.closed
    BY <1>2, <1>10, <2>1, SecondFacts
  <2>5. Stays(c, d) /\ Typed(c)
    BY <1>1, <1>6 DEF Stays, KeepsValues, Regular
  <2>6. \A v \in 1 .. c.n : h.value[v] = g.value[v] /\ h.made[v] = g.made[v]
    BY <1>2, <2>5, TrackedKeeps
  <2>7. h.made[top] = g.made[top] /\ \A i \in 1 .. Len(n.items) : h.value[n.items[i]] = g.value[n.items[i]]
    BY <1>1, <1>10, <2>4, <2>6
  <2>8. ASSUME n.type = "object"
        PROVE  /\ Titles(m, h.name[top], d.chars[top], Given(d, top))
               /\ \A i \in 1 .. Len(n.items) : m.names[i] = n.names[i]
               /\ \A k \in 1 .. c.chars[top] : m.mem[k] = n.mem[k]
    <3>1. Titles(n, g.name[top], c.chars[top], 0)
      BY <2>2, <2>3, <2>8 DEF Held
    <3>2. Titles(m, h.name[top], d.chars[top], 0)
      BY <1>13, <1>14, <2>1, <3>1 DEF Titles
    <3>3. ASSUME NEW k \in 1 .. c.chars[top] PROVE m.mem[k] = n.mem[k]
      <4>1. k \in 1 .. Len(mem) /\ ~(k \in at + c.sl + 1 .. at + c.sl + j)
        BY <1>5, <1>10, <1>11, <2>4, <2>8
      <4>2. QED
        BY <1>9, <1>13, <2>1, <4>1
    <3>4. QED
      BY <1>13, <2>1, <2>3, <3>2, <3>3
  <2>9. d.chars[top] = c.chars[top] /\ c.chars[top] <= d.chars[top]
    BY <1>7, <2>4
  <2>10. m.type = n.type /\ m.items = n.items
    BY <1>14, <2>1
  <2>11. QED
    BY <2>2, <2>3, <2>4, <2>7, <2>8, <2>9, <2>10, HeldBehind
<1>18. Begun(nodes'[d.top].mem, WrittenAt(d), h.bytes, d.sl)
  <2>1. WrittenAt(d) = at
    BY <1>7, <1>8 DEF WrittenAt, TopKind
  <2>2. d.sl # c.sl
    BY <1>5, <1>6, <1>10
  <2>3. h.bytes = g.bytes \o Bytes(b)
    <3>1. h.bytes = IF ~In(c, "string") \/ ~In(d, "string") THEN <<>>
                    ELSE IF d.sl # c.sl THEN g.bytes \o Bytes(text[c.ptr])
                    ELSE g.bytes
      BY <1>2, TrackedFields
    <3>2. QED
      BY <1>3, <1>6, <2>2, <3>1
  <2>4. Begun(mem, at, g.bytes, c.sl)
    BY <1>2, <1>3, <1>8, <1>9, <1>10 DEF Holds
  <2>5. at + c.sl + j <= Len(mem) /\ j \in Nat
    BY <1>5, <1>10, <1>11
  <2>6. PICK ram, s : ram = m.mem /\ s = g.bytes
    OBVIOUS
  <2>7. Begun(mem, at, s, c.sl) /\ \A i \in 1 .. Len(mem) : ram[i] = IF i \in at + c.sl + 1 .. at + c.sl + j THEN b ELSE mem[i]
    BY <1>13, <2>4, <2>6
  <2>8. Begun(ram, at, s \o Bytes(b), c.sl + j)
    <3>1. PICK k, size : k = c.sl /\ size = Len(mem)
      OBVIOUS
    <3>2. /\ k \in Nat /\ size \in Nat /\ at \in Nat /\ j \in Nat /\ at + k + j <= size /\ Begun(mem, at, s, k)
          /\ \A i \in 1 .. size : ram[i] = IF i \in at + k + 1 .. at + k + j THEN b ELSE mem[i]
      BY <1>10, <2>5, <2>7, <3>1
    <3>3. Begun(ram, at, s \o Bytes(b), k + j)
      BY <1>4, <3>2, BegunOn
    <3>4. QED
      BY <3>1, <3>3
  <2>9. QED
    BY <1>6, <1>7, <1>10, <1>12, <2>1, <2>3, <2>6, <2>8
<1>19. \A v \in DOMAIN nodes' : v > d.n => Len(nodes'[v].names) = 0
  <2>1. \A v \in 1 .. f.n : nodes'[v].names = nodes[v].names
    BY <1>10, <1>12, <1>13
  <2>2. QED
    BY <1>1, <1>2, <1>7, <1>14, <2>1 DEF Holds
<1>20. KeepsNumbers(nodes', f.n)
  BY <1>12, <1>13, <1>14 DEF KeepsNumbers
<1>21. QED
  BY <1>10, <1>12, <1>16, <1>17, <1>18, <1>19, <1>20 DEF Holds

\* The terminator of the string being read.
LEMMA StoredHere ==
  ASSUME NEW mem, NEW ram, NEW at \in Nat, NEW s, NEW k \in Nat, Begun(mem, at, s, k),
         NEW size \in Nat, at + k + 1 <= size,
         \A i \in 1 .. size : ram[i] = IF i = at + k + 1 THEN "nul" ELSE mem[i]
  PROVE  Stored(ram, at, s, at + k + 1)
<1>1. s \in Seq(Token) /\ Len(s) = k /\ \A i \in 1 .. k : mem[at + i] = s[i]
  BY DEF Begun
<1>2. ASSUME NEW i \in 1 .. k PROVE ram[at + i] = s[i]
  <2>1. at + i \in 1 .. size /\ ~(at + i = at + k + 1)
    BY <1>2
  <2>2. QED
    BY <1>1, <2>1
<1>3. at + k + 1 \in 1 .. size
  OBVIOUS
<1>4. ram[at + Len(s) + 1] = "nul"
  BY <1>1, <1>3
<1>5. QED
  BY <1>1, <1>2, <1>4 DEF Stored

LEMMA NameEndedHolds ==
  ASSUME NEW c, NEW d, NEW f, NEW g, NEW h, Turn(c, d, f, g, h), NameEnded(c)
  PROVE  Holds(d, h)' /\ KeepsNumbers(nodes', f.n)
<1>1. /\ c.n \in Nat /\ f.n \in Nat /\ Regular(c) /\ Leads(c, d, text) /\ nodes \in [1 .. f.n -> Node] /\ text \in Seq(Token)
      /\ pass = 2 /\ text' = text /\ Leads(c, d, text') /\ c.n <= f.n /\ Regular(d) /\ Later(d, f)
      /\ c.closed \subseteq 1 .. c.n
  BY TurnFacts
<1>2. Second(c, f) /\ Holds(c, g) /\ h = Tracked(c, d, g, text) /\ Finished(f)
  BY DEF Turn, Second
<1>3. /\ Names(c, d) /\ TopKind(c) = "object" /\ In(c, "string")
      /\ nodes' = [Terminated EXCEPT ![top] = Named(@)]
  BY <1>1 DEF NameEnded
<1>4. /\ d.top = c.top /\ d.n = c.n /\ d.type = c.type /\ d.closed = c.closed
      /\ In(d, "seek_value") /\ ~In(d, "string")
      /\ d.chars = [w \in 1 .. c.n |-> IF w = c.top THEN c.chars[w] + c.sl + 1 ELSE c.chars[w]]
  BY <1>3 DEF Names, In
<1>5. PICK at : at = WrittenAt(c)
  OBVIOUS
<1>6. PICK mem : mem = nodes[top].mem
  OBVIOUS
<1>7. /\ StringAt = at /\ at \in Nat /\ string_length = c.sl /\ c.sl \in Nat
      /\ top = c.top /\ top \in 1 .. f.n /\ top \in 1 .. c.n
      /\ Len(mem) \in Nat /\ at + c.sl + 1 <= Len(mem)
      /\ c.type[top] = "object" => at = c.chars[top] /\ Len(mem) = f.chars[top]
  BY <1>2, <1>3, <1>5, <1>6, StringPlace
<1>8. c.type[top] = "object" /\ at = c.chars[top] /\ d.chars[top] = at + c.sl + 1
  BY <1>3, <1>4, <1>7 DEF TopKind
<1>9. PICK n : n = nodes[top]
  OBVIOUS
<1>10. PICK z : z = Terminated[top]
  OBVIOUS
<1>11. /\ \A w \in 1 .. f.n : w # top => Terminated[w] = nodes[w]
       /\ Terminated \in [1 .. f.n -> Node]
       /\ z.integer = n.integer /\ z.names = n.names /\ z.reserved = n.reserved
       /\ \A i \in 1 .. Len(mem) : z.mem[i] = IF i = at + c.sl + 1 THEN "nul" ELSE mem[i]
  <2>1. /\ \A w \in 1 .. f.n : w # top => Terminated[w] = nodes[w]
        /\ Terminated \in [1 .. f.n -> Node]
        /\ Terminated[top].integer = nodes[top].integer /\ Terminated[top].names = nodes[top].names
        /\ Terminated[top].reserved = nodes[top].reserved
        /\ \A i \in 1 .. Len(nodes[top].mem) : Terminated[top].mem[i] =
              IF i = StringAt + string_length + 1 THEN "nul" ELSE nodes[top].mem[i]
    BY <1>1, <1>7, TerminatedKeeps
  <2>2. \A i \in 1 .. Len(mem) : z.mem[i] = IF i = at + c.sl + 1 THEN "nul" ELSE mem[i]
    BY <1>6, <1>7, <1>10, <2>1
  <2>3. QED
    BY <1>9, <1>10, <2>1, <2>2
<1>12. z.type = n.type /\ z.items = n.items /\ z \in Node
  <2>1. "nul" \in Byte /\ 1 \in Nat /\ Terminated = Written("nul", 1)
    BY <1>1 DEF Byte, Terminated
  <2>2. Written("nul", 1)[top].type = nodes[top].type /\ Written("nul", 1)[top].items = nodes[top].items
    BY <1>1, <1>7, <2>1, WrittenFields
  <2>3. QED
    BY <1>7, <1>9, <1>10, <1>11, <2>1, <2>2
<1>13. PICK m : m = Named(z)
  OBVIOUS
<1>14. m.integer = z.integer /\ m.names = Append(z.names, z.reserved)
  BY <1>1, <1>7, <1>12, <1>13, NamedKeeps
<1>15. m \in Node /\ m.type = z.type /\ m.mem = z.mem /\ m.items = z.items
  BY <1>7, <1>12, <1>13, NamedFields
<1>16. /\ nodes' \in [1 .. f.n -> Node] /\ nodes'[top] = m /\ \A w \in 1 .. f.n : w # top => nodes'[w] = nodes[w]
  <2>1. nodes' = [Terminated EXCEPT ![top] = m]
    BY <1>3, <1>10, <1>13
  <2>2. QED
    BY <1>7, <1>11, <1>15, <2>1
<1>17. ASSUME NEW v \in 1 .. d.n, v # top PROVE Held(d, h, nodes'[v], v)
  <2>1. d.n \in Nat /\ c.n <= d.n /\ v \in 1 .. c.n /\ d.chars[v] = c.chars[v] /\ ~Completing(c, d) /\ v \in 1 .. f.n
    BY <1>1, <1>4, <1>7, <1>17 DEF Completing
  <2>2. Given(d, v) = Given(c, v)
    BY <1>4, <1>7, <1>17 DEF Given, Unclosed
  <2>3. Held(d, h, nodes[v], v)
    BY <1>2, <1>4, <1>7, <1>17, <2>1, <2>2, HeldSame
  <2>4. QED
    BY <1>16, <1>17, <2>1, <2>3
<1>18. Held(d, h, m, top)
  <2>1. Held(c, g, n, top)
    BY <1>2, <1>7, <1>9 DEF Holds
  <2>2. top \notin d.closed /\ Given(d, top) = 1 /\ Given(c, top) = 0
    <3>1. top \in Unclosed(c) /\ ~In(c, "seek_value")
      BY <1>1, <1>2, <1>3, <1>7, StringRoom DEF Second
    <3>2. QED
      BY <1>4, <1>7, <3>1 DEF Given, Unclosed
  <2>3. /\ c.chars[top] \in Nat /\ n.type = "object" /\ \A i \in 1 .. Len(n.items) : n.items[i] \in c.closed
        /\ f.length[top] > 0 => n.reserved = c.chars[top]
    BY <1>2, <1>7, <1>8, <1>9, SecondFacts
  <2>4. n.reserved = at
    BY <1>1, <1>2, <1>3, <1>7, <1>8, <2>3, StringRoom DEF Second
  <2>5. n.names \in Seq(Nat) /\ n.items \in Seq(Nat)
    <3>1. n \in Node
      BY <1>1, <1>7, <1>9
    <3>2. QED
      BY <3>1 DEF Node
  <2>6. Stays(c, d) /\ Typed(c)
    BY <1>1, <1>3 DEF Stays, Names, Regular
  <2>7. /\ \A v \in 1 .. c.n : h.value[v] = g.value[v] /\ h.made[v] = g.made[v]
    BY <1>2, <2>6, TrackedKeeps
  <2>8. h.name[top] = g.bytes
    <3>1. \A v \in 1 .. d.n : h.name[v] = IF TopKind(c) = "object" /\ In(c, "string") /\ ~In(d, "string") /\ v = c.top
                                          THEN g.bytes ELSE g.name[v]
      BY <1>2, TrackedFields
    <3>2. QED
      BY <1>3, <1>4, <1>7, <3>1
  <2>9. h.made[top] = g.made[top] /\ \A i \in 1 .. Len(n.items) : h.value[n.items[i]] = g.value[n.items[i]]
    BY <1>1, <1>7, <2>3, <2>7
  <2>10. Len(n.names) = Len(n.items)
    BY <2>1, <2>2, <2>3 DEF Held, Titles
  <2>11. PICK k : k = Len(n.items)
    OBVIOUS
  <2>12. /\ k \in Nat /\ Len(m.names) = k + 1 /\ m.names[k + 1] = at
         /\ \A i \in 1 .. k : m.names[i] = n.names[i]
    <3>1. m.names = Append(n.names, at) /\ Len(n.names) = k
      BY <1>11, <1>14, <2>4, <2>10, <2>11
    <3>2. QED
      BY <1>7, <2>5, <2>11, <3>1, AppendProperties
  <2>13. Begun(mem, at, g.bytes, c.sl)
    BY <1>2, <1>3, <1>5, <1>6, <1>7 DEF Holds
  <2>14. Stored(m.mem, at, g.bytes, at + c.sl + 1)
    <3>1. PICK ram, s, j, size : ram = m.mem /\ s = g.bytes /\ j = c.sl /\ size = Len(mem)
      OBVIOUS
    <3>2. /\ Begun(mem, at, s, j) /\ j \in Nat /\ size \in Nat /\ at + j + 1 <= size /\ at \in Nat
          /\ \A i \in 1 .. size : ram[i] = IF i = at + j + 1 THEN "nul" ELSE mem[i]
      BY <1>7, <1>11, <1>15, <2>13, <3>1
    <3>3. Stored(ram, at, s, at + j + 1)
      BY <3>2, StoredHere
    <3>4. QED
      BY <3>1, <3>3
  <2>15. m.items = n.items /\ m.type = n.type
    BY <1>12, <1>15
  <2>16. Titles(m, h.name[top], d.chars[top], Given(d, top))
    BY <1>8, <2>2, <2>8, <2>11, <2>12, <2>14, <2>15 DEF Titles
  <2>17. ASSUME NEW i \in 1 .. c.chars[top] PROVE m.mem[i] = n.mem[i]
    <3>1. i \in 1 .. Len(mem) /\ ~(i = at + c.sl + 1)
      BY <1>7, <1>8
    <3>2. QED
      BY <1>6, <1>9, <1>11, <1>15, <3>1
  <2>18. d.chars[top] \in Nat /\ c.chars[top] <= d.chars[top]
    BY <1>7, <1>8
  <2>19. QED
    BY <2>1, <2>2, <2>3, <2>9, <2>11, <2>12, <2>15, <2>16, <2>17, <2>18, HeldBehind
<1>19. \A v \in DOMAIN nodes' : v > d.n => Len(nodes'[v].names) = 0
  <2>1. ASSUME NEW v \in 1 .. f.n, v > d.n PROVE nodes'[v] = nodes[v]
    <3>1. v # top
      BY <1>1, <1>4, <1>7, <2>1
    <3>2. QED
      BY <1>16, <3>1
  <2>2. QED
    BY <1>1, <1>2, <1>4, <1>16, <2>1 DEF Holds
<1>20. KeepsNumbers(nodes', f.n)
  <2>1. m.type = n.type /\ m.integer = n.integer
    BY <1>11, <1>12, <1>14, <1>15
  <2>2. QED
    BY <1>9, <1>16, <2>1 DEF KeepsNumbers
<1>21. QED
  BY <1>4, <1>16, <1>17, <1>18, <1>19, <1>20 DEF Holds

\* One more value in those that were made.
Enlarges(n, m, value, worth, q, y) ==
  /\ n.items \in Seq(Nat) /\ m.type = n.type /\ m.mem = n.mem /\ m.names = n.names
  /\ m.items = Append(n.items, q) /\ worth[q] = y /\ q \in Nat
  /\ \A i \in 1 .. Len(n.items) : worth[n.items[i]] = value[n.items[i]]

LEMMA ListsAdded ==
  ASSUME NEW n, NEW m, NEW made, NEW value, NEW worth, NEW bound, NEW q, NEW name, NEW y,
         Lists(n, made, value, bound), Enlarges(n, m, value, worth, q, y),
         n.type = "object" => Titles(n, name, bound, 1), NEW more, more = made \o <<Member(n.type, name, y)>>
  PROVE  /\ Lists(m, more, worth, bound)
         /\ n.type = "object" => \A other : Titles(m, other, bound, 0)
<1>0. /\ n.items \in Seq(Nat) /\ m.type = n.type /\ m.mem = n.mem /\ m.names = n.names
      /\ m.items = Append(n.items, q) /\ worth[q] = y /\ q \in Nat
      /\ \A i \in 1 .. Len(n.items) : worth[n.items[i]] = value[n.items[i]]
  BY DEF Enlarges
<1>1. /\ IsSeq(made) /\ Len(made) = Len(n.items)
      /\ \A i \in 1 .. Len(made) : \E s : /\ n.type = "object" => Stored(n.mem, n.names[i], s, bound)
                                          /\ made[i] = Member(n.type, s, value[n.items[i]])
  BY DEF Lists
<1>2. PICK k : k = Len(n.items)
  OBVIOUS
<1>3. PICK w : w = Member(n.type, name, y)
  OBVIOUS
<1>4. PICK u : u = <<w>>
  OBVIOUS
<1>5. IsSeq(u) /\ Len(u) = 1 /\ u[1] = w
  BY <1>4, SeqFacts
<1>6. PICK x : x = made \o u
  OBVIOUS
<1>7. k \in Nat /\ Len(made) = k
  BY <1>1, <1>2
<1>8. /\ IsSeq(x) /\ Len(x) = k + 1 /\ (\A i \in 1 .. k : x[i] = made[i])
      /\ x[k + 1] = w
  <2>1. /\ IsSeq(made \o u) /\ Len(made \o u) = Len(made) + Len(u)
        /\ \A i \in 1 .. Len(made) : (made \o u)[i] = made[i]
        /\ \A i \in 1 .. Len(u) : (made \o u)[Len(made) + i] = u[i]
    <3>1. IsSeq(made) /\ IsSeq(u)
      BY <1>1, <1>5
    <3>2. QED
      BY <3>1, SeqConcat
  <2>2. 1 \in 1 .. Len(u)
    BY <1>5
  <2>3. x[k + 1] = w
    BY <1>5, <1>6, <1>7, <2>1, <2>2
  <2>4. QED
    BY <1>5, <1>6, <1>7, <2>1, <2>3
<1>9. Len(m.items) = k + 1 /\ (\A i \in 1 .. k : m.items[i] = n.items[i]) /\ m.items[k + 1] = q
  BY <1>0, <1>2, AppendProperties
<1>10. n.type = "object" => Len(n.names) = k + 1 /\ Stored(n.mem, n.names[k + 1], name, bound)
  BY <1>2 DEF Titles
<1>11. ASSUME NEW i \in 1 .. k + 1
       PROVE  \E s : /\ m.type = "object" => Stored(m.mem, m.names[i], s, bound)
                     /\ x[i] = Member(m.type, s, worth[m.items[i]])
  <2>1. CASE i = k + 1
    <3>1. x[i] = Member(m.type, name, worth[m.items[i]])
      BY <1>0, <1>3, <1>8, <1>9, <2>1
    <3>2. m.type = "object" => Stored(m.mem, m.names[i], name, bound)
      BY <1>0, <1>10, <2>1
    <3>3. QED
      BY <3>1, <3>2
  <2>2. CASE i # k + 1
    <3>1. i \in 1 .. k
      BY <1>7, <2>2
    <3>2. PICK s : /\ n.type = "object" => Stored(n.mem, n.names[i], s, bound)
                   /\ made[i] = Member(n.type, s, value[n.items[i]])
      BY <1>1, <1>7, <3>1
    <3>3. worth[m.items[i]] = value[n.items[i]] /\ x[i] = made[i]
      BY <1>0, <1>2, <1>8, <1>9, <3>1
    <3>4. QED
      BY <1>0, <3>2, <3>3
  <2>3. QED
    BY <2>1, <2>2
<1>12. Lists(m, x, worth, bound)
  BY <1>0, <1>8, <1>9, <1>11 DEF Lists
<1>13. n.type = "object" => \A other : Titles(m, other, bound, 0)
  BY <1>0, <1>7, <1>9, <1>10 DEF Titles
<1>14. QED
  BY <1>3, <1>4, <1>6, <1>12, <1>13

\* The other values stay.
LEMMA CompletedSame ==
  ASSUME NEW k \in Nat, NEW ns \in [1 .. k -> Node], NEW v \in 1 .. k, NEW p, p = ns[v].parent, p \in 0 .. k
  PROVE  /\ \A w \in 1 .. k : w # p => Completed(ns, v)[w] = ns[w]
         /\ p # 0 => Completed(ns, v)[p] = Holding(ns[p], v)
<1>1. CASE p = 0
  BY <1>1 DEF Completed
<1>2. CASE p # 0
  <2>1. PICK r : r = Holding(ns[p], v)
    OBVIOUS
  <2>2. Completed(ns, v) = [ns EXCEPT ![p] = r]
    BY <1>2, <2>1 DEF Completed
  <2>3. p \in 1 .. k
    BY <1>2
  <2>4. QED
    BY <2>1, <2>2, <2>3
<1>3. QED
  BY <1>1, <1>2

\* A value of which only those around it change, or that is complete now.
LEMMA HeldStands ==
  ASSUME NEW c, NEW d, NEW g, NEW h, NEW v, NEW n, Held(c, g, n, v),
         c.chars[v] \in Nat, d.chars[v] = c.chars[v], h.made[v] = g.made[v], h.name[v] = g.name[v],
         n.type = "object" => Given(d, v) = Given(c, v),
         \A i \in 1 .. Len(n.items) : h.value[n.items[i]] = g.value[n.items[i]],
         v \in d.closed => Stands(n, h.made[v], h.value[v])
  PROVE  Held(d, h, n, v)
<1>1. PICK bound, made, x, y : bound = c.chars[v] /\ made = g.made[v] /\ x = g.value /\ y = h.value
  OBVIOUS
<1>2. ASSUME n.type \in Container PROVE Lists(n, h.made[v], h.value, d.chars[v])
  <2>1. Lists(n, made, x, bound) /\ bound \in Nat /\ bound <= bound
    BY <1>1, <1>2 DEF Held
  <2>2. \A i \in 1 .. Len(n.items) : y[n.items[i]] = x[n.items[i]]
    BY <1>1
  <2>3. Lists(n, made, y, bound)
    BY <2>1, <2>2, ListsKept
  <2>4. QED
    BY <1>1, <2>3
<1>3. n.type = "object" => Titles(n, h.name[v], d.chars[v], Given(d, v))
  BY DEF Held
<1>4. QED
  BY <1>2, <1>3 DEF Held

\* The value q in p is complete.
LEMMA CompletedHolds ==
  ASSUME NEW c, NEW d, NEW f, NEW g, NEW h, Turn(c, d, f, g, h),
         NEW p \in 0 .. c.n, NEW q \in 1 .. d.n, q # p, q \notin c.closed, d.closed = c.closed \cup {q},
         d.top = (IF p = 0 THEN q ELSE p), c.top \in {p, q},
         \A v \in 1 .. c.n : d.chars[v] = c.chars[v],
         ~(TopKind(c) = "object" /\ In(c, "string")), ~In(d, "string"),
         p # 0 => /\ p \in Unclosed(c) /\ c.type[p] \in Container /\ Given(c, p) = 1 /\ ~In(d, "done")
                  /\ c.type[p] = "object" => ~In(d, "seek_value"),
         \A v \in 1 .. d.n : v > c.n => v = q,
         NEW STATE ns, ns \in [1 .. f.n -> Node], \A w \in 1 .. f.n : w # q => ns[w] = nodes[w],
         ns[q].parent = p, ns[q].type = nodes[q].type, ns[q].integer = nodes[q].integer,
         nodes' = Completed(ns, q), Held(d, h, ns[q], q)
  PROVE  Holds(d, h)' /\ KeepsNumbers(nodes', f.n)
<1>1. /\ c.n \in Nat /\ d.n \in Nat /\ f.n \in Nat /\ c.n <= d.n /\ d.n <= f.n /\ c.closed \subseteq 1 .. c.n
      /\ nodes \in [1 .. f.n -> Node] /\ nodes' \in [1 .. f.n -> Node]
      /\ Second(c, f) /\ Holds(c, g) /\ h = Tracked(c, d, g, text) /\ pass = 2
  BY TurnFacts DEF Turn
<1>2. q \in 1 .. f.n /\ p \in 0 .. f.n
  BY <1>1
<1>3. /\ \A w \in 1 .. f.n : w # p => nodes'[w] = ns[w]
      /\ p # 0 => nodes'[p] = Holding(ns[p], q)
  <2>1. PICK k, co : k = f.n /\ co = Completed(ns, q)
    OBVIOUS
  <2>2. k \in Nat /\ ns \in [1 .. k -> Node] /\ q \in 1 .. k /\ p \in 0 .. k /\ p = ns[q].parent
    BY <1>1, <1>2, <2>1
  <2>3. /\ \A w \in 1 .. k : w # p => co[w] = ns[w]
        /\ p # 0 => co[p] = Holding(ns[p], q)
    BY <2>1, <2>2, CompletedSame
  <2>4. QED
    BY <2>1, <2>3
<1>4. Completing(c, d)
  BY DEF Completing
<1>5. PICK y : y = Yield(c, d, g, text)
  OBVIOUS
<1>6. /\ \A v \in 1 .. d.n : h.value[v] = IF v \in d.closed \ c.closed THEN y ELSE g.value[v]
      /\ \A v \in 1 .. d.n : h.name[v] = IF TopKind(c) = "object" /\ In(c, "string") /\ ~In(d, "string") /\ v = c.top
                                         THEN g.bytes ELSE g.name[v]
      /\ \A v \in 1 .. d.n : h.made[v] = IF v > c.n THEN <<>>
                                         ELSE IF Completing(c, d) /\ ~In(d, "done") /\ v = d.top
                                              THEN Enlarged(c, g, v, y)
                                         ELSE g.made[v]
  BY <1>1, <1>5, TrackedFields
<1>7. h.value[q] = y
  BY <1>6
<1>8. \A w \in c.closed : h.value[w] = g.value[w]
  BY <1>1, TrackedClosed
<1>9. ASSUME NEW v \in 1 .. d.n, v # p, v # q PROVE Held(d, h, nodes'[v], v)
  <2>1. v \in 1 .. c.n /\ v \in 1 .. f.n
    BY <1>1, <1>9
  <2>2. v # c.top /\ v # d.top
    BY <1>9
  <2>3. Given(d, v) = Given(c, v)
    BY <1>9, <2>1, <2>2, <1>1 DEF Given, Unclosed
  <2>4. v \in d.closed => v \in c.closed
    BY <1>9
  <2>5. Held(d, h, nodes[v], v)
    BY <1>1, <2>1, <2>2, <2>3, <2>4, HeldSame
  <2>6. QED
    BY <1>3, <1>9, <2>1, <2>5
<1>10. ASSUME p # 0 PROVE Held(d, h, nodes'[p], p)
  <2>1. p \in 1 .. c.n /\ p \in 1 .. f.n /\ p \in 1 .. d.n
    BY <1>1, <1>10
  <2>2. PICK n : n = nodes[p]
    OBVIOUS
  <2>3. PICK m : m = nodes'[p]
    OBVIOUS
  <2>4. n \in Node /\ ns[p] = n
    BY <1>1, <2>1, <2>2
  <2>5. m = Holding(n, q)
    BY <1>3, <1>10, <2>3, <2>4
  <2>6. m.items = Append(n.items, q) /\ m.type = n.type /\ m.mem = n.mem
    <3>1. q \in Nat
      BY <1>2
    <3>2. PICK o : o = Holding(n, q)
      OBVIOUS
    <3>3. o.items = Append(n.items, q) /\ o.type = n.type /\ o.mem = n.mem
      BY <1>1, <2>4, <3>1, <3>2, HoldingFields
    <3>4. QED
      BY <2>5, <3>2, <3>3
  <2>7. m.names = n.names
    BY <2>4, <2>5, HoldingKeeps
  <2>8. Held(c, g, n, p)
    BY <1>1, <2>1, <2>2 DEF Holds
  <2>9. /\ n.type = c.type[p] /\ c.chars[p] \in Nat /\ \A i \in 1 .. Len(n.items) : n.items[i] \in c.closed
    BY <1>1, <2>1, <2>2, SecondFacts
  <2>10. PICK bound, made, x, z, name : bound = c.chars[p] /\ made = g.made[p] /\ x = g.value /\ z = h.value /\ name = g.name[p]
    OBVIOUS
  <2>11. /\ Lists(n, made, x, bound)
         /\ n.type = "object" => Titles(n, name, bound, 1)
    BY <1>10, <2>8, <2>9, <2>10 DEF Held
  <2>12. /\ z[q] = y /\ \A i \in 1 .. Len(n.items) : z[n.items[i]] = x[n.items[i]]
    BY <1>7, <1>8, <2>9, <2>10
  <2>13. n.items \in Seq(Nat) /\ q \in Nat
    BY <1>2, <2>4 DEF Node
  <2>14. PICK more : more = made \o <<Member(n.type, name, y)>>
    OBVIOUS
  <2>15. /\ Lists(m, more, z, bound)
         /\ n.type = "object" => \A other : Titles(m, other, bound, 0)
    <3>1. Enlarges(n, m, x, z, q, y)
      BY <2>6, <2>7, <2>12, <2>13 DEF Enlarges
    <3>2. QED
      BY <2>11, <2>14, <3>1, ListsAdded
  <2>16. h.made[p] = more
    <3>1. h.made[p] = Enlarged(c, g, p, y)
      BY <1>1, <1>4, <1>6, <1>10, <2>1
    <3>2. QED
      BY <2>9, <2>10, <2>14, <3>1 DEF Enlarged
  <2>17. d.chars[p] = bound /\ p \notin d.closed
    BY <1>10, <2>1, <2>10 DEF Unclosed
  <2>18. n.type = "object" => Given(d, p) = 0
    BY <1>10, <2>9 DEF Given
  <2>19. m.type = "object" => Titles(m, h.name[p], d.chars[p], Given(d, p))
    BY <2>6, <2>15, <2>17, <2>18
  <2>20. Lists(m, h.made[p], h.value, d.chars[p])
    BY <2>10, <2>15, <2>16, <2>17
  <2>21. QED
    BY <2>3, <2>17, <2>19, <2>20 DEF Held
<1>11. Held(d, h, nodes'[q], q)
  BY <1>2, <1>3
<1>12. \A v \in 1 .. d.n : Held(d, h, nodes'[v], v)
  BY <1>9, <1>10, <1>11
<1>13. \A v \in DOMAIN nodes' : v > d.n => Len(nodes'[v].names) = 0
  <2>1. ASSUME NEW v \in 1 .. f.n, v > d.n PROVE nodes'[v] = nodes[v]
    <3>1. v # p /\ v # q
      BY <1>1, <2>1
    <3>2. QED
      BY <1>3, <3>1
  <2>2. ASSUME NEW v \in 1 .. f.n, v > d.n PROVE Len(nodes[v].names) = 0
    <3>1. v > c.n
      BY <1>1, <2>2
    <3>2. QED
      BY <1>1, <3>1 DEF Holds
  <2>3. QED
    BY <1>1, <2>1, <2>2
<1>14. KeepsNumbers(nodes', f.n)
  <2>0. PICK k, co : k = f.n /\ co = Completed(ns, q)
    OBVIOUS
  <2>1. k \in Nat /\ ns \in [1 .. k -> Node] /\ q \in 1 .. k /\ ns[q].parent \in 0 .. k
    BY <1>1, <1>2, <2>0
  <2>2. \A w \in 1 .. k : co[w].integer = ns[w].integer
    BY <2>0, <2>1, CompletedKeeps
  <2>3. \A w \in 1 .. k : co[w].type = ns[w].type
    BY <2>0, <2>1, CompletedFields
  <2>4. \A w \in 1 .. f.n : ns[w].type = nodes[w].type /\ ns[w].integer = nodes[w].integer
    OBVIOUS
  <2>5. QED
    BY <2>0, <2>2, <2>3, <2>4 DEF KeepsNumbers
<1>15. QED
  BY <1>12, <1>13, <1>14 DEF Holds

\* The token that completes the value being read.
LEMMA EndToken ==
  ASSUME NEW c, NEW d, NEW t, Regular(c), Leads(c, d, t), d.n = c.n, d.closed # c.closed,
         ~In(c, "done"), ~Commented(c), TopKind(c) \in Container \cup {"string"},
         TopKind(c) = "object" => ~In(c, "seek_value") /\ ~In(c, "string"),
         TopKind(c) = "string" => In(c, "string")
  PROVE  \/ TopKind(c) = "string" /\ In(c, "string") /\ ~In(c, "escaped") /\ t[c.ptr] = "quote"
         \/ TopKind(c) = "array" /\ ~In(c, "string") /\ t[c.ptr] = "]"
         \/ TopKind(c) = "object" /\ ~In(c, "string") /\ ~In(c, "seek_value") /\ t[c.ptr] = "rbrace"
<1>1. PICK b : b = t[c.ptr]
  OBVIOUS
<1>2. \A x : ~GoesOn(c, d, x) /\ ~OpensValue(c, d, x) /\ ~AddsClosed(c, d, x)
  BY DEF GoesOn, KeepsValues, OpensValue, AddsClosed, AddsValue, Regular, Typed
<1>3. ~Writes(c, d, b) /\ ~BeginsName(c, d) /\ ~Names(c, d) /\ ~Uncomments(c, d)
  BY DEF Writes, BeginsName, Names, Uncomments, KeepsValues
<1>4. In(c, "string") => TopKind(c) \in {"string", "object"}
  BY DEF Regular, Modes
<1>5. CASE In(c, "string")
  <2>1. InString(c, d, b)
    BY <1>1, <1>5 DEF Leads
  <2>2. QED
    BY <1>1, <1>2, <1>3, <1>4, <1>5, <2>1 DEF InString
<1>6. CASE ~In(c, "string")
  <2>1. ~In(c, "line_comment") /\ ~In(c, "block_comment")
    BY DEF Commented
  <2>2. b \notin {"//", "/*"}
    BY <1>1, <1>2, <1>6, <2>1 DEF Leads, IntoComment
  <2>3. CASE In(c, "seek_value")
    <3>1. Seeking(c, d, t, b)
      BY <1>1, <1>6, <2>1, <2>2, <2>3 DEF Leads
    <3>2. QED
      BY <1>1, <1>2, <1>6, <3>1 DEF Seeking
  <2>4. CASE ~In(c, "seek_value")
    <3>1. BetweenEntries(c, d, b)
      BY <1>1, <1>6, <2>1, <2>2, <2>4 DEF Leads
    <3>2. TopKind(c) = "object"
      BY <1>6, <2>4 DEF Regular, Modes
    <3>3. QED
      BY <1>1, <1>2, <1>3, <1>6, <2>4, <3>1, <3>2 DEF BetweenEntries
  <2>5. QED
    BY <2>3, <2>4
<1>7. QED
  BY <1>5, <1>6

\* What it is complete as.
LEMMA ClosedYield ==
  ASSUME NEW c, NEW d, NEW g, NEW t, Whole(t), Regular(c), Regular(d), Neat(c), Agrees(c, g, t), Leads(c, d, t),
         NEW y, Closes(c, d, y), y \subseteq c.flags, "string" \notin y,
         ~In(c, "done"), ~Commented(c), TopKind(c) \in Container \cup {"string"},
         TopKind(c) = "object" => ~In(c, "seek_value") /\ ~In(c, "string"),
         TopKind(c) = "string" => In(c, "string")
  PROVE  /\ TopKind(c) = "string" => Yield(c, d, g, t) = [type |-> "string", bytes |-> g.bytes]
         /\ TopKind(c) # "string" => Yield(c, d, g, t) = [type |-> TopKind(c), items |-> g.made[c.top]]
<1>1. d.n = c.n /\ d.closed # c.closed
  BY DEF Closes, Regular, Modes
<1>2. \/ TopKind(c) = "string" /\ In(c, "string") /\ ~In(c, "escaped") /\ t[c.ptr] = "quote"
      \/ TopKind(c) = "array" /\ ~In(c, "string") /\ t[c.ptr] = "]"
      \/ TopKind(c) = "object" /\ ~In(c, "string") /\ ~In(c, "seek_value") /\ t[c.ptr] = "rbrace"
  BY <1>1, EndToken
<1>3. PICK x, z : x = [type |-> "string", bytes |-> g.bytes] /\ z = [type |-> TopKind(c), items |-> g.made[c.top]]
  OBVIOUS
<1>4. /\ c.n > 0 /\ c.ptr + 1 \in 1 .. Len(t)
      /\ TopKind(c) = "string" => Expected(c, g, t) = Result(x, c.ptr + 1)
      /\ TopKind(c) # "string" => Expected(c, g, t) = Result(z, c.ptr + 1)
  BY <1>2, <1>3, ExpectedEnd
<1>5. "escaped" \notin y
  BY <1>2 DEF In, Neat
<1>6. ASSUME TopKind(c) = "string" PROVE Yield(c, d, g, t) = x
  BY <1>4, <1>5, <1>6, ClosesWell
<1>7. ASSUME TopKind(c) # "string" PROVE Yield(c, d, g, t) = z
  BY <1>4, <1>5, <1>7, ClosesWell
<1>8. QED
  BY <1>3, <1>6, <1>7

LEMMA ValueClosedHolds ==
  ASSUME NEW c, NEW d, NEW f, NEW g, NEW h, Turn(c, d, f, g, h), ValueClosed(c)
  PROVE  Holds(d, h)' /\ KeepsNumbers(nodes', f.n)
<1>1. /\ c.n \in Nat /\ d.n \in Nat /\ f.n \in Nat /\ c.n <= f.n /\ Regular(c) /\ Regular(d) /\ Leads(c, d, text)
      /\ Leads(c, d, text') /\ nodes \in [1 .. f.n -> Node] /\ text' = text /\ pass = 2 /\ c.closed \subseteq 1 .. c.n
      /\ top = c.top /\ Here(c) /\ \A v \in 1 .. c.n : nodes[v].type = c.type[v]
  BY TurnFacts
<1>2. /\ Second(c, f) /\ Holds(c, g) /\ h = Tracked(c, d, g, text) /\ Neat(c) /\ Whole(text) /\ Agrees(c, g, text)
      /\ string_length \in Nat
  BY <1>1 DEF Turn, Here
<1>3. PICK x : /\ NextFlag(ClosedTop, top, x) /\ x \subseteq flags /\ "string" \notin x /\ "seek_value" \notin x
               /\ ~In(c, "done") /\ ~Commented(c) /\ TopKind(c) \in Container \cup {"string"}
               /\ TopKind(c) = "object" => ~In(c, "seek_value") /\ ~In(c, "string")
               /\ TopKind(c) = "string" => In(c, "string")
               /\ Closes(c, d, x \ NumberFlags)
  BY <1>1 DEF ValueClosed
<1>4. PICK y : y = x \ NumberFlags
  OBVIOUS
<1>5. y \subseteq c.flags /\ "string" \notin y /\ "seek_value" \notin y /\ "done" \notin y /\ Closes(c, d, y)
  BY <1>1, <1>3, <1>4 DEF Here, In
<1>6. PICK q : q = c.top
  OBVIOUS
<1>7. PICK p : p = c.parent[c.top]
  OBVIOUS
<1>8. c.top # 0
  BY <1>3 DEF TopKind, Container
<1>9. /\ q \in 1 .. c.n /\ q \in Unclosed(c) /\ p \in 0 .. c.n /\ p < q /\ (p # 0 => c.type[p] \in Container)
  BY <1>1, <1>3, <1>6, <1>7, <1>8, TopIn
<1>10. /\ d.flags = Behind(c, p, y) /\ d.top = (IF p = 0 THEN q ELSE p) /\ d.n = c.n /\ d.chars = c.chars
       /\ d.closed = c.closed \cup {q}
  BY <1>5, <1>6, <1>7 DEF Closes
<1>11. q # p /\ q \notin c.closed /\ q \in 1 .. d.n /\ q \in 1 .. f.n
  BY <1>1, <1>9, <1>10 DEF Unclosed
<1>12. ~In(d, "string") /\ (p # 0 => ~In(d, "done")) /\ (p # 0 /\ c.type[p] = "object" => ~In(d, "seek_value"))
  BY <1>5, <1>10 DEF Behind, In
<1>13. p # 0 => p \in Unclosed(c) /\ Given(c, p) = 1
  <2>1. p # 0 => q # 1
    BY <1>1, <1>6, <1>7, <1>9 DEF Regular, Family
  <2>2. p # 0 => p \in Unclosed(c)
    BY <1>1, <1>6, <1>7, <1>9, <2>1 DEF Regular, Family
  <2>3. QED
    BY <1>6, <1>11, <2>2 DEF Given
<1>14. ~(TopKind(c) = "object" /\ In(c, "string"))
  BY <1>3
<1>15. PICK ct : ct = ClosedTop
  OBVIOUS
<1>16. nodes' = Completed(ct, q)
  BY <1>1, <1>3, <1>6, <1>15 DEF NextFlag
<1>17. /\ ct \in [1 .. f.n -> Node] /\ ct[q].type = nodes[q].type /\ ct[q].parent = p
  <2>1. /\ ct \in [1 .. f.n -> Node] /\ ct[q].type = nodes[q].type /\ ct[q].parent = nodes[q].parent
    BY <1>1, <1>2, <1>6, <1>11, <1>15, ClosedTopFields
  <2>2. nodes[q].parent = c.parent[q]
    BY <1>2, <1>9, SecondFacts
  <2>3. QED
    BY <1>6, <1>7, <2>1, <2>2
<1>18. StringAt \in Nat
  <2>1. top \in 1 .. f.n
    BY <1>1, <1>6, <1>11
  <2>2. nodes[top] \in Node
    BY <1>1, <2>1
  <2>3. nodes[top].reserved \in Nat
    BY <2>2 DEF Node
  <2>4. QED
    BY <2>3 DEF StringAt, Top
<1>19. /\ \A w \in 1 .. f.n : w # q \/ nodes[w].type # "string" => ct[w] = nodes[w]
       /\ ct[q].integer = nodes[q].integer
       /\ nodes[q].type = "string" => \A i \in 1 .. Len(nodes[q].mem) : ct[q].mem[i] =
                IF i = StringAt + string_length + 1 THEN "nul" ELSE nodes[q].mem[i]
  BY <1>1, <1>2, <1>6, <1>11, <1>15, <1>18, ClosedTopKeeps
<1>20. PICK z : z = Yield(c, d, g, text)
  OBVIOUS
<1>21. /\ TopKind(c) = "string" => z = [type |-> "string", bytes |-> g.bytes]
       /\ TopKind(c) # "string" => z = [type |-> TopKind(c), items |-> g.made[c.top]]
  BY <1>1, <1>2, <1>3, <1>5, <1>20, ClosedYield
<1>22. /\ \A v \in 1 .. d.n : h.value[v] = IF v \in d.closed \ c.closed THEN z ELSE g.value[v]
       /\ \A v \in 1 .. d.n : h.name[v] = IF TopKind(c) = "object" /\ In(c, "string") /\ ~In(d, "string") /\ v = c.top
                                          THEN g.bytes ELSE g.name[v]
       /\ \A v \in 1 .. d.n : h.made[v] = IF v > c.n THEN <<>>
                                          ELSE IF Completing(c, d) /\ ~In(d, "done") /\ v = d.top
                                               THEN Enlarged(c, g, v, z)
                                          ELSE g.made[v]
  BY <1>1, <1>2, <1>20, TrackedFields
<1>23. h.value[q] = z /\ h.name[q] = g.name[q]
  BY <1>10, <1>11, <1>14, <1>22
<1>24. h.made[q] = g.made[q]
  <2>1. ~(~In(d, "done") /\ q = d.top)
    BY <1>10, <1>11 DEF Behind, In
  <2>2. ~(q > c.n)
    BY <1>1, <1>9
  <2>3. QED
    BY <1>11, <1>22, <2>1, <2>2
<1>25. PICK n : n = ct[q]
  OBVIOUS
<1>26. TopKind(c) = n.type /\ n.type = c.type[q]
  BY <1>1, <1>6, <1>8, <1>9, <1>17, <1>25 DEF TopKind
<1>27. ASSUME TopKind(c) # "string" PROVE Held(d, h, n, q)
  <2>1. n = nodes[q]
    BY <1>11, <1>17, <1>19, <1>25, <1>26, <1>27
  <2>2. Held(c, g, n, q)
    BY <1>2, <1>9, <2>1 DEF Holds
  <2>3. c.chars[q] \in Nat /\ \A i \in 1 .. Len(n.items) : n.items[i] \in c.closed
    BY <1>2, <1>9, <2>1, SecondFacts
  <2>4. \A w \in c.closed : h.value[w] = g.value[w]
    <3>1. d.n \in Nat /\ c.n <= d.n
      BY <1>1, <1>10
    <3>2. QED
      BY <1>1, <1>2, <3>1, TrackedClosed
  <2>5. \A i \in 1 .. Len(n.items) : h.value[n.items[i]] = g.value[n.items[i]]
    BY <2>3, <2>4
  <2>6. n.type = "object" => Given(d, q) = Given(c, q)
    BY <1>3, <1>6, <1>10, <1>26 DEF Given, Unclosed
  <2>7. Stands(n, h.made[q], h.value[q])
    <3>1. n.type \in Container /\ n.type \notin {"string", "literal"} \cup Numeric
      BY <1>3, <1>26, <1>27 DEF Container, Numeric
    <3>2. h.value[q] = [type |-> n.type, items |-> h.made[q]]
      BY <1>6, <1>21, <1>23, <1>24, <1>26, <1>27
    <3>3. QED
      BY <3>1, <3>2 DEF Stands
  <2>8. d.chars[q] = c.chars[q]
    BY <1>10
  <2>9. QED
    BY <1>23, <1>24, <2>2, <2>3, <2>5, <2>6, <2>7, <2>8, HeldStands
<1>28. ASSUME TopKind(c) = "string" PROVE Held(d, h, n, q)
  <2>1. PICK mem, ram : mem = nodes[q].mem /\ ram = n.mem
    OBVIOUS
  <2>2. PICK s, k, size : s = g.bytes /\ k = c.sl /\ size = Len(mem)
    OBVIOUS
  <2>3. In(c, "string") /\ c.type[q] = "string" /\ nodes[q].type = "string"
    BY <1>3, <1>17, <1>25, <1>26, <1>28
  <2>4. /\ StringAt = 0 /\ WrittenAt(c) = 0 /\ string_length = k /\ k \in Nat /\ size \in Nat /\ 0 + k + 1 <= size
    BY <1>1, <1>2, <1>6, <2>1, <2>2, <2>3, StringPlace
  <2>5. Begun(mem, 0, s, k)
    BY <1>2, <1>6, <2>1, <2>2, <2>3, <2>4 DEF Holds
  <2>6. \A i \in 1 .. size : ram[i] = IF i = 0 + k + 1 THEN "nul" ELSE mem[i]
    BY <1>19, <1>25, <2>1, <2>2, <2>3, <2>4
  <2>7. Stored(ram, 0, s, 0 + k + 1)
    <3>1. PICK at : at = 0
      OBVIOUS
    <3>2. /\ at \in Nat /\ k \in Nat /\ size \in Nat /\ Begun(mem, at, s, k) /\ at + k + 1 <= size
          /\ \A i \in 1 .. size : ram[i] = IF i = at + k + 1 THEN "nul" ELSE mem[i]
      BY <2>4, <2>5, <2>6, <3>1
    <3>3. Stored(ram, at, s, at + k + 1)
      BY <3>2, StoredHere
    <3>4. QED
      BY <3>1, <3>3
  <2>8. Len(ram) = size
    BY <1>1, <1>2, <1>6, <1>11, <1>15, <1>25, <2>1, <2>2, ClosedTopFields
  <2>9. Stored(ram, 0, s, size)
    <3>1. PICK bound : bound = 0 + k + 1
      OBVIOUS
    <3>2. Stored(ram, 0, s, bound) /\ bound \in Nat /\ bound <= size
      BY <2>4, <2>7, <3>1
    <3>3. QED
      BY <2>4, <3>2, StoredKept
  <2>10. h.value[q] = [type |-> "string", bytes |-> s]
    BY <1>21, <1>23, <1>28, <2>2
  <2>11. n.type = "string" /\ n.type \notin Container \cup {"literal", "object"} \cup Numeric
    BY <1>26, <1>28 DEF Container, Numeric
  <2>12. Stands(n, h.made[q], h.value[q])
    BY <2>1, <2>8, <2>9, <2>10, <2>11 DEF Stands
  <2>13. QED
    BY <2>11, <2>12 DEF Held
<1>29. Held(d, h, ct[q], q)
  BY <1>25, <1>27, <1>28
<1>30. /\ \A v \in 1 .. c.n : d.chars[v] = c.chars[v]
       /\ c.top \in {p, q}
       /\ \A v \in 1 .. d.n : v > c.n => v = q
       /\ \A w \in 1 .. f.n : w # q => ct[w] = nodes[w]
  BY <1>1, <1>6, <1>10, <1>19
<1>31. QED
  BY <1>9, <1>10, <1>11, <1>12, <1>13, <1>14, <1>16, <1>17, <1>19, <1>29, <1>30, CompletedHolds

\* The value that the first pass has left for this place.
LEMMA TakenNew ==
  ASSUME NEW c, NEW d, NEW f, NEW g, NEW h, Turn(c, d, f, g, h), d.n = c.n + 1, NewValue, NEW type,
         NEW wn, wn = WithNew(type), NEW q, q = c.n + 1
  PROVE  /\ New = q /\ q \in 1 .. f.n /\ q > c.n /\ q # 0 /\ c.n < f.n
         /\ wn \in [1 .. f.n -> Node] /\ \A w \in 1 .. f.n : w # q => wn[w] = nodes[w]
         /\ wn[q].type = d.type[q] /\ wn[q].parent = d.parent[q] /\ wn[q].type = nodes[q].type
         /\ wn[q].integer = nodes[q].integer /\ Len(wn[q].items) = 0 /\ Len(wn[q].names) = 0
<1>1. /\ c.n \in Nat /\ d.n \in Nat /\ f.n \in Nat /\ c.n <= f.n /\ d.n <= f.n /\ Later(d, f)
      /\ nodes \in [1 .. f.n -> Node] /\ pass = 2 /\ Second(c, f) /\ Holds(c, g)
  BY TurnFacts DEF Turn
<1>2. c.n < f.n /\ q \in 1 .. f.n /\ q > c.n /\ q # 0 /\ q \in 1 .. d.n
  BY <1>1
<1>3. New = q /\ Taken(wn, f, q)
  BY <1>1, <1>2, SecondNew
<1>4. /\ wn \in [1 .. f.n -> Node] /\ \A w \in 1 .. f.n : w # q => wn[w] = nodes[w]
      /\ wn[q].type = f.type[q] /\ wn[q].parent = f.parent[q] /\ wn[q].items = <<>>
  BY <1>3 DEF Taken
<1>5. f.type[q] = d.type[q] /\ f.parent[q] = d.parent[q]
  BY <1>1, <1>2 DEF Later
<1>6. nodes[q].type = f.type[q] /\ alloc = q
  BY <1>1, <1>2 DEF Second, Allocated
<1>7. wn[q].integer = nodes[q].integer /\ wn[q].names = nodes[q].names
  BY <1>1, <1>2, <1>6, NewSecondKeeps
<1>8. Len(nodes[q].names) = 0
  BY <1>1, <1>2 DEF Holds
<1>9. Len(wn[q].items) = 0
  BY <1>4, EmptySequence
<1>10. QED
  BY <1>2, <1>3, <1>4, <1>5, <1>6, <1>7, <1>8, <1>9

LEMMA ValueOpenedHolds ==
  ASSUME NEW c, NEW d, NEW f, NEW g, NEW h, Turn(c, d, f, g, h), ValueOpened(c)
  PROVE  Holds(d, h)' /\ KeepsNumbers(nodes', f.n)
<1>1. /\ c.n \in Nat /\ d.n \in Nat /\ f.n \in Nat /\ c.n <= f.n /\ d.n <= f.n /\ c.closed \subseteq 1 .. c.n
      /\ nodes \in [1 .. f.n -> Node] /\ Leads(c, d, text') /\ Later(d, f) /\ c.n <= d.n
  BY TurnFacts
<1>2. /\ Second(c, f) /\ Holds(c, g) /\ h = Tracked(c, d, g, text)
  BY DEF Turn
<1>3. PICK b \in {"[", "lbrace", "quote"} :
        /\ Opens(b, OpenedKind(b)) /\ In(c, "seek_value") /\ ~In(c, "string") /\ OpensValue(c, d, b)
  BY <1>1 DEF ValueOpened
<1>4. PICK q : q = c.n + 1
  OBVIOUS
<1>5. /\ d.n = q /\ d.top = q /\ d.closed = c.closed /\ d.sl = 0
      /\ d.flags = (c.flags \ {"seek_value"}) \cup OpenedFlags(b)
      /\ d.type[q] = OpenedKind(b) /\ \A v \in 1 .. c.n : d.chars[v] = c.chars[v]
  BY <1>1, <1>3, <1>4 DEF OpensValue, AddsValue
<1>6. NewValue /\ nodes' = WithNew(OpenedKind(b))
  BY <1>3 DEF Opens
<1>7. PICK wn : wn = WithNew(OpenedKind(b))
  OBVIOUS
<1>8. /\ q \in 1 .. f.n /\ q > c.n /\ q # 0
      /\ wn \in [1 .. f.n -> Node] /\ \A w \in 1 .. f.n : w # q => wn[w] = nodes[w]
      /\ wn[q].type = d.type[q] /\ wn[q].type = nodes[q].type
      /\ wn[q].integer = nodes[q].integer /\ Len(wn[q].items) = 0 /\ Len(wn[q].names) = 0
  BY <1>4, <1>5, <1>6, <1>7, TakenNew
<1>9. nodes' = wn
  BY <1>6, <1>7
<1>10. q \notin c.closed
  BY <1>1, <1>8
<1>11. ASSUME NEW v \in 1 .. c.n PROVE Held(d, h, nodes'[v], v)
  <2>1. v # q /\ v \in 1 .. f.n /\ v # d.top
    BY <1>1, <1>5, <1>8
  <2>2. Given(d, v) = Given(c, v)
    BY <1>3, <1>1, <1>5, <2>1 DEF Given, Unclosed
  <2>3. ~Completing(c, d)
    BY <1>5 DEF Completing
  <2>4. Held(d, h, nodes[v], v)
    BY <1>1, <1>2, <1>3, <1>5, <2>2, <2>3, HeldSame
  <2>5. QED
    BY <1>8, <1>9, <2>1, <2>4
<1>12. PICK e : e = <<>>
  OBVIOUS
<1>13. e \in Seq(Token) /\ Len(e) = 0 /\ IsSeq(e)
  BY <1>12, EmptySequence DEF IsSeq
<1>14. PICK y : y = Yield(c, d, g, text)
  OBVIOUS
<1>15. h.made[q] = e /\ h.bytes = e
  <2>1. \A v \in 1 .. d.n : h.made[v] = IF v > c.n THEN e
                                          ELSE IF Completing(c, d) /\ ~In(d, "done") /\ v = d.top
                                               THEN Enlarged(c, g, v, y)
                                          ELSE g.made[v]
    BY <1>2, <1>12, <1>14, TrackedFields
  <2>2. h.bytes = IF ~In(c, "string") \/ ~In(d, "string") THEN e
                      ELSE IF d.sl # c.sl THEN g.bytes \o Bytes(text[c.ptr])
                      ELSE g.bytes
    BY <1>2, <1>12, <1>14, TrackedFields
  <2>3. q \in 1 .. d.n
    BY <1>5, <1>8
  <2>4. h.made[q] = e
    BY <1>8, <2>1, <2>3
  <2>5. QED
    BY <1>3, <2>2, <2>4
<1>16. Held(d, h, wn[q], q)
  <2>1. PICK n : n = wn[q]
    OBVIOUS
  <2>2. Len(n.items) = 0 /\ Len(n.names) = 0
    BY <1>8, <2>1
  <2>3. ASSUME NEW value, NEW bound PROVE Lists(n, e, value, bound)
    BY <1>13, <2>2 DEF Lists
  <2>4. n.type = "object" => Given(d, q) = 0
    <3>1. n.type = "object" => b = "lbrace"
      BY <1>5, <1>8, <2>1 DEF OpenedKind
    <3>2. b = "lbrace" => ~In(d, "seek_value")
      BY <1>5 DEF In, OpenedFlags
    <3>3. QED
      BY <1>5, <3>1, <3>2 DEF Given
  <2>5. n.type = "object" => Titles(n, h.name[q], d.chars[q], Given(d, q))
    BY <2>2, <2>4 DEF Titles
  <2>6. q \notin d.closed
    BY <1>5, <1>10
  <2>7. QED
    BY <1>15, <2>1, <2>3, <2>5, <2>6 DEF Held
<1>17. \A v \in 1 .. d.n : Held(d, h, nodes'[v], v)
  <2>1. \A v \in 1 .. d.n : v \in 1 .. c.n \/ v = q
    BY <1>1, <1>4, <1>5
  <2>2. QED
    BY <1>9, <1>11, <1>16, <2>1
<1>18. Begun(nodes'[d.top].mem, WrittenAt(d), h.bytes, d.sl)
  BY <1>5, <1>13, <1>15 DEF Begun
<1>19. \A v \in DOMAIN nodes' : v > d.n => Len(nodes'[v].names) = 0
  <2>1. ASSUME NEW v \in 1 .. f.n, v > d.n PROVE Len(wn[v].names) = 0
    <3>1. v # q /\ v > c.n
      BY <1>1, <1>5, <1>8, <2>1
    <3>2. QED
      BY <1>1, <1>2, <1>8, <3>1 DEF Holds
  <2>2. QED
    BY <1>8, <1>9, <2>1
<1>21. Holds(d, h)'
  BY <1>17, <1>18, <1>19 DEF Holds
<1>22. KeepsNumbers(nodes', f.n)
  <2>1. \A v \in 1 .. f.n : wn[v].type = nodes[v].type /\ wn[v].integer = nodes[v].integer
    <3>1. TAKE v \in 1 .. f.n
    <3>2. CASE v = q
      BY <1>8, <3>2
    <3>3. CASE v # q
      BY <1>8, <3>3
    <3>4. QED
      BY <3>2, <3>3
  <2>2. QED
    BY <1>9, <2>1 DEF KeepsNumbers
<1>23. QED
  BY <1>21, <1>22

\* A value without content: x is what it means.
LEMMA AddedHolds ==
  ASSUME NEW c, NEW d, NEW f, NEW g, NEW h, Turn(c, d, f, g, h), NEW type \in Numeric \cup {"literal"},
         AddsClosed(c, d, type), In(c, "seek_value"), ~In(c, "string"), ~In(c, "done"),
         NEW kind, NewValue, NEW fl, NextFlag(WithNew(kind), New, fl),
         NEW x, Yield(c, d, g, text) = x, type = "literal" => x = [type |-> "literal"],
         type \in Numeric => x = NumberContent(nodes[c.n + 1])
  PROVE  Holds(d, h)' /\ KeepsNumbers(nodes', f.n)
<1>1. /\ c.n \in Nat /\ d.n \in Nat /\ f.n \in Nat /\ c.n <= d.n /\ d.n <= f.n /\ c.closed \subseteq 1 .. c.n
      /\ nodes \in [1 .. f.n -> Node] /\ Regular(c) /\ c.top \in 0 .. c.n
  BY TurnFacts
<1>2. h = Tracked(c, d, g, text)
  BY DEF Turn
<1>3. PICK q : q = c.n + 1
  OBVIOUS
<1>4. PICK p : p = c.top
  OBVIOUS
<1>5. /\ d.n = q /\ d.closed = c.closed \cup {q} /\ d.top = (IF p = 0 THEN q ELSE p)
      /\ d.type[q] = type /\ d.parent[q] = p
      /\ d.flags = Behind(c, p, c.flags \ {"seek_value"})
      /\ \A v \in 1 .. c.n : d.chars[v] = c.chars[v]
  BY <1>1, <1>3, <1>4 DEF AddsClosed, AddsValue
<1>6. PICK wn : wn = WithNew(kind)
  OBVIOUS
<1>7. /\ New = q /\ q \in 1 .. f.n /\ q > c.n /\ q # 0
      /\ wn \in [1 .. f.n -> Node] /\ \A w \in 1 .. f.n : w # q => wn[w] = nodes[w]
      /\ wn[q].type = d.type[q] /\ wn[q].parent = d.parent[q] /\ wn[q].type = nodes[q].type
      /\ wn[q].integer = nodes[q].integer
  BY <1>3, <1>5, <1>6, TakenNew
<1>8. nodes' = Completed(wn, q)
  BY <1>6, <1>7 DEF NextFlag
<1>9. q # p /\ q \notin c.closed /\ q \in 1 .. d.n /\ p \in 0 .. c.n
  BY <1>1, <1>4, <1>5, <1>7
<1>10. ~In(d, "string") /\ (p # 0 => ~In(d, "done")) /\ (p # 0 /\ c.type[p] = "object" => ~In(d, "seek_value"))
  BY <1>5 DEF Behind, In
<1>11. p # 0 => p \in Unclosed(c) /\ c.type[p] \in Container /\ Given(c, p) = 1
  <2>1. p # 0 => p \in 1 .. c.n /\ p \notin c.closed /\ TopKind(c) = c.type[p]
    BY <1>1, <1>4 DEF Regular, Modes, TopKind
  <2>2. p # 0 => c.type[p] \in Kind
    BY <1>1, <2>1 DEF Regular, Typed
  <2>3. TopKind(c) \in Container \cup {"none"}
    BY <1>1 DEF Regular, Modes
  <2>4. "none" \notin Kind
    BY DEF Kind, Container
  <2>5. QED
    BY <1>4, <2>1, <2>2, <2>3, <2>4 DEF Unclosed, Given
<1>12. Held(d, h, wn[q], q)
  <2>1. PICK n : n = wn[q]
    OBVIOUS
  <2>2. n.type = type /\ nodes[q].type = type /\ n.integer = nodes[q].integer
    BY <1>5, <1>7, <2>1
  <2>3. type \notin Container \cup {"object", "string"}
    BY DEF Container, Numeric
  <2>4. h.value[q] = x
    <3>1. \A v \in 1 .. d.n : h.value[v] = IF v \in d.closed \ c.closed THEN x ELSE g.value[v]
      BY <1>2, TrackedFields
    <3>2. QED
      BY <1>5, <1>9, <3>1
  <2>5. NumberContent(n) = NumberContent(nodes[q])
    BY <2>2 DEF NumberContent
  <2>6. "literal" \notin Numeric
    BY DEF Numeric
  <2>7. Stands(n, h.made[q], h.value[q])
    BY <1>3, <2>2, <2>3, <2>4, <2>5, <2>6 DEF Stands
  <2>8. QED
    BY <2>1, <2>2, <2>3, <2>7 DEF Held
<1>13. /\ \A v \in 1 .. d.n : v > c.n => v = q
       /\ wn[q].parent = p /\ c.top \in {p, q} /\ ~(TopKind(c) = "object" /\ In(c, "string"))
  BY <1>1, <1>3, <1>4, <1>5, <1>7
<1>14. QED
  BY <1>5, <1>7, <1>8, <1>9, <1>10, <1>11, <1>12, <1>13, CompletedHolds

LEMMA LiteralHolds ==
  ASSUME NEW c, NEW d, NEW f, NEW g, NEW h, Turn(c, d, f, g, h), LiteralRead(c)
  PROVE  Holds(d, h)' /\ KeepsNumbers(nodes', f.n)
<1>1. /\ Regular(c) /\ Regular(d) /\ Here(c) /\ Leads(c, d, text') /\ text' = text /\ ptr = c.ptr
  BY TurnFacts DEF Here
<1>2. Neat(c) /\ Whole(text) /\ Agrees(c, g, text) /\ Reading(c)
  BY DEF Turn
<1>3. /\ AddsClosed(c, d, "literal") /\ d.ptr = c.ptr + 1 /\ In(c, "seek_value") /\ ~In(c, "string") /\ ~In(c, "done")
      /\ Seeks("literal") /\ Begins /\ NewValue /\ NextFlag(WithNew("literal"), New, flags \ {"seek_value"})
  BY <1>1 DEF LiteralRead, Literal
<1>4. Starts(c) /\ ~Commented(c) /\ text[c.ptr] = "literal"
  <2>1. Starts(c)
    BY <1>1, <1>3, FlagsHere DEF Begins, Starts, Flag
  <2>2. ~Has("string") /\ ~InComment /\ Read("literal")
    BY <1>3 DEF Seeks, Outside
  <2>3. ~Commented(c)
    BY <1>1, <2>2, FlagsHere
  <2>4. "literal" \in Token
    BY DEF Token
  <2>5. text'[c.ptr] = "literal"
    BY <1>1, <2>2, <2>4, ReadHere
  <2>6. QED
    BY <1>1, <2>1, <2>3, <2>5
<1>5. c.ptr \in 1 .. Len(text) /\ At(text, c.ptr) = "literal" /\ c.ptr \in Places(text) /\ d.ptr \in 1 .. Len(text)
  <2>1. c.ptr \in 1 .. Len(text)
    BY <1>2 DEF Agrees
  <2>2. QED
    BY <1>2, <1>3, <1>4, <2>1, AheadHere
<1>6. PICK x : x = [type |-> "literal"]
  OBVIOUS
<1>7. ValueOf(text, c.ptr) = Result(x, d.ptr)
  BY <1>2, <1>3, <1>5, <1>6, GrammarValues
<1>8. text[c.ptr] \notin Blank \cup {"//", "/*", "]"}
  BY <1>4 DEF Blank
<1>9. Yield(c, d, g, text) = x
  BY <1>1, <1>2, <1>3, <1>4, <1>5, <1>7, <1>8, AddsAgrees
<1>10. "literal" \notin Numeric
  BY DEF Numeric
<1>11. QED
  BY <1>3, <1>6, <1>9, <1>10, AddedHolds

\* The value that the first pass has read is what the grammar has there.
LEMMA NumberHolds ==
  ASSUME NEW c, NEW d, NEW f, NEW g, NEW h, Turn(c, d, f, g, h), NEW b \in Token, NumberSkipped(b),
         \A type \in Numeric : AddsClosed(c, d, type) => IsRead(c, text, nodes[c.n + 1], d.ptr)
  PROVE  Holds(d, h)' /\ KeepsNumbers(nodes', f.n)
<1>1. /\ Regular(c) /\ Regular(d) /\ Here(c) /\ Leads(c, d, text') /\ text' = text /\ ptr = c.ptr /\ text \in Seq(Token)
  BY TurnFacts DEF Here
<1>2. Neat(c) /\ Whole(text) /\ Agrees(c, g, text)
  BY DEF Turn
<1>3. Seeks(b) /\ Begins /\ b \in Digit \cup {"-"} /\ NewValue /\ NextFlag(WithNew("integer"), New, flags \ {"seek_value"})
  BY DEF NumberSkipped
<1>4. /\ In(c, "seek_value") /\ ~In(c, "done") /\ ~In(c, "string") /\ Starts(c) /\ ~Commented(c)
      /\ Seeking(c, d, text', b) /\ text[c.ptr] = b
  <2>1. ~Has("string") /\ ~InComment /\ Read(b)
    BY <1>3 DEF Seeks, Outside
  <2>2. ~Commented(c)
    BY <1>1, <2>1, FlagsHere
  <2>3. text'[c.ptr] = b
    BY <1>1, <2>1, ReadHere
  <2>4. QED
    BY <1>1, <1>3, <2>2, <2>3, SeeksHere
<1>5. PICK type \in Numeric : AddsClosed(c, d, type)
  BY <1>1, <1>3, <1>4 DEF Seeking, Blank, Digit, Starts, Numeric
<1>6. IsNumber(text, c.ptr, d.ptr)
  BY <1>1, <1>3, <1>4 DEF Seeking, Blank, Digit, Starts
<1>7. c.ptr \in 1 .. Len(text) /\ c.ptr \in Places(text) /\ At(text, c.ptr) = b /\ d.ptr \in 1 .. Len(text)
  <2>1. c.ptr \in 1 .. Len(text)
    BY <1>2 DEF Agrees
  <2>2. Len(text) \in Nat
    BY <1>1, LenProperties
  <2>3. d.ptr \in 1 .. Len(text)
    BY <1>6, <2>1, <2>2 DEF IsNumber
  <2>4. QED
    BY <1>2, <1>4, <2>1, <2>3, AheadHere
<1>8. PICK x : x = NumberContent(nodes[c.n + 1])
  OBVIOUS
<1>9. ValueOf(text, c.ptr) = Result(x, d.ptr)
  <2>1. Extends(text, text)
    BY <1>1, ExtendsSelf
  <2>2. Number(text, c.ptr) = Result(x, d.ptr)
    BY <1>2, <1>5, <1>8, <2>1 DEF IsRead
  <2>3. QED
    BY <1>2, <1>3, <1>7, <2>2, GrammarValues
<1>10. text[c.ptr] \notin Blank \cup {"//", "/*", "]"}
  BY <1>3, <1>4 DEF Blank, Digit
<1>11. Yield(c, d, g, text) = x
  BY <1>1, <1>2, <1>4, <1>5, <1>7, <1>9, <1>10, AddsAgrees
<1>12. type # "literal"
  BY DEF Numeric
<1>13. QED
  BY <1>3, <1>4, <1>5, <1>8, <1>11, <1>12, AddedHolds

\* A name does not begin in a string.
LEMMA NameBeganOutside ==
  ASSUME NEW c, NEW d, NEW t, Regular(c), Leads(c, d, t), BeginsName(c, d), TopKind(c) = "object",
         ~In(c, "seek_value"), ~In(c, "done")
  PROVE  ~In(c, "string")
<1>1. SUFFICES ASSUME In(c, "string") PROVE FALSE
  OBVIOUS
<1>2. d.sl = 0 /\ d.flags = c.flags \cup {"string"} /\ d.closed = c.closed
  BY DEF BeginsName, KeepsValues
<1>3. InString(c, d, t[c.ptr])
  BY <1>1 DEF Leads
<1>4. ~GoesOn(c, d, c.flags \cup {"escaped"}) \/ In(c, "escaped")
  BY <1>1, <1>2 DEF GoesOn, In
<1>5. ~Names(c, d)
  BY <1>2 DEF Names, In
<1>6. \A b : ~Writes(c, d, b)
  <2>1. c.sl \in Nat
    BY DEF Regular, Typed
  <2>2. \A b : Width(b) \in 1 .. 4
    BY DEF Width
  <2>3. QED
    BY <1>2, <2>1, <2>2 DEF Writes
<1>7. QED
  BY <1>3, <1>4, <1>5, <1>6 DEF InString

\* A round of the second pass.
LEMMA TurnHolds ==
  ASSUME NEW c, NEW d, NEW f, NEW g, NEW h, Turn(c, d, f, g, h),
         Chosen(c) \/ \E b \in Token : NumberSkipped(b),
         \A type \in Numeric : AddsClosed(c, d, type) => IsRead(c, text, nodes[c.n + 1], d.ptr)
  PROVE  Holds(d, h)' /\ KeepsNumbers(nodes', f.n)
<1>1. Regular(c) /\ Leads(c, d, text')
  BY TurnFacts
<1>2. nodes' = nodes => KeepsNumbers(nodes', f.n)
  BY DEF KeepsNumbers
<1>3. ~Refused(c)
  BY <1>1 DEF Refused
<1>4. CASE Went(c)
  BY <1>2, <1>4, WentHolds
<1>5. CASE Uncommented(c)
  BY <1>2, <1>5, UncommentedHolds
<1>6. CASE Wrote(c)
  BY <1>6, WroteHolds
<1>7. CASE NameBegan(c)
  <2>1. BeginsName(c, d) /\ TopKind(c) = "object" /\ ~In(c, "seek_value") /\ ~In(c, "done")
    BY <1>1, <1>7 DEF NameBegan
  <2>2. ~In(c, "string")
    BY <1>1, <2>1, NameBeganOutside
  <2>3. QED
    BY <1>2, <1>7, <2>2, NameBeganHolds
<1>8. CASE NameEnded(c)
  BY <1>8, NameEndedHolds
<1>9. CASE ValueClosed(c)
  BY <1>9, ValueClosedHolds
<1>10. CASE ValueOpened(c)
  BY <1>10, ValueOpenedHolds
<1>11. CASE LiteralRead(c)
  BY <1>11, LiteralHolds
<1>12. CASE \E b \in Token : NumberSkipped(b)
  BY <1>12, NumberHolds
<1>13. QED
  BY <1>3, <1>4, <1>5, <1>6, <1>7, <1>8, <1>9, <1>10, <1>11, <1>12 DEF Chosen

-----------------------------------------------------------------------------
(* The second pass from its beginning to its end.                          *)

Refollowed(h, n, k) ==
  /\ Run(h, n, text) /\ Final(h[n], text) /\ Whole(text) /\ k \in 0 .. n /\ Second(h[k], h[n]) /\ Neat(h[k])
  /\ Numbered(h, n)
  /\ \E g : Agrees(h[k], g, text) /\ Holds(h[k], g)

LEMMA RefollowedBegins ==
  ASSUME NEW h, NEW n, FirstEnds(h, n)
  PROVE  Refollowed(h, n, 0)'
<1>1. /\ Run(h, n, text') /\ Final(h[n], text') /\ Second(Start, h[n])' /\ Whole(text') /\ Numbered(h, n)'
      /\ Nameless(nodes')
  BY DEF FirstEnds
<1>2. n \in Nat /\ h[0] = Start /\ 0 \in 0 .. n
  BY <1>1 DEF Run
<1>3. PICK g : g = 0
  OBVIOUS
<1>4. Agrees(Start, g, text')
  BY <1>1, StartAgrees
<1>5. Holds(Start, g)'
  <2>1. Start.n = 0 /\ ~In(Start, "string")
    BY StartFields DEF In
  <2>2. \A v \in DOMAIN nodes' : Len(nodes'[v].names) = 0
    BY <1>1, EmptySequence DEF Nameless
  <2>3. \A v : v \notin 1 .. Start.n
    BY <2>1
  <2>4. QED
    BY <2>1, <2>2, <2>3 DEF Holds
<1>6. QED
  BY <1>1, <1>2, <1>4, <1>5, StartNeat DEF Refollowed

LEMMA RefollowedStep ==
  ASSUME NEW h, NEW n, NEW k, Refollowed(h, n, k), k # n, Step
  PROVE  Refollowed(h, n, k + 1)' \/ \E b \in Token : OutOfMemory(b)
<1>1. /\ Run(h, n, text) /\ Final(h[n], text) /\ Whole(text) /\ k \in 0 .. n /\ Second(h[k], h[n]) /\ Neat(h[k])
      /\ Numbered(h, n)
  BY DEF Refollowed
<1>2. PICK c, f, m, d : c = h[k] /\ f = h[n] /\ m = k + 1 /\ d = h[m]
  OBVIOUS
<1>3. n \in Nat /\ k \in 0 .. n - 1 /\ m \in 0 .. n /\ m <= n /\ n \in 0 .. n
  BY <1>1, <1>2 DEF Run
<1>4. Regular(c) /\ Regular(d) /\ Later(d, f) /\ Leads(c, d, text)
  BY <1>1, <1>2, <1>3 DEF Run
<1>5. Second(c, f) /\ Neat(c)
  BY <1>1, <1>2
<1>6. PICK g : Agrees(c, g, text) /\ Holds(c, g)
  BY <1>2 DEF Refollowed
<1>7. text' = text /\ (Second(d, f)' \/ \E b \in Token : OutOfMemory(b))
  BY <1>4, <1>5, SecondStep
<1>8. SUFFICES ASSUME Second(d, f)', ~\E b \in Token : OutOfMemory(b) PROVE Refollowed(h, n, m)'
  BY <1>2, <1>7
<1>9. text \in Seq(Token) /\ pc = "parse" /\ pass = 2 /\ Here(c)
  BY <1>5 DEF Second, Here
<1>10. Reading(c) /\ (Chosen(c) \/ \E b \in Token : NumberSkipped(b))
  <2>1. /\ Reading(c)
        /\ \/ Chosen(c) \/ PassEnds
           \/ \E b \in Token : OutOfMemory(b) \/ NumberBegins(b) \/ NumberSkipped(b)
    BY <1>9, RoundChoice
  <2>2. ~PassEnds
    BY <1>8, <1>9 DEF PassEnds, Second
  <2>3. \A b : ~NumberBegins(b)
    BY <1>9 DEF NumberBegins
  <2>4. QED
    BY <1>8, <2>1, <2>2, <2>3
<1>11. PICK u : u = Tracked(c, d, g, text)
  OBVIOUS
<1>12. Turn(c, d, f, g, u)
  BY <1>1, <1>4, <1>5, <1>6, <1>7, <1>8, <1>10, <1>11 DEF Turn, Repeats
<1>13. \A type \in Numeric : AddsClosed(c, d, type) => IsRead(c, text, nodes[c.n + 1], d.ptr)
  BY <1>1, <1>2, <1>3 DEF Numbered
<1>14. Holds(d, u)' /\ KeepsNumbers(nodes', f.n)
  BY <1>10, <1>12, <1>13, TurnHolds
<1>15. Extends(text, text) /\ Extends(text, text')
  BY <1>7, <1>9, ExtendsSelf
<1>16. Numbers(c, d, text)
  BY <1>1, <1>13, <1>15 DEF Numbers, IsRead
<1>17. Agrees(d, u, text)
  BY <1>1, <1>4, <1>5, <1>6, <1>11, <1>16, StepAgrees
<1>18. Neat(d)
  BY <1>4, <1>5, NeatNext
<1>19. Numbered(h, n)'
  BY <1>1, <1>2, <1>7, <1>9, <1>14, <1>15, NumberedStill
<1>20. Run(h, n, text') /\ Final(h[n], text') /\ Whole(text') /\ Second(h[m], h[n])' /\ Neat(h[m])
  BY <1>1, <1>2, <1>7, <1>8, <1>18
<1>21. Agrees(h[m], u, text') /\ Holds(h[m], u)'
  BY <1>2, <1>7, <1>14, <1>17
<1>22. QED
  BY <1>3, <1>19, <1>20, <1>21 DEF Refollowed

-----------------------------------------------------------------------------
(* What the caller reads in memory.                                        *)

LEMMA BytesRead ==
  ASSUME NEW mem \in Seq(Byte), NEW at, NEW s, NEW bound \in Nat, bound <= Len(mem), Stored(mem, at, s, bound)
  PROVE  BytesAt(mem, at) = s
<1>1. PICK k : k = Len(s)
  OBVIOUS
<1>2. /\ s \in Seq(Token) /\ at \in Nat /\ k \in Nat /\ at + k + 1 <= bound
      /\ \A i \in 1 .. k : mem[at + i] = s[i]
      /\ mem[at + k + 1] = "nul"
  BY <1>1, LenProperties DEF Stored
<1>3. Len(mem) \in Nat
  BY LenProperties
<1>4. PICK p, q : p = at + 1 /\ q = at + k + 1
  OBVIOUS
<1>5. p \in Nat /\ q \in Nat /\ p <= Len(mem) + 1 /\ q <= Len(mem) /\ p <= q /\ mem[q] = "nul" /\ p \in Int /\ q - 1 \in Int
  BY <1>2, <1>3, <1>4
<1>6. ASSUME NEW j \in p .. q - 1 PROVE mem[j] \in Token
  <2>1. PICK i : i = j - at
    OBVIOUS
  <2>2. i \in 1 .. k /\ j = at + i
    BY <1>2, <1>4, <2>1
  <2>3. mem[j] = s[i] /\ s[i] \in Token
    BY <1>1, <1>2, <2>2
  <2>4. QED
    BY <2>3
<1>7. "nul" \notin Token
  BY DEF Token, Escapes, Blank, NumberToken, Digit
<1>8. PICK S : S = {"nul"}
  OBVIOUS
<1>9. IsFirst(mem, p, S, q)
  <2>1. q \in p .. Len(mem) + 1 /\ mem[q] \in S
    BY <1>3, <1>5, <1>8
  <2>2. \A j \in p .. q - 1 : mem[j] \notin S
    BY <1>6, <1>7, <1>8
  <2>3. QED
    BY <2>1, <2>2 DEF IsFirst
<1>10. FirstOf(mem, p, S) = q
  BY <1>3, <1>5, <1>9, FirstOfIs
<1>11. PICK u : u = SubSeq(mem, p, q - 1)
  OBVIOUS
<1>12. BytesAt(mem, at) = u
  BY <1>4, <1>8, <1>10, <1>11 DEF BytesAt
<1>13. PICK r : r = q - 1
  OBVIOUS
<1>14. /\ u \in Seq(Token)
       /\ Len(u) = IF p <= r THEN r - p + 1 ELSE 0
       /\ \A i \in 1 .. r - p + 1 : u[i] = mem[p + i - 1]
  <2>1. /\ SubSeq(mem, p, r) \in Seq(Token)
        /\ Len(SubSeq(mem, p, r)) = IF p <= r THEN r - p + 1 ELSE 0
        /\ \A i \in 1 .. r - p + 1 : SubSeq(mem, p, r)[i] = mem[p + i - 1]
    BY <1>5, <1>6, <1>13, SubSeqProperties
  <2>2. QED
    BY <1>11, <1>13, <2>1
<1>15. Len(u) = k /\ \A i \in 1 .. k : u[i] = s[i]
  <2>1. r = at + k /\ r - p + 1 = k
    BY <1>2, <1>4, <1>13
  <2>2. Len(u) = k
    BY <1>2, <1>4, <1>14, <2>1
  <2>3. ASSUME NEW i \in 1 .. k PROVE u[i] = s[i]
    <3>1. p + i - 1 = at + i
      BY <1>2, <1>4
    <3>2. QED
      BY <1>2, <1>14, <2>1, <3>1
  <2>4. QED
    BY <2>2, <2>3
<1>16. u = s
  BY <1>1, <1>2, <1>14, <1>15, SeqEqual
<1>17. QED
  BY <1>12, <1>16

\* A complete value is read as what it means, if those in it are.
LEMMA ContentRead ==
  ASSUME NEW n \in Node, NEW made, NEW value, NEW bound \in Nat, NEW x, NEW held, Stands(n, made, x),
         n.type \in Container => Lists(n, made, value, bound) /\ n.length = Len(n.items),
         n.type = "object" /\ n.length > 0 => bound <= Len(n.mem),
         \A i \in 1 .. Len(n.items) : held[n.items[i]] = value[n.items[i]]
  PROVE  Content(n, held) = x
<1>1. n.type \in Kind /\ n.mem \in Seq(Byte) /\ n.items \in Seq(Nat)
  BY DEF Node
<1>2. CASE n.type \in Container
  <2>1. PICK k : k = Len(made)
    OBVIOUS
  <2>2. /\ IsSeq(made) /\ k = n.length /\ k \in Nat /\ k = Len(n.items)
        /\ \A i \in 1 .. k : \E s : /\ n.type = "object" => Stored(n.mem, n.names[i], s, bound)
                                    /\ made[i] = Member(n.type, s, value[n.items[i]])
    BY <1>1, <1>2, <2>1, LenProperties DEF Lists
  <2>3. made = [i \in 1 .. k |-> made[i]]
    BY <2>1, <2>2, LenProperties DEF IsSeq
  <2>4. x = [type |-> n.type, items |-> made]
    BY <1>2 DEF Stands
  <2>5. CASE n.type = "array"
    <3>1. \A i \in 1 .. k : made[i] = held[n.items[i]]
      BY <2>2, <2>5 DEF Member
    <3>2. made = [i \in 1 .. n.length |-> held[n.items[i]]]
      BY <2>2, <2>3, <3>1
    <3>3. Content(n, held) = [type |-> "array", items |-> [i \in 1 .. n.length |-> held[n.items[i]]]]
      BY <2>5 DEF Content
    <3>4. QED
      BY <2>4, <2>5, <3>2, <3>3
  <2>6. CASE n.type = "object"
    <3>1. ASSUME NEW i \in 1 .. k
          PROVE  made[i] = [name |-> BytesAt(n.mem, n.names[i]), value |-> held[n.items[i]]]
      <4>1. PICK s : /\ Stored(n.mem, n.names[i], s, bound)
                     /\ made[i] = Member(n.type, s, value[n.items[i]])
        BY <2>2, <2>6
      <4>2. bound <= Len(n.mem)
        BY <2>2, <2>6
      <4>3. PICK mem, at : mem = n.mem /\ at = n.names[i]
        OBVIOUS
      <4>4. mem \in Seq(Byte) /\ bound <= Len(mem) /\ Stored(mem, at, s, bound)
        BY <1>1, <4>1, <4>2, <4>3
      <4>5. BytesAt(mem, at) = s
        BY <4>4, BytesRead
      <4>6. held[n.items[i]] = value[n.items[i]]
        BY <2>2
      <4>7. QED
        BY <2>6, <4>1, <4>3, <4>5, <4>6 DEF Member
    <3>2. PICK r : r = [i \in 1 .. n.length |-> [name |-> BytesAt(n.mem, n.names[i]), value |-> held[n.items[i]]]]
      OBVIOUS
    <3>3. made = r
      BY <2>2, <2>3, <3>1, <3>2
    <3>4. Content(n, held) = [type |-> "object", items |-> r]
      BY <2>6, <3>2 DEF Content
    <3>5. QED
      BY <2>4, <2>6, <3>3, <3>4
  <2>7. QED
    BY <1>2, <2>5, <2>6 DEF Container
<1>3. CASE n.type = "string"
  <2>1. PICK s : Stored(n.mem, 0, s, Len(n.mem)) /\ x = [type |-> "string", bytes |-> s]
    BY <1>3 DEF Stands
  <2>2. PICK mem, at : mem = n.mem /\ at = 0
    OBVIOUS
  <2>3. PICK size : size = Len(mem)
    OBVIOUS
  <2>4. mem \in Seq(Byte) /\ size \in Nat /\ size <= Len(mem) /\ Stored(mem, at, s, size)
    BY <1>1, <2>1, <2>2, <2>3, LenProperties
  <2>5. BytesAt(mem, at) = s
    BY <2>4, BytesRead
  <2>6. Content(n, held) = [type |-> "string", bytes |-> BytesAt(n.mem, 0)]
    BY <1>3 DEF Content
  <2>7. QED
    BY <2>1, <2>2, <2>5, <2>6
<1>4. CASE n.type = "literal"
  BY <1>4 DEF Content, Stands
<1>5. CASE n.type = "integer"
  BY <1>5 DEF Content, Stands, NumberContent, Numeric
<1>6. CASE n.type = "double"
  BY <1>6 DEF Content, Stands, NumberContent, Numeric
<1>7. QED
  BY <1>1, <1>2, <1>3, <1>4, <1>5, <1>6 DEF Kind

\* Values with the same content are the same.
LEMMA ContentSame ==
  ASSUME NEW n, NEW x, NEW y, n.type \in Container => \A i \in 1 .. n.length : x[n.items[i]] = y[n.items[i]]
  PROVE  Content(n, x) = Content(n, y)
<1>1. CASE n.type = "array"
  BY <1>1 DEF Content, Container
<1>2. CASE n.type = "object"
  BY <1>2 DEF Content, Container
<1>3. CASE n.type \notin Container
  BY <1>3 DEF Content, Container
<1>4. QED
  BY <1>1, <1>2, <1>3 DEF Container

-----------------------------------------------------------------------------
(* The values that the second pass leaves, and the whole.                  *)

Legible(held, K) == held = [v \in 1 .. K |-> Content(nodes[v], held)]

\* In a tree there is one way to read the values.
LEMMA ReadOnce ==
  ASSUME NEW K, Tree(K), \A v \in 1 .. K : nodes[v].type \in Container => nodes[v].length = Len(nodes[v].items),
         NEW x, NEW y, Legible(x, K), Legible(y, K)
  PROVE  \A v \in 1 .. K : x[v] = y[v]
<1>1. PICK T : T = {k \in Nat : k <= K /\ K - k \in 1 .. K /\ x[K - k] # y[K - k]}
  OBVIOUS
<1>2. SUFFICES ASSUME NEW w \in 1 .. K, x[w] # y[w] PROVE FALSE
  OBVIOUS
<1>3. K \in Nat
  BY DEF Tree
<1>4. T \subseteq Nat /\ T # {}
  <2>1. PICK k : k = K - w
    OBVIOUS
  <2>2. k \in Nat /\ k <= K /\ K - k = w
    BY <1>3, <2>1
  <2>3. k \in T
    BY <1>1, <1>2, <2>2
  <2>4. QED
    BY <1>1, <2>3
<1>5. PICK k \in T : \A j \in T : k <= j
  BY <1>4, Least
<1>6. PICK v : v = K - k
  OBVIOUS
<1>7. v \in 1 .. K /\ x[v] # y[v] /\ k \in Nat /\ k <= K
  BY <1>1, <1>5, <1>6
<1>8. ASSUME NEW u \in 1 .. K, v < u PROVE x[u] = y[u]
  <2>1. PICK j : j = K - u
    OBVIOUS
  <2>2. j \in Nat /\ j <= K /\ K - j = u /\ j < k
    BY <1>3, <1>6, <1>7, <1>8, <2>1
  <2>3. j \notin T
    BY <1>1, <1>5, <1>7, <2>2
  <2>4. QED
    BY <1>1, <1>8, <2>2, <2>3
<1>9. PICK n : n = nodes[v]
  OBVIOUS
<1>10. n.type \in Container => \A i \in 1 .. n.length : x[n.items[i]] = y[n.items[i]]
  <2>1. SUFFICES ASSUME n.type \in Container, NEW i \in 1 .. n.length PROVE x[n.items[i]] = y[n.items[i]]
    OBVIOUS
  <2>2. i \in 1 .. Len(n.items)
    BY <1>7, <1>9, <2>1
  <2>3. PICK u : u = n.items[i]
    OBVIOUS
  <2>4. u \in 1 .. K /\ nodes[u].parent = v /\ nodes[u].parent < u
    BY <1>7, <1>9, <2>2, <2>3 DEF Tree
  <2>5. QED
    BY <1>8, <2>3, <2>4
<1>11. Content(n, x) = Content(n, y)
  BY <1>10, ContentSame
<1>12. x[v] = Content(n, x) /\ y[v] = Content(n, y)
  BY <1>7, <1>9 DEF Legible
<1>13. QED
  BY <1>7, <1>11, <1>12

\* What is read of the values of the second pass when all of them are complete.
LEMMA ContentsHeld ==
  ASSUME NEW f, NEW g, Second(f, f), Holds(f, g), In(f, "done")
  PROVE  \A v \in 1 .. f.n : Contents[v] = g.value[v]
<1>1. PICK K : K = f.n
  OBVIOUS
<1>2. Tree(K) /\ K \in Nat /\ nodes \in [1 .. K -> Node]
  BY <1>1, SecondTree DEF Tree
<1>3. \A v \in 1 .. K : nodes[v].type \in Container => nodes[v].length = Len(nodes[v].items)
  <2>1. Intact(K, K + 1)
    BY <1>1, SecondTree
  <2>2. \A v \in 1 .. K : v < K + 1
    BY <1>2
  <2>3. QED
    BY <2>1, <2>2 DEF Intact
<1>4. f.closed = 1 .. K
  BY <1>1, SecondFacts DEF Regular, Modes
<1>5. PICK y : y = [v \in 1 .. K |-> g.value[v]]
  OBVIOUS
<1>6. ASSUME NEW v \in 1 .. K PROVE y[v] = Content(nodes[v], y)
  <2>1. PICK n, made, x, bound : n = nodes[v] /\ made = g.made[v] /\ x = g.value[v] /\ bound = f.chars[v]
    OBVIOUS
  <2>2. PICK value : value = g.value
    OBVIOUS
  <2>3. /\ n \in Node /\ n.type = f.type[v] /\ bound \in Nat /\ f.length[v] \in Nat
        /\ f.type[v] \in Container => Len(n.items) = f.length[v]
        /\ f.type[v] = "object" /\ f.length[v] > 0 => Len(n.mem) = bound
        /\ \A i \in 1 .. Len(n.items) : n.items[i] \in f.closed
    BY <1>1, <1>6, <2>1, SecondFacts
  <2>4. Held(f, g, n, v)
    BY <1>1, <1>6, <2>1 DEF Holds
  <2>5. Stands(n, made, x) /\ (n.type \in Container => Lists(n, made, value, bound))
    BY <1>4, <1>6, <2>1, <2>2, <2>4 DEF Held
  <2>6. n.type \in Container => n.length = Len(n.items)
    BY <1>3, <1>6, <2>1
  <2>7. n.type = "object" /\ n.length > 0 => bound <= Len(n.mem)
    BY <2>3, <2>6 DEF Container
  <2>8. \A i \in 1 .. Len(n.items) : y[n.items[i]] = value[n.items[i]]
    BY <1>4, <1>5, <2>2, <2>3
  <2>9. Content(n, y) = x
    BY <2>3, <2>5, <2>6, <2>7, <2>8, ContentRead
  <2>10. QED
    BY <1>5, <1>6, <2>1, <2>9
<1>7. Legible(y, K)
  <2>1. y = [v \in 1 .. K |-> Content(nodes[v], y)]
    BY <1>5, <1>6
  <2>2. QED
    BY <2>1 DEF Legible
<1>8. Legible(Contents, K)
  <2>1. DOMAIN nodes = 1 .. K
    BY <1>2
  <2>2. y = [v \in DOMAIN nodes |-> Content(nodes[v], y)]
    BY <1>7, <2>1 DEF Legible
  <2>3. PICK x : x = Contents
    OBVIOUS
  <2>4. x = [v \in DOMAIN nodes |-> Content(nodes[v], x)]
    BY <2>2, <2>3 DEF Contents
  <2>5. QED
    BY <2>1, <2>3, <2>4 DEF Legible
<1>9. \A v \in 1 .. K : Contents[v] = y[v]
  BY <1>2, <1>3, <1>7, <1>8, ReadOnce
<1>10. QED
  BY <1>1, <1>5, <1>9

-----------------------------------------------------------------------------
(* The invariant behind ParsedAsWritten.                                   *)

\* What the caller reads is what the text means.
Presented == pc = "parsed" /\ outcome # "syntax" /\ Meaning(text).ok /\ Contents[root] = Meaning(text).value

\* Nothing is left to be said but that the text was not refused.
Elsewhere == pc \notin {"parse", "parsed"} /\ outcome # "syntax"

Rejected == Dropped /\ (outcome = "syntax" => Refuted(text))

Correct ==
  \/ \E h, n : Followed(h, n)
  \/ \E k : Doomed(k) /\ Refuted(text)
  \/ Rejected
  \/ \E h, n, k : Refollowed(h, n, k)
  \/ Presented
  \/ Elsewhere

LEMMA RefutedNotViable ==
  ASSUME NEW s, Refuted(s)
  PROVE  s \notin Viable
<1>1. SUFFICES ASSUME s \in Viable PROVE FALSE
  OBVIOUS
<1> DEFINE Texts(l) == UNION {[1 .. k -> l.tokens] : k \in 0 .. l.whole}
           Said(l) == {t \in {Append(r, "end") : r \in Texts(l)} : Meaning(t).ok}
           Parts(t) == {SubSeq(t, 1, k) : k \in 1 .. Len(t)}
<1>14. s \in UNION {Parts(t) : t \in UNION {Said(l) : l \in Languages}}
  BY <1>1, Zenon DEF Viable
<1>15. PICK l \in Languages : \E u \in Said(l) : s \in Parts(u)
  BY <1>14
<1>16. PICK u \in Said(l) : s \in Parts(u)
  BY <1>15
<1>17. PICK r \in Texts(l) : u = Append(r, "end") /\ Meaning(u).ok
  BY <1>16
<1>18. PICK i \in 1 .. Len(u) : s = SubSeq(u, 1, i)
  BY <1>16
<1>19. PICK k \in 0 .. l.whole : r \in [1 .. k -> l.tokens]
  BY <1>17
<1> HIDE DEF Texts, Said, Parts
<1>3. l.tokens \subseteq Token \ {"end"} /\ l.whole \in Nat
  BY JsonAssumption
<1>4. k \in Nat
  BY <1>3, <1>19
<1>5. "end" \in Token
  BY DEF Token
<1>6. PICK e : e = "end"
  OBVIOUS
<1>7. PICK t : t = u
  OBVIOUS
<1>20. t = Append(r, e)
  BY <1>6, <1>7, <1>17
<1>8. r \in Seq(Token) /\ Len(r) = k /\ \A j \in 1 .. k : r[j] \in Token /\ r[j] # e
  <2>1. \A j \in 1 .. k : r[j] \in Token /\ r[j] # e
    BY <1>3, <1>6, <1>19
  <2>2. r \in [1 .. k -> Token]
    BY <1>19, <2>1
  <2>3. r \in Seq(Token) /\ Len(r) = k
    BY <1>4, <2>2, SeqDef, LenProperties
  <2>4. QED
    BY <2>1, <2>3
<1>9. t \in Seq(Token) /\ Len(t) = k + 1 /\ t[k + 1] = e /\ \A j \in 1 .. k : t[j] = r[j]
  BY <1>4, <1>5, <1>6, <1>8, <1>20, AppendProperties
<1>10. Whole(t)
  BY <1>4, <1>6, <1>8, <1>9 DEF Whole
<1>11. Meaning(t).ok /\ s = SubSeq(t, 1, i) /\ i \in 1 .. k + 1
  BY <1>7, <1>9, <1>17, <1>18
<1>12. Extends(s, t)
  <2>1. 1 \in 1 .. Len(t) + 1 /\ i \in 0 .. Len(t) /\ i \in Int /\ 1 \in Int /\ \A j \in 1 .. i : t[j] \in Token
    <3>1. \A j \in 1 .. k + 1 : t[j] \in Token
      BY <1>4, <1>9
    <3>2. QED
      BY <1>4, <1>9, <1>11, <3>1
  <2>2. /\ Len(SubSeq(t, 1, i)) = IF 1 <= i THEN i - 1 + 1 ELSE 0
        /\ \A j \in 1 .. i - 1 + 1 : SubSeq(t, 1, i)[j] = t[1 + j - 1]
    BY <2>1, SubSeqProperties
  <2>3. Len(s) = i /\ \A j \in 1 .. i : s[j] = t[j]
    BY <1>4, <1>11, <2>2
  <2>4. QED
    BY <1>4, <1>9, <1>11, <2>3 DEF Extends
<1>13. QED
  BY <1>10, <1>11, <1>12 DEF Refuted

LEMMA CorrectInit ==
  ASSUME Init
  PROVE  Correct
<1>1. PICK h : h = [i \in {0} |-> Start]
  OBVIOUS
<1>2. Run(h, 0, text) /\ h[0] = Start
  BY <1>1, RunStarts
<1>3. /\ text = <<>> /\ pass = 1 /\ ptr = 1 /\ flags = {"seek_value"} /\ string_length = 0
      /\ top = 0 /\ root = 0 /\ alloc = 0 /\ nodes = <<>> /\ live = {} /\ areas = {}
      /\ pc = "parse" /\ outcome = "none"
  BY DEF Init
<1>4. text \in Seq(Token) /\ Len(text) = 0
  BY <1>3
<1>5. Here(Start)
  <2>1. Regular(Start)
    BY StartRegular
  <2>2. flags \ NumberFlags = {"seek_value"} /\ flags \subseteq Flag \cup NumberFlags
    BY <1>3 DEF Flag, NumberFlags
  <2>3. ~In(Start, "string")
    BY StartFields DEF In
  <2>4. QED
    BY <1>3, <1>4, <2>1, <2>2, <2>3, StartFields DEF Here
<1>6. nodes \in [1 .. 0 -> Node]
  BY <1>3
<1>7. Chain(0) /\ SameAs(Start)
  BY <1>3, <1>6, StartFields DEF Chain, SameAs
<1>8. First(Start)
  BY <1>3, <1>5, <1>7, StartFields DEF First
<1>9. Neat(Start) /\ Known(Start)
  BY StartNeat, StartAgrees DEF Known
<1>10. Numbered(h, 0)
  BY DEF Numbered
<1>11. Unended(Start.ptr, text) /\ Len(text) <= ptr
  BY <1>3, <1>4, StartFields DEF Unended
<1>12. Nameless(nodes)
  BY <1>6 DEF Nameless
<1>13. Followed(h, 0)
  BY <1>2, <1>8, <1>9, <1>10, <1>11, <1>12 DEF Followed
<1>14. QED
  BY <1>13 DEF Correct

LEMMA RejectedStep ==
  ASSUME Rejected, Step
  PROVE  Rejected'
<1>1. Dropped /\ Dropped'
  BY DroppedStep DEF Rejected
<1>2. pc # "parse"
  BY <1>1 DEF Dropped
<1>3. Discard \/ Release \/ Free
  BY <1>2, NotReading
<1>4. text' = text /\ outcome' = outcome
  BY <1>3 DEF Discard, Release, Free
<1>5. QED
  BY <1>1, <1>4 DEF Rejected

LEMMA DoomedRejects ==
  ASSUME NEW k, Doomed(k), Refuted(text), Step
  PROVE  Rejected'
<1>1. pc = "parse" /\ text \in Seq(Token) /\ ptr \in 1 .. Len(text)
  BY DEF Doomed
<1>2. PICK b \in Token : Read(b)
  BY <1>1, RoundReads
<1>3. Len(text) \in Nat /\ ~(ptr > Len(text))
  BY <1>1, LenProperties
<1>4. text' = text
  BY <1>2, <1>3 DEF Read
<1>5. QED
  BY <1>4, DoomedStep DEF Rejected

LEMMA RefollowedEnds ==
  ASSUME NEW h, NEW n, Refollowed(h, n, n), Quiet, Step
  PROVE  Presented'
<1>1. PICK f : f = h[n]
  OBVIOUS
<1>2. /\ Run(h, n, text) /\ Final(f, text) /\ Whole(text) /\ Second(f, f)
  BY <1>1 DEF Refollowed
<1>3. PICK g : Agrees(f, g, text) /\ Holds(f, g)
  BY <1>1 DEF Refollowed
<1>4. Here(f) /\ pc = "parse" /\ pass = 2 /\ In(f, "done") /\ Regular(f)
  BY <1>2 DEF Second, Final, Here
<1>5. PassEnds /\ text' = text
  BY <1>2, <1>4, FinalStep
<1>6. pc' = "parsed" /\ nodes' = nodes /\ root' = root /\ outcome' = outcome
  BY <1>4, <1>5 DEF PassEnds
<1>7. Meaning(text).ok /\ Meaning(text).value = g.value[1]
  BY <1>2, <1>3, FinalAgrees
<1>8. f.n \in Nat /\ f.n # 0
  BY <1>4 DEF Regular, Typed, Modes
<1>9. root = 1
  BY <1>2, <1>8 DEF Second, Allocated
<1>10. Contents[1] = g.value[1]
  BY <1>2, <1>3, <1>4, <1>8, ContentsHeld
<1>11. Contents' = Contents
  BY <1>6 DEF Contents
<1>12. outcome # "syntax"
  BY <1>4 DEF Quiet
<1>13. QED
  BY <1>5, <1>6, <1>7, <1>9, <1>10, <1>11, <1>12 DEF Presented

LEMMA CorrectStep ==
  ASSUME Correct, Quiet, Step
  PROVE  Correct'
<1>1. ASSUME NEW h, NEW n, Followed(h, n) PROVE Correct'
  <2>1. CASE FirstFails
    BY <2>1 DEF FirstFails, Rejected, Correct
  <2>2. ASSUME NEW g, NEW m, Followed(g, m)' PROVE Correct'
    BY <2>2 DEF Correct
  <2>3. ASSUME NEW k, Doomed(k)', Refuted(text') PROVE Correct'
    BY <2>3 DEF Correct
  <2>4. CASE FirstEnds(h, n)
    <3>1. Refollowed(h, n, 0)'
      BY <2>4, RefollowedBegins
    <3>2. QED
      BY <3>1 DEF Correct
  <2>5. QED
    BY <1>1, <2>1, <2>2, <2>3, <2>4, FollowedStep
<1>2. ASSUME NEW k, Doomed(k), Refuted(text) PROVE Correct'
  BY <1>2, DoomedRejects DEF Correct
<1>3. CASE Rejected
  BY <1>3, RejectedStep DEF Correct
<1>4. ASSUME NEW h, NEW n, NEW k, Refollowed(h, n, k) PROVE Correct'
  <2>1. CASE k = n
    <3>1. Presented'
      BY <1>4, <2>1, RefollowedEnds
    <3>2. QED
      BY <3>1 DEF Correct
  <2>2. CASE k # n
    <3>1. PICK m : m = k + 1
      OBVIOUS
    <3>2. Refollowed(h, n, m)' \/ \E b \in Token : OutOfMemory(b)
      BY <1>4, <2>2, <3>1, RefollowedStep
    <3>3. CASE Refollowed(h, n, m)'
      BY <3>3 DEF Correct
    <3>4. ASSUME NEW b \in Token, OutOfMemory(b) PROVE Correct'
      <4>1. pc' = "discard" /\ outcome' = "memory"
        BY <3>4 DEF OutOfMemory, NewValueFails, Fail
      <4>2. QED
        BY <4>1 DEF Elsewhere, Correct
    <3>5. QED
      BY <3>2, <3>3, <3>4
  <2>3. QED
    BY <2>1, <2>2
<1>5. CASE Presented \/ Elsewhere
  <2>1. pc # "parse" /\ outcome # "syntax"
    BY <1>5 DEF Presented, Elsewhere
  <2>2. Discard \/ Release \/ Free
    BY <2>1, NotReading
  <2>3. outcome' = outcome /\ pc' \notin {"parse", "parsed"}
    BY <2>2 DEF Discard, Release, Free
  <2>4. QED
    BY <2>1, <2>3 DEF Elsewhere, Correct
<1>6. QED
  BY <1>1, <1>2, <1>3, <1>4, <1>5 DEF Correct

LEMMA CorrectStutters ==
  ASSUME Correct, UNCHANGED vars
  PROVE  Correct'
<1>1. /\ text' = text /\ pass' = pass /\ ptr' = ptr /\ flags' = flags /\ string_length' = string_length
      /\ top' = top /\ root' = root /\ alloc' = alloc /\ nodes' = nodes /\ live' = live /\ areas' = areas
      /\ val' = val /\ pc' = pc /\ outcome' = outcome /\ num_digits' = num_digits
  BY DEF vars, values, memory, number
<1>2. ASSUME NEW c, Here(c) PROVE Here(c)'
  BY <1>1, <1>2 DEF Here
<1>3. ASSUME NEW k, Chain(k) PROVE Chain(k)'
  BY <1>1, <1>3 DEF Chain
<1>4. ASSUME NEW h, NEW n, Numbered(h, n) PROVE Numbered(h, n)'
  BY <1>1, <1>4 DEF Numbered
<1>5. ASSUME NEW h, NEW n, Followed(h, n) PROVE Followed(h, n)'
  <2>1. First(h[n]) => First(h[n])'
    BY <1>1, <1>2, <1>3 DEF First, SameAs
  <2>2. InNumberAt(h[n]) => InNumberAt(h[n])'
    BY <1>1 DEF InNumberAt, Drawn, Extended
  <2>3. NumberPartly(h[n]) => NumberPartly(h[n])'
    BY <1>1 DEF NumberPartly, Top
  <2>4. Known(h[n]) => Known(h[n])'
    BY <1>1 DEF Known
  <2>5. Run(h, n, text') /\ Unended(h[n].ptr, text') /\ Len(text') <= ptr' /\ Nameless(nodes')
    BY <1>1, <1>5 DEF Followed
  <2>6. QED
    BY <1>4, <1>5, <2>1, <2>2, <2>3, <2>4, <2>5 DEF Followed
<1>6. ASSUME NEW k, Doomed(k) PROVE Doomed(k)'
  BY <1>1, <1>3, <1>6 DEF Doomed, Has, InComment, Top
<1>7. CASE Rejected
  BY <1>1, <1>7 DEF Correct, Rejected, Dropped
<1>8. ASSUME NEW h, NEW n, NEW k, Refollowed(h, n, k) PROVE Refollowed(h, n, k)'
  <2>1. PICK c, f : c = h[k] /\ f = h[n]
    OBVIOUS
  <2>2. /\ Run(h, n, text) /\ Final(f, text) /\ Whole(text) /\ k \in 0 .. n /\ Second(c, f) /\ Neat(c)
        /\ Numbered(h, n) /\ \E g : Agrees(c, g, text) /\ Holds(c, g)
    BY <1>8, <2>1 DEF Refollowed
  <2>3. Second(c, f)'
    <3>1. Allocated(c, f)'
      BY <1>1, <2>2 DEF Second, Allocated, Fresh, Filled
    <3>2. Slotted(c, f)'
      BY <1>1, <2>2 DEF Second, Slotted
    <3>3. QED
      BY <1>1, <1>2, <2>2, <3>1, <3>2 DEF Second
  <2>4. PICK g : Agrees(c, g, text) /\ Holds(c, g)
    BY <2>2
  <2>5. Holds(c, g)'
    BY <1>1, <2>4 DEF Holds
  <2>6. QED
    BY <1>1, <1>4, <2>1, <2>2, <2>3, <2>4, <2>5 DEF Refollowed
<1>9. CASE Presented
  <2>1. Contents' = Contents
    BY <1>1 DEF Contents
  <2>2. QED
    BY <1>1, <1>9, <2>1 DEF Presented, Correct
<1>10. CASE Elsewhere
  BY <1>1, <1>10 DEF Elsewhere, Correct
<1>11. ASSUME NEW k, Doomed(k), Refuted(text) PROVE Correct'
  BY <1>1, <1>6, <1>11 DEF Correct
<1>12. ASSUME NEW h, NEW n, Followed(h, n) PROVE Correct'
  BY <1>5, <1>12 DEF Correct
<1>13. ASSUME NEW h, NEW n, NEW k, Refollowed(h, n, k) PROVE Correct'
  BY <1>8, <1>13 DEF Correct
<1>14. QED
  BY <1>7, <1>9, <1>10, <1>11, <1>12, <1>13 DEF Correct

LEMMA CorrectAsWritten ==
  ASSUME Correct, Quiet
  PROVE  ParsedAsWritten
<1>1. CASE pc = "parse"
  BY <1>1 DEF Quiet, ParsedAsWritten
<1>2. CASE Rejected
  BY <1>2, RefutedNotViable DEF Rejected, Dropped, ParsedAsWritten
<1>3. CASE Presented \/ Elsewhere
  BY <1>3 DEF Presented, Elsewhere, ParsedAsWritten
<1>4. QED
  BY <1>1, <1>2, <1>3 DEF Correct, Followed, First, InNumberAt, Doomed, Refollowed, Second

\* The inductive invariant.
LEMMA AlwaysCorrect == Spec => [](Correct /\ Quiet)
<1>1. Init => Correct
  BY CorrectInit
<1>2. Correct /\ Quiet /\ [Next]_vars => Correct'
  <2>1. SUFFICES ASSUME Correct, Quiet, [Next]_vars PROVE Correct'
    OBVIOUS
  <2>2. CASE Step
    BY <2>1, <2>2, CorrectStep
  <2>3. CASE UNCHANGED vars
    BY <2>1, <2>3, CorrectStutters
  <2>4. QED
    BY <2>1, <2>2, <2>3 DEF Next, Over
<1>3. QED
  BY <1>1, <1>2, Inductive, PTL DEF Spec

(***************************************************************************)
(* For every text: what the caller finds in memory when json_parse is      *)
(* through is the value that the text means by the grammar, and what is    *)
(* refused, in the first pass alone, begins none of the texts that mean    *)
(* something.                                                              *)
(***************************************************************************)
THEOREM ReadAsWritten == Spec => []ParsedAsWritten
<1>1. Correct /\ Quiet => ParsedAsWritten
  BY CorrectAsWritten
<1>2. QED
  BY <1>1, AlwaysCorrect, PTL

(***************************************************************************)
(* No text of any length that goes on as a refused one means anything.     *)
(***************************************************************************)
THEOREM RefusedMeansNothing == Spec => [](outcome = "syntax" => Refuted(text))
<1>1. Correct /\ Quiet => (outcome = "syntax" => Refuted(text))
  <2>1. SUFFICES ASSUME Correct, Quiet, outcome = "syntax" PROVE Refuted(text)
    OBVIOUS
  <2>2. pc # "parse"
    BY <2>1 DEF Quiet
  <2>3. QED
    BY <2>1, <2>2
       DEF Correct, Followed, First, InNumberAt, Refollowed, Second, Presented, Elsewhere, Rejected
<1>2. QED
  BY <1>1, AlwaysCorrect, PTL
=============================================================================
