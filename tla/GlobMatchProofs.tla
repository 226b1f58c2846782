--------------------------- MODULE GlobMatchProofs ---------------------------
(***************************************************************************)
(* The memory glob_match reads, the number of its steps and its result,    *)
(* for patterns and strings of any length.                                 *)
(***************************************************************************)
EXTENDS GlobMatch, SequenceTheorems, WellFoundedInduction, TLAPS

\* A byte other than the terminator lies within its string.
LEMMA BytesWithin ==
  ASSUME TypeOK, NEW i \in Int
  PROVE  /\ PatAt(i) \in PatChar \cup {Nul}
         /\ PatAt(i) # Nul => i \in 1 .. Len(pat) /\ PatAt(i) = pat[i]
         /\ StrAt(i) \in StrChar \cup {Nul}
         /\ StrAt(i) # Nul => i \in 1 .. Len(str)
  BY ElementOfSeq DEF PatAt, StrAt, At, TypeOK

\* Where a token can lead.
LEMMA BacktrackType ==
  ASSUME TypeOK, NEW x, Backtrack(x)
  PROVE  /\ pc' \in {"token", "done"} /\ result' \in {0, 1}
         /\ pi' \in Nat \ {0} /\ si' \in Nat \ {0}
         /\ backPat' \in Nat /\ backStr' \in Nat
  BY DEF TypeOK, Backtrack, Return

\* The same of a literal.
LEMMA LiteralType ==
  ASSUME TypeOK, NEW x, NEW d, NEW p \in Nat \ {0}, NEW s \in Nat \ {0},
         Literal(x, d, p, s)
  PROVE  /\ pc' \in {"token", "done"} /\ result' \in {0, 1}
         /\ pi' \in Nat \ {0} /\ si' \in Nat \ {0}
         /\ backPat' \in Nat /\ backStr' \in Nat
  BY BacktrackType DEF TypeOK, Literal, Return, Continue

\* Every step keeps the types.
LEMMA TypeStep == TypeOK /\ [Next]_vars => TypeOK'
<1> SUFFICES ASSUME TypeOK, [Next]_vars PROVE TypeOK'
  OBVIOUS
<1> USE DEF args, classVars
<1>1. ASSUME Count PROVE steps' \in Nat
  BY <1>1 DEF Count, TypeOK, StepBound
<1>2. CASE TokenQuery
  BY <1>1, <1>2 DEF TokenQuery, Return, Continue, TypeOK
<1>3. CASE TokenStar
  BY <1>1, <1>3 DEF TokenStar, Return, TypeOK
<1>4. CASE TokenEscaped
  <2>1. pi + 2 \in Nat \ {0} /\ si + 1 \in Nat \ {0}
    BY DEF TypeOK
  <2>2. QED
    BY <1>1, <1>4, <2>1, LiteralType DEF TokenEscaped, TypeOK
<1>5. CASE TokenLiteral
  <2>1. PICK d : Literal(StrAt(si), d, pi + 1, si + 1)
    BY <1>5 DEF TokenLiteral
  <2>2. pi + 1 \in Nat \ {0} /\ si + 1 \in Nat \ {0}
    BY DEF TypeOK
  <2>3. QED
    BY <1>1, <1>5, <2>1, <2>2, LiteralType DEF TokenLiteral, TypeOK
<1>6. CASE TokenClass
  <2>1. /\ StrAt(si) \in StrChar \cup {Nul}
        /\ PatAt(pi + 1) \in PatChar \cup {Nul}
        /\ PatAt(pi + 2) \in PatChar \cup {Nul}
    BY BytesWithin DEF TypeOK
  <2>2. inverted' \in BOOLEAN
    BY <1>6 DEF TokenClass
  <2>3. a' \in PatChar \cup {Nul} /\ class' \in Nat
    BY <1>6, <2>1, <2>2 DEF TokenClass, TypeOK
  <2>4. /\ pc' = "class" /\ pi' = pi + 1 /\ si' = si + 1
        /\ c' \in StrChar \cup {Nul} /\ match' \in BOOLEAN /\ steps' \in Nat
        /\ UNCHANGED <<pat, str, backPat, backStr, result>>
    BY <1>1, <1>6, <2>1 DEF TokenClass
  <2>5. pi' \in Nat \ {0} /\ si' \in Nat \ {0}
    BY <2>4 DEF TypeOK
  <2>6. QED
    BY <2>2, <2>3, <2>4, <2>5 DEF TypeOK
<1>7. CASE TokenPast
  BY <1>1, <1>7 DEF TokenPast, Return, TypeOK
<1>8. CASE ClassMalformed
  <2>1. pi \in Nat \ {0} /\ si \in Nat \ {0}
    BY DEF TypeOK
  <2>2. QED
    BY <1>1, <1>8, <2>1, LiteralType DEF ClassMalformed, TypeOK
<1>9. CASE ClassSpan
  <2> DEFINE b == IF IsRange THEN PatAt(class + 1) ELSE a
             next == IF IsRange THEN class + 2 ELSE class
             hit == match \/ InSpan(b)
  <2>1. next \in Nat
    BY DEF TypeOK
  <2>2. /\ match' = hit /\ a' = PatAt(next) /\ class' = next + 1
        /\ \/ UNCHANGED <<pc, pi, si, backPat, backStr, result>>
           \/ Backtrack(c)
           \/ Continue(next + 1, si)
    BY <1>9 DEF ClassSpan
  <2>3. a' \in PatChar \cup {Nul} /\ class' \in Nat
    BY <2>1, <2>2, BytesWithin
  <2>4. match' \in BOOLEAN
    BY <2>2 DEF TypeOK, InSpan
  <2>5. /\ pc' \in {"token", "class", "done"} /\ result' \in {0, 1}
        /\ pi' \in Nat \ {0} /\ si' \in Nat \ {0}
        /\ backPat' \in Nat /\ backStr' \in Nat
    BY <2>1, <2>2, BacktrackType DEF Continue, TypeOK
  <2>6. QED
    BY <1>1, <1>9, <2>3, <2>4, <2>5 DEF ClassSpan, TypeOK
<1>10. CASE UNCHANGED vars
  BY <1>10 DEF vars, TypeOK
<1>11. QED
  BY <1>2, <1>3, <1>4, <1>5, <1>6, <1>7, <1>8, <1>9, <1>10
  DEF Next, Step, Returned

\* The types hold at the call.
LEMMA InitType == Init => TypeOK
<1> SUFFICES ASSUME Init PROVE TypeOK
  OBVIOUS
<1>1. pat \in Seq(PatChar) /\ str \in Seq(StrChar)
  BY CharAssumption DEF Init
<1>2. /\ pc \in {"token", "class", "done"}
      /\ inverted \in BOOLEAN /\ match \in BOOLEAN
  BY DEF Init
<1>3. /\ pi \in Nat \ {0} /\ si \in Nat \ {0} /\ backPat \in Nat /\ backStr \in Nat
      /\ class \in Nat /\ result \in {0, 1} /\ steps \in Nat
  BY DEF Init
<1>4. c \in StrChar \cup {Nul} /\ a \in PatChar \cup {Nul}
  BY DEF Init
<1>5. QED
  BY <1>1, <1>2, <1>3, <1>4 DEF TypeOK

\* Every variable keeps its type; the pattern pointer is never NULL.
THEOREM TypeCorrect == Spec => []TypeOK
  BY InitType, TypeStep, PTL DEF Spec

-----------------------------------------------------------------------------
(***************************************************************************)
(* PatternInBounds speaks of the pointers while the loops run; to carry it *)
(* over a retry the place behind the last star has to be bounded as well.  *)
(***************************************************************************)
PatternInv ==
  /\ PatternInBounds
  /\ pc = "class" => pi <= Len(pat) + 1
  /\ backPat <= Len(pat) + 1

\* A literal that is not the terminator leaves something of the pattern.
LEMMA LiteralInPattern ==
  ASSUME TypeOK, PatternInv, NEW x, NEW d, NEW p \in Nat, NEW s,
         d # Nul => p <= Len(pat) + 1, UNCHANGED pat, Literal(x, d, p, s)
  PROVE  PatternInv'
  BY DEF PatternInv, PatternInBounds, Literal, Backtrack, Continue, Return, TypeOK

\* Every step keeps the pattern's pointers in bounds.
LEMMA PatternStep == TypeOK /\ PatternInv /\ [Next]_vars => PatternInv'
<1> SUFFICES ASSUME TypeOK, PatternInv, [Next]_vars PROVE PatternInv'
  OBVIOUS
<1> USE DEF args
<1>1. /\ Len(pat) \in Nat /\ pi \in Nat \ {0} /\ class \in Nat
      /\ \A i \in Int : PatAt(i) # Nul => i <= Len(pat)
  BY BytesWithin, LenProperties DEF TypeOK
<1>2. CASE TokenQuery
  BY <1>1, <1>2 DEF TokenQuery, AtToken, Query, Nul, Return, Continue,
                    PatternInv, PatternInBounds
<1>3. CASE TokenStar
  BY <1>1, <1>3 DEF TokenStar, Return, PatternInv, PatternInBounds
<1>4. CASE TokenEscaped
  <2>1. PatAt(pi + 1) # Nul => pi + 2 <= Len(pat) + 1
    BY <1>1
  <2>2. pi + 2 \in Nat
    BY <1>1
  <2>3. QED
    BY <1>4, <2>1, <2>2, LiteralInPattern DEF TokenEscaped
<1>5. CASE TokenLiteral
  <2>1. PICK d : PatAt(pi) = d /\ Literal(StrAt(si), d, pi + 1, si + 1)
    BY <1>5 DEF TokenLiteral, AtToken
  <2>2. (d # Nul => pi + 1 <= Len(pat) + 1) /\ pi + 1 \in Nat
    BY <1>1, <2>1
  <2>3. QED
    BY <1>5, <2>1, <2>2, LiteralInPattern DEF TokenLiteral
<1>6. CASE TokenClass
  <2>1. pi <= Len(pat)
    BY <1>1, <1>6 DEF TokenClass, AtToken, OpenBracket, Nul
  <2>2. PatAt(pi + 1) = Bang => pi + 1 <= Len(pat)
    BY <1>1 DEF Bang, Nul
  <2> DEFINE Bound == class' <= Len(pat) + 2 /\ (a' # Nul => class' <= Len(pat) + 1)
  <2>3. ASSUME PatAt(pi + 1) = Bang PROVE Bound
    <3>1. a' = PatAt(pi + 2) /\ class' = pi + 2 + 1
      BY <1>6, <2>3 DEF TokenClass
    <3>2. QED
      BY <1>1, <2>2, <2>3, <3>1
  <2>4. ASSUME PatAt(pi + 1) # Bang PROVE Bound
    <3>1. a' = PatAt(pi + 1) /\ class' = pi + 1 + 1
      BY <1>6, <2>4 DEF TokenClass
    <3>2. QED
      BY <1>1, <2>1, <3>1
  <2>5. Bound
    BY <2>3, <2>4
  <2>6. QED
    BY <1>1, <1>6, <2>1, <2>5 DEF TokenClass, PatternInv, PatternInBounds
<1>7. CASE TokenPast
  BY <1>7 DEF TokenPast, Return, PatternInv, PatternInBounds
<1>8. CASE ClassMalformed
  <2>1. pi <= Len(pat) + 1
    BY <1>8 DEF ClassMalformed, PatternInv
  <2>2. QED
    BY <1>1, <1>8, <2>1, LiteralInPattern DEF ClassMalformed
<1>9. CASE ClassSpan
  <2> DEFINE next == IF IsRange THEN class + 2 ELSE class
  <2>1. class <= Len(pat) + 1
    BY <1>9 DEF ClassSpan, EndsClass, PatternInv, PatternInBounds
  <2>2. IsRange => class + 1 <= Len(pat)
    BY <1>1, <1>9 DEF ClassSpan, EndsClass
  <2>3. next \in Nat /\ next <= Len(pat) + 1
    BY <1>1, <2>1, <2>2
  <2>4. PatAt(next) # Nul => next <= Len(pat)
    BY <1>1, <2>3
  <2>5. /\ a' = PatAt(next) /\ class' = next + 1 /\ UNCHANGED pat
        /\ \/ UNCHANGED <<pc, pi, backPat>>
           \/ Backtrack(c)
           \/ PatAt(next) = CloseBracket /\ Continue(next + 1, si)
    BY <1>9 DEF ClassSpan
  <2> HIDE DEF next
  <2>6. class' <= Len(pat) + 2 /\ (a' # Nul => class' <= Len(pat) + 1)
    BY <1>1, <2>3, <2>4, <2>5
  <2>7. CASE UNCHANGED <<pc, pi, backPat>>
    BY <2>5, <2>6, <2>7 DEF PatternInv, PatternInBounds
  <2>8. CASE Backtrack(c)
    BY <1>9, <2>5, <2>6, <2>8
    DEF ClassSpan, Backtrack, Return, PatternInv, PatternInBounds
  <2>9. CASE PatAt(next) = CloseBracket /\ Continue(next + 1, si)
    BY <1>1, <2>3, <2>4, <2>5, <2>6, <2>9
    DEF Continue, CloseBracket, Nul, PatternInv, PatternInBounds
  <2>10. QED
    BY <2>5, <2>7, <2>8, <2>9
<1>10. CASE UNCHANGED vars
  BY <1>10 DEF vars, classVars, PatternInv, PatternInBounds
<1>11. QED
  BY <1>2, <1>3, <1>4, <1>5, <1>6, <1>7, <1>8, <1>9, <1>10
  DEF Next, Step, Returned

(***************************************************************************)
(* No pattern of any length makes glob_match read behind its terminator.   *)
(***************************************************************************)
THEOREM PatternReadInBounds == Spec => []PatternInBounds
<1>1. Init => PatternInv
  <2>1. ASSUME Init PROVE Len(pat) \in Nat
    BY <2>1, InitType, LenProperties DEF TypeOK
  <2>2. QED
    BY <2>1 DEF Init, PatternInv, PatternInBounds
<1>2. PatternInv => PatternInBounds
  BY DEF PatternInv
<1>3. QED
  BY <1>1, <1>2, InitType, TypeStep, PatternStep, PTL DEF Spec

-----------------------------------------------------------------------------
(***************************************************************************)
(* StringInBounds holds because the character a token needs is compared    *)
(* before str is used again: no plain class accepts the terminator, and    *)
(* the last star is never ahead of str, so a retry that follows a          *)
(* character of the string cannot pass its end.                            *)
(***************************************************************************)
Plain == \A i \in 1 .. Len(pat) - 1 : pat[i] # OpenBracket \/ pat[i + 1] # Bang

StringPointers ==
  /\ pc = "token" => si <= Len(str) + 1 /\ backStr <= si
  /\ pc = "class" => /\ si <= Len(str) + 2 /\ backStr <= si - 1
                     /\ c # Nul => si <= Len(str) + 1
                     /\ ~inverted /\ (c = Nul => ~match)

StringInv == Plain => StringPointers

\* A literal that finds a character before the end keeps the pointers in bounds.
LEMMA LiteralInString ==
  ASSUME TypeOK, NEW x, NEW d, NEW p, NEW s \in Nat,
         x # Nul => s <= Len(str) + 1 /\ backStr + 1 <= s,
         UNCHANGED str, Literal(x, d, p, s)
  PROVE  StringPointers'
<1>1. Len(str) \in Nat /\ backStr \in Nat
  BY LenProperties DEF TypeOK
<1>2. QED
  BY <1>1 DEF Literal, Backtrack, Continue, Return, StringPointers

\* Every step keeps the string's pointers in bounds.
LEMMA StringStep == TypeOK /\ StringInv /\ [Next]_vars => StringInv'
<1> SUFFICES ASSUME TypeOK, StringInv, [Next]_vars, Plain' PROVE StringPointers'
  BY DEF StringInv
<1> USE DEF args
<1>1. UNCHANGED <<pat, str>>
  BY DEF Next, Step, Returned, vars, TokenQuery, TokenStar, TokenEscaped,
         TokenLiteral, TokenClass, TokenPast, ClassMalformed, ClassSpan
<1>2. Plain /\ StringPointers
  BY <1>1 DEF Plain, StringInv
<1>3. /\ Len(str) \in Nat /\ Len(pat) \in Nat /\ si \in Nat \ {0} /\ backStr \in Nat
      /\ pi \in Nat \ {0}
      /\ \A i \in Int : StrAt(i) # Nul => i <= Len(str)
  BY BytesWithin, LenProperties DEF TypeOK
<1>4. CASE TokenQuery
  BY <1>2, <1>3, <1>4
  DEF TokenQuery, AtToken, Wild, Return, Continue, StringPointers
<1>5. CASE TokenStar
  BY <1>1, <1>2, <1>3, <1>5 DEF TokenStar, AtToken, Return, StringPointers
<1>6. CASE TokenEscaped
  <2>1. StrAt(si) # Nul => si + 1 <= Len(str) + 1 /\ backStr + 1 <= si + 1
    BY <1>2, <1>3, <1>6 DEF TokenEscaped, AtToken, StringPointers
  <2>2. si + 1 \in Nat
    BY <1>3
  <2>3. QED
    BY <1>1, <1>6, <2>1, <2>2, LiteralInString DEF TokenEscaped
<1>7. CASE TokenLiteral
  <2>1. PICK d : AtToken(d) /\ Literal(StrAt(si), d, pi + 1, si + 1)
    BY <1>7 DEF TokenLiteral
  <2>2. StrAt(si) # Nul => si + 1 <= Len(str) + 1 /\ backStr + 1 <= si + 1
    BY <1>2, <1>3, <2>1 DEF AtToken, StringPointers
  <2>3. si + 1 \in Nat
    BY <1>3
  <2>4. QED
    BY <1>1, <2>1, <2>2, <2>3, LiteralInString
<1>8. CASE TokenClass
  <2>1. PatAt(pi) = OpenBracket /\ pi \in 1 .. Len(pat) /\ pat[pi] = OpenBracket
    BY <1>3, <1>8, BytesWithin DEF TokenClass, AtToken, OpenBracket, Nul
  <2>2. ASSUME PatAt(pi + 1) = Bang PROVE FALSE
    <3>1. pi + 1 \in 1 .. Len(pat) /\ pat[pi + 1] = Bang
      BY <1>3, <2>2, BytesWithin DEF Bang, Nul
    <3>2. pi \in 1 .. Len(pat) - 1
      BY <1>3, <3>1
    <3>3. QED
      BY <1>2, <2>1, <3>1, <3>2 DEF Plain
  <2>3. ~inverted' /\ ~match' /\ pc' = "class"
    BY <1>8, <2>2 DEF TokenClass
  <2>4. si' = si + 1 /\ c' = StrAt(si) /\ backStr' = backStr
    BY <1>8 DEF TokenClass
  <2>5. si <= Len(str) + 1 /\ backStr <= si
    BY <1>2, <1>8 DEF TokenClass, AtToken, StringPointers
  <2>6. QED
    BY <1>1, <1>3, <2>3, <2>4, <2>5 DEF StringPointers
<1>9. CASE TokenPast
  BY <1>9 DEF TokenPast, Return, StringPointers
<1>10. CASE ClassMalformed
  <2>1. c # Nul => si <= Len(str) + 1 /\ backStr + 1 <= si
    BY <1>2, <1>3, <1>10 DEF ClassMalformed, StringPointers
  <2>2. QED
    BY <1>1, <1>3, <1>10, <2>1, LiteralInString DEF ClassMalformed
<1>11. CASE ClassSpan
  <2> DEFINE b == IF IsRange THEN PatAt(class + 1) ELSE a
             next == IF IsRange THEN class + 2 ELSE class
             hit == match \/ InSpan(b)
  <2>1. /\ pc = "class" /\ a # Nul /\ match' = hit
        /\ UNCHANGED <<c, inverted>>
        /\ \/ UNCHANGED <<pc, si, backStr>>
           \/ Backtrack(c)
           \/ hit # inverted /\ Continue(next + 1, si)
    BY <1>11 DEF ClassSpan, EndsClass
  <2>2. /\ si <= Len(str) + 2 /\ backStr <= si - 1
        /\ (c # Nul => si <= Len(str) + 1)
        /\ ~inverted /\ (c = Nul => ~match)
    BY <1>2, <2>1 DEF StringPointers
  <2>3. c = Nul => ~hit
    <3>1. a \in 1 .. 255
      BY <2>1, CharAssumption DEF TypeOK
    <3>2. c = Nul => ~InSpan(b)
      BY <3>1 DEF InSpan, Nul
    <3>3. QED
      BY <2>2, <3>2
  <2> HIDE DEF hit, next
  <2>4. CASE UNCHANGED <<pc, si, backStr>>
    BY <1>1, <2>1, <2>2, <2>3, <2>4 DEF StringPointers
  <2>5. CASE Backtrack(c)
    BY <1>1, <1>3, <2>2, <2>5 DEF Backtrack, Return, StringPointers
  <2>6. CASE hit # inverted /\ Continue(next + 1, si)
    <3>1. hit
      BY <2>1, <2>2, <2>6 DEF hit, InSpan, TypeOK
    <3>2. c # Nul
      BY <2>3, <3>1
    <3>3. QED
      BY <1>1, <1>3, <2>2, <2>6, <3>2 DEF Continue, StringPointers
  <2>7. QED
    BY <2>1, <2>4, <2>5, <2>6
<1>12. CASE UNCHANGED vars
  BY <1>2, <1>12 DEF vars, classVars, StringPointers
<1>13. QED
  BY <1>4, <1>5, <1>6, <1>7, <1>8, <1>9, <1>10, <1>11, <1>12
  DEF Next, Step, Returned

(***************************************************************************)
(* Without an inverted class in the pattern, glob_match never reads behind *)
(* the terminator of the string, however long the two are.                 *)
(***************************************************************************)
THEOREM StringReadInBounds == Spec => []StringInBounds
<1>1. Init => StringInv
  <2>1. ASSUME Init PROVE Len(str) \in Nat
    BY <2>1, InitType, LenProperties DEF TypeOK
  <2>2. QED
    BY <2>1 DEF Init, StringInv, StringPointers
<1>2. TypeOK /\ StringInv => StringInBounds
  <2>1. ASSUME TypeOK PROVE si \in Nat /\ Len(str) \in Nat
    BY <2>1, LenProperties DEF TypeOK
  <2>2. QED
    BY <2>1 DEF StringInv, Plain, StringPointers, StringInBounds, Past
<1>3. QED
  BY <1>1, <1>2, InitType, TypeStep, StringStep, PTL DEF Spec

(***************************************************************************)
(* Both together: glob_match stays inside of its two arguments.            *)
(***************************************************************************)
THEOREM ReadInBounds == Spec => []ReadsInBounds
<1>1. PatternInBounds /\ StringInBounds => ReadsInBounds
  BY DEF ReadsInBounds
<1>2. QED
  BY <1>1, PatternReadInBounds, StringReadInBounds, PTL

-----------------------------------------------------------------------------
(***************************************************************************)
(* QuadraticWithoutClasses: between two retries the pattern pointer only   *)
(* moves on, and every retry moves back_str on, which is never set back.   *)
(* So the rounds so far are at most one length of the pattern for each     *)
(* character of the string given up, and the tokens since.                 *)
(***************************************************************************)
Bare == \A i \in 1 .. Len(pat) : pat[i] # OpenBracket

StepsAre(most) == steps <= most

Paid ==
  /\ pc # "class"
  /\ pc = "token" => StepsAre(backStr * (Len(pat) + 1) + pi - 1)
  /\ pc = "done" => StepsAre(StepBound)

QuadraticInv == Bare => Paid

\* One more character given up pays for one more length.
LEMMA OneMore ==
  ASSUME NEW b \in Nat, NEW l \in Nat
  PROVE  (b + 1) * l = b * l + l
  OBVIOUS

\* More characters given up pay for more rounds.
LEMMA MoreRounds ==
  ASSUME NEW b \in Nat, NEW s \in Nat, NEW l \in Nat, b <= s
  PROVE  b * l <= s * l /\ b * l \in Nat /\ s * l \in Nat
<1>1. PICK k \in Nat : s = b + k
  <2>1. s - b \in Nat /\ s = b + (s - b)
    OBVIOUS
  <2>2. QED
    BY <2>1
<1>2. (b + k) * l = b * l + k * l /\ k * l >= 0
  OBVIOUS
<1>3. b * l \in Nat /\ k * l \in Nat
  OBVIOUS
<1>4. QED
  BY <1>1, <1>2, <1>3

\* The rounds of a call that returns now, or goes on behind the star or at p.
LEMMA PaidFor ==
  ASSUME TypeOK, pc = "token", Count, UNCHANGED <<pat, str>>,
         steps <= backStr * (Len(pat) + 1) + pi - 1,
         backStr <= si, si <= Len(str) + 1, pi <= Len(pat) + 1
  PROVE  /\ StepsAre(StepBound)'
         /\ steps' <= (backStr + 1) * (Len(pat) + 1)
         /\ steps' <= si * (Len(pat) + 1) + pi
         /\ steps' <= backStr * (Len(pat) + 1) + pi
<1> DEFINE l == Len(pat) + 1
           m == Len(str) + 1
<1>1. /\ l \in Nat /\ m \in Nat /\ m >= 1 /\ l >= 1
      /\ backStr \in Nat /\ si \in Nat /\ pi \in Nat /\ steps \in Nat
  BY LenProperties DEF TypeOK
<1>2. steps' <= steps + 1 /\ steps' \in Nat
  BY <1>1 DEF Count, TypeOK, StepBound
<1>3. steps <= backStr * l + pi - 1 /\ backStr <= si /\ si <= m /\ pi <= l
  OBVIOUS
<1>4. StepBound' = 2 * l * m
  BY DEF StepBound
<1> HIDE DEF l, m
<1>5. /\ (backStr + 1) * l = backStr * l + l
      /\ backStr * l <= si * l /\ si * l <= m * l /\ l <= m * l
      /\ backStr * l \in Nat /\ si * l \in Nat /\ m * l \in Nat
  <2>1. 1 * l = l
    BY <1>1
  <2>2. QED
    BY <1>1, <1>3, <2>1, OneMore, MoreRounds
<1>6. 2 * l * m = m * l + m * l
  BY <1>1
<1>7. /\ steps' <= (backStr + 1) * l /\ steps' <= si * l + pi
      /\ steps' <= backStr * l + pi
  BY <1>1, <1>2, <1>3, <1>5
<1>8. steps' <= 2 * l * m
  <2>1. steps' <= m * l + m * l
    BY <1>1, <1>2, <1>3, <1>5
  <2>2. QED
    BY <1>6, <2>1
<1>9. QED
  BY <1>4, <1>7, <1>8 DEF l, StepsAre

\* Nor does a literal cost more than its round.
LEMMA LiteralPaid ==
  ASSUME TypeOK, pc = "token", Count, UNCHANGED <<pat, str>>,
         steps <= backStr * (Len(pat) + 1) + pi - 1,
         backStr <= si, si <= Len(str) + 1, pi <= Len(pat) + 1,
         NEW x, NEW d, NEW p \in Nat, NEW s, pi < p, Literal(x, d, p, s)
  PROVE  Paid'
<1> DEFINE l == Len(pat) + 1
<1>1. /\ StepsAre(StepBound)' /\ steps' <= (backStr + 1) * l
      /\ steps' <= backStr * l + pi
  BY PaidFor
<1>2. /\ l \in Nat /\ backStr \in Nat /\ backPat \in Nat /\ pi \in Nat
      /\ steps' \in Nat /\ backStr * l \in Nat /\ (backStr + 1) * l \in Nat
      /\ l = Len(pat')+ 1
  BY LenProperties DEF TypeOK, Count, StepBound
<1>3. CASE Return(0) \/ Return(1)
  BY <1>1, <1>3 DEF Return, Paid
<1>4. CASE Continue(p, s)
  <2>1. pc' = "token" /\ pi' = p /\ backStr' = backStr
    BY <1>4 DEF Continue
  <2>2. steps' <= backStr' * l + pi' - 1
    BY <1>1, <1>2, <2>1
  <2>3. QED
    BY <1>2, <2>1, <2>2 DEF Paid, StepsAre
<1>5. CASE backPat # 0 /\ pc' = "token" /\ pi' = backPat /\ backStr' = backStr + 1
  <2>1. steps' <= backStr' * l + pi' - 1
    BY <1>1, <1>2, <1>5
  <2>2. QED
    BY <1>2, <1>5, <2>1 DEF Paid, StepsAre
<1>6. QED
  BY <1>3, <1>4, <1>5 DEF Literal, Backtrack

\* Every step of a call without classes pays for itself.
LEMMA QuadraticStep ==
  TypeOK /\ PatternInv /\ StringInv /\ QuadraticInv /\ [Next]_vars => QuadraticInv'
<1> SUFFICES ASSUME TypeOK, PatternInv, StringInv, QuadraticInv, [Next]_vars, Bare'
             PROVE  Paid'
  BY DEF QuadraticInv
<1> USE DEF args
<1>1. UNCHANGED <<pat, str>>
  BY DEF Next, Step, Returned, vars, TokenQuery, TokenStar, TokenEscaped,
         TokenLiteral, TokenClass, TokenPast, ClassMalformed, ClassSpan
<1>2. Bare /\ Paid
  BY <1>1 DEF Bare, QuadraticInv
<1>3. StringPointers
  BY <1>2 DEF Bare, StringInv, Plain
<1>4. ASSUME pc = "token"
      PROVE  /\ steps <= backStr * (Len(pat) + 1) + pi - 1
             /\ backStr <= si /\ si <= Len(str) + 1 /\ pi <= Len(pat) + 1
             /\ pi \in Nat \ {0}
  BY <1>2, <1>3, <1>4
  DEF Paid, StepsAre, StringPointers, PatternInv, PatternInBounds, TypeOK
<1>5. CASE TokenQuery
  <2>1. pc = "token" /\ Count /\ (Return(0) \/ Continue(pi + 1, si + 1))
    BY <1>5 DEF TokenQuery, AtToken
  <2>2. /\ StepsAre(StepBound)'
        /\ steps' <= backStr * (Len(pat) + 1) + pi
    BY <1>1, <1>4, <2>1, PaidFor
  <2>3. CASE Return(0)
    BY <2>2, <2>3 DEF Return, Paid
  <2>4. CASE Continue(pi + 1, si + 1)
    <3>1. pc' = "token" /\ pi' = pi + 1 /\ backStr' = backStr
      BY <2>4 DEF Continue
    <3>2. steps' <= backStr' * (Len(pat) + 1) + pi' - 1
      <4>1. pi' - 1 = pi
        BY <1>4, <2>1, <3>1
      <4>2. backStr * (Len(pat) + 1) \in Nat
        BY LenProperties DEF TypeOK
      <4>3. QED
        BY <1>4, <2>1, <2>2, <3>1, <4>2
    <3>3. QED
      BY <1>1, <3>1, <3>2 DEF Paid, StepsAre
  <2>5. QED
    BY <2>1, <2>3, <2>4
<1>6. CASE TokenStar
  <2>1. pc = "token" /\ Count
    BY <1>6 DEF TokenStar, AtToken
  <2>2. /\ StepsAre(StepBound)'
        /\ steps' <= si * (Len(pat) + 1) + pi
    BY <1>1, <1>4, <2>1, PaidFor
  <2>3. CASE Return(1)
    BY <2>2, <2>3 DEF Return, Paid
  <2>4. CASE pc' = "token" /\ backStr' = si /\ pi' = pi + 1
    <3>1. steps' <= backStr' * (Len(pat) + 1) + pi' - 1
      <4>1. si * (Len(pat) + 1) \in Nat
        BY LenProperties DEF TypeOK
      <4>2. QED
        BY <1>4, <2>1, <2>2, <2>4, <4>1
    <3>2. QED
      BY <1>1, <2>4, <3>1 DEF Paid, StepsAre
  <2>5. QED
    BY <1>6, <2>3, <2>4 DEF TokenStar
<1>7. CASE TokenEscaped
  <2>1. /\ pc = "token" /\ Count
        /\ Literal(StrAt(si), PatAt(pi + 1), pi + 2, si + 1)
    BY <1>7 DEF TokenEscaped, AtToken
  <2>2. pi < pi + 2 /\ pi + 2 \in Nat
    BY <1>4, <2>1
  <2>3. QED
    BY <1>1, <1>4, <2>1, <2>2, LiteralPaid
<1>8. CASE TokenLiteral
  <2>1. PICK d : AtToken(d) /\ Literal(StrAt(si), d, pi + 1, si + 1)
    BY <1>8 DEF TokenLiteral
  <2>2. pc = "token" /\ Count
    BY <1>8, <2>1 DEF TokenLiteral, AtToken
  <2>3. pi < pi + 1 /\ pi + 1 \in Nat
    BY <1>4, <2>2
  <2>4. QED
    BY <1>1, <1>4, <2>1, <2>2, <2>3, LiteralPaid
<1>9. CASE TokenClass
  <2>1. PatAt(pi) = OpenBracket /\ pi \in Int
    BY <1>9 DEF TokenClass, AtToken, TypeOK
  <2>2. pi \in 1 .. Len(pat) /\ pat[pi] = OpenBracket
    BY <2>1, BytesWithin DEF OpenBracket, Nul
  <2>3. QED
    BY <1>2, <2>2 DEF Bare
<1>10. CASE TokenPast
  <2>1. pc = "token" /\ Count /\ pc' = "done"
    BY <1>10 DEF TokenPast, Return
  <2>2. StepsAre(StepBound)'
    BY <1>1, <1>4, <2>1, PaidFor
  <2>3. QED
    BY <2>1, <2>2 DEF Paid
<1>11. CASE ClassMalformed \/ ClassSpan
  BY <1>2, <1>11 DEF Paid, ClassMalformed, ClassSpan
<1>12. CASE UNCHANGED vars
  BY <1>2, <1>12 DEF vars, Paid, StepsAre, StepBound
<1>13. QED
  BY <1>5, <1>6, <1>7, <1>8, <1>9, <1>10, <1>11, <1>12 DEF Next, Step, Returned

(***************************************************************************)
(* Without a class in the pattern, glob_match takes at most twice as many  *)
(* rounds as the product of the two lengths, whatever the stars.           *)
(***************************************************************************)
THEOREM AtMostQuadratic == Spec => []QuadraticWithoutClasses
<1>1. Init => PatternInv /\ StringInv /\ QuadraticInv
  <2>1. ASSUME Init
        PROVE  Len(pat) \in Nat /\ Len(str) \in Nat
    BY <2>1, InitType, LenProperties DEF TypeOK
  <2>2. QED
    BY <2>1 DEF Init, PatternInv, PatternInBounds, StringInv, StringPointers,
                QuadraticInv, Paid, StepsAre
<1>2. TypeOK /\ PatternInv /\ StringInv /\ QuadraticInv => QuadraticWithoutClasses
  <2> SUFFICES ASSUME TypeOK, PatternInv, StringInv, QuadraticInv, Bare
               PROVE  steps <= StepBound
    BY DEF QuadraticWithoutClasses, Bare
  <2>1. Paid /\ StringPointers
    BY DEF QuadraticInv, StringInv, Plain, Bare
  <2>2. CASE pc = "done"
    BY <2>1, <2>2 DEF Paid, StepsAre
  <2>3. CASE pc = "token"
    <3> DEFINE l == Len(pat) + 1
               m == Len(str) + 1
    <3>1. /\ l \in Nat /\ m \in Nat /\ m >= 1
          /\ backStr \in Nat /\ si \in Nat /\ pi \in Nat /\ steps \in Nat
      BY LenProperties DEF TypeOK
    <3>2. steps <= backStr * l + pi - 1 /\ backStr <= m /\ pi <= l
      BY <2>1, <2>3, <3>1
      DEF Paid, StepsAre, StringPointers, PatternInv, PatternInBounds
    <3>3. StepBound = 2 * l * m
      BY DEF StepBound
    <3> HIDE DEF l, m
    <3>4. /\ backStr * l <= m * l /\ 1 * l <= m * l
          /\ backStr * l \in Nat /\ m * l \in Nat
      BY <3>1, <3>2, MoreRounds
    <3>5. 2 * l * m = m * l + m * l /\ 1 * l = l
      BY <3>1
    <3>6. steps <= m * l + m * l
      BY <3>1, <3>2, <3>4, <3>5
    <3>7. QED
      BY <3>3, <3>5, <3>6
  <2>4. QED
    BY <2>1, <2>2, <2>3 DEF Paid, TypeOK
<1>3. QED
  BY <1>1, <1>2, InitType, TypeStep, PatternStep, StringStep, QuadraticStep, PTL
  DEF Spec

-----------------------------------------------------------------------------
(***************************************************************************)
(* The recursive definitions of the reference: both are well founded,      *)
(* since every place of the pattern is defined from the ones behind it.    *)
(***************************************************************************)

\* What holds at a place whenever it holds at all behind it holds at all.
LEMMA FromTheEnd ==
  ASSUME NEW n \in Nat, NEW S,
         \A i \in 1 .. n : (\A j \in i + 1 .. n : j \in S) => i \in S
  PROVE  \A i \in 1 .. n : i \in S
<1> DEFINE Less == OpToRel(<, Nat)
           Bad == {k \in Nat : k < n /\ n - k \notin S}
<1>1. IsWellFoundedOn(Less, Nat)
  BY NatLessThanWellFounded, Zenon
<1>2. \A y, x \in Nat : y < x => <<y, x>> \in Less
  BY DEF OpToRel
<1> HIDE DEF Less
<1>3. ASSUME Bad # {} PROVE FALSE
  <2>1. \E x \in Bad : \A y \in Bad : <<y, x>> \notin Less
    <3>1. Bad \subseteq Nat
      OBVIOUS
    <3> HIDE DEF Bad
    <3>2. QED
      BY <1>1, <1>3, <3>1, WFMin
  <2>2. PICK x \in Bad : \A y \in Bad : <<y, x>> \notin Less
    BY <2>1
  <2>3. x \in Nat /\ x < n /\ n - x \notin S /\ n - x \in 1 .. n
    OBVIOUS
  <2>4. ASSUME NEW j \in n - x + 1 .. n PROVE j \in S
    <3>1. n - j \in Nat /\ n - j < x /\ n - (n - j) = j
      BY <2>3
    <3>2. n - j \notin Bad
      BY <1>2, <2>2, <2>3, <3>1
    <3>3. n - j < n
      BY <2>3, <3>1
    <3>4. QED
      BY <3>1, <3>2, <3>3
  <2>5. QED
    BY <2>3, <2>4
<1>4. ASSUME NEW i \in 1 .. n PROVE i \in S
  <2>1. n - i \in Nat /\ n - i < n /\ n - (n - i) = i
    OBVIOUS
  <2>2. QED
    BY <1>3, <2>1
<1>5. QED
  BY <1>4

\* F takes a function to another and looks only at the places behind.
LooksBehind(F, T, n) ==
  /\ F \in [[1 .. n -> T] -> [1 .. n -> T]]
  /\ \A f, g \in [1 .. n -> T] : \A i \in 1 .. n :
       (\A j \in i + 1 .. n : f[j] = g[j]) => F[f][i] = F[g][i]

\* Such an F has a fixed point.
LEMMA DefinedFromTheEnd ==
  ASSUME NEW n \in Nat \ {0}, NEW T, NEW F, NEW start \in T, LooksBehind(F, T, n)
  PROVE  \E f \in [1 .. n -> T] : f = F[f]
<1> DEFINE D == 1 .. n
           Good(f, m) == \A i \in m .. n : f[i] = F[f][i]
           S == {m \in D : \E f \in [D -> T] : Good(f, m)}
<1>0. F \in [[D -> T] -> [D -> T]]
  BY DEF LooksBehind
<1>1. ASSUME NEW m \in D, \A j \in m + 1 .. n : j \in S PROVE m \in S
  <2>1. PICK f \in [D -> T] : Good(f, m + 1)
    <3>1. CASE m = n
      <4>1. [i \in D |-> start] \in [D -> T] /\ m + 1 .. n = {}
        BY <3>1
      <4>2. QED
        BY <4>1
    <3>2. CASE m < n
      <4>1. m + 1 \in S
        <5>1. m + 1 \in m + 1 .. n
          BY <3>2
        <5>2. QED
          BY ONLY <1>1, <5>1
      <4>2. QED
        BY <4>1
    <3>3. QED
      BY <3>1, <3>2
  <2>2. PICK v \in T : v = F[f][m]
    BY <1>0
  <2> DEFINE g == [f EXCEPT ![m] = v]
  <2>3. g \in [D -> T] /\ g[m] = v /\ \A j \in m + 1 .. n : g[j] = f[j]
    OBVIOUS
  <2> HIDE DEF g
  <2>4. ASSUME NEW i \in m .. n PROVE F[g][i] = F[f][i]
    <3>1. i \in D /\ \A j \in i + 1 .. n : g[j] = f[j]
      BY <2>3
    <3>2. QED
      BY <2>3, <3>1 DEF LooksBehind
  <2>5. ASSUME NEW i \in m .. n PROVE g[i] = F[g][i]
    <3>1. CASE i = m
      BY <2>2, <2>3, <2>4, <3>1
    <3>2. CASE i \in m + 1 .. n
      BY <2>1, <2>3, <2>4, <3>2
    <3>3. QED
      BY <3>1, <3>2
  <2>6. QED
    BY <2>3, <2>5
<1>2. 1 \in S
  <2> HIDE DEF S
  <2>1. n \in Nat /\ 1 \in 1 .. n
    OBVIOUS
  <2>2. \A i \in 1 .. n : (\A j \in i + 1 .. n : j \in S) => i \in S
    BY <1>1
  <2>3. \A i \in 1 .. n : i \in S
    BY <2>1, <2>2, FromTheEnd
  <2>4. QED
    BY <2>1, <2>3
<1>3. PICK f \in [D -> T] : Good(f, 1)
  BY <1>2
<1>4. F[f] \in [D -> T] /\ \A i \in D : f[i] = F[f][i]
  BY <1>0, <1>3
<1>5. QED
  BY <1>4

Bytes == 1 .. 255
SpanType == [end : Nat, chars : SUBSET Bytes]

\* A span of a class takes its value from a place behind it.
LEMMA SpanFromType ==
  ASSUME NEW p \in Seq(Bytes), NEW f, NEW q \in 1 .. Len(p) + 1
  PROVE  /\ (\A j \in q + 1 .. Len(p) + 1 : f[j] \in SpanType)
              => SpanFrom(p, f, q) \in SpanType
         /\ \A g : (\A j \in q + 1 .. Len(p) + 1 : f[j] = g[j])
                     => SpanFrom(p, f, q) = SpanFrom(p, g, q)
<1> DEFINE range == At(p, q + 1) = Minus /\ At(p, q + 2) # CloseBracket
           last == IF range THEN q + 2 ELSE q
<1>1. /\ Len(p) \in Nat /\ last \in Nat /\ q <= last /\ q \in Nat
      /\ last <= Len(p) => last + 1 \in q + 1 .. Len(p) + 1
  BY LenProperties
<1>2. ASSUME last <= Len(p) PROVE p[q] .. p[last] \in SUBSET Bytes
  <2>1. p[q] \in Bytes /\ p[last] \in Bytes
    <3>1. q \in 1 .. Len(p) /\ last \in 1 .. Len(p)
      BY ONLY <1>1, <1>2, q \in 1 .. Len(p) + 1
    <3> HIDE DEF last
    <3>2. QED
      BY <3>1, ElementOfSeq
  <2> HIDE DEF last
  <2>2. \A x, y \in Bytes : x .. y \in SUBSET Bytes
    BY DEF Bytes
  <2>3. QED
    BY <2>1, <2>2
<1>3. ASSUME NEW g
      PROVE  SpanFrom(p, g, q) =
               IF last > Len(p) THEN [end |-> 0, chars |-> {}]
               ELSE IF At(p, last + 1) = CloseBracket
                      THEN [end |-> last + 1, chars |-> p[q] .. p[last]]
                      ELSE [end |-> g[last + 1].end,
                            chars |-> (p[q] .. p[last]) \cup g[last + 1].chars]
  BY DEF SpanFrom
<1> HIDE DEF last
<1>4. CASE last > Len(p)
  <2>1. [end |-> 0, chars |-> {}] \in SpanType
    BY DEF SpanType
  <2>2. \A g : SpanFrom(p, g, q) = [end |-> 0, chars |-> {}]
    BY <1>3, <1>4
  <2>3. QED
    BY <2>1, <2>2
<1>5. CASE last <= Len(p)
  <2>3. ASSUME \A j \in q + 1 .. Len(p) + 1 : f[j] \in SpanType
        PROVE  SpanFrom(p, f, q) \in SpanType
    <3>1. f[last + 1] \in SpanType
      BY <1>1, <1>5, <2>3
    <3>2. f[last + 1].end \in Nat /\ f[last + 1].chars \in SUBSET Bytes
      BY <3>1 DEF SpanType
    <3> DEFINE fst == p[q] .. p[last]
    <3>3. fst \in SUBSET Bytes /\ last + 1 \in Nat /\ ~(last > Len(p))
      BY <1>1, <1>2, <1>5
    <3>4. SpanFrom(p, f, q) =
            IF At(p, last + 1) = CloseBracket
              THEN [end |-> last + 1, chars |-> fst]
              ELSE [end |-> f[last + 1].end,
                    chars |-> fst \cup f[last + 1].chars]
      BY <1>3, <3>3
    <3> HIDE DEF fst
    <3>5. QED
      BY <3>2, <3>3, <3>4 DEF SpanType
  <2>4. ASSUME NEW g,
               \A j \in q + 1 .. Len(p) + 1 : f[j] = g[j]
        PROVE  SpanFrom(p, f, q) = SpanFrom(p, g, q)
    <3>1. f[last + 1] = g[last + 1]
      BY <1>1, <1>5, <2>4
    <3>2. QED
      BY <1>3, <3>1
  <2>5. QED
    BY <2>3, <2>4
<1>6. QED
  BY <1>1, <1>4, <1>5

\* Spans(p) satisfies its recursive definition.
LEMMA SpansDefined ==
  ASSUME NEW p \in Seq(Bytes)
  PROVE  /\ Spans(p) \in [1 .. Len(p) + 1 -> SpanType]
         /\ \A q \in 1 .. Len(p) + 1 : Spans(p)[q] = SpanFrom(p, Spans(p), q)
<1> DEFINE D == 1 .. Len(p) + 1
           F == [f \in [D -> SpanType] |-> [q \in D |-> SpanFrom(p, f, q)]]
<1>1. Len(p) + 1 \in Nat \ {0}
  BY LenProperties
<1>2. F \in [[D -> SpanType] -> [D -> SpanType]]
  BY SpanFromType
<1>3. LooksBehind(F, SpanType, Len(p) + 1)
  <2> SUFFICES ASSUME NEW f \in [D -> SpanType], NEW g \in [D -> SpanType],
                      NEW i \in D, \A j \in i + 1 .. Len(p) + 1 : f[j] = g[j]
               PROVE  F[f][i] = F[g][i]
    BY <1>2 DEF LooksBehind
  <2>1. SpanFrom(p, f, i) = SpanFrom(p, g, i)
    BY SpanFromType
  <2>2. QED
    BY <2>1
<1>4. [end |-> 0, chars |-> {}] \in SpanType
  BY DEF SpanType
<1>5. \E f \in [D -> SpanType] : f = F[f]
  <2> DEFINE n == Len(p) + 1
             start == [end |-> 0, chars |-> {}]
  <2>1. n \in Nat \ {0} /\ start \in SpanType /\ LooksBehind(F, SpanType, n)
    BY <1>1, <1>3, <1>4
  <2> HIDE DEF F, n, start
  <2>2. \E f \in [1 .. n -> SpanType] : f = F[f]
    BY <2>1, DefinedFromTheEnd
  <2>3. QED
    BY <2>2 DEF n
<1>6. \E f : f = [q \in D |-> SpanFrom(p, f, q)]
  BY <1>5
<1>7. Spans(p) = [q \in D |-> SpanFrom(p, Spans(p), q)]
  <2>1. Spans(p) = CHOOSE f : f = [q \in D |-> SpanFrom(p, f, q)]
    BY DEF Spans
  <2>2. QED
    BY <1>6, <2>1
<1>8. ASSUME NEW q \in D PROVE Spans(p)[q] = SpanFrom(p, Spans(p), q)
  BY <1>7
<1>9. \A q \in D : Spans(p)[q] \in SpanType
  <2> DEFINE Typed == {q \in D : Spans(p)[q] \in SpanType}
  <2>1. ASSUME NEW q \in D, \A j \in q + 1 .. Len(p) + 1 : j \in Typed
        PROVE  q \in Typed
    BY <1>8, <2>1, SpanFromType
  <2> HIDE DEF Typed
  <2>2. \A q \in D : q \in Typed
    BY <1>1, <2>1, FromTheEnd
  <2>3. QED
    BY <2>2 DEF Typed
<1>10. Spans(p) \in [D -> SpanType]
  BY <1>7, <1>9
<1>11. QED
  BY <1>8, <1>10

\* A class that is closed is closed behind its spans.
LEMMA SpanEnds ==
  ASSUME NEW p \in Seq(Bytes)
  PROVE  \A q \in 1 .. Len(p) + 1 :
           Spans(p)[q].end = 0 \/ Spans(p)[q].end \in q + 1 .. Len(p)
<1> DEFINE D == 1 .. Len(p) + 1
           Ends == {q \in D : Spans(p)[q].end = 0
                                \/ Spans(p)[q].end \in q + 1 .. Len(p)}
<1>1. Len(p) + 1 \in Nat
  BY LenProperties
<1>2. ASSUME NEW q \in D, \A j \in q + 1 .. Len(p) + 1 : j \in Ends PROVE q \in Ends
  <2> DEFINE range == At(p, q + 1) = Minus /\ At(p, q + 2) # CloseBracket
             last == IF range THEN q + 2 ELSE q
  <2>1. Spans(p)[q] =
          IF last > Len(p) THEN [end |-> 0, chars |-> {}]
          ELSE IF At(p, last + 1) = CloseBracket
                 THEN [end |-> last + 1, chars |-> p[q] .. p[last]]
                 ELSE [end |-> Spans(p)[last + 1].end,
                       chars |-> (p[q] .. p[last]) \cup Spans(p)[last + 1].chars]
    BY SpansDefined DEF SpanFrom
  <2>2. last \in Nat /\ q <= last
    OBVIOUS
  <2> HIDE DEF last
  <2>3. CASE last > Len(p)
    BY <2>1, <2>3
  <2>4. CASE last <= Len(p) /\ At(p, last + 1) = CloseBracket
    <3>1. last + 1 <= Len(p)
      BY <1>1, <2>2, <2>4 DEF At, CloseBracket, Nul
    <3>2. Spans(p)[q].end = last + 1
      BY <1>1, <2>1, <2>2, <2>4
    <3>3. QED
      BY <1>1, <2>2, <3>1, <3>2
  <2>5. CASE last <= Len(p) /\ At(p, last + 1) # CloseBracket
    <3>1. Spans(p)[q].end = Spans(p)[last + 1].end
      BY <1>1, <2>1, <2>2, <2>5
    <3>2. last + 1 \in q + 1 .. Len(p) + 1
      BY <1>1, <2>2, <2>5
    <3>3. last + 1 \in Ends
      BY <1>2, <3>2
    <3>4. QED
      BY <1>1, <2>2, <3>1, <3>3
  <2>6. QED
    BY <1>1, <2>2, <2>3, <2>4, <2>5
<1>3. \A q \in D : q \in Ends
  <2> HIDE DEF Ends
  <2>1. QED
    BY <1>1, <1>2, FromTheEnd
<1>4. QED
  BY <1>3

\* The bytes of a string are not the terminator.
LEMMA NoNul ==
  ASSUME NEW p \in Seq(Bytes), NEW i \in 1 .. Len(p) + 1
  PROVE  /\ At(p, i) # Nul <=> i <= Len(p)
         /\ i <= Len(p) => At(p, i) = p[i] /\ p[i] \in Bytes
<1>1. Len(p) \in Nat /\ i \in Nat
  BY LenProperties
<1>2. ASSUME i <= Len(p) PROVE p[i] \in Bytes
  BY <1>1, <1>2, ElementOfSeq
<1>3. 0 \notin Bytes
  BY DEF Bytes
<1>4. QED
  BY <1>1, <1>2, <1>3 DEF At, Nul

\* The places from which a pattern matches are places of the string, and
\* those of a token depend on the tokens behind it.
LEMMA PlacesFromType ==
  ASSUME NEW p \in Seq(Bytes), NEW s, Len(s) \in Nat,
         NEW F, NEW i \in 1 .. Len(p) + 1
  PROVE  /\ PlacesFrom(p, s, F, i) \in SUBSET (1 .. Len(s) + 1)
         /\ \A G : (\A j \in i + 1 .. Len(p) + 1 : F[j] = G[j])
                     => PlacesFrom(p, s, F, i) = PlacesFrom(p, s, G, i)
<1>1. PlacesFrom(p, s, F, i) \in SUBSET (1 .. Len(s) + 1)
  BY DEF PlacesFrom
<1>2. ASSUME NEW G, \A j \in i + 1 .. Len(p) + 1 : F[j] = G[j]
      PROVE  PlacesFrom(p, s, F, i) = PlacesFrom(p, s, G, i)
  <2>1. CASE At(p, i) = Nul
    BY <2>1 DEF PlacesFrom, Nul, Star, Query, OpenBracket, Backslash
  <2>2. CASE At(p, i) # Nul
    <3> DEFINE e == ClassAt(p, i).end
    <3>1. i \in Nat /\ Len(p) \in Nat /\ i <= Len(p)
      BY <2>2, NoNul, LenProperties
    <3>2. F[i + 1] = G[i + 1]
      BY <1>2, <3>1
    <3>3. i < Len(p) => F[i + 2] = G[i + 2]
      BY <1>2, <3>1
    <3>4. ASSUME At(p, i) = OpenBracket, e # 0 PROVE F[e + 1] = G[e + 1]
      <4> DEFINE q == IF At(p, i + 1) = Bang THEN i + 2 ELSE i + 1
      <4>1. q \in 1 .. Len(p) + 1 /\ q > i
        BY <3>1 DEF At, Bang, Nul
      <4>2. e = Spans(p)[q].end
        BY DEF ClassAt
      <4> HIDE DEF q, e
      <4>3. e \in q + 1 .. Len(p)
        BY <3>4, <4>1, <4>2, SpanEnds
      <4>4. e + 1 \in i + 1 .. Len(p) + 1
        BY <3>1, <4>1, <4>3
      <4>5. QED
        BY <1>2, <4>4
    <3> HIDE DEF e
    <3>5. QED
      BY <3>1, <3>2, <3>3, <3>4 DEF PlacesFrom, e
  <2>3. QED
    BY <2>1, <2>2
<1>3. QED
  BY <1>1, <1>2

\* Places(p, s) satisfies its recursive definition.
LEMMA PlacesDefined ==
  ASSUME NEW p \in Seq(Bytes), NEW s, Len(s) \in Nat
  PROVE  \A i \in 1 .. Len(p) + 1 :
           /\ Places(p, s)[i] = PlacesFrom(p, s, Places(p, s), i)
           /\ Places(p, s)[i] \in SUBSET (1 .. Len(s) + 1)
<1> DEFINE D == 1 .. Len(p) + 1
           T == SUBSET (1 .. Len(s) + 1)
           F == [f \in [D -> T] |-> [i \in D |-> PlacesFrom(p, s, f, i)]]
<1>1. Len(p) + 1 \in Nat \ {0}
  BY LenProperties
<1>2. F \in [[D -> T] -> [D -> T]]
  <2> HIDE DEF T
  <2>1. \A f \in [D -> T] : \A i \in D : PlacesFrom(p, s, f, i) \in T
    BY PlacesFromType DEF T
  <2>2. QED
    BY <2>1
<1>3. LooksBehind(F, T, Len(p) + 1)
  <2> SUFFICES ASSUME NEW f \in [D -> T], NEW g \in [D -> T],
                      NEW i \in D, \A j \in i + 1 .. Len(p) + 1 : f[j] = g[j]
               PROVE  F[f][i] = F[g][i]
    BY <1>2 DEF LooksBehind
  <2>1. PlacesFrom(p, s, f, i) = PlacesFrom(p, s, g, i)
    BY PlacesFromType
  <2> HIDE DEF T
  <2>2. QED
    BY <2>1
<1>4. \E f \in [D -> T] : f = F[f]
  <2> DEFINE n == Len(p) + 1
  <2>1. n \in Nat \ {0} /\ {} \in T /\ LooksBehind(F, T, n)
    BY <1>1, <1>3
  <2> HIDE DEF F, T, n
  <2>2. \E f \in [1 .. n -> T] : f = F[f]
    BY <2>1, DefinedFromTheEnd
  <2>3. QED
    BY <2>2 DEF n
<1>5. \E f : f = [i \in D |-> PlacesFrom(p, s, f, i)]
  <2> HIDE DEF T
  <2>1. QED
    BY <1>4
<1>6. Places(p, s) = [i \in D |-> PlacesFrom(p, s, Places(p, s), i)]
  <2>1. Places(p, s) = CHOOSE f : f = [i \in D |-> PlacesFrom(p, s, f, i)]
    BY DEF Places
  <2>2. QED
    BY <1>5, <2>1
<1>7. ASSUME NEW i \in D
      PROVE  /\ Places(p, s)[i] = PlacesFrom(p, s, Places(p, s), i)
             /\ Places(p, s)[i] \in T
  BY <1>6, PlacesFromType
<1>8. QED
  BY <1>7

-----------------------------------------------------------------------------
(***************************************************************************)
(* OneStarIsEnough.  With P and S where the loop stands and bp and bs where*)
(* it takes up after the last star, of M = Places(pat, str) it is known:   *)
(* the string matches if and only if it does from here on or from a later  *)
(* place behind that star; and every such place k leads through the tokens *)
(* since the star, which take a character each, to k + (S - bs) here.  So  *)
(* a second star, which reaches every later place, makes the retries of    *)
(* the first one superfluous.                                              *)
(***************************************************************************)
Stands(M, n, bp, bs, P, S) ==
  /\ S \in 1 .. n
  /\ bp # 0 => bs \in 1 .. S
  /\ 1 \in M[1] <=> S \in M[P] \/ (bp # 0 /\ \E k \in bs + 1 .. n : k \in M[bp])
  /\ bp # 0 => \A k \in bs .. n : k \in M[bp] => k + (S - bs) \in M[P]

\* Where the rest fails, it fails for good without a star or a character left.
LEMMA StandsLost ==
  ASSUME NEW n \in Nat, NEW M, NEW bp, NEW bs \in Nat, NEW P, NEW S,
         Stands(M, n, bp, bs, P, S), S \notin M[P], M[P] \in SUBSET (1 .. n),
         bp = 0 \/ S = n
  PROVE  1 \notin M[1]
<1>1. CASE bp = 0
  BY <1>1 DEF Stands
<1>2. CASE bp # 0 /\ S = n
  <2>1. bs \in 1 .. n
    BY <1>2 DEF Stands
  <2>2. ASSUME NEW k \in bs + 1 .. n, k \in M[bp] PROVE FALSE
    <3>1. k + (S - bs) \in M[P]
      BY <1>2, <2>1, <2>2 DEF Stands
    <3>2. k + (S - bs) > n
      BY <1>2, <2>1
    <3>3. QED
      BY <2>1, <3>1, <3>2
  <2>3. QED
    BY <1>2, <2>2 DEF Stands
<1>3. QED
  BY <1>1, <1>2

\* Where it fails and both are left, the next place behind the star is tried.
LEMMA StandsRetry ==
  ASSUME NEW n \in Nat, NEW M, NEW bp, NEW bs \in Nat, NEW P, NEW S,
         Stands(M, n, bp, bs, P, S), S \notin M[P], bp # 0, S # n
  PROVE  Stands(M, n, bp, bs + 1, bp, bs + 1)
<1>1. S \in 1 .. n - 1 /\ bs \in 1 .. S /\ bs + 1 \in 1 .. n
  BY DEF Stands
<1>2. 1 \in M[1] <=> \E k \in bs + 1 .. n : k \in M[bp]
  BY DEF Stands
<1>3. (\E k \in bs + 1 .. n : k \in M[bp])
        <=> bs + 1 \in M[bp] \/ \E k \in bs + 1 + 1 .. n : k \in M[bp]
  BY <1>1
<1>4. \A k \in bs + 1 .. n : k + (bs + 1 - (bs + 1)) = k
  OBVIOUS
<1>5. QED
  BY <1>1, <1>2, <1>3, <1>4 DEF Stands

\* Behind a token that takes one character the same is known.
LEMMA StandsOn ==
  ASSUME NEW n \in Nat, NEW M, NEW bp, NEW bs \in Nat, NEW P, NEW S, NEW Q,
         Stands(M, n, bp, bs, P, S), S # n, M[P] \in SUBSET (1 .. n),
         \A j \in 1 .. n : j \in M[P] => j + 1 \in M[Q],
         S + 1 \in M[Q] => S \in M[P]
  PROVE  Stands(M, n, bp, bs, Q, S + 1)
<1>1. S \in 1 .. n - 1 /\ S + 1 \in 1 .. n /\ (bp # 0 => bs \in 1 .. S)
  BY DEF Stands
<1>2. S \in M[P] <=> S + 1 \in M[Q]
  BY <1>1
<1>3. ASSUME bp # 0, NEW k \in bs .. n, k \in M[bp]
      PROVE  k + (S + 1 - bs) \in M[Q]
  <2>1. k + (S - bs) \in M[P]
    BY <1>3 DEF Stands
  <2>2. k + (S - bs) + 1 = k + (S + 1 - bs)
    BY <1>1, <1>3
  <2>3. QED
    BY <2>1, <2>2
<1>4. 1 \in M[1] <=> S + 1 \in M[Q] \/ (bp # 0 /\ \E k \in bs + 1 .. n : k \in M[bp])
  BY <1>2 DEF Stands
<1>5. bp # 0 => bs \in 1 .. S + 1
  BY <1>1
<1>6. QED
  BY <1>1, <1>3, <1>4, <1>5 DEF Stands

\* A star takes over from the one before.
LEMMA StandsStar ==
  ASSUME NEW n \in Nat, NEW M, NEW bp, NEW bs \in Nat, NEW P \in Nat, NEW S,
         Stands(M, n, bp, bs, P, S), M[P + 1] \in SUBSET (1 .. n),
         \A j \in 1 .. n : j \in M[P] <=> \E k \in M[P + 1] : j <= k,
         M[P] \in SUBSET (1 .. n)
  PROVE  Stands(M, n, P + 1, S, P + 1, S)
<1>1. S \in 1 .. n /\ (bp # 0 => bs \in 1 .. S)
  BY DEF Stands
<1>2. ASSUME bp # 0, NEW k \in bs + 1 .. n, k \in M[bp] PROVE S \in M[P]
  <2>1. k + (S - bs) \in M[P]
    BY <1>1, <1>2 DEF Stands
  <2>2. k + (S - bs) \in 1 .. n /\ S <= k + (S - bs)
    BY <1>1, <1>2, <2>1
  <2>3. PICK e \in M[P + 1] : k + (S - bs) <= e
    BY <2>1, <2>2
  <2>4. e \in 1 .. n /\ S <= e
    BY <1>1, <2>2, <2>3
  <2>5. QED
    BY <1>1, <2>4
<1>3. 1 \in M[1] <=> S \in M[P]
  BY <1>2 DEF Stands
<1>4. S \in M[P] <=> S \in M[P + 1] \/ \E k \in S + 1 .. n : k \in M[P + 1]
  <2>1. S \in M[P] <=> \E k \in M[P + 1] : S <= k
    BY <1>1
  <2>2. \A k \in M[P + 1] : S <= k <=> k = S \/ k \in S + 1 .. n
    BY <1>1
  <2>3. QED
    BY <1>1, <2>1, <2>2
<1>5. P + 1 # 0 /\ S \in 1 .. S /\ \A k \in S .. n : k + (S - S) = k
  BY <1>1
<1>6. QED
  BY <1>1, <1>3, <1>4, <1>5 DEF Stands

End == Len(str) + 1
Board == Places(pat, str)

\* The token at i takes one character, of the set C, and goes on at q.
OneChar(i, C, q) ==
  \A j \in 1 .. End : j \in Board[i] <=> StrAt(j) \in C /\ j + 1 \in Board[q]

\* The token at i matches nothing but the end of the string.
OnlyEnd(i) == \A j \in 1 .. End : j \in Board[i] <=> j = End

\* The arguments are strings of bytes.
LEMMA ArgumentBytes ==
  ASSUME TypeOK
  PROVE  /\ pat \in Seq(Bytes) /\ str \in Seq(Bytes)
         /\ Len(pat) \in Nat /\ Len(str) \in Nat
<1>1. PatChar \subseteq Bytes /\ StrChar \subseteq Bytes
  BY CharAssumption DEF Bytes
<1>2. \A S, s : S \subseteq Bytes /\ s \in Seq(S) => s \in Seq(Bytes)
  OBVIOUS
<1>3. pat \in Seq(Bytes) /\ str \in Seq(Bytes)
  BY <1>1, <1>2 DEF TypeOK
<1>4. QED
  BY <1>3, LenProperties

\* A character of a set of bytes, before one of the places E.
LEMMA BeforeIs ==
  ASSUME TypeOK, NEW C, Nul \notin C, NEW E
  PROVE  \A j \in 1 .. End : j \in Before(str, C, E) <=> StrAt(j) \in C /\ j + 1 \in E
<1>1. Len(str) \in Nat
  BY ArgumentBytes
<1>2. QED
  BY <1>1 DEF Before, End, StrAt, At

\* What the reference definition says of the token at i.
LEMMA BoardAt ==
  ASSUME TypeOK, NEW i \in 1 .. Len(pat) + 1
  PROVE  /\ Board[i] \in SUBSET (1 .. End)
         /\ PatAt(i) = Nul \/ (PatAt(i) = Backslash /\ PatAt(i + 1) = Nul) => OnlyEnd(i)
         /\ PatAt(i) = Star =>
              \A j \in 1 .. End : j \in Board[i] <=> \E k \in Board[i + 1] : j <= k
         /\ PatAt(i) = Query => OneChar(i, Bytes, i + 1)
         /\ PatAt(i) = OpenBracket /\ ClassAt(pat, i).end # 0 =>
              OneChar(i, Accepted(pat, i), ClassAt(pat, i).end + 1)
         /\ PatAt(i) = OpenBracket /\ ClassAt(pat, i).end = 0 =>
              OneChar(i, {OpenBracket}, i + 1)
         /\ PatAt(i) = Backslash /\ PatAt(i + 1) # Nul =>
              OneChar(i, {PatAt(i + 1)}, i + 2)
         /\ PatAt(i) \notin {Nul, Query, Star, Backslash, OpenBracket} =>
              OneChar(i, {PatAt(i)}, i + 1)
<1> USE DEF Nul, Star, Query, OpenBracket, Backslash
<1>1. /\ pat \in Seq(Bytes) /\ Len(pat) \in Nat /\ Len(str) \in Nat
      /\ \A k \in 1 .. Len(pat) + 1 : PatAt(k) # Nul <=> k <= Len(pat)
      /\ \A k \in 1 .. Len(pat) : PatAt(k) = pat[k]
  BY ArgumentBytes, NoNul DEF PatAt
<1>2. /\ Board[i] = PlacesFrom(pat, str, Board, i)
      /\ Board[i] \in SUBSET (1 .. End)
  BY <1>1, PlacesDefined DEF Board, End
<1> DEFINE Escaped == Before(str, {pat[i + 1]}, Board[i + 2])
<1>3. \A j \in 1 .. End : j \in Board[i] <=>
        \/ /\ PatAt(i) = Nul \/ (PatAt(i) = Backslash /\ i = Len(pat))
           /\ j = End
        \/ PatAt(i) = Star /\ \E k \in Board[i + 1] : j <= k
        \/ PatAt(i) = Query /\ j \in Before(str, Bytes, Board[i + 1])
        \/ /\ PatAt(i) = OpenBracket /\ ClassAt(pat, i).end # 0
           /\ j \in Before(str, Accepted(pat, i), Board[ClassAt(pat, i).end + 1])
        \/ /\ PatAt(i) = Backslash /\ i < Len(pat)
           /\ j \in Escaped
        \/ /\ PatAt(i) \notin {Nul, Star, Query, Backslash}
           /\ ~(PatAt(i) = OpenBracket /\ ClassAt(pat, i).end # 0)
           /\ j \in Before(str, {PatAt(i)}, Board[i + 1])
  <2>1. Board[i] = PlacesFrom(pat, str, Board, i)
    BY <1>2
  <2>2. QED
    BY ONLY <2>1 DEF PlacesFrom, PatAt, End, Bytes
<1> HIDE DEF Escaped
<1>4. PatAt(i) = Backslash => i <= Len(pat) /\ (i = Len(pat) <=> PatAt(i + 1) = Nul)
  BY <1>1
<1>5. PatAt(i) = Nul \/ (PatAt(i) = Backslash /\ PatAt(i + 1) = Nul) => OnlyEnd(i)
  BY <1>3, <1>4 DEF OnlyEnd
<1>6. PatAt(i) = Star =>
        \A j \in 1 .. End : j \in Board[i] <=> \E k \in Board[i + 1] : j <= k
  BY <1>3
<1>7. PatAt(i) = Query => OneChar(i, Bytes, i + 1)
  <2>1. Nul \notin Bytes
    BY DEF Bytes
  <2>2. QED
    BY <1>3, <2>1, BeforeIs DEF OneChar
<1>8. ASSUME PatAt(i) = OpenBracket, ClassAt(pat, i).end # 0
      PROVE  OneChar(i, Accepted(pat, i), ClassAt(pat, i).end + 1)
  <2>1. Nul \notin Accepted(pat, i)
    BY DEF Accepted
  <2>2. QED
    BY <1>3, <1>8, <2>1, BeforeIs DEF OneChar
<1>9. ASSUME PatAt(i) = OpenBracket, ClassAt(pat, i).end = 0
      PROVE  OneChar(i, {OpenBracket}, i + 1)
  <2>1. Nul \notin {PatAt(i)}
    BY <1>9
  <2>2. \A j \in 1 .. End :
          j \in Board[i] <=> j \in Before(str, {PatAt(i)}, Board[i + 1])
    BY <1>3, <1>9
  <2>3. OneChar(i, {PatAt(i)}, i + 1)
    BY <2>1, <2>2, BeforeIs DEF OneChar
  <2>4. QED
    BY <1>9, <2>3
<1>10. ASSUME PatAt(i) = Backslash, PatAt(i + 1) # Nul
       PROVE  OneChar(i, {PatAt(i + 1)}, i + 2)
  <2>1. Nul \notin {PatAt(i + 1)} /\ i < Len(pat) /\ PatAt(i + 1) = pat[i + 1]
    BY <1>1, <1>4, <1>10
  <2>2. \A j \in 1 .. End :
          j \in Board[i] <=> j \in Before(str, {PatAt(i + 1)}, Board[i + 2])
    <3>1. Escaped = Before(str, {PatAt(i + 1)}, Board[i + 2])
      BY <2>1 DEF Escaped
    <3>2. \A j \in 1 .. End : j \in Board[i] <=> j \in Escaped
      BY <1>3, <1>10, <2>1
    <3>3. QED
      BY <3>1, <3>2, Zenon
  <2>3. QED
    BY <2>1, <2>2, BeforeIs DEF OneChar
<1>11. ASSUME PatAt(i) \notin {Nul, Query, Star, Backslash, OpenBracket}
       PROVE  OneChar(i, {PatAt(i)}, i + 1)
  <2>1. Nul \notin {PatAt(i)}
    BY <1>11
  <2>2. QED
    BY <1>3, <1>11, <2>1, BeforeIs DEF OneChar
<1>12. QED
  BY <1>2, <1>5, <1>6, <1>7, <1>8, <1>9, <1>10, <1>11

\* What is known at the token P and the place S.
Here(P, S) == Stands(Board, End, backPat, backStr, P, S)

\* What is known of the class at P: what is left of it, and match so far.
Scanned(P, S) ==
  /\ PatAt(P) = OpenBracket /\ c = StrAt(S)
  /\ inverted = (PatAt(P + 1) = Bang)
  /\ class - 1 \in 1 .. Len(pat) + 1 /\ a = PatAt(class - 1)
  /\ ClassAt(pat, P).end = Spans(pat)[class - 1].end
  /\ c \in ClassAt(pat, P).chars <=> match \/ c \in Spans(pat)[class - 1].chars

StarInv ==
  /\ pc = "token" /\ ~Past => Here(pi, si)
  /\ pc = "class" => Here(pi - 1, si - 1) /\ Scanned(pi - 1, si - 1)
  /\ pc = "done" /\ ~Past => (result = 1 <=> Matches)

\* The arguments decide the reference, and the terminator is at the end.
LEMMA ArgsFixed ==
  ASSUME TypeOK, UNCHANGED args
  PROVE  /\ Board' = Board /\ End' = End /\ (Matches <=> 1 \in Board[1])
         /\ (Matches' <=> Matches) /\ End \in Nat
         /\ \A S \in 1 .. End : StrAt(S) = Nul <=> S = End
<1>1. Board' = Board /\ End' = End
  BY DEF args, Board, End
<1>2. (Matches <=> 1 \in Board[1]) /\ (Matches' <=> 1 \in Board'[1])
  BY DEF Matches, Board
<1>3. End \in Nat /\ \A S \in 1 .. End : StrAt(S) = Nul <=> S = End
  BY ArgumentBytes, NoNul DEF StrAt, End
<1>4. QED
  BY <1>1, <1>2, <1>3

\* To fail here means to fail, or to be right at the next place to try.
LEMMA BacktrackHere ==
  ASSUME TypeOK, UNCHANGED args, NEW P, NEW S, Here(P, S),
         S \notin Board[P], Board[P] \in SUBSET (1 .. End), Backtrack(StrAt(S))
  PROVE  StarInv'
<1>1. /\ Board' = Board /\ End' = End /\ (Matches <=> 1 \in Board[1])
      /\ (Matches' <=> Matches) /\ End \in Nat
      /\ S \in 1 .. End /\ (StrAt(S) = Nul <=> S = End) /\ backStr \in Nat
  BY ArgsFixed DEF Here, Stands, TypeOK
<1>2. CASE (StrAt(S) = Nul \/ backPat = 0) /\ Return(0)
  <2>1. ~Matches
    BY <1>1, <1>2, StandsLost DEF Here
  <2>2. QED
    BY <1>1, <1>2, <2>1 DEF Return, StarInv
<1>3. CASE /\ StrAt(S) # Nul /\ backPat # 0 /\ pc' = "token" /\ pi' = backPat
           /\ backPat' = backPat /\ backStr' = backStr + 1 /\ si' = backStr + 1
  <2>1. Stands(Board, End, backPat, backStr + 1, backPat, backStr + 1)
    BY <1>1, <1>3, StandsRetry DEF Here
  <2>2. Here(pi, si)'
    BY <1>1, <1>3, <2>1 DEF Here
  <2>3. QED
    BY <1>3, <2>2 DEF StarInv
<1>4. QED
  BY <1>2, <1>3 DEF Backtrack

\* Behind a token that took a character the same is known.
LEMMA ContinueHere ==
  ASSUME TypeOK, UNCHANGED args, NEW P, NEW S, NEW C, NEW Q, NEW s, s = S + 1,
         Here(P, S), Board[P] \in SUBSET (1 .. End), OneChar(P, C, Q),
         StrAt(S) \in C, StrAt(S) # Nul, Continue(Q, s)
  PROVE  StarInv'
<1>1. /\ Board' = Board /\ End' = End /\ End \in Nat
      /\ S \in 1 .. End /\ (StrAt(S) = Nul <=> S = End) /\ backStr \in Nat
  BY ArgsFixed DEF Here, Stands, TypeOK
<1>2. (\A j \in 1 .. End : j \in Board[P] => j + 1 \in Board[Q])
      /\ (S + 1 \in Board[Q] => S \in Board[P])
  BY <1>1 DEF OneChar
<1>3. Stands(Board, End, backPat, backStr, Q, S + 1)
  BY <1>1, <1>2, StandsOn DEF Here
<1>4. Here(pi, si)' /\ pc' = "token"
  BY <1>1, <1>3 DEF Here, Continue
<1>5. QED
  BY <1>4 DEF StarInv

\* A literal does what the reference says of it.
LEMMA LiteralHere ==
  ASSUME TypeOK, UNCHANGED args, NEW P, NEW S, NEW d, NEW Q, NEW s, s = S + 1,
         Here(P, S), Board[P] \in SUBSET (1 .. End),
         d = Nul => OnlyEnd(P), d # Nul => OneChar(P, {d}, Q),
         Literal(StrAt(S), d, Q, s)
  PROVE  StarInv'
<1>1. /\ Board' = Board /\ End' = End /\ (Matches <=> 1 \in Board[1])
      /\ (Matches' <=> Matches)
      /\ S \in 1 .. End /\ (StrAt(S) = Nul <=> S = End)
  BY ArgsFixed DEF Here, Stands
<1>2. CASE StrAt(S) = d /\ d = Nul /\ Return(1)
  <2>1. S \in Board[P]
    BY <1>1, <1>2 DEF OnlyEnd
  <2>2. Matches'
    BY <1>1, <2>1 DEF Here, Stands
  <2>3. QED
    BY <1>2, <2>2 DEF Return, StarInv
<1>3. CASE StrAt(S) = d /\ d # Nul /\ Continue(Q, s)
  <2>1. OneChar(P, {d}, Q) /\ StrAt(S) \in {d} /\ StrAt(S) # Nul
    BY <1>3
  <2>2. QED
    BY <1>3, <2>1, ContinueHere
<1>4. CASE StrAt(S) # d /\ Backtrack(StrAt(S))
  <2>1. S \notin Board[P]
    BY <1>1, <1>4 DEF OnlyEnd, OneChar
  <2>2. QED
    BY <1>4, <2>1, BacktrackHere
<1>5. QED
  BY <1>2, <1>3, <1>4 DEF Literal

\* One round of the loop over a class is one span of the reference.
LEMMA SpanAt ==
  ASSUME TypeOK, class - 1 \in 1 .. Len(pat) + 1, a = PatAt(class - 1),
         NEW b, b = IF IsRange THEN PatAt(class + 1) ELSE a,
         NEW next, next = IF IsRange THEN class + 2 ELSE class
  PROVE  /\ a = Nul \/ (IsRange /\ b = Nul) => Spans(pat)[class - 1].end = 0
         /\ ~(a = Nul \/ (IsRange /\ b = Nul)) =>
              /\ next \in class .. Len(pat) + 1
              /\ Spans(pat)[class - 1] =
                   IF PatAt(next) = CloseBracket THEN [end |-> next, chars |-> a .. b]
                   ELSE [end |-> Spans(pat)[next].end,
                         chars |-> (a .. b) \cup Spans(pat)[next].chars]
<1> DEFINE q == class - 1
           last == IF IsRange THEN q + 2 ELSE q
<1>1. /\ pat \in Seq(Bytes) /\ Len(pat) \in Nat /\ class \in Nat
      /\ \A k \in 1 .. Len(pat) + 1 : PatAt(k) # Nul <=> k <= Len(pat)
      /\ \A k \in 1 .. Len(pat) : PatAt(k) = pat[k]
      /\ \A k \in Nat : k > Len(pat) => PatAt(k) = Nul
  BY ArgumentBytes, NoNul DEF PatAt, At, TypeOK
<1>2. q + 1 = class /\ q + 2 = class + 1 /\ last + 1 = next /\ last \in Nat
  BY <1>1
<1>3. Spans(pat)[q] =
        IF last > Len(pat) THEN [end |-> 0, chars |-> {}]
        ELSE IF PatAt(last + 1) = CloseBracket
               THEN [end |-> last + 1, chars |-> pat[q] .. pat[last]]
               ELSE [end |-> Spans(pat)[last + 1].end,
                     chars |-> (pat[q] .. pat[last]) \cup Spans(pat)[last + 1].chars]
  <2>1. Spans(pat)[q] = SpanFrom(pat, Spans(pat), q)
    BY <1>1, SpansDefined
  <2>2. IsRange <=> At(pat, q + 1) = Minus /\ At(pat, q + 2) # CloseBracket
    BY <1>2 DEF IsRange, PatAt
  <2>3. QED
    BY <2>1, <2>2 DEF SpanFrom, PatAt
<1>4. PatAt(last) = b /\ q <= last
  BY <1>2
<1>5. IsRange => q + 1 <= Len(pat)
  BY <1>1, <1>2 DEF IsRange, Minus, Nul
<1>6. a = Nul <=> q > Len(pat)
  BY <1>1
<1> HIDE DEF q
<1>7. a = Nul \/ (IsRange /\ b = Nul) <=> last > Len(pat)
  <2>1. CASE IsRange
    <3>1. a # Nul /\ last = q + 2 /\ last \in 1 .. Len(pat) + 1
      BY <1>1, <1>2, <1>5, <1>6, <2>1
    <3>2. b = Nul <=> last > Len(pat)
      BY <1>1, <1>4, <3>1
    <3>3. QED
      BY <2>1, <3>1, <3>2
  <2>2. CASE ~IsRange
    BY <1>6, <2>2
  <2>3. QED
    BY <2>1, <2>2
<1>8. ASSUME last <= Len(pat) PROVE pat[q] = a /\ pat[last] = b /\ next \in class .. Len(pat) + 1
  <2>1. q \in 1 .. Len(pat) /\ last \in 1 .. Len(pat)
    BY <1>1, <1>2, <1>4, <1>8 DEF q
  <2>2. PatAt(q) = a
    BY DEF q
  <2> HIDE DEF last
  <2>3. pat[q] = a /\ pat[last] = b
    BY <1>1, <1>4, <2>1, <2>2
  <2>4. next \in class .. Len(pat) + 1
    BY <1>1, <1>2, <1>4, <2>1
  <2>5. QED
    BY <2>3, <2>4
<1> HIDE DEF last
<1>9. CASE last > Len(pat)
  BY <1>3, <1>7, <1>9 DEF q
<1>10. CASE last <= Len(pat)
  <2>1. ~(last > Len(pat)) /\ last + 1 = next
    BY <1>1, <1>2, <1>10
  <2>2. Spans(pat)[q] =
          IF PatAt(next) = CloseBracket THEN [end |-> next, chars |-> a .. b]
          ELSE [end |-> Spans(pat)[next].end,
                chars |-> (a .. b) \cup Spans(pat)[next].chars]
    BY <1>3, <1>8, <1>10, <2>1
  <2>3. QED
    BY <1>7, <1>8, <1>10, <2>1, <2>2 DEF q
<1>11. QED
  BY <1>1, <1>2, <1>9, <1>10

\* What a class accepts: of the characters, those in it, or those that are not.
LEMMA ClassTakes ==
  ASSUME TypeOK, NEW P \in 1 .. Len(pat), NEW S, c = StrAt(S),
         inverted = (PatAt(P + 1) = Bang)
  PROVE  /\ c # Nul => c \in Bytes
         /\ c # Nul => (c \in Accepted(pat, P)
                          <=> (c \in ClassAt(pat, P).chars) # inverted)
         /\ c = Nul => c \notin Accepted(pat, P)
<1>1. c # Nul => c \in Bytes
  BY CharAssumption DEF TypeOK, Bytes
<1>2. inverted = (At(pat, P + 1) = Bang)
  BY DEF PatAt
<1>3. c \in Accepted(pat, P) <=>
        c \in Bytes /\ (c \in ClassAt(pat, P).chars) # (At(pat, P + 1) = Bang)
  BY Zenon DEF Accepted, Bytes
<1>4. c \in Accepted(pat, P) <=>
        c \in Bytes /\ (c \in ClassAt(pat, P).chars) # inverted
  BY <1>2, <1>3, Zenon
<1>5. c = Nul => c \notin Bytes
  BY DEF Bytes, Nul
<1>6. QED
  BY <1>1, <1>4, <1>5, Zenon

\* The end of a class decides about its character.
LEMMA ClassEndHere ==
  ASSUME TypeOK, UNCHANGED args, NEW P \in 1 .. Len(pat), NEW S, NEW s, s = S + 1,
         Here(P, S), PatAt(P) = OpenBracket, c = StrAt(S),
         inverted = (PatAt(P + 1) = Bang),
         NEW next \in 1 .. Len(pat), ClassAt(pat, P).end = next,
         NEW hit \in BOOLEAN, c \in ClassAt(pat, P).chars <=> hit,
         c = Nul => ~hit,
         \/ hit = inverted /\ Backtrack(c)
         \/ hit # inverted /\ Continue(next + 1, s)
  PROVE  StarInv'
<1>1. /\ P \in 1 .. Len(pat) + 1 /\ End' = End /\ End \in Nat /\ S \in 1 .. End
      /\ (StrAt(S) = Nul <=> S = End) /\ Len(str) \in Nat
  BY ArgsFixed, ArgumentBytes DEF Here, Stands
<1>2. /\ Board[P] \in SUBSET (1 .. End)
      /\ OneChar(P, Accepted(pat, P), next + 1)
  <2>1. ClassAt(pat, P).end # 0
    OBVIOUS
  <2>2. OneChar(P, Accepted(pat, P), ClassAt(pat, P).end + 1)
    BY <1>1, <2>1, BoardAt
  <2>3. QED
    BY <1>1, <2>2, BoardAt
<1>3. c \in Accepted(pat, P) <=> c # Nul /\ hit # inverted
  BY ClassTakes DEF TypeOK
<1>4. CASE hit = inverted /\ Backtrack(c)
  <2>1. S \notin Board[P]
    BY <1>1, <1>2, <1>3, <1>4 DEF OneChar
  <2>2. QED
    BY <1>2, <1>4, <2>1, BacktrackHere
<1>5. CASE hit # inverted /\ Continue(next + 1, s) /\ c # Nul
  BY <1>2, <1>3, <1>5, ContinueHere
<1>6. CASE hit # inverted /\ Continue(next + 1, s) /\ c = Nul
  <2>1. si' = S + 1 /\ pc' = "token" /\ S = End
    BY <1>1, <1>6 DEF Continue
  <2>2. Past'
    BY <1>1, <2>1 DEF Past, End
  <2>3. QED
    BY <2>1, <2>2 DEF StarInv
<1>7. QED
  BY <1>4, <1>5, <1>6

\* Every step keeps what is known of the places behind the last star.
LEMMA StarStep ==
  TypeOK /\ PatternInv /\ StarInv /\ [Next]_vars => StarInv'
<1> SUFFICES ASSUME TypeOK, PatternInv, StarInv, [Next]_vars PROVE StarInv'
  OBVIOUS
<1>1. UNCHANGED args
  BY DEF Next, Step, Returned, vars, TokenQuery, TokenStar, TokenEscaped,
         TokenLiteral, TokenClass, TokenPast, ClassMalformed, ClassSpan, args
<1>2. /\ Len(pat) \in Nat /\ Len(str) \in Nat /\ End \in Nat
      /\ pi \in Nat \ {0} /\ si \in Nat \ {0} /\ backStr \in Nat /\ class \in Nat
      /\ Board' = Board /\ End' = End
      /\ (Matches <=> 1 \in Board[1]) /\ (Matches' <=> Matches)
      /\ \A S \in 1 .. End : StrAt(S) = Nul <=> S = End
  BY <1>1, ArgumentBytes, ArgsFixed DEF TypeOK
<1>3. ASSUME pc = "token", ~Past
      PROVE  /\ Here(pi, si) /\ pi \in 1 .. Len(pat) + 1 /\ si \in 1 .. End
             /\ Board[pi] \in SUBSET (1 .. End)
  <2>1. Here(pi, si) /\ pi \in 1 .. Len(pat) + 1
    BY <1>2, <1>3 DEF StarInv, PatternInv, PatternInBounds
  <2>2. QED
    BY <2>1, BoardAt DEF Here, Stands
<1>4. CASE TokenQuery
  <2>1. /\ pc = "token" /\ ~Past /\ PatAt(pi) = Query
        /\ \/ StrAt(si) = Nul /\ Return(0)
           \/ StrAt(si) # Nul /\ Continue(pi + 1, si + 1)
    BY <1>4 DEF TokenQuery, AtToken, Wild
  <2>2. Here(pi, si) /\ si \in 1 .. End /\ Board[pi] \in SUBSET (1 .. End)
    BY <1>3, <2>1
  <2>3. OneChar(pi, Bytes, pi + 1)
    BY <1>3, <2>1, BoardAt
  <2>4. CASE StrAt(si) = Nul /\ Return(0)
    <3>1. si \notin Board[pi] /\ si = End
      <4>1. Nul \notin Bytes
        BY DEF Bytes, Nul
      <4>2. QED
        BY <1>2, <2>2, <2>3, <2>4, <4>1 DEF OneChar
    <3>2. ~Matches
      BY <1>2, <2>2, <3>1, StandsLost DEF Here
    <3>3. QED
      BY <1>2, <2>4, <3>2 DEF Return, StarInv
  <2>5. CASE StrAt(si) # Nul /\ Continue(pi + 1, si + 1)
    <3>1. StrAt(si) \in Bytes
      <4>1. StrAt(si) \in StrChar \cup {Nul}
        BY <1>2, BytesWithin
      <4>2. QED
        BY <2>5, <4>1, CharAssumption DEF Bytes
    <3>2. QED
      BY <1>1, <2>2, <2>3, <2>5, <3>1, ContinueHere
  <2>6. QED
    BY <2>1, <2>4, <2>5
<1>5. CASE TokenStar
  <2>1. /\ pc = "token" /\ ~Past /\ PatAt(pi) = Star
    BY <1>5 DEF TokenStar, AtToken
  <2>2. /\ Here(pi, si) /\ si \in 1 .. End /\ Board[pi] \in SUBSET (1 .. End)
        /\ pi \in 1 .. Len(pat) + 1
    BY <1>3, <2>1
  <2>3. \A j \in 1 .. End : j \in Board[pi] <=> \E k \in Board[pi + 1] : j <= k
    BY <2>1, <2>2, BoardAt
  <2>4. pi + 1 \in 1 .. Len(pat) + 1
    BY <1>2, <2>1, <2>2, BytesWithin DEF Star, Nul
  <2>5. CASE PatAt(pi + 1) = Nul /\ Return(1)
    <3>1. OnlyEnd(pi + 1)
      BY <2>4, <2>5, BoardAt
    <3>2. End \in Board[pi + 1] /\ si <= End
      BY <1>2, <2>2, <3>1 DEF OnlyEnd
    <3>3. si \in Board[pi]
      BY <2>2, <2>3, <3>2
    <3>4. Matches'
      BY <1>2, <2>2, <3>3 DEF Here, Stands
    <3>5. QED
      BY <2>5, <3>4 DEF Return, StarInv
  <2>6. CASE /\ pc' = "token" /\ backPat' = pi + 1 /\ backStr' = si /\ pi' = pi + 1
             /\ si' = si
    <3>1. Board[pi + 1] \in SUBSET (1 .. End)
      BY <2>4, BoardAt
    <3>2. Stands(Board, End, pi + 1, si, pi + 1, si)
      BY <1>2, <2>2, <2>3, <3>1, StandsStar DEF Here
    <3>3. Here(pi, si)'
      BY <1>2, <2>6, <3>2 DEF Here
    <3>4. QED
      BY <2>6, <3>3 DEF StarInv
  <2>7. QED
    BY <1>5, <2>5, <2>6 DEF TokenStar
<1>6. CASE TokenEscaped
  <2> DEFINE d == PatAt(pi + 1)
             Q == pi + 2
             s == si + 1
  <2>1. /\ pc = "token" /\ ~Past /\ PatAt(pi) = Backslash
        /\ Literal(StrAt(si), d, Q, s)
    BY <1>6 DEF TokenEscaped, AtToken
  <2>2. /\ Here(pi, si) /\ Board[pi] \in SUBSET (1 .. End) /\ pi \in 1 .. Len(pat) + 1
    BY <1>3, <2>1
  <2>3. (d = Nul => OnlyEnd(pi)) /\ (d # Nul => OneChar(pi, {d}, Q)) /\ s = si + 1
    BY <2>1, <2>2, BoardAt
  <2> HIDE DEF d, Q, s
  <2>4. QED
    BY <1>1, <2>1, <2>2, <2>3, LiteralHere
<1>7. CASE TokenLiteral
  <2> DEFINE Q == pi + 1
             s == si + 1
  <2>1. PICK d : /\ d \notin {Query, Star, Backslash, OpenBracket}
                 /\ AtToken(d) /\ Literal(StrAt(si), d, Q, s)
    BY <1>7 DEF TokenLiteral
  <2>2. pc = "token" /\ ~Past /\ PatAt(pi) = d
    BY <2>1 DEF AtToken
  <2>3. /\ Here(pi, si) /\ Board[pi] \in SUBSET (1 .. End) /\ pi \in 1 .. Len(pat) + 1
    BY <1>3, <2>2
  <2>4. (d = Nul => OnlyEnd(pi)) /\ (d # Nul => OneChar(pi, {d}, Q)) /\ s = si + 1
    <3>1. d = Nul => OnlyEnd(pi)
      BY <2>2, <2>3, BoardAt
    <3>2. d # Nul => OneChar(pi, {PatAt(pi)}, pi + 1)
      BY <2>1, <2>2, <2>3, BoardAt
    <3>3. QED
      BY <2>2, <3>1, <3>2
  <2> HIDE DEF Q, s
  <2>5. QED
    BY <1>1, <2>1, <2>3, <2>4, LiteralHere
<1>8. CASE TokenClass
  <2> DEFINE first == IF PatAt(pi + 1) = Bang THEN pi + 2 ELSE pi + 1
  <2>1. /\ pc = "token" /\ ~Past /\ PatAt(pi) = OpenBracket
        /\ pc' = "class" /\ pi' = pi + 1 /\ si' = si + 1 /\ c' = StrAt(si)
        /\ inverted' = (PatAt(pi + 1) = Bang) /\ match' = FALSE
        /\ UNCHANGED <<backPat, backStr>>
    BY <1>8 DEF TokenClass, AtToken
  <2>2. a' = PatAt(first) /\ class' = first + 1
    BY <1>8 DEF TokenClass
  <2>3. Here(pi, si)
    BY <1>3, <2>1
  <2>4. first \in 1 .. Len(pat) + 1 /\ class' - 1 = first
    BY <1>2, <2>1, <2>2, BytesWithin DEF OpenBracket, Bang, Nul
  <2>5. ClassAt(pat, pi) = Spans(pat)[first]
    BY DEF ClassAt, PatAt
  <2> HIDE DEF first
  <2>6. pi' - 1 = pi /\ si' - 1 = si
    BY <1>2, <2>1
  <2>7. Here(pi - 1, si - 1)'
    BY <1>2, <2>1, <2>3, <2>6 DEF Here
  <2>8. /\ PatAt(pi)' = PatAt(pi') /\ pat' = pat /\ str' = str
        /\ \A i : At(pat', i) = PatAt(i) /\ At(str', i) = StrAt(i)
    BY <1>1 DEF args, PatAt, StrAt
  <2>9. Scanned(pi - 1, si - 1)'
    <3>1. PatAt(pi - 1)' = OpenBracket /\ c' = StrAt(si - 1)'
      BY <2>1, <2>6, <2>8 DEF PatAt, StrAt
    <3>2. inverted' = (PatAt(pi - 1 + 1)' = Bang)
      BY <1>2, <2>1, <2>6, <2>8 DEF PatAt
    <3>3. class' - 1 \in 1 .. Len(pat') + 1 /\ a' = PatAt(class - 1)'
      BY <2>2, <2>4, <2>8 DEF PatAt
    <3>4. ClassAt(pat', pi' - 1) = Spans(pat')[class' - 1]
      BY <2>4, <2>5, <2>6, <2>8
    <3>5. QED
      BY <2>1, <3>1, <3>2, <3>3, <3>4 DEF Scanned
  <2>10. QED
    BY <2>1, <2>7, <2>9 DEF StarInv
<1>9. CASE TokenPast
  BY <1>1, <1>9 DEF TokenPast, Return, Past, StarInv, args
<1>10. ASSUME pc = "class"
       PROVE  /\ Here(pi - 1, si - 1) /\ Scanned(pi - 1, si - 1)
              /\ pi - 1 \in 1 .. Len(pat) /\ si - 1 \in 1 .. End
  <2>1. Here(pi - 1, si - 1) /\ Scanned(pi - 1, si - 1)
    BY <1>10 DEF StarInv
  <2>2. PatAt(pi - 1) = OpenBracket /\ pi - 1 \in Int
    BY <1>2, <2>1 DEF Scanned
  <2>3. pi - 1 \in 1 .. Len(pat)
    BY <2>2, BytesWithin DEF OpenBracket, Nul
  <2>4. QED
    BY <2>1, <2>3 DEF Here, Stands
<1>11. CASE ClassMalformed
  <2> DEFINE P == pi - 1
             S == si - 1
             b == IF IsRange THEN PatAt(class + 1) ELSE a
             next == IF IsRange THEN class + 2 ELSE class
  <2>1. /\ pc = "class" /\ (a = Nul \/ (IsRange /\ b = Nul))
        /\ Literal(c, OpenBracket, pi, si)
    BY <1>11 DEF ClassMalformed, EndsClass
  <2>2. Here(P, S) /\ Scanned(P, S) /\ P \in 1 .. Len(pat)
    BY <1>10, <2>1
  <2>3. Spans(pat)[class - 1].end = 0
    BY <2>1, <2>2, SpanAt DEF Scanned
  <2>4. /\ PatAt(P) = OpenBracket /\ ClassAt(pat, P).end = 0 /\ c = StrAt(S)
        /\ P \in 1 .. Len(pat) + 1
    BY <1>2, <2>2, <2>3 DEF Scanned
  <2>5. pi = P + 1 /\ si = S + 1
    BY <1>2
  <2> HIDE DEF P, S
  <2>6. OneChar(P, {OpenBracket}, pi) /\ Board[P] \in SUBSET (1 .. End)
    BY <2>4, <2>5, BoardAt
  <2>7. OpenBracket # Nul
    BY DEF OpenBracket, Nul
  <2>8. QED
    BY <1>1, <2>1, <2>2, <2>4, <2>5, <2>6, <2>7, LiteralHere
<1>12. CASE ClassSpan
  <2> DEFINE P == pi - 1
             S == si - 1
             b == IF IsRange THEN PatAt(class + 1) ELSE a
             next == IF IsRange THEN class + 2 ELSE class
             hit == match \/ InSpan(b)
  <2>1. /\ pc = "class" /\ ~(a = Nul \/ (IsRange /\ b = Nul))
        /\ match' = hit /\ a' = PatAt(next) /\ class' = next + 1
        /\ UNCHANGED <<c, inverted>>
        /\ \/ /\ PatAt(next) # CloseBracket
              /\ UNCHANGED <<pc, pi, si, backPat, backStr, result>>
           \/ PatAt(next) = CloseBracket /\ hit = inverted /\ Backtrack(c)
           \/ PatAt(next) = CloseBracket /\ hit # inverted /\ Continue(next + 1, si)
    BY <1>12 DEF ClassSpan, EndsClass
  <2>2. Here(P, S) /\ Scanned(P, S) /\ P \in 1 .. Len(pat)
    BY <1>10, <2>1
  <2>3. /\ next \in class .. Len(pat) + 1
        /\ Spans(pat)[class - 1] =
             IF PatAt(next) = CloseBracket THEN [end |-> next, chars |-> a .. b]
             ELSE [end |-> Spans(pat)[next].end,
                   chars |-> (a .. b) \cup Spans(pat)[next].chars]
    <3>1. class - 1 \in 1 .. Len(pat) + 1 /\ a = PatAt(class - 1)
      BY <2>2 DEF Scanned
    <3>2. QED
      BY <2>1, <3>1, SpanAt
  <2>4. c \in a .. b <=> InSpan(b)
    <3>1. c \in Int /\ a \in Int /\ b \in Int
      <4>1. PatAt(class + 1) \in PatChar \cup {Nul} /\ a \in PatChar \cup {Nul}
            /\ c \in StrChar \cup {Nul}
        BY <1>2, BytesWithin DEF TypeOK
      <4>2. \A x \in PatChar \cup StrChar \cup {Nul} : x \in Int
        BY CharAssumption DEF Nul
      <4>3. QED
        BY <4>1, <4>2
    <3>2. QED
      BY <3>1 DEF InSpan
  <2>5. c = Nul => ~InSpan(b)
    <3>1. a \in 1 .. 255
      BY <2>1, CharAssumption DEF TypeOK
    <3>2. QED
      BY <3>1 DEF InSpan, Nul
  <2>6. hit \in BOOLEAN
    BY DEF TypeOK, InSpan
  <2>7. class \in 2 .. Len(pat) + 2 /\ next \in 1 .. Len(pat) + 1
    BY <1>2, <2>2, <2>3 DEF Scanned
  <2>8. pi = P + 1 /\ si = S + 1
    BY <1>2
  <2>9. c = Nul => c \notin ClassAt(pat, P).chars
    <3>1. Spans(pat)[IF At(pat, P + 1) = Bang THEN P + 2 ELSE P + 1] \in SpanType
      <4>1. (IF At(pat, P + 1) = Bang THEN P + 2 ELSE P + 1) \in 1 .. Len(pat) + 1
        BY <1>2, <2>2 DEF At, Bang, Nul
      <4>2. QED
        BY <4>1, ArgumentBytes, SpansDefined
    <3>2. ClassAt(pat, P).chars \in SUBSET Bytes
      BY <3>1 DEF ClassAt, SpanType
    <3>3. QED
      BY <3>2 DEF Bytes, Nul
  <2> HIDE DEF P, S, b, next, hit
  <2>10. CASE PatAt(next) = CloseBracket
    <3>1. ClassAt(pat, P).end = next /\ (c \in ClassAt(pat, P).chars <=> hit)
      BY <2>2, <2>3, <2>4, <2>10 DEF Scanned, hit
    <3>2. next \in 1 .. Len(pat) /\ (c = Nul => ~hit)
      BY <1>2, <2>7, <2>9, <2>10, <3>1, BytesWithin DEF CloseBracket, Nul
    <3>3. \/ hit = inverted /\ Backtrack(c)
          \/ hit # inverted /\ Continue(next + 1, si)
      BY <2>1, <2>10
    <3>4. PatAt(P) = OpenBracket /\ c = StrAt(S) /\ inverted = (PatAt(P + 1) = Bang)
      BY <2>2 DEF Scanned
    <3>5. QED
      BY <1>1, <2>2, <2>6, <2>8, <3>1, <3>2, <3>3, <3>4, ClassEndHere
  <2>11. CASE PatAt(next) # CloseBracket
    <3>1. UNCHANGED <<pc, pi, si, backPat, backStr, result, pat, str, c, inverted>>
      BY <1>1, <2>1, <2>11 DEF args
    <3>2. class' - 1 = next
      BY <2>1, <2>7
    <3>3. Here(pi - 1, si - 1)'
      BY <1>2, <2>2, <3>1 DEF Here, P, S
    <3>4. Scanned(pi - 1, si - 1)'
      <4>1. PatAt(pi - 1)' = OpenBracket /\ c' = StrAt(si - 1)'
            /\ inverted' = (PatAt(pi - 1 + 1)' = Bang)
        BY <2>2, <3>1 DEF Scanned, P, S, PatAt, StrAt
      <4>2. class' - 1 \in 1 .. Len(pat') + 1 /\ a' = PatAt(class - 1)'
        BY <2>1, <2>7, <3>1, <3>2 DEF PatAt
      <4>3. ClassAt(pat', pi' - 1).end = Spans(pat')[class' - 1].end
        BY <2>2, <2>3, <2>11, <3>1, <3>2 DEF Scanned, P
      <4>4. c' \in ClassAt(pat', pi' - 1).chars
              <=> match' \/ c' \in Spans(pat')[class' - 1].chars
        <5>1. Spans(pat)[class - 1].chars = (a .. b) \cup Spans(pat)[next].chars
          BY <2>3, <2>11
        <5>2. c \in ClassAt(pat, P).chars <=> match \/ c \in Spans(pat)[class - 1].chars
          BY <2>2 DEF Scanned
        <5>3. match' <=> match \/ InSpan(b)
          BY <2>1 DEF hit, TypeOK, InSpan
        <5>4. c \in ClassAt(pat, P).chars <=> match' \/ c \in Spans(pat)[next].chars
          BY <2>4, <5>1, <5>2, <5>3
        <5>5. QED
          BY <3>1, <3>2, <5>4 DEF P
      <4>5. QED
        BY <4>1, <4>2, <4>3, <4>4 DEF Scanned
    <3>5. pc' = "class"
      BY <2>1, <3>1
    <3>6. QED
      BY <3>3, <3>4, <3>5 DEF StarInv
  <2>12. QED
    BY <2>10, <2>11
<1>13. CASE UNCHANGED vars
  BY <1>2, <1>13 DEF vars, classVars, args, StarInv, Here, Scanned, PatAt, StrAt, Past
<1>14. QED
  BY <1>4, <1>5, <1>6, <1>7, <1>8, <1>9, <1>11, <1>12, <1>13
  DEF Next, Step, Returned

(***************************************************************************)
(* glob_match agrees with the recursive definition of what a pattern       *)
(* matches, for every pattern and string whose end is not run over.        *)
(***************************************************************************)
THEOREM OneStarSuffices == Spec => []OneStarIsEnough
<1>1. Init => PatternInv /\ StarInv
  <2> SUFFICES ASSUME Init PROVE PatternInv /\ StarInv
    OBVIOUS
  <2>1. TypeOK
    BY InitType
  <2>2. Len(pat) \in Nat /\ Len(str) \in Nat /\ (Matches <=> 1 \in Board[1])
    BY <2>1, ArgumentBytes DEF Matches, Board
  <2>3. PatternInv
    BY <2>2 DEF Init, PatternInv, PatternInBounds
  <2>4. Here(pi, si)
    BY <2>2 DEF Init, Here, Stands, End, Matches, Board
  <2>5. QED
    BY <2>3, <2>4 DEF Init, StarInv
<1>2. StarInv => OneStarIsEnough
  BY DEF StarInv, OneStarIsEnough
<1>3. QED
  BY <1>1, <1>2, InitType, TypeStep, PatternStep, StarStep, PTL DEF Spec
=============================================================================
