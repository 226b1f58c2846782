------------------------------ MODULE GlobMatch ------------------------------
(***************************************************************************)
(* glob_match (match.c), which decides the names an ignore pattern keeps   *)
(* out of a run: the loop over the tokens of the pattern, the loop over    *)
(* the spans of a character class and the one level of backtracking to the *)
(* last star.  One step is one round of either loop.  Pointers are indices *)
(* from 1 (0 is NULL); the byte after the last one is the terminator.      *)
(***************************************************************************)
EXTENDS Integers, Sequences

CONSTANTS
  PatChar, StrChar,  \* the characters of patterns and of strings
  Inputs             \* pairs of a set of patterns and the strings to match

Nul == 0
Bang == 33
Star == 42
Minus == 45
Query == 63
OpenBracket == 91
Backslash == 92
CloseBracket == 93

ASSUME CharAssumption ==
  /\ PatChar \subseteq 1 .. 255 /\ StrChar \subseteq 1 .. 255
  /\ \A i \in Inputs : i[1] \subseteq Seq(PatChar) /\ i[2] \subseteq Seq(StrChar)

VARIABLES
  pat, str,            \* the arguments
  pc,                  \* at a token, in a class, or done
  pi, si,              \* the pointers pat and str
  backPat, backStr,    \* where to take up after the last star
  c,                   \* the character a class is asked for
  inverted, class, a, match,  \* the loop over a class
  result,              \* the value returned
  steps                \* history: rounds of the two loops, up to StepBound + 1

args == <<pat, str>>
classVars == <<inverted, class, a, match>>
vars == <<args, pc, pi, si, backPat, backStr, c, classVars, result, steps>>

\* Bytes of the arguments; what lies behind the terminators is not theirs.
At(s, i) == IF i \in 1 .. Len(s) THEN s[i] ELSE Nul
PatAt(i) == At(pat, i)
StrAt(i) == At(str, i)

\* Whether str points behind the terminator.
Past == si > Len(str) + 1

\* Twice the product of the lengths, the terminators included.
StepBound == 2 * (Len(pat) + 1) * (Len(str) + 1)

Init ==
  /\ \E i \in Inputs : pat \in i[1] /\ str \in i[2]
  /\ pc = "token" /\ pi = 1 /\ si = 1 /\ backPat = 0 /\ backStr = 0
  /\ c = Nul /\ inverted = FALSE /\ class = 0 /\ a = Nul /\ match = FALSE
  /\ result = 0 /\ steps = 0

Count == steps' = IF steps > StepBound THEN steps ELSE steps + 1

-----------------------------------------------------------------------------
(* The ways to leave a token x: with the result, at the next token, or     *)
(* back at the last star.                                                  *)
Return(r) ==
  pc' = "done" /\ result' = r /\ UNCHANGED <<pi, si, backPat, backStr>>

Continue(p, s) ==
  pc' = "token" /\ pi' = p /\ si' = s /\ UNCHANGED <<backPat, backStr, result>>

\* Mutant: back_str is not moved on.
BacktrackStays(x) ==
  \/ (x = Nul \/ backPat = 0) /\ Return(0)
  \/ /\ x # Nul /\ backPat # 0
     /\ Continue(backPat, backStr + 1)

Backtrack(x) ==
  \/ (x = Nul \/ backPat = 0) /\ Return(0)
  \/ /\ x # Nul /\ backPat # 0
     /\ pc' = "token" /\ pi' = backPat /\ UNCHANGED <<backPat, result>>
     /\ backStr' = backStr + 1 /\ si' = backStr + 1

\* The character x against the literal d, with the pattern at p behind it.
Literal(x, d, p, s) ==
  \/ x = d /\ d = Nul /\ Return(1)
  \/ x = d /\ d # Nul /\ Continue(p, s)
  \/ x # d /\ Backtrack(x)

-----------------------------------------------------------------------------
(* The loop over the tokens, at a byte of the string or its terminator.    *)
AtToken(d) == pc = "token" /\ ~Past /\ PatAt(pi) = d

\* What ? accepts.
Wild(x) == x # Nul

TokenQuery ==
  /\ AtToken(Query)
  /\ \/ ~Wild(StrAt(si)) /\ Return(0)
     \/ Wild(StrAt(si)) /\ Continue(pi + 1, si + 1)
  /\ Count /\ UNCHANGED <<args, c, classVars>>

\* Mutant: a string is taken up again one character after the star.
TokenStarEatsOne ==
  /\ AtToken(Star)
  /\ \/ PatAt(pi + 1) = Nul /\ Return(1)
     \/ /\ PatAt(pi + 1) # Nul /\ pc' = "token"
        /\ backPat' = pi + 1 /\ backStr' = si + 1 /\ pi' = pi + 1
        /\ UNCHANGED <<si, result>>
  /\ Count /\ UNCHANGED <<args, c, classVars>>

TokenStar ==
  /\ AtToken(Star)
  /\ \/ PatAt(pi + 1) = Nul /\ Return(1)
     \/ /\ PatAt(pi + 1) # Nul /\ pc' = "token"
        /\ backPat' = pi + 1 /\ backStr' = si /\ pi' = pi + 1
        /\ UNCHANGED <<si, result>>
  /\ Count /\ UNCHANGED <<args, c, classVars>>

TokenEscaped ==
  /\ AtToken(Backslash)
  /\ Literal(StrAt(si), PatAt(pi + 1), pi + 2, si + 1)
  /\ Count /\ UNCHANGED <<args, c, classVars>>

TokenLiteral ==
  /\ \E d \in PatChar \cup {Nul} :
       /\ d \notin {Query, Star, Backslash, OpenBracket}
       /\ AtToken(d) /\ Literal(StrAt(si), d, pi + 1, si + 1)
  /\ Count /\ UNCHANGED <<args, c, classVars>>

TokenClass ==
  /\ AtToken(OpenBracket)
  /\ pc' = "class" /\ pi' = pi + 1 /\ si' = si + 1 /\ c' = StrAt(si)
  /\ inverted' = (PatAt(pi + 1) = Bang)
  /\ LET first == IF inverted' THEN pi + 2 ELSE pi + 1
     IN  a' = PatAt(first) /\ class' = first + 1
  /\ match' = FALSE
  /\ Count /\ UNCHANGED <<args, backPat, backStr, result>>

\* Reading behind the terminator of the string finds any byte, so both
\* results are possible, but for a star at the end of the pattern.
TokenPast ==
  /\ pc = "token" /\ Past
  /\ \E r \in {0, 1} :
       /\ PatAt(pi) = Star /\ PatAt(pi + 1) = Nul => r = 1
       /\ Return(r)
  /\ Count /\ UNCHANGED <<args, c, classVars>>

-----------------------------------------------------------------------------
(* One span of a class: the character a, or the range from a to b.         *)

\* Mutant: the end of the pattern is not looked for inside a class.
NeverEnds(x) == FALSE

EndsClass(x) == x = Nul

IsRange == PatAt(class) = Minus /\ PatAt(class + 1) # CloseBracket

InSpan(b) == a <= c /\ c <= b

\* An opening bracket without a matching close is a literal.
ClassMalformed ==
  /\ pc = "class"
  /\ EndsClass(a) \/ (IsRange /\ EndsClass(PatAt(class + 1)))
  /\ Literal(c, OpenBracket, pi, si)
  /\ Count /\ UNCHANGED <<args, c, classVars>>

ClassSpan ==
  /\ pc = "class"
  /\ ~EndsClass(a) /\ ~(IsRange /\ EndsClass(PatAt(class + 1)))
  /\ LET b == IF IsRange THEN PatAt(class + 1) ELSE a
         next == IF IsRange THEN class + 2 ELSE class
         hit == match \/ InSpan(b)
     IN  /\ match' = hit /\ a' = PatAt(next) /\ class' = next + 1
         /\ \/ /\ PatAt(next) # CloseBracket
               /\ UNCHANGED <<pc, pi, si, backPat, backStr, result>>
            \/ /\ PatAt(next) = CloseBracket /\ hit = inverted
               /\ Backtrack(c)
            \/ /\ PatAt(next) = CloseBracket /\ hit # inverted
               /\ Continue(next + 1, si)
  /\ Count /\ UNCHANGED <<args, c, inverted>>

Returned == pc = "done" /\ UNCHANGED vars

Step ==
  \/ TokenQuery \/ TokenStar \/ TokenEscaped \/ TokenLiteral \/ TokenClass
  \/ TokenPast \/ ClassMalformed \/ ClassSpan

Next == Step \/ Returned

Spec == Init /\ [][Next]_vars /\ WF_vars(Step)

-----------------------------------------------------------------------------
(***************************************************************************)
(* What the comment above glob_match says of the patterns, by recursion on *)
(* the rest of the pattern.  Spans(p)[q] is the end of the class whose     *)
(* next span starts at q, and the characters in it from there on; 0 stands *)
(* for an end that is missing.                                             *)
(***************************************************************************)
SpanFrom(p, f, q) ==
  LET range == At(p, q + 1) = Minus /\ At(p, q + 2) # CloseBracket
      last == IF range THEN q + 2 ELSE q
      rest == f[last + 1]
  IN  IF last > Len(p) THEN [end |-> 0, chars |-> {}]
      ELSE IF At(p, last + 1) = CloseBracket
             THEN [end |-> last + 1, chars |-> p[q] .. p[last]]
             ELSE [end |-> rest.end, chars |-> (p[q] .. p[last]) \cup rest.chars]

Spans(p) ==
  LET f[q \in 1 .. Len(p) + 1] == SpanFrom(p, f, q) IN f

\* The class that the bracket at i opens, and the characters it stands for.
ClassAt(p, i) == Spans(p)[IF At(p, i + 1) = Bang THEN i + 2 ELSE i + 1]
Accepted(p, i) ==
  {x \in 1 .. 255 : (x \in ClassAt(p, i).chars) # (At(p, i + 1) = Bang)}

\* Where a character of the set C is followed by one of the places E.
Before(s, C, E) == {j \in 1 .. Len(s) : s[j] \in C /\ j + 1 \in E}

(***************************************************************************)
(* Places(p, s)[i] are the places in s from which on it matches p from i   *)
(* on, given what F says of the places behind the token at i.              *)
(***************************************************************************)
PlacesFrom(p, s, F, i) ==
  LET d == At(p, i)
      isClass == d = OpenBracket /\ ClassAt(p, i).end # 0
  IN  {j \in 1 .. Len(s) + 1 :
         \/ /\ d = Nul \/ (d = Backslash /\ i = Len(p))
            /\ j = Len(s) + 1
         \/ d = Star /\ \E k \in F[i + 1] : j <= k
         \/ d = Query /\ j \in Before(s, 1 .. 255, F[i + 1])
         \/ isClass /\ j \in Before(s, Accepted(p, i), F[ClassAt(p, i).end + 1])
         \/ d = Backslash /\ i < Len(p) /\ j \in Before(s, {p[i + 1]}, F[i + 2])
         \/ /\ d \notin {Nul, Star, Query, Backslash} /\ ~isClass
            /\ j \in Before(s, {d}, F[i + 1])}

Places(p, s) ==
  LET F[i \in 1 .. Len(p) + 1] == PlacesFrom(p, s, F, i) IN F

Matches == 1 \in Places(pat, str)[1]

-----------------------------------------------------------------------------
TypeOK ==
  /\ pat \in Seq(PatChar) /\ str \in Seq(StrChar)
  /\ pc \in {"token", "class", "done"}
  /\ pi \in Nat \ {0} /\ si \in Nat \ {0} /\ backPat \in Nat /\ backStr \in Nat
  /\ c \in StrChar \cup {Nul} /\ a \in PatChar \cup {Nul} /\ class \in Nat
  /\ inverted \in BOOLEAN /\ match \in BOOLEAN
  /\ result \in {0, 1} /\ steps \in Nat

(***************************************************************************)
(* One level of backtracking finds a match whenever there is one, and only *)
(* then, as long as the end of the string was not run over.                *)
(***************************************************************************)
OneStarIsEnough ==
  pc = "done" /\ ~Past => (result = 1 <=> Matches)

(***************************************************************************)
(* The comment above glob_match: it returns 1 if the pattern matches the   *)
(* entire string and 0 otherwise, like !fnmatch(pat, str, 0).              *)
(***************************************************************************)
LikeFnmatch ==
  pc = "done" => (result = 1 <=> Matches)

(***************************************************************************)
(* The pattern is never read behind its terminator, malformed classes and  *)
(* a backslash at the end included: pat, *class and class[1].              *)
(***************************************************************************)
PatternInBounds ==
  /\ pc = "token" => pi <= Len(pat) + 1
  /\ pc = "class" => class <= Len(pat) + 2 /\ (a # Nul => class <= Len(pat) + 1)

(***************************************************************************)
(* Without an inverted class in the pattern the string is never read       *)
(* behind its terminator either, wherever the last star sends it back to.  *)
(***************************************************************************)
StringInBounds ==
  (\A i \in 1 .. Len(pat) - 1 : pat[i] # OpenBracket \/ pat[i + 1] # Bang)
    => ~(pc = "token" /\ Past)

\* Neither argument is read behind its terminator, but for inverted classes.
ReadsInBounds == PatternInBounds /\ StringInBounds

(***************************************************************************)
(* The comment above glob_match: "run-time is at most quadratic:           *)
(* strlen(@str)*strlen(@pat)".  It is, but for a factor of two, without    *)
(* classes: an unclosed bracket is scanned to the end of the pattern each  *)
(* time it is tried.                                                       *)
(***************************************************************************)
QuadraticWithoutClasses ==
  (\A i \in 1 .. Len(pat) : pat[i] # OpenBracket) => steps <= StepBound

\* Every call returns.
Returns == <>(pc = "done")
=============================================================================
