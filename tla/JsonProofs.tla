----------------------------- MODULE JsonProofs -----------------------------
(***************************************************************************)
(* json_parse_ex reads its text twice.  That the second pass does what the *)
(* first one did, so that it has the room it needs and frees what there    *)
(* is, for texts of every length.                                          *)
(***************************************************************************)
EXTENDS JsonParse, SequenceTheorems, FiniteSetTheorems, WellFoundedInduction, TLAPS

-----------------------------------------------------------------------------
(* What both passes do, apart from the memory: a configuration is what the *)
(* loop knows of the text so far, and Leads how a token of the text t, or  *)
(* the tokens of a number, lead from one to the next.  In it a value is    *)
(* closed when it is complete.                                             *)

Flag == {"seek_value", "need_comma", "need_colon", "done",
         "string", "escaped", "line_comment", "block_comment"}
Container == {"array", "object"}
Kind == Container \cup {"string", "literal", "integer", "double"}

In(c, f) == f \in c.flags
Commented(c) == In(c, "line_comment") \/ In(c, "block_comment")
TopKind(c) == IF c.top = 0 THEN "none" ELSE c.type[c.top]
Unclosed(c) == (1 .. c.n) \ c.closed

KeepsValues(c, d) ==
  /\ d.top = c.top /\ d.n = c.n /\ d.type = c.type /\ d.parent = c.parent
  /\ d.length = c.length /\ d.chars = c.chars /\ d.closed = c.closed

GoesOn(c, d, f) == d.ptr = c.ptr + 1 /\ d.flags = f /\ d.sl = c.sl /\ KeepsValues(c, d)

\* The flags after a value in p.
Behind(c, p, f) ==
  f \cup {"need_comma"} \cup
  (IF p = 0 THEN {"done"} ELSE IF c.type[p] = "array" THEN {"seek_value"} ELSE {})

\* The top is complete.
Closes(c, d, f) ==
  LET p == c.parent[c.top]
  IN  /\ d.ptr = c.ptr + 1 /\ d.sl = 0 /\ d.flags = Behind(c, p, f)
      /\ d.top = IF p = 0 THEN c.top ELSE p
      /\ d.n = c.n /\ d.type = c.type /\ d.parent = c.parent /\ d.chars = c.chars
      /\ d.length = [w \in 1 .. c.n |-> IF w = p THEN c.length[w] + 1
                                        ELSE IF w = c.top /\ c.type[w] = "string" THEN c.sl
                                        ELSE c.length[w]]
      /\ d.closed = c.closed \cup {c.top}

AddsValue(c, d, type) ==
  /\ d.n = c.n + 1 /\ d.sl = 0
  /\ d.type = [w \in 1 .. c.n + 1 |-> IF w = c.n + 1 THEN type ELSE c.type[w]]
  /\ d.parent = [w \in 1 .. c.n + 1 |-> IF w = c.n + 1 THEN c.top ELSE c.parent[w]]
  /\ d.chars = [w \in 1 .. c.n + 1 |-> IF w = c.n + 1 THEN 0 ELSE c.chars[w]]

OpenedKind(b) == IF b = "[" THEN "array" ELSE IF b = "lbrace" THEN "object" ELSE "string"
OpenedFlags(b) == IF b = "[" THEN {"seek_value"} ELSE IF b = "quote" THEN {"string"} ELSE {}

OpensValue(c, d, b) ==
  /\ AddsValue(c, d, OpenedKind(b))
  /\ d.ptr = c.ptr + 1 /\ d.top = c.n + 1 /\ d.closed = c.closed
  /\ d.length = [w \in 1 .. c.n + 1 |-> IF w = c.n + 1 THEN 0 ELSE c.length[w]]
  /\ d.flags = (c.flags \ {"seek_value"}) \cup OpenedFlags(b)

\* A literal or number.
AddsClosed(c, d, type) ==
  /\ AddsValue(c, d, type)
  /\ d.top = (IF c.top = 0 THEN c.n + 1 ELSE c.top) /\ d.closed = c.closed \cup {c.n + 1}
  /\ d.length = [w \in 1 .. c.n + 1 |->
                   IF w = c.n + 1 THEN 0 ELSE IF w = c.top THEN c.length[w] + 1 ELSE c.length[w]]
  /\ d.flags = Behind(c, c.top, c.flags \ {"seek_value"})

\* The number that starts at p ends before q.
IsNumber(t, p, q) ==
  /\ q \in p .. Len(t) /\ t[q] \notin NumberToken
  /\ \A k \in p .. q - 1 : t[k] \in NumberToken

Writes(c, d, b) ==
  /\ d.ptr = c.ptr + 1 /\ d.flags = c.flags \ {"escaped"} /\ d.sl = c.sl + Width(b)
  /\ KeepsValues(c, d)

\* The string was the name of an entry.
Names(c, d) ==
  /\ d.ptr = c.ptr + 1 /\ d.sl = 0
  /\ d.flags = (c.flags \ {"string"}) \cup {"seek_value", "need_colon"}
  /\ d.top = c.top /\ d.n = c.n /\ d.type = c.type /\ d.parent = c.parent
  /\ d.length = c.length /\ d.closed = c.closed
  /\ d.chars = [w \in 1 .. c.n |-> IF w = c.top THEN c.chars[w] + c.sl + 1 ELSE c.chars[w]]

InString(c, d, b) ==
  \/ /\ IF In(c, "escaped") THEN b \notin {"end", "u?"} ELSE b \notin {"end", "backslash", "quote"}
     /\ Writes(c, d, b)
  \/ ~In(c, "escaped") /\ b = "backslash" /\ GoesOn(c, d, c.flags \cup {"escaped"})
  \/ ~In(c, "escaped") /\ b = "quote" /\ TopKind(c) = "string" /\ Closes(c, d, c.flags \ {"string"})
  \/ ~In(c, "escaped") /\ b = "quote" /\ TopKind(c) = "object" /\ Names(c, d)

Uncomments(c, d) ==
  d.ptr = c.ptr /\ d.flags = c.flags \ {"line_comment"} /\ d.sl = c.sl /\ KeepsValues(c, d)

InLine(c, d, b) ==
  \/ b \in {"newline", "end"} /\ Uncomments(c, d)
  \/ b \notin {"newline", "end"} /\ GoesOn(c, d, c.flags)

InBlock(c, d, b) ==
  \/ b = "*/" /\ GoesOn(c, d, c.flags \ {"block_comment"})
  \/ b \notin {"*/", "end"} /\ GoesOn(c, d, c.flags)

IntoComment(c, d, b) ==
  /\ In(c, "seek_value") \/ In(c, "done") \/ TopKind(c) = "object"
  /\ GoesOn(c, d, c.flags \cup {IF b = "//" THEN "line_comment" ELSE "block_comment"})

Starts(c) == ~In(c, "need_comma") /\ ~In(c, "need_colon")

Seeking(c, d, t, b) ==
  \/ b \in Blank /\ GoesOn(c, d, c.flags)
  \/ In(c, "need_comma") /\ b = "comma" /\ GoesOn(c, d, c.flags \ {"need_comma"})
  \/ In(c, "need_colon") /\ ~In(c, "need_comma") /\ b = ":" /\ GoesOn(c, d, c.flags \ {"need_colon"})
  \/ b = "]" /\ TopKind(c) = "array" /\ Closes(c, d, c.flags \ {"need_comma", "seek_value"})
  \/ Starts(c) /\ b \in {"[", "lbrace", "quote"} /\ OpensValue(c, d, b)
  \/ Starts(c) /\ b = "literal" /\ AddsClosed(c, d, "literal") /\ d.ptr = c.ptr + 1
  \/ /\ Starts(c) /\ b \in Digit \cup {"-"} /\ IsNumber(t, c.ptr, d.ptr)
     /\ AddsClosed(c, d, "integer") \/ AddsClosed(c, d, "double")

BeginsName(c, d) ==
  d.ptr = c.ptr + 1 /\ d.flags = c.flags \cup {"string"} /\ d.sl = 0 /\ KeepsValues(c, d)

BetweenEntries(c, d, b) ==
  \/ b \in Blank /\ GoesOn(c, d, c.flags)
  \/ b = "quote" /\ ~In(c, "need_comma") /\ BeginsName(c, d)
  \/ b = "comma" /\ In(c, "need_comma") /\ GoesOn(c, d, c.flags \ {"need_comma"})
  \/ b = "rbrace" /\ Closes(c, d, c.flags \ {"need_comma"})

Leads(c, d, t) ==
  /\ c.ptr <= Len(t)
  /\ LET b == t[c.ptr]
     IN  IF In(c, "string") THEN InString(c, d, b)
         ELSE IF In(c, "line_comment") THEN InLine(c, d, b)
         ELSE IF In(c, "block_comment") THEN InBlock(c, d, b)
         ELSE IF b \in {"//", "/*"} THEN IntoComment(c, d, b)
         ELSE IF In(c, "done") THEN b \in Blank /\ GoesOn(c, d, c.flags)
         ELSE IF In(c, "seek_value") THEN Seeking(c, d, t, b)
         ELSE BetweenEntries(c, d, b)

-----------------------------------------------------------------------------
(* What holds of every configuration.                                      *)

Typed(c) ==
  /\ c.ptr \in Nat /\ c.ptr >= 1 /\ c.flags \subseteq Flag /\ c.sl \in Nat
  /\ c.n \in Nat /\ c.top \in 0 .. c.n /\ c.type \in [1 .. c.n -> Kind]
  /\ c.parent \in [1 .. c.n -> Nat] /\ c.length \in [1 .. c.n -> Nat] /\ c.chars \in [1 .. c.n -> Nat]
  /\ c.closed \subseteq 1 .. c.n

Modes(c) ==
  /\ In(c, "string") => /\ ~Commented(c) /\ ~In(c, "done") /\ ~In(c, "seek_value")
                        /\ TopKind(c) \in {"string", "object"}
  /\ ~(In(c, "line_comment") /\ In(c, "block_comment"))
  /\ In(c, "need_colon") => In(c, "seek_value") /\ TopKind(c) = "object"
  /\ In(c, "done") => ~In(c, "seek_value") /\ c.closed = 1 .. c.n /\ c.top = 1
  /\ ~In(c, "done") =>
       /\ c.top = 0 <=> c.n = 0
       /\ c.top \notin c.closed
       /\ TopKind(c) \in Container \cup {"none", "string"}
       /\ TopKind(c) = "string" => In(c, "string")
       /\ ~In(c, "seek_value") /\ ~In(c, "string") => TopKind(c) = "object"

Family(c) ==
  /\ \A v \in 1 .. c.n : /\ c.parent[v] < v /\ (c.parent[v] = 0 <=> v = 1)
                         /\ v # 1 => c.type[c.parent[v]] \in Container
  /\ \A v \in Unclosed(c) : /\ v # 1 => c.parent[v] \in Unclosed(c)
                            /\ c.parent[v] # c.top
                            /\ c.type[v] = "string" => c.length[v] = 0
  /\ \A v, w \in Unclosed(c) : c.parent[v] = c.parent[w] => v = w

Regular(c) == Typed(c) /\ Modes(c) /\ Family(c)

\* What is still counted for the value v, at least.
Pending(c, v) ==
  IF \E w \in Unclosed(c) : c.parent[w] = v THEN 1
  ELSE IF v = c.top /\ c.type[v] = "object" /\ (In(c, "seek_value") \/ In(c, "string")) THEN 1
  ELSE IF v = c.top /\ c.type[v] = "string" /\ In(c, "string") THEN c.sl
  ELSE 0

PendingChars(c, v) == IF v = c.top /\ c.type[v] = "object" /\ In(c, "string") THEN c.sl + 1 ELSE 0

\* d comes after c: values stay what they are, and are not counted down.
Later(c, d) ==
  /\ c.n <= d.n /\ c.ptr <= d.ptr
  /\ \A v \in 1 .. c.n :
       /\ d.type[v] = c.type[v] /\ d.parent[v] = c.parent[v]
       /\ c.length[v] + Pending(c, v) <= d.length[v] + Pending(d, v)
       /\ c.chars[v] + PendingChars(c, v) <= d.chars[v] + PendingChars(d, v)
-----------------------------------------------------------------------------
(* A step leads from one to another, which comes later.                    *)

LEMMA Least ==
  ASSUME NEW T, T \subseteq Nat, T # {}
  PROVE  \E x \in T : \A y \in T : x <= y
<1> DEFINE Less == OpToRel(<, Nat)
<1> HIDE DEF Less
<1>1. IsWellFoundedOn(Less, Nat)
  BY NatLessThanWellFounded, Zenon DEF Less
<1>2. \E x \in T : \A y \in T : ~(<<y, x>> \in Less)
  BY <1>1, WFMin
<1>3. \A y, z \in Nat : <<y, z>> \in Less <=> y < z
  BY DEF Less, OpToRel
<1>4. PICK x \in T : \A y \in T : ~(<<y, x>> \in Less)
  BY <1>2
<1>5. ASSUME NEW y \in T PROVE x <= y
  <2>1. x \in Nat /\ y \in Nat
    OBVIOUS
  <2>2. ~(y < x)
    BY <1>3, <1>4, <2>1
  <2>3. QED
    BY <2>1, <2>2
<1>6. QED
  BY <1>5

LEMMA KeptFamily ==
  ASSUME NEW c, NEW d, Family(c), KeepsValues(c, d)
  PROVE  Family(d)
BY DEF Family, KeepsValues, Unclosed

LEMMA KeptTyped ==
  ASSUME NEW c, NEW d, Typed(c), KeepsValues(c, d), d.ptr \in {c.ptr, c.ptr + 1}, d.sl \in Nat,
         d.flags \subseteq Flag
  PROVE  Typed(d)
BY DEF Typed, KeepsValues

LEMMA PendingTyped ==
  ASSUME NEW c, Typed(c), NEW v
  PROVE  Pending(c, v) \in Nat /\ PendingChars(c, v) \in Nat
BY DEF Typed, Pending, PendingChars

LEMMA KeptLater ==
  ASSUME NEW c, NEW d, Typed(c), Typed(d), KeepsValues(c, d), c.ptr <= d.ptr,
         c.sl <= d.sl \/ ~In(c, "string"),
         In(c, "string") => In(d, "string"), In(c, "seek_value") => In(d, "seek_value")
  PROVE  Later(c, d)
<1>1. \A v : Pending(c, v) <= Pending(d, v)
  BY DEF Typed, KeepsValues, Pending, Unclosed
<1>2. \A v : PendingChars(c, v) <= PendingChars(d, v)
  BY DEF Typed, KeepsValues, PendingChars
<1>3. ASSUME NEW v \in 1 .. c.n
      PROVE  /\ d.type[v] = c.type[v] /\ d.parent[v] = c.parent[v]
             /\ c.length[v] + Pending(c, v) <= d.length[v] + Pending(d, v)
             /\ c.chars[v] + PendingChars(c, v) <= d.chars[v] + PendingChars(d, v)
  <2>1. /\ Pending(c, v) \in Nat /\ Pending(d, v) \in Nat
        /\ PendingChars(c, v) \in Nat /\ PendingChars(d, v) \in Nat
    BY PendingTyped
  <2>2. c.length[v] \in Nat /\ c.chars[v] \in Nat
    BY DEF Typed
  <2>3. Pending(c, v) <= Pending(d, v) /\ PendingChars(c, v) <= PendingChars(d, v)
    BY <1>1, <1>2
  <2>4. d.type = c.type /\ d.parent = c.parent /\ d.length = c.length /\ d.chars = c.chars
    BY DEF KeepsValues
  <2>5. c.length[v] + Pending(c, v) <= d.length[v] + Pending(d, v)
    BY <2>1, <2>2, <2>3, <2>4
  <2>6. c.chars[v] + PendingChars(c, v) <= d.chars[v] + PendingChars(d, v)
    BY <2>1, <2>2, <2>3, <2>4
  <2>7. QED
    BY <2>4, <2>5, <2>6
<1>4. QED
  BY <1>3 DEF Typed, KeepsValues, Later

LEMMA LaterSelf ==
  ASSUME NEW c, Typed(c)
  PROVE  Later(c, c)
<1>1. ASSUME NEW v \in 1 .. c.n
      PROVE  /\ c.length[v] + Pending(c, v) <= c.length[v] + Pending(c, v)
             /\ c.chars[v] + PendingChars(c, v) <= c.chars[v] + PendingChars(c, v)
  <2>1. Pending(c, v) \in Nat /\ PendingChars(c, v) \in Nat
    BY PendingTyped
  <2>2. QED
    BY <2>1 DEF Typed
<1>2. QED
  BY <1>1 DEF Typed, Later

LEMMA LaterStill ==
  ASSUME NEW c, NEW d, NEW e, Typed(c), Typed(d), Typed(e), Later(c, d), Later(d, e)
  PROVE  Later(c, e)
<1>1. c.n <= e.n /\ c.ptr <= e.ptr
  BY DEF Later, Typed
<1>2. ASSUME NEW v \in 1 .. c.n
      PROVE  /\ e.type[v] = c.type[v] /\ e.parent[v] = c.parent[v]
             /\ c.length[v] + Pending(c, v) <= e.length[v] + Pending(e, v)
             /\ c.chars[v] + PendingChars(c, v) <= e.chars[v] + PendingChars(e, v)
  <2>1. v \in 1 .. d.n /\ v \in 1 .. e.n
    BY <1>1 DEF Later, Typed
  <2>2. /\ c.length[v] \in Nat /\ d.length[v] \in Nat /\ e.length[v] \in Nat
        /\ c.chars[v] \in Nat /\ d.chars[v] \in Nat /\ e.chars[v] \in Nat
    BY <2>1 DEF Typed
  <2>3. /\ Pending(c, v) \in Nat /\ Pending(d, v) \in Nat /\ Pending(e, v) \in Nat
        /\ PendingChars(c, v) \in Nat /\ PendingChars(d, v) \in Nat /\ PendingChars(e, v) \in Nat
    BY PendingTyped
  <2>4. /\ d.type[v] = c.type[v] /\ d.parent[v] = c.parent[v]
        /\ c.length[v] + Pending(c, v) <= d.length[v] + Pending(d, v)
        /\ c.chars[v] + PendingChars(c, v) <= d.chars[v] + PendingChars(d, v)
    BY DEF Later
  <2>5. /\ e.type[v] = d.type[v] /\ e.parent[v] = d.parent[v]
        /\ d.length[v] + Pending(d, v) <= e.length[v] + Pending(e, v)
        /\ d.chars[v] + PendingChars(d, v) <= e.chars[v] + PendingChars(e, v)
    BY <2>1 DEF Later
  <2>6. QED
    BY <2>2, <2>3, <2>4, <2>5
<1>3. QED
  BY <1>1, <1>2 DEF Later

\* The value that is complete was the only one open in the one it is in.
LEMMA ClosedTyped ==
  ASSUME NEW c, NEW d, NEW f, Typed(c), Family(c), Closes(c, d, f), f \subseteq Flag,
         c.top \in Unclosed(c)
  PROVE  Typed(d) /\ Family(d)
<1> DEFINE p == c.parent[c.top]
<1>0. c.top \in 1 .. c.n /\ c.top \notin c.closed
  BY DEF Unclosed
<1>1. p \in Nat /\ p < c.top
  BY <1>0 DEF Typed, Family
<1>2. /\ d.ptr = c.ptr + 1 /\ d.sl = 0 /\ d.top = (IF p = 0 THEN c.top ELSE p)
      /\ d.n = c.n /\ d.type = c.type /\ d.parent = c.parent /\ d.chars = c.chars
      /\ d.closed = c.closed \cup {c.top} /\ d.flags = Behind(c, p, f)
  BY DEF Closes
<1>3. d.length \in [1 .. c.n -> Nat]
  <2>1. d.length = [w \in 1 .. c.n |-> IF w = p THEN c.length[w] + 1
                                       ELSE IF w = c.top /\ c.type[w] = "string" THEN c.sl
                                       ELSE c.length[w]]
    BY DEF Closes
  <2>2. QED
    BY <2>1 DEF Typed
<1>4. d.flags \subseteq Flag
  BY <1>2 DEF Behind, Flag
<1>5. Typed(d)
  BY <1>0, <1>1, <1>2, <1>3, <1>4 DEF Typed
<1>6. Unclosed(d) = Unclosed(c) \ {c.top}
  BY <1>2 DEF Unclosed
<1>7. \A v \in Unclosed(d) : v # c.top /\ c.parent[v] # p
  BY <1>6 DEF Family
<1>8. \A v \in Unclosed(d) : d.type[v] = "string" => d.length[v] = c.length[v]
  <2>1. ASSUME NEW v \in Unclosed(d) PROVE v # p => d.length[v] = c.length[v]
    BY <1>6, <1>7 DEF Unclosed, Closes
  <2>2. p \in Unclosed(d) => c.type[p] # "string"
    BY <1>0, <1>1, <1>6 DEF Family, Unclosed, Container
  <2>3. QED
    BY <1>2, <2>1, <2>2
<1>9. Family(d)
  BY <1>2, <1>5, <1>6, <1>7, <1>8 DEF Family, Unclosed
<1>10. QED
  BY <1>5, <1>9

LEMMA ClosedLater ==
  ASSUME NEW c, NEW d, NEW f, Typed(c), Family(c), Closes(c, d, f), f \subseteq Flag,
         c.top \in Unclosed(c), TopKind(c) \in Container \cup {"string"},
         TopKind(c) = "object" => ~In(c, "seek_value") /\ ~In(c, "string")
  PROVE  Later(c, d)
<1> DEFINE p == c.parent[c.top]
<1>0. c.top \in 1 .. c.n /\ c.top \notin c.closed /\ TopKind(c) = c.type[c.top]
  BY DEF Unclosed, TopKind
<1>1. p \in Nat /\ p < c.top
  BY <1>0 DEF Typed, Family
<1>2. Typed(d)
  BY ClosedTyped
<1>3. /\ d.ptr = c.ptr + 1 /\ d.top = (IF p = 0 THEN c.top ELSE p)
      /\ d.n = c.n /\ d.type = c.type /\ d.parent = c.parent /\ d.chars = c.chars
      /\ Unclosed(d) = Unclosed(c) \ {c.top}
      /\ d.length = [w \in 1 .. c.n |-> IF w = p THEN c.length[w] + 1
                                        ELSE IF w = c.top /\ c.type[w] = "string" THEN c.sl
                                        ELSE c.length[w]]
  BY DEF Closes, Unclosed
<1>4. ASSUME NEW v \in 1 .. c.n
      PROVE  c.length[v] + Pending(c, v) <= d.length[v] + Pending(d, v)
  <2>1. /\ Pending(c, v) \in Nat /\ Pending(d, v) \in Nat /\ c.length[v] \in Nat /\ c.sl \in Nat
    BY <1>2, PendingTyped DEF Typed
  <2>2. CASE v = c.top
    <3>1. \A w \in Unclosed(c) : c.parent[w] # v
      BY <2>2 DEF Family
    <3>2. c.type[v] # "string" => Pending(c, v) = 0
      BY <1>0, <2>2, <3>1 DEF Pending
    <3>3. c.type[v] # "string" => d.length[v] = c.length[v]
      BY <1>1, <1>3, <2>2
    <3>4. c.type[v] = "string" => c.length[v] = 0 /\ Pending(c, v) <= c.sl /\ d.length[v] = c.sl
      <4>1. c.type[v] = "string" => c.length[v] = 0
        BY <2>2 DEF Family
      <4>2. c.type[v] = "string" => d.length[v] = c.sl
        BY <1>1, <1>3, <2>2
      <4>3. c.type[v] = "string" => Pending(c, v) <= c.sl
        BY <2>1, <3>1 DEF Pending
      <4>4. QED
        BY <4>1, <4>2, <4>3
    <3>5. QED
      BY <2>1, <3>2, <3>3, <3>4
  <2>3. CASE v = p
    <3>1. Pending(c, v) = 1
      BY <2>3 DEF Pending
    <3>2. d.length[v] = c.length[v] + 1
      BY <1>3, <2>3
    <3>3. QED
      BY <2>1, <3>1, <3>2
  <2>4. CASE v # c.top /\ v # p
    <3>1. d.length[v] = c.length[v]
      BY <1>3, <2>4
    <3>2. Pending(c, v) <= Pending(d, v)
      <4>1. CASE \E w \in Unclosed(c) : c.parent[w] = v
        BY <1>3, <2>4, <4>1 DEF Pending
      <4>2. CASE ~\E w \in Unclosed(c) : c.parent[w] = v
        BY <2>1, <2>4, <4>2 DEF Pending
      <4>3. QED
        BY <4>1, <4>2
    <3>3. QED
      BY <2>1, <3>1, <3>2
  <2>5. QED
    BY <2>2, <2>3, <2>4
<1>5. ASSUME NEW v \in 1 .. c.n
      PROVE  c.chars[v] + PendingChars(c, v) <= d.chars[v] + PendingChars(d, v)
  <2>1. PendingChars(c, v) = 0
    BY <1>0 DEF PendingChars
  <2>2. PendingChars(d, v) \in Nat /\ c.chars[v] \in Nat /\ d.chars[v] = c.chars[v]
    BY <1>2, <1>3, PendingTyped DEF Typed
  <2>3. QED
    BY <2>1, <2>2
<1>6. c.n <= d.n /\ c.ptr <= d.ptr
  BY <1>3 DEF Typed
<1>7. QED
  BY <1>3, <1>4, <1>5, <1>6 DEF Later

\* A new value, in the one that is read.
LEMMA AddedTyped ==
  ASSUME NEW c, NEW d, NEW type \in Kind, Typed(c), Family(c), AddsValue(c, d, type),
         c.top = 0 <=> c.n = 0, c.top \notin c.closed, c.top = 0 \/ c.type[c.top] \in Container,
         d.ptr \in Nat, d.ptr >= 1, d.flags \subseteq Flag, d.top \in 0 .. d.n,
         d.length \in [1 .. d.n -> Nat], d.length[d.n] = 0,
         \A v \in 1 .. c.n : c.type[v] = "string" => d.length[v] = c.length[v],
         \/ d.top = c.n + 1 /\ d.closed = c.closed
         \/ (d.top = c.top \/ c.top = 0) /\ d.closed = c.closed \cup {c.n + 1}
  PROVE  Typed(d) /\ Family(d)
<1>1. /\ d.n = c.n + 1 /\ d.sl = 0
      /\ d.type = [w \in 1 .. c.n + 1 |-> IF w = c.n + 1 THEN type ELSE c.type[w]]
      /\ d.parent = [w \in 1 .. c.n + 1 |-> IF w = c.n + 1 THEN c.top ELSE c.parent[w]]
      /\ d.chars = [w \in 1 .. c.n + 1 |-> IF w = c.n + 1 THEN 0 ELSE c.chars[w]]
  BY DEF AddsValue
<1>2. d.closed \subseteq 1 .. d.n
  BY <1>1 DEF Typed
<1>3. /\ d.type \in [1 .. d.n -> Kind] /\ d.parent \in [1 .. d.n -> Nat] /\ d.chars \in [1 .. d.n -> Nat]
  BY <1>1 DEF Typed
<1>4. Typed(d)
  BY <1>1, <1>2, <1>3 DEF Typed
<1>5. /\ c.n \in Nat /\ c.top \in 0 .. c.n /\ c.n + 1 \notin 1 .. c.n
      /\ \A v \in 1 .. d.n : v # c.n + 1 => v \in 1 .. c.n
      /\ \A v \in 1 .. c.n : v \in 1 .. d.n /\ v # c.n + 1
  BY <1>1 DEF Typed
<1>6. \A v \in 1 .. c.n : d.type[v] = c.type[v] /\ d.parent[v] = c.parent[v]
  BY <1>1, <1>5
<1>7. d.type[c.n + 1] = type /\ d.parent[c.n + 1] = c.top /\ c.n + 1 \in 1 .. d.n
  BY <1>1, <1>5
<1>8. \A v \in Unclosed(d) : v # c.n + 1 => v \in Unclosed(c)
  BY <1>5 DEF Unclosed
<1>9. ASSUME NEW v \in 1 .. d.n
      PROVE  /\ d.parent[v] < v /\ (d.parent[v] = 0 <=> v = 1)
             /\ v # 1 => d.type[d.parent[v]] \in Container
  <2>1. CASE v = c.n + 1
    BY <1>5, <1>6, <1>7, <2>1
  <2>2. CASE v # c.n + 1
    <3>1. v \in 1 .. c.n
      BY <1>5, <2>2
    <3>2. c.parent[v] \in Nat /\ c.parent[v] < v /\ (c.parent[v] = 0 <=> v = 1)
          /\ (v # 1 => c.type[c.parent[v]] \in Container)
      BY <3>1 DEF Family, Typed
    <3>3. v # 1 => c.parent[v] \in 1 .. c.n
      BY <1>5, <3>1, <3>2
    <3>4. QED
      BY <1>6, <3>1, <3>2, <3>3
  <2>3. QED
    BY <2>1, <2>2
<1>10. ASSUME NEW v \in Unclosed(d)
       PROVE  /\ v # 1 => d.parent[v] \in Unclosed(d)
              /\ d.parent[v] # d.top
              /\ d.type[v] = "string" => d.length[v] = 0
  <2>0. v \in 1 .. d.n
    BY DEF Unclosed
  <2>1. CASE v = c.n + 1
    <3>1. d.closed = c.closed /\ d.top = c.n + 1
      BY <2>1 DEF Unclosed
    <3>2. v # 1 => c.top \in Unclosed(d)
      BY <1>1, <1>5, <2>1, <3>1 DEF Unclosed
    <3>3. QED
      BY <1>1, <1>5, <1>7, <2>1, <3>1, <3>2
  <2>2. CASE v # c.n + 1
    <3>1. v \in Unclosed(c) /\ v \in 1 .. c.n
      BY <1>8, <2>2 DEF Unclosed
    <3>2. /\ v # 1 => c.parent[v] \in Unclosed(c)
          /\ c.parent[v] # c.top
          /\ c.type[v] = "string" => c.length[v] = 0
          /\ c.parent[v] \in Nat /\ c.parent[v] < v
      BY <3>1 DEF Family, Typed
    <3>3. v # 1 => c.parent[v] \in Unclosed(d)
      BY <1>5, <3>2 DEF Unclosed
    <3>4. c.parent[v] # d.top
      BY <1>5, <3>1, <3>2
    <3>5. QED
      BY <1>6, <3>1, <3>2, <3>3, <3>4
  <2>3. QED
    BY <2>1, <2>2
<1>11. ASSUME NEW v \in Unclosed(d), NEW w \in Unclosed(d), d.parent[v] = d.parent[w]
       PROVE  v = w
  <2>1. ASSUME NEW u \in Unclosed(d), u # c.n + 1 PROVE u \in Unclosed(c) /\ d.parent[u] # c.top
    <3>1. u \in Unclosed(c) /\ u \in 1 .. c.n
      BY <1>8, <2>1 DEF Unclosed
    <3>2. QED
      BY <1>6, <3>1 DEF Family
  <2>2. CASE v = c.n + 1 \/ w = c.n + 1
    BY <1>7, <1>11, <2>1, <2>2
  <2>3. CASE v # c.n + 1 /\ w # c.n + 1
    <3>1. v \in Unclosed(c) /\ w \in Unclosed(c) /\ v \in 1 .. c.n /\ w \in 1 .. c.n
      BY <2>1, <2>3 DEF Unclosed
    <3>2. c.parent[v] = c.parent[w]
      BY <1>6, <1>11, <3>1
    <3>3. QED
      BY <3>1, <3>2 DEF Family
  <2>4. QED
    BY <2>2, <2>3
<1>12. QED
  BY <1>4, <1>9, <1>10, <1>11 DEF Family

LEMMA AddedLater ==
  ASSUME NEW c, NEW d, NEW type \in Kind, Typed(c), Typed(d), AddsValue(c, d, type), c.ptr <= d.ptr,
         ~In(c, "string"), c.top = 0 \/ c.type[c.top] \in Container, c.top \in Unclosed(c) \cup {0},
         NEW g, g \in {0, 1},
         d.length = [w \in 1 .. c.n + 1 |->
                       IF w = c.n + 1 THEN 0 ELSE IF w = c.top THEN c.length[w] + g ELSE c.length[w]],
         d.closed = IF g = 1 THEN c.closed \cup {c.n + 1} ELSE c.closed
  PROVE  Later(c, d)
<1>1. /\ d.n = c.n + 1
      /\ d.type = [w \in 1 .. c.n + 1 |-> IF w = c.n + 1 THEN type ELSE c.type[w]]
      /\ d.parent = [w \in 1 .. c.n + 1 |-> IF w = c.n + 1 THEN c.top ELSE c.parent[w]]
      /\ d.chars = [w \in 1 .. c.n + 1 |-> IF w = c.n + 1 THEN 0 ELSE c.chars[w]]
  BY DEF AddsValue
<1>2. /\ c.n \in Nat /\ c.top \in 0 .. c.n /\ c.n + 1 \notin 1 .. c.n
      /\ \A v \in 1 .. c.n : v \in 1 .. d.n /\ v # c.n + 1
  BY <1>1 DEF Typed
<1>3. ASSUME NEW v \in 1 .. c.n
      PROVE  /\ d.type[v] = c.type[v] /\ d.parent[v] = c.parent[v] /\ d.chars[v] = c.chars[v]
             /\ v = c.top => d.length[v] = c.length[v] + g
             /\ v # c.top => d.length[v] = c.length[v]
  <2>1. v \in 1 .. c.n + 1 /\ v # c.n + 1
    BY <1>2
  <2>2. QED
    BY <1>1, <2>1
<1>4. \A w \in Unclosed(c) : w \in Unclosed(d)
  BY <1>1, <1>2 DEF Unclosed
<1>5. ASSUME NEW v \in 1 .. c.n
      PROVE  c.length[v] + Pending(c, v) <= d.length[v] + Pending(d, v)
  <2>1. Pending(c, v) \in Nat /\ Pending(d, v) \in Nat /\ c.length[v] \in Nat
    BY PendingTyped DEF Typed
  <2>2. Pending(c, v) <= 1
    <3>1. Pending(c, v) = 0 \/ Pending(c, v) = 1
      BY Zenon DEF Pending
    <3>2. QED
      BY <3>1
  <2>3. CASE v # c.top /\ \E w \in Unclosed(c) : c.parent[w] = v
    <3>1. PICK w \in Unclosed(c) : c.parent[w] = v
      BY <2>3
    <3>2. w \in Unclosed(d) /\ d.parent[w] = v
      BY <1>3, <1>4, <3>1 DEF Unclosed
    <3>3. Pending(d, v) = 1
      BY <3>2 DEF Pending
    <3>4. d.length[v] = c.length[v]
      BY <1>3, <2>3
    <3>5. QED
      BY <2>1, <2>2, <3>3, <3>4
  <2>4. CASE v # c.top /\ ~\E w \in Unclosed(c) : c.parent[w] = v
    <3>1. Pending(c, v) = 0
      BY <2>4 DEF Pending
    <3>2. d.length[v] = c.length[v]
      BY <1>3, <2>4
    <3>3. QED
      BY <2>1, <3>1, <3>2
  <2>5. CASE v = c.top /\ g = 1
    <3>1. d.length[v] = c.length[v] + 1
      BY <1>3, <2>5
    <3>2. QED
      BY <2>1, <2>2, <3>1
  <2>6. CASE v = c.top /\ g = 0
    <3>0. d.closed = c.closed /\ c.closed \subseteq 1 .. c.n
      BY <2>6 DEF Typed
    <3>1. c.n + 1 \in Unclosed(d) /\ d.parent[c.n + 1] = v
      BY <1>1, <1>2, <2>6, <3>0 DEF Unclosed
    <3>2. Pending(d, v) = 1
      BY <3>1 DEF Pending
    <3>3. d.length[v] = c.length[v]
      BY <1>3, <2>1, <2>6
    <3>4. QED
      BY <2>1, <2>2, <3>2, <3>3
  <2>7. QED
    BY <2>3, <2>4, <2>5, <2>6
<1>6. ASSUME NEW v \in 1 .. c.n
      PROVE  c.chars[v] + PendingChars(c, v) <= d.chars[v] + PendingChars(d, v)
  <2>1. PendingChars(c, v) = 0
    BY DEF PendingChars
  <2>2. PendingChars(d, v) \in Nat /\ c.chars[v] \in Nat /\ d.chars[v] = c.chars[v]
    BY <1>3, PendingTyped DEF Typed
  <2>3. QED
    BY <2>1, <2>2
<1>7. QED
  <2>1. c.n <= d.n
    BY <1>1, <1>2
  <2>2. QED
    BY <1>3, <1>5, <1>6, <2>1 DEF Later

LEMMA OpenedNext ==
  ASSUME NEW c, NEW d, NEW b, b \in {"[", "lbrace", "quote"}, OpensValue(c, d, b), Regular(c),
         In(c, "seek_value"), ~Commented(c), Starts(c)
  PROVE  Regular(d) /\ Later(c, d)
<1> DEFINE type == OpenedKind(b)
<1>1. Typed(c) /\ Modes(c) /\ Family(c)
  BY DEF Regular
<1>2. /\ AddsValue(c, d, type)
      /\ d.ptr = c.ptr + 1 /\ d.top = c.n + 1 /\ d.closed = c.closed /\ d.n = c.n + 1
      /\ d.length = [w \in 1 .. c.n + 1 |-> IF w = c.n + 1 THEN 0 ELSE c.length[w]]
  BY DEF OpensValue, AddsValue
<1>3. type \in Kind /\ c.n \in Nat
  BY <1>1 DEF Kind, Container, Typed, OpenedKind
<1>4. /\ c.top = 0 <=> c.n = 0
      /\ c.top \notin c.closed /\ c.top \in 0 .. c.n
      /\ c.top = 0 \/ c.type[c.top] \in Container
      /\ ~In(c, "string") /\ ~In(c, "done") /\ ~In(c, "need_colon")
      /\ ~In(c, "line_comment") /\ ~In(c, "block_comment")
  <2>1. ~In(c, "string") /\ ~In(c, "done") /\ ~In(c, "line_comment") /\ ~In(c, "block_comment")
    BY <1>1 DEF Modes, Commented
  <2>2. ~In(c, "need_colon")
    BY DEF Starts
  <2>3. /\ c.top = 0 <=> c.n = 0
        /\ c.top \notin c.closed
        /\ TopKind(c) \in Container \cup {"none"}
    BY <1>1, <2>1 DEF Modes
  <2>4. c.top \in 0 .. c.n /\ (c.top # 0 => c.type[c.top] \in Kind)
    BY <1>1 DEF Typed
  <2>5. c.top = 0 \/ c.type[c.top] \in Container
    BY <2>3, <2>4 DEF TopKind, Kind, Container
  <2>6. QED
    BY <2>1, <2>2, <2>3, <2>4, <2>5
<1>5. d.flags \subseteq Flag
  BY <1>1 DEF OpensValue, OpenedFlags, Flag, Typed
<1>6. d.length \in [1 .. d.n -> Nat] /\ d.length[d.n] = 0
  BY <1>1, <1>2, <1>3 DEF Typed
<1>7. \A v \in 1 .. c.n : c.type[v] = "string" => d.length[v] = c.length[v]
  BY <1>2, <1>3
<1>8. d.ptr \in Nat /\ d.ptr >= 1 /\ c.ptr <= d.ptr
  BY <1>1, <1>2 DEF Typed
<1>9. d.top \in 0 .. d.n
  BY <1>2, <1>3
<1> HIDE DEF type
<1>10. Typed(d) /\ Family(d)
  BY <1>1, <1>2, <1>3, <1>4, <1>5, <1>6, <1>7, <1>8, <1>9, AddedTyped
<1>11. d.length = [w \in 1 .. c.n + 1 |->
                     IF w = c.n + 1 THEN 0 ELSE IF w = c.top THEN c.length[w] + 0 ELSE c.length[w]]
  <2>1. ASSUME NEW w \in 1 .. c.n + 1, w # c.n + 1 PROVE c.length[w] = c.length[w] + 0
    <3>1. w \in 1 .. c.n
      BY <1>3, <2>1
    <3>2. QED
      BY <1>1, <3>1 DEF Typed
  <2>2. QED
    BY <1>2, <2>1
<1>12. c.top \in Unclosed(c) \cup {0}
  BY <1>4 DEF Unclosed
<1>13. Later(c, d)
  <2>1. d.closed = IF 0 = 1 THEN c.closed \cup {c.n + 1} ELSE c.closed
    BY <1>2
  <2>2. 0 \in {0, 1} /\ AddsValue(c, d, type) /\ Typed(c) /\ Typed(d)
    BY <1>1, <1>2, <1>10
  <2>3. QED
    BY <1>3, <1>4, <1>8, <1>11, <1>12, <2>1, <2>2, AddedLater
<1>14. d.type[d.top] = type /\ TopKind(d) = type
  <2>1. d.type = [w \in 1 .. c.n + 1 |-> IF w = c.n + 1 THEN type ELSE c.type[w]]
    BY <1>2 DEF AddsValue
  <2>2. QED
    BY <1>2, <1>3, <2>1 DEF TopKind
<1>15. Modes(d)
  <2>1. /\ ~In(d, "done") /\ ~In(d, "need_colon") /\ ~In(d, "line_comment") /\ ~In(d, "block_comment")
        /\ In(d, "string") <=> b = "quote"
        /\ In(d, "seek_value") <=> b = "["
    BY <1>4 DEF OpensValue, OpenedFlags, In
  <2>2. d.top \notin d.closed /\ d.top # 0 /\ d.n # 0
    BY <1>1, <1>2, <1>3 DEF Typed
  <2>3. QED
    BY <1>14, <2>1, <2>2 DEF Modes, Commented, Container, type, OpenedKind
<1>16. QED
  BY <1>10, <1>13, <1>15 DEF Regular

LEMMA AddedNext ==
  ASSUME NEW c, NEW d, NEW type \in Kind, AddsClosed(c, d, type), Regular(c),
         In(c, "seek_value"), ~Commented(c), Starts(c), d.ptr \in Nat, c.ptr <= d.ptr
  PROVE  Regular(d) /\ Later(c, d)
<1>1. Typed(c) /\ Modes(c) /\ Family(c)
  BY DEF Regular
<1>2. /\ AddsValue(c, d, type)
      /\ d.top = (IF c.top = 0 THEN c.n + 1 ELSE c.top) /\ d.n = c.n + 1
      /\ d.closed = c.closed \cup {c.n + 1}
      /\ d.length = [w \in 1 .. c.n + 1 |->
                       IF w = c.n + 1 THEN 0 ELSE IF w = c.top THEN c.length[w] + 1 ELSE c.length[w]]
      /\ d.flags = Behind(c, c.top, c.flags \ {"seek_value"})
  BY DEF AddsClosed, AddsValue
<1>3. c.n \in Nat
  BY <1>1 DEF Typed
<1>4. /\ c.top = 0 <=> c.n = 0
      /\ c.top \notin c.closed /\ c.top \in 0 .. c.n
      /\ c.top = 0 \/ c.type[c.top] \in Container
      /\ ~In(c, "string") /\ ~In(c, "done") /\ ~In(c, "need_colon")
      /\ ~In(c, "line_comment") /\ ~In(c, "block_comment")
  <2>1. ~In(c, "string") /\ ~In(c, "done") /\ ~In(c, "line_comment") /\ ~In(c, "block_comment")
    BY <1>1 DEF Modes, Commented
  <2>2. ~In(c, "need_colon")
    BY DEF Starts
  <2>3. /\ c.top = 0 <=> c.n = 0
        /\ c.top \notin c.closed
        /\ TopKind(c) \in Container \cup {"none"}
    BY <1>1, <2>1 DEF Modes
  <2>4. c.top \in 0 .. c.n /\ (c.top # 0 => c.type[c.top] \in Kind)
    BY <1>1 DEF Typed
  <2>5. c.top = 0 \/ c.type[c.top] \in Container
    BY <2>3, <2>4 DEF TopKind, Kind, Container
  <2>6. QED
    BY <2>1, <2>2, <2>3, <2>4, <2>5
<1>5. d.flags \subseteq Flag
  BY <1>1, <1>2 DEF Behind, Flag, Typed
<1>6. d.length \in [1 .. d.n -> Nat] /\ d.length[d.n] = 0
  BY <1>1, <1>2, <1>3 DEF Typed
<1>7. \A v \in 1 .. c.n : c.type[v] = "string" => d.length[v] = c.length[v]
  <2>1. c.top # 0 => c.type[c.top] # "string"
    BY <1>4 DEF Container
  <2>2. QED
    BY <1>2, <1>3, <2>1
<1>8. d.ptr \in Nat /\ d.ptr >= 1
  BY <1>1 DEF Typed
<1>9. d.top \in 0 .. d.n
  BY <1>2, <1>3, <1>4
<1>10. Typed(d) /\ Family(d)
  BY <1>1, <1>2, <1>3, <1>4, <1>5, <1>6, <1>7, <1>8, <1>9, AddedTyped
<1>11. c.top \in Unclosed(c) \cup {0}
  BY <1>4 DEF Unclosed
<1>12. Later(c, d)
  BY <1>1, <1>2, <1>3, <1>4, <1>10, <1>11, AddedLater
<1>13. Modes(d)
  <2>1. /\ ~In(d, "string") /\ ~In(d, "need_colon") /\ ~In(d, "line_comment") /\ ~In(d, "block_comment")
        /\ In(d, "done") <=> c.top = 0
        /\ In(d, "seek_value") <=> c.top # 0 /\ c.type[c.top] = "array"
    BY <1>2, <1>4 DEF Behind, In
  <2>2. c.top = 0 => d.closed = 1 .. d.n /\ d.top = 1
    BY <1>1, <1>2, <1>4 DEF Typed
  <2>3. c.top # 0 => d.top \notin d.closed /\ d.top # 0 /\ d.n # 0 /\ TopKind(d) = c.type[c.top]
    <3>1. d.type = [w \in 1 .. c.n + 1 |-> IF w = c.n + 1 THEN type ELSE c.type[w]]
      BY <1>2 DEF AddsValue
    <3>2. QED
      BY <1>2, <1>3, <1>4, <3>1 DEF TopKind
  <2>4. QED
    BY <1>4, <2>1, <2>2, <2>3 DEF Modes, Commented, Container
<1>14. QED
  BY <1>10, <1>12, <1>13 DEF Regular

LEMMA ClosedNext ==
  ASSUME NEW c, NEW d, NEW f, Closes(c, d, f), Regular(c), ~In(c, "done"), ~Commented(c),
         TopKind(c) \in Container \cup {"string"}, f \subseteq c.flags,
         "string" \notin f, "seek_value" \notin f,
         TopKind(c) = "object" => ~In(c, "seek_value") /\ ~In(c, "string"),
         TopKind(c) = "string" => In(c, "string")
  PROVE  Regular(d) /\ Later(c, d)
<1> DEFINE p == c.parent[c.top]
<1>1. Typed(c) /\ Modes(c) /\ Family(c)
  BY DEF Regular
<1>2. c.top \in Unclosed(c) /\ c.top \in 1 .. c.n /\ c.top \notin c.closed /\ c.type[c.top] = TopKind(c)
  <2>1. c.top # 0
    BY DEF TopKind, Container
  <2>2. QED
    BY <1>1, <2>1 DEF Unclosed, TopKind, Modes, Typed
<1>3. f \subseteq Flag
  BY <1>1 DEF Typed
<1>4. Typed(d) /\ Family(d)
  BY <1>1, <1>2, <1>3, ClosedTyped
<1>5. Later(c, d)
  BY <1>1, <1>2, <1>3, ClosedLater
<1>6. /\ d.top = (IF p = 0 THEN c.top ELSE p) /\ d.n = c.n /\ d.type = c.type
      /\ d.closed = c.closed \cup {c.top} /\ d.flags = Behind(c, p, f)
  BY DEF Closes
<1>7. p \in Nat /\ p < c.top /\ (p = 0 <=> c.top = 1)
  BY <1>1, <1>2 DEF Typed, Family
<1>8. p # 0 => p \in Unclosed(c) /\ c.type[p] \in Container
  BY <1>1, <1>2, <1>7 DEF Family
<1>9. p = 0 => Unclosed(c) = {c.top}
  <2>1. SUFFICES ASSUME p = 0, Unclosed(c) \ {c.top} # {} PROVE FALSE
    BY <1>2
  <2>2. Unclosed(c) \ {c.top} \subseteq Nat
    BY <1>1 DEF Unclosed, Typed
  <2>3. PICK v \in Unclosed(c) \ {c.top} : \A w \in Unclosed(c) \ {c.top} : v <= w
    BY <2>1, <2>2, Least
  <2>4. v \in 1 .. c.n /\ v # 1
    BY <1>7, <2>1 DEF Unclosed
  <2>5. c.parent[v] \in Unclosed(c) /\ c.parent[v] # c.top /\ c.parent[v] < v /\ c.parent[v] \in Nat
    BY <1>1, <2>4 DEF Family, Typed
  <2>6. QED
    BY <2>3, <2>4, <2>5
<1>10. /\ ~In(d, "string") /\ ~In(d, "need_colon") /\ ~In(d, "line_comment") /\ ~In(d, "block_comment")
       /\ In(d, "done") <=> p = 0
       /\ In(d, "seek_value") <=> p # 0 /\ c.type[p] = "array"
  <2>1. "need_colon" \notin f
    BY <1>1 DEF Modes, In
  <2>2. QED
    BY <1>6, <2>1 DEF Behind, In, Commented
<1>11. p = 0 => d.closed = 1 .. d.n /\ d.top = 1
  <2>1. p = 0 => \A v \in 1 .. c.n : v \in c.closed \/ v = c.top
    BY <1>9 DEF Unclosed
  <2>2. QED
    BY <1>1, <1>2, <1>6, <1>7, <2>1 DEF Typed
<1>12. p # 0 => d.top \notin d.closed /\ d.top # 0 /\ d.n # 0 /\ TopKind(d) = c.type[p]
  <2>1. p # 0 => p \in 1 .. c.n /\ p \notin c.closed
    BY <1>8 DEF Unclosed
  <2>2. QED
    BY <1>6, <1>7, <2>1 DEF TopKind
<1>13. Modes(d)
  BY <1>8, <1>10, <1>11, <1>12 DEF Modes, Commented, Container
<1>14. QED
  BY <1>4, <1>5, <1>13 DEF Regular

LEMMA KeptNext ==
  ASSUME NEW c, NEW d, Regular(c), KeepsValues(c, d), d.ptr \in {c.ptr, c.ptr + 1},
         d.sl \in Nat, c.sl <= d.sl \/ ~In(c, "string"), d.flags \subseteq Flag, Modes(d),
         In(c, "string") => In(d, "string"), In(c, "seek_value") => In(d, "seek_value")
  PROVE  Regular(d) /\ Later(c, d)
<1>1. Typed(c) /\ Modes(c) /\ Family(c)
  BY DEF Regular
<1>2. Typed(d) /\ Family(d)
  BY <1>1, KeptFamily, KeptTyped
<1>3. c.ptr <= d.ptr
  BY <1>1 DEF Typed
<1>4. Later(c, d)
  BY <1>1, <1>2, <1>3, KeptLater
<1>5. QED
  BY <1>2, <1>4 DEF Regular

LEMMA WidthTyped == \A b : Width(b) \in 1 .. 4
<1>1. \A b : Width(b) = 1 \/ Width(b) = 2 \/ Width(b) = 3 \/ Width(b) = 4
  BY Zenon DEF Width
<1>2. QED
  BY <1>1

LEMMA StringNext ==
  ASSUME NEW c, NEW d, NEW b, Regular(c), In(c, "string"), InString(c, d, b)
  PROVE  Regular(d) /\ Later(c, d)
<1>1. Typed(c) /\ Modes(c) /\ Family(c)
  BY DEF Regular
<1>2. /\ ~Commented(c) /\ ~In(c, "done") /\ ~In(c, "seek_value") /\ ~In(c, "need_colon")
      /\ TopKind(c) \in {"string", "object"}
      /\ c.top # 0 /\ c.n # 0 /\ c.top \notin c.closed
  BY <1>1 DEF Modes, TopKind
<1>3. CASE KeepsValues(c, d) /\ d.ptr = c.ptr + 1 /\ d.sl \in Nat /\ c.sl <= d.sl
           /\ d.flags \subseteq c.flags \cup {"escaped"} /\ c.flags \subseteq d.flags \cup {"escaped"}
  <2>1. d.flags \subseteq Flag
    BY <1>1, <1>3 DEF Typed, Flag
  <2>2. \A f \in {"string", "done", "seek_value", "need_colon", "line_comment", "block_comment"} :
          In(d, f) <=> In(c, f)
    BY <1>3 DEF In
  <2>3. TopKind(d) = TopKind(c)
    BY <1>3 DEF KeepsValues, TopKind
  <2>4. Modes(d)
    BY <1>2, <1>3, <2>2, <2>3 DEF Modes, Commented, KeepsValues, Container
  <2>5. QED
    BY <1>2, <1>3, <2>1, <2>2, <2>4, KeptNext
<1>4. CASE d.ptr = c.ptr + 1 /\ d.flags = c.flags \ {"escaped"} /\ d.sl = c.sl + Width(b) /\ KeepsValues(c, d)
  <2>1. Width(b) \in Nat
    BY WidthTyped
  <2>2. d.sl \in Nat /\ c.sl <= d.sl
    BY <1>1, <1>4, <2>1 DEF Typed
  <2>3. d.flags \subseteq c.flags \cup {"escaped"} /\ c.flags \subseteq d.flags \cup {"escaped"}
    BY <1>4
  <2>4. QED
    BY <1>3, <1>4, <2>2, <2>3
<1>5. CASE GoesOn(c, d, c.flags \cup {"escaped"})
  <2>1. d.sl \in Nat /\ c.sl <= d.sl
    BY <1>1, <1>5 DEF Typed, GoesOn
  <2>2. QED
    BY <1>3, <1>5, <2>1 DEF GoesOn
<1>6. CASE TopKind(c) = "string" /\ Closes(c, d, c.flags \ {"string"})
  <2>1. "string" \notin c.flags \ {"string"} /\ "seek_value" \notin c.flags \ {"string"}
    BY <1>2 DEF In
  <2>2. c.flags \ {"string"} \subseteq c.flags
    OBVIOUS
  <2>3. QED
    BY <1>2, <1>6, <2>1, <2>2, ClosedNext
<1>7. CASE /\ TopKind(c) = "object"
           /\ d.ptr = c.ptr + 1 /\ d.sl = 0
           /\ d.flags = (c.flags \ {"string"}) \cup {"seek_value", "need_colon"}
           /\ d.top = c.top /\ d.n = c.n /\ d.type = c.type /\ d.parent = c.parent
           /\ d.length = c.length /\ d.closed = c.closed
           /\ d.chars = [w \in 1 .. c.n |-> IF w = c.top THEN c.chars[w] + c.sl + 1 ELSE c.chars[w]]
  <2>1. Typed(d)
    <3>1. d.flags \subseteq Flag
      BY <1>1, <1>7 DEF Typed, Flag
    <3>2. d.chars \in [1 .. c.n -> Nat]
      BY <1>1, <1>7 DEF Typed
    <3>3. QED
      BY <1>1, <1>7, <3>1, <3>2 DEF Typed
  <2>2. Family(d)
    BY <1>1, <1>7 DEF Family, Unclosed
  <2>3. TopKind(d) = TopKind(c)
    BY <1>7 DEF TopKind
  <2>4. /\ In(d, "seek_value") /\ In(d, "need_colon") /\ ~In(d, "string") /\ ~In(d, "done")
        /\ ~In(d, "line_comment") /\ ~In(d, "block_comment")
    BY <1>2, <1>7 DEF In, Commented
  <2>5. Modes(d)
    BY <1>2, <1>7, <2>3, <2>4 DEF Modes, Commented, Container
  <2>6. \A v : Pending(c, v) <= Pending(d, v)
    BY <1>1, <1>7, <2>4 DEF Pending, Unclosed, TopKind, Typed
  <2>7. ASSUME NEW v \in 1 .. c.n
        PROVE  /\ c.length[v] + Pending(c, v) <= d.length[v] + Pending(d, v)
               /\ c.chars[v] + PendingChars(c, v) <= d.chars[v] + PendingChars(d, v)
    <3>1. /\ c.length[v] \in Nat /\ c.chars[v] \in Nat /\ c.sl \in Nat
          /\ Pending(c, v) \in Nat /\ Pending(d, v) \in Nat /\ PendingChars(d, v) \in Nat
      BY <1>1, <2>1, PendingTyped DEF Typed
    <3>2. d.length[v] = c.length[v] /\ Pending(c, v) <= Pending(d, v)
      BY <1>7, <2>6
    <3>3. v = c.top => PendingChars(c, v) <= c.sl + 1 /\ d.chars[v] = c.chars[v] + c.sl + 1
      BY <1>7, <3>1 DEF PendingChars
    <3>4. v # c.top => PendingChars(c, v) = 0 /\ d.chars[v] = c.chars[v]
      BY <1>7 DEF PendingChars
    <3>5. PendingChars(c, v) \in Nat
      BY <1>1, PendingTyped
    <3>6. c.length[v] + Pending(c, v) <= d.length[v] + Pending(d, v)
      BY <3>1, <3>2
    <3>7. CASE v = c.top
      BY <3>1, <3>3, <3>5, <3>6, <3>7
    <3>8. CASE v # c.top
      BY <3>1, <3>4, <3>5, <3>6, <3>8
    <3>9. QED
      BY <3>7, <3>8
  <2>8. c.n <= d.n /\ c.ptr <= d.ptr
    BY <1>1, <1>7 DEF Typed
  <2>9. QED
    BY <1>7, <2>1, <2>2, <2>5, <2>7, <2>8 DEF Later, Regular
<1>8. QED
  BY <1>4, <1>5, <1>6, <1>7 DEF InString, Writes, Names

\* Outside a string, a step that only changes flags.
LEMMA FlagsNext ==
  ASSUME NEW c, NEW d, NEW f, Regular(c), ~In(c, "string"), KeepsValues(c, d),
         d.ptr \in {c.ptr, c.ptr + 1}, d.sl \in Nat, d.flags = f, f \subseteq Flag,
         "done" \in f <=> In(c, "done"), "seek_value" \in f <=> In(c, "seek_value"),
         "string" \in f => ~Commented(d) /\ ~In(c, "done") /\ ~In(c, "seek_value") /\ TopKind(c) = "object",
         ~("line_comment" \in f /\ "block_comment" \in f),
         "need_colon" \in f => In(c, "need_colon")
  PROVE  Regular(d) /\ Later(c, d)
<1>1. Typed(c) /\ Modes(c) /\ Family(c)
  BY DEF Regular
<1>2. TopKind(d) = TopKind(c)
  BY DEF KeepsValues, TopKind
<1>3. /\ In(d, "done") <=> In(c, "done")
      /\ In(d, "seek_value") <=> In(c, "seek_value")
      /\ In(d, "string") => ~Commented(d) /\ ~In(c, "done") /\ ~In(c, "seek_value") /\ TopKind(c) = "object"
      /\ ~(In(d, "line_comment") /\ In(d, "block_comment"))
      /\ In(d, "need_colon") => In(c, "need_colon")
  BY DEF In
<1>4. Modes(d)
  BY <1>1, <1>2, <1>3 DEF Modes, KeepsValues
<1>5. QED
  BY <1>3, <1>4, KeptNext

LEMMA GoesOnNext ==
  ASSUME NEW c, NEW d, NEW f, Regular(c), ~In(c, "string"), GoesOn(c, d, f), f \subseteq Flag,
         f \ {"need_comma", "need_colon", "line_comment", "block_comment"}
           = c.flags \ {"need_comma", "need_colon", "line_comment", "block_comment"},
         "need_colon" \in f => In(c, "need_colon"),
         ~("line_comment" \in f /\ "block_comment" \in f)
  PROVE  Regular(d) /\ Later(c, d)
<1>1. /\ KeepsValues(c, d) /\ d.ptr \in {c.ptr, c.ptr + 1} /\ d.sl \in Nat /\ d.flags = f
  BY DEF GoesOn, Regular, Typed
<1>2. /\ "done" \in f <=> In(c, "done")
      /\ "seek_value" \in f <=> In(c, "seek_value")
      /\ "string" \notin f
  BY DEF In
<1>3. QED
  BY <1>1, <1>2, FlagsNext

LEMMA SeekingNext ==
  ASSUME NEW c, NEW d, NEW t \in Seq(Token), NEW b, Regular(c), ~In(c, "string"), ~Commented(c),
         In(c, "seek_value"), ~In(c, "done"), Seeking(c, d, t, b)
  PROVE  Regular(d) /\ Later(c, d)
<1>1. Typed(c) /\ Modes(c) /\ Family(c)
  BY DEF Regular
<1>2. c.flags \subseteq Flag /\ "line_comment" \notin c.flags
  BY <1>1 DEF Typed, Commented, In
<1>3. CASE GoesOn(c, d, c.flags)
  BY <1>2, <1>3, GoesOnNext DEF In
<1>4. CASE GoesOn(c, d, c.flags \ {"need_comma"})
  <2>1. /\ c.flags \ {"need_comma"} \subseteq Flag
        /\ (c.flags \ {"need_comma"}) \ {"need_comma", "need_colon", "line_comment", "block_comment"}
             = c.flags \ {"need_comma", "need_colon", "line_comment", "block_comment"}
        /\ "need_colon" \in c.flags \ {"need_comma"} => In(c, "need_colon")
    BY <1>2 DEF In
  <2>2. QED
    BY <1>2, <1>4, <2>1, GoesOnNext
<1>5. CASE GoesOn(c, d, c.flags \ {"need_colon"})
  <2>1. /\ c.flags \ {"need_colon"} \subseteq Flag
        /\ (c.flags \ {"need_colon"}) \ {"need_comma", "need_colon", "line_comment", "block_comment"}
             = c.flags \ {"need_comma", "need_colon", "line_comment", "block_comment"}
        /\ "need_colon" \in c.flags \ {"need_colon"} => In(c, "need_colon")
    BY <1>2 DEF In
  <2>2. QED
    BY <1>2, <1>5, <2>1, GoesOnNext
<1>6. CASE TopKind(c) = "array" /\ Closes(c, d, c.flags \ {"need_comma", "seek_value"})
  <2>1. /\ "string" \notin c.flags \ {"need_comma", "seek_value"}
        /\ "seek_value" \notin c.flags \ {"need_comma", "seek_value"}
        /\ c.flags \ {"need_comma", "seek_value"} \subseteq c.flags
        /\ TopKind(c) \in Container \cup {"string"} /\ TopKind(c) # "object" /\ TopKind(c) # "string"
    BY <1>6 DEF In, Container
  <2>2. QED
    BY <1>6, <2>1, ClosedNext
<1>7. CASE Starts(c) /\ b \in {"[", "lbrace", "quote"} /\ OpensValue(c, d, b)
  BY <1>7, OpenedNext
<1>8. CASE Starts(c) /\ AddsClosed(c, d, "literal") /\ d.ptr = c.ptr + 1
  <2>1. d.ptr \in Nat /\ c.ptr <= d.ptr /\ "literal" \in Kind
    BY <1>1, <1>8 DEF Typed, Kind
  <2>2. QED
    BY <1>8, <2>1, AddedNext
<1>9. CASE Starts(c) /\ IsNumber(t, c.ptr, d.ptr) /\ (AddsClosed(c, d, "integer") \/ AddsClosed(c, d, "double"))
  <2>1. Len(t) \in Nat /\ c.ptr \in Nat
    BY <1>1, LenProperties DEF Typed
  <2>2. d.ptr \in Nat /\ c.ptr <= d.ptr /\ "integer" \in Kind /\ "double" \in Kind
    BY <1>9, <2>1 DEF IsNumber, Kind
  <2>3. CASE AddsClosed(c, d, "integer")
    BY <1>9, <2>2, <2>3, AddedNext
  <2>4. CASE AddsClosed(c, d, "double")
    BY <1>9, <2>2, <2>4, AddedNext
  <2>5. QED
    BY <1>9, <2>3, <2>4
<1>10. QED
  BY <1>3, <1>4, <1>5, <1>6, <1>7, <1>8, <1>9 DEF Seeking

LEMMA EntriesNext ==
  ASSUME NEW c, NEW d, NEW b, Regular(c), ~In(c, "string"), ~Commented(c),
         ~In(c, "seek_value"), ~In(c, "done"), BetweenEntries(c, d, b)
  PROVE  Regular(d) /\ Later(c, d)
<1>1. Typed(c) /\ Modes(c) /\ Family(c)
  BY DEF Regular
<1>2. /\ c.flags \subseteq Flag /\ "line_comment" \notin c.flags /\ "block_comment" \notin c.flags
      /\ TopKind(c) = "object" /\ ~In(c, "need_colon")
  BY <1>1 DEF Typed, Commented, In, Modes
<1>3. CASE GoesOn(c, d, c.flags)
  BY <1>2, <1>3, GoesOnNext DEF In
<1>4. CASE GoesOn(c, d, c.flags \ {"need_comma"})
  <2>1. /\ c.flags \ {"need_comma"} \subseteq Flag
        /\ (c.flags \ {"need_comma"}) \ {"need_comma", "need_colon", "line_comment", "block_comment"}
             = c.flags \ {"need_comma", "need_colon", "line_comment", "block_comment"}
        /\ "need_colon" \in c.flags \ {"need_comma"} => In(c, "need_colon")
    BY <1>2 DEF In
  <2>2. QED
    BY <1>2, <1>4, <2>1, GoesOnNext
<1>5. CASE d.ptr = c.ptr + 1 /\ d.flags = c.flags \cup {"string"} /\ d.sl = 0 /\ KeepsValues(c, d)
  <2>1. /\ d.ptr \in {c.ptr, c.ptr + 1} /\ d.sl \in Nat /\ c.flags \cup {"string"} \subseteq Flag
        /\ "done" \in c.flags \cup {"string"} <=> In(c, "done")
        /\ "seek_value" \in c.flags \cup {"string"} <=> In(c, "seek_value")
        /\ "line_comment" \notin c.flags \cup {"string"} /\ "block_comment" \notin c.flags \cup {"string"}
        /\ "need_colon" \in c.flags \cup {"string"} => In(c, "need_colon")
        /\ ~Commented(d)
    BY <1>2, <1>5 DEF In, Flag, Commented
  <2>2. QED
    BY <1>2, <1>5, <2>1, FlagsNext
<1>6. CASE Closes(c, d, c.flags \ {"need_comma"})
  <2>1. /\ "string" \notin c.flags \ {"need_comma"} /\ "seek_value" \notin c.flags \ {"need_comma"}
        /\ c.flags \ {"need_comma"} \subseteq c.flags
        /\ TopKind(c) \in Container \cup {"string"} /\ TopKind(c) # "string"
    BY <1>2 DEF In, Container
  <2>2. QED
    BY <1>6, <2>1, ClosedNext
<1>7. QED
  BY <1>3, <1>4, <1>5, <1>6 DEF BetweenEntries, BeginsName

LEMMA CommentsNext ==
  ASSUME NEW c, NEW d, NEW b, Regular(c), ~In(c, "string"),
         \/ In(c, "line_comment") /\ InLine(c, d, b)
         \/ In(c, "block_comment") /\ InBlock(c, d, b)
         \/ ~Commented(c) /\ IntoComment(c, d, b)
  PROVE  Regular(d) /\ Later(c, d)
<1>1. Typed(c) /\ Modes(c) /\ Family(c)
  BY DEF Regular
<1>2. c.flags \subseteq Flag /\ ~(In(c, "line_comment") /\ In(c, "block_comment"))
  BY <1>1 DEF Typed, Modes
<1> DEFINE Fits(f) == /\ f \subseteq Flag
                      /\ f \ {"need_comma", "need_colon", "line_comment", "block_comment"}
                           = c.flags \ {"need_comma", "need_colon", "line_comment", "block_comment"}
                      /\ "need_colon" \in f => In(c, "need_colon")
                      /\ ~("line_comment" \in f /\ "block_comment" \in f)
<1>3. CASE GoesOn(c, d, c.flags)
  <2>1. Fits(c.flags)
    BY <1>2 DEF In
  <2>2. QED
    BY <1>3, <2>1, GoesOnNext
<1>4. CASE GoesOn(c, d, c.flags \ {"block_comment"})
  <2>1. Fits(c.flags \ {"block_comment"})
    BY <1>2 DEF In
  <2>2. QED
    BY <1>4, <2>1, GoesOnNext
<1>5. CASE /\ d.ptr = c.ptr /\ d.flags = c.flags \ {"line_comment"} /\ d.sl = c.sl /\ KeepsValues(c, d)
  <2>1. /\ d.ptr \in {c.ptr, c.ptr + 1} /\ d.sl \in Nat /\ c.flags \ {"line_comment"} \subseteq Flag
        /\ "done" \in c.flags \ {"line_comment"} <=> In(c, "done")
        /\ "seek_value" \in c.flags \ {"line_comment"} <=> In(c, "seek_value")
        /\ "string" \notin c.flags \ {"line_comment"}
        /\ "line_comment" \notin c.flags \ {"line_comment"}
        /\ "need_colon" \in c.flags \ {"line_comment"} => In(c, "need_colon")
    BY <1>1, <1>2, <1>5 DEF In, Typed
  <2>2. QED
    BY <1>5, <2>1, FlagsNext
<1>6. CASE ~Commented(c) /\ (GoesOn(c, d, c.flags \cup {"line_comment"}) \/ GoesOn(c, d, c.flags \cup {"block_comment"}))
  <2>1. Fits(c.flags \cup {"line_comment"}) /\ Fits(c.flags \cup {"block_comment"})
    BY <1>2, <1>6 DEF In, Commented, Flag
  <2>2. QED
    BY <1>6, <2>1, GoesOnNext
<1>7. QED
  BY <1>3, <1>4, <1>5, <1>6 DEF InLine, InBlock, IntoComment, Uncomments

\* What holds of one holds of the next.
LEMMA StepNext ==
  ASSUME NEW c, NEW d, NEW t \in Seq(Token), Regular(c), Leads(c, d, t)
  PROVE  Regular(d) /\ Later(c, d)
<1> DEFINE b == t[c.ptr]
<1>1. CASE In(c, "string")
  <2>1. InString(c, d, b)
    BY <1>1 DEF Leads
  <2>2. QED
    BY <1>1, <2>1, StringNext
<1>2. CASE ~In(c, "string") /\ (Commented(c) \/ b \in {"//", "/*"})
  <2>1. \/ In(c, "line_comment") /\ InLine(c, d, b)
        \/ In(c, "block_comment") /\ InBlock(c, d, b)
        \/ ~Commented(c) /\ IntoComment(c, d, b)
    BY <1>2 DEF Leads, Commented
  <2>2. QED
    BY <1>2, <2>1, CommentsNext
<1>3. CASE ~In(c, "string") /\ ~Commented(c) /\ b \notin {"//", "/*"} /\ In(c, "done")
  <2>1. GoesOn(c, d, c.flags)
    BY <1>3 DEF Leads, Commented
  <2>2. c.flags \subseteq Flag /\ "line_comment" \notin c.flags
    BY <1>3 DEF Regular, Typed, Commented, In
  <2>3. QED
    BY <1>3, <2>1, <2>2, GoesOnNext DEF In
<1>4. CASE ~In(c, "string") /\ ~Commented(c) /\ b \notin {"//", "/*"} /\ ~In(c, "done") /\ In(c, "seek_value")
  <2>1. Seeking(c, d, t, b)
    BY <1>4 DEF Leads, Commented
  <2>2. QED
    BY <1>4, <2>1, SeekingNext
<1>5. CASE ~In(c, "string") /\ ~Commented(c) /\ b \notin {"//", "/*"} /\ ~In(c, "done") /\ ~In(c, "seek_value")
  <2>1. BetweenEntries(c, d, b)
    BY <1>5 DEF Leads, Commented
  <2>2. QED
    BY <1>5, <2>1, EntriesNext
<1>6. QED
  BY <1>1, <1>2, <1>3, <1>4, <1>5

-----------------------------------------------------------------------------
(* Runs: what the loop goes through on a text, from its start.             *)

Start ==
  [ptr |-> 1, flags |-> {"seek_value"}, sl |-> 0, top |-> 0, n |-> 0,
   type |-> [v \in 1 .. 0 |-> "literal"], parent |-> [v \in 1 .. 0 |-> 0],
   length |-> [v \in 1 .. 0 |-> 0], chars |-> [v \in 1 .. 0 |-> 0], closed |-> {}]

Run(h, n, t) ==
  /\ n \in Nat /\ h[0] = Start
  /\ \A i \in 0 .. n : Regular(h[i])
  /\ \A i, j \in 0 .. n : i <= j => Later(h[i], h[j])
  /\ \A i \in 0 .. n - 1 : Leads(h[i], h[i + 1], t)

\* The text ends behind its value.
Final(c, t) ==
  In(c, "done") /\ ~In(c, "string") /\ ~Commented(c) /\ c.ptr <= Len(t) /\ t[c.ptr] = "end"

LEMMA StartFields ==
  /\ Start.ptr = 1 /\ Start.flags = {"seek_value"} /\ Start.sl = 0 /\ Start.top = 0 /\ Start.n = 0
  /\ Start.type = [v \in 1 .. 0 |-> "literal"] /\ Start.parent = [v \in 1 .. 0 |-> 0]
  /\ Start.length = [v \in 1 .. 0 |-> 0] /\ Start.chars = [v \in 1 .. 0 |-> 0]
  /\ Start.closed = {}
BY DEF Start

LEMMA StartRegular == Regular(Start)
<1>1. Typed(Start)
  BY StartFields DEF Typed, Flag, Kind
<1>2. Modes(Start)
  BY StartFields DEF Modes, In, TopKind, Commented
<1>3. Family(Start)
  BY StartFields DEF Family, Unclosed
<1>4. QED
  BY <1>1, <1>2, <1>3 DEF Regular

LEMMA RunStarts ==
  ASSUME NEW t
  PROVE  Run([i \in {0} |-> Start], 0, t)
<1>1. Later(Start, Start)
  BY StartRegular, LaterSelf DEF Regular
<1>2. QED
  BY <1>1, StartRegular DEF Run

\* g is h with d behind it.
Prolongs(g, h, n, d) == g[n + 1] = d /\ \A i \in 0 .. n : g[i] = h[i]

LEMMA RunGoesOn ==
  ASSUME NEW h, NEW n, NEW t \in Seq(Token), NEW d, Run(h, n, t), Leads(h[n], d, t)
  PROVE  \E g : Run(g, n + 1, t) /\ Prolongs(g, h, n, d)
<1> DEFINE g == [i \in 0 .. n + 1 |-> IF i = n + 1 THEN d ELSE h[i]]
<1>1. n \in Nat /\ Regular(h[n])
  BY DEF Run
<1>2. Regular(d) /\ Later(h[n], d)
  BY <1>1, StepNext
<1>3. /\ g[n + 1] = d
      /\ \A i \in 0 .. n : g[i] = h[i]
  BY <1>1
<1> HIDE DEF g
<1>4. \A i \in 0 .. n + 1 : Regular(g[i])
  <2>1. \A i \in 0 .. n : Regular(g[i])
    BY <1>3 DEF Run
  <2>2. QED
    BY <1>1, <1>2, <1>3, <2>1
<1>5. ASSUME NEW i \in 0 .. n + 1, NEW j \in 0 .. n + 1, i <= j PROVE Later(g[i], g[j])
  <2>1. CASE j \in 0 .. n
    <3>1. i \in 0 .. n
      BY <1>1, <1>5, <2>1
    <3>2. QED
      BY <1>3, <1>5, <2>1, <3>1 DEF Run
  <2>2. CASE j = n + 1 /\ i \in 0 .. n
    <3>1. Later(h[i], h[n]) /\ Regular(h[i])
      BY <1>1, <2>2 DEF Run
    <3>2. Typed(h[i]) /\ Typed(h[n]) /\ Typed(d)
      BY <1>1, <1>2, <3>1 DEF Regular
    <3>3. Later(h[i], d)
      BY <1>2, <3>1, <3>2, LaterStill
    <3>4. QED
      BY <1>3, <2>2, <3>3
  <2>3. CASE j = n + 1 /\ i = n + 1
    <3>1. Later(d, d)
      BY <1>2, LaterSelf DEF Regular
    <3>2. QED
      BY <1>3, <2>3, <3>1
  <2>4. QED
    BY <1>1, <2>1, <2>2, <2>3
<1>6. ASSUME NEW i \in 0 .. n PROVE Leads(g[i], g[i + 1], t)
  <2>1. CASE i = n
    <3>1. g[i] = h[n] /\ g[i + 1] = d
      BY <1>1, <1>3, <2>1
    <3>2. QED
      BY <3>1
  <2>2. CASE i # n
    <3>1. i \in 0 .. n - 1 /\ i + 1 \in 0 .. n
      BY <1>1, <2>2
    <3>2. g[i] = h[i] /\ g[i + 1] = h[i + 1]
      BY <1>3, <3>1
    <3>3. QED
      BY <3>1, <3>2 DEF Run
  <2>3. QED
    BY <2>1, <2>2
<1>7. g[0] = Start
  BY <1>1, <1>3 DEF Run
<1>8. (n + 1) - 1 = n /\ n + 1 \in Nat
  BY <1>1
<1>9. Run(g, n + 1, t)
  BY <1>4, <1>5, <1>6, <1>7, <1>8 DEF Run
<1>10. Prolongs(g, h, n, d)
  BY <1>3 DEF Prolongs
<1>11. QED
  BY <1>9, <1>10

LEMMA RunExtends ==
  ASSUME NEW h, NEW n, NEW t \in Seq(Token), NEW d, Run(h, n, t), Leads(h[n], d, t)
  PROVE  \E g : Run(g, n + 1, t) /\ g[n + 1] = d
<1>1. PICK g : Run(g, n + 1, t) /\ Prolongs(g, h, n, d)
  BY RunGoesOn
<1>2. QED
  BY <1>1 DEF Prolongs

LEMMA Appended ==
  ASSUME NEW t \in Seq(Token), NEW b \in Token
  PROVE  /\ Append(t, b) \in Seq(Token) /\ Len(t) \in Nat /\ Len(Append(t, b)) = Len(t) + 1
         /\ Append(t, b)[Len(t) + 1] = b
         /\ \A i \in 1 .. Len(t) : Append(t, b)[i] = t[i]
BY AppendProperties, LenProperties

LEMMA LeadsStill ==
  ASSUME NEW c, NEW d, NEW t \in Seq(Token), NEW b \in Token, Regular(c), Leads(c, d, t)
  PROVE  Leads(c, d, Append(t, b))
<1>1. c.ptr \in 1 .. Len(t)
  BY LenProperties DEF Regular, Typed, Leads
<1>2. Append(t, b)[c.ptr] = t[c.ptr] /\ c.ptr <= Len(Append(t, b))
  BY <1>1, Appended
<1>3. IsNumber(t, c.ptr, d.ptr) => IsNumber(Append(t, b), c.ptr, d.ptr)
  <2>1. SUFFICES ASSUME IsNumber(t, c.ptr, d.ptr) PROVE IsNumber(Append(t, b), c.ptr, d.ptr)
    OBVIOUS
  <2>2. d.ptr \in 1 .. Len(t) /\ d.ptr >= c.ptr /\ Len(t) \in Nat
    BY <1>1, <2>1, LenProperties DEF IsNumber
  <2>3. \A k \in c.ptr .. d.ptr : Append(t, b)[k] = t[k]
    BY <1>1, <2>2, Appended
  <2>4. d.ptr \in c.ptr .. Len(Append(t, b))
    BY <1>1, <2>2, Appended
  <2>5. QED
    BY <1>1, <2>1, <2>2, <2>3, <2>4 DEF IsNumber
<1>4. QED
  BY <1>2, <1>3 DEF Leads, Seeking

LEMMA RunStill ==
  ASSUME NEW h, NEW n, NEW t \in Seq(Token), NEW b \in Token, Run(h, n, t)
  PROVE  Run(h, n, Append(t, b))
<1>1. \A i \in 0 .. n - 1 : Leads(h[i], h[i + 1], Append(t, b))
  <2>1. TAKE i \in 0 .. n - 1
  <2>2. Regular(h[i]) /\ Leads(h[i], h[i + 1], t)
    BY DEF Run
  <2>3. QED
    BY <2>2, LeadsStill
<1>2. QED
  BY <1>1 DEF Run

-----------------------------------------------------------------------------
(* One round of the loop at the configuration c, in either pass.           *)

Byte == Token \cup {"?", "nul"}
Node == [type : Kind, parent : Nat, length : Nat, integer : Int, chars : Nat,
         reserved : Nat, room : Nat, mem : Seq(Byte), items : Seq(Nat), names : Seq(Nat)]

Here(c) ==
  /\ Regular(c) /\ ptr = c.ptr /\ flags \ NumberFlags = c.flags /\ flags \subseteq Flag \cup NumberFlags
  /\ string_length \in Nat /\ (In(c, "string") => string_length = c.sl)
  /\ top = c.top /\ (top # 0 => nodes[top].type = c.type[top])
  /\ text \in Seq(Token) /\ ptr <= Len(text) + 1

\* No step is left for the token b.
Stuck(c, b) ==
  IF In(c, "string") THEN b = "end" \/ (In(c, "escaped") /\ b = "u?")
  ELSE IF Commented(c) THEN In(c, "block_comment") /\ b = "end"
  ELSE /\ b \notin Blank \cup {"//", "/*"}
       /\ IF In(c, "done") THEN b # "end"
          ELSE IF In(c, "seek_value")
               THEN IF b = "]" THEN TopKind(c) # "array"
                    ELSE IF In(c, "need_comma") THEN b # "comma"
                    ELSE IF In(c, "need_colon") THEN b # ":"
                    ELSE b \notin Digit \cup {"-", "[", "lbrace", "quote", "literal"}
          ELSE b # "rbrace" /\ IF In(c, "need_comma") THEN b # "comma" ELSE b # "quote"

Refused(c) == Refuse /\ (\A d : ~Leads(c, d, text')) /\ Stuck(c, text'[c.ptr])

Went(c) ==
  \E f : /\ Continue(f) /\ f \subseteq flags \cup {"escaped", "line_comment", "block_comment"}
         /\ \A d : Leads(c, d, text') <=> GoesOn(c, d, f \ NumberFlags)

Uncommented(c) ==
  /\ Reproc(flags \ {"line_comment"}) /\ UNCHANGED <<string_length, number, values, memory>>
  /\ \A d : Leads(c, d, text') <=> Uncomments(c, d)

Wrote(c) ==
  \E b \in Token : /\ StringAdd(b, flags \ {"escaped"}) /\ In(c, "string") /\ b = text'[c.ptr]
                   /\ \A d : Leads(c, d, text') <=> Writes(c, d, b)

NameBegan(c) ==
  /\ Round(flags \cup {"string"}) /\ string_length' = 0 /\ UNCHANGED <<number, values, memory>>
  /\ TopKind(c) = "object" /\ ~In(c, "seek_value") /\ ~In(c, "done")
  /\ \A d : Leads(c, d, text') <=> BeginsName(c, d)

NameEnded(c) ==
  /\ nodes' = [Terminated EXCEPT ![top] = Named(@)]
  /\ Round((flags \ {"string"}) \cup {"seek_value", "need_colon"})
  /\ UNCHANGED <<string_length, number, top, root, alloc, memory>>
  /\ TopKind(c) = "object" /\ In(c, "string")
  /\ \A d : Leads(c, d, text') <=> Names(c, d)

ClosedTop ==
  IF Top.type = "string" THEN [Terminated EXCEPT ![top].length = string_length] ELSE nodes

ValueClosed(c) ==
  \E f : /\ NextFlag(ClosedTop, top, f) /\ ptr' = ptr + 1
         /\ UNCHANGED <<string_length, number, root, alloc, memory>>
         /\ f \subseteq flags /\ "string" \notin f /\ "seek_value" \notin f
         /\ ~In(c, "done") /\ ~Commented(c) /\ TopKind(c) \in Container \cup {"string"}
         /\ TopKind(c) = "object" => ~In(c, "seek_value") /\ ~In(c, "string")
         /\ TopKind(c) = "string" => In(c, "string")
         /\ \A d : Leads(c, d, text') <=> Closes(c, d, f \ NumberFlags)

ValueOpened(c) ==
  \E b \in {"[", "lbrace", "quote"} :
    /\ Opens(b, OpenedKind(b)) /\ In(c, "seek_value") /\ ~In(c, "string") /\ ~In(c, "done")
    /\ \A d : Leads(c, d, text') <=> OpensValue(c, d, b)

LiteralRead(c) ==
  /\ Literal /\ In(c, "seek_value") /\ ~In(c, "string") /\ ~In(c, "done")
  /\ \A d : Leads(c, d, text') <=> AddsClosed(c, d, "literal") /\ d.ptr = c.ptr + 1

LEMMA FlagsHere ==
  ASSUME NEW c, Here(c)
  PROVE  /\ \A f \in Flag : Has(f) <=> In(c, f)
         /\ \A x \in Flag : /\ (flags \cup {x}) \ NumberFlags = c.flags \cup {x}
                            /\ (flags \ {x}) \ NumberFlags = c.flags \ {x}
         /\ InComment <=> Commented(c)
         /\ \A type \in Kind : Is(type) <=> TopKind(c) = type
         /\ flags \ NumberFlags = c.flags /\ ptr = c.ptr
<1>1. flags \ NumberFlags = c.flags /\ ptr = c.ptr
  BY DEF Here
<1>2. \A f \in Flag : f \notin NumberFlags
  BY DEF Flag, NumberFlags
<1>3. \A f \in Flag : Has(f) <=> In(c, f)
  BY <1>1, <1>2 DEF Has, In
<1>4. InComment <=> Commented(c)
  BY <1>3 DEF InComment, Commented, Flag
<1>5. \A type \in Kind : Is(type) <=> TopKind(c) = type
  BY DEF Here, Is, TopKind, Top, Kind, Container
<1>6. \A x \in Flag : /\ (flags \cup {x}) \ NumberFlags = c.flags \cup {x}
                      /\ (flags \ {x}) \ NumberFlags = c.flags \ {x}
  BY <1>1, <1>2
<1>7. QED
  BY <1>1, <1>3, <1>4, <1>5, <1>6

LEMMA ReadHere ==
  ASSUME NEW c, NEW b \in Token, Here(c), Read(b)
  PROVE  /\ text' \in Seq(Token) /\ c.ptr <= Len(text') /\ text'[c.ptr] = b /\ c.ptr \in 1 .. Len(text')
         /\ text' = text \/ (pass = 1 /\ text' = Append(text, b))
         /\ Len(text') \in Nat /\ Len(text) <= Len(text') /\ pc = "parse"
<1>1. ptr = c.ptr /\ c.ptr \in Nat /\ c.ptr >= 1 /\ text \in Seq(Token) /\ ptr <= Len(text) + 1
  BY DEF Here, Regular, Typed
<1>2. Len(text) \in Nat
  BY <1>1, LenProperties
<1>3. CASE ptr <= Len(text) /\ b = text[ptr] /\ text' = text
  BY <1>1, <1>2, <1>3 DEF Read
<1>4. CASE ptr > Len(text) /\ pass = 1 /\ text' = Append(text, b)
  <2>1. ptr = Len(text) + 1
    BY <1>1, <1>2, <1>4
  <2>2. /\ text' \in Seq(Token) /\ Len(text') = Len(text) + 1 /\ text'[Len(text) + 1] = b
    BY <1>1, <1>4, Appended
  <2>3. pc = "parse"
    BY DEF Read
  <2>4. QED
    BY <1>1, <1>2, <1>4, <2>1, <2>2, <2>3
<1>5. QED
  BY <1>3, <1>4 DEF Read

LEMMA StringChoice ==
  ASSUME NEW c, NEW b \in Token, Here(c), StringRound(b)
  PROVE  Refused(c) \/ Went(c) \/ Wrote(c)
<1>1. Read(b) /\ Has("string")
  BY DEF StringRound
<1>2. text'[c.ptr] = b /\ c.ptr <= Len(text')
  BY <1>1, ReadHere
<1>3. In(c, "string") /\ (Has("escaped") <=> In(c, "escaped"))
  BY <1>1, FlagsHere DEF Flag
<1>4. \A d : Leads(c, d, text') <=> InString(c, d, b)
  BY <1>2, <1>3 DEF Leads
<1>5. /\ (flags \cup {"escaped"}) \ NumberFlags = c.flags \cup {"escaped"}
      /\ flags \cup {"escaped"} \subseteq Flag \cup NumberFlags
  BY FlagsHere DEF Here, Flag
<1>6. CASE b = "end" /\ Refuse
  <2>1. \A d : ~Leads(c, d, text')
    BY <1>4, <1>6 DEF InString
  <2>2. Stuck(c, text'[c.ptr])
    BY <1>2, <1>3, <1>6 DEF Stuck
  <2>3. QED
    BY <1>6, <2>1, <2>2 DEF Refused
<1>7. CASE Has("escaped") /\ b = "u?" /\ Refuse
  <2>1. \A d : ~Leads(c, d, text')
    BY <1>3, <1>4, <1>7 DEF InString
  <2>2. Stuck(c, text'[c.ptr])
    BY <1>2, <1>3, <1>7 DEF Stuck
  <2>3. QED
    BY <1>7, <2>1, <2>2 DEF Refused
<1>8. CASE Has("escaped") /\ b \notin {"end", "u?"} /\ StringAdd(b, flags \ {"escaped"})
  <2>1. \A d : Leads(c, d, text') <=> Writes(c, d, b)
    BY <1>3, <1>4, <1>8 DEF InString
  <2>2. QED
    BY <1>2, <1>3, <1>8, <2>1 DEF Wrote
<1>9. CASE ~Has("escaped") /\ b = "backslash" /\ Continue(flags \cup {"escaped"})
  <2>1. \A d : Leads(c, d, text') <=> GoesOn(c, d, c.flags \cup {"escaped"})
    BY <1>3, <1>4, <1>9 DEF InString
  <2>2. QED
    BY <1>5, <1>9, <2>1 DEF Went
<1>10. CASE ~Has("escaped") /\ b \notin {"end", "backslash", "quote"} /\ StringAdd(b, flags)
  <2>1. flags \ {"escaped"} = flags
    BY <1>10 DEF Has
  <2>2. \A d : Leads(c, d, text') <=> Writes(c, d, b)
    BY <1>3, <1>4, <1>10 DEF InString
  <2>3. QED
    BY <1>2, <1>3, <1>10, <2>1, <2>2 DEF Wrote
<1>11. QED
  BY <1>6, <1>7, <1>8, <1>9, <1>10 DEF StringRound

LEMMA CommentChoice ==
  ASSUME NEW c, NEW b \in Token, Here(c), LineComment(b) \/ BlockComment(b) \/ CommentBegins(b)
  PROVE  Refused(c) \/ Went(c) \/ Uncommented(c)
<1>1. Read(b)
  BY DEF LineComment, BlockComment, CommentBegins
<1>2. text'[c.ptr] = b /\ c.ptr <= Len(text')
  BY <1>1, ReadHere
<1>3. /\ Has("line_comment") <=> In(c, "line_comment")
      /\ Has("block_comment") <=> In(c, "block_comment")
      /\ Has("string") <=> In(c, "string")
      /\ Has("seek_value") <=> In(c, "seek_value")
      /\ Has("done") <=> In(c, "done")
      /\ InComment <=> Commented(c)
      /\ Is("object") <=> TopKind(c) = "object"
      /\ flags \ NumberFlags = c.flags
  BY FlagsHere DEF Flag, Kind, Container
<1>4. /\ Commented(c) => ~In(c, "string")
      /\ ~(In(c, "line_comment") /\ In(c, "block_comment"))
  BY DEF Here, Regular, Modes
<1>5. \A x \in {"line_comment", "block_comment"} :
        /\ (flags \cup {x}) \ NumberFlags = c.flags \cup {x}
        /\ (flags \ {x}) \ NumberFlags = c.flags \ {x}
        /\ flags \cup {x} \subseteq Flag \cup NumberFlags
        /\ flags \ {x} \subseteq Flag \cup NumberFlags
        /\ flags \subseteq Flag \cup NumberFlags
  BY FlagsHere DEF Here, Flag
<1>6. CASE LineComment(b)
  <2>1. In(c, "line_comment") /\ ~In(c, "string")
    BY <1>3, <1>4, <1>6 DEF LineComment, Commented
  <2>2. \A d : Leads(c, d, text') <=> InLine(c, d, b)
    BY <1>2, <2>1 DEF Leads
  <2>3. CASE b \in {"newline", "end"}
    <3>1. \A d : Leads(c, d, text') <=> Uncomments(c, d)
      BY <2>2, <2>3 DEF InLine
    <3>2. QED
      BY <1>6, <2>3, <3>1 DEF LineComment, Uncommented
  <2>4. CASE b \notin {"newline", "end"}
    <3>1. \A d : Leads(c, d, text') <=> GoesOn(c, d, flags \ NumberFlags)
      BY <1>3, <2>2, <2>4 DEF InLine
    <3>2. Continue(flags)
      BY <1>6, <2>4 DEF LineComment
    <3>3. QED
      BY <1>5, <3>1, <3>2 DEF Went
  <2>5. QED
    BY <2>3, <2>4
<1>7. CASE BlockComment(b)
  <2>1. In(c, "block_comment") /\ ~In(c, "line_comment") /\ ~In(c, "string")
    BY <1>3, <1>4, <1>7 DEF BlockComment, Commented
  <2>2. \A d : Leads(c, d, text') <=> InBlock(c, d, b)
    BY <1>2, <2>1 DEF Leads
  <2>3. CASE b = "end"
    <3>1. \A d : ~Leads(c, d, text')
      BY <2>2, <2>3 DEF InBlock
    <3>2. Refuse
      BY <1>7, <2>3 DEF BlockComment
    <3>3. Stuck(c, text'[c.ptr])
      BY <1>2, <2>1, <2>3 DEF Stuck, Commented
    <3>4. QED
      BY <3>1, <3>2, <3>3 DEF Refused
  <2>4. CASE b = "*/"
    <3>1. \A d : Leads(c, d, text') <=> GoesOn(c, d, (flags \ {"block_comment"}) \ NumberFlags)
      BY <1>5, <2>2, <2>4 DEF InBlock
    <3>2. Continue(flags \ {"block_comment"})
      BY <1>7, <2>4 DEF BlockComment
    <3>3. QED
      BY <1>5, <3>1, <3>2 DEF Went
  <2>5. CASE b \notin {"*/", "end"}
    <3>1. \A d : Leads(c, d, text') <=> GoesOn(c, d, flags \ NumberFlags)
      BY <1>3, <2>2, <2>5 DEF InBlock
    <3>2. Continue(flags)
      BY <1>7, <2>5 DEF BlockComment
    <3>3. QED
      BY <1>5, <3>1, <3>2 DEF Went
  <2>6. QED
    BY <2>3, <2>4, <2>5
<1>8. CASE CommentBegins(b)
  <2>1. ~In(c, "string") /\ ~In(c, "line_comment") /\ ~In(c, "block_comment") /\ b \in {"//", "/*"}
    BY <1>3, <1>8 DEF CommentBegins, Commented
  <2>2. \A d : Leads(c, d, text') <=> IntoComment(c, d, b)
    BY <1>2, <2>1 DEF Leads
  <2>3. CASE ~Has("seek_value") /\ ~Has("done") /\ ~Is("object") /\ Refuse
    <3>1. ~In(c, "seek_value") /\ ~In(c, "done") /\ TopKind(c) # "object"
      BY <1>3, <2>3
    <3>2. FALSE
      BY <2>1, <3>1 DEF Here, Regular, Modes
    <3>3. QED
      BY <3>2
  <2>4. CASE /\ Has("seek_value") \/ Has("done") \/ Is("object")
             /\ Continue(flags \cup {IF b = "//" THEN "line_comment" ELSE "block_comment"})
    <3> DEFINE x == IF b = "//" THEN "line_comment" ELSE "block_comment"
    <3>1. x \in {"line_comment", "block_comment"}
      OBVIOUS
    <3>2. \A d : Leads(c, d, text') <=> GoesOn(c, d, c.flags \cup {x})
      BY <1>3, <2>2, <2>4 DEF IntoComment
    <3>3. Continue(flags \cup {x})
      BY <2>4
    <3> HIDE DEF x
    <3>4. QED
      BY <1>5, <3>1, <3>2, <3>3 DEF Went
  <2>5. QED
    BY <1>8, <2>3, <2>4 DEF CommentBegins
<1>9. QED
  BY <1>6, <1>7, <1>8

LEMMA OutsideHere ==
  ASSUME NEW c, NEW b \in Token, Here(c), Outside(b)
  PROVE  /\ Read(b) /\ text'[c.ptr] = b /\ c.ptr <= Len(text')
         /\ ~In(c, "string") /\ ~Commented(c) /\ b \notin {"//", "/*"}
         /\ In(c, "done") =>
              \A d : Leads(c, d, text') <=> b \in Blank /\ GoesOn(c, d, c.flags)
         /\ ~In(c, "done") /\ In(c, "seek_value") =>
              \A d : Leads(c, d, text') <=> Seeking(c, d, text', b)
         /\ ~In(c, "done") /\ ~In(c, "seek_value") =>
              \A d : Leads(c, d, text') <=> BetweenEntries(c, d, b)
<1>1. Read(b) /\ ~Has("string") /\ ~InComment /\ b \notin {"//", "/*"}
  BY DEF Outside
<1>2. text'[c.ptr] = b /\ c.ptr <= Len(text')
  BY <1>1, ReadHere
<1>3. ~In(c, "string") /\ ~Commented(c)
  BY <1>1, FlagsHere DEF Flag
<1>4. ~In(c, "line_comment") /\ ~In(c, "block_comment")
  BY <1>3 DEF Commented
<1>5. \A d : Leads(c, d, text') <=>
               IF In(c, "done") THEN b \in Blank /\ GoesOn(c, d, c.flags)
               ELSE IF In(c, "seek_value") THEN Seeking(c, d, text', b)
               ELSE BetweenEntries(c, d, b)
  BY <1>1, <1>2, <1>3, <1>4 DEF Leads
<1>6. QED
  BY <1>1, <1>2, <1>3, <1>5

LEMMA TrailingChoice ==
  ASSUME NEW c, NEW b \in Token, Here(c), Trailing(b)
  PROVE  Refused(c) \/ Went(c)
<1>1. Outside(b) /\ Has("done")
  BY DEF Trailing
<1>2. In(c, "done") /\ flags \ NumberFlags = c.flags /\ flags \subseteq Flag \cup NumberFlags
  BY <1>1, FlagsHere DEF Flag, Here
<1>3. \A d : Leads(c, d, text') <=> b \in Blank /\ GoesOn(c, d, c.flags)
  BY <1>1, <1>2, OutsideHere
<1>4. CASE b \in Blank
  BY <1>2, <1>3, <1>4 DEF Trailing, Went
<1>5. CASE b \notin Blank
  <2>1. text'[c.ptr] = b /\ ~In(c, "string") /\ ~Commented(c) /\ b \notin {"//", "/*"} /\ b # "end"
    BY <1>1, OutsideHere DEF Trailing
  <2>2. Stuck(c, text'[c.ptr])
    BY <1>2, <1>5, <2>1 DEF Stuck
  <2>3. QED
    BY <1>3, <1>5, <2>2 DEF Trailing, Refused
<1>6. QED
  BY <1>4, <1>5

LEMMA SeeksHere ==
  ASSUME NEW c, NEW b \in Token, Here(c), Seeks(b)
  PROVE  /\ Read(b) /\ In(c, "seek_value") /\ ~In(c, "done") /\ ~In(c, "string") /\ ~Commented(c)
         /\ Has("need_comma") <=> In(c, "need_comma")
         /\ Has("need_colon") <=> In(c, "need_colon")
         /\ Begins <=> Starts(c)
         /\ \A d : Leads(c, d, text') <=> Seeking(c, d, text', b)
         /\ text'[c.ptr] = b
<1>1. Outside(b) /\ Has("seek_value") /\ ~Has("done")
  BY DEF Seeks
<1>2. /\ In(c, "seek_value") /\ ~In(c, "done")
      /\ Has("need_comma") <=> In(c, "need_comma")
      /\ Has("need_colon") <=> In(c, "need_colon")
  BY <1>1, FlagsHere DEF Flag
<1>3. QED
  BY <1>1, <1>2, OutsideHere DEF Begins, Starts

LEMMA BetweenChoice ==
  ASSUME NEW c, NEW b \in Token, Here(c), BetweenValues(b) \/ NoValue(b)
  PROVE  Refused(c) \/ Went(c)
<1>1. Seeks(b)
  BY DEF BetweenValues, NoValue
<1>2. /\ In(c, "seek_value") /\ ~In(c, "done")
      /\ Has("need_comma") <=> In(c, "need_comma")
      /\ Has("need_colon") <=> In(c, "need_colon")
      /\ Begins <=> Starts(c)
      /\ \A d : Leads(c, d, text') <=> Seeking(c, d, text', b)
  BY <1>1, SeeksHere
<1>0. text'[c.ptr] = b /\ ~In(c, "string") /\ ~Commented(c) /\ b \notin {"//", "/*"}
  BY <1>1, SeeksHere DEF Seeks, Outside
<1>3. /\ flags \ NumberFlags = c.flags
      /\ (flags \ {"need_comma"}) \ NumberFlags = c.flags \ {"need_comma"}
      /\ (flags \ {"need_colon"}) \ NumberFlags = c.flags \ {"need_colon"}
      /\ Is("array") <=> TopKind(c) = "array"
  BY FlagsHere DEF Flag, Kind, Container
<1>4. flags \subseteq Flag \cup NumberFlags
  BY DEF Here
<1>5. CASE b \in Blank /\ Continue(flags)
  <2>1. \A d : Leads(c, d, text') <=> GoesOn(c, d, c.flags)
    BY <1>2, <1>5 DEF Seeking, Blank, Digit
  <2>2. QED
    BY <1>3, <1>4, <1>5, <2>1 DEF Went
<1>6. CASE b = "]" /\ ~Is("array") /\ Refuse
  <2>1. \A d : ~Leads(c, d, text')
    BY <1>2, <1>3, <1>6 DEF Seeking, Blank, Digit
  <2>2. Stuck(c, text'[c.ptr])
    BY <1>0, <1>2, <1>3, <1>6 DEF Stuck, Starts, NotValue, Blank, Digit
  <2>3. QED
    BY <1>6, <2>1, <2>2 DEF Refused
<1>7. CASE Has("need_comma") /\ b = "comma" /\ Continue(flags \ {"need_comma"})
  <2>1. \A d : Leads(c, d, text') <=> GoesOn(c, d, c.flags \ {"need_comma"})
    BY <1>2, <1>7 DEF Seeking, Blank, Digit, Starts
  <2>2. flags \ {"need_comma"} \subseteq Flag \cup NumberFlags
    BY <1>4
  <2>3. QED
    BY <1>3, <1>7, <2>1, <2>2 DEF Went
<1>8. CASE Has("need_comma") /\ b \notin Blank \cup {"]", "comma"} /\ Refuse
  <2>1. \A d : ~Leads(c, d, text')
    BY <1>2, <1>8 DEF Seeking, Starts
  <2>2. Stuck(c, text'[c.ptr])
    BY <1>0, <1>2, <1>3, <1>8 DEF Stuck, Starts, NotValue, Blank, Digit
  <2>3. QED
    BY <1>8, <2>1, <2>2 DEF Refused
<1>9. CASE Has("need_colon") /\ ~Has("need_comma") /\ b = ":" /\ Continue(flags \ {"need_colon"})
  <2>1. \A d : Leads(c, d, text') <=> GoesOn(c, d, c.flags \ {"need_colon"})
    BY <1>2, <1>9 DEF Seeking, Blank, Digit, Starts
  <2>2. flags \ {"need_colon"} \subseteq Flag \cup NumberFlags
    BY <1>4
  <2>3. QED
    BY <1>3, <1>9, <2>1, <2>2 DEF Went
<1>10. CASE Has("need_colon") /\ ~Has("need_comma") /\ b \notin Blank \cup {"]", ":"} /\ Refuse
  <2>1. \A d : ~Leads(c, d, text')
    BY <1>2, <1>10 DEF Seeking, Starts
  <2>2. Stuck(c, text'[c.ptr])
    BY <1>0, <1>2, <1>3, <1>10 DEF Stuck, Starts, NotValue, Blank, Digit
  <2>3. QED
    BY <1>10, <2>1, <2>2 DEF Refused
<1>11. CASE Begins /\ b \in NotValue /\ Refuse
  <2>1. \A d : ~Leads(c, d, text')
    BY <1>2, <1>11 DEF Seeking, Starts, NotValue
  <2>2. Stuck(c, text'[c.ptr])
    BY <1>0, <1>2, <1>3, <1>11 DEF Stuck, Starts, NotValue, Blank, Digit
  <2>3. QED
    BY <1>11, <2>1, <2>2 DEF Refused
<1>12. CASE BetweenValues(b)
  <2>1. \/ b \in Blank /\ Continue(flags)
        \/ b = "]" /\ ~Is("array") /\ Refuse
        \/ /\ Has("need_comma") /\ b \notin Blank \cup {"]"}
           /\ IF b = "comma" THEN Continue(flags \ {"need_comma"}) ELSE Refuse
        \/ /\ Has("need_colon") /\ ~Has("need_comma") /\ b \notin Blank \cup {"]"}
           /\ IF b = ":" THEN Continue(flags \ {"need_colon"}) ELSE Refuse
    BY <1>12 DEF BetweenValues
  <2>2. QED
    BY <1>5, <1>6, <1>7, <1>8, <1>9, <1>10, <2>1
<1>13. CASE NoValue(b)
  BY <1>11, <1>13 DEF NoValue
<1>14. QED
  BY <1>12, <1>13

LEMMA InObjectHere ==
  ASSUME NEW c, NEW b \in Token, Here(c), InObject(b)
  PROVE  /\ Read(b) /\ ~In(c, "seek_value") /\ ~In(c, "done") /\ ~In(c, "string") /\ ~Commented(c)
         /\ TopKind(c) = "object"
         /\ Has("need_comma") <=> In(c, "need_comma")
         /\ \A d : Leads(c, d, text') <=> BetweenEntries(c, d, b)
<1>1. Outside(b) /\ ~Has("seek_value") /\ ~Has("done") /\ Is("object")
  BY DEF InObject
<1>2. /\ ~In(c, "seek_value") /\ ~In(c, "done") /\ TopKind(c) = "object"
      /\ Has("need_comma") <=> In(c, "need_comma")
  BY <1>1, FlagsHere DEF Flag, Kind, Container
<1>3. QED
  BY <1>1, <1>2, OutsideHere

LEMMA EntryChoice ==
  ASSUME NEW c, NEW b \in Token, Here(c), Entry(b)
  PROVE  Refused(c) \/ Went(c) \/ NameBegan(c)
<1>1. InObject(b)
  BY DEF Entry
<1>2. /\ ~In(c, "seek_value") /\ ~In(c, "done") /\ ~In(c, "string") /\ TopKind(c) = "object"
      /\ Has("need_comma") <=> In(c, "need_comma")
      /\ \A d : Leads(c, d, text') <=> BetweenEntries(c, d, b)
  BY <1>1, InObjectHere
<1>0. text'[c.ptr] = b /\ ~Commented(c) /\ b \notin {"//", "/*"}
  BY <1>1, InObjectHere, OutsideHere DEF InObject
<1>3. /\ flags \ NumberFlags = c.flags
      /\ (flags \ {"need_comma"}) \ NumberFlags = c.flags \ {"need_comma"}
  BY FlagsHere DEF Flag
<1>4. flags \subseteq Flag \cup NumberFlags
  BY DEF Here
<1>5. CASE b \in Blank /\ Continue(flags)
  <2>1. \A d : Leads(c, d, text') <=> GoesOn(c, d, c.flags)
    BY <1>2, <1>5 DEF BetweenEntries, Blank
  <2>2. QED
    BY <1>3, <1>4, <1>5, <2>1 DEF Went
<1>6. CASE b = "quote" /\ Has("need_comma") /\ Refuse
  <2>1. \A d : ~Leads(c, d, text')
    BY <1>2, <1>6 DEF BetweenEntries, Blank
  <2>2. Stuck(c, text'[c.ptr])
    BY <1>0, <1>2, <1>6 DEF Stuck, Blank
  <2>3. QED
    BY <1>6, <2>1, <2>2 DEF Refused
<1>7. CASE /\ b = "quote" /\ ~Has("need_comma") /\ string_length' = 0
           /\ Round(flags \cup {"string"}) /\ UNCHANGED <<number, values, memory>>
  <2>1. \A d : Leads(c, d, text') <=> BeginsName(c, d)
    BY <1>2, <1>7 DEF BetweenEntries, Blank
  <2>2. QED
    BY <1>2, <1>7, <2>1 DEF NameBegan
<1>8. CASE b = "comma" /\ Has("need_comma") /\ Continue(flags \ {"need_comma"})
  <2>1. \A d : Leads(c, d, text') <=> GoesOn(c, d, c.flags \ {"need_comma"})
    BY <1>2, <1>8 DEF BetweenEntries, Blank
  <2>2. flags \ {"need_comma"} \subseteq Flag \cup NumberFlags
    BY <1>4
  <2>3. QED
    BY <1>3, <1>8, <2>1, <2>2 DEF Went
<1>9. CASE b = "comma" /\ ~Has("need_comma") /\ Refuse
  <2>1. \A d : ~Leads(c, d, text')
    BY <1>2, <1>9 DEF BetweenEntries, Blank
  <2>2. Stuck(c, text'[c.ptr])
    BY <1>0, <1>2, <1>9 DEF Stuck, Blank
  <2>3. QED
    BY <1>9, <2>1, <2>2 DEF Refused
<1>10. CASE b \notin Blank \cup {"quote", "comma", "rbrace"} /\ Refuse
  <2>1. \A d : ~Leads(c, d, text')
    BY <1>2, <1>10 DEF BetweenEntries
  <2>2. Stuck(c, text'[c.ptr])
    BY <1>0, <1>2, <1>10 DEF Stuck, Blank
  <2>3. QED
    BY <1>10, <2>1, <2>2 DEF Refused
<1>11. QED
  BY <1>5, <1>6, <1>7, <1>8, <1>9, <1>10 DEF Entry

LEMMA EndsChoice ==
  ASSUME NEW c, Here(c), ArrayEnds \/ ObjectEnds \/ StringEnds
  PROVE  ValueClosed(c)
<1>0. "]" \in Token /\ "rbrace" \in Token /\ "quote" \in Token
  BY DEF Token
<1>1. CASE ArrayEnds
  <2>1. Seeks("]") /\ Is("array")
    BY <1>1 DEF ArrayEnds
  <2>2. /\ TopKind(c) = "array" /\ Top.type = "array"
    BY <2>1, FlagsHere DEF Kind, Container, Is
  <2>3. /\ ~In(c, "done") /\ ~Commented(c)
        /\ \A d : Leads(c, d, text') <=> Seeking(c, d, text', "]")
    BY <1>0, <2>1, SeeksHere
  <2>4. (flags \ {"need_comma", "seek_value"}) \ NumberFlags = c.flags \ {"need_comma", "seek_value"}
    BY DEF Here
  <2>5. \A d : Leads(c, d, text') <=> Closes(c, d, c.flags \ {"need_comma", "seek_value"})
    BY <2>2, <2>3 DEF Seeking, Blank, Digit
  <2>6. ClosedTop = nodes
    BY <2>2 DEF ClosedTop
  <2>7. /\ flags \ {"need_comma", "seek_value"} \subseteq flags
        /\ "seek_value" \notin flags \ {"need_comma", "seek_value"}
        /\ "string" \notin flags \ {"need_comma", "seek_value"}
    BY <2>1 DEF Seeks, Outside, Has
  <2>8. NextFlag(ClosedTop, top, flags \ {"need_comma", "seek_value"}) /\ ptr' = ptr + 1
        /\ UNCHANGED <<string_length, number, root, alloc, memory>>
    BY <1>1, <2>6 DEF ArrayEnds
  <2>9. TopKind(c) \in Container \cup {"string"}
    BY <2>2 DEF Container
  <2>10. QED
    BY <2>2, <2>3, <2>4, <2>5, <2>7, <2>8, <2>9 DEF ValueClosed
<1>2. CASE ObjectEnds
  <2>1. InObject("rbrace")
    BY <1>2 DEF ObjectEnds
  <2>2. /\ TopKind(c) = "object" /\ ~In(c, "seek_value") /\ ~In(c, "done") /\ ~In(c, "string") /\ ~Commented(c)
        /\ \A d : Leads(c, d, text') <=> BetweenEntries(c, d, "rbrace")
    BY <1>0, <2>1, InObjectHere
  <2>3. Top.type = "object"
    BY <2>1 DEF InObject, Is
  <2>4. (flags \ {"need_comma"}) \ NumberFlags = c.flags \ {"need_comma"}
    BY DEF Here
  <2>5. \A d : Leads(c, d, text') <=> Closes(c, d, c.flags \ {"need_comma"})
    BY <2>2 DEF BetweenEntries, Blank
  <2>6. ClosedTop = nodes
    BY <2>3 DEF ClosedTop
  <2>7. /\ flags \ {"need_comma"} \subseteq flags
        /\ "seek_value" \notin flags \ {"need_comma"}
        /\ "string" \notin flags \ {"need_comma"}
    BY <2>1 DEF InObject, Outside, Has
  <2>8. NextFlag(ClosedTop, top, flags \ {"need_comma"}) /\ ptr' = ptr + 1
        /\ UNCHANGED <<string_length, number, root, alloc, memory>>
    BY <1>2, <2>6 DEF ObjectEnds
  <2>9. TopKind(c) \in Container \cup {"string"}
    BY <2>2 DEF Container
  <2>10. QED
    BY <2>2, <2>4, <2>5, <2>7, <2>8, <2>9 DEF ValueClosed
<1>3. CASE StringEnds
  <2>1. Read("quote") /\ Has("string") /\ ~Has("escaped") /\ Is("string")
    BY <1>3 DEF StringEnds
  <2>2. text'[c.ptr] = "quote" /\ c.ptr <= Len(text')
    BY <1>0, <2>1, ReadHere
  <2>3. In(c, "string") /\ ~In(c, "escaped") /\ TopKind(c) = "string" /\ Top.type = "string"
    BY <2>1, FlagsHere DEF Flag, Kind, Is
  <2>4. ~In(c, "done") /\ ~Commented(c) /\ ~In(c, "seek_value")
    BY <2>3 DEF Here, Regular, Modes
  <2>5. \A d : Leads(c, d, text') <=> InString(c, d, "quote")
    BY <2>2, <2>3 DEF Leads
  <2>6. \A d : Leads(c, d, text') <=> Closes(c, d, c.flags \ {"string"})
    BY <2>3, <2>5 DEF InString
  <2>7. (flags \ {"string"}) \ NumberFlags = c.flags \ {"string"}
    BY DEF Here
  <2>8. /\ flags \ {"string"} \subseteq flags
        /\ "string" \notin flags \ {"string"} /\ "seek_value" \notin flags \ {"string"}
    BY <2>4, FlagsHere DEF Has, Flag
  <2>9. NextFlag(ClosedTop, top, flags \ {"string"}) /\ ptr' = ptr + 1
        /\ UNCHANGED <<string_length, number, root, alloc, memory>>
    BY <1>3, <2>3 DEF StringEnds, ClosedTop
  <2>10. TopKind(c) \in Container \cup {"string"} /\ TopKind(c) # "object"
    BY <2>3
  <2>11. QED
    BY <2>3, <2>4, <2>6, <2>7, <2>8, <2>9, <2>10 DEF ValueClosed
<1>4. QED
  BY <1>1, <1>2, <1>3

LEMMA NameChoice ==
  ASSUME NEW c, Here(c), NameEnds
  PROVE  NameEnded(c)
<1>0. "quote" \in Token
  BY DEF Token
<1>1. Read("quote") /\ Has("string") /\ ~Has("escaped") /\ Is("object")
  BY DEF NameEnds
<1>2. text'[c.ptr] = "quote" /\ c.ptr <= Len(text')
  BY <1>0, <1>1, ReadHere
<1>3. In(c, "string") /\ ~In(c, "escaped") /\ TopKind(c) = "object"
  BY <1>1, FlagsHere DEF Flag, Kind, Container
<1>4. \A d : Leads(c, d, text') <=> InString(c, d, "quote")
  BY <1>2, <1>3 DEF Leads
<1>5. \A d : Leads(c, d, text') <=> Names(c, d)
  BY <1>3, <1>4 DEF InString
<1>6. QED
  BY <1>3, <1>5 DEF NameEnds, NameEnded

LEMMA OpensChoice ==
  ASSUME NEW c, NEW b \in {"[", "lbrace", "quote"}, Here(c), Opens(b, OpenedKind(b))
  PROVE  ValueOpened(c)
<1>1. Seeks(b) /\ Begins /\ b \in Token
  BY DEF Opens, Token
<1>2. /\ In(c, "seek_value") /\ ~In(c, "done") /\ ~In(c, "string") /\ Starts(c)
      /\ \A d : Leads(c, d, text') <=> Seeking(c, d, text', b)
  BY <1>1, SeeksHere
<1>3. \A d : Leads(c, d, text') <=> OpensValue(c, d, b)
  BY <1>2 DEF Seeking, Blank, Digit, Starts
<1>4. QED
  BY <1>2, <1>3 DEF ValueOpened

LEMMA LiteralChoice ==
  ASSUME NEW c, Here(c), Literal
  PROVE  LiteralRead(c)
<1>1. Seeks("literal") /\ Begins /\ "literal" \in Token
  BY DEF Literal, Token
<1>2. /\ In(c, "seek_value") /\ ~In(c, "done") /\ ~In(c, "string") /\ Starts(c)
      /\ \A d : Leads(c, d, text') <=> Seeking(c, d, text', "literal")
  BY <1>1, SeeksHere
<1>3. \A d : Leads(c, d, text') <=> AddsClosed(c, d, "literal") /\ d.ptr = c.ptr + 1
  BY <1>2 DEF Seeking, Blank, Digit, Starts
<1>4. QED
  BY <1>2, <1>3 DEF LiteralRead

-----------------------------------------------------------------------------
(* The values: what an operator of the parser changes in them.             *)

LEMMA EmptySequence == <<>> \in Seq(Nat) /\ <<>> \in Seq(Byte) /\ Len(<<>>) = 0
BY EmptySeq

LEMMA NewNodeFields ==
  ASSUME NEW type \in Kind, top \in Nat
  PROVE  /\ NewNode(type) \in Node /\ NewNode(type).type = type /\ NewNode(type).parent = top
         /\ NewNode(type).length = 0 /\ NewNode(type).chars = 0 /\ NewNode(type).reserved = 0
         /\ NewNode(type).items = <<>>
BY EmptySequence DEF NewNode, Node

LEMMA HoldingFields ==
  ASSUME NEW p \in Node, NEW v \in Nat
  PROVE  /\ Holding(p, v) \in Node /\ Holding(p, v).length = p.length + 1
         /\ Holding(p, v).items = IF pass = 2 THEN Append(p.items, v) ELSE p.items
         /\ Holding(p, v).type = p.type /\ Holding(p, v).parent = p.parent
         /\ Holding(p, v).chars = p.chars /\ Holding(p, v).reserved = p.reserved
         /\ Holding(p, v).room = p.room /\ Holding(p, v).mem = p.mem
<1>1. p.items \in Seq(Nat) /\ p.length \in Nat
  BY DEF Node
<1>2. Append(p.items, v) \in Seq(Nat)
  BY <1>1, AppendProperties
<1>3. (IF pass = 2 THEN Append(p.items, v) ELSE p.items) \in Seq(Nat)
  BY <1>1, <1>2
<1>4. p.length + 1 \in Nat
  BY <1>1
<1>5. QED
  BY <1>3, <1>4 DEF Holding, Node

LEMMA CompletedFields ==
  ASSUME NEW k \in Nat, NEW ns \in [1 .. k -> Node], NEW v \in 1 .. k, ns[v].parent \in 0 .. k
  PROVE  /\ Completed(ns, v) \in [1 .. k -> Node]
         /\ \A w \in 1 .. k :
              /\ Completed(ns, v)[w].type = ns[w].type /\ Completed(ns, v)[w].parent = ns[w].parent
              /\ Completed(ns, v)[w].chars = ns[w].chars
              /\ Completed(ns, v)[w].reserved = ns[w].reserved
              /\ Completed(ns, v)[w].room = ns[w].room /\ Completed(ns, v)[w].mem = ns[w].mem
              /\ Completed(ns, v)[w].length = (IF w = ns[v].parent THEN ns[w].length + 1 ELSE ns[w].length)
              /\ Completed(ns, v)[w].items =
                   (IF w = ns[v].parent /\ pass = 2 THEN Append(ns[w].items, v) ELSE ns[w].items)
<1> DEFINE p == ns[v].parent
<1>1. CASE p = 0
  <2>1. Completed(ns, v) = ns
    BY <1>1 DEF Completed
  <2>2. QED
    BY <1>1, <2>1
<1>2. CASE p # 0
  <2>1. p \in 1 .. k
    BY <1>2
  <2>2. Completed(ns, v) = [ns EXCEPT ![p] = Holding(ns[p], v)]
    BY <1>2 DEF Completed
  <2>3. ns[p] \in Node /\ v \in Nat
    BY <2>1
  <2> HIDE DEF p
  <2>4. Holding(ns[p], v) \in Node
    BY <2>3, HoldingFields
  <2>5. Completed(ns, v) \in [1 .. k -> Node]
    BY <2>2, <2>4
  <2>6. ASSUME NEW w \in 1 .. k, w # p PROVE Completed(ns, v)[w] = ns[w]
    BY <2>2, <2>6
  <2>7. Completed(ns, v)[p] = Holding(ns[p], v)
    BY <2>1, <2>2
  <2>8. ASSUME NEW w \in 1 .. k
        PROVE  /\ Completed(ns, v)[w].type = ns[w].type /\ Completed(ns, v)[w].parent = ns[w].parent
               /\ Completed(ns, v)[w].chars = ns[w].chars
               /\ Completed(ns, v)[w].reserved = ns[w].reserved
               /\ Completed(ns, v)[w].room = ns[w].room /\ Completed(ns, v)[w].mem = ns[w].mem
               /\ Completed(ns, v)[w].length = (IF w = p THEN ns[w].length + 1 ELSE ns[w].length)
               /\ Completed(ns, v)[w].items =
                    (IF w = p /\ pass = 2 THEN Append(ns[w].items, v) ELSE ns[w].items)
    <3>1. CASE w = p
      <4> DEFINE z == Holding(ns[p], v)
      <4>1. /\ z.length = ns[p].length + 1
            /\ z.items = IF pass = 2 THEN Append(ns[p].items, v) ELSE ns[p].items
            /\ z.type = ns[p].type /\ z.parent = ns[p].parent
            /\ z.chars = ns[p].chars /\ z.reserved = ns[p].reserved
            /\ z.room = ns[p].room /\ z.mem = ns[p].mem
        BY <2>3, HoldingFields
      <4>2. Completed(ns, v)[w] = z
        BY <2>7, <3>1
      <4> HIDE DEF z
      <4>3. QED
        BY <3>1, <4>1, <4>2
    <3>2. CASE w # p
      BY <2>6, <3>2
    <3>3. QED
      BY <3>1, <3>2
  <2>9. QED
    BY <2>5, <2>8 DEF p
<1>3. QED
  BY <1>1, <1>2

LEMMA WrittenFields ==
  ASSUME NEW k \in Nat, nodes \in [1 .. k -> Node], top \in 1 .. k, NEW b \in Byte, NEW j \in Nat
  PROVE  /\ Written(b, j) \in [1 .. k -> Node]
         /\ \A w \in 1 .. k :
              /\ Written(b, j)[w].type = nodes[w].type /\ Written(b, j)[w].parent = nodes[w].parent
              /\ Written(b, j)[w].length = nodes[w].length /\ Written(b, j)[w].chars = nodes[w].chars
              /\ Written(b, j)[w].reserved = nodes[w].reserved
              /\ Written(b, j)[w].room = nodes[w].room /\ Written(b, j)[w].items = nodes[w].items
              /\ Len(Written(b, j)[w].mem) = Len(nodes[w].mem)
<1> DEFINE m == nodes[top].mem
           new == [i \in DOMAIN m |-> IF i \in StringAt + string_length + 1 .. StringAt + string_length + j
                                      THEN b ELSE m[i]]
<1>1. m \in Seq(Byte) /\ nodes[top] \in Node
  BY DEF Node
<1>2. DOMAIN m = 1 .. Len(m) /\ Len(m) \in Nat /\ \A i \in 1 .. Len(m) : m[i] \in Byte
  BY <1>1, LenProperties, ElementOfSeq
<1>3. new \in [1 .. Len(m) -> Byte]
  BY <1>2
<1>4. new \in Seq(Byte) /\ Len(new) = Len(m)
  <2> HIDE DEF new
  <2>1. new \in Seq(Byte)
    BY <1>2, <1>3
  <2>2. DOMAIN new = 1 .. Len(new) /\ Len(new) \in Nat
    BY <2>1, LenProperties
  <2>3. DOMAIN new = 1 .. Len(m)
    BY <1>3
  <2>4. QED
    BY <1>2, <2>1, <2>2, <2>3
<1>5. Written(b, j) = [nodes EXCEPT ![top] = [nodes[top] EXCEPT !.mem = new]]
  BY DEF Written
<1> HIDE DEF new, m
<1> DEFINE r == [nodes[top] EXCEPT !.mem = new]
<1>6. /\ r \in Node /\ r.type = nodes[top].type /\ r.parent = nodes[top].parent
      /\ r.length = nodes[top].length /\ r.chars = nodes[top].chars /\ r.reserved = nodes[top].reserved
      /\ r.room = nodes[top].room /\ r.items = nodes[top].items /\ r.mem = new
  BY <1>1, <1>4 DEF Node
<1> HIDE DEF r
<1>7. Written(b, j) = [nodes EXCEPT ![top] = r]
  BY <1>5 DEF r
<1>8. Written(b, j) \in [1 .. k -> Node]
  BY <1>6, <1>7
<1>9. ASSUME NEW w \in 1 .. k, w # top PROVE Written(b, j)[w] = nodes[w]
  BY <1>7, <1>9
<1>10. Written(b, j)[top] = r
  BY <1>7
<1>11. ASSUME NEW w \in 1 .. k
       PROVE  /\ Written(b, j)[w].type = nodes[w].type /\ Written(b, j)[w].parent = nodes[w].parent
              /\ Written(b, j)[w].length = nodes[w].length /\ Written(b, j)[w].chars = nodes[w].chars
              /\ Written(b, j)[w].reserved = nodes[w].reserved
              /\ Written(b, j)[w].room = nodes[w].room /\ Written(b, j)[w].items = nodes[w].items
              /\ Len(Written(b, j)[w].mem) = Len(nodes[w].mem)
  <2>1. CASE w = top
    BY <1>4, <1>6, <1>10, <2>1 DEF m
  <2>2. CASE w # top
    BY <1>9, <2>2
  <2>3. QED
    BY <2>1, <2>2
<1>12. QED
  BY <1>8, <1>11

LEMMA NamedFields ==
  ASSUME NEW n \in Node, string_length \in Nat
  PROVE  /\ Named(n) \in Node
         /\ Named(n).type = n.type /\ Named(n).parent = n.parent /\ Named(n).length = n.length
         /\ Named(n).room = n.room /\ Named(n).mem = n.mem /\ Named(n).items = n.items
         /\ Named(n).chars = IF pass = 1 THEN n.chars + string_length + 1 ELSE n.chars
         /\ Named(n).reserved = IF pass = 1 THEN n.reserved ELSE n.reserved + string_length + 1
<1>1. CASE pass = 1
  <2>1. Named(n) = [n EXCEPT !.chars = n.chars + string_length + 1]
    BY <1>1 DEF Named
  <2>2. n.chars + string_length + 1 \in Nat
    BY DEF Node
  <2>3. QED
    BY <1>1, <2>1, <2>2 DEF Node
<1>2. CASE pass # 1
  <2> DEFINE x == n.reserved + string_length + 1
             y == Append(n.names, n.reserved)
  <2>1. Named(n) = [n EXCEPT !.names = y, !.reserved = x]
    BY <1>2 DEF Named
  <2>2. x \in Nat /\ n.names \in Seq(Nat) /\ n.reserved \in Nat
    BY DEF Node
  <2>3. y \in Seq(Nat)
    BY <2>2, AppendProperties
  <2> HIDE DEF x, y
  <2>4. QED
    BY <1>2, <2>1, <2>2, <2>3 DEF Node, x
<1>3. QED
  BY <1>1, <1>2

LEMMA AppendedNode ==
  ASSUME NEW k \in Nat, NEW f \in [1 .. k -> Node], NEW r \in Node
  PROVE  /\ Len(f) = k /\ Append(f, r) \in [1 .. k + 1 -> Node]
         /\ \A w \in 1 .. k : Append(f, r)[w] = f[w]
         /\ Append(f, r)[k + 1] = r
<1>1. f \in Seq(Node)
  OBVIOUS
<1>2. DOMAIN f = 1 .. k /\ DOMAIN f = 1 .. Len(f) /\ Len(f) \in Nat
  BY <1>1, LenProperties
<1>3. Len(f) = k
  BY <1>2
<1>4. /\ Append(f, r) \in Seq(Node) /\ Len(Append(f, r)) = k + 1
      /\ \A w \in 1 .. k : Append(f, r)[w] = f[w]
      /\ Append(f, r)[k + 1] = r
  BY <1>1, <1>3, AppendProperties
<1>5. Append(f, r) \in [1 .. k + 1 -> Node]
  BY <1>4, LenProperties
<1>6. QED
  BY <1>3, <1>4, <1>5

LEMMA NewFirstFields ==
  ASSUME NEW k \in Nat, nodes \in [1 .. k -> Node], alloc = k, pass = 1, top \in Nat, NEW type \in Kind
  PROVE  /\ New = k + 1 /\ WithNew(type) \in [1 .. k + 1 -> Node]
         /\ \A w \in 1 .. k :
              /\ WithNew(type)[w].type = nodes[w].type /\ WithNew(type)[w].parent = nodes[w].parent
              /\ WithNew(type)[w].length = nodes[w].length /\ WithNew(type)[w].chars = nodes[w].chars
              /\ WithNew(type)[w].items = nodes[w].items
              /\ WithNew(type)[w].reserved = (IF w = k THEN k + 1 ELSE nodes[w].reserved)
         /\ WithNew(type)[k + 1] = NewNode(type)
<1>1. NewNode(type) \in Node
  BY NewNodeFields
<1>2. Len(nodes) = k /\ New = k + 1
  BY <1>1, AppendedNode DEF New
<1> DEFINE f == IF alloc = 0 THEN nodes ELSE [nodes EXCEPT ![alloc].reserved = k + 1]
<1>3. /\ f \in [1 .. k -> Node]
      /\ \A w \in 1 .. k :
           /\ f[w].type = nodes[w].type /\ f[w].parent = nodes[w].parent
           /\ f[w].length = nodes[w].length /\ f[w].chars = nodes[w].chars
           /\ f[w].items = nodes[w].items
           /\ f[w].reserved = (IF w = k THEN k + 1 ELSE nodes[w].reserved)
  <2>1. CASE k = 0
    BY <2>1
  <2>2. CASE k # 0
    <3> DEFINE r == [nodes[k] EXCEPT !.reserved = k + 1]
    <3>1. nodes[k] \in Node /\ k + 1 \in Nat /\ k \in 1 .. k
      BY <2>2
    <3>2. /\ r \in Node /\ r.type = nodes[k].type /\ r.parent = nodes[k].parent
          /\ r.length = nodes[k].length /\ r.chars = nodes[k].chars
          /\ r.items = nodes[k].items /\ r.reserved = k + 1
      BY <3>1 DEF Node
    <3>3. f = [nodes EXCEPT ![k] = r]
      BY <2>2
    <3> HIDE DEF f, r
    <3>4. f[k] = r /\ f \in [1 .. k -> Node] /\ \A w \in 1 .. k : w # k => f[w] = nodes[w]
      BY <3>1, <3>2, <3>3
    <3>5. QED
      BY <3>2, <3>4
  <2>3. QED
    BY <2>1, <2>2
<1>4. WithNew(type) = Append(f, NewNode(type))
  BY <1>2 DEF WithNew
<1> HIDE DEF f
<1>5. /\ Append(f, NewNode(type)) \in [1 .. k + 1 -> Node]
      /\ \A w \in 1 .. k : Append(f, NewNode(type))[w] = f[w]
      /\ Append(f, NewNode(type))[k + 1] = NewNode(type)
  BY <1>1, <1>3, AppendedNode
<1>6. QED
  BY <1>2, <1>3, <1>4, <1>5

-----------------------------------------------------------------------------
(* The first pass.                                                         *)

\* The values in the order of their allocation, k of them.
Chain(k) ==
  /\ k \in Nat /\ nodes \in [1 .. k -> Node]
  /\ live = 1 .. k /\ areas = {} /\ alloc = k /\ root = (IF k = 0 THEN 0 ELSE 1)
  /\ \A v \in 1 .. k : nodes[v].reserved = (IF v < k THEN v + 1 ELSE 0) /\ nodes[v].items = <<>>

SameAs(c) ==
  \A v \in 1 .. c.n : /\ nodes[v].type = c.type[v] /\ nodes[v].parent = c.parent[v]
                      /\ nodes[v].length = c.length[v] /\ nodes[v].chars = c.chars[v]

First(c) == pc = "parse" /\ pass = 1 /\ Here(c) /\ Chain(c.n) /\ SameAs(c)

Reading(c) ==
  /\ text' \in Seq(Token) /\ c.ptr \in 1 .. Len(text') /\ Len(text') \in Nat
  /\ text' = text \/ (pass = 1 /\ \E b \in Token : text' = Append(text, b))

LEMMA SomeShape ==
  ASSUME NEW c, NEW f, NEW b, NEW type
  PROVE  /\ \E d : GoesOn(c, d, f)
         /\ \E d : Uncomments(c, d)
         /\ \E d : Writes(c, d, b)
         /\ \E d : BeginsName(c, d)
         /\ \E d : Names(c, d)
         /\ \E d : Closes(c, d, f)
         /\ \E d : OpensValue(c, d, b)
         /\ \E d : AddsClosed(c, d, type) /\ d.ptr = f
<1> DEFINE With(p, fl, s, to, n, ty, pa, le, ch, cl) ==
      [ptr |-> p, flags |-> fl, sl |-> s, top |-> to, n |-> n, type |-> ty, parent |-> pa,
       length |-> le, chars |-> ch, closed |-> cl]
    Kept(p, fl, s) == With(p, fl, s, c.top, c.n, c.type, c.parent, c.length, c.chars, c.closed)
    p == c.parent[c.top]
<1>1. GoesOn(c, Kept(c.ptr + 1, f, c.sl), f)
  BY DEF GoesOn, KeepsValues
<1>2. Uncomments(c, Kept(c.ptr, c.flags \ {"line_comment"}, c.sl))
  BY DEF Uncomments, KeepsValues
<1>3. Writes(c, Kept(c.ptr + 1, c.flags \ {"escaped"}, c.sl + Width(b)), b)
  BY DEF Writes, KeepsValues
<1>4. BeginsName(c, Kept(c.ptr + 1, c.flags \cup {"string"}, 0))
  BY DEF BeginsName, KeepsValues
<1>5. Names(c, With(c.ptr + 1, (c.flags \ {"string"}) \cup {"seek_value", "need_colon"}, 0, c.top, c.n,
                    c.type, c.parent, c.length,
                    [w \in 1 .. c.n |-> IF w = c.top THEN c.chars[w] + c.sl + 1 ELSE c.chars[w]], c.closed))
  BY DEF Names
<1>6. Closes(c, With(c.ptr + 1, Behind(c, p, f), 0, IF p = 0 THEN c.top ELSE p, c.n, c.type, c.parent,
                     [w \in 1 .. c.n |-> IF w = p THEN c.length[w] + 1
                                         ELSE IF w = c.top /\ c.type[w] = "string" THEN c.sl
                                         ELSE c.length[w]],
                     c.chars, c.closed \cup {c.top}), f)
  BY DEF Closes
<1> DEFINE Types(t) == [w \in 1 .. c.n + 1 |-> IF w = c.n + 1 THEN t ELSE c.type[w]]
           Parents == [w \in 1 .. c.n + 1 |-> IF w = c.n + 1 THEN c.top ELSE c.parent[w]]
           Chars == [w \in 1 .. c.n + 1 |-> IF w = c.n + 1 THEN 0 ELSE c.chars[w]]
<1>7. OpensValue(c, With(c.ptr + 1, (c.flags \ {"seek_value"}) \cup OpenedFlags(b), 0, c.n + 1, c.n + 1,
                         Types(OpenedKind(b)), Parents,
                         [w \in 1 .. c.n + 1 |-> IF w = c.n + 1 THEN 0 ELSE c.length[w]],
                         Chars, c.closed), b)
  BY DEF OpensValue, AddsValue
<1> DEFINE new == With(f, Behind(c, c.top, c.flags \ {"seek_value"}), 0,
                         IF c.top = 0 THEN c.n + 1 ELSE c.top, c.n + 1, Types(type), Parents,
                         [w \in 1 .. c.n + 1 |->
                            IF w = c.n + 1 THEN 0 ELSE IF w = c.top THEN c.length[w] + 1 ELSE c.length[w]],
                         Chars, c.closed \cup {c.n + 1})
<1>8. AddsClosed(c, new, type) /\ new.ptr = f
  BY DEF AddsClosed, AddsValue
<1> HIDE DEF With, new, Types, Parents, Chars
<1>9. QED
  BY <1>1, <1>2, <1>3, <1>4, <1>5, <1>6, <1>7, <1>8

LEMMA ChainStays ==
  ASSUME NEW k, Chain(k), UNCHANGED <<nodes, live, areas, alloc, root>>
  PROVE  Chain(k)'
BY DEF Chain

\* A step that leaves the values as they are.
LEMMA KeepsFirst ==
  ASSUME NEW c, NEW d, First(c), Reading(c), Leads(c, d, text'), KeepsValues(c, d),
         ptr' = d.ptr, d.ptr \in {c.ptr, c.ptr + 1}, flags' \ NumberFlags = d.flags,
         flags' \subseteq Flag \cup NumberFlags,
         string_length' \in Nat, In(d, "string") => string_length' = d.sl,
         UNCHANGED <<values, memory, pass, pc>>
  PROVE  First(d)'
<1>1. Here(c) /\ Regular(c) /\ pass = 1 /\ pc = "parse" /\ Chain(c.n) /\ SameAs(c)
  BY DEF First, Here
<1>2. text' \in Seq(Token) /\ c.ptr <= Len(text') /\ Len(text') \in Nat /\ c.ptr \in Nat
  BY DEF Reading
<1>3. Regular(d)
  BY <1>1, <1>2, StepNext
<1>4. UNCHANGED <<nodes, top, root, alloc, live, areas>>
  BY DEF values, memory
<1>5. d.top = c.top /\ d.n = c.n /\ d.type = c.type /\ d.parent = c.parent
      /\ d.length = c.length /\ d.chars = c.chars
  BY DEF KeepsValues
<1>6. Here(d)'
  <2>1. ptr' <= Len(text') + 1
    BY <1>2
  <2>2. top' = d.top /\ (top' # 0 => nodes'[top'].type = d.type[top'])
    BY <1>1, <1>4, <1>5 DEF Here
  <2>3. QED
    BY <1>2, <1>3, <2>1, <2>2 DEF Here
<1>7. Chain(d.n)'
  BY <1>1, <1>4, <1>5 DEF Chain
<1>8. SameAs(d)'
  BY <1>1, <1>4, <1>5 DEF SameAs
<1>9. QED
  BY <1>1, <1>6, <1>7, <1>8 DEF First

LEMMA WentFlags ==
  ASSUME NEW c, NEW f, Here(c), f \subseteq flags \cup {"escaped", "line_comment", "block_comment"}
  PROVE  f \subseteq Flag \cup NumberFlags /\ ("string" \in f \ NumberFlags => In(c, "string"))
BY DEF Here, Flag, NumberFlags, In

LEMMA FirstWent ==
  ASSUME NEW c, First(c), Reading(c), Went(c)
  PROVE  \E d : Leads(c, d, text') /\ First(d)'
<1>1. PICK f : /\ Continue(f) /\ f \subseteq flags \cup {"escaped", "line_comment", "block_comment"}
               /\ \A d : Leads(c, d, text') <=> GoesOn(c, d, f \ NumberFlags)
  BY DEF Went
<1>2. PICK d : GoesOn(c, d, f \ NumberFlags)
  BY SomeShape
<1>3. Leads(c, d, text') /\ Here(c)
  BY <1>1, <1>2 DEF First
<1>4. KeepsValues(c, d) /\ d.ptr = c.ptr + 1 /\ d.flags = f \ NumberFlags /\ d.sl = c.sl
  BY <1>2 DEF GoesOn
<1>5. /\ ptr' = ptr + 1 /\ flags' = f /\ string_length' = string_length
      /\ UNCHANGED <<values, memory, pass, pc>>
  BY <1>1 DEF Continue, Round
<1>6. /\ f \subseteq Flag \cup NumberFlags /\ (In(d, "string") => In(c, "string"))
      /\ ptr = c.ptr /\ string_length \in Nat /\ (In(c, "string") => string_length = c.sl)
  BY <1>1, <1>3, <1>4, WentFlags DEF Here, In
<1>7. First(d)'
  BY <1>3, <1>4, <1>5, <1>6, KeepsFirst
<1>8. QED
  BY <1>3, <1>7

LEMMA FirstUncommented ==
  ASSUME NEW c, First(c), Reading(c), Uncommented(c)
  PROVE  \E d : Leads(c, d, text') /\ First(d)'
<1>1. PICK d : Uncomments(c, d)
  BY SomeShape
<1>2. Leads(c, d, text') /\ Here(c)
  BY <1>1 DEF First, Uncommented
<1>3. KeepsValues(c, d) /\ d.ptr = c.ptr /\ d.flags = c.flags \ {"line_comment"} /\ d.sl = c.sl
  BY <1>1 DEF Uncomments
<1>4. /\ ptr' = ptr /\ flags' = flags \ {"line_comment"} /\ string_length' = string_length
      /\ UNCHANGED <<values, memory, pass, pc>>
  BY DEF Uncommented, Reproc
<1>5. /\ ptr = c.ptr /\ string_length \in Nat /\ (In(c, "string") => string_length = c.sl)
      /\ flags \subseteq Flag \cup NumberFlags /\ flags \ NumberFlags = c.flags
  BY <1>2 DEF Here
<1>6. /\ In(d, "string") => string_length' = d.sl
      /\ flags' \ NumberFlags = d.flags /\ flags' \subseteq Flag \cup NumberFlags
  BY <1>3, <1>4, <1>5 DEF In
<1>7. First(d)'
  BY <1>2, <1>3, <1>4, <1>5, <1>6, KeepsFirst
<1>8. QED
  BY <1>2, <1>7

LEMMA FirstWrote ==
  ASSUME NEW c, First(c), Reading(c), Wrote(c)
  PROVE  \E d : Leads(c, d, text') /\ First(d)'
<1>1. PICK b \in Token : /\ StringAdd(b, flags \ {"escaped"}) /\ In(c, "string")
                         /\ \A d : Leads(c, d, text') <=> Writes(c, d, b)
  BY DEF Wrote
<1>2. PICK d : Writes(c, d, b)
  BY SomeShape
<1>3. Leads(c, d, text') /\ Here(c) /\ pass = 1
  BY <1>1, <1>2 DEF First
<1>4. KeepsValues(c, d) /\ d.ptr = c.ptr + 1 /\ d.flags = c.flags \ {"escaped"} /\ d.sl = c.sl + Width(b)
  BY <1>2 DEF Writes
<1>5. /\ ptr' = ptr + 1 /\ flags' = flags \ {"escaped"} /\ string_length' = string_length + Width(b)
      /\ UNCHANGED <<values, memory, pass, pc>>
  BY <1>1, <1>3 DEF StringAdd, StringAdds, Round, values
<1>6. /\ ptr = c.ptr /\ string_length \in Nat /\ string_length = c.sl
      /\ flags \subseteq Flag \cup NumberFlags /\ flags \ NumberFlags = c.flags
  BY <1>1, <1>3 DEF Here
<1>7. Width(b) \in Nat
  BY WidthTyped
<1>8. /\ string_length' \in Nat /\ string_length' = d.sl
      /\ flags' \ NumberFlags = d.flags /\ flags' \subseteq Flag \cup NumberFlags
  BY <1>4, <1>5, <1>6, <1>7
<1>9. First(d)'
  BY <1>3, <1>4, <1>5, <1>6, <1>8, KeepsFirst
<1>10. QED
  BY <1>3, <1>9

LEMMA FirstNameBegan ==
  ASSUME NEW c, First(c), Reading(c), NameBegan(c)
  PROVE  \E d : Leads(c, d, text') /\ First(d)'
<1>1. PICK d : BeginsName(c, d)
  BY SomeShape
<1>2. Leads(c, d, text') /\ Here(c)
  BY <1>1 DEF First, NameBegan
<1>3. KeepsValues(c, d) /\ d.ptr = c.ptr + 1 /\ d.flags = c.flags \cup {"string"} /\ d.sl = 0
  BY <1>1 DEF BeginsName
<1>4. /\ ptr' = ptr + 1 /\ flags' = flags \cup {"string"} /\ string_length' = 0
      /\ UNCHANGED <<values, memory, pass, pc>>
  BY DEF NameBegan, Round
<1>5. /\ ptr = c.ptr /\ flags \subseteq Flag \cup NumberFlags /\ flags \ NumberFlags = c.flags
  BY <1>2 DEF Here
<1>6. /\ string_length' \in Nat /\ string_length' = d.sl
      /\ flags' \ NumberFlags = d.flags /\ flags' \subseteq Flag \cup NumberFlags
  BY <1>3, <1>4, <1>5 DEF Flag, NumberFlags
<1>7. First(d)'
  BY <1>2, <1>3, <1>4, <1>5, <1>6, KeepsFirst
<1>8. QED
  BY <1>2, <1>7

LEMMA ClosedTopFields ==
  ASSUME NEW k \in Nat, nodes \in [1 .. k -> Node], top \in 1 .. k, string_length \in Nat
  PROVE  /\ ClosedTop \in [1 .. k -> Node]
         /\ \A w \in 1 .. k :
              /\ ClosedTop[w].type = nodes[w].type /\ ClosedTop[w].parent = nodes[w].parent
              /\ ClosedTop[w].chars = nodes[w].chars /\ ClosedTop[w].reserved = nodes[w].reserved
              /\ ClosedTop[w].room = nodes[w].room /\ ClosedTop[w].items = nodes[w].items
              /\ Len(ClosedTop[w].mem) = Len(nodes[w].mem)
              /\ ClosedTop[w].length = (IF w = top /\ nodes[w].type = "string" THEN string_length
                                        ELSE nodes[w].length)
<1>1. CASE Top.type # "string"
  BY <1>1 DEF ClosedTop, Top
<1>2. CASE Top.type = "string"
  <2>1. "nul" \in Byte /\ 1 \in Nat
    BY DEF Byte
  <2>2. /\ Terminated \in [1 .. k -> Node]
        /\ \A w \in 1 .. k :
             /\ Terminated[w].type = nodes[w].type /\ Terminated[w].parent = nodes[w].parent
             /\ Terminated[w].length = nodes[w].length /\ Terminated[w].chars = nodes[w].chars
             /\ Terminated[w].reserved = nodes[w].reserved
             /\ Terminated[w].room = nodes[w].room /\ Terminated[w].items = nodes[w].items
             /\ Len(Terminated[w].mem) = Len(nodes[w].mem)
    <3>1. CASE pass = 2
      <4>1. Terminated = Written("nul", 1)
        BY <3>1 DEF Terminated
      <4>2. QED
        BY <2>1, <4>1, WrittenFields
    <3>2. CASE pass # 2
      <4>1. Terminated = nodes
        BY <3>2 DEF Terminated
      <4>2. QED
        BY <4>1
    <3>3. QED
      BY <3>1, <3>2
  <2> DEFINE r == [Terminated[top] EXCEPT !.length = string_length]
  <2>3. Terminated[top] \in Node
    BY <2>2
  <2>4. /\ r \in Node /\ r.type = Terminated[top].type /\ r.parent = Terminated[top].parent
        /\ r.chars = Terminated[top].chars /\ r.reserved = Terminated[top].reserved
        /\ r.room = Terminated[top].room /\ r.items = Terminated[top].items
        /\ r.mem = Terminated[top].mem /\ r.length = string_length
    BY <2>3 DEF Node
  <2>5. ClosedTop = [Terminated EXCEPT ![top] = r]
    BY <1>2 DEF ClosedTop
  <2> HIDE DEF r
  <2>6. ClosedTop \in [1 .. k -> Node] /\ ClosedTop[top] = r
        /\ \A w \in 1 .. k : w # top => ClosedTop[w] = Terminated[w]
    BY <2>2, <2>4, <2>5
  <2>7. ASSUME NEW w \in 1 .. k
        PROVE  /\ ClosedTop[w].type = nodes[w].type /\ ClosedTop[w].parent = nodes[w].parent
               /\ ClosedTop[w].chars = nodes[w].chars /\ ClosedTop[w].reserved = nodes[w].reserved
               /\ ClosedTop[w].room = nodes[w].room /\ ClosedTop[w].items = nodes[w].items
               /\ Len(ClosedTop[w].mem) = Len(nodes[w].mem)
               /\ ClosedTop[w].length = (IF w = top /\ nodes[w].type = "string" THEN string_length
                                         ELSE nodes[w].length)
    <3>1. CASE w = top
      BY <1>2, <2>2, <2>4, <2>6, <3>1 DEF Top
    <3>2. CASE w # top
      BY <2>2, <2>6, <3>2
    <3>3. QED
      BY <3>1, <3>2
  <2>8. QED
    BY <2>6, <2>7
<1>3. QED
  BY <1>1, <1>2

\* The flags g are those behind a value in p.
Following(c, f, g, p) ==
  /\ g \ NumberFlags = Behind(c, p, f \ NumberFlags) /\ g \subseteq Flag \cup NumberFlags
  /\ "string" \in g => "string" \in f

LEMMA AfterFlags ==
  ASSUME NEW c, NEW STATE f, NEW STATE ns, NEW STATE v, NEW p, p = ns[v].parent, p # 0 => ns[p].type = c.type[p],
         f \subseteq flags, flags \subseteq Flag \cup NumberFlags
  PROVE  Following(c, f, After(ns, v, f), p)
<1> DEFINE more == {"need_comma"} \cup
                   (IF p = 0 THEN {"done"} ELSE IF c.type[p] = "array" THEN {"seek_value"} ELSE {})
<1>1. After(ns, v, f) = f \cup more
  BY DEF After
<1>2. Behind(c, p, f \ NumberFlags) = (f \ NumberFlags) \cup more
  BY DEF Behind
<1>3. more \subseteq {"need_comma", "done", "seek_value"}
  OBVIOUS
<1> HIDE DEF more
<1>4. QED
  BY <1>1, <1>2, <1>3 DEF Flag, NumberFlags, Following

\* What Here says of the state that follows.
LEMMA HereNext ==
  ASSUME NEW c, NEW d, Regular(c), Reading(c), Leads(c, d, text'), d.ptr <= Len(text') + 1,
         ptr' = d.ptr, flags' \ NumberFlags = d.flags, flags' \subseteq Flag \cup NumberFlags,
         string_length' \in Nat, In(d, "string") => string_length' = d.sl,
         top' = d.top, top' # 0 => nodes'[top'].type = d.type[top']
  PROVE  Here(d)' /\ Regular(d)
<1>1. text' \in Seq(Token)
  BY DEF Reading
<1>2. Regular(d)
  BY <1>1, StepNext
<1>3. QED
  BY <1>1, <1>2 DEF Here

LEMMA TopIn ==
  ASSUME NEW c, Regular(c), ~In(c, "done"), c.top # 0
  PROVE  /\ c.top \in 1 .. c.n /\ c.top \in Unclosed(c) /\ c.n \in Nat
         /\ c.parent[c.top] \in 0 .. c.n /\ c.parent[c.top] < c.top
         /\ c.parent[c.top] # 0 => c.type[c.parent[c.top]] \in Container
BY DEF Regular, Typed, Modes, Family, Unclosed

LEMMA FirstNameEnded ==
  ASSUME NEW c, First(c), Reading(c), NameEnded(c)
  PROVE  \E d : Leads(c, d, text') /\ First(d)'
<1>1. PICK d : Names(c, d)
  BY SomeShape
<1>2. Leads(c, d, text') /\ Here(c) /\ Regular(c) /\ pass = 1 /\ pc = "parse" /\ Chain(c.n) /\ SameAs(c)
  BY <1>1 DEF First, NameEnded, Here
<1>3. /\ d.ptr = c.ptr + 1 /\ d.sl = 0
      /\ d.flags = (c.flags \ {"string"}) \cup {"seek_value", "need_colon"}
      /\ d.top = c.top /\ d.n = c.n /\ d.type = c.type /\ d.parent = c.parent
      /\ d.length = c.length /\ d.closed = c.closed
      /\ d.chars = [w \in 1 .. c.n |-> IF w = c.top THEN c.chars[w] + c.sl + 1 ELSE c.chars[w]]
  BY <1>1 DEF Names
<1>4. /\ nodes' = [nodes EXCEPT ![top] = Named(nodes[top])]
      /\ ptr' = ptr + 1 /\ flags' = (flags \ {"string"}) \cup {"seek_value", "need_colon"}
      /\ string_length' = string_length
      /\ UNCHANGED <<top, root, alloc, live, areas, pass, pc>>
  BY <1>2 DEF NameEnded, Round, Terminated, memory
<1>5. /\ ptr = c.ptr /\ string_length \in Nat /\ string_length = c.sl /\ top = c.top
      /\ flags \subseteq Flag \cup NumberFlags /\ flags \ NumberFlags = c.flags
  BY <1>2 DEF Here, NameEnded
<1>6. top \in 1 .. c.n /\ c.n \in Nat /\ nodes \in [1 .. c.n -> Node]
  <2>1. c.top # 0
    BY DEF NameEnded, TopKind
  <2>2. QED
    BY <1>2, <1>5, <2>1 DEF Regular, Typed, Chain
<1>7. nodes[top] \in Node
  BY <1>6
<1>8. /\ Named(nodes[top]) \in Node
      /\ Named(nodes[top]).type = nodes[top].type /\ Named(nodes[top]).parent = nodes[top].parent
      /\ Named(nodes[top]).length = nodes[top].length /\ Named(nodes[top]).items = nodes[top].items
      /\ Named(nodes[top]).chars = nodes[top].chars + string_length + 1
      /\ Named(nodes[top]).reserved = nodes[top].reserved
  BY <1>2, <1>5, <1>7, NamedFields
<1>9. /\ nodes' \in [1 .. c.n -> Node] /\ nodes'[top] = Named(nodes[top])
      /\ \A w \in 1 .. c.n : w # top => nodes'[w] = nodes[w]
  BY <1>4, <1>6, <1>8
<1>10. /\ ptr' = d.ptr /\ d.ptr <= Len(text') + 1
       /\ flags' \ NumberFlags = d.flags /\ flags' \subseteq Flag \cup NumberFlags
       /\ string_length' \in Nat /\ ~In(d, "string")
  BY <1>3, <1>4, <1>5 DEF Reading, Flag, NumberFlags, In
<1>11. top' = d.top /\ nodes'[top'].type = d.type[top']
  BY <1>2, <1>3, <1>4, <1>5, <1>6, <1>8, <1>9 DEF SameAs
<1>12. Here(d)'
  BY <1>2, <1>10, <1>11, HereNext
<1>13. Chain(d.n)'
  BY <1>2, <1>3, <1>4, <1>8, <1>9 DEF Chain
<1>14. SameAs(d)'
  <2>1. ASSUME NEW v \in 1 .. c.n
        PROVE  /\ nodes'[v].type = d.type[v] /\ nodes'[v].parent = d.parent[v]
               /\ nodes'[v].length = d.length[v] /\ nodes'[v].chars = d.chars[v]
    <3>1. /\ nodes[v].type = c.type[v] /\ nodes[v].parent = c.parent[v]
          /\ nodes[v].length = c.length[v] /\ nodes[v].chars = c.chars[v]
      BY <1>2 DEF SameAs
    <3>2. CASE v = top
      BY <1>3, <1>5, <1>8, <1>9, <3>1, <3>2
    <3>3. CASE v # top
      BY <1>3, <1>5, <1>9, <3>1, <3>3
    <3>4. QED
      BY <3>2, <3>3
  <2>2. QED
    BY <1>3, <2>1 DEF SameAs
<1>15. QED
  BY <1>2, <1>4, <1>12, <1>13, <1>14 DEF First

LEMMA FirstClosed ==
  ASSUME NEW c, First(c), Reading(c), ValueClosed(c)
  PROVE  \E d : Leads(c, d, text') /\ First(d)'
<1>1. PICK f : /\ NextFlag(ClosedTop, top, f) /\ ptr' = ptr + 1
               /\ UNCHANGED <<string_length, number, root, alloc, memory>>
               /\ f \subseteq flags /\ "string" \notin f /\ "seek_value" \notin f
               /\ ~In(c, "done") /\ TopKind(c) \in Container \cup {"string"}
               /\ TopKind(c) = "string" => In(c, "string")
               /\ \A d : Leads(c, d, text') <=> Closes(c, d, f \ NumberFlags)
  BY DEF ValueClosed
<1>2. PICK d : Closes(c, d, f \ NumberFlags)
  BY SomeShape
<1>3. Leads(c, d, text') /\ Here(c) /\ Regular(c) /\ pass = 1 /\ pc = "parse" /\ Chain(c.n) /\ SameAs(c)
  BY <1>1, <1>2 DEF First, Here
<1> DEFINE p == c.parent[c.top]
<1>4. /\ d.ptr = c.ptr + 1 /\ d.sl = 0 /\ d.flags = Behind(c, p, f \ NumberFlags)
      /\ d.top = (IF p = 0 THEN c.top ELSE p)
      /\ d.n = c.n /\ d.type = c.type /\ d.parent = c.parent /\ d.chars = c.chars
      /\ d.length = [w \in 1 .. c.n |-> IF w = p THEN c.length[w] + 1
                                        ELSE IF w = c.top /\ c.type[w] = "string" THEN c.sl
                                        ELSE c.length[w]]
  BY <1>2 DEF Closes
<1>5. /\ ptr = c.ptr /\ string_length \in Nat /\ (In(c, "string") => string_length = c.sl) /\ top = c.top
      /\ flags \subseteq Flag \cup NumberFlags /\ flags \ NumberFlags = c.flags
  BY <1>3 DEF Here
<1>6. /\ top \in 1 .. c.n /\ c.n \in Nat /\ nodes \in [1 .. c.n -> Node]
      /\ p \in 0 .. c.n /\ p < c.top
  <2>1. c.top # 0
    BY <1>1 DEF TopKind, Container
  <2>2. QED
    BY <1>1, <1>3, <1>5, <2>1, TopIn DEF Chain
<1>7. nodes[top].type = c.type[top] /\ nodes[top].parent = p /\ TopKind(c) = c.type[top]
  BY <1>3, <1>5, <1>6 DEF SameAs, TopKind
<1>8. /\ ClosedTop \in [1 .. c.n -> Node]
      /\ \A w \in 1 .. c.n :
           /\ ClosedTop[w].type = nodes[w].type /\ ClosedTop[w].parent = nodes[w].parent
           /\ ClosedTop[w].chars = nodes[w].chars /\ ClosedTop[w].reserved = nodes[w].reserved
           /\ ClosedTop[w].items = nodes[w].items
           /\ ClosedTop[w].length = (IF w = top /\ nodes[w].type = "string" THEN string_length
                                     ELSE nodes[w].length)
  BY <1>5, <1>6, ClosedTopFields
<1>9. ClosedTop[top].parent = p /\ (p # 0 => ClosedTop[p].type = c.type[p])
  <2>1. p # 0 => p \in 1 .. c.n
    BY <1>6
  <2>2. QED
    BY <1>3, <1>6, <1>7, <1>8, <2>1 DEF SameAs
<1>10. /\ nodes' = Completed(ClosedTop, top) /\ flags' = After(ClosedTop, top, f)
       /\ top' = IF p = 0 THEN top ELSE p
       /\ UNCHANGED <<string_length, root, alloc, live, areas, pass, pc>>
  BY <1>1, <1>9 DEF NextFlag, memory
<1> HIDE DEF p
<1>11. /\ nodes' \in [1 .. c.n -> Node]
       /\ \A w \in 1 .. c.n :
            /\ nodes'[w].type = ClosedTop[w].type /\ nodes'[w].parent = ClosedTop[w].parent
            /\ nodes'[w].chars = ClosedTop[w].chars /\ nodes'[w].reserved = ClosedTop[w].reserved
            /\ nodes'[w].length = (IF w = p THEN ClosedTop[w].length + 1 ELSE ClosedTop[w].length)
            /\ nodes'[w].items = ClosedTop[w].items
  <2>1. ClosedTop[top].parent \in 0 .. c.n
    BY <1>6, <1>9
  <2>2. /\ Completed(ClosedTop, top) \in [1 .. c.n -> Node]
        /\ \A w \in 1 .. c.n :
             /\ Completed(ClosedTop, top)[w].type = ClosedTop[w].type
             /\ Completed(ClosedTop, top)[w].parent = ClosedTop[w].parent
             /\ Completed(ClosedTop, top)[w].chars = ClosedTop[w].chars
             /\ Completed(ClosedTop, top)[w].reserved = ClosedTop[w].reserved
             /\ Completed(ClosedTop, top)[w].length =
                  (IF w = ClosedTop[top].parent THEN ClosedTop[w].length + 1 ELSE ClosedTop[w].length)
             /\ Completed(ClosedTop, top)[w].items =
                  (IF w = ClosedTop[top].parent /\ pass = 2 THEN Append(ClosedTop[w].items, top)
                   ELSE ClosedTop[w].items)
    <3> DEFINE ns == ClosedTop
    <3>1. ns \in [1 .. c.n -> Node] /\ top \in 1 .. c.n /\ c.n \in Nat /\ ns[top].parent \in 0 .. c.n
      BY <1>6, <1>8, <2>1
    <3> HIDE DEF ns
    <3>2. /\ Completed(ns, top) \in [1 .. c.n -> Node]
          /\ \A w \in 1 .. c.n :
               /\ Completed(ns, top)[w].type = ns[w].type
               /\ Completed(ns, top)[w].parent = ns[w].parent
               /\ Completed(ns, top)[w].chars = ns[w].chars
               /\ Completed(ns, top)[w].reserved = ns[w].reserved
               /\ Completed(ns, top)[w].length =
                    (IF w = ns[top].parent THEN ns[w].length + 1 ELSE ns[w].length)
               /\ Completed(ns, top)[w].items =
                    (IF w = ns[top].parent /\ pass = 2 THEN Append(ns[w].items, top) ELSE ns[w].items)
      BY <3>1, CompletedFields
    <3>3. QED
      BY <3>2 DEF ns
  <2>3. QED
    BY <1>3, <1>9, <1>10, <2>2
<1>12. /\ flags' \ NumberFlags = d.flags /\ flags' \subseteq Flag \cup NumberFlags /\ "string" \notin flags'
  <2>1. f \subseteq flags /\ "string" \notin f
    BY <1>1
  <2>2. Following(c, f, After(ClosedTop, top, f), p)
    <3> DEFINE ns == ClosedTop
    <3>1. p = ns[top].parent /\ (p # 0 => ns[p].type = c.type[p]) /\ f \subseteq flags
          /\ flags \subseteq Flag \cup NumberFlags
      BY <1>5, <1>9, <2>1
    <3> HIDE DEF ns
    <3>2. Following(c, f, After(ns, top, f), p)
      BY <3>1, AfterFlags
    <3>3. QED
      BY <3>2 DEF ns
  <2>3. QED
    BY <1>4, <1>10, <2>1, <2>2 DEF Following
<1>13. /\ ptr' = d.ptr /\ d.ptr <= Len(text') + 1 /\ string_length' \in Nat /\ ~In(d, "string")
  <2>1. ptr' = ptr + 1
    BY <1>1
  <2>2. c.ptr \in Nat /\ Len(text') \in Nat /\ c.ptr <= Len(text')
    BY DEF Reading
  <2>3. "string" \notin d.flags
    BY <1>12
  <2>4. QED
    BY <1>4, <1>5, <1>10, <2>1, <2>2, <2>3 DEF In
<1>14. SameAs(d)'
  <2>1. ASSUME NEW v \in 1 .. c.n
        PROVE  /\ nodes'[v].type = d.type[v] /\ nodes'[v].parent = d.parent[v]
               /\ nodes'[v].length = d.length[v] /\ nodes'[v].chars = d.chars[v]
    <3>1. /\ nodes[v].type = c.type[v] /\ nodes[v].parent = c.parent[v]
          /\ nodes[v].length = c.length[v] /\ nodes[v].chars = c.chars[v]
      BY <1>3 DEF SameAs
    <3>2. CASE v = p
      BY <1>4, <1>5, <1>6, <1>8, <1>11, <3>1, <3>2
    <3>3. CASE v = top /\ c.type[v] = "string"
      BY <1>1, <1>4, <1>5, <1>6, <1>7, <1>8, <1>11, <3>1, <3>3
    <3>4. CASE v # p /\ ~(v = top /\ c.type[v] = "string")
      BY <1>4, <1>5, <1>8, <1>11, <3>1, <3>4
    <3>5. QED
      BY <3>2, <3>3, <3>4
  <2>2. QED
    BY <1>4, <2>1 DEF SameAs
<1>15. top' = d.top /\ (top' # 0 => nodes'[top'].type = d.type[top'])
  <2>1. top' = d.top /\ (top' # 0 => top' \in 1 .. c.n)
    BY <1>4, <1>5, <1>6, <1>10
  <2>2. QED
    BY <1>4, <1>14, <2>1 DEF SameAs
<1>16. Here(d)'
  BY <1>3, <1>12, <1>13, <1>15, HereNext
<1>17. Chain(d.n)'
  BY <1>3, <1>4, <1>8, <1>10, <1>11 DEF Chain
<1>18. QED
  BY <1>3, <1>10, <1>14, <1>16, <1>17 DEF First

\* ns are the values of c with a new one.
Extended(c, ns, type) ==
  /\ ns \in [1 .. c.n + 1 -> Node]
  /\ \A w \in 1 .. c.n : /\ ns[w].type = c.type[w] /\ ns[w].parent = c.parent[w]
                         /\ ns[w].length = c.length[w] /\ ns[w].chars = c.chars[w]
  /\ ns[c.n + 1].type = type /\ ns[c.n + 1].parent = c.top
  /\ ns[c.n + 1].length = 0 /\ ns[c.n + 1].chars = 0
  /\ \A w \in 1 .. c.n + 1 : /\ ns[w].reserved = (IF w < c.n + 1 THEN w + 1 ELSE 0)
                             /\ ns[w].items = <<>>

Grown(c) == root' = 1 /\ alloc' = c.n + 1 /\ live' = 1 .. c.n + 1 /\ areas' = {}

\* The values when the pass has allocated one more.
LEMMA ChainGrows ==
  ASSUME NEW c, NEW type \in Kind, Chain(c.n), SameAs(c), pass = 1, top \in Nat, top = c.top, NewValue
  PROVE  New = c.n + 1 /\ Extended(c, WithNew(type), type) /\ Grown(c)
<1>1. c.n \in Nat /\ nodes \in [1 .. c.n -> Node] /\ alloc = c.n /\ live = 1 .. c.n /\ areas = {}
  BY DEF Chain
<1>2. /\ New = c.n + 1 /\ WithNew(type) \in [1 .. c.n + 1 -> Node]
      /\ \A w \in 1 .. c.n :
           /\ WithNew(type)[w].type = nodes[w].type /\ WithNew(type)[w].parent = nodes[w].parent
           /\ WithNew(type)[w].length = nodes[w].length /\ WithNew(type)[w].chars = nodes[w].chars
           /\ WithNew(type)[w].items = nodes[w].items
           /\ WithNew(type)[w].reserved = (IF w = c.n THEN c.n + 1 ELSE nodes[w].reserved)
      /\ WithNew(type)[c.n + 1] = NewNode(type)
  BY <1>1, NewFirstFields
<1>3. /\ NewNode(type).type = type /\ NewNode(type).parent = top
      /\ NewNode(type).length = 0 /\ NewNode(type).chars = 0 /\ NewNode(type).reserved = 0
      /\ NewNode(type).items = <<>>
  BY NewNodeFields
<1>4. root' = 1 /\ alloc' = c.n + 1 /\ live' = live \cup {c.n + 1} /\ areas' = areas
  BY <1>1, <1>2 DEF NewValue, RootWithNew, Chain
<1>5. live' = 1 .. c.n + 1 /\ areas' = {}
  BY <1>1, <1>4
<1>6. \A w \in 1 .. c.n + 1 :
        /\ WithNew(type)[w].reserved = (IF w < c.n + 1 THEN w + 1 ELSE 0)
        /\ WithNew(type)[w].items = <<>>
  <2>1. TAKE w \in 1 .. c.n + 1
  <2>2. CASE w = c.n + 1
    BY <1>1, <1>2, <1>3, <2>2
  <2>3. CASE w # c.n + 1
    <3>1. w \in 1 .. c.n /\ w < c.n + 1
      BY <1>1, <2>3
    <3>2. nodes[w].reserved = (IF w < c.n THEN w + 1 ELSE 0) /\ nodes[w].items = <<>>
      BY <3>1 DEF Chain
    <3>3. QED
      BY <1>1, <1>2, <3>1, <3>2
  <2>4. QED
    BY <2>2, <2>3
<1>7. \A w \in 1 .. c.n :
        /\ WithNew(type)[w].type = c.type[w] /\ WithNew(type)[w].parent = c.parent[w]
        /\ WithNew(type)[w].length = c.length[w] /\ WithNew(type)[w].chars = c.chars[w]
  BY <1>2 DEF SameAs
<1>8. QED
  BY <1>2, <1>3, <1>4, <1>5, <1>6, <1>7 DEF Extended, Grown

LEMMA FirstOpened ==
  ASSUME NEW c, First(c), Reading(c), ValueOpened(c)
  PROVE  \E d : Leads(c, d, text') /\ First(d)'
<1>1. PICK b \in {"[", "lbrace", "quote"} :
        /\ Opens(b, OpenedKind(b)) /\ In(c, "seek_value") /\ ~In(c, "string") /\ ~In(c, "done")
        /\ \A d : Leads(c, d, text') <=> OpensValue(c, d, b)
  BY DEF ValueOpened
<1>2. PICK d : OpensValue(c, d, b)
  BY SomeShape
<1>3. Leads(c, d, text') /\ Here(c) /\ Regular(c) /\ pass = 1 /\ pc = "parse" /\ Chain(c.n) /\ SameAs(c)
  BY <1>1, <1>2 DEF First, Here
<1> DEFINE type == OpenedKind(b)
<1>4. /\ d.ptr = c.ptr + 1 /\ d.top = c.n + 1 /\ d.n = c.n + 1 /\ d.sl = 0
      /\ d.flags = (c.flags \ {"seek_value"}) \cup OpenedFlags(b)
      /\ d.type = [w \in 1 .. c.n + 1 |-> IF w = c.n + 1 THEN type ELSE c.type[w]]
      /\ d.parent = [w \in 1 .. c.n + 1 |-> IF w = c.n + 1 THEN c.top ELSE c.parent[w]]
      /\ d.chars = [w \in 1 .. c.n + 1 |-> IF w = c.n + 1 THEN 0 ELSE c.chars[w]]
      /\ d.length = [w \in 1 .. c.n + 1 |-> IF w = c.n + 1 THEN 0 ELSE c.length[w]]
  BY <1>2 DEF OpensValue, AddsValue
<1>5. /\ ptr = c.ptr /\ string_length \in Nat /\ top = c.top
      /\ flags \subseteq Flag \cup NumberFlags /\ flags \ NumberFlags = c.flags
  BY <1>3 DEF Here
<1>6. c.n \in Nat /\ top \in Nat /\ type \in Kind
  BY <1>1, <1>3, <1>5 DEF Regular, Typed, Kind, Container, OpenedKind
<1>7. /\ NewValue /\ nodes' = WithNew(type) /\ top' = New
      /\ ptr' = ptr + 1 /\ UNCHANGED <<pass, pc>>
      /\ string_length' = (IF b = "quote" THEN 0 ELSE string_length)
  BY <1>1 DEF Opens, Round
<1>8. flags' = (flags \ {"seek_value"}) \cup OpenedFlags(b)
  <2>1. flags' = (flags \ {"seek_value"}) \cup
                 (CASE b = "[" -> {"seek_value"} [] b = "quote" -> {"string"} [] OTHER -> {})
    BY <1>1 DEF Opens, Round
  <2>2. (CASE b = "[" -> {"seek_value"} [] b = "quote" -> {"string"} [] OTHER -> {}) = OpenedFlags(b)
    BY Zenon DEF OpenedFlags
  <2>3. QED
    BY <2>1, <2>2
<1> HIDE DEF type
<1>9. /\ New = c.n + 1 /\ WithNew(type) \in [1 .. c.n + 1 -> Node]
      /\ root' = 1 /\ alloc' = c.n + 1 /\ live' = 1 .. c.n + 1 /\ areas' = {}
      /\ \A w \in 1 .. c.n :
           /\ WithNew(type)[w].type = c.type[w] /\ WithNew(type)[w].parent = c.parent[w]
           /\ WithNew(type)[w].length = c.length[w] /\ WithNew(type)[w].chars = c.chars[w]
      /\ WithNew(type)[c.n + 1].type = type /\ WithNew(type)[c.n + 1].parent = top
      /\ WithNew(type)[c.n + 1].length = 0 /\ WithNew(type)[c.n + 1].chars = 0
      /\ \A w \in 1 .. c.n + 1 :
           /\ WithNew(type)[w].reserved = (IF w < c.n + 1 THEN w + 1 ELSE 0)
           /\ WithNew(type)[w].items = <<>>
  <2>1. New = c.n + 1 /\ Extended(c, WithNew(type), type) /\ Grown(c)
    BY <1>3, <1>5, <1>6, <1>7, ChainGrows
  <2>2. QED
    BY <1>5, <2>1 DEF Extended, Grown
<1>10. Chain(d.n)'
  <2>1. c.n + 1 \in Nat /\ c.n + 1 # 0
    BY <1>6
  <2>2. QED
    BY <1>4, <1>7, <1>9, <2>1 DEF Chain
<1>11. SameAs(d)'
  <2>1. ASSUME NEW v \in 1 .. c.n + 1
        PROVE  /\ nodes'[v].type = d.type[v] /\ nodes'[v].parent = d.parent[v]
               /\ nodes'[v].length = d.length[v] /\ nodes'[v].chars = d.chars[v]
    <3>1. CASE v = c.n + 1
      BY <1>4, <1>5, <1>7, <1>9, <3>1
    <3>2. CASE v # c.n + 1
      <4>1. v \in 1 .. c.n
        BY <1>6, <3>2
      <4>2. QED
        BY <1>4, <1>7, <1>9, <3>2, <4>1
    <3>3. QED
      BY <3>1, <3>2
  <2>2. QED
    BY <1>4, <2>1 DEF SameAs
<1>12. /\ flags' \ NumberFlags = d.flags /\ flags' \subseteq Flag \cup NumberFlags
  BY <1>4, <1>5, <1>8 DEF OpenedFlags, Flag, NumberFlags
<1>13. /\ ptr' = d.ptr /\ d.ptr <= Len(text') + 1 /\ string_length' \in Nat
  <2>1. c.ptr \in Nat /\ Len(text') \in Nat /\ c.ptr <= Len(text')
    BY DEF Reading
  <2>2. QED
    BY <1>4, <1>5, <1>7, <2>1
<1>14. In(d, "string") => string_length' = d.sl
  BY <1>1, <1>4, <1>7 DEF In, OpenedFlags
<1>15. top' = d.top /\ nodes'[top'].type = d.type[top']
  BY <1>4, <1>6, <1>7, <1>9
<1>16. Here(d)'
  BY <1>3, <1>12, <1>13, <1>14, <1>15, HereNext
<1>17. QED
  BY <1>3, <1>7, <1>10, <1>11, <1>16 DEF First

\* The new value is complete at once.
LEMMA FirstAdds ==
  ASSUME NEW c, NEW d, NEW type \in Kind, NEW STATE f, NEW STATE ns,
         Regular(c), Reading(c), Leads(c, d, text'), AddsClosed(c, d, type), d.ptr <= Len(text') + 1,
         ~In(c, "done"), ~In(c, "string"), pass = 1, pc = "parse",
         Extended(c, ns, type), Grown(c),
         NextFlag(ns, c.n + 1, f), f \subseteq flags, flags \subseteq Flag \cup NumberFlags,
         f \ NumberFlags = c.flags \ {"seek_value"},
         ptr' = d.ptr, string_length' \in Nat
  PROVE  First(d)'
<1> DEFINE q == c.n + 1
           p == c.top
<1>0. /\ ns \in [1 .. c.n + 1 -> Node]
      /\ \A w \in 1 .. c.n : /\ ns[w].type = c.type[w] /\ ns[w].parent = c.parent[w]
                             /\ ns[w].length = c.length[w] /\ ns[w].chars = c.chars[w]
      /\ ns[q].type = type /\ ns[q].parent = c.top
      /\ ns[q].length = 0 /\ ns[q].chars = 0
      /\ \A w \in 1 .. q : /\ ns[w].reserved = (IF w < q THEN w + 1 ELSE 0)
                           /\ ns[w].items = <<>>
      /\ root' = 1 /\ alloc' = q /\ live' = 1 .. q /\ areas' = {}
  BY DEF Extended, Grown
<1>1. /\ d.n = c.n + 1 /\ d.sl = 0
      /\ d.type = [w \in 1 .. c.n + 1 |-> IF w = c.n + 1 THEN type ELSE c.type[w]]
      /\ d.parent = [w \in 1 .. c.n + 1 |-> IF w = c.n + 1 THEN c.top ELSE c.parent[w]]
      /\ d.chars = [w \in 1 .. c.n + 1 |-> IF w = c.n + 1 THEN 0 ELSE c.chars[w]]
      /\ d.length = [w \in 1 .. c.n + 1 |->
                       IF w = c.n + 1 THEN 0 ELSE IF w = c.top THEN c.length[w] + 1 ELSE c.length[w]]
      /\ d.top = (IF c.top = 0 THEN c.n + 1 ELSE c.top)
      /\ d.flags = Behind(c, c.top, c.flags \ {"seek_value"})
  BY DEF AddsClosed, AddsValue
<1>2. /\ c.n \in Nat /\ p \in 0 .. c.n /\ q \in Nat /\ q \in 1 .. q
  BY DEF Regular, Typed
<1>3. ns[q].parent = p
  BY <1>0
<1>4. /\ nodes' = Completed(ns, q) /\ top' = (IF p = 0 THEN q ELSE p) /\ flags' = After(ns, q, f)
      /\ UNCHANGED <<pass, pc>>
  BY <1>3 DEF NextFlag
<1>5. p # 0 => ns[p].type = c.type[p]
  BY <1>0, <1>2
<1> HIDE DEF p
<1>6. /\ Completed(ns, q) \in [1 .. q -> Node]
      /\ \A w \in 1 .. q :
           /\ Completed(ns, q)[w].type = ns[w].type
           /\ Completed(ns, q)[w].parent = ns[w].parent
           /\ Completed(ns, q)[w].chars = ns[w].chars
           /\ Completed(ns, q)[w].reserved = ns[w].reserved
           /\ Completed(ns, q)[w].length = (IF w = ns[q].parent THEN ns[w].length + 1 ELSE ns[w].length)
           /\ Completed(ns, q)[w].items =
                (IF w = ns[q].parent /\ pass = 2 THEN Append(ns[w].items, q) ELSE ns[w].items)
  <2>1. ns[q].parent \in 0 .. q
    BY <1>2, <1>3
  <2>2. ns \in [1 .. q -> Node]
    BY <1>0
  <2> HIDE DEF q
  <2>3. QED
    BY <1>2, <2>1, <2>2, CompletedFields
<1>7. Chain(d.n)'
  <2>1. q # 0
    BY <1>2
  <2>2. nodes' \in [1 .. q -> Node]
    BY <1>4, <1>6
  <2>3. ASSUME NEW w \in 1 .. q
        PROVE  nodes'[w].reserved = (IF w < q THEN w + 1 ELSE 0) /\ nodes'[w].items = <<>>
    <3>1. nodes'[w].reserved = ns[w].reserved /\ nodes'[w].items = ns[w].items
      BY <1>4, <1>6
    <3>2. QED
      BY <1>0, <3>1
  <2>4. root' = 1 /\ alloc' = q /\ live' = 1 .. q /\ areas' = {} /\ d.n = q
    BY <1>0, <1>1
  <2> HIDE DEF q
  <2>5. QED
    BY <1>2, <2>1, <2>2, <2>3, <2>4 DEF Chain
<1>8. SameAs(d)'
  <2>1. ASSUME NEW v \in 1 .. q
        PROVE  /\ nodes'[v].type = d.type[v] /\ nodes'[v].parent = d.parent[v]
               /\ nodes'[v].length = d.length[v] /\ nodes'[v].chars = d.chars[v]
    <3>1. CASE v = q
      BY <1>0, <1>1, <1>2, <1>3, <1>4, <1>6, <3>1 DEF p
    <3>2. CASE v # q
      <4>1. v \in 1 .. c.n
        BY <1>2, <3>2
      <4>2. /\ ns[v].type = c.type[v] /\ ns[v].parent = c.parent[v]
            /\ ns[v].length = c.length[v] /\ ns[v].chars = c.chars[v]
        BY <1>0, <4>1
      <4>3. /\ nodes'[v].type = ns[v].type /\ nodes'[v].parent = ns[v].parent
            /\ nodes'[v].chars = ns[v].chars
            /\ nodes'[v].length = (IF v = c.top THEN ns[v].length + 1 ELSE ns[v].length)
        BY <1>3, <1>4, <1>6 DEF p
      <4>4. QED
        BY <1>1, <3>2, <4>2, <4>3
    <3>3. QED
      BY <3>1, <3>2
  <2>2. QED
    BY <1>1, <2>1 DEF SameAs
<1>9. Following(c, f, After(ns, q, f), p)
  <2> HIDE DEF q
  <2>1. p = ns[q].parent
    BY <1>3
  <2>2. QED
    BY <1>5, <2>1, AfterFlags
<1>10. /\ flags' \ NumberFlags = d.flags /\ flags' \subseteq Flag \cup NumberFlags
       /\ "string" \notin d.flags
  <2>1. "string" \notin f \ NumberFlags
    BY DEF In
  <2>2. "string" \notin f
    BY <2>1 DEF NumberFlags
  <2>3. /\ flags' \ NumberFlags = Behind(c, p, f \ NumberFlags) /\ flags' \subseteq Flag \cup NumberFlags
        /\ "string" \notin flags'
    BY <1>4, <1>9, <2>2 DEF Following
  <2>4. Behind(c, p, f \ NumberFlags) = d.flags
    BY <1>1 DEF p
  <2>5. QED
    BY <2>3, <2>4
<1>11. top' = d.top /\ nodes'[top'].type = d.type[top']
  <2>1. top' = d.top /\ top' \in 1 .. q
    BY <1>1, <1>2, <1>4 DEF p
  <2>2. QED
    BY <1>1, <1>8, <2>1 DEF SameAs
<1>12. Here(d)'
  BY <1>10, <1>11, HereNext DEF In
<1>13. QED
  BY <1>4, <1>7, <1>8, <1>12 DEF First

LEMMA FirstLiteral ==
  ASSUME NEW c, First(c), Reading(c), LiteralRead(c)
  PROVE  \E d : Leads(c, d, text') /\ First(d)'
<1>1. PICK d : AddsClosed(c, d, "literal") /\ d.ptr = c.ptr + 1
  BY SomeShape
<1>2. /\ Leads(c, d, text') /\ Here(c) /\ Regular(c) /\ pass = 1 /\ pc = "parse" /\ Chain(c.n) /\ SameAs(c)
      /\ ~In(c, "string") /\ ~In(c, "done")
  BY <1>1 DEF First, Here, LiteralRead
<1>3. /\ ptr = c.ptr /\ string_length \in Nat /\ top = c.top
      /\ flags \subseteq Flag \cup NumberFlags /\ flags \ NumberFlags = c.flags
  BY <1>2 DEF Here
<1>4. c.n \in Nat /\ top \in Nat /\ "literal" \in Kind
  BY <1>2, <1>3 DEF Regular, Typed, Kind
<1>5. /\ NewValue /\ NextFlag(WithNew("literal"), New, flags \ {"seek_value"}) /\ ptr' = ptr + 1
      /\ string_length' = string_length
  BY DEF LiteralRead, Literal
<1>6. New = c.n + 1 /\ Extended(c, WithNew("literal"), "literal") /\ Grown(c)
  BY <1>2, <1>3, <1>4, <1>5, ChainGrows
<1> DEFINE ns == WithNew("literal")
           f == flags \ {"seek_value"}
<1>7. f \subseteq flags /\ f \ NumberFlags = c.flags \ {"seek_value"}
  BY <1>3
<1>8. d.ptr <= Len(text') + 1 /\ ptr' = d.ptr
  <2>1. c.ptr \in Nat /\ Len(text') \in Nat /\ c.ptr <= Len(text')
    BY DEF Reading
  <2>2. QED
    BY <1>1, <1>3, <1>5, <2>1
<1>9. NextFlag(ns, c.n + 1, f) /\ Extended(c, ns, "literal")
  BY <1>5, <1>6
<1> HIDE DEF f, ns
<1>10. First(d)'
  BY <1>1, <1>2, <1>3, <1>4, <1>5, <1>6, <1>7, <1>8, <1>9, FirstAdds
<1>11. QED
  BY <1>2, <1>10

-----------------------------------------------------------------------------
(* A number in the first pass: c is where it begins.                       *)

Numeric == {"integer", "double"}

Drawn(c) ==
  /\ text \in Seq(Token) /\ c.ptr \in 1 .. Len(text) /\ text[c.ptr] \in Digit \cup {"-"}
  /\ ptr \in c.ptr .. Len(text) + 1 /\ \A k \in c.ptr .. Len(text) : k < ptr => text[k] \in NumberToken

BeginsNumber(c) ==
  /\ Regular(c) /\ In(c, "seek_value") /\ Starts(c)
  /\ ~In(c, "done") /\ ~In(c, "string") /\ ~Commented(c)

InNumberAt(c) ==
  /\ pc = "parse" /\ pass = 1 /\ BeginsNumber(c) /\ Drawn(c)
  /\ flags \subseteq Flag \cup NumberFlags /\ flags \ NumberFlags = c.flags \ {"seek_value"}
  /\ string_length \in Nat /\ top = c.n + 1
  /\ root = 1 /\ alloc = c.n + 1 /\ live = 1 .. c.n + 1 /\ areas = {}
  /\ \E type \in Numeric : Extended(c, nodes, type)

LEMMA ReadText ==
  ASSUME NEW b \in Token, text \in Seq(Token), ptr \in Nat, ptr >= 1, ptr <= Len(text) + 1, Read(b)
  PROVE  /\ text' \in Seq(Token) /\ Len(text') \in Nat /\ Len(text) \in Nat /\ Len(text) <= Len(text')
         /\ ptr \in 1 .. Len(text') /\ text'[ptr] = b /\ \A k \in 1 .. Len(text) : text'[k] = text[k]
         /\ text' = text \/ text' = Append(text, b)
<1>1. Len(text) \in Nat
  BY LenProperties
<1>2. CASE ptr <= Len(text) /\ b = text[ptr] /\ text' = text
  BY <1>1, <1>2
<1>3. CASE ptr > Len(text) /\ text' = Append(text, b)
  <2>1. ptr = Len(text) + 1
    BY <1>1, <1>3
  <2>2. /\ text' \in Seq(Token) /\ Len(text') = Len(text) + 1 /\ text'[Len(text) + 1] = b
        /\ \A k \in 1 .. Len(text) : text'[k] = text[k]
    BY <1>3, Appended
  <2>3. QED
    BY <1>1, <1>3, <2>1, <2>2
<1>4. QED
  BY <1>2, <1>3 DEF Read

\* One more token of the number is read, or none.
LEMMA DrawnOn ==
  ASSUME NEW c, NEW b \in NumberToken, c.ptr \in Nat, c.ptr >= 1, Drawn(c), Read(b), ptr' \in {ptr, ptr + 1}
  PROVE  Drawn(c)'
<1>1. text \in Seq(Token) /\ c.ptr \in 1 .. Len(text) /\ ptr \in c.ptr .. Len(text) + 1 /\ b \in Token
      /\ ptr \in Nat /\ ptr >= 1 /\ ptr <= Len(text) + 1 /\ Len(text) \in Nat
  BY LenProperties DEF Drawn, Token
<1>2. /\ text' \in Seq(Token) /\ Len(text') \in Nat /\ Len(text) <= Len(text')
      /\ ptr \in 1 .. Len(text') /\ text'[ptr] = b /\ \A k \in 1 .. Len(text) : text'[k] = text[k]
  BY <1>1, ReadText
<1>3. text'[c.ptr] \in Digit \cup {"-"} /\ c.ptr \in 1 .. Len(text')
  BY <1>1, <1>2 DEF Drawn
<1>4. ptr' \in c.ptr .. Len(text') + 1
  BY <1>1, <1>2
<1>5. ASSUME NEW k \in c.ptr .. Len(text'), k < ptr' PROVE text'[k] \in NumberToken
  <2>1. CASE k = ptr
    BY <1>2, <2>1
  <2>2. CASE k # ptr
    <3>1. ptr' \in Nat /\ ptr' <= ptr + 1
      BY <1>1
    <3>2. k < ptr
      BY <1>1, <1>2, <1>5, <2>2, <3>1
    <3>3. k \in 1 .. Len(text) /\ k \in c.ptr .. Len(text)
      BY <1>1, <1>2, <3>2
    <3>4. QED
      BY <1>2, <3>2, <3>3 DEF Drawn
  <2>3. QED
    BY <2>1, <2>2
<1>6. \A k \in c.ptr .. Len(text') : k < ptr' => text'[k] \in NumberToken
  BY <1>5
<1>7. QED
  BY <1>2, <1>3, <1>4, <1>6 DEF Drawn

\* The number is changed, or takes another type.
Renumbered(n) ==
  /\ n \in Node /\ n.type \in Numeric /\ n.parent = Top.parent /\ n.length = Top.length
  /\ n.chars = Top.chars /\ n.reserved = Top.reserved /\ n.items = Top.items

LEMMA ExtendedStill ==
  ASSUME NEW c, NEW STATE n, NEW type, c.n \in Nat, top = c.n + 1, Extended(c, nodes, type), Renumbered(n)
  PROVE  Extended(c, [nodes EXCEPT ![top] = n], n.type)
<1> DEFINE q == c.n + 1
           ns == [nodes EXCEPT ![top] = n]
<1>1. /\ nodes \in [1 .. q -> Node] /\ nodes[q].parent = c.top /\ nodes[q].length = 0 /\ nodes[q].chars = 0
      /\ nodes[q].reserved = 0 /\ nodes[q].items = <<>> /\ q \in 1 .. q
  BY DEF Extended
<1>2. /\ n \in Node /\ n.parent = c.top /\ n.length = 0 /\ n.chars = 0
      /\ n.reserved = 0 /\ n.items = <<>>
  BY <1>1 DEF Renumbered, Top
<1>3. ns \in [1 .. q -> Node] /\ ns[q] = n /\ \A w \in 1 .. c.n : ns[w] = nodes[w]
  BY <1>1, <1>2
<1> HIDE DEF ns
<1>4. \A w \in 1 .. q : ns[w].reserved = (IF w < q THEN w + 1 ELSE 0) /\ ns[w].items = <<>>
  <2>1. TAKE w \in 1 .. q
  <2>2. CASE w = q
    BY <1>2, <1>3, <2>2
  <2>3. CASE w # q
    <3>1. w \in 1 .. c.n /\ w \in 1 .. c.n + 1
      BY <2>3
    <3>2. /\ nodes[w].reserved = (IF w < c.n + 1 THEN w + 1 ELSE 0) /\ nodes[w].items = <<>>
      BY <3>1 DEF Extended
    <3>3. QED
      BY <1>3, <3>1, <3>2
  <2>4. QED
    BY <2>2, <2>3
<1>5. \A w \in 1 .. c.n : /\ ns[w].type = c.type[w] /\ ns[w].parent = c.parent[w]
                          /\ ns[w].length = c.length[w] /\ ns[w].chars = c.chars[w]
  BY <1>3 DEF Extended
<1>6. Extended(c, ns, n.type)
  BY <1>2, <1>3, <1>4, <1>5 DEF Extended
<1>7. QED
  BY <1>6 DEF ns

\* What a number can become while it is read.
LEMMA NumberFields ==
  ASSUME Top \in Node, Top.type \in Numeric, NEW b
  PROVE  /\ Renumbered(Top) /\ Renumbered([Top EXCEPT !.type = "double"])
         /\ Renumbered([Top EXCEPT !.integer = Top.integer * 10 + Value(b)])
         /\ Renumbered([Top EXCEPT !.integer = -Top.integer])
<1> DEFINE n == Top
<1>0. n \in Node /\ n.type \in Numeric
  OBVIOUS
<1>1. n.integer \in Int /\ n.integer * 10 + Value(b) \in Int /\ -n.integer \in Int
  BY <1>0 DEF Node, Value
<1>2. "double" \in Kind
  BY DEF Kind
<1>3. Renumbered(n)
  BY <1>0 DEF Renumbered
<1> DEFINE r == [n EXCEPT !.type = "double"]
<1>4. Renumbered(r)
  <2>1. /\ r \in Node /\ r.type = "double" /\ r.parent = n.parent /\ r.length = n.length
        /\ r.chars = n.chars /\ r.reserved = n.reserved /\ r.items = n.items
    BY <1>0, <1>2 DEF Node
  <2> HIDE DEF r
  <2>2. QED
    BY <2>1 DEF Renumbered, Numeric
<1> DEFINE x == n.integer * 10 + Value(b)
           y == -n.integer
           s == [n EXCEPT !.integer = x]
           u == [n EXCEPT !.integer = y]
<1>5. Renumbered(s)
  <2>0. x \in Int
    BY <1>1
  <2> HIDE DEF x
  <2>1. /\ s \in Node /\ s.type = n.type /\ s.parent = n.parent /\ s.length = n.length
        /\ s.chars = n.chars /\ s.reserved = n.reserved /\ s.items = n.items
    BY <1>0, <2>0 DEF Node
  <2> HIDE DEF s
  <2>2. QED
    BY <1>0, <2>1 DEF Renumbered
<1>6. Renumbered(u)
  <2>0. y \in Int
    BY <1>1
  <2> HIDE DEF y
  <2>1. /\ u \in Node /\ u.type = n.type /\ u.parent = n.parent /\ u.length = n.length
        /\ u.chars = n.chars /\ u.reserved = n.reserved /\ u.items = n.items
    BY <1>0, <2>0 DEF Node
  <2> HIDE DEF u
  <2>2. QED
    BY <1>0, <2>1 DEF Renumbered
<1>7. QED
  BY <1>3, <1>4, <1>5, <1>6

LEMMA NumberHere ==
  ASSUME NEW c, InNumberAt(c)
  PROVE  /\ \A f \in Flag \ {"seek_value"} : Has(f) <=> In(c, f)
         /\ ~Has("seek_value") /\ ~Has("done") /\ ~Has("string") /\ ~InComment
         /\ top # 0 /\ Top \in Node /\ Top.type \in Numeric /\ Top.parent = c.top
         /\ c.n \in Nat /\ c.ptr \in Nat /\ c.ptr >= 1
         /\ ptr \in Nat /\ ptr >= 1 /\ Len(text) \in Nat /\ ptr <= Len(text) + 1 /\ text \in Seq(Token)
<1>1. /\ Regular(c) /\ flags \ NumberFlags = c.flags \ {"seek_value"} /\ top = c.n + 1
      /\ ~In(c, "done") /\ ~In(c, "string") /\ ~Commented(c)
  BY DEF InNumberAt, BeginsNumber
<1>2. PICK type \in Numeric : Extended(c, nodes, type)
  BY DEF InNumberAt
<1>3. c.n \in Nat /\ c.ptr \in Nat /\ c.ptr >= 1
  BY <1>1 DEF Regular, Typed
<1>4. \A f \in Flag : f \notin NumberFlags
  BY DEF Flag, NumberFlags
<1>5. \A f \in Flag \ {"seek_value"} : Has(f) <=> In(c, f)
  BY <1>1, <1>4 DEF Has, In
<1>6. ~Has("seek_value")
  BY <1>1, <1>4 DEF Has, Flag
<1>7. ~Has("done") /\ ~Has("string") /\ ~InComment
  BY <1>1, <1>5 DEF Flag, InComment, Commented
<1>8. top # 0 /\ Top \in Node /\ Top.type \in Numeric /\ Top.parent = c.top
  BY <1>1, <1>2, <1>3 DEF Extended, Top
<1>9. ptr \in Nat /\ ptr >= 1 /\ Len(text) \in Nat /\ ptr <= Len(text) + 1 /\ text \in Seq(Token)
  BY <1>3, LenProperties DEF InNumberAt, Drawn
<1>10. QED
  BY <1>3, <1>5, <1>6, <1>7, <1>8, <1>9

LEMMA NumberStays ==
  ASSUME NEW c, NEW b \in NumberToken, NEW STATE n, InNumberAt(c), Read(b), ptr' \in {ptr, ptr + 1},
         flags' \ NumberFlags = flags \ NumberFlags, flags' \subseteq Flag \cup NumberFlags,
         nodes' = [nodes EXCEPT ![top] = n], Renumbered(n),
         UNCHANGED <<string_length, top, root, alloc, memory, pass, pc>>
  PROVE  InNumberAt(c)'
<1>1. c.n \in Nat /\ c.ptr \in Nat /\ c.ptr >= 1
  BY NumberHere
<1>2. Drawn(c)'
  BY <1>1, DrawnOn DEF InNumberAt
<1>3. PICK type \in Numeric : Extended(c, nodes, type)
  BY DEF InNumberAt
<1>4. Extended(c, [nodes EXCEPT ![top] = n], n.type)
  BY <1>1, <1>3, ExtendedStill DEF InNumberAt
<1>5. n.type \in Numeric
  BY DEF Renumbered
<1>6. \E u \in Numeric : Extended(c, nodes', u)
  BY <1>4, <1>5
<1>7. UNCHANGED <<string_length, top, root, alloc, live, areas, pass, pc>>
  BY DEF memory
<1>8. QED
  BY <1>2, <1>6, <1>7 DEF InNumberAt

\* Reading a number on.
LEMMA NumberReads ==
  ASSUME NEW c, InNumberAt(c), NEW b \in Token, DigitRound(b) \/ NumberPart(b)
  PROVE  InNumberAt(c)' \/ Refuse
<1>1. InNumber(b) /\ Read(b)
  BY DEF DigitRound, NumberPart, InNumber, Outside
<1>2. Top \in Node /\ Top.type \in Numeric
  BY NumberHere
<1>3. /\ Renumbered(Top) /\ Renumbered([Top EXCEPT !.type = "double"])
      /\ Renumbered([Top EXCEPT !.integer = Top.integer * 10 + Value(b)])
  BY <1>2, NumberFields
<1>4. /\ flags \subseteq Flag \cup NumberFlags
      /\ \A x \in NumberFlags : /\ (flags \cup {x}) \ NumberFlags = flags \ NumberFlags
                                /\ (flags \ {x}) \ NumberFlags = flags \ NumberFlags
                                /\ flags \cup {x} \subseteq Flag \cup NumberFlags
  BY DEF InNumberAt
<1>5. ASSUME b \in NumberToken, NEW STATE f, NEW STATE n, NEW digits, NumberGoesOn(f, n, digits),
             f \ NumberFlags = flags \ NumberFlags, f \subseteq Flag \cup NumberFlags, Renumbered(n)
      PROVE  InNumberAt(c)'
  <2>1. /\ ptr' = ptr + 1 /\ flags' = f /\ nodes' = [nodes EXCEPT ![top] = n]
        /\ UNCHANGED <<string_length, top, root, alloc, memory, pass, pc>>
    BY <1>5 DEF NumberGoesOn, Round
  <2>2. QED
    BY <1>1, <1>5, <2>1, NumberStays
<1>6. CASE DigitRound(b)
  <2>1. b \in NumberToken
    BY <1>6 DEF DigitRound, NumberToken
  <2>2. CASE Has("num_e") /\ NumberGoesOn(flags \cup {"num_e_got_sign"}, Top, num_digits + 1)
    BY <1>3, <1>4, <1>5, <2>1, <2>2 DEF NumberFlags
  <2>3. CASE ~Has("num_e") /\ Is("double") /\ NumberGoesOn(flags, Top, num_digits + 1)
    BY <1>3, <1>4, <1>5, <2>1, <2>3
  <2>4. CASE /\ ~Has("num_e") /\ Is("integer")
             /\ LET zero == IF num_digits = 0 /\ b = "0" THEN {"num_zero"} ELSE {}
                IN  \/ Has("num_zero") /\ Refuse
                    \/ ~Has("num_zero") /\ Overflows(Top.integer, Value(b)) /\ BecomesDouble
                    \/ /\ ~Has("num_zero") /\ ~Overflows(Top.integer, Value(b))
                       /\ NumberGoesOn(flags \cup zero, [Top EXCEPT !.integer = @ * 10 + Value(b)], num_digits + 1)
    <3> DEFINE zero == IF num_digits = 0 /\ b = "0" THEN {"num_zero"} ELSE {}
    <3>1. CASE BecomesDouble
      <4>1. nodes' = [nodes EXCEPT ![top] = [Top EXCEPT !.type = "double"]]
        BY <3>1 DEF BecomesDouble, Top
      <4>2. /\ flags' = flags /\ ptr' = ptr
            /\ UNCHANGED <<string_length, top, root, alloc, memory, pass, pc>>
        BY <3>1 DEF BecomesDouble, Reproc
      <4> DEFINE n == [Top EXCEPT !.type = "double"]
      <4>3. Renumbered(n) /\ nodes' = [nodes EXCEPT ![top] = n]
        BY <1>3, <4>1
      <4> HIDE DEF n
      <4>4. QED
        BY <1>1, <1>4, <2>1, <4>2, <4>3, NumberStays
    <3>2. CASE NumberGoesOn(flags \cup zero, [Top EXCEPT !.integer = @ * 10 + Value(b)], num_digits + 1)
      <4>1. (flags \cup zero) \ NumberFlags = flags \ NumberFlags /\ flags \cup zero \subseteq Flag \cup NumberFlags
        BY <1>4 DEF NumberFlags
      <4> DEFINE f == flags \cup zero
                 n == [Top EXCEPT !.integer = Top.integer * 10 + Value(b)]
      <4>2. NumberGoesOn(f, n, num_digits + 1) /\ Renumbered(n)
        BY <1>3, <3>2
      <4>3. f \ NumberFlags = flags \ NumberFlags /\ f \subseteq Flag \cup NumberFlags
        BY <4>1
      <4> HIDE DEF f, n
      <4>4. QED
        BY <1>5, <2>1, <4>2, <4>3
    <3>3. QED
      BY <2>4, <3>1, <3>2
  <2>5. QED
    BY <1>6, <2>2, <2>3, <2>4 DEF DigitRound
<1>7. CASE NumberPart(b)
  <2>1. CASE Sign(b) /\ NumberGoesOn(flags \cup {"num_e_got_sign"}, Top, num_digits)
    <3>1. b \in NumberToken
      BY <2>1 DEF Sign, NumberToken
    <3>2. QED
      BY <1>3, <1>4, <1>5, <2>1, <3>1 DEF NumberFlags
  <2> DEFINE n == [Top EXCEPT !.type = "double"]
  <2>2. CASE Point(b) /\ NumberGoesOn(flags, n, 0)
    <3>1. b \in NumberToken /\ Renumbered(n)
      BY <1>3, <2>2 DEF Point, NumberToken
    <3> HIDE DEF n
    <3>2. QED
      BY <1>4, <1>5, <2>2, <3>1
  <2>3. CASE Exponent(b) /\ NumberGoesOn((flags \cup {"num_e"}) \ {"num_zero"}, n, 0)
    <3> DEFINE f == (flags \cup {"num_e"}) \ {"num_zero"}
    <3>1. b \in NumberToken /\ Renumbered(n)
      BY <1>3, <2>3 DEF Exponent, NumberToken
    <3>2. f \ NumberFlags = flags \ NumberFlags /\ f \subseteq Flag \cup NumberFlags
      BY <1>4 DEF NumberFlags
    <3>3. NumberGoesOn(f, n, 0)
      BY <2>3
    <3> HIDE DEF n, f
    <3>4. QED
      BY <1>5, <3>1, <3>2, <3>3
  <2>4. QED
    BY <1>7, <2>1, <2>2, <2>3 DEF NumberPart
<1>8. QED
  BY <1>6, <1>7

LEMMA NumberStarts ==
  ASSUME NEW c, First(c), NEW b \in Token, NumberBegins(b)
  PROVE  InNumberAt(c)'
<1>1. /\ Here(c) /\ Regular(c) /\ pass = 1 /\ pc = "parse" /\ Chain(c.n) /\ SameAs(c) /\ ptr = c.ptr
      /\ top = c.top /\ flags \subseteq Flag \cup NumberFlags /\ flags \ NumberFlags = c.flags
      /\ string_length \in Nat
  BY DEF First, Here
<1>2. Seeks(b) /\ Begins /\ Read(b) /\ b \in Digit \cup {"-"} /\ NewValue
  BY DEF NumberBegins, Seeks, Outside
<1>3. BeginsNumber(c)
  BY <1>1, <1>2, SeeksHere DEF BeginsNumber
<1>4. text' \in Seq(Token) /\ c.ptr \in 1 .. Len(text') /\ text'[c.ptr] = b /\ Len(text') \in Nat
  BY <1>1, <1>2, ReadHere
<1>5. /\ nodes' = WithNew("integer") /\ top' = New /\ string_length' = string_length
      /\ UNCHANGED <<pass, pc>>
  BY DEF NumberBegins, Round, Reproc
<1> DEFINE f == flags \ (NumberFlags \cup {"seek_value"})
<1>6. /\ ptr' = (IF b = "-" THEN ptr + 1 ELSE ptr)
      /\ flags' = (IF b = "-" THEN f \cup {"num_negative"} ELSE f)
  BY DEF NumberBegins, Round, Reproc
<1>7. flags' \subseteq Flag \cup NumberFlags /\ flags' \ NumberFlags = c.flags \ {"seek_value"}
  BY <1>1, <1>6 DEF NumberFlags
<1>8. c.n \in Nat /\ top \in Nat /\ "integer" \in Kind
  BY <1>1 DEF Regular, Typed, Kind
<1>9. New = c.n + 1 /\ Extended(c, WithNew("integer"), "integer") /\ Grown(c)
  BY <1>1, <1>2, <1>8, ChainGrows
<1>10. Drawn(c)'
  <2>1. ptr' \in c.ptr .. Len(text') + 1
    BY <1>1, <1>4, <1>6
  <2>2. ASSUME NEW k \in c.ptr .. Len(text'), k < ptr' PROVE text'[k] \in NumberToken
    <3>1. k = c.ptr /\ b = "-"
      BY <1>1, <1>4, <1>6, <2>2
    <3>2. QED
      BY <1>4, <3>1 DEF NumberToken
  <2>3. QED
    BY <1>2, <1>4, <2>1, <2>2 DEF Drawn
<1>11. \E u \in Numeric : Extended(c, nodes', u)
  BY <1>5, <1>9 DEF Numeric
<1>12. QED
  BY <1>1, <1>3, <1>5, <1>7, <1>9, <1>10, <1>11 DEF InNumberAt, Grown

\* The values behind a complete one, from those before.
LEMMA CompletedChain ==
  ASSUME NEW c, NEW type, NEW STATE ns, Regular(c), Extended(c, ns, type), Grown(c), pass = 1,
         nodes' = Completed(ns, c.n + 1), c.n \in Nat
  PROVE  Chain(c.n + 1)' /\ \A w \in 1 .. c.n : nodes'[w].type = c.type[w]
<1> DEFINE q == c.n + 1
<1>0. c.top \in 0 .. c.n
  BY DEF Regular, Typed
<1>1. /\ ns \in [1 .. q -> Node] /\ ns[q].parent \in 0 .. q /\ q \in Nat /\ q \in 1 .. q /\ q # 0
  BY <1>0 DEF Extended
<1>2. /\ \A w \in 1 .. q : ns[w].reserved = (IF w < q THEN w + 1 ELSE 0) /\ ns[w].items = <<>>
      /\ \A w \in 1 .. c.n : ns[w].type = c.type[w]
  BY DEF Extended
<1>3. root' = 1 /\ alloc' = q /\ live' = 1 .. q /\ areas' = {}
  BY DEF Grown
<1> HIDE DEF q
<1>4. /\ Completed(ns, q) \in [1 .. q -> Node]
      /\ \A w \in 1 .. q :
           /\ Completed(ns, q)[w].type = ns[w].type
           /\ Completed(ns, q)[w].parent = ns[w].parent
           /\ Completed(ns, q)[w].chars = ns[w].chars
           /\ Completed(ns, q)[w].reserved = ns[w].reserved
           /\ Completed(ns, q)[w].length = (IF w = ns[q].parent THEN ns[w].length + 1 ELSE ns[w].length)
           /\ Completed(ns, q)[w].items =
                (IF w = ns[q].parent /\ pass = 2 THEN Append(ns[w].items, q) ELSE ns[w].items)
  BY <1>1, CompletedFields
<1>5. nodes' = Completed(ns, q)
  BY DEF q
<1>6. Chain(q)'
  BY <1>1, <1>2, <1>3, <1>4, <1>5 DEF Chain
<1>7. \A w \in 1 .. c.n : nodes'[w].type = c.type[w]
  BY <1>2, <1>4, <1>5 DEF q
<1>8. QED
  BY <1>6, <1>7 DEF q

\* A number that ends before another token of numbers will be refused.
Doomed(k) ==
  /\ pc = "parse" /\ pass = 1 /\ k # 0 /\ Chain(k)
  /\ text \in Seq(Token) /\ ptr \in 1 .. Len(text) /\ text[ptr] \in NumberToken
  /\ Has("need_comma") /\ ~Has("string") /\ ~InComment
  /\ ~Has("done") => top # 0 /\ Top.type \in Container /\ (Top.type = "array" => Has("seek_value"))

LEMMA NumberStops ==
  ASSUME NEW c, InNumberAt(c), NEW b \in Token, NumberEnds(b)
  PROVE  \/ Refuse
         \/ Doomed(c.n + 1)'
         \/ \E d : Leads(c, d, text') /\ First(d)'
<1>0. SUFFICES ASSUME ~Refuse
               PROVE  Doomed(c.n + 1)' \/ \E d : Leads(c, d, text') /\ First(d)'
  OBVIOUS
<1>1. InNumber(b) /\ Read(b) /\ ~NoDigit
  BY <1>0 DEF NumberEnds, InNumber, Outside
<1>2. /\ Regular(c) /\ BeginsNumber(c) /\ Drawn(c) /\ top = c.n + 1 /\ pass = 1 /\ pc = "parse"
      /\ flags \subseteq Flag \cup NumberFlags /\ flags \ NumberFlags = c.flags \ {"seek_value"}
      /\ string_length \in Nat /\ ~In(c, "done") /\ ~In(c, "string") /\ ~Commented(c)
      /\ In(c, "seek_value") /\ Starts(c)
      /\ root = 1 /\ alloc = c.n + 1 /\ live = 1 .. c.n + 1 /\ areas = {}
  BY DEF InNumberAt, BeginsNumber
<1>3. /\ ~Has("string") /\ ~InComment /\ Top \in Node /\ Top.type \in Numeric
      /\ c.n \in Nat /\ c.ptr \in Nat /\ c.ptr >= 1
      /\ ptr \in Nat /\ ptr >= 1 /\ Len(text) \in Nat /\ ptr <= Len(text) + 1 /\ text \in Seq(Token)
  BY NumberHere
<1> DEFINE n == IF Has("num_negative") THEN [Top EXCEPT !.integer = -Top.integer] ELSE Top
           ns == [nodes EXCEPT ![top] = n]
<1>4. /\ NextFlag(ns, top, flags)
      /\ UNCHANGED <<ptr, string_length, root, alloc, live, areas>>
  BY <1>0 DEF NumberEnds, memory
<1>5. Renumbered(n)
  BY <1>3, NumberFields
<1>6. PICK u \in Numeric : Extended(c, nodes, u)
  BY DEF InNumberAt
<1> HIDE DEF n
<1>7. Extended(c, ns, n.type) /\ n.type \in Numeric
  BY <1>2, <1>3, <1>5, <1>6, ExtendedStill DEF Renumbered
<1> HIDE DEF ns
<1>8. Grown(c)
  BY <1>2, <1>4 DEF Grown
<1>9. ns[c.n + 1].parent = c.top
  BY <1>7 DEF Extended
<1>10. /\ nodes' = Completed(ns, c.n + 1)
       /\ top' = (IF c.top = 0 THEN c.n + 1 ELSE c.top)
       /\ flags' = After(ns, c.n + 1, flags) /\ UNCHANGED <<pass, pc>>
  BY <1>2, <1>4, <1>9 DEF NextFlag
<1>11. /\ text' \in Seq(Token) /\ Len(text') \in Nat /\ Len(text) <= Len(text')
       /\ ptr \in 1 .. Len(text') /\ text'[ptr] = b /\ \A k \in 1 .. Len(text) : text'[k] = text[k]
       /\ text' = text \/ text' = Append(text, b)
  BY <1>1, <1>3, ReadText
<1>12. c.ptr \in 1 .. Len(text) /\ ptr \in c.ptr .. Len(text) + 1 /\ text[c.ptr] \in Digit \cup {"-"}
  BY <1>2 DEF Drawn
<1>13. c.ptr \in 1 .. Len(text') /\ text'[c.ptr] \in Digit \cup {"-"}
  BY <1>3, <1>11, <1>12
<1>14. Reading(c)
  BY <1>2, <1>11, <1>13 DEF Reading
<1>15. CASE b \in NumberToken
  <2>1. Chain(c.n + 1)' /\ \A w \in 1 .. c.n : nodes'[w].type = c.type[w]
    BY <1>2, <1>3, <1>7, <1>8, <1>10, CompletedChain
  <2>0. Typed(c) /\ Modes(c)
    BY <1>2 DEF Regular
  <2>11. c.top \in 0 .. c.n /\ c.type \in [1 .. c.n -> Kind]
    BY <2>0 DEF Typed
  <2>2. c.top \in 0 .. c.n /\ (c.top # 0 => c.type[c.top] \in Container)
    <3>1. TopKind(c) \in Container \cup {"none"}
      <4>1. ~In(c, "done") /\ ~In(c, "string") /\ Modes(c)
        BY <1>2, <2>0
      <4>2. TopKind(c) \in Container \cup {"none", "string"} /\ TopKind(c) # "string"
        BY <4>1, Zenon DEF Modes
      <4>3. QED
        BY <4>2
    <3>2. c.top # 0 => TopKind(c) = c.type[c.top] /\ c.type[c.top] \in Kind
      <4>1. c.top # 0 => c.top \in 1 .. c.n
        BY <1>3, <2>11
      <4>2. QED
        BY <2>11, <4>1 DEF TopKind
    <3>3. "none" \notin Kind
      BY DEF Kind, Container
    <3>4. QED
      BY <2>11, <3>1, <3>2, <3>3
  <2>3. c.top # 0 => ns[c.top].type = c.type[c.top]
    BY <1>7, <2>2 DEF Extended
  <2>4. flags' = flags \cup {"need_comma"} \cup
                 (IF c.top = 0 THEN {"done"} ELSE IF c.type[c.top] = "array" THEN {"seek_value"} ELSE {})
    BY <1>9, <1>10, <2>3 DEF After
  <2>5. "need_comma" \in flags' /\ "string" \notin flags' /\ "line_comment" \notin flags'
        /\ "block_comment" \notin flags'
    BY <1>3, <2>4 DEF Has, InComment
  <2>6. "done" \notin flags' => /\ top' # 0 /\ nodes'[top'].type \in Container
                                /\ nodes'[top'].type = "array" => "seek_value" \in flags'
    <3>1. CASE c.top = 0
      BY <2>4, <3>1
    <3>2. CASE c.top # 0
      <4>1. top' = c.top /\ c.top \in 1 .. c.n
        BY <1>10, <2>2, <3>2
      <4>2. nodes'[top'].type = c.type[c.top]
        BY <2>1, <4>1
      <4>3. QED
        BY <2>2, <2>4, <3>2, <4>1, <4>2
    <3>3. QED
      BY <3>1, <3>2
  <2>7. c.n + 1 # 0
    BY <1>3
  <2>8. ptr' = ptr
    BY <1>4
  <2>9. Doomed(c.n + 1)'
    BY <1>2, <1>10, <1>11, <1>15, <2>1, <2>5, <2>6, <2>7, <2>8 DEF Doomed, Has, InComment, Top
  <2>10. QED
    BY <2>9
<1>16. CASE b \notin NumberToken
  <2>1. PICK e : e = ptr
    OBVIOUS
  <2>2. PICK k \in Numeric : k = n.type
    BY <1>7
  <2>3. PICK d : AddsClosed(c, d, k) /\ d.ptr = e
    BY SomeShape
  <2>4. IsNumber(text', c.ptr, d.ptr)
    <3>1. e \in c.ptr .. Len(text') /\ text'[e] \notin NumberToken
      BY <1>3, <1>11, <1>12, <1>16, <2>1
    <3>2. \A j \in c.ptr .. e - 1 : text'[j] \in NumberToken
      <4>1. TAKE j \in c.ptr .. e - 1
      <4>2. j \in c.ptr .. Len(text) /\ j < ptr /\ j \in 1 .. Len(text)
        BY <1>3, <1>12, <2>1
      <4>3. QED
        BY <1>2, <1>11, <4>2 DEF Drawn
    <3>3. QED
      BY <2>3, <3>1, <3>2 DEF IsNumber
  <2>5. Leads(c, d, text')
    <3>1. AddsClosed(c, d, "integer") \/ AddsClosed(c, d, "double")
      BY <2>3 DEF Numeric
    <3>2. Seeking(c, d, text', text'[c.ptr])
      BY <1>2, <1>13, <2>4, <3>1 DEF Seeking
    <3>3. ~In(c, "line_comment") /\ ~In(c, "block_comment")
      BY <1>2 DEF Commented
    <3>4. text'[c.ptr] \notin {"//", "/*"} /\ c.ptr <= Len(text')
      BY <1>13 DEF Digit
    <3>5. QED
      BY <1>2, <3>2, <3>3, <3>4 DEF Leads
  <2>6. d.ptr <= Len(text') + 1 /\ ptr' = d.ptr
    BY <1>4, <1>11, <2>1, <2>3
  <2>7. k \in Kind
    BY DEF Numeric, Kind
  <2>8. /\ NextFlag(ns, c.n + 1, flags) /\ Extended(c, ns, k)
        /\ flags \subseteq flags /\ string_length' \in Nat
    BY <1>2, <1>4, <1>7, <2>2
  <2>9. First(d)'
    <3> DEFINE f == flags
    <3>1. NextFlag(ns, c.n + 1, f) /\ f \subseteq flags /\ f \ NumberFlags = c.flags \ {"seek_value"}
      BY <1>2, <2>8
    <3>2. AddsClosed(c, d, k)
      BY <2>3
    <3> HIDE DEF f
    <3>3. QED
      BY <1>2, <1>8, <1>14, <2>5, <2>6, <2>7, <2>8, <3>1, <3>2, FirstAdds
  <2>10. QED
    BY <2>5, <2>9
<1>17. QED
  BY <1>15, <1>16

-----------------------------------------------------------------------------
(* All rounds of the loop, and the failures of the first pass.             *)

Chosen(c) ==
  \/ Refused(c) \/ Went(c) \/ Uncommented(c) \/ Wrote(c) \/ NameBegan(c) \/ NameEnded(c)
  \/ ValueClosed(c) \/ ValueOpened(c) \/ LiteralRead(c)

LEMMA NoNumberHere ==
  ASSUME NEW c, Here(c), NEW b \in Token
  PROVE  ~InNumber(b)
<1>1. SUFFICES ASSUME InNumber(b) PROVE FALSE
  OBVIOUS
<1>2. /\ ~Has("done") /\ top # 0 /\ Top.type \in {"integer", "double"}
  BY <1>1 DEF InNumber
<1>3. ~In(c, "done") /\ TopKind(c) = Top.type
  <2>1. ~In(c, "done")
    BY <1>2, FlagsHere DEF Flag
  <2>2. TopKind(c) = Top.type
    BY <1>2 DEF Here, TopKind, Top
  <2>3. QED
    BY <2>1, <2>2
<1>4. TopKind(c) \in Container \cup {"none", "string"}
  BY <1>3 DEF Here, Regular, Modes
<1>5. QED
  BY <1>2, <1>3, <1>4 DEF Container

LEMMA RoundReads ==
  ASSUME Step, pc = "parse"
  PROVE  \E b \in Token : Read(b)
<1>1. "quote" \in Token /\ "]" \in Token /\ "rbrace" \in Token /\ "end" \in Token
      /\ "literal" \in Token /\ "lbrace" \in Token /\ "[" \in Token
  BY DEF Token
<1>2. ASSUME NEW b \in Token,
             \/ StringRound(b) \/ LineComment(b) \/ BlockComment(b) \/ CommentBegins(b)
             \/ Trailing(b) \/ BetweenValues(b) \/ NoValue(b) \/ OutOfMemory(b)
             \/ NumberBegins(b) \/ NumberSkipped(b) \/ Entry(b)
             \/ DigitRound(b) \/ NumberPart(b) \/ NumberEnds(b)
      PROVE  Read(b)
  BY <1>2 DEF StringRound, LineComment, BlockComment, CommentBegins, Trailing, BetweenValues, NoValue,
              OutOfMemory, NumberBegins, NumberSkipped, Entry, DigitRound, NumberPart, NumberEnds,
              InNumber, InObject, Seeks, Outside
<1>3. CASE StringEnds \/ NameEnds \/ PassEnds \/ ArrayEnds \/ Literal \/ ObjectEnds
  BY <1>1, <1>3 DEF StringEnds, NameEnds, PassEnds, ArrayEnds, Literal, ObjectEnds, Seeks, InObject, Outside
<1>4. CASE Opens("lbrace", "object") \/ Opens("[", "array") \/ Opens("quote", "string")
  BY <1>1, <1>4 DEF Opens, Seeks, Outside
<1>5. CASE Discard \/ Release \/ Free
  BY <1>5 DEF Discard, Release, Free
<1>6. QED
  BY <1>2, <1>3, <1>4, <1>5 DEF Step

LEMMA RoundChoice ==
  ASSUME NEW c, Here(c), pc = "parse", Step
  PROVE  /\ Reading(c)
         /\ \/ Chosen(c) \/ PassEnds
            \/ \E b \in Token : OutOfMemory(b) \/ NumberBegins(b) \/ NumberSkipped(b)
<1>1. Reading(c)
  <2>1. PICK b \in Token : Read(b)
    BY RoundReads
  <2>2. QED
    BY <2>1, ReadHere DEF Reading
<1>2. ASSUME NEW b \in Token,
             \/ StringRound(b) \/ LineComment(b) \/ BlockComment(b) \/ CommentBegins(b)
             \/ Trailing(b) \/ BetweenValues(b) \/ NoValue(b) \/ OutOfMemory(b)
             \/ NumberBegins(b) \/ NumberSkipped(b) \/ Entry(b)
             \/ DigitRound(b) \/ NumberPart(b) \/ NumberEnds(b)
      PROVE  Chosen(c) \/ OutOfMemory(b) \/ NumberBegins(b) \/ NumberSkipped(b)
  <2>1. CASE StringRound(b)
    BY <2>1, StringChoice DEF Chosen
  <2>2. CASE LineComment(b) \/ BlockComment(b) \/ CommentBegins(b)
    BY <2>2, CommentChoice DEF Chosen
  <2>3. CASE Trailing(b)
    BY <2>3, TrailingChoice DEF Chosen
  <2>4. CASE BetweenValues(b) \/ NoValue(b)
    BY <2>4, BetweenChoice DEF Chosen
  <2>5. CASE Entry(b)
    BY <2>5, EntryChoice DEF Chosen
  <2>6. CASE DigitRound(b) \/ NumberPart(b) \/ NumberEnds(b)
    BY <2>6, NoNumberHere DEF DigitRound, NumberPart, NumberEnds
  <2>7. QED
    BY <1>2, <2>1, <2>2, <2>3, <2>4, <2>5, <2>6
<1>3. CASE StringEnds \/ ArrayEnds \/ ObjectEnds
  BY <1>1, <1>3, EndsChoice DEF Chosen
<1>4. CASE NameEnds
  BY <1>1, <1>4, NameChoice DEF Chosen
<1>5. CASE Literal
  BY <1>1, <1>5, LiteralChoice DEF Chosen
<1>6. CASE Opens("lbrace", "object") \/ Opens("[", "array") \/ Opens("quote", "string")
  <2>1. OpenedKind("lbrace") = "object" /\ OpenedKind("[") = "array" /\ OpenedKind("quote") = "string"
    BY DEF OpenedKind
  <2>2. PICK b \in {"[", "lbrace", "quote"} : Opens(b, OpenedKind(b))
    BY <1>6, <2>1
  <2>3. ValueOpened(c)
    BY <2>2, OpensChoice
  <2>4. QED
    BY <1>1, <2>3 DEF Chosen
<1>7. CASE Discard \/ Release \/ Free
  BY <1>7 DEF Discard, Release, Free
<1>8. QED
  BY <1>1, <1>2, <1>3, <1>4, <1>5, <1>6, <1>7 DEF Step

\* The values of the first pass while they are discarded, and then.
Dropped ==
  /\ pass = 1 /\ areas = {} /\ ptr <= Len(text) + 1
  /\ \E k \in Nat :
       /\ nodes \in [1 .. k -> Node]
       /\ \A v \in 1 .. k : nodes[v].reserved = (IF v < k THEN v + 1 ELSE 0)
       /\ \/ pc = "discard" /\ alloc \in 0 .. k /\ live = (IF alloc = 0 THEN {} ELSE alloc .. k)
          \/ pc = "returned" /\ live = {}

LEMMA FirstDrops ==
  ASSUME NEW k, Chain(k), pass = 1, ptr <= Len(text') + 1,
         Refuse \/ NewValueFails
  PROVE  Dropped'
<1>1. /\ pc' = "discard" /\ alloc' = root /\ UNCHANGED <<pass, ptr, nodes, live, areas>>
  BY DEF Refuse, NewValueFails, Fail, memory
<1>2. /\ k \in Nat /\ nodes \in [1 .. k -> Node] /\ live = 1 .. k /\ areas = {}
      /\ root = (IF k = 0 THEN 0 ELSE 1)
      /\ \A v \in 1 .. k : nodes[v].reserved = (IF v < k THEN v + 1 ELSE 0)
  BY DEF Chain
<1>3. alloc' \in 0 .. k /\ live' = (IF alloc' = 0 THEN {} ELSE alloc' .. k)
  <2>1. CASE k = 0
    BY <1>1, <1>2, <2>1
  <2>2. CASE k # 0
    BY <1>1, <1>2, <2>2
  <2>3. QED
    BY <2>1, <2>2
<1>4. QED
  BY <1>1, <1>2, <1>3 DEF Dropped

LEMMA NumberChain ==
  ASSUME NEW c, InNumberAt(c)
  PROVE  Chain(c.n + 1)
<1>1. PICK type \in Numeric : Extended(c, nodes, type)
  BY DEF InNumberAt
<1>2. c.n \in Nat /\ c.n + 1 # 0 /\ c.n + 1 \in Nat
  BY NumberHere
<1>3. QED
  BY <1>1, <1>2 DEF InNumberAt, Extended, Chain

LEMMA DroppedStep ==
  ASSUME Dropped, Step
  PROVE  Dropped'
<1>1. PICK k \in Nat :
        /\ nodes \in [1 .. k -> Node]
        /\ \A v \in 1 .. k : nodes[v].reserved = (IF v < k THEN v + 1 ELSE 0)
        /\ \/ pc = "discard" /\ alloc \in 0 .. k /\ live = (IF alloc = 0 THEN {} ELSE alloc .. k)
           \/ pc = "returned" /\ live = {}
  BY DEF Dropped
<1>2. pc # "parse" /\ pc # "parsed" /\ pc # "free"
  BY <1>1
<1>3. Discard
  <2>1. ASSUME NEW b, Read(b) PROVE FALSE
    BY <1>2, <2>1 DEF Read
  <2>2. ASSUME NEW b, \/ StringRound(b) \/ LineComment(b) \/ BlockComment(b) \/ CommentBegins(b)
                      \/ Trailing(b) \/ BetweenValues(b) \/ NoValue(b) \/ OutOfMemory(b)
                      \/ NumberBegins(b) \/ NumberSkipped(b) \/ Entry(b)
                      \/ DigitRound(b) \/ NumberPart(b) \/ NumberEnds(b)
        PROVE  FALSE
    BY <2>1, <2>2 DEF StringRound, LineComment, BlockComment, CommentBegins, Trailing, BetweenValues,
              NoValue, OutOfMemory, NumberBegins, NumberSkipped, Entry, DigitRound, NumberPart, NumberEnds,
              InNumber, InObject, Seeks, Outside
  <2>3. ~(StringEnds \/ NameEnds \/ PassEnds \/ ArrayEnds \/ Literal \/ ObjectEnds)
    BY <2>1 DEF StringEnds, NameEnds, PassEnds, ArrayEnds, Literal, ObjectEnds, Seeks, InObject, Outside
  <2>4. ~(Opens("lbrace", "object") \/ Opens("[", "array") \/ Opens("quote", "string"))
    BY <2>1 DEF Opens, Seeks, Outside
  <2>5. ~Release /\ ~Free
    BY <1>2 DEF Release, Free
  <2>6. QED
    BY <2>2, <2>3, <2>4, <2>5 DEF Step
<1>4. /\ pc = "discard" /\ alloc \in 0 .. k /\ live = (IF alloc = 0 THEN {} ELSE alloc .. k)
      /\ UNCHANGED <<text, pass, ptr, nodes, areas>> /\ pass = 1
  BY <1>1, <1>3 DEF Discard, Dropped
<1>5. CASE alloc # 0
  <2>1. live' = live \ {alloc} /\ alloc' = nodes[alloc].reserved /\ pc' = pc
    BY <1>3, <1>5 DEF Discard
  <2>2. alloc \in 1 .. k /\ alloc' = (IF alloc < k THEN alloc + 1 ELSE 0)
    BY <1>1, <1>4, <1>5, <2>1
  <2>3. alloc' \in 0 .. k /\ live' = (IF alloc' = 0 THEN {} ELSE alloc' .. k)
    BY <1>4, <1>5, <2>1, <2>2
  <2>4. QED
    BY <1>1, <1>4, <2>1, <2>3 DEF Dropped
<1>6. CASE alloc = 0
  <2>1. live' = live /\ pc' = "returned" /\ alloc' = alloc
    BY <1>3, <1>4, <1>6 DEF Discard
  <2>2. QED
    BY <1>1, <1>4, <1>6, <2>1 DEF Dropped
<1>7. QED
  BY <1>5, <1>6

-----------------------------------------------------------------------------
(* The second pass: c is where it is, f where the first one ended.         *)

Finished(f) == Regular(f) /\ In(f, "done")

NeedsRoom(f, v) == f.type[v] = "string" \/ (f.type[v] \in Container /\ f.length[v] > 0)

\* What the second pass has not come to.
Fresh(f, v) ==
  /\ nodes[v].length = f.length[v] /\ nodes[v].reserved = (IF v < f.n THEN v + 1 ELSE 0)
  /\ nodes[v].items = <<>>

\* A value with its memory, as far as it is filled.
Filled(c, f, v) ==
  /\ f.type[v] \in Container \cup {"string"} => nodes[v].length = c.length[v]
  /\ f.type[v] = "string" => Len(nodes[v].mem) = f.length[v] + 1
  /\ f.type[v] \in Container /\ f.length[v] > 0 => nodes[v].room = f.length[v]
  /\ f.type[v] = "object" /\ f.length[v] > 0 =>
       Len(nodes[v].mem) = f.chars[v] /\ nodes[v].reserved = c.chars[v]

Allocated(c, f) ==
  /\ nodes \in [1 .. f.n -> Node] /\ live = 1 .. f.n
  /\ root = (IF c.n = 0 THEN 0 ELSE 1) /\ alloc = (IF c.n < f.n THEN c.n + 1 ELSE 0)
  /\ areas = {v \in 1 .. c.n : NeedsRoom(f, v)}
  /\ \A v \in 1 .. f.n : /\ nodes[v].type = f.type[v] /\ nodes[v].parent = f.parent[v]
                         /\ nodes[v].chars = f.chars[v]
  /\ \A v \in 1 .. f.n : v > c.n => Fresh(f, v)
  /\ \A v \in 1 .. c.n : Filled(c, f, v)

\* The slots s of the value v hold the complete values in it.
Slots(s, v, c, f) ==
  /\ \A i \in 1 .. Len(s) : s[i] \in c.closed /\ f.parent[s[i]] = v
  /\ \A i, j \in 1 .. Len(s) : s[i] = s[j] => i = j
  /\ \A w \in c.closed : f.parent[w] = v => \E i \in 1 .. Len(s) : s[i] = w
  /\ v <= c.n /\ f.type[v] \in Container => Len(s) = c.length[v]

Slotted(c, f) == \A v \in 1 .. f.n : Slots(nodes[v].items, v, c, f)

Second(c, f) ==
  pc = "parse" /\ pass = 2 /\ Here(c) /\ Finished(f) /\ Later(c, f) /\ Allocated(c, f) /\ Slotted(c, f)

\* It goes on as the first pass did.
Repeats(c, d, f) == Regular(d) /\ Later(d, f) /\ Leads(c, d, text) /\ text' = text

\* What is written into memory changes nothing else.
Alike(ns) ==
  \A w \in DOMAIN nodes :
    /\ ns[w].type = nodes[w].type /\ ns[w].parent = nodes[w].parent
    /\ ns[w].length = nodes[w].length /\ ns[w].chars = nodes[w].chars
    /\ ns[w].reserved = nodes[w].reserved /\ ns[w].room = nodes[w].room
    /\ ns[w].items = nodes[w].items /\ Len(ns[w].mem) = Len(nodes[w].mem)

LEMMA FinishedPending ==
  ASSUME NEW f, Finished(f)
  PROVE  \A v : Pending(f, v) = 0 /\ PendingChars(f, v) = 0
<1>1. Unclosed(f) = {} /\ ~In(f, "seek_value") /\ ~In(f, "string")
  BY DEF Finished, Regular, Modes, Unclosed
<1>2. QED
  BY <1>1 DEF Pending, PendingChars

\* The first pass counted at least what the second one has found so far.
LEMMA Counted ==
  ASSUME NEW c, NEW f, Finished(f), Later(c, f), Regular(c), NEW v \in 1 .. c.n
  PROVE  /\ v \in 1 .. f.n /\ f.type[v] = c.type[v] /\ f.parent[v] = c.parent[v]
         /\ c.length[v] \in Nat /\ f.length[v] \in Nat /\ c.chars[v] \in Nat /\ f.chars[v] \in Nat
         /\ Pending(c, v) \in Nat /\ PendingChars(c, v) \in Nat
         /\ c.length[v] + Pending(c, v) <= f.length[v]
         /\ c.chars[v] + PendingChars(c, v) <= f.chars[v]
<1>1. Typed(c) /\ Typed(f)
  BY DEF Regular, Finished
<1>2. v \in 1 .. f.n
  BY <1>1 DEF Typed, Later
<1>3. c.length[v] \in Nat /\ f.length[v] \in Nat /\ c.chars[v] \in Nat /\ f.chars[v] \in Nat
  BY <1>1, <1>2 DEF Typed
<1>4. Pending(c, v) \in Nat /\ PendingChars(c, v) \in Nat
  BY <1>1, PendingTyped
<1>5. Pending(f, v) = 0 /\ PendingChars(f, v) = 0
  BY FinishedPending
<1>6. /\ f.type[v] = c.type[v] /\ f.parent[v] = c.parent[v]
      /\ c.length[v] + Pending(c, v) <= f.length[v] + Pending(f, v)
      /\ c.chars[v] + PendingChars(c, v) <= f.chars[v] + PendingChars(f, v)
  BY DEF Later
<1>7. QED
  BY <1>2, <1>3, <1>4, <1>5, <1>6

LEMMA SlotsKept ==
  ASSUME NEW s, NEW v, NEW c, NEW d, NEW f, Slots(s, v, c, f), d.closed = c.closed,
         v <= d.n /\ f.type[v] \in Container =>
           (v <= c.n /\ d.length[v] = c.length[v]) \/ (d.length[v] = 0 /\ Len(s) = 0)
  PROVE  Slots(s, v, d, f)
<1>1. v <= d.n /\ f.type[v] \in Container => Len(s) = d.length[v]
  BY DEF Slots
<1>2. QED
  BY <1>1, Zenon DEF Slots

\* One more value is complete, in v or in another one.
LEMMA SlotsElsewhere ==
  ASSUME NEW s, NEW v, NEW c, NEW d, NEW f, Slots(s, v, c, f),
         NEW q, d.closed = c.closed \cup {q}, f.parent[q] # v,
         v <= d.n /\ f.type[v] \in Container => v <= c.n /\ d.length[v] = c.length[v]
  PROVE  Slots(s, v, d, f)
<1>1. \A i \in 1 .. Len(s) : s[i] \in d.closed /\ f.parent[s[i]] = v
  BY DEF Slots
<1>2. \A w \in d.closed : f.parent[w] = v => \E i \in 1 .. Len(s) : s[i] = w
  BY DEF Slots
<1>3. v <= d.n /\ f.type[v] \in Container => Len(s) = d.length[v]
  BY DEF Slots
<1>4. \A i, j \in 1 .. Len(s) : s[i] = s[j] => i = j
  BY DEF Slots
<1>5. QED
  BY <1>1, <1>2, <1>3, <1>4 DEF Slots

LEMMA SlotsAdded ==
  ASSUME NEW s \in Seq(Nat), NEW v, NEW c, NEW d, NEW f, Slots(s, v, c, f),
         NEW q \in Nat, d.closed = c.closed \cup {q}, f.parent[q] = v, q \notin c.closed,
         v <= c.n /\ d.length[v] = c.length[v] + 1
  PROVE  Slots(Append(s, q), v, d, f)
<1> DEFINE t == Append(s, q)
           k == Len(s)
<1>1. /\ k \in Nat /\ Len(t) = k + 1 /\ t[k + 1] = q /\ \A i \in 1 .. k : t[i] = s[i]
  BY AppendProperties, LenProperties
<1>2. /\ \A i \in 1 .. k : s[i] \in c.closed /\ f.parent[s[i]] = v
      /\ \A i, j \in 1 .. k : s[i] = s[j] => i = j
      /\ \A w \in c.closed : f.parent[w] = v => \E i \in 1 .. k : s[i] = w
      /\ v <= c.n /\ f.type[v] \in Container => k = c.length[v]
  BY DEF Slots
<1> HIDE DEF t, k
<1>3. \A i \in 1 .. k + 1 : i = k + 1 \/ i \in 1 .. k
  BY <1>1
<1>4. \A i \in 1 .. k + 1 : t[i] \in d.closed /\ f.parent[t[i]] = v
  BY <1>1, <1>2, <1>3
<1>5. \A i \in 1 .. k : t[i] # q
  BY <1>1, <1>2
<1>6. \A i, j \in 1 .. k + 1 : t[i] = t[j] => i = j
  BY <1>1, <1>2, <1>3, <1>5
<1>7. \A w \in d.closed : f.parent[w] = v => \E i \in 1 .. k + 1 : t[i] = w
  <2>1. TAKE w \in d.closed
  <2>2. SUFFICES ASSUME f.parent[w] = v PROVE \E i \in 1 .. k + 1 : t[i] = w
    OBVIOUS
  <2>3. CASE w = q
    <3>1. k + 1 \in 1 .. k + 1
      BY <1>1
    <3>2. QED
      BY <1>1, <2>3, <3>1
  <2>4. CASE w # q
    <3>1. PICK i \in 1 .. k : s[i] = w
      BY <1>2, <2>2, <2>4
    <3>2. i \in 1 .. k + 1 /\ t[i] = w
      BY <1>1, <3>1
    <3>3. QED
      BY <3>2
  <2>5. QED
    BY <2>3, <2>4
<1>8. f.type[v] \in Container => k + 1 = d.length[v]
  BY <1>2
<1>9. Slots(t, v, d, f)
  BY <1>1, <1>4, <1>6, <1>7, <1>8 DEF Slots
<1>10. QED
  BY <1>9 DEF t

\* A step that leaves the values as they are, but for what is in their memory.
LEMMA KeepsSecond ==
  ASSUME NEW c, NEW d, NEW f, Second(c, f), Repeats(c, d, f), Reading(c), KeepsValues(c, d),
         ptr' = d.ptr, d.ptr \in {c.ptr, c.ptr + 1}, flags' \ NumberFlags = d.flags,
         flags' \subseteq Flag \cup NumberFlags,
         string_length' \in Nat, In(d, "string") => string_length' = d.sl,
         nodes' \in [1 .. f.n -> Node], Alike(nodes'),
         UNCHANGED <<top, root, alloc, live, areas, pass, pc>>
  PROVE  Second(d, f)'
<1>1. /\ Here(c) /\ Regular(c) /\ pass = 2 /\ pc = "parse" /\ Allocated(c, f) /\ Finished(f)
      /\ Regular(d) /\ Later(d, f) /\ Leads(c, d, text') /\ text' = text
  BY DEF Second, Here, Repeats
<1>2. text' \in Seq(Token) /\ c.ptr <= Len(text') /\ Len(text') \in Nat /\ c.ptr \in Nat
  BY DEF Reading
<1>3. d.top = c.top /\ d.n = c.n /\ d.type = c.type /\ d.parent = c.parent
      /\ d.length = c.length /\ d.chars = c.chars
  BY DEF KeepsValues
<1>4. nodes \in [1 .. f.n -> Node] /\ c.n \in Nat /\ f.n \in Nat /\ c.n <= f.n
  BY <1>1 DEF Allocated, Regular, Typed, Second, Later, Finished
<1>5. \A w \in 1 .. f.n :
        /\ nodes'[w].type = nodes[w].type /\ nodes'[w].parent = nodes[w].parent
        /\ nodes'[w].length = nodes[w].length /\ nodes'[w].chars = nodes[w].chars
        /\ nodes'[w].reserved = nodes[w].reserved /\ nodes'[w].room = nodes[w].room
        /\ nodes'[w].items = nodes[w].items /\ Len(nodes'[w].mem) = Len(nodes[w].mem)
  BY <1>4 DEF Alike
<1>6. Here(d)'
  <2>1. ptr' <= Len(text') + 1
    BY <1>2
  <2>2. top' = d.top /\ (top' # 0 => nodes'[top'].type = d.type[top'])
    <3>1. top = c.top /\ (top # 0 => nodes[top].type = c.type[top]) /\ top \in 0 .. c.n
      BY <1>1 DEF Here, Regular, Typed
    <3>2. top # 0 => top \in 1 .. f.n
      BY <1>4, <3>1
    <3>3. QED
      BY <1>3, <1>5, <3>1, <3>2
  <2>3. QED
    BY <1>1, <1>2, <2>1, <2>2 DEF Here
<1>7. \A v \in 1 .. f.n : v > d.n => Fresh(f, v)'
  BY <1>1, <1>3, <1>5 DEF Allocated, Fresh
<1>8. ASSUME NEW v \in 1 .. d.n PROVE Filled(d, f, v)'
  <2>1. v \in 1 .. c.n /\ v \in 1 .. f.n
    BY <1>3, <1>4
  <2>2. Filled(c, f, v)
    BY <1>1, <2>1 DEF Allocated
  <2>3. QED
    BY <1>3, <1>5, <2>1, <2>2 DEF Filled
<1>9. Allocated(d, f)'
  <2>1. /\ live' = 1 .. f.n /\ root' = (IF d.n = 0 THEN 0 ELSE 1)
        /\ alloc' = (IF d.n < f.n THEN d.n + 1 ELSE 0)
        /\ areas' = {v \in 1 .. d.n : NeedsRoom(f, v)}
    BY <1>1, <1>3 DEF Allocated
  <2>2. \A v \in 1 .. f.n : /\ nodes'[v].type = f.type[v] /\ nodes'[v].parent = f.parent[v]
                            /\ nodes'[v].chars = f.chars[v]
    BY <1>1, <1>5 DEF Allocated
  <2>3. QED
    BY <1>7, <1>8, <2>1, <2>2 DEF Allocated
<1>10. Slotted(d, f)'
  <2>1. ASSUME NEW v \in 1 .. f.n PROVE Slots(nodes'[v].items, v, d, f)
    <3>1. PICK s : s = nodes[v].items
      OBVIOUS
    <3>2. Slots(s, v, c, f) /\ d.closed = c.closed
      BY <3>1 DEF Second, Slotted, KeepsValues
    <3>3. Slots(s, v, d, f)
      BY <1>3, <3>2, SlotsKept
    <3>4. QED
      BY <1>5, <3>1, <3>3
  <2>2. QED
    BY <2>1 DEF Slotted
<1>11. QED
  BY <1>1, <1>6, <1>9, <1>10 DEF Second

LEMMA AlikeSelf ==
  ASSUME nodes' = nodes
  PROVE  Alike(nodes')
BY DEF Alike

LEMMA SecondWent ==
  ASSUME NEW c, NEW d, NEW f, Second(c, f), Repeats(c, d, f), Reading(c), Went(c)
  PROVE  Second(d, f)'
<1>1. Here(c) /\ Leads(c, d, text') /\ nodes \in [1 .. f.n -> Node]
  BY DEF Second, Repeats, Allocated
<1>2. PICK g : /\ Continue(g) /\ g \subseteq flags \cup {"escaped", "line_comment", "block_comment"}
               /\ GoesOn(c, d, g \ NumberFlags)
  BY <1>1 DEF Went
<1>3. KeepsValues(c, d) /\ d.ptr = c.ptr + 1 /\ d.flags = g \ NumberFlags /\ d.sl = c.sl
  BY <1>2 DEF GoesOn
<1>4. /\ ptr' = ptr + 1 /\ flags' = g /\ string_length' = string_length
      /\ UNCHANGED <<nodes, top, root, alloc, live, areas, pass, pc>>
  BY <1>2 DEF Continue, Round, values, memory
<1>5. /\ g \subseteq Flag \cup NumberFlags /\ (In(d, "string") => In(c, "string"))
      /\ ptr = c.ptr /\ string_length \in Nat /\ (In(c, "string") => string_length = c.sl)
  BY <1>1, <1>2, <1>3, WentFlags DEF Here, In
<1>6. nodes' \in [1 .. f.n -> Node] /\ Alike(nodes')
  BY <1>1, <1>4, AlikeSelf
<1>7. QED
  BY <1>3, <1>4, <1>5, <1>6, KeepsSecond

LEMMA SecondUncommented ==
  ASSUME NEW c, NEW d, NEW f, Second(c, f), Repeats(c, d, f), Reading(c), Uncommented(c)
  PROVE  Second(d, f)'
<1>1. Here(c) /\ Leads(c, d, text') /\ nodes \in [1 .. f.n -> Node]
  BY DEF Second, Repeats, Allocated
<1>2. KeepsValues(c, d) /\ d.ptr = c.ptr /\ d.flags = c.flags \ {"line_comment"} /\ d.sl = c.sl
  BY <1>1 DEF Uncommented, Uncomments
<1>3. /\ ptr' = ptr /\ flags' = flags \ {"line_comment"} /\ string_length' = string_length
      /\ UNCHANGED <<nodes, top, root, alloc, live, areas, pass, pc>>
  BY DEF Uncommented, Reproc, values, memory
<1>4. /\ ptr = c.ptr /\ string_length \in Nat /\ (In(c, "string") => string_length = c.sl)
      /\ flags \subseteq Flag \cup NumberFlags /\ flags \ NumberFlags = c.flags
  BY <1>1 DEF Here
<1>5. /\ In(d, "string") => string_length' = d.sl
      /\ flags' \ NumberFlags = d.flags /\ flags' \subseteq Flag \cup NumberFlags
  BY <1>2, <1>3, <1>4 DEF In
<1>6. nodes' \in [1 .. f.n -> Node] /\ Alike(nodes')
  BY <1>1, <1>3, AlikeSelf
<1>7. QED
  BY <1>2, <1>3, <1>4, <1>5, <1>6, KeepsSecond

LEMMA SecondNameBegan ==
  ASSUME NEW c, NEW d, NEW f, Second(c, f), Repeats(c, d, f), Reading(c), NameBegan(c)
  PROVE  Second(d, f)'
<1>1. Here(c) /\ Leads(c, d, text') /\ nodes \in [1 .. f.n -> Node]
  BY DEF Second, Repeats, Allocated
<1>2. KeepsValues(c, d) /\ d.ptr = c.ptr + 1 /\ d.flags = c.flags \cup {"string"} /\ d.sl = 0
  BY <1>1 DEF NameBegan, BeginsName
<1>3. /\ ptr' = ptr + 1 /\ flags' = flags \cup {"string"} /\ string_length' = 0
      /\ UNCHANGED <<nodes, top, root, alloc, live, areas, pass, pc>>
  BY DEF NameBegan, Round, values, memory
<1>4. /\ ptr = c.ptr /\ flags \subseteq Flag \cup NumberFlags /\ flags \ NumberFlags = c.flags
  BY <1>1 DEF Here
<1>5. /\ string_length' \in Nat /\ string_length' = d.sl
      /\ flags' \ NumberFlags = d.flags /\ flags' \subseteq Flag \cup NumberFlags
  BY <1>2, <1>3, <1>4 DEF Flag, NumberFlags
<1>6. nodes' \in [1 .. f.n -> Node] /\ Alike(nodes')
  BY <1>1, <1>3, AlikeSelf
<1>7. QED
  BY <1>2, <1>3, <1>4, <1>5, <1>6, KeepsSecond

LEMMA SecondTop ==
  ASSUME NEW c, NEW f, Second(c, f), c.top # 0
  PROVE  /\ f.n \in Nat /\ c.n \in Nat /\ c.n <= f.n /\ nodes \in [1 .. f.n -> Node]
         /\ top = c.top /\ top \in 1 .. c.n /\ top \in 1 .. f.n
         /\ nodes[top].type = c.type[top] /\ f.type[top] = c.type[top]
         /\ string_length \in Nat
<1>1. /\ Typed(c) /\ Typed(f) /\ c.n <= f.n /\ top = c.top /\ nodes \in [1 .. f.n -> Node]
      /\ string_length \in Nat /\ (top # 0 => nodes[top].type = c.type[top])
  BY DEF Second, Here, Regular, Finished, Later, Allocated
<1>2. c.n \in Nat /\ f.n \in Nat /\ c.top \in 0 .. c.n
  BY <1>1 DEF Typed
<1>3. top \in 1 .. c.n /\ top \in 1 .. f.n
  BY <1>1, <1>2
<1>4. f.type[top] = c.type[top]
  BY <1>3 DEF Second, Later
<1>5. QED
  BY <1>1, <1>2, <1>3, <1>4

\* In a string there is a value it is read for.
LEMMA StringTop ==
  ASSUME NEW c, Regular(c), In(c, "string")
  PROVE  c.top # 0 /\ ~In(c, "done") /\ c.type[c.top] \in {"string", "object"} /\ c.top \in Unclosed(c)
<1>1. TopKind(c) \in {"string", "object"} /\ ~In(c, "done")
  BY DEF Regular, Modes
<1>2. c.top # 0
  BY <1>1 DEF TopKind
<1>3. c.top \in Unclosed(c)
  BY <1>1, <1>2, TopIn
<1>4. QED
  BY <1>1, <1>2, <1>3 DEF TopKind

LEMMA SecondWrote ==
  ASSUME NEW c, NEW d, NEW f, Second(c, f), Repeats(c, d, f), Reading(c), Wrote(c)
  PROVE  Second(d, f)'
<1>1. /\ Here(c) /\ Regular(c) /\ Leads(c, d, text') /\ nodes \in [1 .. f.n -> Node]
      /\ pass = 2 /\ f.n \in Nat
  BY DEF Second, Repeats, Allocated, Here, Finished, Regular, Typed
<1>2. PICK b \in Token : /\ StringAdd(b, flags \ {"escaped"}) /\ In(c, "string") /\ Writes(c, d, b)
  BY <1>1 DEF Wrote
<1>3. KeepsValues(c, d) /\ d.ptr = c.ptr + 1 /\ d.flags = c.flags \ {"escaped"} /\ d.sl = c.sl + Width(b)
  BY <1>2 DEF Writes
<1>4. /\ ptr' = ptr + 1 /\ flags' = flags \ {"escaped"} /\ string_length' = string_length + Width(b)
      /\ nodes' = Written(b, Width(b)) /\ UNCHANGED <<top, root, alloc, live, areas, pass, pc>>
  BY <1>1, <1>2 DEF StringAdd, StringAdds, Round, memory
<1>5. /\ ptr = c.ptr /\ string_length \in Nat /\ string_length = c.sl
      /\ flags \subseteq Flag \cup NumberFlags /\ flags \ NumberFlags = c.flags
  BY <1>1, <1>2 DEF Here
<1>6. Width(b) \in Nat
  BY WidthTyped
<1>7. /\ string_length' \in Nat /\ string_length' = d.sl
      /\ flags' \ NumberFlags = d.flags /\ flags' \subseteq Flag \cup NumberFlags
  BY <1>3, <1>4, <1>5, <1>6
<1>8. top \in 1 .. f.n /\ b \in Byte
  BY <1>1, <1>2, StringTop, SecondTop DEF Byte
<1>9. nodes' \in [1 .. f.n -> Node] /\ Alike(nodes')
  BY <1>1, <1>4, <1>6, <1>8, WrittenFields DEF Alike
<1>10. QED
  BY <1>3, <1>4, <1>5, <1>7, <1>9, KeepsSecond

\* The values are those of d.
LEMMA SecondFrom ==
  ASSUME NEW c, NEW d, NEW f, Second(c, f), Repeats(c, d, f), Reading(c),
         ptr' = d.ptr, d.ptr <= Len(text') + 1, flags' \ NumberFlags = d.flags,
         flags' \subseteq Flag \cup NumberFlags,
         string_length' \in Nat, In(d, "string") => string_length' = d.sl, top' = d.top,
         nodes' \in [1 .. f.n -> Node],
         \A v \in 1 .. f.n : /\ nodes'[v].type = nodes[v].type /\ nodes'[v].parent = nodes[v].parent
                             /\ nodes'[v].chars = nodes[v].chars,
         \A v \in 1 .. f.n : v > d.n => Fresh(f, v)',
         \A v \in 1 .. d.n : Filled(d, f, v)', Slotted(d, f)',
         root' = (IF d.n = 0 THEN 0 ELSE 1), alloc' = (IF d.n < f.n THEN d.n + 1 ELSE 0),
         live' = live, areas' = {v \in 1 .. d.n : NeedsRoom(f, v)}, UNCHANGED <<pass, pc>>
  PROVE  Second(d, f)'
<1>1. /\ Here(c) /\ Regular(c) /\ pass = 2 /\ pc = "parse" /\ Allocated(c, f) /\ Finished(f)
      /\ Regular(d) /\ Later(d, f) /\ Leads(c, d, text') /\ text' = text
  BY DEF Second, Here, Repeats
<1>2. d.n \in Nat /\ f.n \in Nat /\ d.n <= f.n /\ d.top \in 0 .. d.n
  BY <1>1 DEF Regular, Typed, Finished, Later
<1>3. \A v \in 1 .. f.n : /\ nodes'[v].type = f.type[v] /\ nodes'[v].parent = f.parent[v]
                          /\ nodes'[v].chars = f.chars[v]
  BY <1>1 DEF Allocated
<1>4. top' # 0 => nodes'[top'].type = d.type[top']
  <2>1. top' # 0 => top' \in 1 .. d.n /\ top' \in 1 .. f.n
    BY <1>2
  <2>2. top' # 0 => f.type[top'] = d.type[top']
    BY <1>1, <2>1 DEF Later
  <2>3. QED
    BY <1>3, <2>1, <2>2
<1>5. Here(d)'
  BY <1>1, <1>4, HereNext
<1>6. Allocated(d, f)'
  BY <1>1, <1>3 DEF Allocated
<1>7. QED
  BY <1>1, <1>5, <1>6 DEF Second

LEMMA SecondNameEnded ==
  ASSUME NEW c, NEW d, NEW f, Second(c, f), Repeats(c, d, f), Reading(c), NameEnded(c)
  PROVE  Second(d, f)'
<1>1. /\ Here(c) /\ Regular(c) /\ Leads(c, d, text') /\ nodes \in [1 .. f.n -> Node]
      /\ pass = 2 /\ f.n \in Nat /\ Allocated(c, f) /\ c.n \in Nat
  BY DEF Second, Repeats, Allocated, Here, Finished, Regular, Typed
<1>2. Names(c, d) /\ TopKind(c) = "object" /\ In(c, "string")
  BY <1>1 DEF NameEnded
<1>3. /\ d.ptr = c.ptr + 1 /\ d.sl = 0
      /\ d.flags = (c.flags \ {"string"}) \cup {"seek_value", "need_colon"}
      /\ d.top = c.top /\ d.n = c.n /\ d.type = c.type /\ d.parent = c.parent
      /\ d.length = c.length /\ d.closed = c.closed
      /\ d.chars = [w \in 1 .. c.n |-> IF w = c.top THEN c.chars[w] + c.sl + 1 ELSE c.chars[w]]
  BY <1>2 DEF Names
<1> DEFINE ns == Terminated
<1>4. /\ nodes' = [ns EXCEPT ![top] = Named(ns[top])]
      /\ ptr' = ptr + 1 /\ flags' = (flags \ {"string"}) \cup {"seek_value", "need_colon"}
      /\ string_length' = string_length
      /\ UNCHANGED <<top, root, alloc, live, areas, pass, pc>>
  BY DEF NameEnded, Round, memory
<1>5. /\ ptr = c.ptr /\ string_length \in Nat /\ string_length = c.sl /\ top = c.top
      /\ flags \subseteq Flag \cup NumberFlags /\ flags \ NumberFlags = c.flags
  BY <1>1, <1>2 DEF Here
<1>6. top \in 1 .. f.n /\ top \in 1 .. c.n /\ f.type[top] = "object" /\ c.n <= f.n
  <2>1. c.top # 0 /\ c.type[c.top] = "object"
    BY <1>2 DEF TopKind
  <2>2. QED
    BY <2>1, <1>5, SecondTop
<1>7. /\ ns \in [1 .. f.n -> Node]
      /\ \A w \in 1 .. f.n :
           /\ ns[w].type = nodes[w].type /\ ns[w].parent = nodes[w].parent
           /\ ns[w].length = nodes[w].length /\ ns[w].chars = nodes[w].chars
           /\ ns[w].reserved = nodes[w].reserved
           /\ ns[w].room = nodes[w].room /\ ns[w].items = nodes[w].items
           /\ Len(ns[w].mem) = Len(nodes[w].mem)
  <2>1. "nul" \in Byte /\ 1 \in Nat /\ ns = Written("nul", 1)
    BY <1>1 DEF Byte, Terminated
  <2> HIDE DEF ns
  <2>2. QED
    BY <1>1, <1>6, <2>1, WrittenFields
<1> HIDE DEF ns
<1> DEFINE r == Named(ns[top])
<1>8. /\ r \in Node /\ r.type = ns[top].type /\ r.parent = ns[top].parent /\ r.length = ns[top].length
      /\ r.room = ns[top].room /\ r.mem = ns[top].mem /\ r.items = ns[top].items
      /\ r.chars = ns[top].chars /\ r.reserved = ns[top].reserved + string_length + 1
  <2> DEFINE n == ns[top]
  <2>1. n \in Node
    BY <1>6, <1>7
  <2> HIDE DEF n
  <2>2. /\ Named(n) \in Node
        /\ Named(n).type = n.type /\ Named(n).parent = n.parent /\ Named(n).length = n.length
        /\ Named(n).room = n.room /\ Named(n).mem = n.mem /\ Named(n).items = n.items
        /\ Named(n).chars = n.chars
        /\ Named(n).reserved = n.reserved + string_length + 1
    BY <1>1, <1>5, <2>1, NamedFields
  <2>3. QED
    BY <2>2 DEF n
<1>9. nodes' = [ns EXCEPT ![top] = r]
  BY <1>4
<1> HIDE DEF r
<1>10. /\ nodes' \in [1 .. f.n -> Node] /\ nodes'[top] = r
       /\ \A w \in 1 .. f.n : w # top => nodes'[w] = ns[w]
  BY <1>6, <1>7, <1>8, <1>9
<1>11. \A w \in 1 .. f.n :
         /\ nodes'[w].type = nodes[w].type /\ nodes'[w].parent = nodes[w].parent
         /\ nodes'[w].length = nodes[w].length /\ nodes'[w].chars = nodes[w].chars
         /\ nodes'[w].room = nodes[w].room /\ nodes'[w].items = nodes[w].items
         /\ Len(nodes'[w].mem) = Len(nodes[w].mem)
         /\ nodes'[w].reserved = (IF w = top THEN nodes[w].reserved + string_length + 1 ELSE nodes[w].reserved)
  <2>1. TAKE w \in 1 .. f.n
  <2>2. CASE w = top
    BY <1>7, <1>8, <1>10, <2>2
  <2>3. CASE w # top
    BY <1>7, <1>10, <2>3
  <2>4. QED
    BY <2>2, <2>3
<1>12. \A v \in 1 .. f.n : v > d.n => Fresh(f, v)'
  <2>1. \A v \in 1 .. f.n : v > c.n => Fresh(f, v) /\ v # top
    BY <1>1, <1>6 DEF Allocated
  <2>2. QED
    BY <1>3, <1>11, <2>1 DEF Fresh
<1>13. ASSUME NEW v \in 1 .. d.n PROVE Filled(d, f, v)'
  <2>1. v \in 1 .. c.n /\ v \in 1 .. f.n
    BY <1>1, <1>3, <1>6
  <2>2. Filled(c, f, v)
    BY <1>1, <2>1 DEF Allocated
  <2>3. d.chars[v] = (IF v = top THEN c.chars[v] + string_length + 1 ELSE c.chars[v]) /\ d.length[v] = c.length[v]
    BY <1>3, <1>5, <2>1
  <2>4. QED
    BY <1>11, <2>1, <2>2, <2>3 DEF Filled
<1>14. /\ ptr' = d.ptr /\ d.ptr <= Len(text') + 1
       /\ flags' \ NumberFlags = d.flags /\ flags' \subseteq Flag \cup NumberFlags
       /\ string_length' \in Nat /\ ~In(d, "string") /\ top' = d.top
  BY <1>3, <1>4, <1>5 DEF Reading, Flag, NumberFlags, In
<1>15. /\ root' = (IF d.n = 0 THEN 0 ELSE 1) /\ alloc' = (IF d.n < f.n THEN d.n + 1 ELSE 0)
       /\ live' = live /\ areas' = {v \in 1 .. d.n : NeedsRoom(f, v)} /\ UNCHANGED <<pass, pc>>
  BY <1>1, <1>3, <1>4 DEF Allocated
<1>16. Slotted(d, f)'
  <2>1. ASSUME NEW v \in 1 .. f.n PROVE Slots(nodes'[v].items, v, d, f)
    <3>1. PICK s : s = nodes[v].items
      OBVIOUS
    <3>2. Slots(s, v, c, f)
      BY <3>1 DEF Second, Slotted
    <3>3. Slots(s, v, d, f)
      BY <1>3, <3>2, SlotsKept
    <3>4. QED
      BY <1>11, <3>1, <3>3
  <2>2. QED
    BY <2>1 DEF Slotted
<1>17. QED
  BY <1>10, <1>11, <1>12, <1>13, <1>14, <1>15, <1>16, SecondFrom

\* The values ns before the value in p is counted there, which makes them those of d.
Ready(d, f, ns, p) ==
  /\ ns \in [1 .. f.n -> Node]
  /\ \A v \in 1 .. f.n : /\ ns[v].type = f.type[v] /\ ns[v].parent = f.parent[v]
                         /\ ns[v].chars = f.chars[v] /\ ns[v].items = nodes[v].items
  /\ \A v \in 1 .. f.n : v > d.n => /\ ns[v].length = f.length[v] /\ ns[v].items = <<>>
                                    /\ ns[v].reserved = (IF v < f.n THEN v + 1 ELSE 0)
  /\ \A v \in 1 .. d.n :
       /\ f.type[v] \in Container \cup {"string"} =>
            d.length[v] = (IF v = p THEN ns[v].length + 1 ELSE ns[v].length)
       /\ f.type[v] = "string" => Len(ns[v].mem) = f.length[v] + 1
       /\ f.type[v] \in Container /\ f.length[v] > 0 => ns[v].room = f.length[v]
       /\ f.type[v] = "object" /\ f.length[v] > 0 =>
            Len(ns[v].mem) = f.chars[v] /\ ns[v].reserved = d.chars[v]

\* The memory of the values up to those of d.
Provided(d, f) ==
  /\ root' = (IF d.n = 0 THEN 0 ELSE 1) /\ alloc' = (IF d.n < f.n THEN d.n + 1 ELSE 0)
  /\ live' = live /\ areas' = {v \in 1 .. d.n : NeedsRoom(f, v)}

\* The value q is complete.
Completes(c, d, f, q) ==
  /\ q \in 1 .. d.n /\ q \notin c.closed /\ d.closed = c.closed \cup {q}
  /\ d.top = (IF f.parent[q] = 0 THEN q ELSE f.parent[q])
  /\ f.parent[q] # 0 => f.parent[q] \in 1 .. c.n /\ d.length[f.parent[q]] = c.length[f.parent[q]] + 1
  /\ \A v \in 1 .. d.n : f.type[v] \in Container /\ v # f.parent[q] => v <= c.n /\ d.length[v] = c.length[v]

LEMMA SecondCompletes ==
  ASSUME NEW c, NEW d, NEW f, NEW q, NEW STATE ns, NEW STATE g,
         Second(c, f), Repeats(c, d, f), Reading(c), Completes(c, d, f, q),
         Ready(d, f, ns, f.parent[q]), Provided(d, f),
         NextFlag(ns, q, g), g \subseteq flags, "string" \notin g,
         d.flags = Behind(c, f.parent[q], g \ NumberFlags),
         ptr' = d.ptr, d.ptr <= Len(text') + 1, string_length' \in Nat
  PROVE  Second(d, f)'
<1> DEFINE p == f.parent[q]
<1>1. /\ Here(c) /\ Regular(c) /\ pass = 2 /\ Allocated(c, f) /\ Slotted(c, f) /\ Finished(f)
      /\ Regular(d) /\ Later(d, f) /\ Later(c, f) /\ Typed(c) /\ Typed(d) /\ Typed(f)
      /\ nodes \in [1 .. f.n -> Node] /\ flags \subseteq Flag \cup NumberFlags
  BY DEF Second, Here, Repeats, Finished, Regular, Allocated
<1>2. c.n \in Nat /\ d.n \in Nat /\ f.n \in Nat /\ c.n <= f.n /\ d.n <= f.n
  BY <1>1 DEF Typed, Later
<1>3. /\ q \in 1 .. f.n /\ q \in 1 .. d.n /\ q \in Nat /\ q \notin c.closed /\ d.closed = c.closed \cup {q}
      /\ p \in 0 .. f.n /\ p \in 0 .. d.n /\ p \in 0 .. c.n
      /\ d.top = (IF p = 0 THEN q ELSE p)
  <2>1. q \in 1 .. f.n /\ q \in 1 .. d.n
    BY <1>2 DEF Completes
  <2>2. d.top \in 0 .. d.n
    BY <1>1 DEF Typed
  <2>3. p \in Nat
    BY <1>1, <2>1 DEF Typed
  <2>4. QED
    BY <1>2, <2>1, <2>2, <2>3 DEF Completes
<1>4. /\ ns \in [1 .. f.n -> Node] /\ ns[q].parent = p
      /\ \A v \in 1 .. f.n : /\ ns[v].type = f.type[v] /\ ns[v].parent = f.parent[v]
                             /\ ns[v].chars = f.chars[v] /\ ns[v].items = nodes[v].items
  BY <1>3 DEF Ready
<1>5. /\ nodes' = Completed(ns, q) /\ top' = d.top /\ flags' = After(ns, q, g) /\ UNCHANGED <<pass, pc>>
  BY <1>3, <1>4 DEF NextFlag
<1>6. p # 0 => p \in 1 .. f.n /\ ns[p].type = c.type[p]
  <2>1. p # 0 => p \in 1 .. c.n /\ p \in 1 .. f.n
    BY <1>2, <1>3
  <2>2. p # 0 => f.type[p] = c.type[p]
    BY <1>1, <2>1 DEF Later
  <2>3. QED
    BY <1>4, <2>1, <2>2
<1>7. Following(c, g, After(ns, q, g), p)
  <2>1. p = ns[q].parent
    BY <1>4
  <2> HIDE DEF p
  <2>2. QED
    BY <1>1, <1>6, <2>1, AfterFlags
<1>8. /\ flags' \ NumberFlags = d.flags /\ flags' \subseteq Flag \cup NumberFlags /\ ~In(d, "string")
  <2>1. /\ flags' \ NumberFlags = d.flags /\ flags' \subseteq Flag \cup NumberFlags
        /\ "string" \notin flags'
    BY <1>5, <1>7 DEF Following
  <2>2. QED
    BY <2>1 DEF In
<1>9. /\ nodes' \in [1 .. f.n -> Node]
      /\ \A w \in 1 .. f.n :
           /\ nodes'[w].type = ns[w].type /\ nodes'[w].parent = ns[w].parent
           /\ nodes'[w].chars = ns[w].chars /\ nodes'[w].reserved = ns[w].reserved
           /\ nodes'[w].room = ns[w].room /\ nodes'[w].mem = ns[w].mem
           /\ nodes'[w].length = (IF w = p THEN ns[w].length + 1 ELSE ns[w].length)
           /\ nodes'[w].items = (IF w = p THEN Append(nodes[w].items, q) ELSE nodes[w].items)
  <2>1. ns[q].parent \in 0 .. f.n
    BY <1>3, <1>4
  <2>2. /\ Completed(ns, q) \in [1 .. f.n -> Node]
        /\ \A w \in 1 .. f.n :
             /\ Completed(ns, q)[w].type = ns[w].type /\ Completed(ns, q)[w].parent = ns[w].parent
             /\ Completed(ns, q)[w].chars = ns[w].chars
             /\ Completed(ns, q)[w].reserved = ns[w].reserved
             /\ Completed(ns, q)[w].room = ns[w].room /\ Completed(ns, q)[w].mem = ns[w].mem
             /\ Completed(ns, q)[w].length = (IF w = ns[q].parent THEN ns[w].length + 1 ELSE ns[w].length)
             /\ Completed(ns, q)[w].items =
                  (IF w = ns[q].parent /\ pass = 2 THEN Append(ns[w].items, q) ELSE ns[w].items)
    <3>1. ns \in [1 .. f.n -> Node] /\ q \in 1 .. f.n /\ f.n \in Nat /\ ns[q].parent \in 0 .. f.n
      BY <1>2, <1>3, <1>4, <2>1
    <3>2. QED
      BY <3>1, CompletedFields
  <2>3. QED
    BY <1>1, <1>4, <1>5, <2>2
<1>10. \A v \in 1 .. f.n : /\ nodes'[v].type = nodes[v].type /\ nodes'[v].parent = nodes[v].parent
                           /\ nodes'[v].chars = nodes[v].chars
  BY <1>1, <1>4, <1>9 DEF Allocated
<1>11. ASSUME NEW v \in 1 .. f.n, v > d.n PROVE Fresh(f, v)'
  <2>1. v # p
    BY <1>2, <1>3, <1>11
  <2>2. /\ ns[v].length = f.length[v] /\ ns[v].items = <<>>
        /\ ns[v].reserved = (IF v < f.n THEN v + 1 ELSE 0)
    BY <1>11 DEF Ready
  <2>3. QED
    BY <1>4, <1>9, <2>1, <2>2 DEF Fresh
<1>12. ASSUME NEW v \in 1 .. d.n PROVE Filled(d, f, v)'
  <2>1. v \in 1 .. f.n
    BY <1>2
  <2>2. /\ f.type[v] \in Container \cup {"string"} =>
            d.length[v] = (IF v = p THEN ns[v].length + 1 ELSE ns[v].length)
        /\ f.type[v] = "string" => Len(ns[v].mem) = f.length[v] + 1
        /\ f.type[v] \in Container /\ f.length[v] > 0 => ns[v].room = f.length[v]
        /\ f.type[v] = "object" /\ f.length[v] > 0 =>
            Len(ns[v].mem) = f.chars[v] /\ ns[v].reserved = d.chars[v]
    BY DEF Ready
  <2>3. QED
    BY <1>9, <2>1, <2>2 DEF Filled
<1>13. Slotted(d, f)'
  <2>1. ASSUME NEW v \in 1 .. f.n PROVE Slots(nodes'[v].items, v, d, f)
    <3>1. PICK s : s = nodes[v].items
      OBVIOUS
    <3>2. Slots(s, v, c, f) /\ s \in Seq(Nat)
      <4>1. nodes[v] \in Node
        BY <1>1
      <4>2. QED
        BY <1>1, <3>1, <4>1 DEF Slotted, Node
    <3>3. CASE v = p
      <4>1. nodes'[v].items = Append(s, q)
        BY <1>9, <3>1, <3>3
      <4>2. v <= c.n /\ d.length[v] = c.length[v] + 1
        BY <1>2, <1>3, <3>3 DEF Completes
      <4>3. Slots(Append(s, q), v, d, f)
        BY <1>3, <3>2, <3>3, <4>2, SlotsAdded
      <4>4. QED
        BY <4>1, <4>3
    <3>4. CASE v # p
      <4>1. nodes'[v].items = s
        BY <1>9, <3>1, <3>4
      <4>2. v <= d.n /\ f.type[v] \in Container => v <= c.n /\ d.length[v] = c.length[v]
        BY <1>2, <3>4 DEF Completes
      <4>3. Slots(s, v, d, f)
        BY <1>3, <3>2, <3>4, <4>2, SlotsElsewhere
      <4>4. QED
        BY <4>1, <4>3
    <3>5. QED
      BY <3>3, <3>4
  <2>2. QED
    BY <2>1 DEF Slotted
<1>14. QED
  BY <1>5, <1>8, <1>9, <1>10, <1>11, <1>12, <1>13, SecondFrom DEF Provided

LEMMA SecondClosed ==
  ASSUME NEW c, NEW d, NEW f, Second(c, f), Repeats(c, d, f), Reading(c), ValueClosed(c)
  PROVE  Second(d, f)'
<1>1. /\ Here(c) /\ Regular(c) /\ Typed(c) /\ Leads(c, d, text') /\ Allocated(c, f) /\ pass = 2
      /\ nodes \in [1 .. f.n -> Node] /\ Finished(f) /\ Later(c, f) /\ f.n \in Nat /\ c.n \in Nat /\ c.n <= f.n
  BY DEF Second, Repeats, Allocated, Here, Finished, Regular, Typed, Later
<1>2. PICK g : /\ NextFlag(ClosedTop, top, g) /\ ptr' = ptr + 1
               /\ UNCHANGED <<string_length, number, root, alloc, memory>>
               /\ g \subseteq flags /\ "string" \notin g /\ "seek_value" \notin g
               /\ ~In(c, "done") /\ TopKind(c) \in Container \cup {"string"}
               /\ TopKind(c) = "string" => In(c, "string")
               /\ Closes(c, d, g \ NumberFlags)
  BY <1>1 DEF ValueClosed
<1> DEFINE q == c.top
           p == c.parent[q]
<1>3. /\ d.ptr = c.ptr + 1 /\ d.sl = 0 /\ d.flags = Behind(c, p, g \ NumberFlags)
      /\ d.top = (IF p = 0 THEN q ELSE p) /\ d.closed = c.closed \cup {q}
      /\ d.n = c.n /\ d.type = c.type /\ d.parent = c.parent /\ d.chars = c.chars
      /\ d.length = [w \in 1 .. c.n |-> IF w = p THEN c.length[w] + 1
                                        ELSE IF w = q /\ c.type[w] = "string" THEN c.sl
                                        ELSE c.length[w]]
  BY <1>2 DEF Closes
<1>4. /\ ptr = c.ptr /\ string_length \in Nat /\ (In(c, "string") => string_length = c.sl) /\ top = q
  BY <1>1 DEF Here
<1>5. q # 0 /\ TopKind(c) = c.type[q]
  BY <1>2 DEF TopKind, Container
<1>6. q \in 1 .. c.n /\ q \notin c.closed /\ p \in 0 .. c.n /\ p < q
  BY <1>1, <1>2, <1>5, TopIn DEF Unclosed
<1>7. \A v \in 1 .. c.n : v \in 1 .. f.n /\ f.type[v] = c.type[v] /\ f.parent[v] = c.parent[v]
  BY <1>1 DEF Later
<1>8. f.parent[q] = p /\ q \in 1 .. f.n
  BY <1>6, <1>7
<1>9. /\ ClosedTop \in [1 .. f.n -> Node]
      /\ \A w \in 1 .. f.n :
           /\ ClosedTop[w].type = nodes[w].type /\ ClosedTop[w].parent = nodes[w].parent
           /\ ClosedTop[w].chars = nodes[w].chars /\ ClosedTop[w].reserved = nodes[w].reserved
           /\ ClosedTop[w].room = nodes[w].room /\ ClosedTop[w].items = nodes[w].items
           /\ Len(ClosedTop[w].mem) = Len(nodes[w].mem)
           /\ ClosedTop[w].length = (IF w = top /\ nodes[w].type = "string" THEN string_length
                                     ELSE nodes[w].length)
  <2>1. nodes \in [1 .. f.n -> Node] /\ top \in 1 .. f.n /\ f.n \in Nat /\ string_length \in Nat
    BY <1>1, <1>4, <1>8
  <2>2. QED
    BY <2>1, ClosedTopFields
<1>10. Completes(c, d, f, q)
  <2>1. p # 0 => p \in 1 .. c.n /\ d.length[p] = c.length[p] + 1
    BY <1>1, <1>3, <1>6
  <2>2. ASSUME NEW v \in 1 .. d.n, f.type[v] \in Container, v # p
        PROVE  v <= c.n /\ d.length[v] = c.length[v]
    BY <1>1, <1>3, <1>7, <2>2 DEF Container
  <2>3. QED
    BY <1>3, <1>6, <1>8, <2>1, <2>2 DEF Completes
<1>11. \A v \in 1 .. f.n : /\ nodes[v].type = f.type[v] /\ nodes[v].parent = f.parent[v]
                           /\ nodes[v].chars = f.chars[v]
  BY <1>1 DEF Allocated
<1>12. PICK ns : ns = ClosedTop
  OBVIOUS
<1>13. Ready(d, f, ns, p)
  <2>1. \A v \in 1 .. f.n : v > d.n => /\ ns[v].length = f.length[v] /\ ns[v].items = <<>>
                                       /\ ns[v].reserved = (IF v < f.n THEN v + 1 ELSE 0)
    <3>1. TAKE v \in 1 .. f.n
    <3>2. v > c.n => Fresh(f, v) /\ v # top
      BY <1>1, <1>4, <1>6 DEF Allocated
    <3>3. QED
      BY <1>3, <1>9, <1>12, <3>2 DEF Fresh
  <2>2. ASSUME NEW v \in 1 .. d.n
        PROVE  /\ f.type[v] \in Container \cup {"string"} =>
                    d.length[v] = (IF v = p THEN ns[v].length + 1 ELSE ns[v].length)
               /\ f.type[v] = "string" => Len(ns[v].mem) = f.length[v] + 1
               /\ f.type[v] \in Container /\ f.length[v] > 0 => ns[v].room = f.length[v]
               /\ f.type[v] = "object" /\ f.length[v] > 0 =>
                    Len(ns[v].mem) = f.chars[v] /\ ns[v].reserved = d.chars[v]
    <3>1. v \in 1 .. c.n /\ v \in 1 .. f.n
      BY <1>3, <1>7
    <3>2. Filled(c, f, v)
      BY <1>1, <3>1 DEF Allocated
    <3>3. f.type[v] = c.type[v] /\ nodes[v].type = c.type[v]
      BY <1>7, <1>11, <3>1
    <3>4. f.type[v] \in Container \cup {"string"} =>
            d.length[v] = (IF v = p THEN ns[v].length + 1 ELSE ns[v].length)
      <4>1. SUFFICES ASSUME f.type[v] \in Container \cup {"string"}
                     PROVE  d.length[v] = (IF v = p THEN ns[v].length + 1 ELSE ns[v].length)
        OBVIOUS
      <4>2. nodes[v].length = c.length[v]
        BY <3>2, <4>1 DEF Filled
      <4>3. CASE v = q /\ c.type[v] = "string"
        <5>1. string_length = c.sl /\ v # p
          BY <1>2, <1>4, <1>5, <1>6, <4>3
        <5>2. d.length[v] = c.sl
          BY <1>3, <3>1, <4>3, <5>1
        <5>3. ns[v].length = string_length
          BY <1>4, <1>9, <1>12, <3>1, <3>3, <4>3
        <5>4. QED
          BY <5>1, <5>2, <5>3
      <4>4. CASE ~(v = q /\ c.type[v] = "string")
        <5>1. ns[v].length = nodes[v].length
          BY <1>4, <1>9, <1>12, <3>1, <3>3, <4>4
        <5>2. d.length[v] = (IF v = p THEN c.length[v] + 1 ELSE c.length[v])
          BY <1>3, <3>1, <4>4
        <5>3. QED
          BY <4>2, <5>1, <5>2
      <4>5. QED
        BY <4>3, <4>4
    <3>5. QED
      BY <1>3, <1>9, <1>12, <3>1, <3>2, <3>4 DEF Filled
  <2>3. QED
    BY <1>9, <1>11, <1>12, <2>1, <2>2 DEF Ready
<1>14. Provided(d, f)
  BY <1>1, <1>2, <1>3 DEF Provided, Allocated, memory
<1>15. /\ ptr' = d.ptr /\ d.ptr <= Len(text') + 1 /\ string_length' \in Nat
  <2>1. c.ptr \in Nat /\ Len(text') \in Nat /\ c.ptr <= Len(text')
    BY DEF Reading
  <2>2. QED
    BY <1>2, <1>3, <1>4, <2>1
<1>16. NextFlag(ns, q, g)
  <2>1. NextFlag(ns, top, g)
    BY <1>2, <1>12 DEF NextFlag
  <2>2. QED
    BY <1>4, <2>1
<1>17. /\ Ready(d, f, ns, f.parent[q]) /\ d.flags = Behind(c, f.parent[q], g \ NumberFlags)
  BY <1>3, <1>8, <1>13
<1>18. g \subseteq flags /\ "string" \notin g
  BY <1>2
<1> HIDE DEF q, p
<1>19. QED
  BY <1>10, <1>14, <1>15, <1>16, <1>17, <1>18, SecondCompletes

LEMMA UninitializedLength ==
  ASSUME NEW k \in Nat
  PROVE  Uninitialized(k) \in Seq(Byte) /\ Len(Uninitialized(k)) = k
<1> DEFINE s == [i \in 1 .. k |-> "?"]
<1>1. "?" \in Byte
  BY DEF Byte
<1>2. s \in [1 .. k -> Byte]
  BY <1>1
<1>0. Uninitialized(k) = s
  BY DEF Uninitialized
<1> HIDE DEF s
<1>3. s \in Seq(Byte)
  BY <1>2
<1>4. DOMAIN s = 1 .. Len(s) /\ Len(s) \in Nat /\ DOMAIN s = 1 .. k
  BY <1>2, <1>3, LenProperties
<1>5. Len(s) = k
  <2>1. 1 .. Len(s) = 1 .. k /\ Len(s) \in Nat
    BY <1>4
  <2>2. PICK m \in Nat : m = Len(s)
    BY <2>1
  <2>3. m = k
    BY <2>1, <2>2
  <2>4. QED
    BY <2>2, <2>3
<1>6. QED
  BY <1>0, <1>3, <1>5

LEMMA OpenedFields ==
  ASSUME NEW n \in Node, Needs(n)
  PROVE  /\ Opened(n) \in Node /\ Opened(n).type = n.type /\ Opened(n).parent = n.parent
         /\ Opened(n).chars = n.chars /\ Opened(n).items = n.items /\ Opened(n).length = 0
         /\ n.type = "string" => Len(Opened(n).mem) = n.length + 1
         /\ n.type \in Container => Opened(n).room = n.length
         /\ n.type = "object" => Len(Opened(n).mem) = n.chars /\ Opened(n).reserved = 0
<1>1. n.length \in Nat /\ n.chars \in Nat /\ n.length + 1 \in Nat
  BY DEF Node
<1>2. CASE n.type = "string"
  <2> DEFINE m == Uninitialized(n.length + 1)
             r == [n EXCEPT !.mem = m, !.length = 0]
  <2>1. m \in Seq(Byte) /\ Len(m) = n.length + 1
    BY <1>1, UninitializedLength
  <2> HIDE DEF m
  <2>2. /\ r \in Node /\ r.type = n.type /\ r.parent = n.parent /\ r.chars = n.chars
        /\ r.items = n.items /\ r.length = 0 /\ r.mem = m
    BY <2>1 DEF Node
  <2>3. Opened(n) = r
    BY <1>2 DEF Opened, m
  <2> HIDE DEF r
  <2>4. QED
    BY <1>2, <2>1, <2>2, <2>3 DEF Container
<1>3. CASE n.type = "array"
  <2> DEFINE r == [n EXCEPT !.room = n.length, !.length = 0]
  <2>1. /\ r \in Node /\ r.type = n.type /\ r.parent = n.parent /\ r.chars = n.chars
        /\ r.items = n.items /\ r.length = 0 /\ r.room = n.length
    BY <1>1 DEF Node
  <2>2. Opened(n) = r
    BY <1>3 DEF Opened
  <2> HIDE DEF r
  <2>3. QED
    BY <1>3, <2>1, <2>2 DEF Container
<1>4. CASE n.type = "object"
  <2> DEFINE m == Uninitialized(n.chars)
             r == [n EXCEPT !.room = n.length, !.mem = m, !.reserved = 0, !.length = 0]
  <2>1. m \in Seq(Byte) /\ Len(m) = n.chars
    BY <1>1, UninitializedLength
  <2> HIDE DEF m
  <2>2. /\ r \in Node /\ r.type = n.type /\ r.parent = n.parent /\ r.chars = n.chars
        /\ r.items = n.items /\ r.length = 0 /\ r.mem = m /\ r.room = n.length /\ r.reserved = 0
    BY <1>1, <2>1 DEF Node
  <2>3. Opened(n) = r
    BY <1>4 DEF Opened, m
  <2> HIDE DEF r
  <2>4. QED
    BY <1>4, <2>1, <2>2, <2>3 DEF Container
<1>5. QED
  BY <1>2, <1>3, <1>4 DEF Needs

\* What there is of the value q when the second pass has come to it.
Taken(ns, f, q) ==
  /\ ns \in [1 .. f.n -> Node]
  /\ \A w \in 1 .. f.n : w # q => ns[w] = nodes[w]
  /\ ns[q].type = f.type[q] /\ ns[q].parent = f.parent[q] /\ ns[q].chars = f.chars[q]
  /\ ns[q].items = <<>>
  /\ f.type[q] \in Container \cup {"string"} => ns[q].length = 0
  /\ f.type[q] = "string" => Len(ns[q].mem) = f.length[q] + 1
  /\ f.type[q] \in Container /\ f.length[q] > 0 => ns[q].room = f.length[q]
  /\ f.type[q] = "object" /\ f.length[q] > 0 => Len(ns[q].mem) = f.chars[q] /\ ns[q].reserved = 0

\* The memory of the values up to q.
ProvidedTo(f, q) ==
  /\ root' = 1 /\ alloc' = (IF q < f.n THEN q + 1 ELSE 0)
  /\ live' = live /\ areas' = {v \in 1 .. q : NeedsRoom(f, v)}

LEMMA SecondNew ==
  ASSUME NEW c, NEW f, Second(c, f), c.n < f.n, NewValue, NEW type
  PROVE  New = c.n + 1 /\ Taken(WithNew(type), f, c.n + 1) /\ ProvidedTo(f, c.n + 1)
<1> DEFINE q == c.n + 1
<1>1. /\ pass = 2 /\ Allocated(c, f) /\ f.n \in Nat /\ c.n \in Nat /\ nodes \in [1 .. f.n -> Node]
      /\ Typed(f)
  BY DEF Second, Allocated, Here, Finished, Regular, Typed
<1>2. alloc = q /\ New = q /\ q \in 1 .. f.n /\ q > c.n /\ q # 0
  BY <1>1 DEF Allocated, New
<1>3. /\ Fresh(f, q) /\ nodes[q] \in Node /\ nodes[q].type = f.type[q] /\ nodes[q].parent = f.parent[q]
      /\ nodes[q].chars = f.chars[q]
  BY <1>1, <1>2 DEF Allocated
<1>4. f.length[q] \in Nat
  BY <1>1, <1>2 DEF Typed
<1>5. nodes[q].length = f.length[q] /\ nodes[q].items = <<>> /\ nodes[q].reserved = (IF q < f.n THEN q + 1 ELSE 0)
  BY <1>3 DEF Fresh
<1>6. Needs(nodes[q]) <=> NeedsRoom(f, q)
  BY <1>3, <1>5 DEF Needs, NeedsRoom, Container
<1> DEFINE ns == WithNew(type)
           r == IF Needs(nodes[q]) THEN Opened(nodes[q]) ELSE nodes[q]
<1>7. ns = [nodes EXCEPT ![q] = r]
  BY <1>1, <1>2 DEF WithNew
<1>8. Taken(ns, f, q)
  <2>1. PICK n : n = nodes[q]
    OBVIOUS
  <2>2. r = (IF Needs(n) THEN Opened(n) ELSE n) /\ n \in Node
    BY <1>3, <2>1
  <2>3. CASE Needs(n)
    <3>1. /\ Opened(n) \in Node /\ Opened(n).type = n.type /\ Opened(n).parent = n.parent
          /\ Opened(n).chars = n.chars /\ Opened(n).items = n.items /\ Opened(n).length = 0
          /\ n.type = "string" => Len(Opened(n).mem) = n.length + 1
          /\ n.type \in Container => Opened(n).room = n.length
          /\ n.type = "object" => Len(Opened(n).mem) = n.chars /\ Opened(n).reserved = 0
      BY <2>2, <2>3, OpenedFields
    <3>2. PICK o : o = Opened(n)
      OBVIOUS
    <3>3. ns = [nodes EXCEPT ![q] = o]
      BY <1>7, <2>2, <2>3, <3>2
    <3> HIDE DEF ns, r
    <3>4. /\ ns \in [1 .. f.n -> Node] /\ ns[q] = o
          /\ \A w \in 1 .. f.n : w # q => ns[w] = nodes[w]
      BY <1>1, <1>2, <3>1, <3>2, <3>3
    <3>5. QED
      BY <1>3, <1>5, <2>1, <3>1, <3>2, <3>4 DEF Taken
  <2>4. CASE ~Needs(n)
    <3>1. ns = [nodes EXCEPT ![q] = n] /\ n \in Node
      BY <1>7, <2>2, <2>4
    <3>2. ~NeedsRoom(f, q)
      BY <1>6, <2>1, <2>4
    <3>3. f.type[q] # "string" /\ (f.type[q] \in Container => f.length[q] = 0)
      BY <1>4, <3>2 DEF NeedsRoom
    <3> HIDE DEF ns, r
    <3>4. /\ ns \in [1 .. f.n -> Node] /\ ns[q] = n
          /\ \A w \in 1 .. f.n : w # q => ns[w] = nodes[w]
      BY <1>1, <1>2, <2>1, <3>1
    <3>5. /\ ns[q].type = f.type[q] /\ ns[q].parent = f.parent[q] /\ ns[q].chars = f.chars[q]
          /\ ns[q].items = <<>> /\ ns[q].length = f.length[q]
      BY <1>3, <1>5, <2>1, <3>4
    <3> HIDE DEF q
    <3>6. QED
      BY <1>4, <3>3, <3>4, <3>5 DEF Taken, Container
  <2>5. QED
    BY <2>3, <2>4
<1>9. ProvidedTo(f, q)
  <2>1. root' = 1
    BY <1>1, <1>2 DEF NewValue, RootWithNew, Allocated
  <2>2. alloc' = nodes[q].reserved /\ live' = live \cup {q}
    BY <1>1, <1>2 DEF NewValue
  <2>3. live' = live
    BY <1>1, <1>2, <2>2 DEF Allocated
  <2>4. areas' = IF NeedsRoom(f, q) THEN areas \cup {q} ELSE areas
    BY <1>1, <1>2, <1>6 DEF NewValue
  <2>5. areas' = {v \in 1 .. q : NeedsRoom(f, v)}
    <3>1. areas = {v \in 1 .. c.n : NeedsRoom(f, v)}
      BY <1>1 DEF Allocated
    <3>2. \A v : v \in 1 .. q <=> v \in 1 .. c.n \/ v = q
      BY <1>1
    <3> HIDE DEF q
    <3>3. \A v : v \in areas' <=> v \in {w \in 1 .. q : NeedsRoom(f, w)}
      BY <2>4, <3>1, <3>2
    <3>4. QED
      BY <3>3
  <2>6. QED
    BY <1>5, <2>1, <2>2, <2>3, <2>5 DEF ProvidedTo
<1>10. QED
  BY <1>2, <1>8, <1>9

LEMMA SecondOpened ==
  ASSUME NEW c, NEW d, NEW f, Second(c, f), Repeats(c, d, f), Reading(c), ValueOpened(c)
  PROVE  Second(d, f)'
<1>1. /\ Here(c) /\ Regular(c) /\ Typed(c) /\ Leads(c, d, text') /\ Allocated(c, f) /\ Slotted(c, f)
      /\ nodes \in [1 .. f.n -> Node] /\ Finished(f) /\ f.n \in Nat /\ c.n \in Nat
      /\ Later(d, f) /\ Regular(d)
  BY DEF Second, Repeats, Allocated, Here, Finished, Regular, Typed
<1>2. PICK b \in {"[", "lbrace", "quote"} :
        /\ Opens(b, OpenedKind(b)) /\ ~In(c, "string") /\ OpensValue(c, d, b)
  BY <1>1 DEF ValueOpened
<1> DEFINE q == c.n + 1
           type == OpenedKind(b)
<1>3. /\ d.ptr = c.ptr + 1 /\ d.top = q /\ d.n = q /\ d.sl = 0 /\ d.closed = c.closed
      /\ d.flags = (c.flags \ {"seek_value"}) \cup OpenedFlags(b)
      /\ d.chars = [w \in 1 .. q |-> IF w = q THEN 0 ELSE c.chars[w]]
      /\ d.length = [w \in 1 .. q |-> IF w = q THEN 0 ELSE c.length[w]]
  BY <1>2 DEF OpensValue, AddsValue
<1>4. /\ ptr = c.ptr /\ string_length \in Nat
      /\ flags \subseteq Flag \cup NumberFlags /\ flags \ NumberFlags = c.flags
  BY <1>1 DEF Here
<1>5. c.n < f.n /\ q \in 1 .. f.n /\ q # 0
  BY <1>1, <1>3 DEF Later
<1>6. /\ NewValue /\ nodes' = WithNew(type) /\ top' = New
      /\ ptr' = ptr + 1 /\ UNCHANGED <<pass, pc>>
      /\ string_length' = (IF b = "quote" THEN 0 ELSE string_length)
  BY <1>2 DEF Opens, Round
<1>7. flags' = (flags \ {"seek_value"}) \cup OpenedFlags(b)
  <2>1. flags' = (flags \ {"seek_value"}) \cup
                 (CASE b = "[" -> {"seek_value"} [] b = "quote" -> {"string"} [] OTHER -> {})
    BY <1>2 DEF Opens, Round
  <2>2. (CASE b = "[" -> {"seek_value"} [] b = "quote" -> {"string"} [] OTHER -> {}) = OpenedFlags(b)
    BY Zenon DEF OpenedFlags
  <2>3. QED
    BY <2>1, <2>2
<1> HIDE DEF type
<1>8. New = q /\ Taken(WithNew(type), f, q) /\ ProvidedTo(f, q)
  BY <1>5, <1>6, SecondNew DEF Second
<1>9. /\ nodes' \in [1 .. f.n -> Node]
      /\ \A w \in 1 .. f.n : w # q => nodes'[w] = nodes[w]
      /\ nodes'[q].type = f.type[q] /\ nodes'[q].parent = f.parent[q] /\ nodes'[q].chars = f.chars[q]
      /\ nodes'[q].items = <<>>
      /\ f.type[q] \in Container \cup {"string"} => nodes'[q].length = 0
      /\ f.type[q] = "string" => Len(nodes'[q].mem) = f.length[q] + 1
      /\ f.type[q] \in Container /\ f.length[q] > 0 => nodes'[q].room = f.length[q]
      /\ f.type[q] = "object" /\ f.length[q] > 0 => Len(nodes'[q].mem) = f.chars[q] /\ nodes'[q].reserved = 0
  BY <1>6, <1>8 DEF Taken
<1>10. \A v \in 1 .. f.n : /\ nodes[v].type = f.type[v] /\ nodes[v].parent = f.parent[v]
                           /\ nodes[v].chars = f.chars[v]
  BY <1>1 DEF Allocated
<1>11. \A v \in 1 .. f.n : /\ nodes'[v].type = nodes[v].type /\ nodes'[v].parent = nodes[v].parent
                           /\ nodes'[v].chars = nodes[v].chars
  <2>1. TAKE v \in 1 .. f.n
  <2>2. CASE v = q
    BY <1>9, <1>10, <2>2
  <2>3. CASE v # q
    BY <1>9, <2>3
  <2>4. QED
    BY <2>2, <2>3
<1>12. \A v \in 1 .. f.n : v > d.n => Fresh(f, v)'
  <2>1. \A v \in 1 .. f.n : v > q => Fresh(f, v) /\ v # q
    BY <1>1 DEF Allocated
  <2>2. QED
    BY <1>3, <1>9, <2>1 DEF Fresh
<1>13. ASSUME NEW v \in 1 .. d.n PROVE Filled(d, f, v)'
  <2>1. CASE v = q
    <3>1. d.length[v] = 0 /\ d.chars[v] = 0
      BY <1>3, <2>1
    <3>2. QED
      BY <1>9, <2>1, <3>1 DEF Filled
  <2>2. CASE v # q
    <3>1. v \in 1 .. c.n /\ v \in 1 .. f.n
      BY <1>1, <1>3, <1>5, <2>2
    <3>2. Filled(c, f, v) /\ d.length[v] = c.length[v] /\ d.chars[v] = c.chars[v] /\ nodes'[v] = nodes[v]
      BY <1>1, <1>3, <1>9, <2>2, <3>1 DEF Allocated
    <3>3. QED
      BY <3>2 DEF Filled
  <2>3. QED
    BY <2>1, <2>2
<1>14. Slotted(d, f)'
  <2>1. ASSUME NEW v \in 1 .. f.n PROVE Slots(nodes'[v].items, v, d, f)
    <3>1. PICK s : s = nodes[v].items
      OBVIOUS
    <3>2. Slots(s, v, c, f)
      BY <1>1, <3>1 DEF Slotted
    <3>3. CASE v = q
      <4>1. Fresh(f, v)
        BY <1>1, <1>5, <3>3 DEF Allocated
      <4>2. s = <<>> /\ Len(s) = 0 /\ d.length[v] = 0
        BY <1>3, <1>5, <3>1, <3>3, <4>1, EmptySequence DEF Fresh
      <4>3. Slots(s, v, d, f)
        BY <1>3, <3>2, <4>2, SlotsKept
      <4>4. QED
        BY <1>9, <3>3, <4>2, <4>3
    <3>4. CASE v # q
      <4>1. v <= d.n => v <= c.n /\ d.length[v] = c.length[v]
        BY <1>1, <1>3, <3>4
      <4>2. Slots(s, v, d, f)
        BY <1>3, <3>2, <4>1, SlotsKept
      <4>3. QED
        BY <1>9, <3>1, <3>4, <4>2
    <3>5. QED
      BY <3>3, <3>4
  <2>2. QED
    BY <2>1 DEF Slotted
<1>15. /\ flags' \ NumberFlags = d.flags /\ flags' \subseteq Flag \cup NumberFlags
  BY <1>3, <1>4, <1>7 DEF OpenedFlags, Flag, NumberFlags
<1>16. /\ ptr' = d.ptr /\ d.ptr <= Len(text') + 1 /\ string_length' \in Nat
  <2>1. c.ptr \in Nat /\ Len(text') \in Nat /\ c.ptr <= Len(text')
    BY DEF Reading
  <2>2. QED
    BY <1>3, <1>4, <1>6, <2>1
<1>17. In(d, "string") => string_length' = d.sl
  BY <1>2, <1>3, <1>6 DEF In, OpenedFlags
<1>18. top' = d.top
  BY <1>3, <1>6, <1>8
<1>19. /\ root' = (IF d.n = 0 THEN 0 ELSE 1) /\ alloc' = (IF d.n < f.n THEN d.n + 1 ELSE 0)
       /\ live' = live /\ areas' = {v \in 1 .. d.n : NeedsRoom(f, v)}
  BY <1>3, <1>5, <1>8 DEF ProvidedTo
<1>20. QED
  BY <1>6, <1>9, <1>11, <1>12, <1>13, <1>14, <1>15, <1>16, <1>17, <1>18, <1>19, SecondFrom

\* A literal, or a number that the first pass has read.
LEMMA SecondAdds ==
  ASSUME NEW c, NEW d, NEW f, Second(c, f), Repeats(c, d, f), Reading(c),
         NEW type, AddsClosed(c, d, type), NEW kind,
         type \notin Container \cup {"string"}, ~In(c, "done"), ~In(c, "string"),
         NewValue, NextFlag(WithNew(kind), New, flags \ {"seek_value"}),
         ptr' = d.ptr, d.ptr <= Len(text') + 1, string_length' = string_length
  PROVE  Second(d, f)'
<1>1. /\ Here(c) /\ Regular(c) /\ Typed(c) /\ Leads(c, d, text') /\ Allocated(c, f) /\ Slotted(c, f)
      /\ nodes \in [1 .. f.n -> Node] /\ Finished(f) /\ f.n \in Nat /\ c.n \in Nat
      /\ Later(d, f) /\ Later(c, f) /\ Regular(d) /\ string_length \in Nat
      /\ flags \ NumberFlags = c.flags
  BY DEF Second, Repeats, Allocated, Here, Finished, Regular, Typed
<1> DEFINE q == c.n + 1
           p == c.top
<1>2. /\ d.n = q /\ d.closed = c.closed \cup {q}
      /\ d.type = [w \in 1 .. q |-> IF w = q THEN type ELSE c.type[w]]
      /\ d.parent = [w \in 1 .. q |-> IF w = q THEN p ELSE c.parent[w]]
      /\ d.chars = [w \in 1 .. q |-> IF w = q THEN 0 ELSE c.chars[w]]
      /\ d.length = [w \in 1 .. q |->
                       IF w = q THEN 0 ELSE IF w = p THEN c.length[w] + 1 ELSE c.length[w]]
      /\ d.top = (IF p = 0 THEN q ELSE p)
      /\ d.flags = Behind(c, p, c.flags \ {"seek_value"})
  BY DEF AddsClosed, AddsValue
<1>3. c.n < f.n /\ q \in 1 .. f.n /\ q \in 1 .. q /\ q # 0 /\ p \in 0 .. c.n /\ q \notin c.closed
  BY <1>1, <1>2 DEF Later, Typed
<1>4. f.type[q] = type /\ f.parent[q] = p
  <2>1. f.type[q] = d.type[q] /\ f.parent[q] = d.parent[q]
    BY <1>1, <1>2, <1>3 DEF Later
  <2>2. QED
    BY <1>2, <1>3, <2>1
<1>5. New = q /\ Taken(WithNew(kind), f, q) /\ ProvidedTo(f, q)
  BY <1>3, SecondNew
<1>6. PICK ns : ns = WithNew(kind)
  OBVIOUS
<1>7. NextFlag(ns, q, flags \ {"seek_value"})
  BY <1>5, <1>6 DEF NextFlag
<1>8. /\ ns \in [1 .. f.n -> Node]
      /\ \A w \in 1 .. f.n : w # q => ns[w] = nodes[w]
      /\ ns[q].type = f.type[q] /\ ns[q].parent = f.parent[q] /\ ns[q].chars = f.chars[q]
      /\ ns[q].items = <<>>
  BY <1>5, <1>6 DEF Taken
<1>9. /\ \A v \in 1 .. f.n : /\ nodes[v].type = f.type[v] /\ nodes[v].parent = f.parent[v]
                             /\ nodes[v].chars = f.chars[v]
      /\ \A v \in 1 .. f.n : v > c.n => Fresh(f, v)
      /\ \A v \in 1 .. c.n : Filled(c, f, v)
  BY <1>1 DEF Allocated
<1>10. Completes(c, d, f, q)
  <2>1. p # 0 => p \in 1 .. c.n /\ d.length[p] = c.length[p] + 1
    <3>1. p # 0 => p \in 1 .. c.n /\ p # q /\ p \in 1 .. q
      BY <1>1, <1>3
    <3>2. QED
      BY <1>2, <3>1
  <2>2. ASSUME NEW v \in 1 .. d.n, f.type[v] \in Container, v # p
        PROVE  v <= c.n /\ d.length[v] = c.length[v]
    <3>1. v # q
      BY <1>4, <2>2
    <3>2. v \in 1 .. q /\ v <= c.n
      BY <1>1, <1>2, <3>1
    <3>3. QED
      BY <1>2, <2>2, <3>1, <3>2
  <2>3. QED
    BY <1>2, <1>3, <1>4, <2>1, <2>2 DEF Completes
<1>11. Ready(d, f, ns, p)
  <2>1. \A v \in 1 .. f.n : /\ ns[v].type = f.type[v] /\ ns[v].parent = f.parent[v]
                            /\ ns[v].chars = f.chars[v] /\ ns[v].items = nodes[v].items
    <3>1. TAKE v \in 1 .. f.n
    <3>2. CASE v = q
      <4>1. nodes[q].items = <<>>
        BY <1>1, <1>3, <1>9 DEF Fresh
      <4>2. QED
        BY <1>8, <3>2, <4>1
    <3>3. CASE v # q
      BY <1>8, <1>9, <3>3
    <3>4. QED
      BY <3>2, <3>3
  <2>2. \A v \in 1 .. f.n : v > d.n => /\ ns[v].length = f.length[v] /\ ns[v].items = <<>>
                                       /\ ns[v].reserved = (IF v < f.n THEN v + 1 ELSE 0)
    <3>1. TAKE v \in 1 .. f.n
    <3>2. v > d.n => v > c.n /\ v # q
      BY <1>1, <1>2
    <3>3. QED
      BY <1>8, <1>9, <3>2 DEF Fresh
  <2>3. ASSUME NEW v \in 1 .. d.n
        PROVE  /\ f.type[v] \in Container \cup {"string"} =>
                    d.length[v] = (IF v = p THEN ns[v].length + 1 ELSE ns[v].length)
               /\ f.type[v] = "string" => Len(ns[v].mem) = f.length[v] + 1
               /\ f.type[v] \in Container /\ f.length[v] > 0 => ns[v].room = f.length[v]
               /\ f.type[v] = "object" /\ f.length[v] > 0 =>
                    Len(ns[v].mem) = f.chars[v] /\ ns[v].reserved = d.chars[v]
    <3>1. CASE v = q
      BY <1>4, <3>1 DEF Container
    <3>2. CASE v # q
      <4>1. v \in 1 .. c.n /\ v \in 1 .. f.n /\ v \in 1 .. q
        BY <1>1, <1>2, <1>3, <3>2
      <4>2. Filled(c, f, v) /\ ns[v] = nodes[v] /\ d.chars[v] = c.chars[v]
            /\ d.length[v] = (IF v = p THEN c.length[v] + 1 ELSE c.length[v])
        BY <1>2, <1>8, <1>9, <3>2, <4>1
      <4>3. QED
        BY <4>2 DEF Filled
    <3>3. QED
      BY <3>1, <3>2
  <2>4. QED
    BY <1>8, <2>1, <2>2, <2>3 DEF Ready
<1>12. Provided(d, f)
  BY <1>2, <1>3, <1>5 DEF Provided, ProvidedTo
<1>13. PICK g : g = flags \ {"seek_value"}
  OBVIOUS
<1>14. /\ g \subseteq flags /\ "string" \notin g /\ g \ NumberFlags = c.flags \ {"seek_value"}
  <2>1. g \subseteq flags /\ g \ NumberFlags = c.flags \ {"seek_value"}
    BY <1>1, <1>13
  <2>2. "string" \notin g
    BY <2>1 DEF NumberFlags, In
  <2>3. QED
    BY <2>1, <2>2
<1>15. /\ Ready(d, f, ns, f.parent[q]) /\ d.flags = Behind(c, f.parent[q], g \ NumberFlags)
       /\ NextFlag(ns, q, g) /\ string_length' \in Nat
  BY <1>1, <1>2, <1>4, <1>7, <1>11, <1>13, <1>14
<1> HIDE DEF q, p
<1>16. QED
  BY <1>10, <1>12, <1>14, <1>15, SecondCompletes

LEMMA SecondLiteral ==
  ASSUME NEW c, NEW d, NEW f, Second(c, f), Repeats(c, d, f), Reading(c), LiteralRead(c)
  PROVE  Second(d, f)'
<1>1. /\ AddsClosed(c, d, "literal") /\ d.ptr = c.ptr + 1 /\ ~In(c, "done") /\ ~In(c, "string")
  BY DEF LiteralRead, Repeats
<1>2. /\ NewValue /\ NextFlag(WithNew("literal"), New, flags \ {"seek_value"}) /\ ptr' = ptr + 1
      /\ string_length' = string_length
  BY DEF LiteralRead, Literal
<1>3. d.ptr <= Len(text') + 1 /\ ptr' = d.ptr
  <2>1. c.ptr \in Nat /\ Len(text') \in Nat /\ c.ptr <= Len(text') /\ ptr = c.ptr
    BY DEF Reading, Second, Here
  <2>2. QED
    BY <1>1, <1>2, <2>1
<1>4. "literal" \notin Container \cup {"string"}
  BY DEF Container
<1>5. QED
  BY <1>1, <1>2, <1>3, <1>4, SecondAdds

LEMMA SecondNumber ==
  ASSUME NEW c, NEW d, NEW f, Second(c, f), Repeats(c, d, f), Reading(c),
         NEW b \in Token, NumberSkipped(b)
  PROVE  Second(d, f)'
<1>1. /\ Here(c) /\ Leads(c, d, text') /\ text' = text /\ ptr = c.ptr
      /\ Seeks(b) /\ Begins /\ b \in Digit \cup {"-"}
      /\ NewValue /\ NextFlag(WithNew("integer"), New, flags \ {"seek_value"}) /\ string_length' = string_length
  BY DEF Second, Repeats, Here, NumberSkipped
<1>2. /\ In(c, "seek_value") /\ ~In(c, "done") /\ ~In(c, "string") /\ Starts(c)
      /\ Seeking(c, d, text', b)
  BY <1>1, SeeksHere
<1>3. /\ IsNumber(text, c.ptr, d.ptr)
      /\ AddsClosed(c, d, "integer") \/ AddsClosed(c, d, "double")
  BY <1>1, <1>2 DEF Seeking, Blank, Digit, Starts
<1>4. ptr' = CHOOSE p \in ptr .. Len(text) :
               text[p] \notin NumberToken /\ \A k \in ptr .. p - 1 : text[k] \in NumberToken
  BY DEF NumberSkipped
<1>5. c.ptr \in 1 .. Len(text) /\ Len(text) \in Nat
  BY <1>1 DEF Reading
<1>6. ptr' = d.ptr /\ d.ptr <= Len(text') + 1
  <2> DEFINE P(p) == p \in ptr .. Len(text) /\ text[p] \notin NumberToken
                     /\ \A k \in ptr .. p - 1 : text[k] \in NumberToken
  <2>1. P(d.ptr)
    BY <1>1, <1>3 DEF IsNumber
  <2>2. \A x, y : P(x) /\ P(y) => x = y
    <3>1. SUFFICES ASSUME NEW x, NEW y, P(x), P(y) PROVE x = y
      OBVIOUS
    <3>2. x \in Nat /\ y \in Nat /\ ptr \in Nat
      BY <1>1, <1>5, <3>1
    <3>3. ~(x < y)
      BY <3>1, <3>2
    <3>4. ~(y < x)
      BY <3>1, <3>2
    <3>5. QED
      BY <3>2, <3>3, <3>4
  <2>3. ptr' = CHOOSE p : P(p)
    BY <1>4, Zenon
  <2>4. P(CHOOSE p : P(p))
    BY <2>1, Zenon
  <2>5. ptr' = d.ptr
    BY <2>1, <2>2, <2>3, <2>4, Zenon
  <2>6. d.ptr <= Len(text') + 1
    BY <1>1, <1>3, <1>5 DEF IsNumber
  <2>7. QED
    BY <2>5, <2>6
<1>7. "integer" \notin Container \cup {"string"} /\ "double" \notin Container \cup {"string"}
  BY DEF Container
<1>8. QED
  BY <1>1, <1>2, <1>3, <1>6, <1>7, SecondAdds

-----------------------------------------------------------------------------
(* The steps of both passes.                                               *)

LEMMA PassOver ==
  ASSUME NEW c, First(c), PassEnds
  PROVE  Final(c, text') /\ Second(Start, c)'
<1>1. /\ Here(c) /\ Regular(c) /\ Typed(c) /\ pass = 1 /\ pc = "parse" /\ Chain(c.n) /\ SameAs(c)
      /\ string_length \in Nat
  BY DEF First, Here, Regular
<1>2. Has("done") /\ ~Has("string") /\ ~InComment /\ Read("end") /\ "end" \in Token
  BY DEF PassEnds, Outside, Token
<1>3. In(c, "done") /\ ~In(c, "string") /\ ~Commented(c)
  BY <1>1, <1>2, FlagsHere DEF Flag
<1>4. text' \in Seq(Token) /\ c.ptr <= Len(text') /\ text'[c.ptr] = "end" /\ Len(text') \in Nat
  BY <1>1, <1>2, ReadHere
<1>5. /\ pass' = 2 /\ ptr' = 1 /\ flags' = {"seek_value"} /\ top' = 0 /\ root' = 0 /\ pc' = "parse"
      /\ alloc' = root /\ UNCHANGED <<string_length, nodes, live, areas>>
  BY <1>1 DEF PassEnds, memory
<1>6. Here(Start)'
  <2>1. Regular(Start)
    BY StartRegular
  <2>2. flags' \ NumberFlags = {"seek_value"} /\ flags' \subseteq Flag \cup NumberFlags
    BY <1>5 DEF Flag, NumberFlags
  <2>3. ~In(Start, "string")
    BY StartFields DEF In
  <2>4. ptr' <= Len(text') + 1
    BY <1>4, <1>5
  <2>5. QED
    BY <1>1, <1>4, <1>5, <2>1, <2>2, <2>3, <2>4, StartFields DEF Here
<1>7. Finished(c)
  BY <1>1, <1>3 DEF Finished
<1>8. c.n \in Nat /\ c.ptr \in Nat /\ c.ptr >= 1
  BY <1>1 DEF Typed
<1>9. Later(Start, c)
  BY <1>8, StartFields DEF Later
<1>10. Allocated(Start, c)'
  <2>1. /\ nodes' \in [1 .. c.n -> Node] /\ live' = 1 .. c.n /\ areas' = {}
        /\ alloc' = (IF c.n = 0 THEN 0 ELSE 1)
        /\ \A v \in 1 .. c.n : nodes'[v].reserved = (IF v < c.n THEN v + 1 ELSE 0) /\ nodes'[v].items = <<>>
    BY <1>1, <1>5 DEF Chain
  <2>2. \A v \in 1 .. c.n : /\ nodes'[v].type = c.type[v] /\ nodes'[v].parent = c.parent[v]
                            /\ nodes'[v].length = c.length[v] /\ nodes'[v].chars = c.chars[v]
    BY <1>1, <1>5 DEF SameAs
  <2>3. alloc' = (IF Start.n < c.n THEN Start.n + 1 ELSE 0)
    BY <1>8, <2>1, StartFields
  <2>4. areas' = {v \in 1 .. Start.n : NeedsRoom(c, v)}
    BY <2>1, StartFields
  <2>5. \A v \in 1 .. c.n : Fresh(c, v)'
    BY <2>1, <2>2 DEF Fresh
  <2>6. \A v \in 1 .. Start.n : Filled(Start, c, v)'
    BY StartFields
  <2>7. QED
    BY <1>5, <2>1, <2>2, <2>3, <2>4, <2>5, <2>6, StartFields DEF Allocated
<1>11. Slotted(Start, c)'
  <2>1. ASSUME NEW v \in 1 .. c.n PROVE Slots(nodes'[v].items, v, Start, c)
    <3>1. nodes'[v].items = <<>> /\ Len(<<>>) = 0
      BY <1>1, <1>5, EmptySequence DEF Chain
    <3>2. ~(v <= Start.n) /\ Start.closed = {}
      BY <1>8, StartFields
    <3>3. PICK s : s = nodes'[v].items
      OBVIOUS
    <3>4. Len(s) = 0
      BY <3>1, <3>3
    <3>5. Slots(s, v, Start, c)
      BY <3>2, <3>4 DEF Slots
    <3>6. QED
      BY <3>3, <3>5
  <2>2. QED
    BY <2>1 DEF Slotted
<1>12. QED
  BY <1>3, <1>4, <1>5, <1>6, <1>7, <1>9, <1>10, <1>11 DEF Final, Second

LEMMA FirstStep ==
  ASSUME NEW c, First(c), Step
  PROVE  /\ Reading(c)
         /\ \/ Dropped' \/ InNumberAt(c)'
            \/ \E d : Leads(c, d, text') /\ First(d)'
            \/ Final(c, text') /\ Second(Start, c)'
<1>1. Here(c) /\ pc = "parse" /\ pass = 1 /\ Chain(c.n) /\ ptr = c.ptr
  BY DEF First, Here
<1>2. /\ Reading(c)
      /\ \/ Chosen(c) \/ PassEnds
         \/ \E b \in Token : OutOfMemory(b) \/ NumberBegins(b) \/ NumberSkipped(b)
  BY <1>1, RoundChoice
<1>3. ptr <= Len(text') + 1
  BY <1>1, <1>2 DEF Reading
<1>4. CASE Chosen(c)
  <2>1. CASE Refused(c)
    <3>1. Dropped'
      BY <1>1, <1>3, <2>1, FirstDrops DEF Refused
    <3>2. QED
      BY <1>2, <3>1
  <2>2. CASE Went(c)
    BY <1>2, <2>2, FirstWent
  <2>3. CASE Uncommented(c)
    BY <1>2, <2>3, FirstUncommented
  <2>4. CASE Wrote(c)
    BY <1>2, <2>4, FirstWrote
  <2>5. CASE NameBegan(c)
    BY <1>2, <2>5, FirstNameBegan
  <2>6. CASE NameEnded(c)
    BY <1>2, <2>6, FirstNameEnded
  <2>7. CASE ValueClosed(c)
    BY <1>2, <2>7, FirstClosed
  <2>8. CASE ValueOpened(c)
    BY <1>2, <2>8, FirstOpened
  <2>9. CASE LiteralRead(c)
    BY <1>2, <2>9, FirstLiteral
  <2>10. QED
    BY <1>4, <2>1, <2>2, <2>3, <2>4, <2>5, <2>6, <2>7, <2>8, <2>9 DEF Chosen
<1>5. CASE PassEnds
  BY <1>2, <1>5, PassOver
<1>6. ASSUME NEW b \in Token, OutOfMemory(b) PROVE Dropped'
  BY <1>1, <1>3, <1>6, FirstDrops DEF OutOfMemory
<1>7. ASSUME NEW b \in Token, NumberBegins(b) PROVE InNumberAt(c)'
  BY <1>7, NumberStarts
<1>8. ASSUME NEW b \in Token, NumberSkipped(b) PROVE FALSE
  BY <1>1, <1>8 DEF NumberSkipped
<1>9. QED
  BY <1>2, <1>4, <1>5, <1>6, <1>7, <1>8

LEMMA NumberStep ==
  ASSUME NEW c, InNumberAt(c), Step
  PROVE  Dropped' \/ InNumberAt(c)' \/ Doomed(c.n + 1)' \/ \E d : Leads(c, d, text') /\ First(d)'
<1>1. /\ ~Has("seek_value") /\ ~Has("done") /\ ~Has("string") /\ ~InComment
      /\ top # 0 /\ Top.type \in Numeric
      /\ ptr \in Nat /\ ptr >= 1 /\ Len(text) \in Nat /\ ptr <= Len(text) + 1 /\ text \in Seq(Token)
  BY NumberHere
<1>2. pc = "parse" /\ pass = 1 /\ Chain(c.n + 1)
  BY NumberChain DEF InNumberAt
<1>3. Refuse => Dropped'
  <2>1. PICK b \in Token : Read(b)
    BY <1>2, RoundReads
  <2>2. ptr <= Len(text') + 1
    BY <1>1, <2>1, ReadText
  <2>3. QED
    BY <1>2, <2>2, FirstDrops
<1>4. ~Is("object") /\ ~Is("array") /\ ~Is("string")
  BY <1>1 DEF Is, Numeric
<1>5. ASSUME NEW b \in Token,
             \/ StringRound(b) \/ LineComment(b) \/ BlockComment(b) \/ CommentBegins(b)
             \/ Trailing(b) \/ BetweenValues(b) \/ NoValue(b) \/ OutOfMemory(b)
             \/ NumberBegins(b) \/ NumberSkipped(b) \/ Entry(b)
             \/ DigitRound(b) \/ NumberPart(b) \/ NumberEnds(b)
      PROVE  Refuse \/ DigitRound(b) \/ NumberPart(b) \/ NumberEnds(b)
  BY <1>1, <1>4, <1>5 DEF StringRound, LineComment, BlockComment, CommentBegins, Trailing, BetweenValues,
       NoValue, OutOfMemory, NumberBegins, NumberSkipped, Entry, InObject, Seeks, InComment
<1>6. ~(StringEnds \/ NameEnds \/ PassEnds \/ ArrayEnds \/ Literal \/ ObjectEnds)
  BY <1>1, <1>4 DEF StringEnds, NameEnds, PassEnds, ArrayEnds, Literal, ObjectEnds, Seeks, InObject
<1>7. ~(Opens("lbrace", "object") \/ Opens("[", "array") \/ Opens("quote", "string"))
  BY <1>1 DEF Opens, Seeks
<1>8. ~Discard /\ ~Release /\ ~Free
  BY <1>2 DEF Discard, Release, Free
<1>9. \/ Refuse \/ \E b \in Token : DigitRound(b) \/ NumberPart(b) \/ NumberEnds(b)
  BY <1>5, <1>6, <1>7, <1>8 DEF Step
<1>10. ASSUME NEW b \in Token, DigitRound(b) \/ NumberPart(b) PROVE InNumberAt(c)' \/ Refuse
  BY <1>10, NumberReads
<1>11. ASSUME NEW b \in Token, NumberEnds(b)
       PROVE  Refuse \/ Doomed(c.n + 1)' \/ \E d : Leads(c, d, text') /\ First(d)'
  BY <1>11, NumberStops
<1>12. QED
  BY <1>3, <1>9, <1>10, <1>11

LEMMA DoomedStep ==
  ASSUME NEW k, Doomed(k), Step
  PROVE  Dropped'
<1>1. /\ pc = "parse" /\ pass = 1 /\ Chain(k) /\ text \in Seq(Token) /\ ptr \in 1 .. Len(text)
      /\ text[ptr] \in NumberToken /\ Has("need_comma") /\ ~Has("string") /\ ~InComment
      /\ ~Has("done") => top # 0 /\ Top.type \in Container /\ (Top.type = "array" => Has("seek_value"))
  BY DEF Doomed
<1>2. Len(text) \in Nat /\ ptr \in Nat /\ ~(ptr > Len(text)) /\ ptr <= Len(text) + 1
  BY <1>1, LenProperties
<1>3. ASSUME NEW b, Read(b) PROVE b \in NumberToken /\ text' = text
  BY <1>1, <1>2, <1>3 DEF Read
<1>4. \A b \in NumberToken : b \notin Blank \cup {"]", "comma", ":", "quote", "rbrace", "//", "/*", "end",
                                                 "lbrace", "[", "literal"}
  BY DEF NumberToken, Digit, Blank
<1>5. ~Begins
  BY <1>1 DEF Begins
<1>6. ASSUME NEW b \in Token,
             \/ StringRound(b) \/ LineComment(b) \/ BlockComment(b) \/ CommentBegins(b)
             \/ Trailing(b) \/ BetweenValues(b) \/ NoValue(b) \/ OutOfMemory(b)
             \/ NumberBegins(b) \/ NumberSkipped(b) \/ Entry(b)
             \/ DigitRound(b) \/ NumberPart(b) \/ NumberEnds(b)
      PROVE  Refuse
  <2>1. ~StringRound(b) /\ ~LineComment(b) /\ ~BlockComment(b)
    BY <1>1 DEF StringRound, LineComment, BlockComment, InComment
  <2>2. ~CommentBegins(b)
    BY <1>3, <1>4 DEF CommentBegins
  <2>3. Trailing(b) => Refuse
    BY <1>3, <1>4 DEF Trailing, Outside
  <2>4. BetweenValues(b) => Refuse
    BY <1>1, <1>3, <1>4 DEF BetweenValues, Seeks, Outside
  <2>5. NoValue(b) => Refuse
    BY DEF NoValue
  <2>6. ~OutOfMemory(b) /\ ~NumberBegins(b) /\ ~NumberSkipped(b)
    BY <1>5 DEF OutOfMemory, NumberBegins, NumberSkipped
  <2>7. Entry(b) => Refuse
    BY <1>1, <1>3, <1>4 DEF Entry, InObject, Outside
  <2>8. ~InNumber(b)
    BY <1>1 DEF InNumber, Container
  <2>9. QED
    BY <1>6, <2>1, <2>2, <2>3, <2>4, <2>5, <2>6, <2>7, <2>8 DEF DigitRound, NumberPart, NumberEnds
<1>7. ~(StringEnds \/ NameEnds \/ PassEnds \/ ArrayEnds \/ Literal \/ ObjectEnds)
  BY <1>1, <1>3, <1>4, <1>5
     DEF StringEnds, NameEnds, PassEnds, ArrayEnds, Literal, ObjectEnds, Seeks, InObject, Outside
<1>8. ~(Opens("lbrace", "object") \/ Opens("[", "array") \/ Opens("quote", "string"))
  BY <1>5 DEF Opens
<1>9. ~Discard /\ ~Release /\ ~Free
  BY <1>1 DEF Discard, Release, Free
<1>10. Refuse
  BY <1>6, <1>7, <1>8, <1>9 DEF Step
<1>11. PICK b \in Token : Read(b)
  BY <1>1, RoundReads
<1>12. ptr <= Len(text') + 1
  BY <1>2, <1>3, <1>11
<1>13. QED
  BY <1>1, <1>10, <1>12, FirstDrops

\* Between the passes' first and last round the second one only follows, unless memory is refused.
LEMMA SecondStep ==
  ASSUME NEW c, NEW d, NEW f, Second(c, f), Regular(d), Later(d, f), Leads(c, d, text), Step
  PROVE  text' = text /\ (Second(d, f)' \/ \E b \in Token : OutOfMemory(b))
<1>1. Here(c) /\ pc = "parse" /\ pass = 2 /\ ptr = c.ptr
  BY DEF Second, Here
<1>2. /\ Reading(c)
      /\ \/ Chosen(c) \/ PassEnds
         \/ \E b \in Token : OutOfMemory(b) \/ NumberBegins(b) \/ NumberSkipped(b)
  BY <1>1, RoundChoice
<1>3. text' = text
  BY <1>1, <1>2 DEF Reading
<1>4. Repeats(c, d, f)
  BY <1>3 DEF Repeats
<1>5. CASE Chosen(c)
  <2>1. ~Refused(c)
    BY <1>3 DEF Refused
  <2>2. CASE Went(c)
    BY <1>2, <1>3, <1>4, <2>2, SecondWent
  <2>3. CASE Uncommented(c)
    BY <1>2, <1>3, <1>4, <2>3, SecondUncommented
  <2>4. CASE Wrote(c)
    BY <1>2, <1>3, <1>4, <2>4, SecondWrote
  <2>5. CASE NameBegan(c)
    BY <1>2, <1>3, <1>4, <2>5, SecondNameBegan
  <2>6. CASE NameEnded(c)
    BY <1>2, <1>3, <1>4, <2>6, SecondNameEnded
  <2>7. CASE ValueClosed(c)
    BY <1>2, <1>3, <1>4, <2>7, SecondClosed
  <2>8. CASE ValueOpened(c)
    BY <1>2, <1>3, <1>4, <2>8, SecondOpened
  <2>9. CASE LiteralRead(c)
    BY <1>2, <1>3, <1>4, <2>9, SecondLiteral
  <2>10. QED
    BY <1>5, <2>1, <2>2, <2>3, <2>4, <2>5, <2>6, <2>7, <2>8, <2>9 DEF Chosen
<1>6. ~PassEnds
  <2>1. SUFFICES ASSUME PassEnds PROVE FALSE
    OBVIOUS
  <2>2. Has("done") /\ ~Has("string") /\ ~InComment /\ Read("end") /\ "end" \in Token
    BY <2>1 DEF PassEnds, Outside, Token
  <2>3. In(c, "done") /\ ~In(c, "string") /\ ~In(c, "line_comment") /\ ~In(c, "block_comment")
    BY <1>1, <2>2, FlagsHere DEF Flag, Commented
  <2>4. text[c.ptr] = "end"
    BY <1>1, <1>3, <2>2, ReadHere
  <2>5. QED
    BY <2>3, <2>4 DEF Leads, Blank
<1>7. ASSUME NEW b \in Token, NumberBegins(b) PROVE FALSE
  BY <1>1, <1>7 DEF NumberBegins
<1>8. ASSUME NEW b \in Token, NumberSkipped(b) PROVE Second(d, f)'
  BY <1>2, <1>4, <1>8, SecondNumber
<1>9. QED
  BY <1>2, <1>3, <1>5, <1>6, <1>7, <1>8

LEMMA FinalStep ==
  ASSUME NEW c, Here(c), Final(c, text), pc = "parse", pass = 2, Step
  PROVE  PassEnds /\ text' = text
<1>1. In(c, "done") /\ ~In(c, "string") /\ ~Commented(c) /\ c.ptr <= Len(text) /\ text[c.ptr] = "end"
  BY DEF Final
<1>2. Has("done") /\ ~Has("string") /\ ~InComment /\ ptr = c.ptr
  BY <1>1, FlagsHere DEF Flag
<1>3. Len(text) \in Nat /\ ~(ptr > Len(text))
  BY <1>1, <1>2, LenProperties DEF Here, Regular, Typed
<1>4. ASSUME NEW b, Read(b) PROVE b = "end" /\ text' = text
  BY <1>1, <1>2, <1>3, <1>4 DEF Read
<1>5. ASSUME NEW b \in Token,
             \/ StringRound(b) \/ LineComment(b) \/ BlockComment(b) \/ CommentBegins(b)
             \/ Trailing(b) \/ BetweenValues(b) \/ NoValue(b) \/ OutOfMemory(b)
             \/ NumberBegins(b) \/ NumberSkipped(b) \/ Entry(b)
             \/ DigitRound(b) \/ NumberPart(b) \/ NumberEnds(b)
      PROVE  FALSE
  <2>1. ~StringRound(b) /\ ~LineComment(b) /\ ~BlockComment(b)
    BY <1>2 DEF StringRound, LineComment, BlockComment, InComment
  <2>2. ~CommentBegins(b) /\ ~Trailing(b)
    BY <1>4 DEF CommentBegins, Trailing, Outside
  <2>3. ~BetweenValues(b) /\ ~NoValue(b) /\ ~OutOfMemory(b) /\ ~NumberBegins(b) /\ ~NumberSkipped(b)
    BY <1>2 DEF BetweenValues, NoValue, OutOfMemory, NumberBegins, NumberSkipped, Seeks
  <2>4. ~Entry(b) /\ ~InNumber(b)
    BY <1>2 DEF Entry, InObject, InNumber
  <2>5. QED
    BY <1>5, <2>1, <2>2, <2>3, <2>4 DEF DigitRound, NumberPart, NumberEnds
<1>6. ~(StringEnds \/ NameEnds \/ ArrayEnds \/ Literal \/ ObjectEnds)
  BY <1>2 DEF StringEnds, NameEnds, ArrayEnds, Literal, ObjectEnds, Seeks, InObject
<1>7. ~(Opens("lbrace", "object") \/ Opens("[", "array") \/ Opens("quote", "string"))
  BY <1>2 DEF Opens, Seeks
<1>8. ~Discard /\ ~Release /\ ~Free
  BY DEF Discard, Release, Free
<1>9. PassEnds
  BY <1>5, <1>6, <1>7, <1>8 DEF Step
<1>10. QED
  BY <1>4, <1>9 DEF PassEnds, Outside

-----------------------------------------------------------------------------
(* What is left when the second pass is over, and its release: a tree of K *)
(* values.                                                                 *)

Slot(v, i) ==
  v # 1 /\ i \in 1 .. Len(nodes[nodes[v].parent].items) /\ nodes[nodes[v].parent].items[i] = v

Tree(K) ==
  /\ K \in Nat /\ nodes \in [1 .. K -> Node]
  /\ \A v \in 1 .. K : nodes[v].parent < v /\ (nodes[v].parent = 0 <=> v = 1)
  /\ \A v \in 1 .. K : \A i \in 1 .. Len(nodes[v].items) :
       /\ nodes[v].items[i] \in 1 .. K /\ nodes[nodes[v].items[i]].parent = v
       /\ nodes[v].type \in Container
  /\ \A v \in 1 .. K : \A i, j \in 1 .. Len(nodes[v].items) : nodes[v].items[i] = nodes[v].items[j] => i = j

Calm == pass = 2 /\ root = 1 /\ ptr <= Len(text) + 1 /\ ~Has("string") /\ ~Has("need_colon")

Roomy ==
  areas \subseteq live /\ \A v \in areas : nodes[v].type # "string" => nodes[v].length <= nodes[v].room

\* The values before r are as the second pass left them, and those in a slot are among them.
Intact(K, r) ==
  /\ \A v \in 1 .. K : v < r /\ nodes[v].type \in Container =>
       nodes[v].length = Len(nodes[v].items) /\ (nodes[v].length > 0 => v \in areas)
  /\ \A v \in 1 .. K : \A i \in 1 .. Len(nodes[v].items) : nodes[v].items[i] < r

LEMMA SecondTree ==
  ASSUME NEW c, NEW f, Second(c, f)
  PROVE  Tree(f.n) /\ Roomy /\ Intact(f.n, c.n + 1) /\ c.n \in Nat /\ f.n \in Nat /\ c.n <= f.n
<1>1. /\ Regular(c) /\ Typed(c) /\ Finished(f) /\ Regular(f) /\ Typed(f) /\ Family(f)
      /\ Later(c, f) /\ Allocated(c, f) /\ Slotted(c, f)
  BY DEF Second, Here, Finished, Regular
<1>2. c.n \in Nat /\ f.n \in Nat /\ c.n <= f.n /\ c.closed \subseteq 1 .. c.n
  BY <1>1 DEF Typed, Later
<1>3. /\ nodes \in [1 .. f.n -> Node] /\ live = 1 .. f.n /\ areas = {v \in 1 .. c.n : NeedsRoom(f, v)}
      /\ \A v \in 1 .. f.n : nodes[v].type = f.type[v] /\ nodes[v].parent = f.parent[v]
      /\ \A v \in 1 .. c.n : Filled(c, f, v)
  BY <1>1 DEF Allocated
<1>4. ASSUME NEW v \in 1 .. f.n
      PROVE  /\ \A i \in 1 .. Len(nodes[v].items) : nodes[v].items[i] \in 1 .. c.n /\ f.parent[nodes[v].items[i]] = v
             /\ \A i, j \in 1 .. Len(nodes[v].items) : nodes[v].items[i] = nodes[v].items[j] => i = j
             /\ v <= c.n /\ f.type[v] \in Container => Len(nodes[v].items) = c.length[v]
  <2>1. Slots(nodes[v].items, v, c, f)
    BY <1>1 DEF Slotted
  <2>2. QED
    BY <1>2, <2>1 DEF Slots
<1>5. Tree(f.n)
  <2>1. \A v \in 1 .. f.n : nodes[v].parent < v /\ (nodes[v].parent = 0 <=> v = 1)
    BY <1>1, <1>3 DEF Family
  <2>2. \A v \in 1 .. f.n : \A i \in 1 .. Len(nodes[v].items) :
          /\ nodes[v].items[i] \in 1 .. f.n /\ nodes[nodes[v].items[i]].parent = v
          /\ nodes[v].type \in Container
    <3>1. TAKE v \in 1 .. f.n
    <3>2. TAKE i \in 1 .. Len(nodes[v].items)
    <3>3. nodes[v].items[i] \in 1 .. c.n /\ f.parent[nodes[v].items[i]] = v
      BY <1>4
    <3>4. PICK w : w = nodes[v].items[i]
      OBVIOUS
    <3>5. w \in 1 .. f.n /\ f.parent[w] = v
      BY <1>2, <3>3, <3>4
    <3>6. w # 1 /\ f.type[v] \in Container
      BY <1>1, <3>5 DEF Family
    <3>7. QED
      BY <1>3, <3>4, <3>5, <3>6
  <2>3. QED
    BY <1>2, <1>3, <1>4, <2>1, <2>2 DEF Tree
<1>6. \A v \in 1 .. c.n : c.length[v] \in Nat /\ f.length[v] \in Nat /\ c.length[v] <= f.length[v]
  <2>1. TAKE v \in 1 .. c.n
  <2>2. /\ c.length[v] \in Nat /\ f.length[v] \in Nat /\ Pending(c, v) \in Nat
        /\ c.length[v] + Pending(c, v) <= f.length[v]
    BY <1>1, Counted
  <2>3. QED
    BY <2>2
<1>7. Roomy
  <2>1. areas \subseteq live
    BY <1>2, <1>3
  <2>2. ASSUME NEW v \in areas, nodes[v].type # "string" PROVE nodes[v].length <= nodes[v].room
    <3>1. v \in 1 .. c.n /\ NeedsRoom(f, v) /\ v \in 1 .. f.n
      BY <1>2, <1>3
    <3>2. f.type[v] \in Container /\ f.length[v] > 0
      BY <1>3, <2>2, <3>1 DEF NeedsRoom
    <3>3. nodes[v].length = c.length[v] /\ nodes[v].room = f.length[v]
      BY <1>3, <3>1, <3>2 DEF Filled
    <3>4. QED
      BY <1>6, <3>1, <3>3
  <2>3. QED
    BY <2>1, <2>2 DEF Roomy
<1>8. Intact(f.n, c.n + 1)
  <2>1. ASSUME NEW v \in 1 .. f.n, v < c.n + 1, nodes[v].type \in Container
        PROVE  nodes[v].length = Len(nodes[v].items) /\ (nodes[v].length > 0 => v \in areas)
    <3>1. v \in 1 .. c.n /\ v <= c.n /\ f.type[v] \in Container
      BY <1>2, <1>3, <2>1
    <3>2. nodes[v].length = c.length[v]
      BY <1>3, <3>1 DEF Filled
    <3>3. Len(nodes[v].items) = c.length[v]
      BY <1>4, <3>1
    <3>4. nodes[v].length > 0 => v \in areas
      BY <1>3, <1>6, <3>1, <3>2 DEF NeedsRoom
    <3>5. QED
      BY <3>2, <3>3, <3>4
  <2>2. ASSUME NEW v \in 1 .. f.n, NEW i \in 1 .. Len(nodes[v].items)
        PROVE  nodes[v].items[i] < c.n + 1
    BY <1>2, <1>4
  <2>3. QED
    BY <2>1, <2>2 DEF Intact
<1>9. QED
  BY <1>2, <1>5, <1>7, <1>8

LEMMA SecondInBounds ==
  ASSUME NEW c, NEW f, Second(c, f)
  PROVE  InBounds
<1>1. /\ Here(c) /\ Regular(c) /\ Modes(c) /\ Family(c) /\ Typed(c) /\ Finished(f) /\ Later(c, f)
      /\ Allocated(c, f) /\ pass = 2 /\ top = c.top /\ ptr <= Len(text) + 1
  BY DEF Second, Here, Regular
<1>2. \A v \in areas : nodes[v].type # "string" => nodes[v].length <= nodes[v].room
  BY SecondTree DEF Roomy
<1>3. \A x \in Flag : Has(x) <=> In(c, x)
  BY <1>1, FlagsHere
<1>4. "string" \in Flag /\ "need_colon" \in Flag /\ "seek_value" \in Flag
  BY DEF Flag
<1>5. ASSUME Is("object"), Has("string") \/ Has("need_colon")
      PROVE  /\ Top.length < Top.room
             /\ Len(Top.mem) = f.chars[top] /\ Top.reserved = c.chars[top]
  <2>1. TopKind(c) = "object" /\ c.top # 0 /\ (In(c, "string") \/ In(c, "seek_value"))
    <3>1. TopKind(c) = "object"
      BY <1>1, <1>5, FlagsHere DEF Kind, Container
    <3>2. c.top # 0
      BY <3>1 DEF TopKind
    <3>3. In(c, "string") \/ In(c, "seek_value")
      BY <1>1, <1>3, <1>4, <1>5 DEF Modes
    <3>4. QED
      BY <3>1, <3>2, <3>3
  <2>2. top \in 1 .. c.n /\ c.type[top] = "object"
    BY <1>1, <2>1, SecondTop DEF TopKind
  <2>3. Pending(c, top) = 1
    BY <1>1, <2>1, <2>2 DEF Pending
  <2>4. /\ c.length[top] \in Nat /\ f.length[top] \in Nat /\ c.length[top] + 1 <= f.length[top]
        /\ f.type[top] = "object"
    BY <1>1, <2>2, <2>3, Counted
  <2>5. Filled(c, f, top)
    BY <1>1, <2>2 DEF Allocated
  <2>6. /\ nodes[top].length = c.length[top] /\ nodes[top].room = f.length[top]
        /\ Len(nodes[top].mem) = f.chars[top] /\ nodes[top].reserved = c.chars[top]
    BY <2>4, <2>5 DEF Filled, Container
  <2>7. QED
    BY <2>4, <2>6 DEF Top
<1>6. ASSUME Has("string") PROVE StringAt + string_length < Len(Top.mem)
  <2>1. /\ In(c, "string") /\ c.top # 0 /\ ~In(c, "done") /\ c.type[c.top] \in {"string", "object"}
        /\ c.top \in Unclosed(c)
    BY <1>1, <1>3, <1>4, <1>6, StringTop
  <2>2. top \in 1 .. c.n /\ nodes[top].type = c.type[top] /\ string_length = c.sl /\ c.sl \in Nat
    BY <1>1, <2>1, SecondTop DEF Here, Typed
  <2>3. CASE c.type[top] = "string"
    <3>1. StringAt = 0
      BY <2>2, <2>3 DEF StringAt, Is, Top
    <3>2. Pending(c, top) = c.sl
      <4>1. ~\E w \in Unclosed(c) : c.parent[w] = top
        BY <1>1 DEF Family
      <4>2. QED
        BY <1>1, <2>1, <2>3, <4>1 DEF Pending
    <3>3. c.length[top] \in Nat /\ f.length[top] \in Nat /\ c.length[top] + c.sl <= f.length[top]
          /\ f.type[top] = "string"
      BY <1>1, <2>2, <2>3, <3>2, Counted
    <3>4. Len(nodes[top].mem) = f.length[top] + 1
      BY <1>1, <2>2, <3>3 DEF Allocated, Filled
    <3>5. QED
      BY <2>2, <3>1, <3>3, <3>4 DEF Top
  <2>4. CASE c.type[top] = "object"
    <3>1. Is("object")
      BY <1>1, <2>1, <2>2, <2>4 DEF Is, Top
    <3>2. Len(Top.mem) = f.chars[top] /\ Top.reserved = c.chars[top]
      BY <1>5, <1>6, <3>1
    <3>3. StringAt = c.chars[top]
      BY <3>1, <3>2 DEF StringAt
    <3>4. PendingChars(c, top) = c.sl + 1
      BY <1>1, <2>1, <2>4 DEF PendingChars
    <3>5. c.chars[top] \in Nat /\ f.chars[top] \in Nat /\ c.chars[top] + (c.sl + 1) <= f.chars[top]
      BY <1>1, <2>2, <3>4, Counted
    <3>6. QED
      BY <2>2, <3>2, <3>3, <3>5
  <2>5. QED
    BY <1>1, <2>1, <2>3, <2>4
<1>7. QED
  BY <1>1, <1>2, <1>5, <1>6 DEF InBounds

Spared(K) == \A v \in 2 .. K : \E i : Slot(v, i)

\* All values are there, each in the slot it belongs to.
Parsed(K) ==
  /\ pc = "parsed" /\ Tree(K) /\ Calm /\ Roomy /\ Intact(K, K + 1)
  /\ K # 0 /\ live = 1 .. K /\ outcome = "none" /\ Spared(K)

\* The memory of top was refused: those behind it are freed.
Abandoned(K) ==
  /\ pc = "discard" /\ Tree(K) /\ Calm /\ Roomy /\ outcome = "memory"
  /\ top \in 1 .. K /\ Intact(K, top)
  /\ \A v \in 1 .. K : v > top => nodes[v].reserved = (IF v < K THEN v + 1 ELSE 0)
  /\ \A v \in areas : v < top
  /\ alloc = 0 \/ alloc \in top + 1 .. K
  /\ live = (1 .. top) \cup (IF alloc = 0 THEN {} ELSE alloc .. K)

\* P are the values from the root to val; a slot is used until its value is among them.
Path(P) ==
  /\ P \subseteq live /\ val \in P /\ \A u \in P : nodes[u].parent # val
  /\ \A u \in P : u # 1 =>
       nodes[u].parent \in P /\ Slot(u, nodes[nodes[u].parent].length + 1)
  /\ \A v \in live : \A i : Slot(v, i) =>
       nodes[v].parent \in live /\ (i <= nodes[nodes[v].parent].length \/ v \in P)
  /\ \A v \in live : nodes[v].type \in Container /\ nodes[v].length > 0 =>
       \/ /\ v \in areas /\ nodes[v].length <= Len(nodes[v].items)
          /\ \A i \in 1 .. nodes[v].length : nodes[v].items[i] \in live
       \/ v = top /\ outcome = "memory"

Complete(K) ==
  \/ outcome = "none" /\ Spared(K)
  \/ outcome = "memory" /\ top \in (1 .. K) \ areas /\ \A i : ~Slot(top, i)

Releasing(K) ==
  pc = "free" /\ Tree(K) /\ Calm /\ Roomy /\ live \subseteq 1 .. K /\ Complete(K) /\ \E P : Path(P)

Released(K) ==
  /\ pc = "returned" /\ Tree(K) /\ Calm /\ Roomy /\ live \subseteq 2 .. K /\ Complete(K)
  /\ \A v \in live : \A i : Slot(v, i) => nodes[v].parent \in live

Crashed ==
  pc = "crashed" /\ Calm /\ Roomy /\ outcome = "memory" /\ top = root /\ val = root

\* The step that starts the release from the root.
LEMMA ReleaseStarts ==
  ASSUME NEW K, Tree(K), Calm, Roomy, Complete(K), NEW r, live = 1 .. r, r # 0, r \in 0 .. K,
         \/ r = K /\ Intact(K, K + 1) /\ outcome = "none"
         \/ r = top /\ Intact(K, r) /\ outcome = "memory",
         pc' = "free", val' = root,
         UNCHANGED <<text, pass, ptr, flags, top, root, nodes, live, areas, outcome>>
  PROVE  Releasing(K)'
<1>1. K \in Nat /\ nodes \in [1 .. K -> Node] /\ root = 1 /\ r \in Nat /\ r >= 1 /\ r <= K
  BY DEF Tree, Calm
<1>2. val' = 1 /\ 1 \in live
  BY <1>1
<1>3. \A v \in 1 .. r : nodes[v].parent # 1 \/ v # 1
  BY <1>1 DEF Tree
<1>4. ASSUME NEW v \in live, NEW i, Slot(v, i)
      PROVE  nodes[v].parent \in live /\ i <= nodes[nodes[v].parent].length
  <2>1. v \in 1 .. K /\ v <= r /\ v # 1 /\ v \in Nat
    BY <1>1, <1>4 DEF Slot
  <2>2. nodes[v].parent < v /\ nodes[v].parent # 0 /\ nodes[v].parent \in Nat
    BY <1>1, <2>1 DEF Tree, Node
  <2>3. PICK p : p = nodes[v].parent
    OBVIOUS
  <2>4. p \in 1 .. r /\ p \in 1 .. K
    BY <1>1, <2>1, <2>2, <2>3
  <2>5. i \in 1 .. Len(nodes[p].items) /\ nodes[p].type \in Container
    BY <1>4, <2>3, <2>4 DEF Slot, Tree
  <2>6. p < r \/ outcome = "none"
    BY <1>1, <2>1, <2>2, <2>3
  <2>7. nodes[p].length = Len(nodes[p].items)
    <3>1. CASE r = K /\ Intact(K, K + 1)
      <4>1. p < K + 1
        BY <1>1, <2>4
      <4>2. QED
        BY <2>4, <2>5, <3>1, <4>1 DEF Intact
    <3>2. CASE r = top /\ Intact(K, r)
      <4>1. p < r
        BY <1>1, <2>1, <2>2, <2>3
      <4>2. QED
        BY <2>4, <2>5, <3>2, <4>1 DEF Intact
    <3>3. QED
      BY <3>1, <3>2
  <2>8. i <= Len(nodes[p].items)
    BY <2>5
  <2>9. QED
    BY <2>3, <2>4, <2>7, <2>8
<1>5. ASSUME NEW v \in live, nodes[v].type \in Container, nodes[v].length > 0
      PROVE  \/ /\ v \in areas /\ nodes[v].length <= Len(nodes[v].items)
                /\ \A i \in 1 .. nodes[v].length : nodes[v].items[i] \in live
             \/ v = top /\ outcome = "memory"
  <2>1. v \in 1 .. K /\ v <= r /\ nodes[v] \in Node
    BY <1>1
  <2>2. SUFFICES ASSUME ~(v = top /\ outcome = "memory")
                 PROVE  /\ v \in areas /\ nodes[v].length <= Len(nodes[v].items)
                        /\ \A i \in 1 .. nodes[v].length : nodes[v].items[i] \in live
    OBVIOUS
  <2>3. nodes[v].length \in Nat /\ nodes[v].items \in Seq(Nat)
    BY <2>1 DEF Node
  <2>4. CASE r = K /\ Intact(K, K + 1)
    <3>1. v < K + 1
      BY <1>1, <2>1
    <3>2. nodes[v].length = Len(nodes[v].items) /\ v \in areas
      BY <1>5, <2>1, <2>4, <3>1 DEF Intact
    <3>3. \A i \in 1 .. Len(nodes[v].items) : nodes[v].items[i] \in 1 .. K
      BY <2>1 DEF Tree
    <3>4. QED
      BY <2>3, <2>4, <3>2, <3>3
  <2>5. CASE r = top /\ Intact(K, r) /\ outcome = "memory"
    <3>1. v < r
      BY <1>1, <2>1, <2>2, <2>5
    <3>2. nodes[v].length = Len(nodes[v].items) /\ v \in areas
      BY <1>5, <2>1, <2>5, <3>1 DEF Intact
    <3>3. \A i \in 1 .. Len(nodes[v].items) : nodes[v].items[i] \in 1 .. K /\ nodes[v].items[i] < r
      BY <2>1, <2>5 DEF Tree, Intact
    <3>4. \A i \in 1 .. Len(nodes[v].items) : nodes[v].items[i] \in 1 .. r
      BY <1>1, <3>3
    <3>5. QED
      BY <2>3, <3>2, <3>4
  <2>6. QED
    BY <2>4, <2>5
<1>6. Path({1})'
  <2>1. \A u \in {1} : nodes[u].parent # 1
    BY <1>1, <1>2, <1>3
  <2>2. QED
    BY <1>2, <1>4, <1>5, <2>1 DEF Path, Slot
<1>7. live \subseteq 1 .. K
  BY <1>1
<1>8. Tree(K)' /\ Calm' /\ Roomy' /\ Complete(K)'
  BY DEF Tree, Calm, Roomy, Complete, Spared, Slot, Has
<1>9. QED
  BY <1>6, <1>7, <1>8 DEF Releasing

-----------------------------------------------------------------------------
(* From the second pass to the release.                                    *)

Quiet == pc \in {"parse", "parsed"} => outcome = "none"

LEMMA NotReading ==
  ASSUME Step, pc # "parse"
  PROVE  Discard \/ Release \/ Free
<1>1. ASSUME NEW b, Read(b) PROVE FALSE
  BY <1>1 DEF Read
<1>2. ASSUME NEW b, \/ StringRound(b) \/ LineComment(b) \/ BlockComment(b) \/ CommentBegins(b)
                    \/ Trailing(b) \/ BetweenValues(b) \/ NoValue(b) \/ OutOfMemory(b)
                    \/ NumberBegins(b) \/ NumberSkipped(b) \/ Entry(b)
                    \/ DigitRound(b) \/ NumberPart(b) \/ NumberEnds(b)
      PROVE  FALSE
  BY <1>1, <1>2 DEF StringRound, LineComment, BlockComment, CommentBegins, Trailing, BetweenValues,
            NoValue, OutOfMemory, NumberBegins, NumberSkipped, Entry, DigitRound, NumberPart, NumberEnds,
            InNumber, InObject, Seeks, Outside
<1>3. ~(StringEnds \/ NameEnds \/ PassEnds \/ ArrayEnds \/ Literal \/ ObjectEnds)
  BY <1>1 DEF StringEnds, NameEnds, PassEnds, ArrayEnds, Literal, ObjectEnds, Seeks, InObject, Outside
<1>4. ~(Opens("lbrace", "object") \/ Opens("[", "array") \/ Opens("quote", "string"))
  BY <1>1 DEF Opens, Seeks, Outside
<1>5. QED
  BY <1>2, <1>3, <1>4 DEF Step

LEMMA QuietStep ==
  ASSUME Quiet, Step
  PROVE  Quiet'
<1>1. CASE pc # "parse"
  <2>1. Discard \/ Release \/ Free
    BY <1>1, NotReading
  <2>2. pc' \notin {"parse", "parsed"}
    BY <2>1 DEF Discard, Release, Free
  <2>3. QED
    BY <2>2 DEF Quiet
<1>2. CASE pc = "parse"
  <2>1. ASSUME NEW b \in Token, StringRound(b) \/ LineComment(b) \/ BlockComment(b) \/ CommentBegins(b)
        PROVE  outcome' = outcome \/ pc' = "discard"
    BY <2>1 DEF StringRound, LineComment, BlockComment, CommentBegins, Refuse, Fail, Continue, StringAdd, Round,
                Reproc
  <2>2. ASSUME NEW b \in Token, Trailing(b) \/ BetweenValues(b) \/ NoValue(b) \/ OutOfMemory(b) \/ Entry(b)
        PROVE  outcome' = outcome \/ pc' = "discard"
    BY <2>2 DEF Trailing, BetweenValues, NoValue, OutOfMemory, Entry, NewValueFails, Refuse, Fail, Continue, Round
  <2>3. ASSUME NEW b \in Token, NumberBegins(b) \/ NumberSkipped(b)
        PROVE  outcome' = outcome \/ pc' = "discard"
    BY <2>3 DEF NumberBegins, NumberSkipped, NextFlag, Round, Reproc
  <2>4. ASSUME NEW b \in Token, DigitRound(b) \/ NumberPart(b) \/ NumberEnds(b)
        PROVE  outcome' = outcome \/ pc' = "discard"
    BY <2>4 DEF DigitRound, NumberPart, NumberEnds, NumberGoesOn, BecomesDouble, NextFlag, Refuse, Fail, Round, Reproc
  <2>5. ASSUME StringEnds \/ NameEnds \/ PassEnds \/ ArrayEnds \/ Literal \/ ObjectEnds
        PROVE  outcome' = outcome \/ pc' = "discard"
    <3>1. ASSUME NEW ns, NEW v, NEW g, NextFlag(ns, v, g) PROVE outcome' = outcome
      BY <3>1 DEF NextFlag
    <3>2. ASSUME NEW g, Round(g) PROVE outcome' = outcome
      BY <3>2 DEF Round
    <3>3. PassEnds => outcome' = outcome
      BY DEF PassEnds
    <3>4. QED
      BY <2>5, <3>1, <3>2, <3>3, Zenon DEF StringEnds, NameEnds, ArrayEnds, Literal, ObjectEnds
  <2>6. ASSUME NEW b, NEW type, Opens(b, type) PROVE outcome' = outcome \/ pc' = "discard"
    <3>1. PICK g : Round(g)
      BY <2>6, Zenon DEF Opens
    <3>2. QED
      BY <3>1 DEF Round
  <2>7. ~(Discard \/ Release \/ Free)
    BY <1>2 DEF Discard, Release, Free
  <2>8. outcome' = outcome \/ pc' = "discard"
    BY <2>1, <2>2, <2>3, <2>4, <2>5, <2>6, <2>7, Zenon DEF Step
  <2>9. QED
    BY <1>2, <2>8 DEF Quiet
<1>3. QED
  BY <1>1, <1>2

LEMMA SecondOver ==
  ASSUME NEW f, Second(f, f), Quiet, PassEnds, text' = text
  PROVE  Parsed(f.n)'
<1>1. /\ Here(f) /\ Regular(f) /\ Typed(f) /\ Modes(f) /\ Family(f) /\ In(f, "done") /\ Allocated(f, f)
      /\ Slotted(f, f) /\ pass = 2 /\ pc = "parse"
  BY DEF Second, Finished, Regular
<1>2. Tree(f.n) /\ Roomy /\ Intact(f.n, f.n + 1) /\ f.n \in Nat
  BY SecondTree
<1>3. f.closed = 1 .. f.n /\ f.top = 1 /\ ~In(f, "need_colon")
  BY <1>1 DEF Modes
<1>4. f.n # 0 /\ root = 1 /\ live = 1 .. f.n
  BY <1>1, <1>2, <1>3 DEF Typed, Allocated
<1>5. ~Has("string") /\ ~Has("need_colon")
  BY <1>1, <1>3, FlagsHere DEF PassEnds, Outside, Flag
<1>6. /\ pc' = "parsed" /\ outcome' = outcome
      /\ UNCHANGED <<pass, ptr, flags, top, root, nodes, live, areas>>
  BY <1>1 DEF PassEnds, memory
<1>7. Spared(f.n)
  <2>1. SUFFICES ASSUME NEW v \in 2 .. f.n PROVE \E i : Slot(v, i)
    BY DEF Spared
  <2>2. PICK p : p = nodes[v].parent
    OBVIOUS
  <2>3. v \in 1 .. f.n /\ v # 1 /\ p = f.parent[v]
    BY <1>1, <1>2, <2>1, <2>2 DEF Allocated
  <2>4. p \in 1 .. f.n
    BY <1>1, <1>2, <2>1, <2>3 DEF Family, Typed
  <2>5. \E i \in 1 .. Len(nodes[p].items) : nodes[p].items[i] = v
    BY <1>1, <1>3, <2>3, <2>4 DEF Slotted, Slots
  <2>6. QED
    BY <2>2, <2>3, <2>5 DEF Slot
<1>8. ptr <= Len(text) + 1 /\ outcome = "none"
  BY <1>1 DEF Here, Quiet
<1>9. Calm
  BY <1>1, <1>4, <1>5, <1>8 DEF Calm
<1>10. Tree(f.n)' /\ Calm' /\ Roomy' /\ Intact(f.n, f.n + 1)' /\ Spared(f.n)'
  BY <1>2, <1>6, <1>7, <1>9 DEF Tree, Calm, Roomy, Intact, Spared, Slot, Has
<1>11. QED
  BY <1>4, <1>6, <1>8, <1>10 DEF Parsed

\* Memory is refused for a value that the first pass has read.
LEMMA SecondRefused ==
  ASSUME NEW c, NEW d, NEW f, Second(c, f), Regular(d), Later(d, f), Leads(c, d, text), text' = text,
         NEW b \in Token, OutOfMemory(b)
  PROVE  Abandoned(f.n)'
<1>1. /\ Here(c) /\ Regular(c) /\ Typed(c) /\ Allocated(c, f) /\ pass = 2 /\ Typed(d)
      /\ Tree(f.n) /\ Roomy /\ Intact(f.n, c.n + 1) /\ c.n \in Nat /\ f.n \in Nat /\ c.n <= f.n
  BY SecondTree DEF Second, Here, Regular
<1>2. Seeks(b) /\ Begins /\ b \in {"lbrace", "[", "quote", "literal", "-"} \cup Digit /\ NewValueFails
  BY DEF OutOfMemory
<1>3. Seeking(c, d, text, b)
  BY <1>1, <1>2, SeeksHere
<1>4. d.n = c.n + 1
  <2>1. b \notin Blank /\ b # "comma" /\ b # ":" /\ b # "]"
    BY <1>2 DEF Blank, Digit
  <2>2. (\E x : OpensValue(c, d, x)) \/ (\E type : AddsClosed(c, d, type))
    BY <1>3, <2>1 DEF Seeking
  <2>3. QED
    BY <2>2 DEF OpensValue, AddsClosed, AddsValue
<1>5. c.n + 1 \in 1 .. f.n /\ c.n < f.n
  BY <1>1, <1>4 DEF Later
<1>6. PICK q : q = c.n + 1
  OBVIOUS
<1>7. /\ alloc = q /\ live = 1 .. f.n /\ root = (IF c.n = 0 THEN 0 ELSE 1)
      /\ areas \subseteq 1 .. c.n
      /\ \A v \in 1 .. f.n : v > c.n => nodes[v].reserved = (IF v < f.n THEN v + 1 ELSE 0)
  BY <1>1, <1>5, <1>6 DEF Allocated, Fresh
<1>8. /\ pc' = "discard" /\ outcome' = "memory" /\ alloc' = nodes[alloc].reserved
      /\ top' = alloc /\ root' = (IF root = 0 THEN alloc ELSE root)
      /\ UNCHANGED <<pass, ptr, flags, nodes, live, areas>>
  BY <1>1, <1>2 DEF NewValueFails, Fail, RootWithNew, New, memory
<1>9. q \in 1 .. f.n /\ q \in Nat /\ root' = 1 /\ top' = q /\ alloc' = (IF q < f.n THEN q + 1 ELSE 0)
  BY <1>1, <1>5, <1>6, <1>7, <1>8
<1>10. ~Has("string") /\ ~Has("need_colon") /\ ptr <= Len(text) + 1
  BY <1>1, <1>2 DEF Seeks, Outside, Begins, Here
<1>11. Calm'
  BY <1>1, <1>8, <1>9, <1>10 DEF Calm, Has
<1>12. Tree(f.n)' /\ Roomy' /\ Intact(f.n, top)'
  BY <1>1, <1>6, <1>8, <1>9 DEF Tree, Roomy, Intact
<1>13. \A v \in 1 .. f.n : v > top' => nodes'[v].reserved = (IF v < f.n THEN v + 1 ELSE 0)
  BY <1>1, <1>6, <1>7, <1>8, <1>9
<1>14. \A v \in areas' : v < top'
  BY <1>1, <1>6, <1>7, <1>8, <1>9
<1>15. /\ alloc' = 0 \/ alloc' \in top' + 1 .. f.n
       /\ live' = (1 .. top') \cup (IF alloc' = 0 THEN {} ELSE alloc' .. f.n)
  <2>1. CASE q < f.n
    <3>1. alloc' = q + 1 /\ alloc' # 0 /\ alloc' \in top' + 1 .. f.n
      BY <1>1, <1>9, <2>1
    <3>2. live' = (1 .. q) \cup (q + 1 .. f.n)
      BY <1>1, <1>7, <1>8, <1>9
    <3>3. QED
      BY <1>9, <3>1, <3>2
  <2>2. CASE ~(q < f.n)
    BY <1>1, <1>7, <1>8, <1>9, <2>2
  <2>3. QED
    BY <2>1, <2>2
<1>16. QED
  BY <1>8, <1>9, <1>11, <1>12, <1>13, <1>14, <1>15 DEF Abandoned

LEMMA ParsedStep ==
  ASSUME NEW K, Parsed(K), Step
  PROVE  Releasing(K)'
<1>1. /\ pc = "parsed" /\ Tree(K) /\ Calm /\ Roomy /\ Intact(K, K + 1)
      /\ K # 0 /\ live = 1 .. K /\ outcome = "none" /\ Spared(K) /\ K \in 0 .. K
  BY DEF Parsed, Tree
<1>2. Release
  BY <1>1, NotReading DEF Discard, Free
<1>3. pc' = "free" /\ val' = root /\ UNCHANGED <<text, pass, ptr, flags, top, root, nodes, live, areas, outcome>>
  BY <1>2 DEF Release, values, memory
<1>4. Complete(K)
  BY <1>1 DEF Complete
<1>5. QED
  BY <1>1, <1>3, <1>4, ReleaseStarts

LEMMA AbandonedStep ==
  ASSUME NEW K, Abandoned(K), Step
  PROVE  Abandoned(K)' \/ Releasing(K)'
<1>1. /\ pc = "discard" /\ Tree(K) /\ Calm /\ Roomy /\ outcome = "memory" /\ top \in 1 .. K /\ Intact(K, top)
      /\ \A v \in 1 .. K : v > top => nodes[v].reserved = (IF v < K THEN v + 1 ELSE 0)
      /\ \A v \in areas : v < top
      /\ alloc = 0 \/ alloc \in top + 1 .. K
      /\ live = (1 .. top) \cup (IF alloc = 0 THEN {} ELSE alloc .. K)
      /\ K \in Nat /\ pass = 2 /\ root = 1
  BY DEF Abandoned, Tree, Calm
<1>2. Discard
  BY <1>1, NotReading DEF Release, Free
<1>3. UNCHANGED <<text, pass, ptr, flags, top, root, nodes, areas, outcome>>
  BY <1>2 DEF Discard
<1>4. CASE alloc # 0
  <2>1. live' = live \ {alloc} /\ alloc' = nodes[alloc].reserved /\ pc' = pc
    BY <1>2, <1>4 DEF Discard
  <2>2. alloc \in 1 .. K /\ alloc > top /\ alloc' = (IF alloc < K THEN alloc + 1 ELSE 0)
    BY <1>1, <1>4, <2>1
  <2>3. alloc' = 0 \/ alloc' \in top + 1 .. K
    BY <1>1, <2>2
  <2>4. live' = (1 .. top) \cup (IF alloc' = 0 THEN {} ELSE alloc' .. K)
    <3>1. CASE alloc < K
      BY <1>1, <1>4, <2>1, <2>2, <3>1
    <3>2. CASE ~(alloc < K)
      BY <1>1, <1>4, <2>1, <2>2, <3>2
    <3>3. QED
      BY <3>1, <3>2
  <2>5. areas' \subseteq live'
    BY <1>1, <1>3, <2>1, <2>2 DEF Roomy
  <2>6. Tree(K)' /\ Calm' /\ Roomy' /\ Intact(K, top)'
    BY <1>1, <1>3, <2>5 DEF Tree, Calm, Roomy, Intact, Has
  <2>7. QED
    BY <1>1, <1>3, <2>1, <2>3, <2>4, <2>6 DEF Abandoned
<1>5. CASE alloc = 0
  <2>1. pc' = "free" /\ val' = root /\ live' = live /\ live = 1 .. top
    BY <1>1, <1>2, <1>5 DEF Discard
  <2>2. \A i : ~Slot(top, i)
    <3>1. SUFFICES ASSUME NEW i, Slot(top, i) PROVE FALSE
      OBVIOUS
    <3>2. PICK p : p = nodes[top].parent
      OBVIOUS
    <3>3. p \in 1 .. K
      <4>1. top # 1 /\ nodes \in [1 .. K -> Node]
        BY <1>1, <3>1 DEF Slot, Tree
      <4>2. nodes[top].parent < top /\ nodes[top].parent # 0
        BY <1>1, <4>1 DEF Tree
      <4>3. nodes[top].parent \in Nat
        BY <1>1, <4>1 DEF Node
      <4>4. QED
        BY <1>1, <3>2, <4>2, <4>3
    <3>4. i \in 1 .. Len(nodes[p].items) /\ nodes[p].items[i] = top
      BY <3>1, <3>2 DEF Slot
    <3>5. nodes[p].items[i] < top
      BY <1>1, <3>3, <3>4 DEF Intact
    <3>6. QED
      BY <1>1, <3>4, <3>5
  <2>3. Complete(K)
    <3>1. top \notin areas
      BY <1>1
    <3>2. QED
      BY <1>1, <2>2, <3>1 DEF Complete
  <2>4. PICK r : r = top
    OBVIOUS
  <2>5. live = 1 .. r /\ r # 0 /\ r \in 0 .. K /\ Intact(K, r)
    BY <1>1, <2>1, <2>4
  <2>6. QED
    BY <1>1, <1>3, <2>1, <2>3, <2>4, <2>5, ReleaseStarts
<1>6. QED
  BY <1>4, <1>5

LEMMA SlotPlace ==
  ASSUME NEW K, Tree(K), NEW v \in 1 .. K, NEW i, Slot(v, i)
  PROVE  /\ v # 1 /\ nodes[v].parent \in 1 .. K /\ nodes[v].parent < v
         /\ i \in 1 .. Len(nodes[nodes[v].parent].items) /\ nodes[nodes[v].parent].items[i] = v
         /\ nodes[nodes[v].parent].type \in Container
<1>1. K \in Nat /\ nodes \in [1 .. K -> Node] /\ v # 1
  BY DEF Tree, Slot
<1>2. nodes[v].parent < v /\ nodes[v].parent # 0
  BY <1>1 DEF Tree
<1>3. nodes[v].parent \in Nat
  BY <1>1 DEF Node
<1>4. PICK p : p = nodes[v].parent
  OBVIOUS
<1>5. p \in 1 .. K
  BY <1>1, <1>2, <1>3, <1>4
<1>6. i \in 1 .. Len(nodes[p].items) /\ nodes[p].items[i] = v
  BY <1>4 DEF Slot
<1>7. nodes[p].type \in Container
  BY <1>5, <1>6 DEF Tree
<1>8. QED
  BY <1>1, <1>2, <1>4, <1>5, <1>6, <1>7

LEMMA SlotOnce ==
  ASSUME NEW K, Tree(K), NEW v \in 1 .. K, NEW i, NEW j, Slot(v, i), Slot(v, j)
  PROVE  i = j
<1>1. PICK p : p = nodes[v].parent
  OBVIOUS
<1>2. /\ p \in 1 .. K /\ i \in 1 .. Len(nodes[p].items) /\ nodes[p].items[i] = v
      /\ j \in 1 .. Len(nodes[p].items) /\ nodes[p].items[j] = v
  BY <1>1, SlotPlace
<1>3. QED
  BY <1>2 DEF Tree

\* json_value_free_ex goes down to the last value in the one where it is.
LEMMA FreeDescends ==
  ASSUME NEW K, Tree(K), Calm, Roomy, Complete(K), live \subseteq 1 .. K, NEW P, Path(P),
         pc = "free", nodes[val].type \in Container, nodes[val].length > 0, val \in areas,
         val' = nodes[val].items[nodes[val].length],
         nodes' = [nodes EXCEPT ![val].length = nodes[val].length - 1],
         UNCHANGED <<text, pass, ptr, flags, top, root, live, areas, outcome, pc>>
  PROVE  Releasing(K)'
<1>1. /\ K \in Nat /\ nodes \in [1 .. K -> Node] /\ val \in P /\ P \subseteq live /\ val \in 1 .. K
      /\ nodes[val] \in Node /\ nodes[val].length \in Nat
  BY DEF Tree, Path, Node
<1>2. ~(val = top /\ outcome = "memory")
  BY DEF Complete
<1>3. /\ nodes[val].length <= Len(nodes[val].items)
      /\ \A i \in 1 .. nodes[val].length : nodes[val].items[i] \in live
  BY <1>1, <1>2 DEF Path
<1>4. PICK k : k = nodes[val].length
  OBVIOUS
<1>5. PICK w : w = nodes[val].items[k]
  OBVIOUS
<1>6. k \in Nat /\ k > 0 /\ k \in 1 .. Len(nodes[val].items) /\ w \in live /\ w \in 1 .. K
  <2>1. Len(nodes[val].items) \in Nat
    BY <1>1, LenProperties DEF Node
  <2>2. QED
    BY <1>1, <1>3, <1>4, <1>5, <2>1
<1>7. nodes[w].parent = val /\ w # 1 /\ val < w
  <2>1. nodes[w].parent = val
    BY <1>1, <1>5, <1>6 DEF Tree
  <2>2. nodes[w].parent < w /\ (nodes[w].parent = 0 <=> w = 1)
    BY <1>6 DEF Tree
  <2>3. QED
    BY <1>1, <2>1, <2>2
<1>8. w \notin P
  BY <1>7 DEF Path
<1>9. /\ nodes' \in [1 .. K -> Node] /\ nodes'[val].length = k - 1
      /\ \A v \in 1 .. K : /\ nodes'[v].parent = nodes[v].parent /\ nodes'[v].type = nodes[v].type
                           /\ nodes'[v].items = nodes[v].items /\ nodes'[v].room = nodes[v].room
                           /\ v # val => nodes'[v].length = nodes[v].length
  <2>0. PICK n : n = nodes[val]
    OBVIOUS
  <2> DEFINE r == [n EXCEPT !.length = k - 1]
  <2>1. /\ r \in Node /\ r.length = k - 1 /\ r.parent = nodes[val].parent /\ r.type = nodes[val].type
        /\ r.items = nodes[val].items /\ r.room = nodes[val].room
    <3>1. n \in Node /\ k - 1 \in Nat
      BY <1>1, <1>6, <2>0
    <3>2. /\ r \in Node /\ r.length = k - 1 /\ r.parent = n.parent /\ r.type = n.type
          /\ r.items = n.items /\ r.room = n.room
      BY <3>1 DEF Node
    <3>3. QED
      BY <2>0, <3>2
  <2>2. nodes' = [nodes EXCEPT ![val] = r]
    BY <1>4, <2>0
  <2> HIDE DEF r
  <2>3. /\ \A v \in 1 .. K : nodes'[v] = IF v = val THEN r ELSE nodes[v]
        /\ nodes' \in [1 .. K -> Node]
    BY <1>1, <2>1, <2>2
  <2>4. QED
    BY <1>1, <2>1, <2>3
<1>10. Tree(K)'
  <2>1. \A v \in 1 .. K : \A i \in 1 .. Len(nodes[v].items) :
          /\ nodes[v].items[i] \in 1 .. K /\ nodes[nodes[v].items[i]].parent = v
          /\ nodes[v].type \in Container
    BY DEF Tree
  <2>2. \A v \in 1 .. K : \A i \in 1 .. Len(nodes'[v].items) :
          /\ nodes'[v].items[i] \in 1 .. K /\ nodes'[nodes'[v].items[i]].parent = v
          /\ nodes'[v].type \in Container
    BY <1>9, <2>1
  <2>3. \A v \in 1 .. K : nodes'[v].parent < v /\ (nodes'[v].parent = 0 <=> v = 1)
    BY <1>9 DEF Tree
  <2>4. \A v \in 1 .. K : \A i, j \in 1 .. Len(nodes'[v].items) :
          nodes'[v].items[i] = nodes'[v].items[j] => i = j
    BY <1>9 DEF Tree
  <2>5. QED
    BY <1>1, <1>9, <2>2, <2>3, <2>4 DEF Tree
<1>11. \A v \in 1 .. K : \A i : Slot(v, i)' <=> Slot(v, i)
  <2>1. TAKE v \in 1 .. K
  <2>2. TAKE i
  <2>3. CASE v = 1
    BY <2>3 DEF Slot
  <2>4. CASE v # 1
    <3>1. nodes[v].parent \in 1 .. K
      <4>1. nodes[v].parent \in Nat /\ nodes[v].parent < v /\ nodes[v].parent # 0
        BY <1>1, <2>4 DEF Tree, Node
      <4>2. PICK p : p = nodes[v].parent
        OBVIOUS
      <4>3. QED
        BY <1>1, <4>1, <4>2
    <3>2. QED
      BY <1>9, <3>1 DEF Slot
  <2>5. QED
    BY <2>3, <2>4
<1>12. Roomy'
  <2>1. ASSUME NEW v \in areas, nodes'[v].type # "string" PROVE nodes'[v].length <= nodes'[v].room
    <3>1. v \in 1 .. K /\ nodes[v] \in Node
      BY <1>1 DEF Roomy
    <3>2. nodes[v].length <= nodes[v].room /\ nodes[v].length \in Nat /\ nodes[v].room \in Nat
      BY <1>9, <2>1, <3>1 DEF Roomy, Node
    <3>3. CASE v = val
      BY <1>4, <1>6, <1>9, <3>1, <3>2, <3>3
    <3>4. CASE v # val
      BY <1>9, <3>1, <3>2, <3>4
    <3>5. QED
      BY <3>3, <3>4
  <2>2. QED
    BY <2>1 DEF Roomy
<1>13. Complete(K)'
  BY <1>11 DEF Complete, Spared
<1>14. Path(P \cup {w})'
  <2>1. P \cup {w} \subseteq live /\ val' = w /\ \A u \in P : u \in 1 .. K
    BY <1>1, <1>4, <1>5, <1>6
  <2>2. \A u \in P \cup {w} : nodes'[u].parent # w
    <3>1. \A u \in P : nodes[u].parent # w
      <4>1. nodes[1].parent = 0 /\ w # 0
        BY <1>1, <1>6 DEF Tree
      <4>2. \A u \in P : u # 1 => nodes[u].parent \in P
        BY DEF Path
      <4>3. QED
        BY <1>8, <4>1, <4>2
    <3>2. nodes[w].parent # w
      BY <1>7, <1>1, <1>6
    <3>3. QED
      BY <1>6, <1>9, <2>1, <3>1, <3>2
  <2>3. ASSUME NEW u \in P \cup {w}, u # 1
        PROVE  (nodes[u].parent \in P \cup {w} /\ Slot(u, nodes[nodes[u].parent].length + 1))'
    <3>1. CASE u = w
      <4>1. nodes'[u].parent = val /\ nodes'[val].length + 1 = k
        BY <1>6, <1>7, <1>9, <3>1
      <4>2. Slot(u, k)
        BY <1>5, <1>6, <1>7, <3>1 DEF Slot
      <4>3. Slot(u, k)'
        BY <1>6, <1>11, <3>1, <4>2
      <4>4. nodes'[nodes'[u].parent].length + 1 = k
        BY <4>1
      <4>5. nodes'[u].parent \in P \cup {w}
        BY <1>1, <4>1
      <4>6. QED
        BY <4>3, <4>4, <4>5 DEF Slot
    <3>2. CASE u \in P
      <4>1. nodes[u].parent \in P /\ nodes[u].parent # val /\ Slot(u, nodes[nodes[u].parent].length + 1)
        BY <2>3, <3>2 DEF Path
      <4>2. nodes'[u].parent = nodes[u].parent /\ nodes'[nodes[u].parent].length = nodes[nodes[u].parent].length
        BY <1>9, <2>1, <3>2, <4>1
      <4>3. PICK j : j = nodes[nodes[u].parent].length + 1
        OBVIOUS
      <4>4. Slot(u, j)
        BY <4>1, <4>3
      <4>5. Slot(u, j)'
        BY <1>11, <2>1, <3>2, <4>4
      <4>6. nodes'[nodes'[u].parent].length + 1 = j /\ nodes'[u].parent \in P \cup {w}
        BY <4>1, <4>2, <4>3
      <4>7. QED
        BY <4>5, <4>6 DEF Slot
    <3>3. QED
      BY <3>1, <3>2
  <2>4. ASSUME NEW v \in live, NEW i, Slot(v, i)'
        PROVE  nodes'[v].parent \in live /\ (i <= nodes'[nodes'[v].parent].length \/ v \in P \cup {w})
    <3>1. v \in 1 .. K /\ Slot(v, i)
      BY <1>11, <2>4
    <3>2. PICK p : p = nodes[v].parent
      OBVIOUS
    <3>3. p \in 1 .. K /\ i \in 1 .. Len(nodes[p].items) /\ nodes[p].items[i] = v
      BY <3>1, <3>2, SlotPlace
    <3>4. p \in live /\ (i <= nodes[p].length \/ v \in P)
      BY <3>1, <3>2 DEF Path
    <3>5. nodes'[v].parent = p
      BY <1>9, <3>1, <3>2
    <3>6. CASE p # val
      BY <1>9, <3>3, <3>4, <3>5, <3>6
    <3>7. CASE p = val
      <4>1. v \notin P
        BY <3>2, <3>7 DEF Path
      <4>2. i <= k
        BY <1>4, <3>4, <3>7, <4>1
      <4>3. i = k => v = w
        BY <1>5, <3>3, <3>7
      <4>4. i # k => i <= k - 1
        BY <1>6, <3>3, <4>2
      <4>5. QED
        BY <1>9, <3>4, <3>5, <3>7, <4>3, <4>4
    <3>8. QED
      BY <3>6, <3>7
  <2>5. ASSUME NEW v \in live, nodes'[v].type \in Container, nodes'[v].length > 0
        PROVE  \/ /\ v \in areas /\ nodes'[v].length <= Len(nodes'[v].items)
                  /\ \A i \in 1 .. nodes'[v].length : nodes'[v].items[i] \in live
               \/ v = top /\ outcome = "memory"
    <3>1. v \in 1 .. K
      OBVIOUS
    <3>2. CASE v # val
      <4>1. nodes'[v].type = nodes[v].type /\ nodes'[v].length = nodes[v].length /\ nodes'[v].items = nodes[v].items
        BY <1>9, <3>1, <3>2
      <4>2. QED
        BY <2>5, <4>1 DEF Path
    <3>3. CASE v = val
      <4>1. nodes'[v].length = k - 1 /\ nodes'[v].items = nodes[v].items /\ Len(nodes[v].items) \in Nat
        BY <1>1, <1>9, <3>3, LenProperties DEF Node
      <4>2. QED
        BY <1>3, <1>4, <1>6, <3>3, <4>1
    <3>4. QED
      BY <3>2, <3>3
  <2>6. QED
    BY <2>1, <2>2, <2>3, <2>4, <2>5 DEF Path
<1>15. Calm'
  BY DEF Calm, Has
<1>16. QED
  BY <1>10, <1>12, <1>13, <1>14, <1>15 DEF Releasing

\* The value is freed, and the one it is in is next.
LEMMA FreeAscends ==
  ASSUME NEW K, Tree(K), Calm, Roomy, Complete(K), live \subseteq 1 .. K, NEW P, Path(P),
         pc = "free", nodes[val].type \notin Container \/ nodes[val].length = 0,
         areas' = areas \ {val}, live' = live \ {val}, val' = nodes[val].parent,
         pc' = (IF nodes[val].parent = 0 THEN "returned" ELSE pc),
         UNCHANGED <<nodes, text, pass, ptr, flags, top, root, outcome>>
  PROVE  Releasing(K)' \/ Released(K)'
<1>1. /\ K \in Nat /\ nodes \in [1 .. K -> Node] /\ val \in P /\ P \subseteq live /\ val \in 1 .. K
      /\ \A u \in P : u \in 1 .. K
  BY DEF Tree, Path
<1>2. ASSUME NEW v \in live, NEW i, Slot(v, i) PROVE nodes[v].parent \in live \ {val}
  <2>1. nodes[v].parent \in live /\ (i <= nodes[nodes[v].parent].length \/ v \in P)
    BY <1>2 DEF Path
  <2>2. SUFFICES ASSUME nodes[v].parent = val PROVE FALSE
    BY <2>1
  <2>3. v \notin P
    BY <2>2 DEF Path
  <2>4. i <= nodes[val].length
    BY <2>1, <2>2, <2>3
  <2>5. i \in 1 .. Len(nodes[nodes[v].parent].items) /\ nodes[nodes[v].parent].type \in Container
    BY <1>2, SlotPlace
  <2>6. i >= 1 /\ i \in Nat /\ nodes[val].type \in Container
    BY <2>2, <2>5
  <2>7. QED
    BY <2>4, <2>6
<1>3. Tree(K)' /\ Calm' /\ Complete(K)'
  <2>1. Tree(K)' /\ Calm'
    BY DEF Tree, Calm, Has
  <2>2. Complete(K)'
    BY DEF Complete, Spared, Slot
  <2>3. QED
    BY <2>1, <2>2
<1>4. Roomy'
  BY DEF Roomy
<1>5. CASE nodes[val].parent = 0
  <2>1. val = 1
    BY <1>1, <1>5 DEF Tree
  <2>2. live' \subseteq 2 .. K
    BY <1>1, <2>1
  <2>3. \A v \in live' : \A i : Slot(v, i)' => nodes'[v].parent \in live'
    BY <1>2 DEF Slot
  <2>4. Released(K)'
    BY <1>3, <1>4, <1>5, <2>2, <2>3 DEF Released
  <2>5. QED
    BY <2>4
<1>6. CASE nodes[val].parent # 0
  <2>1. PICK p : p = nodes[val].parent
    OBVIOUS
  <2>2. val # 1 /\ p \in P /\ Slot(val, nodes[p].length + 1)
    <3>1. val # 1
      BY <1>1, <1>6 DEF Tree
    <3>2. nodes[val].parent \in P /\ Slot(val, nodes[nodes[val].parent].length + 1)
      BY <1>1, <3>1 DEF Path
    <3>3. QED
      BY <2>1, <3>1, <3>2
  <2>3. p < val /\ p \in 1 .. K /\ nodes[p].length \in Nat
    BY <1>1, <2>1, <2>2 DEF Tree, Node
  <2>4. PICK m : m = nodes[p].length + 1
    OBVIOUS
  <2>5. m \in Nat /\ m = nodes[p].length + 1 /\ nodes[p].items[m] = val /\ m \in 1 .. Len(nodes[p].items)
        /\ Slot(val, m)
    BY <2>1, <2>2, <2>3, <2>4 DEF Slot
  <2>6. ASSUME NEW u \in P \ {val} PROVE nodes[u].parent # p
    <3>1. SUFFICES ASSUME nodes[u].parent = p PROVE FALSE
      OBVIOUS
    <3>2. u # 1
      BY <1>1, <2>3, <3>1 DEF Tree
    <3>3. Slot(u, nodes[nodes[u].parent].length + 1)
      BY <3>2 DEF Path
    <3>4. nodes[nodes[u].parent].length + 1 = m
      BY <2>4, <3>1
    <3>5. nodes[nodes[u].parent].items[m] = u
      BY <3>3, <3>4 DEF Slot
    <3>6. QED
      BY <2>5, <3>1, <3>5
  <2>7. ASSUME NEW u \in P \ {val}, u # 1
        PROVE  nodes[u].parent \in P \ {val} /\ Slot(u, nodes[nodes[u].parent].length + 1)
    BY <2>7 DEF Path
  <2>8. ASSUME NEW v \in live \ {val}, NEW i, Slot(v, i)
        PROVE  /\ nodes[v].parent \in live \ {val}
               /\ i <= nodes[nodes[v].parent].length \/ v \in P \ {val}
  BY <1>2, <2>8 DEF Path
  <2>9. ASSUME NEW v \in live \ {val}, nodes[v].type \in Container, nodes[v].length > 0
        PROVE  \/ /\ v \in areas \ {val} /\ nodes[v].length <= Len(nodes[v].items)
                  /\ \A i \in 1 .. nodes[v].length : nodes[v].items[i] \in live \ {val}
               \/ v = top /\ outcome = "memory"
    <3>1. SUFFICES ASSUME ~(v = top /\ outcome = "memory")
                   PROVE  /\ v \in areas \ {val} /\ nodes[v].length <= Len(nodes[v].items)
                          /\ \A i \in 1 .. nodes[v].length : nodes[v].items[i] \in live \ {val}
      OBVIOUS
    <3>2. /\ v \in areas /\ nodes[v].length <= Len(nodes[v].items) /\ v \in 1 .. K
          /\ \A i \in 1 .. nodes[v].length : nodes[v].items[i] \in live
      BY <2>9, <3>1 DEF Path
    <3>3. nodes[v].length \in Nat /\ Len(nodes[v].items) \in Nat
      BY <1>1, <3>2, LenProperties DEF Node
    <3>4. ASSUME NEW i \in 1 .. nodes[v].length PROVE nodes[v].items[i] # val
      <4>1. SUFFICES ASSUME nodes[v].items[i] = val PROVE FALSE
        OBVIOUS
      <4>2. i \in 1 .. Len(nodes[v].items)
        BY <3>2, <3>3
      <4>3. nodes[nodes[v].items[i]].parent = v
        BY <3>2, <4>2 DEF Tree
      <4>4. v = p
        BY <2>1, <4>1, <4>3
      <4>5. i = m
        BY <2>5, <3>2, <4>1, <4>2, <4>4 DEF Tree
      <4>6. QED
        BY <2>5, <3>3, <4>4, <4>5
    <3>5. QED
      BY <3>2, <3>4
  <2>10. \E Q : Path(Q)'
    <3>0. PICK Q : Q = P \ {val}
      OBVIOUS
    <3>1. val' = p /\ p \in P \ {val} /\ P \ {val} \subseteq live'
      BY <1>1, <2>1, <2>2, <2>3
    <3>2. \A u \in P \ {val} : nodes'[u].parent # val'
      BY <2>6, <3>1
    <3>3. ASSUME NEW u \in P \ {val}, u # 1
          PROVE  nodes'[u].parent \in P \ {val} /\ Slot(u, nodes[nodes[u].parent].length + 1)'
      <4>1. PICK j : j = nodes[nodes[u].parent].length + 1
        OBVIOUS
      <4>2. nodes[u].parent \in P \ {val} /\ Slot(u, j)
        BY <2>7, <3>3, <4>1
      <4>3. Slot(u, j)'
        BY <4>2 DEF Slot
      <4>4. j = nodes'[nodes'[u].parent].length + 1
        BY <4>1
      <4>5. QED
        BY <4>2, <4>3, <4>4 DEF Slot
    <3>4. \A v \in live' : \A i : Slot(v, i)' =>
            nodes'[v].parent \in live' /\ (i <= nodes'[nodes'[v].parent].length \/ v \in P \ {val})
      BY <2>8 DEF Slot
    <3>5. \A v \in live' : nodes'[v].type \in Container /\ nodes'[v].length > 0 =>
            \/ /\ v \in areas' /\ nodes'[v].length <= Len(nodes'[v].items)
               /\ \A i \in 1 .. nodes'[v].length : nodes'[v].items[i] \in live'
            \/ v = top' /\ outcome' = "memory"
      BY <2>9
    <3>6. Path(Q)'
      <4>1. val' \in Q /\ Q \subseteq live' /\ \A u \in Q : nodes'[u].parent # val'
        BY <3>0, <3>1, <3>2
      <4>2. ASSUME NEW u \in Q, u # 1
            PROVE  nodes'[u].parent \in Q /\ Slot(u, nodes[nodes[u].parent].length + 1)'
        BY <3>0, <3>3, <4>2
      <4>3. \A v \in live' : \A i : Slot(v, i)' =>
              nodes'[v].parent \in live' /\ (i <= nodes'[nodes'[v].parent].length \/ v \in Q)
        BY <3>0, <3>4
      <4>4. QED
        BY <3>5, <4>1, <4>2, <4>3 DEF Path
    <3>7. QED
      BY <3>6
  <2>11. pc' = "free" /\ live' \subseteq 1 .. K
    BY <1>6
  <2>12. Releasing(K)'
    BY <1>3, <1>4, <2>10, <2>11 DEF Releasing
  <2>13. QED
    BY <2>12
<1>7. QED
  BY <1>5, <1>6

LEMMA ReleasingStep ==
  ASSUME NEW K, Releasing(K), Step
  PROVE  Releasing(K)' \/ Released(K)' \/ Crashed'
<1>1. /\ pc = "free" /\ Tree(K) /\ Calm /\ Roomy /\ live \subseteq 1 .. K /\ Complete(K)
      /\ K \in Nat /\ nodes \in [1 .. K -> Node] /\ root = 1
  BY DEF Releasing, Tree, Calm
<1>2. PICK P : Path(P)
  BY DEF Releasing
<1>3. val \in P /\ val \in 1 .. K
  BY <1>1, <1>2 DEF Path
<1>4. Free
  BY <1>1, NotReading DEF Discard, Release
<1>5. UNCHANGED <<text, pass, ptr, flags, top, root, outcome>>
  BY <1>4 DEF Free
<1>6. nodes[val].length \in Nat
  BY <1>1, <1>3 DEF Node
<1>7. CASE ~(nodes[val].type \in Container /\ nodes[val].length > 0)
  <2>1. nodes[val].type \notin Container \/ nodes[val].length = 0
    BY <1>6, <1>7
  <2>2. /\ areas' = areas \ {val} /\ live' = live \ {val} /\ nodes' = nodes
        /\ val' = nodes[val].parent /\ pc' = (IF nodes[val].parent = 0 THEN "returned" ELSE pc)
    BY <1>4, <1>7 DEF Free, Container
  <2>3. QED
    BY <1>1, <1>2, <1>5, <2>1, <2>2, FreeAscends
<1>8. CASE nodes[val].type \in Container /\ nodes[val].length > 0 /\ val \in areas
  <2>1. /\ val' = nodes[val].items[nodes[val].length]
        /\ nodes' = [nodes EXCEPT ![val].length = nodes[val].length - 1]
        /\ UNCHANGED <<pc, live, areas>>
    BY <1>4, <1>6, <1>8 DEF Free, Container, memory
  <2>2. QED
    BY <1>1, <1>2, <1>5, <1>8, <2>1, FreeDescends
<1>9. CASE nodes[val].type \in Container /\ nodes[val].length > 0 /\ val \notin areas
  <2>1. val = top /\ outcome = "memory" /\ val \in live
    BY <1>2, <1>3, <1>9 DEF Path
  <2>2. pc' = "crashed" /\ val' = val /\ UNCHANGED <<live, areas>>
    BY <1>4, <1>6, <1>9 DEF Free, Container, memory
  <2>3. nodes' = [nodes EXCEPT ![val].length = nodes[val].length - 1]
    BY <1>4, <1>6, <1>9 DEF Free, Container
  <2>4. val = 1
    <3>1. SUFFICES ASSUME val # 1 PROVE FALSE
      OBVIOUS
    <3>2. Slot(val, nodes[nodes[val].parent].length + 1)
      BY <1>2, <1>3, <3>1 DEF Path
    <3>3. QED
      BY <1>1, <2>1, <3>2 DEF Complete
  <2>5. \A v \in areas : nodes'[v] = nodes[v]
    BY <1>9, <2>3, <1>1 DEF Roomy
  <2>6. Roomy'
    BY <1>1, <2>2, <2>5 DEF Roomy
  <2>7. Calm'
    BY <1>1, <1>5 DEF Calm, Has
  <2>8. Crashed'
    BY <1>1, <1>5, <2>1, <2>2, <2>4, <2>6, <2>7 DEF Crashed
  <2>9. QED
    BY <2>8
<1>10. QED
  BY <1>7, <1>8, <1>9

-----------------------------------------------------------------------------
(* The whole: a text that the first pass reads to its end is read the same *)
(* way by the second one, along the same configurations h.                 *)

Reads == \E h, n : Run(h, n, text) /\ (First(h[n]) \/ InNumberAt(h[n]))
Rereads == \E h, n, k : Run(h, n, text) /\ Final(h[n], text) /\ k \in 0 .. n /\ Second(h[k], h[n])
Ending == \E K : Parsed(K) \/ Abandoned(K) \/ Releasing(K) \/ Released(K)
Parsing == Reads \/ (\E k : Doomed(k)) \/ Dropped \/ Rereads \/ Ending \/ Crashed

LEMMA ParsingInit ==
  ASSUME Init
  PROVE  Parsing /\ Quiet
<1>1. PICK h : h = [i \in {0} |-> Start]
  OBVIOUS
<1>2. Run(h, 0, text) /\ h[0] = Start
  BY <1>1, RunStarts
<1>3. /\ text = <<>> /\ pass = 1 /\ ptr = 1 /\ flags = {"seek_value"} /\ string_length = 0
      /\ top = 0 /\ root = 0 /\ alloc = 0 /\ nodes = <<>> /\ live = {} /\ areas = {}
      /\ pc = "parse" /\ outcome = "none"
  BY DEF Init
<1>4. text \in Seq(Token) /\ Len(text) = 0
  BY <1>3
<1>5. Here(Start)
  <2>1. Regular(Start)
    BY StartRegular
  <2>2. flags \ NumberFlags = {"seek_value"} /\ flags \subseteq Flag \cup NumberFlags
    BY <1>3 DEF Flag, NumberFlags
  <2>3. ~In(Start, "string")
    BY StartFields DEF In
  <2>4. QED
    BY <1>3, <1>4, <2>1, <2>2, <2>3, StartFields DEF Here
<1>6. Chain(0) /\ SameAs(Start)
  <2>1. nodes \in [1 .. 0 -> Node]
    BY <1>3
  <2>2. QED
    BY <1>3, <2>1, StartFields DEF Chain, SameAs
<1>7. First(Start)
  BY <1>3, <1>5, <1>6, StartFields DEF First
<1>8. QED
  BY <1>2, <1>3, <1>7 DEF Parsing, Reads, Quiet

LEMMA ReadsStep ==
  ASSUME Reads, Step
  PROVE  Parsing'
<1>1. PICK h, n : Run(h, n, text) /\ (First(h[n]) \/ InNumberAt(h[n]))
  BY DEF Reads
<1>2. PICK c : c = h[n]
  OBVIOUS
<1>3. n \in Nat /\ h[0] = Start
  BY <1>1 DEF Run
<1>4. /\ text \in Seq(Token) /\ text' \in Seq(Token)
      /\ text' = text \/ \E b \in Token : text' = Append(text, b)
  <2>1. CASE First(c)
    <3>1. Reading(c) /\ Here(c)
      BY <2>1, FirstStep DEF First
    <3>2. QED
      BY <3>1 DEF Reading, Here
  <2>2. CASE InNumberAt(c)
    <3>1. pc = "parse" /\ ptr \in Nat /\ ptr >= 1 /\ ptr <= Len(text) + 1 /\ text \in Seq(Token)
      BY <2>2, NumberHere DEF InNumberAt
    <3>2. PICK b \in Token : Read(b)
      BY <3>1, RoundReads
    <3>3. QED
      BY <3>1, <3>2, ReadText
  <2>3. QED
    BY <1>1, <1>2, <2>1, <2>2
<1>5. Run(h, n, text')
  BY <1>1, <1>4, RunStill
<1>6. ASSUME NEW d, Leads(c, d, text'), First(d)' PROVE Reads'
  <2>1. PICK t : t = text'
    OBVIOUS
  <2>2. \E g : Run(g, n + 1, t) /\ g[n + 1] = d
    BY <1>2, <1>4, <1>5, <1>6, <2>1, RunExtends
  <2>3. PICK g : Run(g, n + 1, t) /\ g[n + 1] = d
    BY <2>2
  <2>4. PICK m : m = n + 1
    OBVIOUS
  <2>5. Run(g, m, text') /\ g[m] = d
    BY <2>1, <2>3, <2>4
  <2>6. QED
    BY <1>6, <2>5 DEF Reads
<1>7. ASSUME InNumberAt(c)' PROVE Reads'
  BY <1>2, <1>5, <1>7 DEF Reads
<1>8. ASSUME Final(c, text'), Second(Start, c)' PROVE Rereads'
  <2>1. 0 \in 0 .. n
    BY <1>3
  <2>2. QED
    BY <1>2, <1>3, <1>5, <1>8, <2>1 DEF Rereads
<1>9. CASE First(c)
  BY <1>6, <1>7, <1>8, <1>9, FirstStep DEF Parsing
<1>10. CASE InNumberAt(c)
  <2>1. Dropped' \/ InNumberAt(c)' \/ Doomed(c.n + 1)' \/ \E d : Leads(c, d, text') /\ First(d)'
    BY <1>10, NumberStep
  <2>2. Doomed(c.n + 1)' => \E k : Doomed(k)'
    OBVIOUS
  <2>3. QED
    BY <1>6, <1>7, <2>1, <2>2 DEF Parsing
<1>11. QED
  BY <1>1, <1>2, <1>9, <1>10

LEMMA RereadsStep ==
  ASSUME Rereads, Quiet, Step
  PROVE  Parsing'
<1>1. PICK h, n, k : Run(h, n, text) /\ Final(h[n], text) /\ k \in 0 .. n /\ Second(h[k], h[n])
  BY DEF Rereads
<1>2. PICK c, f : c = h[k] /\ f = h[n]
  OBVIOUS
<1>3. n \in Nat /\ Second(c, f) /\ Final(f, text) /\ pc = "parse" /\ pass = 2 /\ Here(c)
  BY <1>1, <1>2 DEF Run, Second
<1>4. CASE k = n
  <2>1. c = f
    BY <1>2, <1>4
  <2>2. PassEnds /\ text' = text
    BY <1>3, <2>1, FinalStep
  <2>3. Parsed(f.n)'
    BY <1>3, <2>1, <2>2, SecondOver
  <2>4. QED
    BY <2>3 DEF Parsing, Ending
<1>5. CASE k # n
  <2>1. k \in 0 .. n - 1 /\ k + 1 \in 0 .. n /\ n \in 0 .. n /\ k + 1 <= n
    BY <1>1, <1>3, <1>5
  <2>2. PICK m : m = k + 1
    OBVIOUS
  <2>3. PICK d : d = h[m]
    OBVIOUS
  <2>4. Regular(d) /\ Later(d, f) /\ Leads(c, d, text)
    BY <1>1, <1>2, <2>1, <2>2, <2>3 DEF Run
  <2>5. text' = text /\ (Second(d, f)' \/ \E b \in Token : OutOfMemory(b))
    BY <1>3, <2>4, SecondStep
  <2>6. CASE Second(d, f)'
    <3>1. Run(h, n, text') /\ Final(h[n], text') /\ m \in 0 .. n /\ Second(h[m], h[n])'
      BY <1>1, <1>2, <2>1, <2>2, <2>3, <2>5, <2>6
    <3>2. QED
      BY <3>1 DEF Parsing, Rereads
  <2>7. CASE \E b \in Token : OutOfMemory(b)
    <3>1. PICK b \in Token : OutOfMemory(b)
      BY <2>7
    <3>2. Abandoned(f.n)'
      BY <1>3, <2>4, <2>5, <3>1, SecondRefused
    <3>3. QED
      BY <3>2 DEF Parsing, Ending
  <2>8. QED
    BY <2>5, <2>6, <2>7
<1>6. QED
  BY <1>4, <1>5

LEMMA ParsingStep ==
  ASSUME Parsing, Quiet, Step
  PROVE  Parsing'
<1>1. CASE Reads
  BY <1>1, ReadsStep
<1>2. CASE \E k : Doomed(k)
  BY <1>2, DoomedStep DEF Parsing
<1>3. CASE Dropped
  BY <1>3, DroppedStep DEF Parsing
<1>4. CASE Rereads
  BY <1>4, RereadsStep
<1>5. CASE Ending
  <2>1. PICK K : Parsed(K) \/ Abandoned(K) \/ Releasing(K) \/ Released(K)
    BY <1>5 DEF Ending
  <2>2. CASE Parsed(K)
    BY <2>2, ParsedStep DEF Parsing, Ending
  <2>3. CASE Abandoned(K)
    BY <2>3, AbandonedStep DEF Parsing, Ending
  <2>4. CASE Releasing(K)
    BY <2>4, ReleasingStep DEF Parsing, Ending
  <2>5. ~Released(K)
    BY NotReading DEF Released, Discard, Release, Free
  <2>6. QED
    BY <2>1, <2>2, <2>3, <2>4, <2>5
<1>6. ~Crashed
  BY NotReading DEF Crashed, Discard, Release, Free
<1>7. QED
  BY <1>1, <1>2, <1>3, <1>4, <1>5, <1>6 DEF Parsing

LEMMA ParsingStutters ==
  ASSUME Parsing, UNCHANGED vars
  PROVE  Parsing'
<1>1. /\ text' = text /\ pass' = pass /\ ptr' = ptr /\ flags' = flags /\ string_length' = string_length
      /\ top' = top /\ root' = root /\ alloc' = alloc /\ nodes' = nodes /\ live' = live /\ areas' = areas
      /\ val' = val /\ pc' = pc /\ outcome' = outcome
  BY DEF vars, values, memory
<1>2. ASSUME NEW c, Here(c) PROVE Here(c)'
  BY <1>1, <1>2 DEF Here
<1>3. ASSUME NEW k, Chain(k) PROVE Chain(k)'
  BY <1>1, <1>3 DEF Chain
<1>4. CASE Reads
  <2>1. PICK h, n : Run(h, n, text) /\ (First(h[n]) \/ InNumberAt(h[n]))
    BY <1>4 DEF Reads
  <2>2. First(h[n]) => First(h[n])'
    BY <1>1, <1>2, <1>3 DEF First, SameAs
  <2>3. InNumberAt(h[n]) => InNumberAt(h[n])'
    BY <1>1 DEF InNumberAt, Drawn, Extended
  <2>4. Run(h, n, text')
    BY <1>1, <2>1
  <2>5. QED
    BY <2>1, <2>2, <2>3, <2>4 DEF Parsing, Reads
<1>5. ASSUME NEW k, Doomed(k) PROVE Doomed(k)'
  BY <1>1, <1>3, <1>5 DEF Doomed, Has, InComment, Top
<1>6. CASE Dropped
  BY <1>1, <1>6 DEF Parsing, Dropped
<1>7. CASE Rereads
  <2>1. PICK h, n, k : Run(h, n, text) /\ Final(h[n], text) /\ k \in 0 .. n /\ Second(h[k], h[n])
    BY <1>7 DEF Rereads
  <2>2. Run(h, n, text') /\ Final(h[n], text')
    BY <1>1, <2>1
  <2>3. Second(h[k], h[n])'
    <3>1. Allocated(h[k], h[n])'
      BY <1>1, <2>1 DEF Second, Allocated, Fresh, Filled
    <3>2. Slotted(h[k], h[n])'
      BY <1>1, <2>1 DEF Second, Slotted
    <3>3. QED
      BY <1>1, <1>2, <2>1, <3>1, <3>2 DEF Second
  <2>4. QED
    BY <2>1, <2>2, <2>3 DEF Parsing, Rereads
<1>8. ASSUME NEW K, Tree(K) PROVE Tree(K)'
  BY <1>1, <1>8 DEF Tree
<1>9. ASSUME NEW K, Complete(K) PROVE Complete(K)'
  BY <1>1, <1>9 DEF Complete, Spared, Slot
<1>10. /\ Calm => Calm'
       /\ Roomy => Roomy'
  BY <1>1 DEF Calm, Roomy, Has
<1>11. CASE Ending
  <2>1. PICK K : Parsed(K) \/ Abandoned(K) \/ Releasing(K) \/ Released(K)
    BY <1>11 DEF Ending
  <2>2. Parsed(K) => Parsed(K)'
    BY <1>1, <1>8, <1>10 DEF Parsed, Intact, Spared, Slot
  <2>3. Abandoned(K) => Abandoned(K)'
    BY <1>1, <1>8, <1>10 DEF Abandoned, Intact
  <2>4. Releasing(K) => Releasing(K)'
    BY <1>1, <1>8, <1>9, <1>10 DEF Releasing, Path, Slot
  <2>5. Released(K) => Released(K)'
    BY <1>1, <1>8, <1>9, <1>10 DEF Released, Slot
  <2>6. QED
    BY <2>1, <2>2, <2>3, <2>4, <2>5 DEF Parsing, Ending
<1>12. CASE Crashed
  BY <1>1, <1>10, <1>12 DEF Parsing, Crashed
<1>13. QED
  BY <1>4, <1>5, <1>6, <1>7, <1>11, <1>12 DEF Parsing

\* The inductive invariant.
LEMMA Inductive == Spec => [](Parsing /\ Quiet)
<1>1. Init => Parsing /\ Quiet
  BY ParsingInit
<1>2. (Parsing /\ Quiet) /\ [Next]_vars => (Parsing /\ Quiet)'
  <2>1. SUFFICES ASSUME Parsing, Quiet, [Next]_vars PROVE (Parsing /\ Quiet)'
    OBVIOUS
  <2>2. CASE Step
    BY <2>1, <2>2, ParsingStep, QuietStep
  <2>3. CASE UNCHANGED vars
    <3>1. Quiet'
      BY <2>1, <2>3 DEF Quiet, vars
    <3>2. QED
      BY <2>1, <2>3, <3>1, ParsingStutters
  <2>4. QED
    BY <2>1, <2>2, <2>3 DEF Next, Over
<1>3. QED
  BY <1>1, <1>2, PTL DEF Spec

-----------------------------------------------------------------------------
(* What follows from it.                                                   *)

LEMMA CalmInBounds ==
  ASSUME Calm, Roomy
  PROVE  InBounds
BY DEF Calm, Roomy, InBounds

LEMMA ParsingInBounds ==
  ASSUME Parsing
  PROVE  InBounds
<1>1. CASE Reads
  <2>1. PICK h, n : First(h[n]) \/ InNumberAt(h[n])
    BY <1>1 DEF Reads
  <2>2. pass = 1
    BY <2>1 DEF First, InNumberAt
  <2>3. First(h[n]) => ptr <= Len(text) + 1
    BY DEF First, Here
  <2>4. InNumberAt(h[n]) => ptr <= Len(text) + 1
    BY NumberHere
  <2>5. QED
    BY <2>1, <2>2, <2>3, <2>4 DEF InBounds
<1>2. ASSUME NEW k, Doomed(k) PROVE InBounds
  <2>1. ptr \in 1 .. Len(text) /\ Len(text) \in Nat /\ pass = 1
    BY <1>2, LenProperties DEF Doomed
  <2>2. QED
    BY <2>1 DEF InBounds
<1>3. CASE Dropped
  BY <1>3 DEF Dropped, InBounds
<1>4. CASE Rereads
  BY <1>4, SecondInBounds DEF Rereads
<1>5. CASE Ending
  BY <1>5, CalmInBounds DEF Ending, Parsed, Abandoned, Releasing, Released
<1>6. CASE Crashed
  BY <1>6, CalmInBounds DEF Crashed
<1>7. QED
  BY <1>1, <1>2, <1>3, <1>4, <1>5, <1>6 DEF Parsing

\* What each part of the invariant says of pc.
LEMMA ParsingAt ==
  ASSUME Parsing
  PROVE  \/ pc = "parse"
         \/ Dropped
         \/ \E K : Parsed(K) \/ Abandoned(K) \/ Releasing(K) \/ Released(K)
         \/ Crashed
BY DEF Parsing, Reads, First, InNumberAt, Doomed, Rereads, Second, Ending

(***************************************************************************)
(* For every text: the parser never reads behind it, and what the second   *)
(* pass writes stays within what the first one counted.                    *)
(***************************************************************************)
THEOREM NeverOutOfBounds == Spec => []InBounds
<1>1. Parsing /\ Quiet => InBounds
  BY ParsingInBounds
<1>2. QED
  BY <1>1, Inductive, PTL

(***************************************************************************)
(* json_value_free_ex follows a NULL pointer only when the root is the     *)
(* array or object for which memory was refused.                           *)
(***************************************************************************)
THEOREM CrashesOnlyAtRoot == Spec => []CrashOnlyIfRootRefused
<1>1. Parsing /\ Quiet => CrashOnlyIfRootRefused
  BY ParsingAt
     DEF Dropped, Parsed, Abandoned, Releasing, Released, Crashed, Calm, CrashOnlyIfRootRefused
<1>2. QED
  BY <1>1, Inductive, PTL

-----------------------------------------------------------------------------
(* Within: the values that a value is in.                                  *)

\* One more level of it, that g gives for the parents.
Level(ns, g) ==
  [w \in DOMAIN ns |-> {w} \cup (IF ns[w].parent = 0 THEN {} ELSE g[ns[w].parent])]

Parented(ns, K) ==
  K \in Nat /\ DOMAIN ns = 1 .. K /\ \A v \in 1 .. K : ns[v].parent \in Nat /\ ns[v].parent < v

Upward(ns, S) == \A v \in S : ns[v].parent # 0 => ns[v].parent \in S

LEMMA LevelsMeet ==
  ASSUME NEW ns, NEW K, Parented(ns, K)
  PROVE  \E g : g = Level(ns, g)
<1> DEFINE A == [w \in 1 .. K |-> {x \in 1 .. K : \A S \in SUBSET (1 .. K) : w \in S /\ Upward(ns, S) => x \in S}]
<1>1. \A w \in 1 .. K : \A x : x \in A[w] <=> x \in 1 .. K /\ \A S \in SUBSET (1 .. K) : w \in S /\ Upward(ns, S) => x \in S
  OBVIOUS
<1>2. DOMAIN A = 1 .. K
  OBVIOUS
<1> HIDE DEF A
<1>3. \A w \in 1 .. K : A[w] \subseteq 1 .. K /\ w \in A[w] /\ Upward(ns, A[w])
  <2>1. TAKE w \in 1 .. K
  <2>2. A[w] \subseteq 1 .. K /\ w \in A[w]
    BY <1>1
  <2>3. ASSUME NEW v \in A[w], ns[v].parent # 0 PROVE ns[v].parent \in A[w]
    <3>1. PICK p : p = ns[v].parent
      OBVIOUS
    <3>2. v \in 1 .. K /\ p \in 1 .. K
      BY <2>2, <2>3, <3>1 DEF Parented
    <3>3. ASSUME NEW S \in SUBSET (1 .. K), w \in S, Upward(ns, S) PROVE p \in S
      <4>1. v \in S
        BY <1>1, <3>3
      <4>2. QED
        BY <2>3, <3>1, <3>3, <4>1 DEF Upward
    <3>4. p \in A[w]
      BY <1>1, <3>2, <3>3
    <3>5. QED
      BY <3>1, <3>4
  <2>4. QED
    BY <2>2, <2>3 DEF Upward
<1>4. ASSUME NEW w \in 1 .. K
      PROVE  A[w] = {w} \cup (IF ns[w].parent = 0 THEN {} ELSE A[ns[w].parent])
  <2>1. PICK p : p = ns[w].parent
    OBVIOUS
  <2>2. p \in Nat /\ (p # 0 => p \in 1 .. K)
    BY <2>1 DEF Parented
  <2>3. PICK B : B = {w} \cup (IF p = 0 THEN {} ELSE A[p])
    OBVIOUS
  <2>4. B \subseteq 1 .. K /\ w \in B
    BY <1>3, <2>2, <2>3
  <2>5. Upward(ns, B)
    <3>1. ASSUME NEW v \in B, ns[v].parent # 0 PROVE ns[v].parent \in B
      <4>1. CASE v = w
        <5>1. p # 0 /\ p \in A[p]
          BY <1>3, <2>1, <2>2, <3>1, <4>1
        <5>2. QED
          BY <2>1, <2>3, <4>1, <5>1
      <4>2. CASE v # w
        <5>1. p # 0 /\ v \in A[p]
          BY <2>3, <4>2
        <5>2. Upward(ns, A[p])
          BY <1>3, <2>2, <5>1
        <5>3. ns[v].parent \in A[p]
          BY <3>1, <5>1, <5>2 DEF Upward
        <5>4. QED
          BY <2>3, <5>1, <5>3
      <4>3. QED
        BY <4>1, <4>2
    <3>2. QED
      BY <3>1 DEF Upward
  <2>6. A[w] \subseteq B
    BY <1>1, <2>4, <2>5
  <2>7. ASSUME p # 0, NEW x \in A[p] PROVE x \in A[w]
    <3>1. x \in 1 .. K /\ p \in 1 .. K
      BY <1>3, <2>2, <2>7
    <3>2. ASSUME NEW S \in SUBSET (1 .. K), w \in S, Upward(ns, S) PROVE x \in S
      <4>1. p \in S
        BY <2>1, <2>7, <3>2 DEF Upward
      <4>2. QED
        BY <1>1, <2>7, <3>1, <3>2, <4>1
    <3>3. QED
      BY <1>1, <3>1, <3>2
  <2>8. B \subseteq A[w]
    <3>1. w \in A[w]
      BY <1>3
    <3>2. QED
      BY <2>3, <2>7, <3>1
  <2>9. A[w] = B
    BY <2>6, <2>8
  <2>10. QED
    BY <2>1, <2>3, <2>9
<1>5. DOMAIN ns = 1 .. K
  BY DEF Parented
<1>6. A = [w \in DOMAIN ns |-> {w} \cup (IF ns[w].parent = 0 THEN {} ELSE A[ns[w].parent])]
  <2> DEFINE R == [w \in 1 .. K |-> {w} \cup (IF ns[w].parent = 0 THEN {} ELSE A[ns[w].parent])]
  <2>1. A = [w \in 1 .. K |-> A[w]]
    BY <1>2 DEF A
  <2>2. \A w \in 1 .. K : A[w] = R[w]
    BY <1>4
  <2>3. R = [w \in 1 .. K |-> R[w]]
    OBVIOUS
  <2> HIDE DEF R
  <2>4. A = R
    BY <2>1, <2>2, <2>3, Zenon
  <2>5. QED
    BY <1>5, <2>4 DEF R
<1>7. A = Level(ns, A)
  BY <1>6 DEF Level
<1>8. QED
  BY <1>7

LEMMA LevelsUpward ==
  ASSUME NEW ns, NEW K, Parented(ns, K), NEW g, g = Level(ns, g)
  PROVE  \A v \in 1 .. K : v \in g[v] /\ \A u \in g[v] \cap (1 .. K) : ns[u].parent # 0 => ns[u].parent \in g[v]
<1>1. \A w \in 1 .. K : g[w] = {w} \cup (IF ns[w].parent = 0 THEN {} ELSE g[ns[w].parent])
  BY DEF Level, Parented
<1> DEFINE Bad == {v \in 1 .. K : \E u \in g[v] \cap (1 .. K) : ns[u].parent # 0 /\ ns[u].parent \notin g[v]}
<1>2. Bad = {}
  <2>1. SUFFICES ASSUME Bad # {} PROVE FALSE
    OBVIOUS
  <2>2. Bad \subseteq Nat
    OBVIOUS
  <2>3. PICK v \in Bad : \A y \in Bad : v <= y
    BY <2>1, <2>2, Least
  <2>4. PICK u \in g[v] \cap (1 .. K) : ns[u].parent # 0 /\ ns[u].parent \notin g[v]
    BY <2>3
  <2>5. PICK p : p = ns[v].parent
    OBVIOUS
  <2>6. v \in 1 .. K /\ p \in Nat /\ p < v /\ K \in Nat
    BY <2>3, <2>5 DEF Parented
  <2>7. g[v] = {v} \cup (IF p = 0 THEN {} ELSE g[p])
    BY <1>1, <2>5, <2>6
  <2>8. p # 0 => p \in 1 .. K /\ p \in g[p]
    <3>1. p # 0 => p \in 1 .. K
      BY <2>6
    <3>2. QED
      BY <1>1, <3>1
  <2>9. CASE u = v
    BY <2>4, <2>5, <2>7, <2>8, <2>9
  <2>10. CASE u # v
    <3>1. p # 0 /\ u \in g[p]
      BY <2>4, <2>7, <2>10
    <3>2. p \notin Bad
      BY <2>3, <2>6
    <3>3. ns[u].parent \in g[p]
      BY <2>4, <2>8, <3>1, <3>2
    <3>4. QED
      BY <2>4, <2>7, <3>1, <3>3
  <2>11. QED
    BY <2>9, <2>10
<1>3. QED
  BY <1>1, <1>2

LEMMA WithinUpward ==
  ASSUME NEW K, Tree(K)
  PROVE  \A v \in 1 .. K : v \in Within[v] /\ \A u \in Within[v] \cap (1 .. K) : u # 1 => nodes[u].parent \in Within[v]
<1>1. PICK ns : ns = nodes
  OBVIOUS
<1>2. Parented(ns, K) /\ \A u \in 1 .. K : ns[u].parent = 0 <=> u = 1
  BY <1>1 DEF Tree, Parented, Node
<1> DEFINE Above(g) == [w \in DOMAIN nodes |-> {w} \cup (IF nodes[w].parent = 0 THEN {} ELSE g[nodes[w].parent])]
           G == CHOOSE g : g = Above(g)
<1>3. G = Level(ns, G)
  <2>1. \A g : Above(g) = Level(ns, g)
    BY <1>1 DEF Level
  <2> HIDE DEF Above
  <2>2. \E g : g = Above(g)
    BY <1>2, <2>1, LevelsMeet
  <2>3. G = Above(G)
    BY <2>2
  <2>4. QED
    BY <2>1, <2>3
<1>4. Within = [v \in DOMAIN nodes |-> G[v]]
  BY Zenon DEF Within
<1> HIDE DEF G
<1>5. \A v \in 1 .. K : v \in G[v] /\ \A u \in G[v] \cap (1 .. K) : ns[u].parent # 0 => ns[u].parent \in G[v]
  BY <1>2, <1>3, LevelsUpward
<1>6. \A v \in 1 .. K : Within[v] = G[v]
  BY <1>4 DEF Tree
<1>7. QED
  BY <1>1, <1>2, <1>5, <1>6

LEMMA ReleasedAll ==
  ASSUME NEW K, Released(K)
  PROVE  IF outcome = "memory" THEN \A v \in live : Within[v] \cap Open # {} ELSE live = {}
<1>1. /\ Tree(K) /\ live \subseteq 2 .. K /\ Complete(K) /\ root = 1 /\ K \in Nat /\ DOMAIN nodes = 1 .. K
      /\ \A v \in live : \A i : Slot(v, i) => nodes[v].parent \in live
  BY DEF Released, Calm, Tree
<1>2. \A v \in live : v \in 1 .. K /\ v # 1 /\ v \in Nat
  BY <1>1
<1>3. CASE outcome = "memory"
  <2>1. SUFFICES ASSUME NEW v \in live PROVE Within[v] \cap Open # {}
    BY <1>3
  <2>2. PICK W : W = Within[v]
    OBVIOUS
  <2>3. v \in W /\ \A u \in W \cap (1 .. K) : u # 1 => nodes[u].parent \in W
    BY <1>1, <1>2, <2>2, WithinUpward
  <2>4. PICK x \in W \cap live : \A y \in W \cap live : x <= y
    <3>1. W \cap live \subseteq Nat /\ W \cap live # {}
      BY <1>2, <2>1, <2>3
    <3>2. QED
      BY <3>1, Least
  <2>5. x \in 1 .. K /\ x # 1 /\ x \in Nat
    BY <1>2, <2>4
  <2>6. x \in Open
    <3>1. SUFFICES ASSUME x \notin Open PROVE FALSE
      OBVIOUS
    <3>2. PICK p : p = nodes[x].parent
      OBVIOUS
    <3>3. PICK i \in DOMAIN nodes[p].items : nodes[p].items[i] = x
      BY <1>1, <2>5, <3>1, <3>2 DEF Open
    <3>4. p \in Nat /\ p < x /\ p # 0 /\ p \in 1 .. K
      <4>1. p \in Nat /\ p < x /\ p # 0
        BY <1>1, <2>5, <3>2 DEF Tree, Node
      <4>2. QED
        BY <1>1, <2>5, <4>1
    <3>5. DOMAIN nodes[p].items = 1 .. Len(nodes[p].items)
      BY <1>1, <3>4, LenProperties DEF Tree, Node
    <3>6. Slot(x, i)
      BY <2>5, <3>2, <3>3, <3>5 DEF Slot
    <3>7. p \in live /\ p \in W
      BY <1>1, <2>3, <2>4, <2>5, <3>2, <3>6
    <3>8. x <= p
      BY <2>4, <3>7
    <3>9. QED
      BY <2>5, <3>4, <3>8
  <2>7. QED
    BY <2>2, <2>4, <2>6
<1>4. CASE outcome # "memory"
  <2>1. Spared(K)
    BY <1>1, <1>4 DEF Complete
  <2>2. SUFFICES ASSUME live # {} PROVE FALSE
    BY <1>4
  <2>3. live \subseteq Nat
    BY <1>2
  <2>4. PICK x \in live : \A y \in live : x <= y
    BY <2>2, <2>3, Least
  <2>5. x \in 2 .. K /\ x \in 1 .. K
    BY <1>1, <1>2, <2>4
  <2>6. PICK i : Slot(x, i)
    BY <2>1, <2>5 DEF Spared
  <2>7. PICK p : p = nodes[x].parent
    OBVIOUS
  <2>8. p \in live /\ p < x /\ p \in 1 .. K
    BY <1>1, <2>4, <2>5, <2>6, <2>7, SlotPlace
  <2>9. x <= p
    BY <2>4, <2>8
  <2>10. QED
    BY <2>5, <2>8, <2>9
<1>5. QED
  BY <1>3, <1>4

(***************************************************************************)
(* Whatever is freed was allocated and not freed before, and at the end    *)
(* nothing is left but what was being read when the second pass ran out of *)
(* memory.                                                                 *)
(***************************************************************************)
THEOREM EveryValueFreedOnce == Spec => []FreedOnce
<1>1. ASSUME Parsing, Quiet PROVE FreedOnce
  <2>1. CASE pc = "parse"
    BY <2>1 DEF FreedOnce
  <2>2. CASE Dropped
    BY <2>2 DEF Dropped, FreedOnce
  <2>3. CASE Crashed
    BY <2>3 DEF Crashed, FreedOnce
  <2>4. ASSUME NEW K, Parsed(K) \/ Abandoned(K) \/ Releasing(K) PROVE FreedOnce
    <3>1. CASE Parsed(K)
      BY <3>1 DEF Parsed, FreedOnce
    <3>2. CASE Abandoned(K)
      <4>1. pc = "discard" /\ (alloc = 0 \/ alloc \in top + 1 .. K) /\ top \in 1 .. K /\ K \in Nat
        BY <3>2 DEF Abandoned, Tree
      <4>2. live = (1 .. top) \cup (IF alloc = 0 THEN {} ELSE alloc .. K)
        BY <3>2 DEF Abandoned
      <4>3. alloc \in live \cup {0}
        BY <4>1, <4>2
      <4>4. QED
        BY <4>1, <4>3 DEF FreedOnce
    <3>3. CASE Releasing(K)
      <4>1. pc = "free" /\ val \in live
        BY <3>3 DEF Releasing, Path
      <4>2. QED
        BY <4>1 DEF FreedOnce
    <3>4. QED
      BY <2>4, <3>1, <3>2, <3>3
  <2>5. ASSUME NEW K, Released(K) PROVE FreedOnce
    <3>1. pc = "returned" /\ pass = 2 /\ areas \subseteq live
      BY <2>5 DEF Released, Calm, Roomy
    <3>2. QED
      BY <2>5, <3>1, ReleasedAll DEF FreedOnce
  <2>6. QED
    BY <1>1, <2>1, <2>2, <2>3, <2>4, <2>5, ParsingAt
<1>2. QED
  BY <1>1, Inductive, PTL
=============================================================================
