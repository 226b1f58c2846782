------------------------------ MODULE JsonText ------------------------------
(***************************************************************************)
(* What JsonParse's texts mean, as a grammar: the reference for what the   *)
(* loop and its flags make of them.  It differs from JSON in what is named *)
(* below.                                                                  *)
(***************************************************************************)
EXTENDS JsonParse

\* The first position from p on whose token is in S.
FirstOf(t, p, S) ==
  CHOOSE q \in p .. Len(t) + 1 : (q <= Len(t) => t[q] \in S) /\ \A k \in p .. q - 1 : t[k] \notin S

\* The token at p; the text ends with "end" or where it was refused.  No part
\* of it is looked for further than two places behind it.
At(t, p) == IF p <= Len(t) THEN t[p] ELSE "end"
Places(t) == 1 .. Len(t) + 2

\* Behind blanks and comments; a comment that is not closed leads to the end.
Skips(t) ==
  LET skip[p \in Places(t)] ==
        IF At(t, p) \in Blank THEN skip[p + 1]
        ELSE IF At(t, p) = "//" THEN skip[FirstOf(t, p + 1, {"newline", "end"})]
        ELSE IF At(t, p) = "/*" THEN skip[FirstOf(t, p + 1, {"*/"}) + 1]
        ELSE p
  IN  skip

Skip(t, p) == Skips(t)[p]

None == [ok |-> FALSE]
Result(value, p) == [ok |-> TRUE, value |-> value, behind |-> p]

\* The result r with s before it.
Joined(s, r) == IF r.ok THEN Result(s \o r.value, r.behind) ELSE None

Bytes(b) == [i \in 1 .. Width(b) |-> b]

\* A string from its first letter on: the decoded bytes, and where it ends.
Letters(t) ==
  LET letters[p \in Places(t)] ==
        LET escaped == At(t, p) = "backslash"
            b == IF escaped THEN At(t, p + 1) ELSE At(t, p)
        IN  IF b = "end" \/ (escaped /\ b = "u?") THEN None
            ELSE IF b = "quote" /\ ~escaped THEN Result(<<>>, p + 1)
            ELSE Joined(Bytes(b), letters[p + (IF escaped THEN 2 ELSE 1)])
  IN  letters

\* The number of the digits from p to before q.
Decimal(t, p, q) ==
  LET upto[k \in p .. Len(t)] == IF k = p THEN 0 ELSE upto[k - 1] * 10 + Value(t[k - 1])
  IN  upto[q]

(***************************************************************************)
(* A number.  Not as in JSON: "-" may stand alone or before an exponent,   *)
(* a number that does not fit in an integer has no fraction, and a number  *)
(* is not followed by a comment.                                           *)
(***************************************************************************)
Number(t, p) ==
  LET DigitsEnd(q) == FirstOf(t, q, Token \ Digit)
      from == IF At(t, p) = "-" THEN p + 1 ELSE p
      point == DigitsEnd(from)
      fraction == At(t, point) = "."
      e == IF fraction THEN DigitsEnd(point + 1) ELSE point
      exponent == At(t, e) = "e"
      power == IF At(t, e + 1) \in {"+", "-"} THEN e + 2 ELSE e + 1
      last == IF exponent THEN DigitsEnd(power) ELSE e
      whole == Decimal(t, from, point)
      sign == IF At(t, p) = "-" THEN -1 ELSE 1
  IN  IF /\ At(t, last) \notin NumberToken \cup {"//", "/*"}
         /\ point > from + 1 => t[from] # "0"
         /\ fraction => from < point /\ point + 1 < e /\ whole <= IntMax
         /\ exponent => power < last
      THEN Result(IF fraction \/ exponent \/ whole > IntMax THEN [type |-> "double"]
                  ELSE [type |-> "integer", integer |-> sign * whole], last)
      ELSE None

(***************************************************************************)
(* Values, the items of arrays and the entries of objects from p on, by    *)
(* what m says of the places behind.  Not as in JSON: the last item or     *)
(* entry may be followed by a comma.                                       *)
(***************************************************************************)
Holder(type, r) == IF r.ok THEN Result([type |-> type, items |-> r.value], r.behind) ELSE None

ValueAt(t, m, p) ==
  CASE At(t, p) = "quote" ->
         LET s == Letters(t)[p + 1]
         IN  IF s.ok THEN Result([type |-> "string", bytes |-> s.value], s.behind) ELSE None
    [] At(t, p) = "literal" -> Result([type |-> "literal"], p + 1)
    [] At(t, p) \in Digit \cup {"-"} -> Number(t, p)
    [] At(t, p) = "[" -> Holder("array", m[Skip(t, p + 1)].items)
    [] At(t, p) = "lbrace" -> Holder("object", m[Skip(t, p + 1)].entries)
    [] OTHER -> None

AfterItem(t, m, p) ==
  CASE At(t, p) = "comma" -> m[Skip(t, p + 1)].items
    [] At(t, p) = "]" -> Result(<<>>, p + 1)
    [] OTHER -> None

\* v is the value at p, if there is one.
ItemsAt(t, m, v, p) ==
  IF At(t, p) = "]" THEN Result(<<>>, p + 1)
  ELSE IF v.ok THEN Joined(<<v.value>>, AfterItem(t, m, Skip(t, v.behind)))
  ELSE None

AfterEntry(t, m, p) ==
  CASE At(t, p) = "comma" -> m[Skip(t, p + 1)].entries
    [] At(t, p) = "rbrace" -> Result(<<>>, p + 1)
    [] OTHER -> None

\* The entry of that name, from its value on.
EntryAt(t, m, name, p) ==
  LET v == m[p].value
  IN  IF v.ok THEN Joined(<<[name |-> name, value |-> v.value]>>, AfterEntry(t, m, Skip(t, v.behind)))
      ELSE None

AfterName(t, m, name, p) == IF At(t, p) = ":" THEN EntryAt(t, m, name, Skip(t, p + 1)) ELSE None

EntriesAt(t, m, p) ==
  LET name == Letters(t)[p + 1]
  IN  IF At(t, p) = "rbrace" THEN Result(<<>>, p + 1)
      ELSE IF At(t, p) = "quote" /\ name.ok THEN AfterName(t, m, name.value, Skip(t, name.behind))
      ELSE None

Meanings(t) ==
  LET m[p \in Places(t)] ==
        LET v == ValueAt(t, m, p)
        IN  [value |-> v, items |-> ItemsAt(t, m, v, p), entries |-> EntriesAt(t, m, p)]
  IN  m

Meaning(t) ==
  LET v == Meanings(t)[Skip(t, 1)].value
  IN  IF v.ok /\ Skip(t, v.behind) = Len(t) /\ At(t, Len(t)) = "end" THEN v ELSE None

\* The beginnings of the texts of a language that mean something.  Bound: texts
\* of language.whole tokens.
Viable ==
  LET Texts(l) == UNION {[1 .. k -> l.tokens] : k \in 0 .. l.whole}
      Whole == UNION {{t \in {Append(s, "end") : s \in Texts(l)} : Meaning(t).ok} : l \in Languages}
  IN  UNION {{SubSeq(t, 1, k) : k \in 1 .. Len(t)} : t \in Whole}

-----------------------------------------------------------------------------
\* The bytes of mem from the place i to the terminator.
BytesAt(mem, i) == SubSeq(mem, i + 1, FirstOf(mem, i + 1, {"nul"}) - 1)

\* A value with the node n as the caller reads it, if held has those in it.
Content(n, held) ==
  CASE n.type = "array" -> [type |-> "array", items |-> [i \in 1 .. n.length |-> held[n.items[i]]]]
    [] n.type = "object" ->
         [type |-> "object",
          items |-> [i \in 1 .. n.length |->
                       [name |-> BytesAt(n.mem, n.names[i]), value |-> held[n.items[i]]]]]
    [] n.type = "string" -> [type |-> "string", bytes |-> BytesAt(n.mem, 0)]
    [] n.type = "integer" -> [type |-> "integer", integer |-> n.integer]
    [] OTHER -> [type |-> n.type]

Contents == LET content[v \in DOMAIN nodes] == Content(nodes[v], content) IN content

(***************************************************************************)
(* The values that the second pass leaves, read through their slots and    *)
(* terminators, are what the text means, and a text is refused only if it  *)
(* means nothing; above all the second pass refuses nothing.               *)
(***************************************************************************)
ParsedAsWritten ==
  /\ pc = "parsed" => Meaning(text).ok /\ Contents[root] = Meaning(text).value
  /\ outcome = "syntax" => pass = 1 /\ text \notin Viable
=============================================================================
