------------------------------ MODULE JsonParse ------------------------------
(***************************************************************************)
(* json_parse_ex (json.c), as configs_load calls it: comments enabled, no  *)
(* limit of memory.  The text is read twice by the same loop.  The first   *)
(* pass allocates the values, checks the syntax and counts; the second one *)
(* allocates the arrays, the strings and, for each object, one area of all *)
(* its names, of the sizes that were counted, and fills them.  One step is *)
(* one round of the loop.                                                  *)
(*                                                                         *)
(* The text is chosen while the first pass reads it, in tokens: a letter   *)
(* of JSON's syntax, one that stands for all others ("x"), the word of a   *)
(* literal, \uXXXX as "backslash" and the number of bytes it becomes, and  *)
(* the pairs of letters that delimit comments.  "end" is the end of the    *)
(* text or a zero in it.                                                   *)
(***************************************************************************)
EXTENDS Integers, Sequences, FiniteSets

CONSTANTS
  Languages,  \* the texts: the tokens they are made of, and how many
  IntMax      \* JSON_INT_MAX

Escapes == {"u1", "u2", "u3", "u4", "u?"}
Blank == {"space", "newline"}
Digit == {"0", "1"}
NumberToken == Digit \cup {"+", "-", "e", "."}
Token == Escapes \cup Blank \cup NumberToken \cup
  {"lbrace", "rbrace", "[", "]", "comma", ":", "quote", "backslash", "literal", "x",
   "//", "/*", "*/", "end"}

ASSUME JsonAssumption ==
  /\ \A l \in Languages : l.tokens \subseteq Token \ {"end"} /\ {l.length, l.whole} \subseteq Nat
  /\ IntMax \in Nat

VARIABLES
  language, text,      \* the text as far as it was read
  pass, ptr, flags,    \* of the loop
  string_length, num_digits,
  top, root, alloc,    \* the value being read, the first and the latest one; 0 is NULL
  nodes,               \* the contents of the values in the order of their allocation
  live, areas,         \* those allocated, and those with memory of their own
  val,                 \* value of json_value_free_ex
  pc, outcome          \* where it stands; why it failed

number == num_digits
memory == <<live, areas>>
values == <<top, root, alloc, nodes>>
vars == <<language, text, pass, ptr, flags, string_length, number, values, memory, val, pc, outcome>>

\* A value: length and the size of the names are counted in the first pass;
\* room and mem are the slots and the bytes allocated in the second one, items
\* and names what the slots hold.  _reserved is the next value allocated until
\* the second pass makes it the place of the next name.
NewNode(type) ==
  [type |-> type, parent |-> top, length |-> 0, integer |-> 0, chars |-> 0,
   reserved |-> 0, room |-> 0, mem |-> <<>>, items |-> <<>>, names |-> <<>>]

Top == nodes[top]
Is(type) == top # 0 /\ Top.type = type
Has(f) == f \in flags

Init ==
  /\ language \in Languages /\ text = <<>>
  /\ pass = 1 /\ ptr = 1 /\ flags = {"seek_value"}
  /\ string_length = 0 /\ num_digits = 0
  /\ top = 0 /\ root = 0 /\ alloc = 0 /\ nodes = <<>>
  /\ live = {} /\ areas = {} /\ val = 0
  /\ pc = "parse" /\ outcome = "none"

-----------------------------------------------------------------------------
(* What all rounds have in common.                                         *)

\* Bound: language.length tokens; of the letters of a string only some.
Readable ==
  {"end"} \cup
  {b \in language.tokens :
     /\ Len(text) < language.length
     /\ Has("string") => b \in Escapes \cup {"quote", "backslash", "x", "//"}
     /\ b \in Escapes => Has("escaped")
     /\ b = "*/" => Has("block_comment")
     /\ b = "/*" => ~Has("block_comment")}

Read(b) ==
  /\ pc = "parse"
  /\ \/ ptr <= Len(text) /\ b = text[ptr] /\ UNCHANGED text
     \/ ptr > Len(text) /\ pass = 1 /\ b \in Readable /\ text' = Append(text, b)
  /\ UNCHANGED <<language, val>>

\* e_failed: what is discarded first are the values that the pass has not come
\* to, from a on, or in the first pass all of them.
Fail(why, a) ==
  /\ pc' = "discard" /\ outcome' = why
  /\ alloc' = IF pass = 1 THEN root ELSE a
  /\ UNCHANGED <<pass, ptr, flags, string_length, number>>

Refuse == Fail("syntax", alloc) /\ UNCHANGED <<top, root, nodes, memory>>

\* The next round has these flags and, but for a reproc, the next token.
Round(f) ==
  /\ flags' = f /\ ptr' = ptr + 1
  /\ UNCHANGED <<pass, pc, outcome>>
Reproc(f) ==
  /\ flags' = f
  /\ UNCHANGED <<ptr, pass, pc, outcome>>

Continue(f) == Round(f) /\ UNCHANGED <<string_length, number, values, memory>>

\* The value n when v in it is complete: it counts v and, in the second pass,
\* keeps it in a slot.
Holding(n, v) ==
  [n EXCEPT !.length = @ + 1, !.items = IF pass = 2 THEN Append(@, v) ELSE @]

Completed(ns, v) ==
  IF ns[v].parent = 0 THEN ns ELSE [ns EXCEPT ![ns[v].parent] = Holding(@, v)]

\* The flags then: root value done, or what may follow in the parent.
After(ns, v, f) ==
  f \cup {"need_comma"} \cup
  (IF ns[v].parent = 0 THEN {"done"}
   ELSE IF ns[ns[v].parent].type = "array" THEN {"seek_value"} ELSE {})

\* flag_next: v is complete, with the values ns and the flags f.
NextFlag(ns, v, f) ==
  /\ nodes' = Completed(ns, v)
  /\ top' = IF ns[v].parent = 0 THEN v ELSE ns[v].parent
  /\ flags' = After(ns, v, f)
  /\ UNCHANGED <<pass, pc, outcome>>

-----------------------------------------------------------------------------
(* new_value.                                                              *)

\* Mutant: a single item or entry gets no memory.
NeedsIfSeveral(n) == n.type = "string" \/ (n.type \in {"array", "object"} /\ n.length > 1)

\* Whether the second pass allocates memory for what the value holds.
Needs(n) == n.type = "string" \/ (n.type \in {"array", "object"} /\ n.length > 0)

Uninitialized(k) == [i \in 1 .. k |-> "?"]

Opened(n) ==
  IF n.type = "string" THEN [n EXCEPT !.mem = Uninitialized(n.length + 1), !.length = 0]
  ELSE IF n.type = "array" THEN [n EXCEPT !.room = n.length, !.length = 0]
  ELSE [n EXCEPT !.room = n.length, !.mem = Uninitialized(n.chars), !.reserved = 0, !.length = 0]

\* The value that is new in this pass, and all values with it.
New == IF pass = 1 THEN Len(nodes) + 1 ELSE alloc
WithNew(type) ==
  IF pass = 2 THEN [nodes EXCEPT ![alloc] = IF Needs(@) THEN Opened(@) ELSE @]
  ELSE Append(IF alloc = 0 THEN nodes ELSE [nodes EXCEPT ![alloc].reserved = New], NewNode(type))

RootWithNew == IF root = 0 THEN New ELSE root

NewValue ==
  /\ root' = RootWithNew
  /\ alloc' = IF pass = 1 THEN New ELSE nodes[alloc].reserved
  /\ live' = live \cup {New}
  /\ areas' = IF pass = 2 /\ Needs(nodes[alloc]) THEN areas \cup {alloc} ELSE areas

\* The memory is refused: nothing is new in the first pass, while the second
\* one has made the value the top already.
NewValueFails ==
  /\ UNCHANGED <<memory, nodes>>
  /\ \/ pass = 1 /\ Fail("memory", root) /\ UNCHANGED <<top, root>>
     \/ /\ pass = 2 /\ Needs(nodes[alloc]) /\ Fail("memory", nodes[alloc].reserved)
        /\ top' = alloc /\ root' = RootWithNew

-----------------------------------------------------------------------------
(* Strings and names.                                                      *)

\* Bytes that a token becomes in a string.
Width(b) ==
  CASE b \in {"u2", "//", "/*"} -> 2 [] b = "u3" -> 3 [] b \in {"u4", "literal"} -> 4 [] OTHER -> 1

\* Mutant: the first pass takes every escape for one byte.
MeasuredNarrow(b) == IF pass = 1 /\ b \in Escapes THEN 1 ELSE Width(b)

StringAdds(b) == Width(b)

\* Where string points to in mem of the top.
StringAt == IF Is("object") THEN Top.reserved ELSE 0

\* The values with k bytes b written at string [string_length].
Written(b, k) ==
  [nodes EXCEPT ![top].mem =
     [i \in DOMAIN @ |->
        IF i \in StringAt + string_length + 1 .. StringAt + string_length + k THEN b ELSE @[i]]]

StringAdd(b, f) ==
  /\ Round(f)
  /\ string_length' = string_length + StringAdds(b)
  /\ nodes' = IF pass = 2 THEN Written(b, StringAdds(b)) ELSE nodes
  /\ UNCHANGED <<number, top, root, alloc, memory>>

StringRound(b) ==
  /\ Has("string") /\ Read(b)
  /\ \/ b = "end" /\ Refuse
     \/ /\ Has("escaped") /\ b # "end"
        /\ IF b = "u?" THEN Refuse ELSE StringAdd(b, flags \ {"escaped"})
     \/ ~Has("escaped") /\ b = "backslash" /\ Continue(flags \cup {"escaped"})
     \/ ~Has("escaped") /\ b \notin {"end", "backslash", "quote"} /\ StringAdd(b, flags)

Terminated == IF pass = 2 THEN Written("nul", 1) ELSE nodes

StringEnds ==
  /\ Has("string") /\ ~Has("escaped") /\ Is("string") /\ Read("quote")
  /\ NextFlag([Terminated EXCEPT ![top].length = string_length], top, flags \ {"string"})
  /\ ptr' = ptr + 1
  /\ UNCHANGED <<string_length, number, root, alloc, memory>>

\* Mutant: the next name begins at the terminator of this one.
NameOverlaps(n) ==
  IF pass = 1 THEN [n EXCEPT !.chars = @ + string_length + 1]
  ELSE [n EXCEPT !.names = Append(@, n.reserved), !.reserved = @ + string_length]

\* The object n after a name: counted, or given to the next entry.
Named(n) ==
  IF pass = 1 THEN [n EXCEPT !.chars = @ + string_length + 1]
  ELSE [n EXCEPT !.names = Append(@, n.reserved), !.reserved = @ + string_length + 1]

NameEnds ==
  /\ Has("string") /\ ~Has("escaped") /\ Is("object") /\ Read("quote")
  /\ nodes' = [Terminated EXCEPT ![top] = Named(@)]
  /\ Round((flags \ {"string"}) \cup {"seek_value", "need_colon"})
  /\ UNCHANGED <<string_length, number, top, root, alloc, memory>>

-----------------------------------------------------------------------------
(* Comments, and what follows the root value.                              *)
InComment == Has("line_comment") \/ Has("block_comment")

LineComment(b) ==
  /\ Has("line_comment") /\ Read(b)
  /\ \/ b \in {"newline", "end"} /\ Reproc(flags \ {"line_comment"})
        /\ UNCHANGED <<string_length, number, values, memory>>
     \/ b \notin {"newline", "end"} /\ Continue(flags)

BlockComment(b) ==
  /\ Has("block_comment") /\ Read(b)
  /\ \/ b = "end" /\ Refuse
     \/ b = "*/" /\ Continue(flags \ {"block_comment"})
     \/ b \notin {"*/", "end"} /\ Continue(flags)

CommentBegins(b) ==
  /\ ~Has("string") /\ ~InComment /\ b \in {"//", "/*"} /\ Read(b)
  /\ \/ ~Has("seek_value") /\ ~Has("done") /\ ~Is("object") /\ Refuse
     \/ /\ Has("seek_value") \/ Has("done") \/ Is("object")
        /\ Continue(flags \cup {IF b = "//" THEN "line_comment" ELSE "block_comment"})

\* None of the above.
Outside(b) == ~Has("string") /\ ~InComment /\ b \notin {"//", "/*"} /\ Read(b)

Trailing(b) ==
  /\ Has("done") /\ Outside(b) /\ b # "end"
  /\ IF b \in Blank THEN Continue(flags) ELSE Refuse

PassEnds ==
  /\ Has("done") /\ Outside("end")
  /\ alloc' = root /\ UNCHANGED <<string_length, number, nodes, memory, outcome>>
  /\ \/ /\ pass = 1 /\ pass' = 2 /\ ptr' = 1 /\ flags' = {"seek_value"}
        /\ top' = 0 /\ root' = 0 /\ UNCHANGED pc
     \/ pass = 2 /\ pc' = "parsed" /\ UNCHANGED <<pass, ptr, flags, top, root>>

-----------------------------------------------------------------------------
(* Seeking a value.                                                        *)
Seeks(b) == Has("seek_value") /\ ~Has("done") /\ Outside(b)

BetweenValues(b) ==
  /\ Seeks(b)
  /\ \/ b \in Blank /\ Continue(flags)
     \/ b = "]" /\ ~Is("array") /\ Refuse
     \/ /\ Has("need_comma") /\ b \notin Blank \cup {"]"}
        /\ IF b = "comma" THEN Continue(flags \ {"need_comma"}) ELSE Refuse
     \/ /\ Has("need_colon") /\ ~Has("need_comma") /\ b \notin Blank \cup {"]"}
        /\ IF b = ":" THEN Continue(flags \ {"need_colon"}) ELSE Refuse

ArrayEnds ==
  /\ Seeks("]") /\ Is("array")
  /\ NextFlag(nodes, top, flags \ {"need_comma", "seek_value"}) /\ ptr' = ptr + 1
  /\ UNCHANGED <<string_length, number, root, alloc, memory>>

Begins == ~Has("need_comma") /\ ~Has("need_colon")
NotValue == Token \ (Blank \cup Digit \cup {"lbrace", "[", "]", "quote", "literal", "-"})

NoValue(b) == Seeks(b) /\ Begins /\ b \in NotValue /\ Refuse

OutOfMemory(b) ==
  /\ Seeks(b) /\ Begins /\ b \in {"lbrace", "[", "quote", "literal", "-"} \cup Digit
  /\ NewValueFails

\* Of an array, an object or a string.
Opens(b, type) ==
  /\ Seeks(b) /\ Begins /\ NewValue
  /\ nodes' = WithNew(type) /\ top' = New
  /\ Round((flags \ {"seek_value"}) \cup
           (CASE b = "[" -> {"seek_value"} [] b = "quote" -> {"string"} [] OTHER -> {}))
  /\ string_length' = IF b = "quote" THEN 0 ELSE string_length
  /\ UNCHANGED number

Literal ==
  /\ Seeks("literal") /\ Begins /\ NewValue
  /\ NextFlag(WithNew("literal"), New, flags \ {"seek_value"}) /\ ptr' = ptr + 1
  /\ UNCHANGED <<string_length, number>>

NumberFlags == {"num_negative", "num_e", "num_e_got_sign", "num_zero"}

NumberBegins(b) ==
  /\ pass = 1 /\ Seeks(b) /\ Begins /\ b \in Digit \cup {"-"} /\ NewValue
  /\ nodes' = WithNew("integer") /\ top' = New
  /\ num_digits' = 0 /\ UNCHANGED string_length
  /\ LET f == flags \ (NumberFlags \cup {"seek_value"})
     IN  IF b = "-" THEN Round(f \cup {"num_negative"}) ELSE Reproc(f)

\* The second pass takes the value from the first one.
NumberSkipped(b) ==
  /\ pass = 2 /\ Seeks(b) /\ Begins /\ b \in Digit \cup {"-"} /\ NewValue
  /\ NextFlag(WithNew("integer"), New, flags \ {"seek_value"})
  /\ ptr' = CHOOSE p \in ptr .. Len(text) :
              text[p] \notin NumberToken /\ \A q \in ptr .. p - 1 : text[q] \in NumberToken
  /\ UNCHANGED <<string_length, number>>

-----------------------------------------------------------------------------
(* In an object.                                                           *)
InObject(b) == ~Has("seek_value") /\ ~Has("done") /\ Is("object") /\ Outside(b)

Entry(b) ==
  /\ InObject(b)
  /\ \/ b \in Blank /\ Continue(flags)
     \/ b = "quote" /\ Has("need_comma") /\ Refuse
     \/ /\ b = "quote" /\ ~Has("need_comma") /\ string_length' = 0
        /\ Round(flags \cup {"string"}) /\ UNCHANGED <<number, values, memory>>
     \/ b = "comma" /\ IF Has("need_comma") THEN Continue(flags \ {"need_comma"}) ELSE Refuse
     \/ b \notin Blank \cup {"quote", "comma", "rbrace"} /\ Refuse

ObjectEnds ==
  /\ InObject("rbrace")
  /\ NextFlag(nodes, top, flags \ {"need_comma"}) /\ ptr' = ptr + 1
  /\ UNCHANGED <<string_length, number, root, alloc, memory>>

-----------------------------------------------------------------------------
(* In a number.  Of a double only the type is followed.                    *)
InNumber(b) ==
  /\ ~Has("seek_value") /\ ~Has("done") /\ top # 0 /\ Top.type \in {"integer", "double"}
  /\ Outside(b)

Value(b) == IF b = "1" THEN 1 ELSE 0

\* would_overflow.
Overflows(n, d) == (IntMax - d) \div 10 < n

NumberGoesOn(f, n, digits) ==
  /\ Round(f) /\ nodes' = [nodes EXCEPT ![top] = n] /\ num_digits' = digits
  /\ UNCHANGED <<string_length, top, root, alloc, memory>>

\* A number that does not fit becomes a double, with the same digit again.
BecomesDouble ==
  /\ Reproc(flags) /\ nodes' = [nodes EXCEPT ![top].type = "double"]
  /\ UNCHANGED <<string_length, num_digits, top, root, alloc, memory>>

DigitRound(b) ==
  /\ b \in Digit /\ InNumber(b)
  /\ \/ Has("num_e") /\ NumberGoesOn(flags \cup {"num_e_got_sign"}, Top, num_digits + 1)
     \/ ~Has("num_e") /\ Is("double") /\ NumberGoesOn(flags, Top, num_digits + 1)
     \/ /\ ~Has("num_e") /\ Is("integer")
        /\ LET zero == IF num_digits = 0 /\ b = "0" THEN {"num_zero"} ELSE {}
           IN  \/ Has("num_zero") /\ Refuse
               \/ ~Has("num_zero") /\ Overflows(Top.integer, Value(b)) /\ BecomesDouble
               \/ /\ ~Has("num_zero") /\ ~Overflows(Top.integer, Value(b))
                  /\ NumberGoesOn(flags \cup zero, [Top EXCEPT !.integer = @ * 10 + Value(b)], num_digits + 1)

Sign(b) == b \in {"+", "-"} /\ Has("num_e") /\ ~Has("num_e_got_sign")
Point(b) == b = "." /\ Is("integer")
Exponent(b) == b = "e" /\ ~Has("num_e")

\* A digit is missing after a point or an exponent.
NoDigit == num_digits = 0 /\ (Has("num_e") \/ Is("double"))

NumberPart(b) ==
  /\ InNumber(b)
  /\ \/ Sign(b) /\ NumberGoesOn(flags \cup {"num_e_got_sign"}, Top, num_digits)
     \/ /\ Point(b)
        /\ IF num_digits = 0 THEN Refuse ELSE NumberGoesOn(flags, [Top EXCEPT !.type = "double"], 0)
     \/ /\ Exponent(b)
        /\ IF NoDigit THEN Refuse
           ELSE NumberGoesOn((flags \cup {"num_e"}) \ {"num_zero"}, [Top EXCEPT !.type = "double"], 0)

NumberEnds(b) ==
  /\ b \notin Digit /\ InNumber(b) /\ ~Sign(b) /\ ~Point(b) /\ ~Exponent(b)
  /\ \/ NoDigit /\ Refuse
     \/ /\ ~NoDigit
        /\ LET n == IF Has("num_negative") THEN [Top EXCEPT !.integer = -@] ELSE Top
           IN  NextFlag([nodes EXCEPT ![top] = n], top, flags)
        /\ UNCHANGED <<ptr, string_length, number, root, alloc, memory>>

-----------------------------------------------------------------------------
(* After a failure, and json_value_free_ex.                                *)

\* Mutant: what the second pass has built is forgotten.
DiscardOnly ==
  /\ pc = "discard"
  /\ \/ alloc # 0 /\ live' = live \ {alloc} /\ alloc' = nodes[alloc].reserved /\ UNCHANGED <<val, pc>>
     \/ alloc = 0 /\ pc' = "returned" /\ UNCHANGED <<live, alloc, val>>
  /\ UNCHANGED <<language, text, pass, ptr, flags, string_length, number, top, root, nodes, areas, outcome>>

Discard ==
  /\ pc = "discard"
  /\ \/ alloc # 0 /\ live' = live \ {alloc} /\ alloc' = nodes[alloc].reserved /\ UNCHANGED <<val, pc>>
     \/ alloc = 0 /\ pass = 1 /\ pc' = "returned" /\ UNCHANGED <<live, alloc, val>>
     \/ alloc = 0 /\ pass = 2 /\ pc' = "free" /\ val' = root /\ UNCHANGED <<live, alloc>>
  /\ UNCHANGED <<language, text, pass, ptr, flags, string_length, number, top, root, nodes, areas, outcome>>

\* The caller has no more use for the values.
Release ==
  /\ pc = "parsed" /\ pc' = "free" /\ val' = root
  /\ UNCHANGED <<language, text, pass, ptr, flags, string_length, number, values, memory, outcome>>

\* Mutant: a value is freed before those it holds.
FreeKeepsLength ==
  /\ pc = "free"
  /\ LET n == nodes[val]
     IN  \/ /\ n.type \in {"array", "object"} /\ n.length > 0
            /\ IF val \in areas THEN val' = n.items[n.length] /\ UNCHANGED pc ELSE pc' = "crashed" /\ UNCHANGED val
            /\ UNCHANGED <<nodes, memory>>
         \/ /\ n.type \notin {"array", "object"} \/ n.length = 0
            /\ areas' = areas \ {val} /\ live' = live \ {val}
            /\ val' = n.parent /\ pc' = IF n.parent = 0 THEN "returned" ELSE pc
            /\ UNCHANGED nodes
  /\ UNCHANGED <<language, text, pass, ptr, flags, string_length, number, top, root, alloc, outcome>>

\* The last value it holds is next; the memory of an array or object whose
\* allocation was refused is NULL.
Free ==
  /\ pc = "free"
  /\ LET n == nodes[val]
     IN  \/ /\ n.type \in {"array", "object"} /\ n.length > 0
            /\ IF val \in areas THEN val' = n.items[n.length] /\ UNCHANGED pc ELSE pc' = "crashed" /\ UNCHANGED val
            /\ nodes' = [nodes EXCEPT ![val].length = @ - 1] /\ UNCHANGED memory
         \/ /\ n.type \notin {"array", "object"} \/ n.length = 0
            /\ areas' = areas \ {val} /\ live' = live \ {val}
            /\ val' = n.parent /\ pc' = IF n.parent = 0 THEN "returned" ELSE pc
            /\ UNCHANGED nodes
  /\ UNCHANGED <<language, text, pass, ptr, flags, string_length, number, top, root, alloc, outcome>>

Over == pc \in {"returned", "crashed"} /\ UNCHANGED vars

Step ==
  \/ \E b \in Token :
       \/ StringRound(b) \/ LineComment(b) \/ BlockComment(b) \/ CommentBegins(b)
       \/ Trailing(b) \/ BetweenValues(b) \/ NoValue(b) \/ OutOfMemory(b)
       \/ NumberBegins(b) \/ NumberSkipped(b) \/ Entry(b)
       \/ DigitRound(b) \/ NumberPart(b) \/ NumberEnds(b)
  \/ StringEnds \/ NameEnds \/ PassEnds \/ ArrayEnds \/ Literal \/ ObjectEnds
  \/ Opens("lbrace", "object") \/ Opens("[", "array") \/ Opens("quote", "string")
  \/ Discard \/ Release \/ Free

Next == Step \/ Over

Spec == Init /\ [][Next]_vars /\ WF_vars(Step)

-----------------------------------------------------------------------------
(***************************************************************************)
(* The parser never reads behind the end of the text, and what the second  *)
(* pass writes stays within what the first one counted: the bytes of a     *)
(* string or name with their terminator, the slots of an array, and the    *)
(* entry that a name is put into.                                          *)
(***************************************************************************)
InBounds ==
  /\ ptr <= Len(text) + 1
  /\ pass = 2 =>
       /\ Has("string") => StringAt + string_length < Len(Top.mem)
       /\ Is("object") /\ (Has("string") \/ Has("need_colon")) => Top.length < Top.room
       /\ \A v \in areas : nodes[v].type # "string" => nodes[v].length <= nodes[v].room

\* A value and all those it is in.
Within == [v \in DOMAIN nodes |->
  LET above[w \in DOMAIN nodes] ==
        {w} \cup (IF nodes[w].parent = 0 THEN {} ELSE above[nodes[w].parent])
  IN  above[v]]

\* The values that are not yet in a slot of the one they belong to.
Open == {v \in DOMAIN nodes \ {root} : \A i \in DOMAIN nodes[nodes[v].parent].items :
           nodes[nodes[v].parent].items[i] # v}

(***************************************************************************)
(* Whatever the caller or the parser itself frees was allocated and not    *)
(* freed before; at the end nothing is left, but that when memory is       *)
(* refused in the second pass the values being read are lost with all they *)
(* hold, unless they are the root.                                         *)
(***************************************************************************)
FreedOnce ==
  /\ pc = "free" => val \in live
  /\ pc = "discard" => alloc \in live \cup {0}
  /\ pc = "returned" =>
       /\ areas \subseteq live
       /\ IF outcome = "memory" /\ pass = 2 THEN \A v \in live : Within[v] \cap Open # {} ELSE live = {}

(***************************************************************************)
(* json_value_free_ex follows a NULL pointer in one case: when the root    *)
(* is the array or object for which memory was refused.                    *)
(***************************************************************************)
CrashOnlyIfRootRefused ==
  pc = "crashed" => outcome = "memory" /\ pass = 2 /\ top = root /\ val = root

\* The parser and the release of its values end, for every text.
Ends == <>(pc \in {"returned", "crashed"})
=============================================================================
