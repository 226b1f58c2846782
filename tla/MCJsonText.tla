----------------------------- MODULE MCJsonText -----------------------------
(* JsonText for languages of a few tokens each.                            *)
EXTENDS JsonText

Language(tokens, length, whole) == [tokens |-> tokens, length |-> length, whole |-> whole]

SomeLanguages ==
  {Language({"lbrace", "rbrace", "[", "]", "comma", ":", "quote", "literal"}, 8, 5),
   Language({"lbrace", "rbrace", "comma", ":", "quote", "x"}, 14, 0),
   Language({"[", "]", "comma", "0", "1", "-", "+", ".", "e"}, 6, 5),
   Language({"quote", "backslash", "u1", "u2", "u3", "u4", "u?", "x", "lbrace", "rbrace", ":"}, 7, 4),
   Language({"//", "/*", "*/", "newline", "space", "[", "]", "1", "x", "literal"}, 5, 4)}
=============================================================================
