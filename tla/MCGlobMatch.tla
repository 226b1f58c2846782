----------------------------- MODULE MCGlobMatch -----------------------------
(* GlobMatch over two letters, a and b, and the metacharacters.            *)
EXTENDS GlobMatch

Letters == {97, 98}
StarChars == Letters \cup {Star, Query, Backslash}
ClassChars == Letters \cup {OpenBracket, CloseBracket, Minus, Bang}
AllChars == StarChars \cup ClassChars
Subject == Letters \cup {OpenBracket, Minus}

Strings(S, n) == UNION {[1 .. k -> S] : k \in 0 .. n}

\* Everything, short; several stars; one class; a class behind a star.
Mixed == <<Strings(AllChars, 3), Strings(Letters \cup {OpenBracket}, 3)>>
Stars == <<Strings(StarChars, 5), Strings(Letters, 4)>>
Classes == <<{<<OpenBracket>> \o s : s \in Strings(ClassChars, 5)}, Strings(Subject, 1)>>
Retries == <<{<<Star, OpenBracket>> \o s : s \in Strings(ClassChars, 4)}, Strings(Letters, 3)>>
Arguments == {Mixed, Stars, Classes, Retries}

\* An inverted class, and what is behind it.
InvertedChars == {97, OpenBracket, CloseBracket, Bang, Star}
Inverted == {<<Strings(InvertedChars, 4), Strings(Letters, 1)>>}
=============================================================================
