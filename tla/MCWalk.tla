------------------------------- MODULE MCWalk -------------------------------
(* Walk on trees with nested directories, names with dots, and links that  *)
(* lead to a file, nowhere, to a directory, or back up.                    *)
EXTENDS Walk, TLC

Dots(d, up) == Dot :> Node("dir", d) @@ DotDot :> Node("dir", up)
File == Node("file", 0)

Nested ==
  <<<<"a">> :> Node("dir", 2) @@ <<"a", ".">> :> File @@ <<".", "a">> :> Node("dir", 3),
    Dots(2, 1) @@ <<"b">> :> Node("dir", 4),
    Dots(3, 1),
    <<"a">> :> File @@ <<"b">> :> File>>

Cycle ==
  <<Dots(1, 1) @@ <<"a">> :> Node("dir", 2) @@ <<"b">> :> File,
    <<"a">> :> Link("dir", 1)>>

Links ==
  <<<<"a">> :> Link("dir", 1) @@ <<"b">> :> Link("none", 0) @@ <<"a", "b">> :> Link("file", 0)>>

SomeTrees == {Nested, Cycle, Links}
SomeBases == {<<"b">>, <<"b", "/">>}
OtherBase == <<"a", "b">>
SomeIgnored == {{}, {<<"a", "/">>, <<"b">>}, {<<"a", "/", "b", "/">>, <<"a", "/", "a", "/", "b">>}}
Codes == "." :> 46 @@ "/" :> 47 @@ "a" :> 97 @@ "b" :> 98
Small == {3}
Letters == {<<>>} \cup {<<c>> : c \in Char}
=============================================================================
