---------------------------- MODULE MCConfigLoad ----------------------------
(* ConfigLoad with two of the required keys of a config file.              *)
EXTENDS ConfigLoad

HostAndUser == {"remote_host", "remote_user"}
Port == {"remote_port"}

Upto(n, S) == UNION {[1 .. k -> S] : k \in 0 .. n}

\* Entries with up to n patterns, elements of up to n entries.
EntriesWith(n) ==
  [key : Keys, ok : BOOLEAN, items : {<<>>}]
    \cup [key : {IgnoreFiles}, ok : {TRUE}, items : Upto(n, BOOLEAN)]
Objects(n, m) == [type : {"object"}, entries : Upto(n, EntriesWith(m))]
Others == [type : {"other"}, entries : {<<>>}]

\* No list; one long object; two short ones.
SomeFiles ==
  [type : {"unreadable", "scalar"}, elements : {<<>>}]
    \cup [type : {"list"}, elements : [1 .. 1 -> Objects(4, 1)]]
    \cup [type : {"list"}, elements : Upto(2, Objects(2, 2) \cup Others)]
=============================================================================
