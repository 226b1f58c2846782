-------------------------------- MODULE Walk --------------------------------
(***************************************************************************)
(* iterate_directory and iterate_directory_setextra (match.c) with the one *)
(* path buffer each of them works in, an XString: the walk appends the     *)
(* name of every entry, asks for its state, goes down into directories     *)
(* and cuts the path back to the length it had; the loop over the items    *)
(* that follows puts each name behind the path of the other side.  The     *)
(* calls of the system take the buffer's text, whatever is in it.          *)
(***************************************************************************)
EXTENDS XString, SequencesExt

CONSTANTS
  Trees,        \* directory trees: for each directory its entries by name
  BasePaths,    \* what the configuration names the first directory
  Dest,         \* the directory of the other side
  IgnoreLists,  \* the relative paths that ignore_files may match
  Code,         \* the characters as strcmp compares them
  MaxLinks,     \* links in a path before the system gives up, ELOOP
  PathMax,      \* length of a path before it does
  MaxFailures   \* bound: other calls that fail

Dot == <<".">>
DotDot == <<".", ".">>
Root == 1

\* An entry is a file or directory or a link to one; entries "." and ".."
\* are listed by readdir as well.
Node(k, d) == [kind |-> k, dir |-> d]
Link(k, d) == [kind |-> "link", dir |-> d, target |-> k]

\* In a tree names are not empty and hold no slash, and what is or leads to a
\* directory, and nothing else, names one of the tree.
ASSUME WalkAssumption ==
  /\ {".", "/"} \subseteq Char
  /\ BasePaths \subseteq Seq(Char) \ {<<>>} /\ Dest \in Seq(Char)
  /\ \A t \in Trees :
       /\ Root \in DOMAIN t /\ 0 \notin DOMAIN t
       /\ \A d \in DOMAIN t : DOMAIN t[d] \subseteq Seq(Char) \ {<<>>}
       /\ \A d \in DOMAIN t : \A n \in DOMAIN t[d] :
            LET e == t[d][n]
            IN  /\ \A i \in DOMAIN n : n[i] # "/"
                /\ (IF e.kind = "link" THEN e.target ELSE e.kind) = "dir" <=> e.dir \in DOMAIN t
  /\ Code \in [Char -> Nat]
  /\ {MaxLinks, PathMax, MaxFailures} \subseteq Nat

VARIABLES
  tree, base, remote, follow, ignored,  \* what is walked, and how
  pc,
  off,      \* baseoff, and off of iterate_directory_setextra
  frames,   \* the calls of the walk: their off, directory and entries to come
  items,    \* the relative paths found, then those still to come
  item,     \* the one the other side is asked for
  failures  \* number of other calls that failed

given == <<tree, base, remote, follow, ignored>>
wvars == <<vars, given, pc, off, frames, items, item, failures>>

-----------------------------------------------------------------------------
(* The file system.                                                        *)
None == [kind |-> "none", dir |-> 0, links |-> 0]

\* What the entry e of directory d is, or leads to.
Target(d, e, followed) ==
  IF e.kind # "link" THEN [kind |-> e.kind, dir |-> e.dir, links |-> d.links]
  ELSE IF ~followed THEN [kind |-> "link", dir |-> 0, links |-> d.links]
  ELSE IF d.links = MaxLinks THEN None
  ELSE [kind |-> e.target, dir |-> e.dir, links |-> d.links + 1]

\* From the one node in D, if any, to its entry of that name.
Enter(t, D, name, followed) ==
  IF name = <<>> THEN D
  ELSE {Target(d, t[d.dir][name], followed) :
          d \in {x \in D : x.dir \in DOMAIN t /\ name \in DOMAIN t[x.dir]}}

\* What the path s that starts with b leads to in tree t, with a link at its
\* end followed or not.
LookupIn(t, b, s, followed) ==
  LET first == Len(b)
      Slash(i) == i \in {first, Len(s) + 1} \/ s[i] = "/"
      upTo[i \in first .. Len(s) + 1] ==
        IF i = first THEN {[kind |-> "dir", dir |-> Root, links |-> 0]}
        ELSE LET j == CHOOSE k \in first .. i - 1 : Slash(k) /\ \A l \in k + 1 .. i - 1 : ~Slash(l)
             IN  Enter(t, upTo[j], SubSeq(s, j + 1, i - 1), followed \/ i <= Len(s))
      found == IF Len(s) > PathMax THEN {} ELSE upTo[Len(s) + 1]
  IN  IF found = {} THEN None ELSE CHOOSE d \in found : TRUE

Lookup(s, followed) == LookupIn(tree, base, s, followed)

\* A server lists the types with the names, and is only asked about links
\* that are to be followed.
IsAsked(d, name) == ~remote \/ (follow /\ tree[d][name].kind = "link")

\* What the walk takes the entry at path s for.
Seen(d, name, s) == IF IsAsked(d, name) THEN Lookup(s, follow).kind ELSE tree[d][name].kind

-----------------------------------------------------------------------------
Goto(l) == pc' = l
Keep == UNCHANGED <<given, off, frames, items, item, failures>>

WalkInit ==
  /\ tree \in Trees /\ base \in BasePaths /\ ignored \in IgnoreLists
  /\ remote \in BOOLEAN /\ follow \in BOOLEAN
  /\ capacity \in Capacities /\ size = 0 /\ outside = FALSE
  /\ data = Copy([k \in 0 .. capacity - 1 |-> Junk], 0, <<Nul>>)
  /\ pc = "base" /\ off = 0 /\ frames = <<>> /\ items = {} /\ item = <<>> /\ failures = 0

\* iterate_directory.
Begin == pc = "base" /\ AppendEx(base) /\ Goto("slash") /\ Keep

AddSlash ==
  /\ pc = "slash" /\ Goto("open")
  /\ IF data[size - 1] = "/" THEN UNCHANGED vars ELSE PushBack("/")
  /\ off' = size' /\ UNCHANGED <<given, frames, items, item, failures>>

\* A call that might have succeeded fails.
OtherFailure == failures < MaxFailures /\ failures' = failures + 1

Depth == Len(frames)

\* Mutant: the call is repeated until it succeeds.
OpenRetries ==
  /\ pc = "open" /\ UNCHANGED <<vars, given, off, items, item>>
  /\ LET d == Lookup(Contents, TRUE)
     IN  \/ /\ d.dir \in DOMAIN tree /\ Goto("read") /\ UNCHANGED failures
            /\ frames' = Append(frames, [off |-> size, dir |-> d.dir, left |-> DOMAIN tree[d.dir]])
         \/ d.dir \notin DOMAIN tree /\ UNCHANGED <<pc, frames, failures>>

\* opendir.  When it fails nothing is said, and the walk goes on elsewhere.
Open ==
  /\ pc = "open" /\ UNCHANGED <<vars, given, off, items, item>>
  /\ LET d == Lookup(Contents, TRUE)
     IN  \/ /\ d.dir \in DOMAIN tree /\ Goto("read") /\ UNCHANGED failures
            /\ frames' = Append(frames, [off |-> size, dir |-> d.dir, left |-> DOMAIN tree[d.dir]])
         \/ /\ Goto(IF Depth = 0 THEN "sort" ELSE "cut") /\ UNCHANGED frames
            /\ IF d.dir \in DOMAIN tree THEN OtherFailure ELSE UNCHANGED failures

\* Mutant: all names with a dot in front are skipped.
IsVisible(name) == name[1] # "."

IsValidName(name) == name \notin {Dot, DotDot}

Taken(name) == [frames EXCEPT ![Depth].left = @ \ {name}]

\* readdir, and the path of the entry.
Read(name) ==
  /\ pc = "read" /\ name \in frames[Depth].left /\ frames' = Taken(name)
  /\ IF IsValidName(name) THEN AppendEx(name) /\ Goto("stat") ELSE UNCHANGED <<vars, pc>>
  /\ UNCHANGED <<given, off, items, item, failures>>

\* closedir, and the return into the loop that called.
CloseDir ==
  /\ pc = "read" /\ IF frames[Depth].left = {} THEN UNCHANGED failures ELSE OtherFailure
  /\ frames' = Front(frames) /\ Goto(IF Depth = 1 THEN "sort" ELSE "cut")
  /\ UNCHANGED <<vars, given, off, items, item>>

\* The path from offset o on.
From(o) == SubSeq(Contents, o + 1, size)

\* The item is listed unless it is ignored.
ListIt == items' = IF From(off) \in ignored THEN items ELSE items \cup {From(off)}

Stat ==
  /\ pc = "stat" /\ UNCHANGED <<given, off, frames, item>>
  /\ LET name == From(frames[Depth].off)
         kind == Seen(frames[Depth].dir, name, Contents)
     IN  \/ kind = "dir" /\ PushBack("/") /\ Goto("directory") /\ UNCHANGED <<items, failures>>
         \/ kind \notin {"dir", "none"} /\ ListIt /\ Goto("cut") /\ UNCHANGED <<vars, failures>>
         \/ /\ Goto("cut") /\ UNCHANGED <<vars, items>>
            /\ \/ kind = "none" /\ UNCHANGED failures
               \/ kind # "none" /\ IsAsked(frames[Depth].dir, name) /\ OtherFailure

ListDirectory ==
  /\ pc = "directory" /\ ListIt
  /\ Goto(IF From(off) \in ignored THEN "cut" ELSE "open")
  /\ UNCHANGED <<vars, given, off, frames, item, failures>>

\* Mutant: one character too many is kept.
BackToSlash == EraseAfter(IF size > frames[Depth].off THEN frames[Depth].off + 1 ELSE size)

CutPath == EraseAfter(frames[Depth].off)

Cut == pc = "cut" /\ CutPath /\ Goto("read") /\ Keep

\* The buffer of iterate_directory_setextra.
NewBuffer ==
  /\ pc = "sort" /\ Goto("dest")
  /\ capacity' \in Capacities /\ size' = 0 /\ UNCHANGED outside
  /\ data' = Copy([k \in 0 .. capacity' - 1 |-> Junk], 0, <<Nul>>)
  /\ UNCHANGED <<given, off, frames, items, item, failures>>

OtherSide == pc = "dest" /\ AppendEx(Dest) /\ Goto("dest slash") /\ Keep

OtherSlash ==
  /\ pc = "dest slash" /\ PushBack("/") /\ off' = size' /\ Goto("next")
  /\ UNCHANGED <<given, frames, items, item, failures>>

\* strcmp: whether s comes before t.
Before(s, t) ==
  \/ IsStrictPrefix(s, t)
  \/ \E i \in DOMAIN s \cap DOMAIN t :
       Code[s[i]] < Code[t[i]] /\ \A j \in 1 .. i - 1 : s[j] = t[j]

\* Mutant: the name is put behind the one before.
AppendName(s) == AppendEx(s)

PutName(s) == AssignAt(off, s)

\* The next item in the order of xlist_msort, whose name is put behind the
\* path of the other side for the stat.
NextItem ==
  /\ pc = "next" /\ items # {} /\ item' \in items
  /\ \A s \in items : ~Before(s, item')
  /\ items' = items \ {item'} /\ PutName(item') /\ Goto("ask")
  /\ UNCHANGED <<given, off, frames, failures>>

Ask == pc = "ask" /\ Goto("next") /\ UNCHANGED vars /\ Keep

LastItem == pc = "next" /\ items = {} /\ Goto("done") /\ UNCHANGED vars /\ Keep

WalkStep ==
  \/ Begin \/ AddSlash \/ Open \/ CloseDir \/ Stat \/ ListDirectory \/ Cut
  \/ (pc = "read" /\ \E name \in frames[Depth].left : Read(name))
  \/ NewBuffer \/ OtherSide \/ OtherSlash \/ NextItem \/ Ask \/ LastItem

Done == pc = "done" /\ UNCHANGED wvars

WalkNext == WalkStep \/ Done

WalkSpec == WalkInit /\ [][WalkNext]_wvars /\ WF_wvars(WalkStep)

-----------------------------------------------------------------------------
(***************************************************************************)
(* Whenever the walk asks for the next entry, the path buffer leads to the *)
(* directory that is being read, however many directories below it were    *)
(* walked, left out or failed to open.                                     *)
(***************************************************************************)
PathIsDirectoryRead ==
  pc = "read" =>
    /\ Contents[size] = "/" /\ size = frames[Depth].off
    /\ Lookup(Contents, TRUE).dir = frames[Depth].dir /\ frames[Depth].dir \in DOMAIN tree

\* The path of the relative path r, and whether that is one of a directory.
FullPath(r) == base \o (IF base[Len(base)] = "/" THEN <<>> ELSE <<"/">>) \o r
LeadsOn(r) == r = <<>> \/ r[Len(r)] = "/"

\* What is listed of the entry of that name in directory d, whose path is r.
Entry(d, r, name) ==
  LET kind == Seen(d, name, FullPath(r \o name))
  IN  (IF kind = "none" THEN {}
       ELSE {IF kind = "dir" THEN r \o name \o <<"/">> ELSE r \o name}) \ ignored

Entries(r) ==
  LET d == Lookup(FullPath(r), TRUE)
  IN  IF d.kind # "dir" THEN {}
      ELSE UNION {Entry(d.dir, r, name) : name \in DOMAIN tree[d.dir] \ {Dot, DotDot}}

\* The paths of at most k names that lead from the first directory to
\* something, as far as nothing above it is ignored.  Each name adds to the
\* length of a path that leads further.
Within[k \in 0 .. PathMax] ==
  IF k = 0 THEN {<<>>}
  ELSE LET above == Within[k - 1] IN above \cup UNION {Entries(r) : r \in {s \in above : LeadsOn(s)}}

Reachable == Within[PathMax] \ {<<>>}

(***************************************************************************)
(* The items are exactly what can be reached, through links as well if     *)
(* they are followed, without passing an ignored directory; a call that    *)
(* fails only leaves out the entry, or what is below it.                   *)
(***************************************************************************)
ListsReachable ==
  pc = "sort" => items \subseteq Reachable /\ (failures = 0 => items = Reachable)

(***************************************************************************)
(* The loop over the items asks the other side for the very name of each,  *)
(* whatever was in the buffer for longer or shorter ones before.           *)
(***************************************************************************)
AskedByName == pc = "ask" => Contents = Dest \o <<"/">> \o item

\* The walk ends, also with links that lead back to a directory above them.
Ends == <>(pc = "done")
=============================================================================
