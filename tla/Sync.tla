-------------------------------- MODULE Sync --------------------------------
(***************************************************************************)
(* Runs of the program over one configuration: process_config (main.c)     *)
(* walks the source tree, asks for the state of every item at the          *)
(* destination, decides which ones are newer and copies those (match.c,    *)
(* do_updown).  Between any two of its calls other users may change either *)
(* tree, time may pass, any call may fail and the program may be killed.   *)
(* A transfer is reduced here to the changes of the destination that can   *)
(* be seen from outside; module Transfer has its library calls.            *)
(***************************************************************************)
EXTENDS Integers, FiniteSets

CONSTANTS
  N,           \* number of names below the two base directories
  Parent,      \* the directory a name is in: a smaller name, or Base
  Above,       \* all the directories on the path to a name
  Kinds,       \* the file types other users give a name
  IgnoreLists, \* what a configuration's ignore_files may match: sets of names
  Directions,  \* the values of -r used: FALSE uploads, TRUE downloads
  Skew,        \* the server's clock minus the local one
  TimeWrap,    \* number of values of an mtime in the SFTP protocol, 2^32
  FirstTime,   \* earliest mtime of a file
  StartTime,   \* the time of the first run
  MaxTime,     \* bound: last time a file changes
  MaxRuns,     \* bound: number of runs
  MaxEdits     \* bound: number of changes made by other users

(***************************************************************************)
(* Names are numbered in the order strcmp gives them.  The name of a       *)
(* directory is a prefix of the names below it, so it comes before them.   *)
(***************************************************************************)
Base == 0
Path == 1 .. N

ASSUME NamesAssumption ==
  /\ N \in Nat
  /\ Parent \in [Path -> Path \cup {Base}]
  /\ \A p \in Path :
       /\ Above[p] \subseteq 1 .. p - 1
       /\ Above[p] = IF Parent[p] = Base THEN {} ELSE {Parent[p]} \cup Above[Parent[p]]
  /\ Kinds \in [Path -> SUBSET {"REG", "DIR", "LNK", "OTHER"}]
  /\ IgnoreLists \subseteq SUBSET Path
  /\ Directions \subseteq BOOLEAN

ASSUME TimesAssumption ==
  /\ Skew \in Int /\ TimeWrap \in Nat
  /\ FirstTime \in Int /\ StartTime \in Int /\ MaxTime \in Int
  /\ FirstTime <= StartTime /\ StartTime <= MaxTime
  /\ MaxRuns \in Nat /\ MaxEdits \in Nat

VARIABLES
  base,     \* the type of each side's base directory
  tree,     \* what each side holds under each name
  now,      \* the local time
  run,      \* the options of the run; the names its configuration ignores
  pc,       \* where process_config stands
  listed,   \* the file_item_t of each name
  todo,     \* the names the current loop has not come to
  opened,   \* the directories of the source whose opendir succeeded
  torn,     \* whether the file being copied changed since it was opened or read
  runs, edits,  \* number of runs, of changes by other users
  failed,   \* history: names (or Base) for which a call of this run failed
  stale,    \* history: names changed at the destination since their stat
  calm,     \* history: whether no other user changed anything in this run
  cause,    \* history: what may have made a side's copy of a name differ
  settled   \* history: the direction of a complete run nothing followed

world == <<base, tree>>
bounds == <<now, runs, edits>>
history == <<stale, calm, cause, settled>>
vars == <<world, bounds, run, pc, listed, todo, opened, torn, failed, history>>

Side == {"local", "remote"}
Other(s) == IF s = "local" THEN "remote" ELSE "local"
Ignored == run.ignored
Src == IF run.reverse THEN "remote" ELSE "local"
Dst == Other(Src)
Clock(s) == IF s = "remote" THEN now + Skew ELSE now

(***************************************************************************)
(* Files.  A version stands for contents or a link target; Partial is what *)
(* a transfer leaves when it ends early or its source changes under it.    *)
(***************************************************************************)
Types == {"NONE", "REG", "DIR", "LNK", "OTHER"}
Partial == 0
Entry == [type : Types, ver : Nat, mtime : Int]
File(t, v, m) == [type |-> t, ver |-> v, mtime |-> m]
Absent == File("NONE", Partial, 0)
Directory == File("DIR", Partial, 0)
Made(s, t, v) == IF t = "DIR" THEN Directory ELSE File(t, v, Clock(s))

InDirectory(s, p) ==
  IF Parent[p] = Base THEN base[s] = "DIR" ELSE tree[s][Parent[p]].type = "DIR"

\* Whether something on the path to the name exists and is not a directory.
Blocked(s, p) ==
  base[s] = "OTHER" \/ \E q \in Above[p] : tree[s][q].type \notin {"NONE", "DIR"}

ItemType == [type : Types, mtime : Int, newer : BOOLEAN, exist : BOOLEAN]
Item(t, m) == [type |-> t, mtime |-> m, newer |-> FALSE, exist |-> FALSE]
NoItem == Item("NONE", 0)

Items == {p \in Path : listed[p].type # "NONE"}
IsFirst(p, S) == p \in S /\ \A q \in S : p <= q

\* The protocol carries an mtime as 32 bits without sign.
Seen(s, t) == IF s = "remote" /\ t < 0 THEN t + TimeWrap ELSE t

\* Mutant: files of the same second are taken for newer ones.
NotOlder(d, m) == (Dst = "remote" /\ m < 0) \/ d <= m

\* Mutant: a margin of two seconds, as for file systems with coarse times.
NewerByAMargin(d, m) == (Dst = "remote" /\ m < 0) \/ d + 2 < m

\* Whether an item with mtime m is newer than a destination with mtime d.  An
\* upload compares d, an unsigned long, with m: a negative m becomes huge.
Newer(d, m) == (Dst = "remote" /\ m < 0) \/ d < m

\* Whether a run in the direction of this one would now find the source newer.
Older(p) ==
  Newer(Seen(Dst, tree[Dst][p].mtime), Seen(Src, tree[Src][p].mtime))

-----------------------------------------------------------------------------
(* The start: the sides hold files of any age, the same ones or others.    *)
Existing(p, vs) ==
  {Absent} \cup (IF "DIR" \in Kinds[p] THEN {Directory} ELSE {})
    \cup {File(t, v, m) : t \in Kinds[p] \ {"DIR"}, v \in vs,
                          m \in {FirstTime, StartTime}}

Init ==
  /\ base \in [Side -> {"NONE", "DIR", "OTHER"}]
  /\ \E l, r \in [Path -> UNION {Existing(p, {1, 2}) : p \in Path}] :
       /\ \A p \in Path : l[p] \in Existing(p, {1}) /\ r[p] \in Existing(p, {1, 2})
       /\ tree = [s \in Side |-> IF s = "local" THEN l ELSE r]
  /\ \A s \in Side, p \in Path : tree[s][p] # Absent =>
       base[s] = "DIR" /\ \A q \in Above[p] : tree[s][q].type = "DIR"
  /\ now = StartTime /\ runs = 0 /\ edits = 0
  /\ \E I \in IgnoreLists :
       run = [reverse |-> FALSE, action |-> "list", prompt |-> FALSE, ignored |-> I]
  /\ pc = "idle"
  /\ listed = [p \in Path |-> NoItem]
  /\ todo = {} /\ opened = {} /\ torn = FALSE /\ failed = {}
  /\ stale = {} /\ calm = FALSE /\ settled = "none"
  /\ cause = [s \in Side |-> [p \in Path |->
                IF tree[s][p] = Absent THEN {} ELSE {"foreign"}]]

\* Go to the next point of process_config with the names S to come.
Goto(l, S) == pc' = l /\ todo' = S
Fails(p) == failed' = failed \cup {p}
Quiet == UNCHANGED <<world, bounds, run>>

-----------------------------------------------------------------------------
(* process_config: the session, the walk, the state of the destination.    *)
Start ==
  /\ pc = "idle" /\ runs < MaxRuns
  /\ \E r \in Directions, a \in {"list", "updown"}, y \in BOOLEAN :
       run' = [reverse |-> r, action |-> a, prompt |-> y, ignored |-> run.ignored]
  /\ runs' = runs + 1 /\ Goto("connect", {})
  /\ stale' = {} /\ calm' = TRUE /\ failed' = {}
  /\ UNCHANGED <<world, now, edits, listed, opened, torn, cause, settled>>

\* ssh_session_open, sftp_session_new, and opendir on the base directory.
Connect ==
  /\ pc = "connect"
  /\ \/ Goto("idle", {}) /\ UNCHANGED <<opened, failed>>
     \/ /\ Goto("walk", Path)
        /\ \/ base[Src] = "DIR" /\ opened' = {Base} /\ UNCHANGED failed
           \/ opened' = {} /\ Fails(Base)
  /\ Quiet /\ UNCHANGED <<listed, torn, history>>

\* Mutant: the names in an ignored directory are still walked.
WalkedInto(p) == Parent[p] \in opened \/ Parent[p] \in Ignored

\* Whether the walk comes across the name p.
Walked(p) == Parent[p] \in opened

(* readdir comes to p: it is listed unless ignored or its stat fails, and   *)
(* a directory is opened at once.                                          *)
Visit(p) ==
  /\ pc = "walk" /\ p \in todo /\ Parent[p] \notin todo
  /\ todo' = todo \ {p}
  /\ \/ /\ ~Walked(p) \/ tree[Src][p] = Absent \/ p \in Ignored
        /\ UNCHANGED <<listed, opened, failed>>
     \/ /\ Walked(p) /\ p \notin Ignored /\ tree[Src][p] # Absent
        /\ \/ Fails(p) /\ UNCHANGED <<listed, opened>>
           \/ LET e == tree[Src][p] IN
              /\ listed' = [listed EXCEPT ![p] = Item(e.type, Seen(Src, e.mtime))]
              /\ \/ e.type = "DIR" /\ opened' = opened \cup {p} /\ UNCHANGED failed
                 \/ e.type = "DIR" /\ UNCHANGED opened /\ Fails(p)
                 \/ e.type # "DIR" /\ UNCHANGED <<opened, failed>>
  /\ Quiet /\ UNCHANGED <<pc, torn, history>>

\* xlist_msort: from here on the items come in the order of their names.
Sort ==
  /\ pc = "walk" /\ todo = {}
  /\ Goto("extra", Items)
  /\ Quiet /\ UNCHANGED <<listed, opened, torn, failed, history>>

\* The server answers ENOTDIR with NO_SUCH_FILE or with another error.
NotDir(s, p) ==
  \/ Blocked(s, p)
  \/ listed[p].type = "DIR" /\ tree[s][p].type \notin {"NONE", "DIR"}

StatAbsent(p) ==
  \/ ~NotDir(Dst, p) /\ tree[Dst][p] = Absent
  \/ NotDir(Dst, p) /\ Dst = "remote"

Extra(p, newer, exist) ==
  listed' = [listed EXCEPT ![p] = [type |-> @.type, mtime |-> @.mtime,
                                   newer |-> newer, exist |-> exist]]

\* iterate_directory_setextra: stat the destination of the next item.  The
\* age of a directory is not modelled: it may be found newer or not.
SetExtra(p) ==
  /\ pc = "extra" /\ IsFirst(p, todo)
  /\ todo' = todo \ {p} /\ stale' = stale \ {p}
  /\ \/ Extra(p, FALSE, FALSE) /\ Fails(p)
     \/ StatAbsent(p) /\ Extra(p, TRUE, FALSE) /\ UNCHANGED failed
     \/ /\ ~NotDir(Dst, p) /\ tree[Dst][p] # Absent
        /\ \E n \in BOOLEAN :
             /\ listed[p].type # "DIR" =>
                  n = Newer(Seen(Dst, tree[Dst][p].mtime), listed[p].mtime)
             /\ Extra(p, tree[Dst][p].type = listed[p].type /\ n, TRUE)
        /\ UNCHANGED failed
  /\ Quiet /\ UNCHANGED <<pc, opened, torn, calm, cause, settled>>

-----------------------------------------------------------------------------
(* process_config: what is done with the items.                            *)

\* Mutant: get_ftype_str has no case for links.
FilesAndDirectories == {"REG", "DIR"}

Transferable == {"REG", "DIR", "LNK"}
Chosen(p) == listed[p].newer /\ listed[p].type \in Transferable

\* do_list prints; do_updown asks first, if told to and there is a need.
Act ==
  /\ pc = "extra" /\ todo = {}
  /\ LET ask == run.prompt /\ \E p \in Items : Chosen(p)
     IN  \/ run.action = "list" /\ Goto("close", {})
         \/ run.action = "updown" /\ ask /\ Goto("prompt", {})
         \/ run.action = "updown" /\ ~ask /\ Goto("base", {})
  /\ Quiet /\ UNCHANGED <<listed, opened, torn, failed, history>>

\* Any answer but y, the end of the input included, ends the run.
Answer ==
  /\ pc = "prompt"
  /\ Goto("base", {}) \/ Goto("close", {})
  /\ Quiet /\ UNCHANGED <<listed, opened, torn, failed, history>>

\* check_local_dir and check_remote_dir, which create the base directory.
CheckBase ==
  /\ pc = "base"
  /\ \/ base[Dst] = "DIR" /\ Goto("item", Items) /\ UNCHANGED base
     \/ /\ base[Dst] = "NONE" /\ Goto("item", Items)
        /\ base' = [base EXCEPT ![Dst] = "DIR"]
     \/ Goto("close", {}) /\ UNCHANGED base
  /\ UNCHANGED <<tree, bounds, run, listed, opened, torn, failed, history>>

\* The destination's entry for p becomes e.
Store(p, e) == tree' = [tree EXCEPT ![Dst][p] = e] /\ UNCHANGED base

\* Nothing is known any more of why the two sides might differ in p.
Forget(p) == cause' = [s \in Side |-> [cause[s] EXCEPT ![p] = {}]]
Blame(p, why) == cause' = [s \in Side |-> [cause[s] EXCEPT ![p] = @ \cup {why}]]

\* Mutant: the items are handled from the last one to the first.
Last(p) == p \in todo /\ \A q \in todo : q <= p

\* The item the loop of do_updown has come to.
Turn(p) == IsFirst(p, todo)
AtItem(p) == pc = "item" /\ Turn(p)

\* Mutant: the loop does not advance past an item it ignores.
SkipAgain(p) ==
  /\ AtItem(p) /\ ~Chosen(p) /\ pc' = "item" /\ UNCHANGED todo
  /\ Quiet /\ UNCHANGED <<listed, opened, torn, failed, history>>

Skip(p) ==
  /\ AtItem(p) /\ ~Chosen(p) /\ todo' = todo \ {p}
  /\ Quiet /\ UNCHANGED <<pc, listed, opened, torn, failed, history>>

\* The transfer of an item fails before it changed anything.
TransferFails(p) ==
  /\ AtItem(p) /\ Chosen(p) /\ todo' = todo \ {p}
  /\ ~(listed[p].type = "DIR" /\ listed[p].exist)
  /\ Fails(p)
  /\ Quiet /\ UNCHANGED <<pc, listed, opened, torn, history>>

MakeDirectory(p) ==
  /\ AtItem(p) /\ Chosen(p) /\ listed[p].type = "DIR" /\ todo' = todo \ {p}
  /\ \/ listed[p].exist /\ UNCHANGED world
     \/ /\ ~listed[p].exist /\ InDirectory(Dst, p) /\ tree[Dst][p] = Absent
        /\ Store(p, Directory)
  /\ UNCHANGED <<bounds, run, pc, listed, opened, torn, failed, history>>

\* A link: the old one is removed before the new one can be made.
UnlinkOld(p) ==
  /\ AtItem(p) /\ Chosen(p) /\ listed[p].type = "LNK" /\ pc' = "link"
  /\ \/ /\ listed[p].exist /\ tree[Dst][p].type \notin {"NONE", "DIR"}
        /\ Store(p, Absent)
     \/ ~listed[p].exist /\ UNCHANGED world
  /\ UNCHANGED <<bounds, run, todo, listed, opened, torn, failed, history>>

ReadLink(p) ==
  /\ pc = "link" /\ Turn(p)
  /\ \/ tree[Src][p].type = "LNK" /\ pc' = "symlink" /\ UNCHANGED <<todo, failed>>
     \/ Goto("item", todo \ {p}) /\ Fails(p)
  /\ torn' = FALSE
  /\ Quiet /\ UNCHANGED <<listed, opened, history>>

\* A link that was changed after it was read is made as it was before.
MakeLink(p) ==
  /\ pc = "symlink" /\ Turn(p) /\ Goto("item", todo \ {p})
  /\ \/ /\ InDirectory(Dst, p) /\ tree[Dst][p] = Absent /\ UNCHANGED failed
        /\ Store(p, Made(Dst, "LNK", IF torn THEN Partial ELSE tree[Src][p].ver))
        /\ IF torn THEN Blame(p, "raced") ELSE Forget(p)
     \/ UNCHANGED <<world, cause>> /\ Fails(p)
  /\ UNCHANGED <<bounds, run, listed, opened, torn, stale, calm, settled>>

\* A regular file: the destination is truncated before the copy.
OpenFile(p) ==
  /\ AtItem(p) /\ Chosen(p) /\ listed[p].type = "REG" /\ pc' = "copy"
  /\ InDirectory(Dst, p) /\ tree[Dst][p].type \in {"NONE", "REG"}
  /\ Store(p, Made(Dst, "REG", Partial)) /\ torn' = FALSE
  /\ UNCHANGED <<bounds, run, todo, listed, opened, failed, history>>

\* The destination keeps the mtime it has or gets that of a last write.
Written(p, v) ==
  \E m \in {tree[Dst][p].mtime, Clock(Dst)} : Store(p, File("REG", v, m))

\* A source that changed while it was read may give a mixture, one that was
\* removed gives what it was.
CopyEnds(p) ==
  /\ pc = "copy" /\ Turn(p) /\ Goto("item", todo \ {p})
  /\ \/ tree[Src][p].type = "REG" /\ Written(p, tree[Src][p].ver)
     \/ torn /\ Written(p, Partial)
  /\ IF torn THEN Blame(p, "raced") ELSE Forget(p)
  /\ UNCHANGED <<bounds, run, listed, opened, torn, failed, stale, calm, settled>>

\* The copy stops early; the result of the transfer is not looked at.
CopyFails(p) ==
  /\ pc = "copy" /\ Turn(p) /\ Goto("item", todo \ {p})
  /\ Written(p, Partial) /\ Fails(p) /\ Blame(p, "failed")
  /\ UNCHANGED <<bounds, run, listed, opened, torn, stale, calm, settled>>

LoopEnds ==
  /\ pc = "item" /\ todo = {} /\ Goto("close", {})
  /\ settled' = IF calm /\ failed = {}
                  THEN IF run.reverse THEN "down" ELSE "up" ELSE "none"
  /\ Quiet /\ UNCHANGED <<listed, opened, torn, failed, stale, calm, cause>>

\* iterate_directory_free, sftp_session_free, ssh_session_close.
Close ==
  /\ pc = "close" /\ Goto("idle", {})
  /\ listed' = [p \in Path |-> NoItem] /\ opened' = {} /\ torn' = FALSE
  /\ Quiet /\ UNCHANGED <<failed, history>>

\* A signal, or the division by zero of module Transfer, ends the program.
Killed ==
  /\ pc # "idle" /\ Goto("idle", {})
  /\ listed' = [p \in Path |-> NoItem] /\ opened' = {} /\ torn' = FALSE
  /\ settled' = "none"
  /\ \/ pc = "copy" /\ \E p \in todo : Turn(p) /\ Blame(p, "failed")
     \/ pc # "copy" /\ UNCHANGED cause
  /\ Quiet /\ UNCHANGED <<failed, stale, calm>>

-----------------------------------------------------------------------------
(* Other users and the clock.                                              *)
Empty(s, p) == \A q \in Path : p \in Above[q] => tree[s][q] = Absent

\* The file being written is left alone.
Edit(s, p) ==
  /\ edits < MaxEdits /\ edits' = edits + 1
  /\ ~(pc = "copy" /\ s = Dst /\ Turn(p))
  /\ \E t \in Kinds[p] \cup {"NONE"} :
       /\ t = "NONE" => tree[s][p] # Absent /\ Empty(s, p)
       /\ t = "DIR" => tree[s][p] = Absent
       /\ t # "NONE" => InDirectory(s, p) /\ tree[s][p].type \in {"NONE", t}
       /\ tree' = [tree EXCEPT ![s][p] =
                     IF t = "NONE" THEN Absent ELSE Made(s, t, edits + 3)]
  /\ torn' = (torn \/ (pc \in {"copy", "symlink"} /\ s = Src /\ Turn(p)))
  /\ stale' = IF s = Dst THEN stale \cup {p} ELSE stale
  /\ calm' = FALSE /\ settled' = "none"
  /\ LET o == Other(s)
         recent == IF tree[o][p].mtime >= Clock(o) THEN {"as recent"} ELSE {}
     IN  cause' = [cause EXCEPT ![s][p] = @ \cup {"foreign"}, ![o][p] = @ \cup recent]
  /\ UNCHANGED <<base, now, runs, run, pc, listed, todo, opened, failed>>

Tick ==
  /\ now < MaxTime /\ now' = now + 1
  /\ UNCHANGED <<world, runs, edits, run, pc, listed, todo, opened, torn,
                 failed, history>>

Finished == pc = "idle" /\ runs = MaxRuns /\ UNCHANGED vars

-----------------------------------------------------------------------------
Transfer(p) ==
  \/ Skip(p) \/ TransferFails(p) \/ MakeDirectory(p)
  \/ UnlinkOld(p) \/ ReadLink(p) \/ MakeLink(p)
  \/ OpenFile(p) \/ CopyEnds(p) \/ CopyFails(p)

\* The steps of process_config, once the program has been started.
Proceed ==
  \/ Connect \/ Sort \/ Act \/ Answer \/ CheckBase \/ LoopEnds \/ Close
  \/ \E p \in Path : Visit(p) \/ SetExtra(p) \/ Transfer(p)

Next ==
  \/ Start \/ Proceed \/ Killed \/ Tick \/ Finished
  \/ \E s \in Side, p \in Path : Edit(s, p)

\* Calls return and the user answers; nobody has to start the program.
Spec == Init /\ [][Next]_vars /\ WF_vars(Proceed)

-----------------------------------------------------------------------------
TypeOK ==
  /\ base \in [Side -> {"NONE", "DIR", "OTHER"}]
  /\ tree \in [Side -> [Path -> Entry]]
  /\ now \in Int /\ runs \in 0 .. MaxRuns /\ edits \in 0 .. MaxEdits
  /\ run \in [reverse : BOOLEAN, action : {"list", "updown"}, prompt : BOOLEAN,
              ignored : SUBSET Path]
  /\ pc \in {"idle", "connect", "walk", "extra", "prompt", "base", "item",
             "link", "symlink", "copy", "close"}
  /\ listed \in [Path -> ItemType]
  /\ todo \subseteq Path /\ opened \subseteq Path \cup {Base}
  /\ torn \in BOOLEAN /\ failed \subseteq Path \cup {Base}
  /\ stale \subseteq Path /\ calm \in BOOLEAN
  /\ cause \in [Side -> [Path ->
                  SUBSET {"foreign", "failed", "raced", "as recent"}]]
  /\ settled \in {"none", "up", "down"}

(***************************************************************************)
(* A run never overwrites or removes a file that is not older than the     *)
(* listed one, or of another type, if it was not changed by somebody else  *)
(* since its stat: neither of the two loops between the stat and the       *)
(* transfer, the question in between nor the creation of the base          *)
(* directory mixes up the items.  The exception is an upload of a file     *)
(* dated before 1970, which counts as newer than anything.                 *)
(***************************************************************************)
NewerKept ==
  [][\A p \in Path \ stale :
       LET d == tree[Dst][p] IN
       edits' = edits /\ pc = "item" /\ d # Absent /\ tree'[Dst][p] # d =>
         /\ d.type = listed[p].type
         /\ d.mtime < listed[p].mtime \/ (Dst = "remote" /\ listed[p].mtime < 0)]_vars

\* The names that match a pattern and the names in directories that do.
Excluded == {p \in Path : ({p} \cup Above[p]) \cap Ignored # {}}

(***************************************************************************)
(* The program never changes the source, nor a name that is ignored or in  *)
(* an ignored directory: patterns are only matched during the walk, and    *)
(* pruning there must hold for both loops that follow.                     *)
(***************************************************************************)
SourceAndIgnoredUntouched ==
  [][edits' = edits =>
       \A s \in Side, p \in Path :
         tree'[s][p] # tree[s][p] => s = Dst /\ p \notin Excluded]_vars

(***************************************************************************)
(* The directory of an item to be copied has been dealt with before the    *)
(* item: it is there unless creating it failed in this run, its stat gave  *)
(* no reason to create it, or somebody else changed it since.              *)
(***************************************************************************)
DirectoryBeforeContents ==
  \A p \in Path :
    /\ AtItem(p) /\ Chosen(p) /\ Parent[p] # Base
    /\ listed[Parent[p]].newer /\ Parent[p] \notin failed \cup stale
    => InDirectory(Dst, p)

Same(p) ==
  /\ tree[Dst][p].type = tree[Src][p].type
  /\ tree[Dst][p].ver = tree[Src][p].ver

(***************************************************************************)
(* A run in which nothing failed and nobody else changed anything leaves   *)
(* every file of the source at the destination, except the ignored ones,   *)
(* and those where it found something newer or of another type.            *)
(***************************************************************************)
CleanRunConverges ==
  pc = "item" /\ todo = {} /\ calm /\ failed = {} =>
    \A p \in Path :
      /\ tree[Src][p].type \in {"REG", "DIR", "LNK"}
      /\ p \notin Excluded /\ ~Blocked(Dst, p)
      => \/ Same(p)
         \/ tree[Dst][p].type \notin {"NONE", tree[Src][p].type}
         \/ tree[Dst][p].type = tree[Src][p].type /\ ~listed[p].newer

\* The clock of the side written to is not behind the other one.
ClockNotBehind == IF run.reverse THEN Skew <= 0 ELSE Skew >= 0

(***************************************************************************)
(* A second run in the same direction, when nothing was changed since the  *)
(* first and nothing failed in it, finds no file to transfer but those     *)
(* dated before 1970: from the server too they seem newer than anything.   *)
(***************************************************************************)
SecondRunIdle ==
  /\ pc \in {"prompt", "base", "item"} /\ ClockNotBehind
  /\ settled = (IF run.reverse THEN "down" ELSE "up")
  => \A p \in Items : Chosen(p) => listed[p].type = "DIR" \/ tree[Src][p].mtime < 0

(***************************************************************************)
(* Two files that differ are found to differ by the next run, unless: the  *)
(* one at the destination was written by somebody else, a transfer of it   *)
(* failed or raced with a change of its source, the source changed while   *)
(* the clock of the other side had not passed the date of the copy there   *)
(* (so within the second of a transfer), the destination's clock is ahead, *)
(* or the server holds a file dated before 1970, which none seems newer    *)
(* than.                                                                   *)
(***************************************************************************)
StuckOnlyWithCause ==
  \A p \in Path :
    /\ tree[Src][p].type \in {"REG", "LNK"} /\ tree[Dst][p].type = tree[Src][p].type
    /\ ~Same(p)
    /\ ~(pc = "copy" /\ Turn(p)) /\ ~Older(p)
    => \/ cause[Dst][p] # {} \/ (IF run.reverse THEN Skew < 0 ELSE Skew > 0)
       \/ Dst = "remote" /\ tree[Dst][p].mtime < 0

\* A run that was started comes to its end.
RunEnds == (pc # "idle") ~> (pc = "idle")
=============================================================================
