# A verification of sshul

sshul (version 2.0.0, C, one thread) uploads a local directory to a server, or
downloads it, over SFTP (libssh2): it walks the source, looks at the
destination, and copies what is missing there or older. The modules in this
directory model the program's POSIX build; TLC checks them on small instances
and TLAPS proves the most important properties for all values of the constants.

Source lines below are those of the commit in `src/`.

## The system

| component | source | state it keeps | operations |
|---|---|---|---|
| program | `main.c` | options, label, list of configurations | parse options, load, change directory, loop, `-t` template |
| run over a configuration | `main.c` `process_config`, `match.c` | list of `file_item_t` (path, mode, mtime, size, is_newer, is_exist) | walk the source, sort, stat the destination, list, ask, make the base directory, transfer |
| walk of a tree | `match.c` 195-431 | one path buffer, one frame per open directory | open, read an entry, stat, list, go down, cut the path back; a name behind the other side's path |
| file transfer | `ssh_session.c` 136-352 | two handles, `generic_buf`, counters | send, receive a directory, a link, a regular file |
| SSH session | `ssh_session.c` 22-134 | socket, session, SFTP channel, the shared buffer | open, close |
| ignore patterns | `match.c` 14-135 | pointers into pattern and string | match |
| configuration loader | `config.c` | list of `config_t`, strings they own | read, set each key, destroy |
| linked list | `xlist.c`, `xlist.h` | circular doubly linked nodes | insert, erase, cut, paste, free a cut node, clear, sort |
| strings | `xstring.c`, `xstring.h` | buffer, size, capacity | append, assign at an offset, erase, ... |
| JSON parser | `json.c` (vendored) | tree of values, flags, two passes over the text | parse, allocate, free |

`main` loads the configurations (loader → JSON parser → list) and calls
`process_config` for each one with the label asked for. That opens a session,
builds the list of items by walking one side (matching every path against the
ignore patterns), sorts it, visits the other side for each item, and lists or
transfers the items in order. All of it is sequential; the transfers of all
sessions share one buffer. What is concurrent is the rest of the world: other
users change either tree at any time, two clocks date the files, every call may
fail, and the program may be killed.

What is hard here, and hardly tested by anything: decisions taken from a `stat`
and carried out much later (a question to the user is in between); what a
failed, killed or raced transfer leaves behind and whether the next run notices;
dates with the resolution of a second, from two clocks, one signed and one not;
handles, sessions and memory on error paths; the order in which directories and
their contents are made; a path that is built and cut in one buffer while trees
are walked; a parser whose second pass trusts the counts of its first; pointer
algorithms that work in place. `PROJECT.json` lists these hazards by line with the
properties for each.

What makes each component correct:

- run: nothing newer is overwritten, nothing outside the destination's listed
  names is touched, a directory precedes its contents, an undisturbed run makes
  the sides equal, a second one is idle, and a difference goes unnoticed only
  for known causes;
- walk: the buffer leads to the directory being read, the items are exactly what
  can be reached, the other side is asked for their names;
- transfer: no byte lost or repeated, 0 only after a complete copy, no handle
  left;
- session: everything released on every path, in the right order, the shared
  buffer usable, every configuration tried;
- patterns: the result the definition of the patterns gives, no access out of
  bounds, bounded time;
- loader: all or nothing, the last value of each key, no double free, no leak;
- list: an intact circle that implements a sequence; the sort relinks the same
  nodes in order and is balanced;
- parser: the second pass writes only what the first one made room for, the
  values are those of the grammar, all memory is freed once;
- strings: no write outside of the buffer, always terminated, the text as
  replaced.

## The modules

| module | models | checked by | proofs |
|---|---|---|---|
| `Sync` | `process_config` and `match.c` over several runs | `MCSync` | `SyncProofs` |
| `Walk` | `iterate_directory` and `iterate_directory_setextra` in their path buffer (extends `XString`) | `MCWalk` | `WalkProofs` |
| `Transfer` | `sftp_send_file`, `sftp_recv_file` | `MCTransfer` | `TransferProofs` |
| `CopySpec` | the transfer of one item as `Sync` knows it: what `Transfer` implements | `MCTransfer` | `TransferProofs` |
| `Session` | `main`, `ssh_session_open` and the rest of the session functions | itself | `ProgramProofs` |
| `GlobMatch` | `glob_match` | `MCGlobMatch` | `GlobMatchProofs` |
| `ConfigLoad` | `config.c` | `MCConfigLoad` | `ProgramProofs` |
| `XList` | the operations of `xlist.c` (extends `MergeSort`) | `MCXList` | `XListProofs` |
| `MergeSort` | `xlist_msort`, `_merge_list` | `MCXList` | `XListProofs` |
| `ListSpec` | a sequence of values: what `XList` implements | `MCXList` | `XListProofs` |
| `XString` | the buffer of `xstring.h` and `xstring.c` | `MCXString` | `WalkProofs` |
| `TextSpec` | a text of which parts are replaced: what `XString` implements | `MCXString` | `WalkProofs` |
| `JsonParse` | `json_parse_ex`, `new_value`, `json_value_free_ex` | `MCJsonText` | `JsonProofs` |
| `JsonText` | the grammar of the texts, the reference for `JsonParse` | `MCJsonText` | `JsonTextProofs` |

How they fit together. `Session`, `Sync`, `Walk` and `Transfer` show one
invocation at different grains. `Session` has the calls that acquire and
release; its `Walk`, `Act` and `Transfers` are what `Sync` models from `Visit`
to `LoopEnds`. `Sync` visits names and stats them; `Walk` is the same loop call
by call, with the buffer the names are built in, so that `Sync` may take paths
as names. The transfer of one item is in `Sync` a few changes of the destination
(`TransferFails`, `MakeDirectory`, `UnlinkOld`, `ReadLink`, `MakeLink`,
`OpenFile`, `CopyEnds`, `CopyFails`, with others' changes between any two of
them): `CopySpec` has these steps by the same names, for one item, and
`Transfer` is shown to implement it. `Sync` takes the names that the patterns of
its configuration match (by `GlobMatch`) as any of the sets in the constant
`IgnoreLists`, and the order of the items as that of the names (which `XList`'s
sort establishes). `ConfigLoad` takes the values that `JsonParse` makes of the
file as its input.

### Sync

Names are numbers in the order of `strcmp`; `Parent` and `Above` make them a
tree, and a directory's number is smaller than those below it because its path
(with the slash the walk appends) is a prefix of theirs. A file is a type, a
version (contents or link target; 0 is a partial copy) and an mtime. `listed` is
the list of `file_item_t`, `todo` the items the current loop has not come to,
`opened` the directories whose `opendir` worked.

| action | code |
|---|---|
| `Start` | `main`'s options |
| `Connect` | the session, and `opendir` of the base directory |
| `Visit` | one name found by `readdir`, in any order below its directory |
| `Sort` | `xlist_msort` at the end of `iterate_directory` |
| `SetExtra` | one round of `iterate_directory_setextra` |
| `Act`, `Answer` | the `switch` of `process_config`, the question of `do_updown` |
| `CheckBase` | `check_local_dir`, `check_remote_dir` |
| `Skip`, `TransferFails`, `MakeDirectory`, `UnlinkOld`, `ReadLink`, `MakeLink`, `OpenFile`, `CopyEnds`, `CopyFails` | one round of the loop of `do_updown`, the steps of `CopySpec` |
| `LoopEnds`, `Close` | the end of `do_updown` and of `process_config` |
| `Killed`, `Edit`, `Tick` | a signal; another user; time |

`failed`, `stale`, `calm`, `cause` and `settled` are history variables: they
only record what happened, for the properties. `stale` holds the names somebody
changed at the destination after their stat; `cause` holds, for each side's copy
of a file, what may have made it differ from the other side's without a run
noticing. `Newer` is the comparison of the code with its types: the protocol
carries an mtime in 32 unsigned bits (`Seen`, with `TimeWrap` for 2^32), and an
upload compares it with a `time_t`, which makes a negative one huge; in a
download the server's date has wrapped and is huge as well. The properties
therefore except the cases in which a file dated before 1970 is part of the
comparison, and only these. `torn` says that what is being copied changed since
it was opened or, for a link, read: the new link may then have the old target.

Not modelled: the mtime of a directory (a directory is found newer or not
arbitrarily; that transfers nothing if it exists); links to directories, so that
`follow_link` only decides the types names have; files somebody gives an older
date; changes by others to the very file being written, while it is written.

### Walk

The buffer is `XString`'s, with its size, capacity and moves; a character is a
letter, `.` or `/`. A tree is a tuple of directories, each a function from names
to files, directories and links (to a file, to nothing, or to a directory, also
one above); `LookupIn` is the system's resolution of a text, which refuses a
path with more than `MaxLinks` links or `PathMax` characters. One step per
call: `Begin`, `AddSlash`, then per directory `Open`, `Read` (any entry that is
left), `Stat`, `ListDirectory`, `CloseDir`, `Cut`; then `NewBuffer`,
`OtherSide`, `OtherSlash` and per item in `strcmp` order `NextItem` and `Ask`.
`frames` are the activations of the recursion: the length the path had, the
directory, the entries left. The remote side has its types from the listing and
asks again only for links that are followed (`IsAsked`). Each call may fail, up
to `MaxFailures` of them.

### Transfer and CopySpec

One call with any arguments `do_updown` may pass. `src` and `dst` are the files
(type, contents or target), `buf` what is in `generic_buf`, `got` everything
read so far, `open` the handles. Every library call is a step with its failures;
short reads and writes are arbitrary. `masked` records failures the C library
hides from the caller (a read error, `fclose`), `touched` that somebody else
changed a file, `torn` that the source changed since it was opened or read.

`CopySpec` has the two files and where the transfer stands, no handle, no buffer
and no call. The mapping: `Place` sends every call between the opening and the
last `close` to "copy", and the end to "done" if the call returned 0 and nothing
was masked, to "failed" otherwise, and a division by zero to "killed"; `Settled`
hides the destination's contents while they are written. `Implements` says that
every call of the library then changes the two files as one step of `CopySpec`
does or not at all, and that the transfer ends.

### Session

`call` is the next call, `SessionStep` the step of the program (this module's
names for `pc` and `Step`, so that `ProgramProofs` can extend it along with
`ConfigLoad`). `place` says where the file of configurations was found:
in no directory, in one, or in the root (whose name before the slash is empty,
so that the change of directory fails). `wanted` are the configurations with the
label asked for. `sockets` holds the configurations whose socket is open;
`session`, `channel`, `addresses`, `items` say what `process_config` holds and
`buffer` what `generic_buf` points to. `loggedIn`, `handled` and `starved` are
history.

### GlobMatch

One step per round of the loop over tokens or over the spans of a class;
pointers are indices, 0 is NULL. `Matches` is an independent definition of the
patterns by recursion on the rest of the pattern: for each place of the pattern
the places of the string from which the rest matches (`Places`), with every
length allowed for every star and a class as the set of its characters.

### ConfigLoad

The parsed file is a list of objects whose entries have a key, a valid or
invalid value and, for the patterns, a list of strings and other things. Memory
is named by what was copied into it. One step per entry, per pattern and per
`config_t` destroyed. An element that is not an object is read as one by the
code: the model lets it be reported as incomplete or crash the program.

### XList, MergeSort and ListSpec

The links of the list are two functions `next` and `prev` on addresses, the head
among them. `XList` has one action per operation at every iterator (`Insert`,
`Erase`, `Cut`, `Paste`, `CutFree`, `Clear`); `malloc` may return any address
not in use, also one just freed, and a node that is cut keeps its links. The
sort is `MergeSort`: one step per node taken, per round of a merge and per node
linked back. `ListSpec` is a sequence and a bag of the values cut; the sort is
one step of it, taken when the last node is linked back.

### JsonParse and JsonText

The text is chosen while the first pass reads it, in tokens: a letter of the
syntax, one that stands for all others, the word of a literal, an escape with
the number of bytes it becomes, the delimiters of comments. A step is one round
of the loop; `flags` are those of the code. The first pass counts in `nodes` and
on the chain `alloc`, the second one takes the values from that chain and fills
`areas`; a slot that was never filled is `"?"`. Memory may be refused at any
allocation; the error path frees what the chain holds, and `json_value_free_ex`
what was parsed. `JsonText` gives the same texts a meaning, by recursive functions on
the places of a text: `Meanings` has for each place the value, the rest of an
array's items and the rest of an object's entries that begin there, `Skips` where
the next token is that counts, `Letters` the string, `Number` the number, and
`Contents` is what the caller reads in memory; where the code deliberately or accidentally differs from JSON is written at the
operator concerned (a last comma, a lone `-`, no fraction behind an integer that
overflowed, no comment directly behind a number).

### XString and TextSpec

`data` is a function on the offsets below `capacity`, with `Junk` for bytes that
were never written; `outside` records a write beyond it. One action per
operation; `xstr_append_str` and the like are calls of these with the data of
another string. `Room` is the test of `__xstr_ensure_capacity` and the size that
`__xstr_capacity_expand` asks for; the copy and the move are `memcpy` and
`memmove`. `TextSpec` says what the operations promise of the text alone: the
characters between two places are replaced. The mapping from one to the other is
`Contents`. A text that is part of the string itself, which a call might move or
free under its own feet, is not passed; the program does not do that either.
`capacity << 1` is taken not to overflow, and `realloc` not to fail (the code
aborts then).

## The runs

| run | bounds | question |
|---|---|---|
| `sync_file` | 1 regular file or link, 3 runs in either direction, 2 changes by others, times -1 to 4 | what is overwritten, is a second run idle, what stays unnoticed |
| `sync_tree` | a directory (or a file of its name) and a file or link in it, 1 run, none or one of them ignored, 2 changes, the server's clock 1 ahead | order, the source and the ignored stay, convergence, end |
| `transfer` | files of up to 3 bytes, a buffer of 2, 2 changes by others | a call with everything that can fail, and that it is a `CopySpec` |
| `transfer_eof` | files of up to 2 bytes, no change | violated: what the comment "eof" says |
| `session` | 5 configurations, 2 options, 2 sockets | resources, order, progress |
| `walk` | 3 trees, 2 spellings of the base path, local and remote, links followed or not, 3 sets of ignored paths, 1 failure, paths to 11 with 2 links | the buffer, the items, the names asked for, end |
| `glob` | patterns to 3 of all metacharacters; to 5 without classes; one class of up to 5 characters, also behind a star; strings to 4 | result, bounds, time, end |
| `glob_inverted` | patterns to 4 with inverted classes | violated: like `fnmatch` |
| `config` | 1 object of 4 entries; 2 objects of 2, lists to 2 | ownership, frees, what is loaded |
| `list` | all operations on 3 addresses and 2 values; sorts of 4 nodes of 4 values, 5 of 3, 9 of 2 | links, the sequence, the place of each change, lengths of the runs, comparisons, end |
| `xstring` | texts of up to 2 of 2 characters, buffers of 1, 3 and 4, strings to 7 | termination, the text as `TextSpec` says |
| `json` | 5 languages of up to 5 to 14 tokens, integers to 10 | room, values, frees, end |

Why the bounds are enough. *Sync*: the questions about one file's fate concern
its two copies only, so one name is enough for them, and three runs let a file
go up, come down and be looked at again; two changes are what it takes to put a
race and a later difference into one behaviour. A directory and one name in it
show every order of parent and child, and what ignoring either of them does.
Times reach two seconds past the start, so that the same, the previous and the
next second all occur, and one before 1970. *Transfer*: three bytes with a
buffer of two give a full buffer, a partial one and a short write of each; two
changes put one on each side, or two on the source around its opening.
*Session*: with room for two sockets the leak of two sessions makes the third
configuration fail, and two are left to try. *Walk*: the trees are nested two
deep, with siblings before and behind a directory, names of dots, a link of each
kind and a cycle; a buffer of three bytes has to grow in every one of them, in
the middle of a path as well. *GlobMatch*: three characters hold a star between
two tokens and the malformed ends of a pattern, five hold two stars among other
tokens, and a bracket with five more an inverted class with a range and a
character behind it. *ConfigLoad*: two objects put an error behind a complete
configuration, four entries hold both required keys, one of them twice, and the
patterns. *XList*: with three addresses every operation is applied at the begin,
in the middle and at the end of a list, with a node cut, and to a freed address
again; eight nodes fold three times, nine, seven and fewer leave runs of
different lengths. *XString*: from one byte a string of seven characters needs
three expansions, and buffers of three and four bytes are exactly full, with and
without the terminator, after texts of one and two characters, whether the
doubled capacity or the size asked for is larger. *JsonParse*: fourteen tokens
are an object of two entries with names, five to eight nest two containers,
close them wrongly and hold every form of number, escape and comment; 10 is the
first integer whose next digit overflows.

What the two violated runs show is in the `findings` of `PROJECT.json`, with the
lines that say otherwise. Observations made with the models that have no run of
their own:

- A source dated before 1970 is found newer than any destination, and no source
  newer than such a file on the server: the protocol has no negative dates, and
  the comparison of `match.c` 390 mixes a signed and an unsigned time.
  `NewerKept`, `SecondRunIdle` and `StuckOnlyWithCause` except exactly these
  files.
- A destination that changes between its stat and the transfer, for instance
  while the question waits, is overwritten although it is newer; `NewerKept`
  excepts exactly these names (`stale`). A link that is replaced between
  `readlink` and `symlink` (`ssh_session.c` 159) is copied with its old target
  and a new date; `StuckOnlyWithCause` counts that among the causes.
- A configuration file in the root directory has an empty string for its
  directory, which cannot be entered (`main.c` 110).
- The "at most quadratic" of `match.c` 27-28 holds without classes only
  (`QuadraticWithoutClasses`): an unclosed bracket is scanned to the end of the
  pattern each time it is tried, so that a star and five brackets on fourteen
  brackets take 211 rounds, more than twice the product.
- If memory is refused in the parser's second pass, the values that are open and
  are not the root are leaked; if it is the root's own, an array or an object
  without room is freed through a null pointer. `FreedOnce` and
  `CrashOnlyIfRootRefused` state just how far that goes.
- `flag_num_got_decimal` is never cleared, so that the value of a later number
  that overflows into a double may be wrong. Values of doubles are not modelled.
- An empty `local_path` makes `xstr_back` read the byte before the buffer; the
  base paths of `Walk` are not empty.

## Fairness

`Sync` has weak fairness of `Proceed`, the steps of `process_config` once the
program runs: calls return and the user answers. Nobody has to start the
program, and `Killed`, `Edit` and `Tick` have no fairness. `Transfer`,
`Session`, `GlobMatch`, `Walk` (`WalkStep`) and `JsonParse` have weak fairness
of the program's own step: a sequential program whose calls return goes on.
`XList` has it of `Sorting` only, because nobody has to call an operation, and
`ConfigLoad` and `XString`, of which only safety is asked, have none. libssh2 is
used in blocking mode without a timeout, so that a call that never returns is
not excluded by the code, only by this assumption.

## What is proved

For all values of the constants, subject to the named assumptions of each
module (`NamesAssumption`, `TimesAssumption` of `Sync`, `SizesAssumption` of
`Transfer`, `BoundsAssumption` of `Session`, `CharAssumption` of `GlobMatch`,
`KeysAssumption` of `ConfigLoad`, `StringAssumption` of `XString`,
`WalkAssumption` of `Walk`, `XListAssumption` of `XList`, `JsonAssumption` of
`JsonParse`):

- `SyncProofs`: type correctness; `SourceAndIgnoredUntouched`, from `ListInv` (a
  listed name and every name above it is neither ignored nor outside an opened
  directory); `DirectoryBeforeContents`, from `Rooted` trees (what is in a
  directory has one), `WalkInv` and `PassedInv` (a directory the loop has passed
  exists at the destination, failed or is stale); `NewerKept`, from `Pending`
  and `Decision`: an item still to be transferred, whose destination nobody
  touched, is still related to it as its stat found, with the exception of dates
  before 1970.
  Of convergence: `StuckOnlyWithCause`, from `DatedInv` (no copy is dated ahead
  of the clock of its side) and `Noticed` (two copies that differ are told apart
  by their dates, or there is a cause); `CleanRunConverges`, from invariants that
  say where each name of the listing is in a run in which nothing failed
  (`ListedInv`: reached, left alone for a reason or still to come; `LeftInv`,
  `TransferredInv`); `SecondRunIdle`, from `SettledInv` (after such a run every
  name is up to date for another one in the same direction) and `IdleInv` (so
  that one lists nothing).
- `TransferProofs`: type correctness, `NothingLostInTheBuffer`,
  `SuccessMeansCopied`, `KilledOnlyIfSourceGrew`, `HandlesReleased`. The
  inductive invariant adds to the types which handles are open at which call
  (`Control`), what is in the buffer (`Buffered`), what the listing still says
  of source and destination (`SourceAsListed`, `DestinationAsListed`) and how
  far the copy is unless the source changed (`Copied`). From the same invariant,
  `ImplementsCopy`: every step of `Transfer` is a step of `CopySpec` under the
  mapping, or leaves it alone.
- `GlobMatchProofs`: type correctness; `ReadsInBounds`, from one small invariant
  for each argument about where its pointers may stand and where a backtrack
  returns to; `QuadraticWithoutClasses`, from `Paid`, which charges each step to
  a place of the string that will not be tried again; `OneStarIsEnough`: the
  recursion of `Places` is unfolded once and for all (its equations are proved
  in `SpansDefined` and `PlacesDefined`), and
  `StarInv` says that the arguments match by `Places` exactly if the rests in
  the loop do, or those behind the latest star.
- `ProgramProofs`, its part on `Session`: type correctness, `OnlySocketsLeak`, `Nested`,
  `BufferUsable`, `AllTried`, from invariants that say for each call what is
  held (`Holding`), whose sockets are open (`Ledger`), what `generic_buf` is
  (`BufferInv`) and how far the loop is (`Progress`).
- `ProgramProofs`, its part on `ConfigLoad`: type correctness, `OwnedOnce`, `LostOnlyIfRepeated`,
  `LoadedAsGiven`, for files of any size with any values. `Positions` bounds the
  indices; `OwnInv` and `ArrayInv` relate every allocation to the one field that
  owns it, to what was freed or to what was lost; `FieldsInv` says that a field
  has the latest value given to its key so far, `PatternsInv` the same of the
  patterns taken; `AcceptedInv` and `RefusedInv` say what the result then is.
- `WalkProofs`, its first half, of the buffer: type correctness, `InBounds`,
  `IsCString`, and that `XString` implements `TextSpec` (`Implements`). The three
  invariants together are inductive. The core is the lemma `Rebuilt`: a memory
  that starts with a part of the old text, the new one and the rest of the old
  one satisfies them again and has the contents that the abstract step asks for;
  each operation is shown to leave such a memory.
- `WalkProofs`, its second half: for every tree, every kind of link and any
  failures, the texts handed to the system are terminated strings within their
  buffer (`PathsAreStrings`, by the lemmas about the buffer), the buffer leads to
  the directory being read (`PathIsDirectoryRead`), and the other side is asked
  for the item's own name (`AskedByName`). `WalkInv` says of each frame of the
  recursion which part of the buffer leads to its directory (`Leads`), so that
  cutting the path back returns to the frame below.
- `WalkProofs`, its last part: in every tree whose names are not empty and hold
  no slash, the walk lists nothing but what can be reached, and all of that if no
  call failed (`ListsReachable`). The invariant `SearchInv` names the relative
  paths of the directories being read (`Along`) and the one looked at now
  (`Doing`), and says that the entries of every directory listed are listed as
  well, except for those still to come (`Accounted`). At the end none is to come,
  so that what is listed is closed under `Entries`, and holds all of `Within`
  (`ClosedHoldsAll`). That the system finds a directory at a path exactly if what
  it finds is one of the tree's (`PlaceFound`), so that what is listed with a
  slash is what can be opened, follows from the recursion of `LookupIn`.
- `XListProofs`, for lists of every length: `Linked`, `RunsAreDigits`,
  `FewComparisons`, `AtIterator`, and that the list implements `ListSpec`
  (`Implements`). All of them follow from one inductive invariant, `IInv`. It
  says that there is an arrangement `s` of the nodes, a sequence of them, in
  which every list that the links hold at any moment is a stretch of places: the
  circle between the calls (`Circle`); in a sort the runs one behind the other,
  each in order, the nodes not yet taken behind them (`TakeAt`, `FoldAt`,
  `RestAt`), within a merge the merged part and the two rests (`Merging`). The
  arrangement is what changes in a step: a merge that takes from the later run
  rotates a stretch (`Rot`), and everything beside that stretch stays. `Shape`
  says that the runs are powers of two that add up to the counter with strictly
  decreasing exponents, from which the binary digits follow, and bounds what
  each run has cost (`Cost`); `RestCosts` and `LogMonotone` carry the bound
  through the merges of unequal runs at the end. For the refinement the bag of
  the values cut is shown to grow and shrink by one (`BagGrows`, `BagShrinks`),
  and what a value counts in the list not to depend on the arrangement
  (`CountIs`).
- `JsonProofs`, for texts of every length in the parser's tokens and any
  languages they are chosen from, with memory refused at any allocation:
  `InBounds`, `FreedOnce` and `CrashOnlyIfRootRefused`. All three rest on the
  second pass doing what the first one did, although it keeps its knowledge elsewhere. What both know, apart from
  memory, is a configuration; `Leads` says how a token leads from one to the
  next, and a `Run` is the sequence of them that the first pass went through
  (`First`, `InNumberAt`). Along a run the counts only grow, and at each moment
  leave room for what is still open (`Later`, `Pending`). The second pass goes
  along the same run (`Second`): its configuration is one of the run, and the
  last one of that run says how much was allocated, so that every slot and every
  character it fills is within (`Allocated`, `Filled`, `Slotted`). The invariant
  `Parsing` is the list of the phases: the two passes; an error in the first one
  (`Doomed`, `Dropped`); and from the end of the second one on a tree in which
  each value is in one slot of its parent (`Tree`), complete (`Parsed`), left
  incomplete on the chain (`Abandoned`), or being freed along the path from the
  root to the value at hand (`Releasing`, `Path`), and then nothing
  (`Released`).
- `JsonTextProofs`: `ParsedAsWritten`, that is the correctness of the parser for
  texts of every length, and `RefusedMeansNothing`. First the functions of the
  grammar are shown to be what their definitions say (a place beyond the text is
  looked at by none of them). Beside each configuration of a run there is then a
  record `g` of where the values began and what has been made of them, and
  `Agrees` says of every value that is open what the grammar gives at its first
  place: what `g` has of it, followed by what the grammar gives from the pointer
  on. Each step of the loop moves something from the right of that equation to
  the left (`StepAgrees`, with `Partly` for the digits of a number), and at the
  end nothing is on the right. Where no step is left (`Stuck`, or a number that
  went wrong), the equation has no meaning on its right, so that the whole text
  has none (`Refuted`). The first pass knows nothing of the text ahead: `Known`
  is that there is such a `g` for every text that goes on as this one began,
  which is why a refusal is right whatever would have followed. In the second
  pass the text is fixed, and `Holds` relates `g` to memory: the bytes written so
  far, the names stored behind the entries, the slots filled (`Lists`, `Titles`),
  and for each complete value that it reads as `g` has it (`Stands`). `Contents`
  is then the only function that fits the memory (`ReadOnce`). `Correct` lists
  the phases: `Known` along the run, a text doomed by a number or already
  refused, the second pass (`Refollowed`), the result.

`Nested`, `InBounds` of `XString` and the type invariants are proved and not
run, except where a run has them as part of another property.

Recursive functions occur in these proofs (`Pow2`, `Path`, `Places`, `Spans`,
`Within` of `JsonParse` and of `Walk`, the search in `LookupIn`, and of
`JsonText` `Skips`, `Letters`, `Decimal`, `Meanings` and `Contents`). What they compute is proved from their defining equations, which follow for
functions on bounded numbers from the existence of a least counterexample
(`NatLessThanWellFounded`, `WFMin`); the library's induction theorems, which
take an operator, are not used. That there is a function with the equation of
`Within` of `JsonParse` is proved first: it gives for a value the intersection of
the sets that hold it and the parents of what they hold.

Only model-checked: all liveness (`RunEnds`, `Returns`, `Ends`, and of
`Transfer`'s `Implements` that it ends), which the prover cannot do under
fairness. The safety of the two runs that end in a violation is not a question:
what the source says there does not hold.

## Not modelled

- The values of doubles and the texts of error messages in `json.c`; in
  `ConfigLoad`, elements of the array that are not objects, which the code reads
  as if they were (the model lets it report them or crash).
- The conversions of numbers in `xstring.c`, which nothing calls, and the cache
  of nodes in `xlist.c`, which the build leaves out (`XLIST_ENABLE_CACHE`).
- In `Sync`, the dates of directories and links to directories; in all modules,
  failures of `malloc` the code does not test for.
- The template file of `-t` (a constant text is written to a new file), the
  Windows build, the protocol inside libssh2, terminal output.

## Plan

1. Done: every component that keeps a state has a module; the refinements of
   `XString`, `XList` and `Transfer`; the theorems above.
2. Proofs to come: what liveness rests on, as safety: a measure that each step of
   the walk and of a transfer lets shrink.
3. Models to come: an abstract synchroniser that `Sync` implements when nobody
   interferes; `Sync`'s loop as a composition of instances of `CopySpec`; a run
   with three levels of directories.
