----------------------------- MODULE ConfigLoad -----------------------------
(***************************************************************************)
(* configs_load (config.c): the config file is read and parsed, every      *)
(* element of its array becomes a config_t, entry by entry, and an error   *)
(* anywhere frees all of them; main destroys the list it got at the end.   *)
(* The module follows the memory: which string or array is allocated,      *)
(* which field of which config_t owns it, and who frees it.  It is named   *)
(* by what it was copied from, <<element, entry, item>>, where item 0 is   *)
(* the value itself, or the array of an "ignore_files".                    *)
(***************************************************************************)
EXTENDS Integers, Sequences

CONSTANTS
  Required,  \* the keys set_config insists on, all of them strings
  Plain,     \* the keys of numbers and booleans
  Files      \* what the parser may make of the file

Label == "label"
IgnoreFiles == "ignore_files"
Unknown == "unknown"
Strings == Required \cup {Label}
Fields == Strings \cup {IgnoreFiles}
Keys == Fields \cup Plain \cup {Unknown}

(***************************************************************************)
(* Files.  The value of an entry is of the type its key asks for, or not;  *)
(* for an "ignore_files", items says which of its items are strings.  One  *)
(* object instead of an array is treated like an array of one.             *)
(***************************************************************************)
Entry == [key : Keys, ok : BOOLEAN, items : Seq(BOOLEAN)]
Element == [type : {"object", "other"}, entries : Seq(Entry)]
File == [type : {"unreadable", "scalar", "list"}, elements : Seq(Element)]

ASSUME KeysAssumption ==
  /\ {Label, IgnoreFiles, Unknown} \cap (Required \cup Plain) = {}
  /\ Required # {} /\ Required \cap Plain = {}
  /\ \A f \in Files : f \in File
  /\ \A f \in Files : \A i \in DOMAIN f.elements :
       /\ f.elements[i].type = "other" => f.elements[i].entries = <<>>
       /\ \A e \in DOMAIN f.elements[i].entries :
            LET entry == f.elements[i].entries[e]
            IN  entry.key # IgnoreFiles => entry.items = <<>>

VARIABLES
  file,        \* what the parser makes of the file
  pc,          \* where configs_load, or main after it, stands
  el, en, it,  \* the element, entry and item it has come to
  cfgs,        \* the list of config_t
  heap,        \* what is allocated for their fields
  parsed,      \* whether the json_value is allocated
  wrong        \* history: whether something not allocated was freed

position == <<el, en, it>>
vars == <<file, pc, position, cfgs, heap, parsed, wrong>>

Entries == file.elements[el].entries
This == Entries[en]

\* Values of a field besides what is allocated.
Null == <<"null">>
Dummy == <<"dummy">>

Config == [field : [Fields -> {Null, Dummy} \cup (Nat \X Nat \X Nat)],
           items : Nat]

\* init_config.
NewConfig == [field |-> [f \in Fields |-> Null], items |-> 0]

Init ==
  /\ file \in Files
  /\ pc = "read" /\ el = 0 /\ en = 0 /\ it = 0
  /\ cfgs = <<>> /\ heap = {} /\ parsed = FALSE /\ wrong = FALSE

Goto(l) == pc' = l
Last == Len(cfgs)

\* The value of the entry is copied and becomes what the field points to.
Assign(f, n) ==
  /\ heap' = heap \cup {<<el, en, 0>>}
  /\ cfgs' = [cfgs EXCEPT ![Last] =
                [field |-> [@.field EXCEPT ![f] = <<el, en, 0>>], items |-> n]]

-----------------------------------------------------------------------------
(* configs_load.                                                           *)

\* file_full_read and json_parse_ex.
Read ==
  /\ pc = "read"
  /\ \/ file.type = "unreadable" /\ Goto("failed") /\ UNCHANGED parsed
     \/ file.type = "scalar" /\ Goto("error") /\ parsed' = TRUE
     \/ file.type = "list" /\ Goto("element") /\ parsed' = TRUE
  /\ UNCHANGED <<file, position, cfgs, heap, wrong>>

\* The fields of an element that is not an object are read all the same: a
\* length of zero is reported as missing keys, any other is an invalid access.
NextElement ==
  /\ pc = "element" /\ el < Len(file.elements)
  /\ el' = el + 1 /\ en' = 1
  /\ cfgs' = Append(cfgs, NewConfig)
  /\ \/ Goto("entry")
     \/ file.elements[el + 1].type = "other" /\ Goto("crashed")
  /\ UNCHANGED <<file, it, heap, parsed, wrong>>

Loaded ==
  /\ pc = "element" /\ el = Len(file.elements)
  /\ Goto("loaded") /\ parsed' = FALSE
  /\ UNCHANGED <<file, position, cfgs, heap, wrong>>

AtEntry(S) == pc = "entry" /\ en <= Len(Entries) /\ This.key \in S

Reject ==
  /\ AtEntry(Keys) /\ (~This.ok \/ This.key = Unknown)
  /\ Goto("error")
  /\ UNCHANGED <<file, position, cfgs, heap, parsed, wrong>>

\* Mutant: the old value is freed, but only a new array is put in its place.
SetStringFreesOld ==
  /\ AtEntry(Strings) /\ This.ok /\ en' = en + 1
  /\ LET old == cfgs[Last].field[This.key]
     IN  IF old = Null THEN Assign(This.key, cfgs[Last].items)
         ELSE heap' = heap \ {old} /\ UNCHANGED cfgs
  /\ UNCHANGED <<file, pc, el, it, parsed, wrong>>

\* A second entry for the key loses the string of the first.
SetString ==
  /\ AtEntry(Strings) /\ This.ok /\ en' = en + 1
  /\ Assign(This.key, cfgs[Last].items)
  /\ UNCHANGED <<file, pc, el, it, parsed, wrong>>

SetPlain ==
  /\ AtEntry(Plain) /\ This.ok /\ en' = en + 1
  /\ UNCHANGED <<file, pc, el, it, cfgs, heap, parsed, wrong>>

\* set_ignore_files: the array is NULL from the item that comes next.
NewArray ==
  /\ AtEntry({IgnoreFiles}) /\ This.ok
  /\ Goto("item") /\ it' = 1 /\ Assign(IgnoreFiles, 0)
  /\ UNCHANGED <<file, el, en, parsed, wrong>>

CopyItem ==
  /\ pc = "item" /\ it <= Len(This.items)
  /\ \/ /\ This.items[it] /\ it' = it + 1
        /\ heap' = heap \cup {<<el, en, it>>}
        /\ cfgs' = [cfgs EXCEPT ![Last].items = it]
        /\ UNCHANGED pc
     \/ ~This.items[it] /\ Goto("error") /\ UNCHANGED <<it, heap, cfgs>>
  /\ UNCHANGED <<file, el, en, parsed, wrong>>

ItemsDone ==
  /\ pc = "item" /\ it > Len(This.items)
  /\ Goto("entry") /\ en' = en + 1
  /\ UNCHANGED <<file, el, it, cfgs, heap, parsed, wrong>>

\* Mutant: one of the required keys is enough.
SomeSet(c) == \E f \in Required : c.field[f] # Null

\* Whether the keys that are needed are there.
Complete(c) == \A f \in Required : c.field[f] # Null

\* What the optional fields get in the absence of their keys.
Default(c, f) ==
  IF c.field[f] = Null /\ f \in {Label, IgnoreFiles} THEN Dummy ELSE c.field[f]

EntriesDone ==
  /\ pc = "entry" /\ en > Len(Entries)
  /\ \/ ~Complete(cfgs[Last]) /\ Goto("error") /\ UNCHANGED cfgs
     \/ /\ Complete(cfgs[Last]) /\ Goto("element")
        /\ cfgs' = [cfgs EXCEPT ![Last].field =
                      [f \in Fields |-> Default(cfgs[Last], f)]]
  /\ UNCHANGED <<file, position, heap, parsed, wrong>>

-----------------------------------------------------------------------------
(* configs_destroy.                                                        *)

\* The items that an array at a holds.
ItemsOf(a, n) == {<<a[1], a[2], k>> : k \in 1 .. n}

Pointed(c) == {c.field[f] : f \in Fields} \ {Null}

\* Mutant: the array of the patterns is freed without the patterns.
FreesArray(c) == Pointed(c) \ {Dummy}

\* What destroy_config frees.
Owned(c) ==
  (Pointed(c) \ {Dummy})
    \cup IF c.field[IgnoreFiles] \in {Null, Dummy} THEN {}
         ELSE ItemsOf(c.field[IgnoreFiles], c.items)

\* xlist_clear comes to the next config_t.
Destroy ==
  /\ pc \in {"error", "destroy"} /\ cfgs # <<>>
  /\ heap' = heap \ Owned(cfgs[1])
  /\ wrong' = (wrong \/ ~(Owned(cfgs[1]) \subseteq heap))
  /\ cfgs' = Tail(cfgs)
  /\ UNCHANGED <<file, pc, position, parsed>>

Destroyed ==
  /\ pc \in {"error", "destroy"} /\ cfgs = <<>>
  /\ Goto(IF pc = "error" THEN "failed" ELSE "done") /\ parsed' = FALSE
  /\ UNCHANGED <<file, position, cfgs, heap, wrong>>

\* main has gone through the configurations.
Used ==
  /\ pc = "loaded" /\ Goto("destroy")
  /\ UNCHANGED <<file, position, cfgs, heap, parsed, wrong>>

Stopped == pc \in {"failed", "done", "crashed"} /\ UNCHANGED vars

Step ==
  \/ Read \/ NextElement \/ Loaded
  \/ Reject \/ SetString \/ SetPlain \/ NewArray \/ CopyItem \/ ItemsDone
  \/ EntriesDone \/ Destroy \/ Destroyed \/ Used

Next == Step \/ Stopped

Spec == Init /\ [][Next]_vars

-----------------------------------------------------------------------------
TypeOK ==
  /\ file \in File
  /\ pc \in {"read", "element", "entry", "item", "error", "loaded", "destroy",
             "failed", "done", "crashed"}
  /\ el \in Nat /\ en \in Nat /\ it \in Nat
  /\ cfgs \in Seq(Config)
  /\ heap \subseteq Nat \X Nat \X Nat
  /\ parsed \in BOOLEAN /\ wrong \in BOOLEAN

\* The entries of the element i that set_config has gone through or is in.
Seen(i) ==
  IF i < el THEN DOMAIN file.elements[i].entries
  ELSE {e \in DOMAIN file.elements[i].entries : e <= en}

\* Whether a later entry for the same key took the place of the entry e.
Replaced(i, e) ==
  \E f \in Seen(i) : f > e /\ file.elements[i].entries[f].key
                                 = file.elements[i].entries[e].key

(***************************************************************************)
(* Everything allocated belongs to a config_t of the list that will free   *)
(* it, in the middle of an entry and on every way to the error label too,  *)
(* except for the values of a key that is given again.                     *)
(***************************************************************************)
LostOnlyIfRepeated ==
  \A s \in heap :
    (\E i \in DOMAIN cfgs : s \in Owned(cfgs[i])) \/ Replaced(s[1], s[2])

(***************************************************************************)
(* Each config_t owns what it points to alone, and it is allocated; and    *)
(* nothing but what malloc returned, and that once, was passed to free, at *)
(* any destruction, after an error or at the end.                          *)
(***************************************************************************)
OwnedOnce ==
  /\ ~wrong
  /\ \A i \in DOMAIN cfgs : Owned(cfgs[i]) \subseteq heap
  /\ \A i, j \in DOMAIN cfgs : i # j => Owned(cfgs[i]) \cap Owned(cfgs[j]) = {}

\* What the loader accepts, by the keys of the object alone.
ValidEntry(e) == e.ok /\ e.key # Unknown /\ \A k \in DOMAIN e.items : e.items[k]
Valid(o) ==
  /\ o.type = "object"
  /\ \A e \in DOMAIN o.entries : ValidEntry(o.entries[e])
  /\ \A f \in Required : \E e \in DOMAIN o.entries : o.entries[e].key = f
ValidFile == file.type = "list" /\ \A i \in DOMAIN file.elements : Valid(file.elements[i])

\* What the field f of the configuration i should be: the last value given.
Given(i, f) == {e \in DOMAIN file.elements[i].entries : file.elements[i].entries[e].key = f}
Expected(i, f) ==
  IF Given(i, f) = {} THEN Dummy
  ELSE <<i, CHOOSE e \in Given(i, f) : \A g \in Given(i, f) : g <= e, 0>>

(***************************************************************************)
(* All or nothing: a file with an invalid entry or a missing key anywhere  *)
(* is refused as a whole, and of any other file each configuration has the *)
(* last value given for each key, all of its patterns, or the default.     *)
(***************************************************************************)
LoadedAsGiven ==
  /\ pc = "failed" => ~ValidFile
  /\ pc = "loaded" =>
       /\ ValidFile /\ Len(cfgs) = Len(file.elements)
       /\ \A i \in DOMAIN cfgs :
            /\ \A f \in Fields : cfgs[i].field[f] = Expected(i, f)
            /\ Given(i, IgnoreFiles) # {} =>
                 cfgs[i].items
                   = Len(file.elements[i].entries[Expected(i, IgnoreFiles)[2]].items)
=============================================================================
