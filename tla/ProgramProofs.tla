---------------------------- MODULE ProgramProofs ----------------------------
(***************************************************************************)
(* Proofs about main and configs_load: modules ConfigLoad, for any keys    *)
(* and files, and Session, for any number of configurations, options and   *)
(* descriptors.  For the one the invariants say who owns the memory at     *)
(* each step and what the fields of a config_t hold, for the other what is *)
(* held at each call.                                                      *)
(***************************************************************************)
EXTENDS ConfigLoad, Session, TLAPS

-----------------------------------------------------------------------------
(* Module ConfigLoad.                                                      *)

\* configs_load has freed nothing yet.
Loading == {"element", "entry", "item", "loaded"}

\* Where configs_load stands in the file.
Positions ==
  /\ file \in Files
  /\ pc = "read" => cfgs = <<>> /\ el = 0
  /\ pc \in Loading => Len(cfgs) = el /\ file.type = "list"
  /\ el <= Len(file.elements) /\ Len(cfgs) <= el
  /\ pc = "loaded" => el = Len(file.elements)
  /\ pc \in {"entry", "item"} => el > 0 /\ en \in 1 .. Len(Entries) + 1
  /\ pc = "item" =>
       /\ en <= Len(Entries) /\ This.ok /\ This.key = IgnoreFiles
       /\ it \in 1 .. Len(This.items) + 1

\* The number of the element that the i-th config_t of the list was made of.
Number(i) == i + el - Len(cfgs)

Triple == Nat \X Nat \X Nat

-----------------------------------------------------------------------------
(* Types.                                                                  *)

\* What is allocated is not mistaken for NULL or the default.
LEMMA TripleIsNoMarker == \A s \in Triple : s # Null /\ s # Dummy /\ Null # Dummy
<1>1. ASSUME NEW s \in Triple PROVE Len(s) = 3
  BY <1>1 DEF Triple
<1>2. Len(Null) = 1 /\ Len(Dummy) = 1 /\ Null[1] = "null" /\ Dummy[1] = "dummy"
  BY DEF Null, Dummy
<1>3. QED
  BY <1>1, <1>2

\* The element and the entry that are worked on are of their types.
LEMMA EntryTypes ==
  ASSUME TypeOK, Positions
  PROVE  /\ file.elements \in Seq(Element)
         /\ \A i \in DOMAIN file.elements : file.elements[i] \in Element
         /\ \A i \in DOMAIN file.elements : file.elements[i].entries \in Seq(Entry)
         /\ pc \in {"entry", "item"} => Entries \in Seq(Entry) /\ el \in DOMAIN file.elements
         /\ pc \in {"entry", "item"} /\ en <= Len(Entries) =>
              en \in DOMAIN Entries /\ This \in Entry
         /\ pc \in {"entry", "item"} => Last \in DOMAIN cfgs /\ Last = el
         /\ \A i \in DOMAIN cfgs : cfgs[i] \in Config
<1>1. file.elements \in Seq(Element)
  BY DEF TypeOK, File
<1>2. \A i \in DOMAIN file.elements : file.elements[i] \in Element
  BY <1>1
<1>3. \A i \in DOMAIN file.elements : file.elements[i].entries \in Seq(Entry)
  BY <1>2 DEF Element
<1>4. ASSUME pc \in {"entry", "item"} PROVE el \in DOMAIN file.elements
  BY <1>1, <1>4 DEF Positions, TypeOK
<1>5. ASSUME pc \in {"entry", "item"} PROVE Entries \in Seq(Entry)
  BY <1>3, <1>4, <1>5 DEF Entries
<1>6. ASSUME pc \in {"entry", "item"}, en <= Len(Entries)
      PROVE  en \in DOMAIN Entries /\ This \in Entry
  <2>1. en \in DOMAIN Entries
    BY <1>5, <1>6 DEF Positions
  <2>2. QED
    BY <1>5, <1>6, <2>1 DEF This
<1>7. ASSUME pc \in {"entry", "item"} PROVE Last \in DOMAIN cfgs /\ Last = el
  BY <1>7 DEF Positions, TypeOK, Last, Loading
<1>8. \A i \in DOMAIN cfgs : cfgs[i] \in Config
  BY DEF TypeOK
<1>9. QED
  BY <1>1, <1>2, <1>3, <1>4, <1>5, <1>6, <1>7, <1>8

\* An assignment to a field of the last config_t keeps the types.
LEMMA AssignTypes ==
  ASSUME TypeOK, NEW f \in Fields, NEW n \in Nat, cfgs # <<>>, Assign(f, n)
  PROVE  heap' \subseteq Triple /\ cfgs' \in Seq(Config)
<1>1. Last \in DOMAIN cfgs /\ cfgs[Last] \in Config
  BY DEF TypeOK, Last
<1>2. <<el, en, 0>> \in Triple
  BY DEF TypeOK, Triple
<1> DEFINE c == [field |-> [cfgs[Last].field EXCEPT ![f] = <<el, en, 0>>], items |-> n]
<1>3. c \in Config
  BY <1>1, <1>2 DEF Config, Triple
<1>4. cfgs' = [cfgs EXCEPT ![Last] = c]
  BY DEF Assign
<1> HIDE DEF c
<1>5. cfgs' \in Seq(Config)
  BY <1>1, <1>3, <1>4 DEF TypeOK
<1>6. QED
  BY <1>2, <1>5 DEF Assign, TypeOK, Triple

\* The start is of its types.
LEMMA InitPositions == Init => TypeOK /\ Positions
<1> SUFFICES ASSUME Init PROVE TypeOK /\ Positions
  OBVIOUS
<1>1. file \in Files /\ file \in File
  BY KeysAssumption DEF Init
<1>2. Len(file.elements) \in Nat
  BY <1>1 DEF File
<1>3. cfgs = <<>> /\ el = 0 /\ pc = "read"
  BY DEF Init
<1>4. <<>> \in Seq(Config) /\ Len(<<>>) = 0
  OBVIOUS
<1>5. parsed \in BOOLEAN /\ wrong \in BOOLEAN
  BY DEF Init
<1>6. el \in Nat /\ en \in Nat /\ it \in Nat /\ heap \subseteq Nat \X Nat \X Nat
  BY DEF Init
<1>7. TypeOK
  BY <1>1, <1>3, <1>4, <1>5, <1>6 DEF TypeOK
<1>8. QED
  BY <1>1, <1>2, <1>3, <1>4, <1>7 DEF Positions, Loading

\* Every step keeps the types.
LEMMA TypeStep == TypeOK /\ Positions /\ [Next]_vars => TypeOK'
<1> SUFFICES ASSUME TypeOK, Positions, [Next]_vars PROVE TypeOK'
  OBVIOUS
<1> USE DEF Goto, position
<1>1. CASE Read \/ Loaded \/ Reject \/ SetPlain \/ ItemsDone \/ Used \/ Destroyed \/ Stopped
  <2>1. /\ UNCHANGED <<file, el, it, cfgs, heap, wrong>> /\ en' \in {en, en + 1}
        /\ pc' \in {pc, "failed", "error", "element", "loaded", "entry", "destroy", "done"}
    BY <1>1 DEF Read, Loaded, Reject, SetPlain, ItemsDone, Used, Destroyed, Stopped, vars
  <2>2. parsed' \in BOOLEAN
    BY <1>1 DEF Read, Loaded, Reject, SetPlain, ItemsDone, Used, Destroyed, Stopped, vars, TypeOK
  <2>3. /\ pc' \in {"read", "element", "entry", "item", "error", "loaded", "destroy",
                    "failed", "done", "crashed"}
        /\ en' \in Nat
    BY <2>1 DEF TypeOK
  <2>4. QED
    BY <2>1, <2>2, <2>3 DEF TypeOK
<1>2. CASE UNCHANGED vars
  BY <1>2 DEF vars, TypeOK
<1>3. CASE NextElement
  <2>1. NewConfig \in Config
    BY DEF NewConfig, Config
  <2>2. QED
    BY <1>3, <2>1 DEF NextElement, TypeOK
<1>4. CASE SetString
  <2>1. This.key \in Fields /\ cfgs # <<>> /\ cfgs[Last].items \in Nat
    BY <1>4, EntryTypes DEF SetString, AtEntry, Fields, Positions, TypeOK, Loading, Config
  <2>2. heap' \subseteq Triple /\ cfgs' \in Seq(Config)
    BY <1>4, <2>1, AssignTypes DEF SetString
  <2>3. QED
    BY <1>4, <2>2 DEF SetString, TypeOK, Triple
<1>5. CASE NewArray
  <2>1. IgnoreFiles \in Fields /\ cfgs # <<>>
    BY <1>5, EntryTypes DEF NewArray, AtEntry, Fields, Positions, TypeOK, Loading
  <2>2. heap' \subseteq Triple /\ cfgs' \in Seq(Config)
    BY <1>5, <2>1, AssignTypes DEF NewArray
  <2>3. QED
    BY <1>5, <2>2 DEF NewArray, TypeOK, Triple
<1>6. CASE CopyItem
  <2>1. CASE ~This.items[it]
    BY <1>6, <2>1 DEF CopyItem, TypeOK
  <2>2. CASE This.items[it]
    <3>1. Last \in DOMAIN cfgs /\ cfgs[Last] \in Config
      BY <1>6, EntryTypes DEF CopyItem
    <3>2. [cfgs[Last] EXCEPT !.items = it] \in Config
      BY <3>1 DEF Config, TypeOK
    <3>3. cfgs' = [cfgs EXCEPT ![Last] = [cfgs[Last] EXCEPT !.items = it]]
      BY <1>6, <2>2 DEF CopyItem
    <3>4. cfgs' \in Seq(Config)
      BY <3>1, <3>2, <3>3 DEF TypeOK
    <3>5. <<el, en, it>> \in Nat \X Nat \X Nat
      BY DEF TypeOK
    <3>6. QED
      BY <1>6, <2>2, <3>4, <3>5 DEF CopyItem, TypeOK
  <2>3. QED
    BY <2>1, <2>2
<1>7. CASE EntriesDone
  <2>1. CASE UNCHANGED cfgs
    BY <1>7, <2>1 DEF EntriesDone, TypeOK
  <2>2. CASE ~UNCHANGED cfgs
    <3>1. Last \in DOMAIN cfgs /\ cfgs[Last] \in Config
      BY <1>7, EntryTypes DEF EntriesDone
    <3> DEFINE g == [f \in Fields |-> Default(cfgs[Last], f)]
    <3>2. [cfgs[Last] EXCEPT !.field = g] \in Config
      BY <3>1 DEF Config, Default
    <3>3. cfgs' = [cfgs EXCEPT ![Last] = [cfgs[Last] EXCEPT !.field = g]]
      BY <1>7, <2>2 DEF EntriesDone
    <3> HIDE DEF g
    <3>4. cfgs' \in Seq(Config)
      BY <3>1, <3>2, <3>3 DEF TypeOK
    <3>5. QED
      BY <1>7, <2>2, <3>4 DEF EntriesDone, TypeOK
  <2>3. QED
    BY <2>1, <2>2
<1>8. CASE Destroy
  <2>1. Tail(cfgs) \in Seq(Config)
    BY <1>8 DEF Destroy, TypeOK
  <2>2. heap' \subseteq Nat \X Nat \X Nat
    BY <1>8 DEF Destroy, TypeOK
  <2>3. QED
    BY <1>8, <2>1, <2>2 DEF Destroy, TypeOK
<1>9. QED
  BY <1>1, <1>2, <1>3, <1>4, <1>5, <1>6, <1>7, <1>8 DEF Next, Step

\* Every step goes on in the file as far as it says.
LEMMA PositionStep == TypeOK /\ Positions /\ [Next]_vars => Positions'
<1> SUFFICES ASSUME TypeOK, Positions, [Next]_vars PROVE Positions'
  OBVIOUS
<1> USE DEF Goto, position, Positions, Loading
<1>a. el \in Nat /\ en \in Nat /\ it \in Nat /\ Len(cfgs) \in Nat
  BY DEF TypeOK
<1>b. Len(file.elements) \in Nat
  BY EntryTypes
<1>1. CASE Read \/ Loaded \/ Used \/ Stopped \/ UNCHANGED vars
  <2>1. UNCHANGED <<file, el, en, it, cfgs>>
    BY <1>1 DEF Read, Loaded, Used, Stopped, vars
  <2>2. QED
    BY <1>1, <1>a, <2>1 DEF Read, Loaded, Used, Stopped, vars, Entries, This
<1>2. CASE NextElement
  <2>1. Len(cfgs') = Len(cfgs) + 1
    BY <1>2 DEF NextElement, TypeOK
  <2>2. Len(file.elements[el + 1].entries) \in Nat
    BY <1>2, <1>a, <1>b, EntryTypes DEF NextElement
  <2>3. en' \in 1 .. Len(Entries') + 1 /\ el' > 0
    BY <1>2, <1>a, <2>2 DEF NextElement, Entries
  <2>4. QED
    BY <1>2, <1>a, <1>b, <2>1, <2>3 DEF NextElement
<1>3. CASE Reject
  BY <1>3 DEF Reject, AtEntry
<1>4. CASE SetString \/ SetPlain
  <2>1. /\ UNCHANGED <<file, pc, el, it>> /\ pc = "entry" /\ en' = en + 1
        /\ en <= Len(Entries)
    BY <1>4 DEF SetString, SetPlain, AtEntry
  <2>2. Len(cfgs') = Len(cfgs)
    BY <1>4 DEF SetString, SetPlain, Assign, TypeOK
  <2>3. Len(Entries) \in Nat /\ Entries' = Entries
    BY <2>1, EntryTypes DEF Entries
  <2>4. QED
    BY <1>a, <2>1, <2>2, <2>3
<1>5. CASE NewArray
  <2>1. /\ UNCHANGED <<file, el, en>> /\ pc' = "item" /\ pc = "entry" /\ it' = 1
        /\ en <= Len(Entries) /\ This.key = IgnoreFiles /\ This.ok
    BY <1>5 DEF NewArray, AtEntry
  <2>2. Len(cfgs') = Len(cfgs)
    BY <1>5 DEF NewArray, Assign, TypeOK
  <2>3. Entries' = Entries /\ This' = This
    BY <2>1 DEF Entries, This
  <2>4. This.items \in Seq(BOOLEAN)
    BY <2>1, EntryTypes DEF Entry
  <2>5. QED
    BY <1>a, <2>1, <2>2, <2>3, <2>4
<1>6. CASE CopyItem
  <2>1. /\ UNCHANGED <<file, el, en>> /\ pc = "item" /\ it <= Len(This.items)
        /\ pc' = "error" \/ (pc' = "item" /\ it' = it + 1)
    BY <1>6 DEF CopyItem
  <2>2. Len(cfgs') = Len(cfgs)
    BY <1>6 DEF CopyItem, TypeOK
  <2>3. Entries' = Entries /\ This' = This
    BY <2>1 DEF Entries, This
  <2>4. This.items \in Seq(BOOLEAN)
    BY <2>1, EntryTypes DEF Entry
  <2>5. QED
    BY <1>a, <2>1, <2>2, <2>3, <2>4
<1>7. CASE ItemsDone
  <2>1. /\ UNCHANGED <<file, el, it, cfgs>> /\ pc = "item" /\ pc' = "entry" /\ en' = en + 1
    BY <1>7 DEF ItemsDone
  <2>2. Len(Entries) \in Nat /\ Entries' = Entries
    BY <2>1, EntryTypes DEF Entries
  <2>3. QED
    BY <1>a, <2>1, <2>2
<1>8. CASE EntriesDone
  <2>1. UNCHANGED <<file, el, en, it>> /\ pc = "entry" /\ pc' \in {"error", "element"}
    BY <1>8 DEF EntriesDone
  <2>2. Len(cfgs') = Len(cfgs)
    BY <1>8 DEF EntriesDone, TypeOK
  <2>3. QED
    BY <1>a, <2>1, <2>2
<1>9. CASE Destroy
  <2>1. UNCHANGED <<file, pc, el, en, it>> /\ pc \in {"error", "destroy"}
    BY <1>9 DEF Destroy
  <2>2. Len(cfgs') = Len(cfgs) - 1
    BY <1>9 DEF Destroy, TypeOK
  <2>3. QED
    BY <1>a, <2>1, <2>2
<1>10. CASE Destroyed
  <2>1. UNCHANGED <<file, el, en, it, cfgs>> /\ pc' \in {"failed", "done"}
    BY <1>10 DEF Destroyed
  <2>2. QED
    BY <1>a, <2>1
<1>11. QED
  BY <1>1, <1>2, <1>3, <1>4, <1>5, <1>6, <1>7, <1>8, <1>9, <1>10 DEF Next, Step

-----------------------------------------------------------------------------
(* Ownership.                                                              *)

\* What a config_t owns is in the heap, and its element's.
OwnInv ==
  \A i \in DOMAIN cfgs : \A s \in Owned(cfgs[i]) : s \in heap /\ s[1] = Number(i)

\* The array that is being filled.
ArrayInv ==
  pc = "item" =>
    /\ cfgs[Last].field[IgnoreFiles] = <<el, en, 0>>
    /\ cfgs[Last].items = it - 1

\* What a config_t owns are the values of its fields, and the patterns.
LEMMA OwnedBy ==
  ASSUME NEW c \in Config, NEW s
  PROVE  s \in Owned(c) <=>
           \/ \E f \in Fields : c.field[f] \in Triple /\ s = c.field[f]
           \/ /\ c.field[IgnoreFiles] \in Triple
              /\ s \in ItemsOf(c.field[IgnoreFiles], c.items)
<1>1. \A f \in Fields : c.field[f] \in Triple <=> c.field[f] \notin {Null, Dummy}
  BY TripleIsNoMarker DEF Config, Triple
<1>2. IgnoreFiles \in Fields
  BY DEF Fields
<1>3. c.field[IgnoreFiles] \in Triple <=> c.field[IgnoreFiles] \notin {Null, Dummy}
  BY <1>1, <1>2
<1>4. s \in Pointed(c) \ {Dummy} <=> \E f \in Fields : c.field[f] \in Triple /\ s = c.field[f]
  BY <1>1 DEF Pointed
<1>5. QED
  BY <1>3, <1>4 DEF Owned

\* The items of an array have its element and entry.
LEMMA ItemsAre ==
  ASSUME NEW a \in Triple, NEW n \in Nat, NEW s \in ItemsOf(a, n)
  PROVE  s \in Triple /\ s[1] = a[1] /\ s[2] = a[2] /\ s[3] \in 1 .. n
  BY DEF ItemsOf, Triple

\* What is owned is named by three numbers.
LEMMA OwnedTypes == ASSUME NEW c \in Config PROVE Owned(c) \subseteq Triple
<1> SUFFICES ASSUME NEW s \in Owned(c) PROVE s \in Triple
  OBVIOUS
<1>1. c.items \in Nat
  BY DEF Config
<1>2. QED
  BY <1>1, OwnedBy, ItemsAre

\* A new value for a field adds itself, and takes the place of the old one
\* and, in an array, of its items.
LEMMA AssignOwned ==
  ASSUME NEW c \in Config, NEW f \in Fields, NEW v \in Triple, NEW n \in Nat,
         IF f = IgnoreFiles THEN n = 0 ELSE n = c.items
  PROVE  LET d == [field |-> [c.field EXCEPT ![f] = v], items |-> n]
         IN  /\ d \in Config
             /\ \A s \in Owned(d) : s \in Owned(c) \/ s = v
             /\ v \in Owned(d)
             /\ \A s \in Owned(c) \ Owned(d) :
                  c.field[f] \in Triple /\ s[1] = c.field[f][1] /\ s[2] = c.field[f][2]
<1> DEFINE d == [field |-> [c.field EXCEPT ![f] = v], items |-> n]
<1>1. d \in Config
  BY DEF Config, Triple
<1>2. /\ d.field[f] = v /\ d.items = n /\ \A g \in Fields \ {f} : d.field[g] = c.field[g]
  BY DEF Config
<1>3. IgnoreFiles \in Fields /\ c.items \in Nat
  BY DEF Fields, Config
<1> HIDE DEF d
<1>4. ASSUME NEW s \in Owned(d) PROVE s \in Owned(c) \/ s = v
  <2>1. CASE \E g \in Fields : d.field[g] \in Triple /\ s = d.field[g]
    BY <1>2, <2>1, OwnedBy
  <2>2. CASE d.field[IgnoreFiles] \in Triple /\ s \in ItemsOf(d.field[IgnoreFiles], d.items)
    <3>1. CASE f = IgnoreFiles
      <4>1. s[3] \in 1 .. 0
        BY <1>2, <2>2, <3>1, ItemsAre
      <4>2. QED
        BY <4>1
    <3>2. CASE f # IgnoreFiles
      BY <1>2, <1>3, <2>2, <3>2, OwnedBy
    <3>3. QED
      BY <3>1, <3>2
  <2>3. QED
    BY <1>1, <2>1, <2>2, OwnedBy
<1>5. v \in Owned(d)
  BY <1>1, <1>2, OwnedBy
<1>6. ASSUME NEW s \in Owned(c) \ Owned(d)
      PROVE  c.field[f] \in Triple /\ s[1] = c.field[f][1] /\ s[2] = c.field[f][2]
  <2>1. CASE \E g \in Fields : c.field[g] \in Triple /\ s = c.field[g]
    BY <1>1, <1>2, <1>6, <2>1, OwnedBy
  <2>2. CASE c.field[IgnoreFiles] \in Triple /\ s \in ItemsOf(c.field[IgnoreFiles], c.items)
    <3>1. f = IgnoreFiles
      BY <1>1, <1>2, <1>3, <1>6, <2>2, OwnedBy
    <3>2. QED
      BY <1>3, <2>2, <3>1, ItemsAre
  <2>3. QED
    BY <1>6, <2>1, <2>2, OwnedBy
<1>7. QED
  BY <1>1, <1>4, <1>5, <1>6 DEF d

\* Every step keeps what is known of the array that is being filled.
LEMMA ArrayStep == TypeOK /\ Positions /\ ArrayInv /\ [Next]_vars => ArrayInv'
<1> SUFFICES ASSUME TypeOK, Positions, ArrayInv, [Next]_vars, pc' = "item" PROVE ArrayInv'
  BY DEF ArrayInv
<1> USE DEF Goto, position
<1>1. CASE NewArray
  <2>1. Last \in DOMAIN cfgs /\ cfgs[Last] \in Config /\ IgnoreFiles \in Fields
    BY <1>1, EntryTypes DEF NewArray, AtEntry, Fields
  <2>2. /\ cfgs'[Last].field[IgnoreFiles] = <<el, en, 0>> /\ cfgs'[Last].items = 0
        /\ Len(cfgs') = Len(cfgs)
    BY <1>1, <2>1 DEF NewArray, Assign, Config, TypeOK, Last
  <2>3. QED
    BY <1>1, <2>2 DEF NewArray, ArrayInv, Last
<1>2. CASE CopyItem
  <2>1. /\ pc = "item" /\ cfgs' = [cfgs EXCEPT ![Last].items = it] /\ it' = it + 1
        /\ UNCHANGED <<el, en>>
    BY <1>2 DEF CopyItem
  <2>2. Last \in DOMAIN cfgs /\ cfgs[Last] \in Config /\ it \in Nat
    BY <2>1, EntryTypes DEF TypeOK
  <2>3. /\ cfgs'[Last].field = cfgs[Last].field /\ cfgs'[Last].items = it
        /\ Len(cfgs') = Len(cfgs)
    BY <2>1, <2>2 DEF Config, TypeOK, Last
  <2>4. QED
    BY <2>1, <2>2, <2>3 DEF ArrayInv, Last
<1>3. CASE Destroy \/ Stopped \/ UNCHANGED vars
  <2>1. UNCHANGED vars
    BY <1>3 DEF Destroy, Stopped
  <2>2. QED
    BY <2>1 DEF vars, ArrayInv, Last
<1>4. QED
  BY <1>1, <1>2, <1>3
  DEF Next, Step, Read, NextElement, Loaded, Reject, SetString, SetPlain, ItemsDone,
      EntriesDone, Destroyed, Used, AtEntry

\* What the steps inside of an element do to its config_t: what it owns anew
\* is from the heap, and what it does not own any more is from an entry for
\* the same key, whose value was replaced.
Changes(d) ==
  /\ Last \in DOMAIN cfgs /\ Last = el /\ d \in Config
  /\ cfgs' = [cfgs EXCEPT ![Last] = d]
  /\ UNCHANGED <<file, el, wrong>> /\ pc \in {"entry", "item"}
  /\ heap \subseteq heap'
  /\ \A s \in Owned(d) : s \in Owned(cfgs[Last]) \/ (s \in heap' /\ s[1] = el)
  /\ heap' \subseteq heap \cup Owned(d)
  /\ \A s \in Owned(cfgs[Last]) \ Owned(d) :
       /\ AtEntry(Fields)
       /\ cfgs[Last].field[This.key] \in Triple
       /\ s[1] = cfgs[Last].field[This.key][1] /\ s[2] = cfgs[Last].field[This.key][2]

\* An assignment changes the last config_t.
LEMMA AssignChanges ==
  ASSUME TypeOK, Positions, AtEntry(Fields), NEW n \in Nat,
         IF This.key = IgnoreFiles THEN n = 0 ELSE n = cfgs[Last].items,
         Assign(This.key, n), UNCHANGED <<file, el, wrong>>
  PROVE  \E d : Changes(d)
<1>1. /\ Last \in DOMAIN cfgs /\ Last = el /\ cfgs[Last] \in Config
      /\ This.key \in Fields /\ <<el, en, 0>> \in Triple /\ pc = "entry"
  BY EntryTypes DEF AtEntry, TypeOK, Triple
<1> DEFINE d == [field |-> [cfgs[Last].field EXCEPT ![This.key] = <<el, en, 0>>], items |-> n]
<1>2. /\ d \in Config /\ <<el, en, 0>> \in Owned(d)
      /\ \A s \in Owned(d) : s \in Owned(cfgs[Last]) \/ s = <<el, en, 0>>
      /\ \A s \in Owned(cfgs[Last]) \ Owned(d) :
           /\ cfgs[Last].field[This.key] \in Triple
           /\ s[1] = cfgs[Last].field[This.key][1] /\ s[2] = cfgs[Last].field[This.key][2]
  BY <1>1, AssignOwned
<1>3. cfgs' = [cfgs EXCEPT ![Last] = d] /\ heap' = heap \cup {<<el, en, 0>>}
  BY DEF Assign
<1>4. <<el, en, 0>>[1] = el
  OBVIOUS
<1> HIDE DEF d
<1>5. Changes(d)
  BY <1>1, <1>2, <1>3, <1>4 DEF Changes
<1>6. QED
  BY <1>5

\* So do a copied pattern and the defaults.
LEMMA StepChanges ==
  ASSUME TypeOK, Positions, ArrayInv,
         SetString \/ NewArray \/ CopyItem \/ EntriesDone, ~UNCHANGED <<cfgs, heap>>
  PROVE  \E d : Changes(d)
<1> USE DEF Goto, position
<1>1. CASE SetString
  <2>1. AtEntry(Fields) /\ This.key # IgnoreFiles
    BY <1>1, KeysAssumption DEF SetString, AtEntry, Fields, Strings, Label, IgnoreFiles
  <2>2. cfgs[Last].items \in Nat
    BY <2>1, EntryTypes DEF AtEntry, Config
  <2>3. QED
    BY <1>1, <2>1, <2>2, AssignChanges DEF SetString
<1>2. CASE NewArray
  <2>1. AtEntry(Fields) /\ This.key = IgnoreFiles
    BY <1>2 DEF NewArray, AtEntry, Fields
  <2>2. QED
    BY <1>2, <2>1, AssignChanges DEF NewArray
<1>3. CASE CopyItem
  <2>1. /\ pc = "item" /\ cfgs' = [cfgs EXCEPT ![Last].items = it]
        /\ heap' = heap \cup {<<el, en, it>>} /\ UNCHANGED <<file, el, wrong>>
        /\ it <= Len(This.items)
    BY <1>3 DEF CopyItem
  <2>2. /\ Last \in DOMAIN cfgs /\ Last = el /\ cfgs[Last] \in Config
        /\ it \in Nat \ {0} /\ el \in Nat /\ en \in Nat
    BY <2>1, EntryTypes DEF TypeOK, Positions
  <2> DEFINE c == cfgs[Last]
             d == [field |-> c.field, items |-> it]
  <2>3. d \in Config /\ d.field = c.field /\ d.items = it
    BY <2>2 DEF Config
  <2>4. [c EXCEPT !.items = it] = d
    BY <2>2 DEF Config
  <2>5. cfgs' = [cfgs EXCEPT ![Last] = d]
    BY <2>1, <2>4
  <2>6. /\ IgnoreFiles \in Fields /\ c.field[IgnoreFiles] = <<el, en, 0>>
        /\ c.items = it - 1 /\ c.field[IgnoreFiles] \in Triple
    <3>1. <<el, en, 0>> \in Triple
      BY <2>2 DEF Triple
    <3>2. IgnoreFiles \in Fields
      BY DEF Fields
    <3>3. c.field[IgnoreFiles] = <<el, en, 0>> /\ c.items = it - 1
      BY <2>1 DEF ArrayInv
    <3>4. QED
      BY <3>1, <3>2, <3>3
  <2>7. /\ ItemsOf(<<el, en, 0>>, it) = ItemsOf(<<el, en, 0>>, it - 1) \cup {<<el, en, it>>}
    BY <2>2 DEF ItemsOf
  <2> HIDE DEF d
  <2>8. \A s : s \in Owned(d) <=> s \in Owned(c) \/ s = <<el, en, it>>
    BY <2>2, <2>3, <2>6, <2>7, OwnedBy
  <2>9. <<el, en, it>>[1] = el
    OBVIOUS
  <2>10. Changes(d)
    BY <2>1, <2>2, <2>3, <2>5, <2>8, <2>9 DEF Changes
  <2>11. QED
    BY <2>10
<1>4. CASE EntriesDone
  <2>1. /\ pc = "entry" /\ UNCHANGED <<file, el, wrong, heap>>
        /\ cfgs' = [cfgs EXCEPT ![Last].field = [f \in Fields |-> Default(cfgs[Last], f)]]
    BY <1>4 DEF EntriesDone
  <2>2. Last \in DOMAIN cfgs /\ Last = el /\ cfgs[Last] \in Config
    BY <2>1, EntryTypes
  <2> DEFINE c == cfgs[Last]
             g == [f \in Fields |-> Default(c, f)]
             d == [field |-> g, items |-> c.items]
  <2>3. g \in [Fields -> {Null, Dummy} \cup Triple]
    BY <2>2 DEF Config, Default, Triple
  <2>4. \A f \in Fields : g[f] = c.field[f] \/ (g[f] = Dummy /\ c.field[f] = Null)
    BY DEF Default
  <2> HIDE DEF g
  <2>5. d \in Config /\ d.field = g /\ d.items = c.items
    BY <2>2, <2>3 DEF Config, Triple
  <2>6. [c EXCEPT !.field = g] = d
    BY <2>2 DEF Config
  <2>7. cfgs' = [cfgs EXCEPT ![Last] = d]
    BY <2>1, <2>6 DEF g
  <2> HIDE DEF d
  <2>8. IgnoreFiles \in Fields
    BY DEF Fields
  <2>9. \A f \in Fields : (g[f] \in Triple \/ c.field[f] \in Triple) => g[f] = c.field[f]
    BY <2>4, TripleIsNoMarker
  <2>10. \A s : s \in Owned(d) <=> s \in Owned(c)
    BY <2>2, <2>5, <2>8, <2>9, OwnedBy
  <2>11. Changes(d)
    BY <2>1, <2>2, <2>5, <2>7, <2>10 DEF Changes
  <2>12. QED
    BY <2>11
<1>5. QED
  BY <1>1, <1>2, <1>3, <1>4

\* A change of the last config_t keeps what the others own.
LEMMA OwnChange ==
  ASSUME TypeOK, Positions, OwnInv, NEW d, Changes(d)
  PROVE  OwnInv'
<1>1. /\ Last \in DOMAIN cfgs /\ Last = el /\ cfgs' = [cfgs EXCEPT ![Last] = d]
      /\ UNCHANGED el /\ heap \subseteq heap' /\ el \in Nat
      /\ \A s \in Owned(d) : s \in Owned(cfgs[Last]) \/ (s \in heap' /\ s[1] = el)
  BY DEF Changes, TypeOK
<1>2. /\ Len(cfgs') = Len(cfgs) /\ DOMAIN cfgs' = DOMAIN cfgs /\ cfgs'[Last] = d
      /\ \A i \in DOMAIN cfgs \ {Last} : cfgs'[i] = cfgs[i]
  BY <1>1 DEF TypeOK
<1>3. Number(Last) = el /\ \A i \in DOMAIN cfgs : Number(i)' = Number(i)
  BY <1>1, <1>2 DEF Number, Last, TypeOK
<1>4. ASSUME NEW i \in DOMAIN cfgs', NEW s \in Owned(cfgs'[i])
      PROVE  s \in heap' /\ s[1] = Number(i)'
  <2>1. CASE i = Last
    BY <1>1, <1>2, <1>3, <1>4, <2>1 DEF OwnInv
  <2>2. CASE i # Last
    BY <1>1, <1>2, <1>3, <1>4, <2>2 DEF OwnInv
  <2>3. QED
    BY <2>1, <2>2
<1>5. QED
  BY <1>4 DEF OwnInv, Owned, Pointed

\* Every step keeps what is owned apart and allocated, and frees only that.
LEMMA OwnStep ==
  TypeOK /\ Positions /\ ArrayInv /\ OwnInv /\ ~wrong /\ [Next]_vars => OwnInv' /\ ~wrong'
<1> SUFFICES ASSUME TypeOK, Positions, ArrayInv, OwnInv, ~wrong, [Next]_vars
             PROVE  OwnInv' /\ ~wrong'
  OBVIOUS
<1> USE DEF Goto, position
<1>a. Len(cfgs) \in Nat /\ el \in Nat /\ DOMAIN cfgs = 1 .. Len(cfgs)
  BY DEF TypeOK
<1>1. CASE UNCHANGED <<cfgs, heap, wrong, el>>
  BY <1>1 DEF OwnInv, Number
<1>2. CASE NextElement
  <2>1. /\ cfgs' = Append(cfgs, NewConfig) /\ el' = el + 1 /\ UNCHANGED <<heap, wrong>>
    BY <1>2 DEF NextElement
  <2>2. NewConfig \in Config /\ Owned(NewConfig) = {}
    <3>1. NewConfig \in Config
      BY DEF NewConfig, Config
    <3>2. \A f \in Fields : NewConfig.field[f] = Null
      BY DEF NewConfig
    <3>3. Null \notin Triple /\ IgnoreFiles \in Fields
      BY TripleIsNoMarker DEF Fields
    <3> HIDE DEF NewConfig
    <3>4. \A s : s \notin Owned(NewConfig)
      BY <3>1, <3>2, <3>3, OwnedBy
    <3>5. QED
      BY <3>1, <3>4
  <2>3. /\ DOMAIN cfgs' = 1 .. Len(cfgs) + 1 /\ cfgs'[Len(cfgs) + 1] = NewConfig
        /\ Len(cfgs') = Len(cfgs) + 1
        /\ \A i \in DOMAIN cfgs : cfgs'[i] = cfgs[i]
    BY <2>1, <2>2, <1>a DEF TypeOK
  <2>4. \A i \in DOMAIN cfgs : Number(i)' = Number(i)
    BY <2>1, <2>3, <1>a DEF Number
  <2>5. \A i \in DOMAIN cfgs' : i \in DOMAIN cfgs \/ i = Len(cfgs) + 1
    BY <2>3, <1>a
  <2>6. \A i \in DOMAIN cfgs' : \A s \in Owned(cfgs'[i]) : s \in heap' /\ s[1] = Number(i)'
    BY <2>1, <2>2, <2>3, <2>4, <2>5 DEF OwnInv
  <2>7. QED
    BY <2>1, <2>6 DEF OwnInv, Owned, Pointed
<1>3. CASE Destroy
  <2>1. /\ cfgs # <<>> /\ heap' = heap \ Owned(cfgs[1]) /\ cfgs' = Tail(cfgs) /\ UNCHANGED el
        /\ wrong' = (wrong \/ ~(Owned(cfgs[1]) \subseteq heap))
    BY <1>3 DEF Destroy
  <2>2. 1 \in DOMAIN cfgs /\ Owned(cfgs[1]) \subseteq heap
    BY <1>a, <2>1 DEF OwnInv, TypeOK
  <2>3. Len(cfgs') = Len(cfgs) - 1 /\ DOMAIN cfgs' = 1 .. Len(cfgs) - 1
    BY <2>1, <1>a DEF TypeOK
  <2>4. \A i \in DOMAIN cfgs' : i + 1 \in DOMAIN cfgs /\ cfgs'[i] = cfgs[i + 1]
    BY <2>1, <2>3, <1>a DEF TypeOK
  <2>5. \A i \in DOMAIN cfgs' : Number(i)' = Number(i + 1) /\ Number(i + 1) # Number(1)
    BY <2>1, <2>3, <1>a DEF Number
  <2>6. \A i \in DOMAIN cfgs' : \A s \in Owned(cfgs'[i]) : s \in heap' /\ s[1] = Number(i)'
    BY <2>1, <2>2, <2>4, <2>5 DEF OwnInv
  <2>7. QED
    BY <2>1, <2>2, <2>6 DEF OwnInv, Owned, Pointed
<1>4. CASE SetString \/ NewArray \/ CopyItem \/ EntriesDone
  <2>1. CASE UNCHANGED cfgs
    <3>1. CASE CopyItem \/ EntriesDone
      <4>1. CASE UNCHANGED heap
        BY <1>1, <2>1, <3>1, <4>1 DEF CopyItem, EntriesDone
      <4>2. CASE ~UNCHANGED heap
        <5>1. heap \subseteq heap' /\ UNCHANGED <<el, wrong>>
          BY <3>1, <4>2 DEF CopyItem, EntriesDone
        <5>2. QED
          BY <2>1, <5>1 DEF OwnInv, Number
      <4>3. QED
        BY <4>1, <4>2
    <3>2. CASE SetString \/ NewArray
      <4>1. heap \subseteq heap' /\ UNCHANGED <<el, wrong>>
        BY <3>2 DEF SetString, NewArray, Assign
      <4>2. QED
        BY <2>1, <4>1 DEF OwnInv, Number
    <3>3. QED
      BY <1>4, <3>1, <3>2
  <2>2. CASE ~UNCHANGED cfgs
    <3>1. PICK d : Changes(d)
      BY <1>4, <2>2, StepChanges
    <3>2. UNCHANGED wrong
      BY <3>1 DEF Changes
    <3>3. QED
      BY <3>1, <3>2, OwnChange
  <2>3. QED
    BY <2>1, <2>2
<1>5. QED
  BY <1>1, <1>2, <1>3, <1>4
  DEF Next, Step, Read, Loaded, Reject, SetPlain, ItemsDone, Destroyed, Used, Stopped, vars

-----------------------------------------------------------------------------
(* What the fields hold.                                                   *)

\* Whether set_config is in the last element it was given.
Busy == pc \in {"entry", "item"}

\* The entries of that element whose value has gone to its field.
Assigned == IF pc = "item" THEN 1 .. en ELSE 1 .. en - 1

\* Of the entries A of E for the key f, v is the value of the last one.
Latest(E, i, A, f, v, none) ==
  \/ v = none /\ \A e \in A : E[e].key # f
  \/ \E e \in A : /\ v = <<i, e, 0>> /\ E[e].key = f
                  /\ \A g \in A : E[g].key = f => g <= e

EntriesOf(i) == file.elements[i].entries

FieldRight(i, f) ==
  IF i = el /\ Busy
  THEN Latest(EntriesOf(i), i, Assigned, f, cfgs[i].field[f], Null)
  ELSE Latest(EntriesOf(i), i, DOMAIN EntriesOf(i), f, cfgs[i].field[f], Dummy)

FieldsInv == pc \in Loading => \A i \in DOMAIN cfgs : \A f \in Fields : FieldRight(i, f)

\* The next entry for the key, and one for another key.
LEMMA LatestOfMore ==
  ASSUME NEW E, NEW i, NEW n \in Nat \ {0}, NEW f, NEW v, NEW none
  PROVE  /\ E[n].key = f => Latest(E, i, 1 .. n, f, <<i, n, 0>>, none)
         /\ E[n].key # f /\ Latest(E, i, 1 .. n - 1, f, v, none)
              => Latest(E, i, 1 .. n, f, v, none)
<1>1. 1 .. n = (1 .. n - 1) \cup {n} /\ \A e \in 1 .. n : e <= n
  OBVIOUS
<1>2. QED
  BY <1>1 DEF Latest

\* A step to the next entry that gives the field f of the last config_t, and
\* no other, the value of this one, or gives none when its key is no field.
LEMMA EntryFields ==
  ASSUME TypeOK, Positions, FieldsInv, pc = "entry", en <= Len(Entries),
         UNCHANGED <<file, el>>, pc' \in Loading, Busy', Assigned' = 1 .. en,
         DOMAIN cfgs' = DOMAIN cfgs,
         \A i \in DOMAIN cfgs \ {Last} : cfgs'[i] = cfgs[i],
         \A f \in Fields :
           cfgs'[Last].field[f] = IF f = This.key THEN <<el, en, 0>> ELSE cfgs[Last].field[f]
  PROVE  FieldsInv'
<1> SUFFICES ASSUME NEW i \in DOMAIN cfgs, NEW f \in Fields PROVE FieldRight(i, f)'
  BY DEF FieldsInv
<1>1. FieldRight(i, f) /\ Last = el /\ en \in Nat \ {0} /\ EntriesOf(i)' = EntriesOf(i)
  BY EntryTypes DEF FieldsInv, Loading, EntriesOf, Positions
<1>2. CASE i # el
  <2>1. cfgs'[i] = cfgs[i]
    BY <1>1, <1>2
  <2>2. QED
    BY <1>1, <1>2, <2>1 DEF FieldRight
<1>3. CASE i = el
  <2>1. Latest(EntriesOf(i), i, 1 .. en - 1, f, cfgs[i].field[f], Null)
    BY <1>1, <1>3 DEF FieldRight, Busy, Assigned
  <2>2. This.key = EntriesOf(i)[en].key
    BY <1>3 DEF EntriesOf, This, Entries
  <2>3. Latest(EntriesOf(i), i, 1 .. en, f, cfgs'[i].field[f], Null)
    <3>1. CASE f = This.key
      BY <1>1, <1>3, <2>2, <3>1, LatestOfMore
    <3>2. CASE f # This.key
      BY <1>1, <1>3, <2>1, <2>2, <3>2, LatestOfMore
    <3>3. QED
      BY <3>1, <3>2
  <2>4. QED
    BY <1>1, <1>3, <2>3 DEF FieldRight
<1>4. QED
  BY <1>2, <1>3

\* A step that goes on in the same entry, or past it, with the fields as they are.
LEMMA SameFields ==
  ASSUME FieldsInv, pc \in Loading, UNCHANGED <<file, el>>, Busy' = Busy, Assigned' = Assigned,
         DOMAIN cfgs' = DOMAIN cfgs, \A i \in DOMAIN cfgs : cfgs'[i].field = cfgs[i].field
  PROVE  FieldsInv'
<1> SUFFICES ASSUME NEW i \in DOMAIN cfgs, NEW f \in Fields PROVE FieldRight(i, f)'
  BY DEF FieldsInv
<1>1. FieldRight(i, f) /\ EntriesOf(i)' = EntriesOf(i) /\ cfgs'[i].field = cfgs[i].field
  BY DEF FieldsInv, EntriesOf
<1>2. QED
  BY <1>1 DEF FieldRight

\* Every step that goes on loading gives the fields the values they are to have.
LEMMA FieldsStep ==
  TypeOK /\ Positions /\ ArrayInv /\ FieldsInv /\ [Next]_vars => FieldsInv'
<1> SUFFICES ASSUME TypeOK, Positions, ArrayInv, FieldsInv, [Next]_vars, pc' \in Loading
             PROVE  FieldsInv'
  BY DEF FieldsInv
<1> USE DEF Goto, position
<1>a. Len(cfgs) \in Nat /\ el \in Nat /\ DOMAIN cfgs = 1 .. Len(cfgs)
  BY DEF TypeOK
<1>1. CASE Read
  <2>1. cfgs' = <<>> /\ DOMAIN cfgs' = {}
    BY <1>1 DEF Read, Positions
  <2>2. QED
    BY <2>1 DEF FieldsInv
<1>2. CASE NextElement
  <2>1. /\ UNCHANGED file /\ pc = "element" /\ pc' = "entry" /\ el' = el + 1 /\ en' = 1
        /\ cfgs' = Append(cfgs, NewConfig) /\ Len(cfgs) = el
    BY <1>2 DEF NextElement, Loading, Positions
  <2>2. /\ DOMAIN cfgs' = 1 .. el + 1 /\ cfgs'[el + 1] = NewConfig
        /\ \A i \in DOMAIN cfgs : cfgs'[i] = cfgs[i]
    BY <1>a, <2>1 DEF TypeOK
  <2>3. ASSUME NEW i \in DOMAIN cfgs', NEW f \in Fields PROVE FieldRight(i, f)'
    <3>1. EntriesOf(i)' = EntriesOf(i)
      BY <2>1 DEF EntriesOf
    <3>2. CASE i \in DOMAIN cfgs
      <4>1. i # el' /\ cfgs'[i] = cfgs[i] /\ ~Busy /\ FieldRight(i, f)
        BY <1>a, <2>1, <2>2, <3>2 DEF Busy, FieldsInv, Loading
      <4>2. QED
        BY <3>1, <4>1 DEF FieldRight
    <3>3. CASE i \notin DOMAIN cfgs
      <4>1. i = el' /\ cfgs'[i].field[f] = Null
        BY <1>a, <2>1, <2>2, <3>3 DEF NewConfig
      <4>2. Busy' /\ Assigned' = {}
        BY <2>1 DEF Busy, Assigned
      <4>3. Latest(EntriesOf(i)', i, Assigned', f, cfgs'[i].field[f], Null)
        BY <4>1, <4>2 DEF Latest
      <4>4. QED
        BY <4>1, <4>2, <4>3 DEF FieldRight
    <3>4. QED
      BY <3>2, <3>3
  <2>4. QED
    BY <2>3 DEF FieldsInv
<1>3. CASE Loaded \/ Stopped \/ UNCHANGED vars
  <2>1. UNCHANGED <<file, el, en, cfgs>> /\ Busy' = Busy /\ Assigned' = Assigned /\ pc \in Loading
    BY <1>3 DEF Loaded, Stopped, vars, Busy, Assigned, Loading
  <2>2. QED
    BY <2>1, SameFields
<1>4. CASE SetString \/ NewArray
  <2>1. /\ UNCHANGED <<file, el>> /\ AtEntry(Fields) /\ \E n \in Nat : Assign(This.key, n)
        /\ Assigned' = 1 .. en /\ Busy'
    <3>1. CASE SetString
      <4>1. /\ UNCHANGED <<file, el>> /\ AtEntry(Fields) /\ Assign(This.key, cfgs[Last].items)
            /\ pc' = "entry" /\ en' = en + 1
        BY <3>1 DEF SetString, AtEntry, Fields
      <4>2. cfgs[Last].items \in Nat
        BY <4>1, EntryTypes DEF AtEntry, Config
      <4>3. Busy' /\ Assigned' = 1 .. en
        BY <4>1 DEF Busy, Assigned, TypeOK
      <4>4. \E n \in Nat : Assign(This.key, n)
        BY <4>1, <4>2
      <4>5. QED
        BY <4>1, <4>3, <4>4
    <3>2. CASE NewArray
      BY <3>2 DEF NewArray, AtEntry, Fields, Busy, Assigned
    <3>3. QED
      BY <1>4, <3>1, <3>2
  <2>2. /\ pc = "entry" /\ en <= Len(Entries) /\ This.key \in Fields
        /\ Last \in DOMAIN cfgs /\ cfgs[Last] \in Config
    BY <2>1, EntryTypes DEF AtEntry
  <2>3. PICK n \in Nat : Assign(This.key, n)
    BY <2>1
  <2>4. /\ DOMAIN cfgs' = DOMAIN cfgs
        /\ \A i \in DOMAIN cfgs \ {Last} : cfgs'[i] = cfgs[i]
        /\ cfgs'[Last].field = [cfgs[Last].field EXCEPT ![This.key] = <<el, en, 0>>]
    BY <2>2, <2>3 DEF Assign, TypeOK
  <2>5. \A f \in Fields :
          cfgs'[Last].field[f] = IF f = This.key THEN <<el, en, 0>> ELSE cfgs[Last].field[f]
    BY <2>2, <2>4 DEF Config
  <2>6. QED
    BY <2>1, <2>2, <2>4, <2>5, EntryFields
<1>5. CASE SetPlain
  <2>1. /\ UNCHANGED <<file, el, cfgs>> /\ pc = "entry" /\ pc' = "entry" /\ en' = en + 1
        /\ en <= Len(Entries) /\ This.key \in Plain
    BY <1>5 DEF SetPlain, AtEntry
  <2>2. This.key \notin Fields
    BY <2>1, KeysAssumption DEF Fields, Strings
  <2>3. Assigned' = 1 .. en /\ Busy'
    BY <2>1 DEF Assigned, Busy, TypeOK
  <2>4. QED
    BY <2>1, <2>2, <2>3, EntryFields
<1>6. CASE CopyItem \/ ItemsDone
  <2>1. /\ UNCHANGED <<file, el>> /\ pc = "item"
        /\ (pc' = "item" /\ UNCHANGED en) \/ (pc' = "entry" /\ en' = en + 1)
        /\ UNCHANGED cfgs \/ cfgs' = [cfgs EXCEPT ![Last].items = it]
    BY <1>6 DEF CopyItem, ItemsDone, Loading
  <2>2. Last \in DOMAIN cfgs /\ \A i \in DOMAIN cfgs : cfgs[i] \in Config
    BY <2>1, EntryTypes
  <2>3. DOMAIN cfgs' = DOMAIN cfgs /\ \A i \in DOMAIN cfgs : cfgs'[i].field = cfgs[i].field
    BY <2>1, <2>2 DEF Config, TypeOK
  <2>4. Busy /\ Busy' /\ Assigned' = Assigned
    BY <2>1 DEF Busy, Assigned, TypeOK
  <2>5. QED
    BY <2>1, <2>3, <2>4, SameFields DEF Loading
<1>7. CASE EntriesDone
  <2> DEFINE g == [f \in Fields |-> Default(cfgs[Last], f)]
  <2>1. /\ UNCHANGED <<file, el, en>> /\ pc = "entry" /\ pc' = "element" /\ en > Len(Entries)
        /\ Complete(cfgs[Last]) /\ cfgs' = [cfgs EXCEPT ![Last].field = g]
    BY <1>7 DEF EntriesDone, Loading
  <2>2. Last \in DOMAIN cfgs /\ Last = el /\ cfgs[Last] \in Config
    BY <2>1, EntryTypes
  <2>3. /\ DOMAIN cfgs' = DOMAIN cfgs /\ cfgs'[Last].field = g
        /\ \A i \in DOMAIN cfgs \ {Last} : cfgs'[i] = cfgs[i]
    BY <2>1, <2>2 DEF Config, TypeOK
  <2>4. Assigned = DOMAIN EntriesOf(el) /\ Busy /\ ~Busy'
    <3>1. en = Len(Entries) + 1 /\ Entries \in Seq(Entry)
      BY <2>1, EntryTypes DEF Positions, TypeOK
    <3>2. DOMAIN Entries = 1 .. en - 1
      BY <3>1
    <3>3. QED
      BY <2>1, <3>2 DEF Assigned, Busy, EntriesOf, Entries
  <2>5. ASSUME NEW i \in DOMAIN cfgs, NEW f \in Fields PROVE FieldRight(i, f)'
    <3>1. EntriesOf(i)' = EntriesOf(i) /\ FieldRight(i, f)
      BY <2>1 DEF EntriesOf, FieldsInv, Loading
    <3>2. CASE i # el
      BY <2>1, <2>2, <2>3, <3>1, <3>2 DEF FieldRight
    <3>3. CASE i = el
      <4>1. Latest(EntriesOf(i), i, DOMAIN EntriesOf(i), f, cfgs[i].field[f], Null)
        BY <2>4, <3>1, <3>3 DEF FieldRight
      <4>2. f \notin {Label, IgnoreFiles} => cfgs[i].field[f] # Null
        BY <2>1, <2>2, <3>3 DEF Complete, Fields, Strings
      <4>3. cfgs'[i].field[f] = IF cfgs[i].field[f] = Null THEN Dummy ELSE cfgs[i].field[f]
        BY <2>2, <2>3, <3>3, <4>2 DEF Default
      <4>4. \A e : <<i, e, 0>> # Null
        BY DEF Null
      <4>5. Latest(EntriesOf(i), i, DOMAIN EntriesOf(i), f, cfgs'[i].field[f], Dummy)
        BY <4>1, <4>3, <4>4 DEF Latest
      <4>6. QED
        BY <2>4, <3>1, <4>5 DEF FieldRight
    <3>4. QED
      BY <3>2, <3>3
  <2>6. QED
    BY <2>3, <2>5 DEF FieldsInv
<1>8. QED
  BY <1>1, <1>2, <1>3, <1>4, <1>5, <1>6, <1>7
  DEF Next, Step, Reject, Destroy, Destroyed, Used, Loading

\* A finished array of patterns has all of them.
PatternsInv ==
  pc \in Loading =>
    \A i \in DOMAIN cfgs : \A e \in Nat :
      cfgs[i].field[IgnoreFiles] = <<i, e, 0>> /\ ~(i = el /\ pc = "item")
        => cfgs[i].items = Len(EntriesOf(i)[e].items)

\* Every step that goes on loading keeps the arrays whole.
LEMMA PatternsStep ==
  TypeOK /\ Positions /\ ArrayInv /\ PatternsInv /\ [Next]_vars => PatternsInv'
<1> SUFFICES ASSUME TypeOK, Positions, ArrayInv, PatternsInv, [Next]_vars, pc' \in Loading,
                    NEW i \in DOMAIN cfgs', NEW e \in Nat,
                    cfgs'[i].field[IgnoreFiles] = <<i, e, 0>>, ~(i = el' /\ pc' = "item")
             PROVE  cfgs'[i].items = Len(EntriesOf(i)'[e].items)
  BY DEF PatternsInv
<1> USE DEF Goto, position
<1>a. Len(cfgs) \in Nat /\ el \in Nat /\ DOMAIN cfgs = 1 .. Len(cfgs) /\ IgnoreFiles \in Fields
  BY DEF TypeOK, Fields
<1>b. EntriesOf(i)' = EntriesOf(i)
  BY DEF Next, Step, Read, NextElement, Loaded, Reject, SetString, SetPlain, NewArray,
         CopyItem, ItemsDone, EntriesDone, Destroy, Destroyed, Used, Stopped, vars, EntriesOf
<1>1. CASE /\ pc \in Loading /\ i \in DOMAIN cfgs /\ ~(i = el /\ pc = "item")
           /\ cfgs'[i].items = cfgs[i].items
           /\ cfgs'[i].field[IgnoreFiles] = cfgs[i].field[IgnoreFiles]
  BY <1>1, <1>b DEF PatternsInv
<1>2. CASE Read
  BY <1>2 DEF Read, Positions
<1>3. CASE NextElement
  <2>1. /\ DOMAIN cfgs' = 1 .. Len(cfgs) + 1 /\ cfgs'[Len(cfgs) + 1] = NewConfig
        /\ \A j \in DOMAIN cfgs : cfgs'[j] = cfgs[j]
    BY <1>3, <1>a DEF NextElement, TypeOK
  <2>2. i # Len(cfgs) + 1
    BY <1>a, <2>1 DEF NewConfig, Null
  <2>3. i \in DOMAIN cfgs /\ cfgs'[i] = cfgs[i] /\ pc = "element"
    BY <1>3, <1>a, <2>1, <2>2 DEF NextElement
  <2>4. QED
    BY <1>1, <2>3 DEF Loading
<1>4. CASE Loaded \/ SetPlain \/ Stopped \/ UNCHANGED vars
  BY <1>1, <1>4 DEF Loaded, SetPlain, AtEntry, Stopped, vars, Loading
<1>5. CASE SetString
  <2>1. pc = "entry" /\ Assign(This.key, cfgs[Last].items) /\ This.key # IgnoreFiles
    BY <1>5, KeysAssumption DEF SetString, AtEntry, Strings, Label, IgnoreFiles
  <2>2. Last \in DOMAIN cfgs /\ \A j \in DOMAIN cfgs : cfgs[j] \in Config
    BY <2>1, EntryTypes
  <2>3. /\ i \in DOMAIN cfgs /\ cfgs'[i].items = cfgs[i].items
        /\ cfgs'[i].field[IgnoreFiles] = cfgs[i].field[IgnoreFiles]
    BY <1>a, <2>1, <2>2 DEF Assign, Config, TypeOK
  <2>4. QED
    BY <1>1, <2>1, <2>3 DEF Loading
<1>6. CASE NewArray \/ CopyItem
  <2>1. /\ pc \in {"entry", "item"} /\ pc' = "item" /\ el' = el
        /\ \E d : cfgs' = [cfgs EXCEPT ![Last] = d]
    BY <1>6 DEF NewArray, AtEntry, Assign, CopyItem, Loading
  <2>2. i \in DOMAIN cfgs /\ i # Last /\ cfgs'[i] = cfgs[i] /\ Last = el
    BY <2>1, EntryTypes DEF TypeOK
  <2>3. QED
    BY <1>1, <2>1, <2>2 DEF Loading
<1>7. CASE ItemsDone
  <2>1. pc = "item" /\ UNCHANGED <<cfgs, el>> /\ it > Len(This.items)
    BY <1>7 DEF ItemsDone
  <2>2. CASE i = el
    <3>1. Last = el /\ cfgs[i].field[IgnoreFiles] = <<el, en, 0>> /\ cfgs[i].items = it - 1
      BY <2>1, <2>2, EntryTypes DEF ArrayInv
    <3>2. e = en /\ This = EntriesOf(i)[e]
      BY <2>1, <2>2, <3>1 DEF This, Entries, EntriesOf
    <3>3. it - 1 = Len(This.items)
      <4>1. This.items \in Seq(BOOLEAN)
        BY <2>1, EntryTypes DEF Entry, Positions
      <4>2. QED
        BY <2>1, <4>1 DEF Positions, TypeOK
    <3>4. QED
      BY <1>b, <2>1, <3>1, <3>2, <3>3
  <2>3. CASE i # el
    BY <1>1, <2>1, <2>3 DEF Loading
  <2>4. QED
    BY <2>2, <2>3
<1>8. CASE EntriesDone
  <2> DEFINE g == [f \in Fields |-> Default(cfgs[Last], f)]
  <2>1. pc = "entry" /\ cfgs' = [cfgs EXCEPT ![Last].field = g]
    BY <1>8 DEF EntriesDone, Loading
  <2>2. Last \in DOMAIN cfgs /\ \A j \in DOMAIN cfgs : cfgs[j] \in Config
    BY <2>1, EntryTypes
  <2>3. /\ i \in DOMAIN cfgs /\ cfgs'[i].items = cfgs[i].items
        /\ cfgs'[i].field = IF i = Last THEN g ELSE cfgs[i].field
    BY <2>1, <2>2 DEF Config, TypeOK
  <2>4. g[IgnoreFiles] = cfgs[Last].field[IgnoreFiles] \/ g[IgnoreFiles] = Dummy
    BY <1>a DEF Default
  <2>5. <<i, e, 0>> # Dummy
    BY DEF Dummy
  <2>6. cfgs'[i].field[IgnoreFiles] = cfgs[i].field[IgnoreFiles]
    BY <2>3, <2>4, <2>5
  <2>7. QED
    BY <1>1, <2>1, <2>3, <2>6 DEF Loading
<1>9. QED
  BY <1>2, <1>3, <1>4, <1>5, <1>6, <1>7, <1>8
  DEF Next, Step, Reject, Destroy, Destroyed, Used, Loading

-----------------------------------------------------------------------------
(* What is accepted.                                                       *)

\* All that configs_load has gone past is valid.
AcceptedInv ==
  pc \in Loading =>
    /\ \A i \in 1 .. el : ~(i = el /\ Busy) => Valid(file.elements[i])
    /\ Busy => \A e \in 1 .. en - 1 : ValidEntry(Entries[e])
    /\ pc = "item" => \A k \in 1 .. it - 1 : This.items[k]

\* What it has refused is not.
RefusedInv == pc \in {"error", "failed"} => ~ValidFile

\* A file with an invalid entry is invalid.
LEMMA BadEntry ==
  ASSUME TypeOK, Positions, pc \in {"entry", "item"}, en <= Len(Entries), ~ValidEntry(This)
  PROVE  ~ValidFile
<1>1. el \in DOMAIN file.elements /\ en \in DOMAIN file.elements[el].entries
  BY EntryTypes DEF Entries
<1>2. This = file.elements[el].entries[en]
  BY DEF This, Entries
<1>3. ~Valid(file.elements[el])
  BY <1>1, <1>2 DEF Valid
<1>4. QED
  BY <1>1, <1>3 DEF ValidFile

\* A config_t is complete when its element has all required keys.
LEMMA CompleteIfGiven ==
  ASSUME TypeOK, Positions, FieldsInv, pc = "entry", en > Len(Entries)
  PROVE  Complete(cfgs[Last]) <=>
           \A f \in Required : \E e \in DOMAIN Entries : Entries[e].key = f
<1>1. Last \in DOMAIN cfgs /\ Last = el /\ Required \subseteq Fields
  BY EntryTypes DEF Fields, Strings
<1>2. Assigned = DOMAIN Entries
  <2>1. en = Len(Entries) + 1 /\ Entries \in Seq(Entry)
    BY EntryTypes DEF Positions, TypeOK
  <2>2. QED
    BY <2>1 DEF Assigned
<1>3. \A f \in Required : Latest(Entries, el, DOMAIN Entries, f, cfgs[Last].field[f], Null)
  BY <1>1, <1>2 DEF FieldsInv, FieldRight, Loading, Busy, EntriesOf, Entries
<1>4. \A e : <<el, e, 0>> # Null
  BY DEF Null
<1>5. \A f \in Required :
        cfgs[Last].field[f] # Null <=> \E e \in DOMAIN Entries : Entries[e].key = f
  BY <1>3, <1>4 DEF Latest
<1>6. QED
  BY <1>5 DEF Complete

\* Every step refuses only what is invalid.
LEMMA RefusedStep ==
  TypeOK /\ Positions /\ FieldsInv /\ RefusedInv /\ [Next]_vars => RefusedInv'
<1> SUFFICES ASSUME TypeOK, Positions, FieldsInv, RefusedInv, [Next]_vars,
                    pc' \in {"error", "failed"}
             PROVE  ~ValidFile'
  BY DEF RefusedInv
<1> USE DEF Goto, position
<1>1. ValidFile' = ValidFile
  BY DEF Next, Step, Read, NextElement, Loaded, Reject, SetString, SetPlain, NewArray,
         CopyItem, ItemsDone, EntriesDone, Destroy, Destroyed, Used, Stopped, vars, ValidFile
<1>2. CASE pc \in {"error", "failed"}
  BY <1>1, <1>2 DEF RefusedInv
<1>3. CASE Read
  BY <1>1, <1>3 DEF Read, ValidFile
<1>4. CASE Reject
  BY <1>1, <1>4, BadEntry DEF Reject, AtEntry, ValidEntry
<1>5. CASE CopyItem
  <2>1. CASE pc' = "item"
    BY <2>1
  <2>2. CASE pc' # "item"
    <3>1. pc = "item" /\ it <= Len(This.items) /\ ~This.items[it]
      BY <1>5, <2>2 DEF CopyItem
    <3>2. en <= Len(Entries) /\ it \in DOMAIN This.items
      <4>1. en <= Len(Entries) /\ it >= 1 /\ it \in Nat
        BY <3>1 DEF Positions, TypeOK
      <4>2. This.items \in Seq(BOOLEAN)
        BY <3>1, <4>1, EntryTypes DEF Entry
      <4>3. QED
        BY <3>1, <4>1, <4>2
    <3>3. QED
      BY <1>1, <3>1, <3>2, BadEntry DEF ValidEntry
  <2>3. QED
    BY <2>1, <2>2
<1>6. CASE EntriesDone
  <2>1. pc = "entry" /\ en > Len(Entries) /\ ~Complete(cfgs[Last])
    BY <1>6 DEF EntriesDone
  <2>2. ~Valid(file.elements[el]) /\ el \in DOMAIN file.elements
    BY <2>1, CompleteIfGiven, EntryTypes DEF Valid, Entries
  <2>3. QED
    BY <1>1, <2>2 DEF ValidFile
<1>7. QED
  BY <1>2, <1>3, <1>4, <1>5, <1>6
  DEF Next, Step, NextElement, Loaded, SetString, SetPlain, NewArray, ItemsDone, AtEntry,
      Destroy, Destroyed, Used, Stopped, vars

\* Every step that goes on has accepted only what is valid.
LEMMA AcceptedStep ==
  TypeOK /\ Positions /\ FieldsInv /\ AcceptedInv /\ [Next]_vars => AcceptedInv'
<1> SUFFICES ASSUME TypeOK, Positions, FieldsInv, AcceptedInv, [Next]_vars, pc' \in Loading
             PROVE  AcceptedInv'
  BY DEF AcceptedInv
<1> USE DEF Goto, position
<1>a. el \in Nat /\ en \in Nat /\ it \in Nat
  BY DEF TypeOK
<1>1. CASE Read
  <2>1. el' = 0 /\ pc' = "element"
    BY <1>1 DEF Read, Positions, Loading
  <2>2. 1 .. el' = {} /\ ~Busy'
    BY <2>1 DEF Busy
  <2>3. QED
    BY <2>1, <2>2 DEF AcceptedInv
<1>2. CASE NextElement
  <2>1. UNCHANGED file /\ pc = "element" /\ pc' = "entry" /\ el' = el + 1 /\ en' = 1
    BY <1>2 DEF NextElement, Loading
  <2>2. \A i \in 1 .. el : Valid(file.elements[i])
    BY <2>1 DEF AcceptedInv, Loading, Busy
  <2>3. \A i \in 1 .. el' : i \in 1 .. el \/ i = el'
    BY <1>a, <2>1
  <2>4. 1 .. en' - 1 = {}
    BY <2>1
  <2>5. QED
    BY <2>1, <2>2, <2>3, <2>4 DEF AcceptedInv, Busy
<1>3. CASE Loaded \/ Stopped \/ UNCHANGED vars
  <2>1. UNCHANGED <<file, el, en, it>> /\ Busy' = Busy /\ (pc = "item" <=> pc' = "item")
        /\ pc \in Loading /\ Entries' = Entries /\ This' = This
    BY <1>3 DEF Loaded, Stopped, vars, Busy, Loading, Entries, This
  <2>2. QED
    BY <2>1 DEF AcceptedInv
<1>4. CASE SetString \/ SetPlain \/ ItemsDone
  <2>1. /\ UNCHANGED <<file, el>> /\ pc \in {"entry", "item"} /\ pc' = "entry" /\ en' = en + 1
        /\ en <= Len(Entries) /\ Entries' = Entries
    BY <1>4 DEF SetString, SetPlain, ItemsDone, AtEntry, Entries, Positions
  <2>2. /\ \A i \in 1 .. el : i # el => Valid(file.elements[i])
        /\ \A e \in 1 .. en - 1 : ValidEntry(Entries[e])
    BY <2>1 DEF AcceptedInv, Busy, Loading
  <2>3. el \in DOMAIN file.elements /\ en \in DOMAIN Entries /\ This \in Entry
    BY <2>1, EntryTypes
  <2>4. ValidEntry(This)
    <3>1. CASE SetString \/ SetPlain
      <4>1. This.ok /\ This.key \in Strings \cup Plain
        BY <3>1 DEF SetString, SetPlain, AtEntry
      <4>2. This.key # Unknown /\ This.key # IgnoreFiles
        BY <4>1, KeysAssumption DEF Strings, Label, Unknown, IgnoreFiles
      <4>3. file \in Files /\ This = file.elements[el].entries[en]
            /\ en \in DOMAIN file.elements[el].entries
        BY <2>3 DEF Positions, This, Entries
      <4>4. This.items = <<>>
        BY <2>3, <4>2, <4>3, KeysAssumption
      <4>5. \A k \in DOMAIN This.items : This.items[k]
        BY <4>4
      <4>6. QED
        BY <4>1, <4>2, <4>5 DEF ValidEntry
    <3>2. CASE ItemsDone
      <4>1. This.ok /\ This.key = IgnoreFiles /\ pc = "item" /\ it > Len(This.items)
        BY <3>2 DEF ItemsDone, Positions
      <4>2. \A k \in 1 .. it - 1 : This.items[k]
        BY <4>1 DEF AcceptedInv, Loading
      <4>3. This.items \in Seq(BOOLEAN)
        BY <2>3 DEF Entry
      <4>4. \A k \in DOMAIN This.items : k \in 1 .. it - 1
        BY <1>a, <4>1, <4>3
      <4>5. IgnoreFiles # Unknown
        BY DEF IgnoreFiles, Unknown
      <4>6. QED
        BY <4>1, <4>2, <4>4, <4>5 DEF ValidEntry
    <3>3. QED
      BY <1>4, <3>1, <3>2
  <2>5. \A e \in 1 .. en' - 1 : e \in 1 .. en - 1 \/ e = en
    BY <1>a, <2>1
  <2>6. \A e \in 1 .. en' - 1 : ValidEntry(Entries[e])
    BY <2>2, <2>4, <2>5 DEF This
  <2>7. QED
    BY <2>1, <2>2, <2>6 DEF AcceptedInv, Busy
<1>5. CASE NewArray \/ CopyItem
  <2>1. /\ UNCHANGED <<file, el, en>> /\ Busy /\ Busy' /\ pc' = "item"
        /\ Entries' = Entries /\ This' = This /\ pc \in Loading
    BY <1>5 DEF NewArray, CopyItem, AtEntry, Entries, This, Busy, Loading
  <2>2. \A k \in 1 .. it' - 1 : This.items[k]
    <3>1. CASE NewArray
      <4>1. 1 .. it' - 1 = {}
        BY <3>1 DEF NewArray
      <4>2. QED
        BY <4>1
    <3>2. CASE CopyItem
      <4>1. pc = "item" /\ This.items[it] /\ it' = it + 1
        BY <2>1, <3>2 DEF CopyItem
      <4>2. \A k \in 1 .. it' - 1 : k \in 1 .. it - 1 \/ k = it
        BY <1>a, <4>1
      <4>3. QED
        BY <2>1, <4>1, <4>2 DEF AcceptedInv
    <3>3. QED
      BY <1>5, <3>1, <3>2
  <2>3. QED
    BY <2>1, <2>2 DEF AcceptedInv
<1>6. CASE EntriesDone
  <2>1. /\ UNCHANGED <<file, el, en>> /\ pc = "entry" /\ pc' = "element" /\ en > Len(Entries)
        /\ Complete(cfgs[Last])
    BY <1>6 DEF EntriesDone, Loading
  <2>2. Entries \in Seq(Entry) /\ el \in DOMAIN file.elements /\ file.elements[el] \in Element
    BY <2>1, EntryTypes
  <2>3. \A f \in Required : \E e \in DOMAIN Entries : Entries[e].key = f
    BY <2>1, CompleteIfGiven
  <2>4. \A e \in DOMAIN Entries : ValidEntry(Entries[e])
    <3>1. DOMAIN Entries = 1 .. en - 1
      BY <1>a, <2>1, <2>2 DEF Positions
    <3>2. QED
      BY <2>1, <3>1 DEF AcceptedInv, Loading, Busy
  <2>5. file.elements[el].type = "object"
    <3>1. Entries # <<>>
      BY <2>3, KeysAssumption
    <3>2. file.elements[el].type # "other"
      BY <2>2, <3>1, KeysAssumption DEF Positions, Entries
    <3>3. QED
      BY <2>2, <3>2 DEF Element
  <2>6. Valid(file.elements[el])
    BY <2>3, <2>4, <2>5 DEF Valid, Entries
  <2>7. \A i \in 1 .. el : Valid(file.elements[i])
    BY <2>1, <2>6 DEF AcceptedInv, Loading
  <2>8. QED
    BY <2>1, <2>7 DEF AcceptedInv, Busy
<1>7. QED
  BY <1>1, <1>2, <1>3, <1>4, <1>5, <1>6
  DEF Next, Step, Reject, Destroy, Destroyed, Used, Loading

-----------------------------------------------------------------------------
(* What is lost.                                                           *)

OwnedOrReplaced(s) == (\E i \in DOMAIN cfgs : s \in Owned(cfgs[i])) \/ Replaced(s[1], s[2])

LostInv == \A s \in heap : s[1] \in 1 .. el /\ OwnedOrReplaced(s)

\* What was replaced stays replaced.
LEMMA StillReplaced ==
  ASSUME TypeOK, Positions, [Next]_vars, NEW i \in 1 .. el, NEW e, Replaced(i, e)
  PROVE  i \in 1 .. el' /\ Replaced(i, e)'
<1>1. /\ UNCHANGED file /\ el \in Nat /\ en \in Nat
      /\ (el' = el /\ (en' = en \/ en' = en + 1)) \/ el' = el + 1
  BY DEF Next, Step, Read, NextElement, Loaded, Reject, SetString, SetPlain, NewArray,
         CopyItem, ItemsDone, EntriesDone, Destroy, Destroyed, Used, Stopped, vars, position,
         TypeOK
<1>2. Seen(i) \subseteq Seen(i)' /\ i \in 1 .. el'
  <2>1. \A f \in Seen(i) : f \in DOMAIN file.elements[i].entries /\ (i < el \/ f <= en)
    BY DEF Seen
  <2>2. CASE el' = el + 1
    BY <1>1, <2>1, <2>2 DEF Seen
  <2>3. CASE el' = el /\ en' = en
    BY <1>1, <2>3 DEF Seen
  <2>4. CASE el' = el /\ en' = en + 1
    <3>1. CASE i < el
      BY <1>1, <2>4, <3>1 DEF Seen
    <3>2. CASE i = el
      <4>1. file \in File /\ i \in DOMAIN file.elements
        BY <1>1, <3>2 DEF TypeOK, Positions, File
      <4>2. file.elements[i].entries \in Seq(Entry)
        BY <4>1, EntryTypes
      <4>3. \A f \in DOMAIN file.elements[i].entries : f <= en => f <= en + 1
        BY <1>1, <4>2
      <4>4. QED
        BY <1>1, <2>4, <3>2, <4>3 DEF Seen
    <3>3. QED
      BY <1>1, <3>1, <3>2
  <2>5. QED
    BY <1>1, <2>2, <2>3, <2>4
<1>3. QED
  BY <1>1, <1>2 DEF Replaced

\* What a field loses to an entry was given by an earlier one for its key.
LEMMA LostIsReplaced ==
  ASSUME TypeOK, Positions, FieldsInv, AtEntry(Fields), Last \in DOMAIN cfgs, Last = el,
         cfgs[Last].field[This.key] \in Triple, NEW s,
         s[1] = cfgs[Last].field[This.key][1], s[2] = cfgs[Last].field[This.key][2]
  PROVE  s[1] = el /\ Replaced(s[1], s[2])
<1> DEFINE v == cfgs[Last].field[This.key]
<1>1. pc = "entry" /\ en <= Len(Entries) /\ This.key \in Fields
  BY DEF AtEntry
<1>2. Latest(EntriesOf(el), el, 1 .. en - 1, This.key, v, Null)
  BY <1>1 DEF FieldsInv, FieldRight, Loading, Busy, Assigned
<1>3. PICK e \in 1 .. en - 1 : v = <<el, e, 0>> /\ EntriesOf(el)[e].key = This.key
  BY <1>2, TripleIsNoMarker DEF Latest
<1>4. s[1] = el /\ s[2] = e
  BY <1>3
<1>5. en \in Seen(el) /\ en > e /\ en \in Nat
  BY <1>1, <1>3, EntryTypes DEF Seen, Entries, TypeOK
<1>6. QED
  BY <1>3, <1>4, <1>5 DEF Replaced, EntriesOf, This, Entries

\* Every step loses only what is replaced.
LEMMA LostStep ==
  TypeOK /\ Positions /\ ArrayInv /\ OwnInv /\ FieldsInv /\ LostInv /\ [Next]_vars => LostInv'
<1> SUFFICES ASSUME TypeOK, Positions, ArrayInv, OwnInv, FieldsInv, LostInv, [Next]_vars,
                    NEW s \in heap'
             PROVE  s[1] \in 1 .. el' /\ OwnedOrReplaced(s)'
  BY DEF LostInv, OwnedOrReplaced
<1> USE DEF Goto, position
<1>a. Len(cfgs) \in Nat /\ el \in Nat /\ DOMAIN cfgs = 1 .. Len(cfgs)
  BY DEF TypeOK
<1>b. ASSUME s \in heap, Replaced(s[1], s[2]) PROVE s[1] \in 1 .. el' /\ OwnedOrReplaced(s)'
  BY <1>b, StillReplaced DEF LostInv, OwnedOrReplaced
<1>1. CASE UNCHANGED <<cfgs, heap, el>>
  <2>1. s \in heap /\ s[1] \in 1 .. el'
    BY <1>1 DEF LostInv
  <2>2. CASE \E i \in DOMAIN cfgs : s \in Owned(cfgs[i])
    BY <1>1, <2>1, <2>2 DEF OwnedOrReplaced, Owned, Pointed
  <2>3. QED
    BY <1>b, <2>1, <2>2 DEF LostInv, OwnedOrReplaced
<1>2. CASE NextElement
  <2>1. /\ cfgs' = Append(cfgs, NewConfig) /\ el' = el + 1 /\ UNCHANGED heap
    BY <1>2 DEF NextElement
  <2>2. /\ \A i \in DOMAIN cfgs : i \in DOMAIN cfgs' /\ cfgs'[i] = cfgs[i]
    BY <1>a, <2>1 DEF TypeOK
  <2>3. s \in heap /\ s[1] \in 1 .. el'
    BY <1>a, <2>1 DEF LostInv
  <2>4. CASE \E i \in DOMAIN cfgs : s \in Owned(cfgs[i])
    BY <2>2, <2>3, <2>4 DEF OwnedOrReplaced, Owned, Pointed
  <2>5. QED
    BY <1>b, <2>3, <2>4 DEF LostInv, OwnedOrReplaced
<1>3. CASE Destroy
  <2>1. cfgs # <<>> /\ heap' = heap \ Owned(cfgs[1]) /\ cfgs' = Tail(cfgs) /\ UNCHANGED el
    BY <1>3 DEF Destroy
  <2>2. s \in heap /\ s \notin Owned(cfgs[1]) /\ s[1] \in 1 .. el'
    BY <2>1 DEF LostInv
  <2>3. CASE \E i \in DOMAIN cfgs : s \in Owned(cfgs[i])
    <3>1. PICK i \in DOMAIN cfgs : s \in Owned(cfgs[i])
      BY <2>3
    <3>2. i # 1
      BY <2>2, <3>1
    <3>3. i - 1 \in DOMAIN cfgs' /\ cfgs'[i - 1] = cfgs[i]
      BY <1>a, <2>1, <3>2 DEF TypeOK
    <3>4. QED
      BY <2>2, <3>1, <3>3 DEF OwnedOrReplaced, Owned, Pointed
  <2>4. QED
    BY <1>b, <2>2, <2>3 DEF LostInv, OwnedOrReplaced
<1>4. CASE (SetString \/ NewArray \/ CopyItem \/ EntriesDone) /\ ~UNCHANGED <<cfgs, heap>>
  <2>1. PICK d : Changes(d)
    BY <1>4, StepChanges
  <2>2. /\ Last \in DOMAIN cfgs /\ Last = el /\ cfgs' = [cfgs EXCEPT ![Last] = d]
        /\ UNCHANGED el /\ heap' \subseteq heap \cup Owned(d)
        /\ \A x \in Owned(d) : x \in Owned(cfgs[Last]) \/ x[1] = el
    BY <2>1 DEF Changes
  <2>3. /\ DOMAIN cfgs' = DOMAIN cfgs /\ cfgs'[Last] = d
        /\ \A i \in DOMAIN cfgs \ {Last} : cfgs'[i] = cfgs[i]
    BY <2>2 DEF TypeOK
  <2>4. CASE s \in Owned(d)
    <3>1. s[1] \in 1 .. el'
      <4>1. \A x \in Owned(cfgs[Last]) : x \in heap
        BY <2>2 DEF OwnInv
      <4>2. el \in 1 .. el
        BY <1>a, <2>2
      <4>3. QED
        BY <2>2, <2>4, <4>1, <4>2 DEF LostInv
    <3>2. \E i \in DOMAIN cfgs' : s \in Owned(cfgs'[i])
      BY <2>2, <2>3, <2>4
    <3>3. QED
      BY <3>1, <3>2 DEF OwnedOrReplaced, Owned, Pointed
  <2>5. CASE s \notin Owned(d)
    <3>1. s \in heap /\ s[1] \in 1 .. el'
      BY <2>2, <2>5 DEF LostInv
    <3>2. CASE s \in Owned(cfgs[Last])
      <4>1. AtEntry(Fields) /\ cfgs[Last].field[This.key] \in Triple
            /\ s[1] = cfgs[Last].field[This.key][1] /\ s[2] = cfgs[Last].field[This.key][2]
        BY <2>1, <2>5, <3>2 DEF Changes
      <4>2. Replaced(s[1], s[2])
        BY <2>2, <4>1, LostIsReplaced
      <4>3. QED
        BY <1>b, <3>1, <4>2
    <3>3. CASE \E i \in DOMAIN cfgs \ {Last} : s \in Owned(cfgs[i])
      <4>1. \E i \in DOMAIN cfgs' : s \in Owned(cfgs'[i])
        BY <2>3, <3>3
      <4>2. QED
        BY <3>1, <4>1 DEF OwnedOrReplaced, Owned, Pointed
    <3>4. QED
      BY <1>b, <3>1, <3>2, <3>3 DEF LostInv, OwnedOrReplaced
  <2>6. QED
    BY <2>4, <2>5
<1>5. CASE (SetString \/ NewArray \/ CopyItem \/ EntriesDone) /\ UNCHANGED <<cfgs, heap>>
  BY <1>1, <1>5 DEF SetString, NewArray, CopyItem, EntriesDone
<1>6. QED
  BY <1>1, <1>2, <1>3, <1>4, <1>5
  DEF Next, Step, Read, Loaded, Reject, SetPlain, ItemsDone, Destroyed, Used, Stopped, vars

-----------------------------------------------------------------------------
(* All of it holds in every run.                                           *)

LEMMA Loads ==
  Spec => [](/\ TypeOK /\ Positions /\ ArrayInv /\ OwnInv /\ ~wrong /\ FieldsInv
             /\ PatternsInv /\ AcceptedInv /\ RefusedInv /\ LostInv)
<1>1. Init => /\ ArrayInv /\ OwnInv /\ ~wrong /\ FieldsInv /\ PatternsInv /\ AcceptedInv
              /\ RefusedInv /\ LostInv
  BY DEF Init, ArrayInv, OwnInv, FieldsInv, PatternsInv, AcceptedInv, RefusedInv, LostInv,
         Loading
<1>2. QED
  BY <1>1, InitPositions, TypeStep, PositionStep, ArrayStep, OwnStep, FieldsStep,
     PatternsStep, AcceptedStep, RefusedStep, LostStep, PTL DEF Spec

\* The list is made of a config_t for each element, whose fields point to
\* values of the file, NULL or the default.
THEOREM TypeCorrect == Spec => []TypeOK
BY Loads, PTL

(***************************************************************************)
(* Whatever the file holds, and however its reading ends, every string and *)
(* array belongs to one config_t, and nothing is freed that is not         *)
(* allocated, nor twice.                                                   *)
(***************************************************************************)
THEOREM NothingFreedTwice == Spec => []OwnedOnce
<1>1. TypeOK /\ OwnInv /\ ~wrong => OwnedOnce
  <2> SUFFICES ASSUME TypeOK, OwnInv, ~wrong PROVE OwnedOnce
    OBVIOUS
  <2>1. Len(cfgs) \in Nat /\ el \in Nat /\ DOMAIN cfgs = 1 .. Len(cfgs)
    BY DEF TypeOK
  <2>2. \A i, j \in DOMAIN cfgs : i # j => Number(i) # Number(j)
    BY <2>1 DEF Number
  <2>3. QED
    BY <2>2 DEF OwnInv, OwnedOnce
<1>2. QED
  BY <1>1, Loads, PTL

(***************************************************************************)
(* Nothing is leaked, whatever the file holds and however its reading      *)
(* ends, but the values of a key that is given again.                      *)
(***************************************************************************)
THEOREM LeakedIfRepeated == Spec => []LostOnlyIfRepeated
<1>1. LostInv => LostOnlyIfRepeated
  BY DEF LostInv, OwnedOrReplaced, LostOnlyIfRepeated
<1>2. QED
  BY <1>1, Loads, PTL

(***************************************************************************)
(* Every file is loaded as it says or refused as a whole: the fields hold  *)
(* the last value given for each key, all of its patterns, or the default. *)
(***************************************************************************)
THEOREM AllOrNothing == Spec => []LoadedAsGiven
<1>1. ASSUME TypeOK, Positions, FieldsInv, PatternsInv, AcceptedInv, pc = "loaded"
      PROVE  /\ ValidFile /\ Len(cfgs) = Len(file.elements)
             /\ \A i \in DOMAIN cfgs :
                  /\ \A f \in Fields : cfgs[i].field[f] = Expected(i, f)
                  /\ Given(i, IgnoreFiles) # {} =>
                       cfgs[i].items
                         = Len(file.elements[i].entries[Expected(i, IgnoreFiles)[2]].items)
  <2>1. /\ pc \in Loading /\ ~Busy /\ Len(cfgs) = el /\ el = Len(file.elements)
        /\ file.type = "list" /\ file.elements \in Seq(Element) /\ cfgs \in Seq(Config)
    BY <1>1, EntryTypes DEF Loading, Busy, Positions, TypeOK
  <2>2. ValidFile
    BY <1>1, <2>1 DEF ValidFile, AcceptedInv
  <2>3. ASSUME NEW i \in DOMAIN cfgs, NEW f \in Fields
        PROVE  /\ cfgs[i].field[f] = Expected(i, f)
               /\ Given(i, f) # {} =>
                    \E e \in Given(i, f) : Expected(i, f) = <<i, e, 0>> /\ e \in Nat
    <3>1. Latest(EntriesOf(i), i, DOMAIN EntriesOf(i), f, cfgs[i].field[f], Dummy)
      BY <1>1, <2>1, <2>3 DEF FieldsInv, FieldRight
    <3>2. Given(i, f) = {e \in DOMAIN EntriesOf(i) : EntriesOf(i)[e].key = f}
      BY DEF Given, EntriesOf
    <3>3. i \in DOMAIN file.elements
      BY <2>1
    <3>4. EntriesOf(i) \in Seq(Entry)
      BY <1>1, <3>3, EntryTypes DEF EntriesOf
    <3>5. \A e \in DOMAIN EntriesOf(i) : e \in Nat
      BY <3>4
    <3>6. CASE Given(i, f) = {}
      BY <3>1, <3>2, <3>6 DEF Latest, Expected
    <3>7. CASE Given(i, f) # {}
      <4>1. PICK e \in Given(i, f) : /\ cfgs[i].field[f] = <<i, e, 0>>
                                     /\ \A g \in Given(i, f) : g <= e
        BY <3>1, <3>2, <3>7 DEF Latest
      <4>2. \A h \in Given(i, f) : (\A g \in Given(i, f) : g <= h) => h = e
        BY <3>2, <3>5, <4>1
      <4>3. (CHOOSE h \in Given(i, f) : \A g \in Given(i, f) : g <= h) = e
        BY <4>1, <4>2
      <4>4. QED
        BY <3>2, <3>5, <3>7, <4>1, <4>3 DEF Expected
    <3>8. QED
      BY <3>6, <3>7
  <2>4. ASSUME NEW i \in DOMAIN cfgs, Given(i, IgnoreFiles) # {}
        PROVE  cfgs[i].items
                 = Len(file.elements[i].entries[Expected(i, IgnoreFiles)[2]].items)
    <3>1. IgnoreFiles \in Fields
      BY DEF Fields
    <3>2. PICK e \in Nat : /\ cfgs[i].field[IgnoreFiles] = <<i, e, 0>>
                           /\ Expected(i, IgnoreFiles) = <<i, e, 0>>
      BY <2>3, <2>4, <3>1
    <3>3. cfgs[i].items = Len(EntriesOf(i)[e].items)
      BY <1>1, <2>1, <3>2 DEF PatternsInv
    <3>4. Expected(i, IgnoreFiles)[2] = e
      BY <3>2
    <3>5. QED
      BY <3>3, <3>4 DEF EntriesOf
  <2>5. QED
    BY <2>1, <2>2, <2>3, <2>4
<1>2. TypeOK /\ Positions /\ FieldsInv /\ PatternsInv /\ AcceptedInv /\ RefusedInv
        => LoadedAsGiven
  BY <1>1 DEF LoadedAsGiven, RefusedInv
<1>3. QED
  BY <1>2, Loads, PTL

-----------------------------------------------------------------------------
(* Module Session.                                                         *)

\* The calls of main before its loop, and those of process_config: before
\* the session exists, while it is opened, and after the login.
Starting == {"options", "load", "cd"}
Connecting == {"resolve", "connect", "init"}
Opening == {"handshake", "login"}
Open == {"channel", "walk", "act", "transfer", "items", "shutdown", "close"}
InProcess == {"socket"} \cup Connecting \cup Opening \cup Open

\* The configuration that is gone through is one of those asked for.
AtConfig ==
  /\ call \in InProcess => at \in wanted
  /\ call \in {"options", "load"} => at = 0
  /\ call = "cd" => at = 1

\* What is held at which call.
Holding ==
  /\ addresses => call = "connect"
  /\ session => call \in Opening \cup Open \cup {"exit"}
  /\ channel => call \in {"walk", "act", "transfer", "items", "shutdown", "exit"}
  /\ items => call \in {"act", "transfer", "items", "exit"}
  /\ call \in Opening \cup Open => session
  /\ call \in {"walk", "act", "transfer", "items", "shutdown"} => channel

\* Whose sockets are open: those of the sessions that came up, and the one
\* being connected.
Ledger ==
  /\ call \in Starting => sockets = {} /\ loggedIn = {}
  /\ call \in {"loop", "socket"} => sockets = loggedIn /\ loggedIn \subseteq 1 .. at - 1
  /\ call \in Connecting \cup Opening =>
       sockets = loggedIn \cup {at} /\ loggedIn \subseteq 1 .. at - 1
  /\ call \in Open =>
       sockets = loggedIn /\ at \in loggedIn /\ loggedIn \subseteq 1 .. at

\* generic_buf is NULL until a login.
BufferInv ==
  /\ call \notin Open \cup {"exit"} => buffer = "null"
  /\ call \in Open => buffer = "live" \/ (buffer = "null" /\ starved)

\* The loop is through with the configurations before the one it is at.
Progress ==
  /\ call \in Starting => handled = {}
  /\ call \in {"loop"} \cup InProcess => handled = {c \in wanted : c < at}
  /\ AllTried

-----------------------------------------------------------------------------
(* What is preserved.                                                      *)

\* The start satisfies all of the invariants.
LEMMA InitInvariants ==
  SessionInit => SessionTypeOK /\ AtConfig /\ Holding /\ Ledger /\ BufferInv /\ Progress /\ Nested
<1> SUFFICES ASSUME SessionInit
             PROVE  SessionTypeOK /\ AtConfig /\ Holding /\ Ledger /\ BufferInv
                      /\ Progress /\ Nested
  OBVIOUS
<1> USE DEF SessionInit
<1>1. options \in 0 .. MaxOptions /\ size \in 0 .. MaxConfigs
  BY BoundsAssumption
<1>2. at \in 0 .. size + 1
  OBVIOUS
<1>3. SessionTypeOK
  BY <1>1, <1>2 DEF SessionTypeOK, Places
<1>4. AtConfig /\ Holding /\ Ledger /\ BufferInv /\ Nested
  BY DEF AtConfig, Holding, Ledger, BufferInv, Nested, Starting, Connecting,
         Opening, Open, InProcess
<1>5. Progress
  BY DEF Progress, AllTried, Starting, Connecting, Opening, Open, InProcess
<1> QED
  BY <1>3, <1>4, <1>5

\* process_config is only entered for a configuration asked for.
LEMMA AtStep == AtConfig /\ [SessionNext]_sessionVars => AtConfig'
<1> SUFFICES ASSUME AtConfig, [SessionNext]_sessionVars PROVE AtConfig'
  OBVIOUS
<1> USE DEF AtConfig, Starting, Connecting, Opening, Open, InProcess,
    argVars, loopVars, held, history, Calls, Exit, Unmoved, Stay, Returns,
    AbortOpen, CloseSession, ReleasedBuffer
<1>1. CASE Option  BY <1>1 DEF Option
<1>2. CASE OptionEnds  BY <1>2 DEF OptionEnds
<1>3. CASE OptionsDone  BY <1>3 DEF OptionsDone
<1>4. CASE Load  BY <1>4 DEF Load
<1>5. CASE ChangeDirectory  BY <1>5 DEF ChangeDirectory
<1>6. CASE NextConfig  BY <1>6 DEF NextConfig, More
<1>7. CASE LoopEnds  BY <1>7 DEF LoopEnds, More
<1>8. CASE OpenSocket  BY <1>8 DEF OpenSocket
<1>9. CASE Resolve  BY <1>9 DEF Resolve
<1>10. CASE ConnectSocket  BY <1>10 DEF ConnectSocket
<1>11. CASE InitSession  BY <1>11 DEF InitSession
<1>12. CASE Handshake  BY <1>12 DEF Handshake
<1>13. CASE Login  BY <1>13 DEF Login
<1>14. CASE OpenChannel  BY <1>14 DEF OpenChannel
<1>15. CASE Walk  BY <1>15 DEF Walk
<1>16. CASE Act  BY <1>16 DEF Act
<1>17. CASE Transfers  BY <1>17 DEF Transfers
<1>18. CASE FreeItems  BY <1>18 DEF FreeItems
<1>19. CASE ShutDown  BY <1>19 DEF ShutDown
<1>20. CASE Close  BY <1>20 DEF Close
<1>21. CASE UNCHANGED sessionVars  BY <1>21 DEF sessionVars
<1> QED
  BY <1>1, <1>2, <1>3, <1>4, <1>5, <1>6, <1>7, <1>8, <1>9, <1>10, <1>11, <1>12, <1>13, <1>14, <1>15, <1>16, <1>17, <1>18, <1>19, <1>20, <1>21
     DEF SessionNext, SessionStep, ProcessConfig, Exited

\* Every call of main and of process_config keeps the types.
LEMMA SessionTypeStep ==
  SessionTypeOK /\ AtConfig /\ Ledger /\ Progress /\ [SessionNext]_sessionVars => SessionTypeOK'
<1> SUFFICES ASSUME SessionTypeOK, AtConfig, Ledger, Progress, [SessionNext]_sessionVars
             PROVE  SessionTypeOK'
  OBVIOUS
<1> USE BoundsAssumption DEF argVars, loopVars, held, history, Calls, Exit
<1>1. CASE Option  BY <1>1 DEF SessionTypeOK, Option
<1>2. CASE OptionEnds  BY <1>2 DEF SessionTypeOK, OptionEnds
<1>3. CASE OptionsDone  BY <1>3 DEF SessionTypeOK, OptionsDone
<1>4. CASE Load
  <2>1. CASE UNCHANGED loopVars  BY <1>4, <2>1 DEF Load, SessionTypeOK
  <2>2. ASSUME NEW n \in 0 .. MaxConfigs, size' = n, at' = 1, Calls("cd"),
               wanted' \in SUBSET (1 .. n)
        PROVE  SessionTypeOK'
    <3>1. n \in Nat /\ at' \in 0 .. size' + 1
      BY <2>2
    <3>2. sockets' = {} /\ loggedIn' = {} /\ handled' = {}
      BY <1>4 DEF Load, Ledger, Progress, Starting
    <3> QED  BY <1>4, <2>2, <3>1, <3>2 DEF Load, SessionTypeOK
  <2> QED  BY <1>4, <2>1, <2>2 DEF Load
<1>5. CASE ChangeDirectory  BY <1>5 DEF SessionTypeOK, ChangeDirectory
<1>6. CASE NextConfig  BY <1>6 DEF SessionTypeOK, NextConfig, More
<1>7. CASE LoopEnds  BY <1>7 DEF SessionTypeOK, LoopEnds, More
<1>8. CASE ProcessConfig
  <2> USE <1>8 DEF ProcessConfig, OpenSocket, Resolve, ConnectSocket, InitSession,
      Handshake, Login, OpenChannel, Walk, Act, Transfers, FreeItems, ShutDown,
      Close, Unmoved, Stay, Returns, AbortOpen, CloseSession, ReleasedBuffer
  <2>1. at \in wanted
    BY DEF AtConfig, InProcess, Connecting, Opening, Open
  <2>2. UNCHANGED <<argVars, wanted, size>> /\ at' \in {at, at + 1}
    OBVIOUS
  <2>3. /\ sockets' \subseteq sockets \cup {at}
        /\ handled' \subseteq handled \cup {at}
        /\ loggedIn' \subseteq loggedIn \cup {at}
    OBVIOUS
  <2>4. /\ call' \in {"loop", "resolve", "connect", "init", "handshake", "login",
                   "channel", "walk", "act", "transfer", "items", "shutdown",
                   "close", "exit"}
        /\ code' \in {code, 139}
    OBVIOUS
  <2>a. addresses' \in BOOLEAN /\ session' \in BOOLEAN
    BY DEF SessionTypeOK
  <2>b. channel' \in BOOLEAN /\ items' \in BOOLEAN
    BY DEF SessionTypeOK
  <2>c. starved' \in BOOLEAN /\ buffer' \in {"null", "live", "freed"}
    BY DEF SessionTypeOK
  <2> HIDE <1>8
  <2>6. wanted \subseteq 1 .. size /\ size \in Nat
    BY DEF SessionTypeOK
  <2>7. at' \in 0 .. size + 1
    BY <2>1, <2>2, <2>6
  <2>8. sockets' \subseteq 1 .. size /\ handled' \subseteq 1 .. size
          /\ loggedIn' \subseteq 1 .. size
    BY <2>1, <2>3, <2>6 DEF SessionTypeOK
  <2> QED
    BY <2>2, <2>4, <2>a, <2>b, <2>c, <2>7, <2>8 DEF SessionTypeOK
<1>9. CASE UNCHANGED sessionVars  BY <1>9 DEF sessionVars, SessionTypeOK
<1> QED
  BY <1>1, <1>2, <1>3, <1>4, <1>5, <1>6, <1>7, <1>8, <1>9 DEF SessionNext, SessionStep, Exited

\* Every call keeps the account of what is held.
LEMMA HoldingStep == SessionTypeOK /\ Holding /\ [SessionNext]_sessionVars => Holding'
<1> SUFFICES ASSUME SessionTypeOK, Holding, [SessionNext]_sessionVars PROVE Holding'
  OBVIOUS
<1> USE DEF Holding, SessionTypeOK, Starting, Connecting, Opening, Open, InProcess,
    argVars, loopVars, held, history, Calls, Exit, Unmoved, Stay, Returns,
    AbortOpen, CloseSession, ReleasedBuffer
<1>1. CASE Option  BY <1>1 DEF Option
<1>2. CASE OptionEnds  BY <1>2 DEF OptionEnds
<1>3. CASE OptionsDone  BY <1>3 DEF OptionsDone
<1>4. CASE Load  BY <1>4 DEF Load
<1>5. CASE ChangeDirectory  BY <1>5 DEF ChangeDirectory
<1>6. CASE NextConfig  BY <1>6 DEF NextConfig, More
<1>7. CASE LoopEnds  BY <1>7 DEF LoopEnds, More
<1>8. CASE OpenSocket  BY <1>8 DEF OpenSocket
<1>9. CASE Resolve  BY <1>9 DEF Resolve
<1>10. CASE ConnectSocket  BY <1>10 DEF ConnectSocket
<1>11. CASE InitSession  BY <1>11 DEF InitSession
<1>12. CASE Handshake  BY <1>12 DEF Handshake
<1>13. CASE Login  BY <1>13 DEF Login
<1>14. CASE OpenChannel
  <2>1. CASE Returns /\ CloseSession /\ UNCHANGED channel
    BY <1>14, <2>1 DEF OpenChannel
  <2>2. CASE Calls("walk") /\ channel' = TRUE /\ UNCHANGED session
    BY <1>14, <2>2 DEF OpenChannel
  <2> QED  BY <1>14, <2>1, <2>2 DEF OpenChannel
<1>15. CASE Walk  BY <1>15 DEF Walk
<1>16. CASE Act  BY <1>16 DEF Act
<1>17. CASE Transfers  BY <1>17 DEF Transfers
<1>18. CASE FreeItems  BY <1>18 DEF FreeItems
<1>19. CASE ShutDown  BY <1>19 DEF ShutDown
<1>20. CASE Close  BY <1>20 DEF Close
<1>21. CASE UNCHANGED sessionVars  BY <1>21 DEF sessionVars
<1> QED
  BY <1>1, <1>2, <1>3, <1>4, <1>5, <1>6, <1>7, <1>8, <1>9, <1>10, <1>11, <1>12, <1>13, <1>14, <1>15, <1>16, <1>17, <1>18, <1>19, <1>20, <1>21
     DEF SessionNext, SessionStep, ProcessConfig, Exited

\* Every call keeps the account of the open sockets.
LEMMA LedgerStep == SessionTypeOK /\ AtConfig /\ Ledger /\ [SessionNext]_sessionVars => Ledger'
<1> SUFFICES ASSUME SessionTypeOK, AtConfig, Ledger, [SessionNext]_sessionVars PROVE Ledger'
  OBVIOUS
<1> USE DEF Ledger, SessionTypeOK, AtConfig, Starting, Connecting, Opening, Open, InProcess,
    argVars, loopVars, held, history, Calls, Exit, Unmoved, Stay, Returns,
    AbortOpen, CloseSession, ReleasedBuffer
<1>1. CASE Option  BY <1>1 DEF Option
<1>2. CASE OptionEnds  BY <1>2 DEF OptionEnds
<1>3. CASE OptionsDone  BY <1>3 DEF OptionsDone
<1>4. CASE Load  BY <1>4 DEF Load
<1>5. CASE ChangeDirectory  BY <1>5 DEF ChangeDirectory
<1>6. CASE NextConfig  BY <1>6 DEF NextConfig, More
<1>7. CASE LoopEnds  BY <1>7 DEF LoopEnds, More
<1>8. CASE OpenSocket  BY <1>8 DEF OpenSocket
<1>9. CASE Resolve  BY <1>9 DEF Resolve
<1>10. CASE ConnectSocket  BY <1>10 DEF ConnectSocket
<1>11. CASE InitSession  BY <1>11 DEF InitSession
<1>12. CASE Handshake
  <2>1. CASE Calls("login") /\ Stay /\ UNCHANGED <<sockets, loggedIn>>
    BY <1>12, <2>1 DEF Handshake
  <2>2. CASE Returns /\ AbortOpen /\ UNCHANGED loggedIn
    BY <1>12, <2>2 DEF Handshake
  <2> QED  BY <1>12, <2>1, <2>2 DEF Handshake
<1>13. CASE Login
  <2>1. at \in wanted /\ at \in 1 .. at /\ 1 .. at - 1 \subseteq 1 .. at
    BY <1>13 DEF Login
  <2>2. CASE Calls("channel") /\ Stay /\ loggedIn' = loggedIn \cup {at} /\ sockets' = sockets
    BY <1>13, <2>1, <2>2 DEF Login
  <2>3. CASE Returns /\ AbortOpen /\ UNCHANGED loggedIn
    BY <1>13, <2>1, <2>3 DEF Login
  <2> QED  BY <1>13, <2>2, <2>3 DEF Login
<1>14. CASE OpenChannel  BY <1>14 DEF OpenChannel
<1>15. CASE Walk  BY <1>15 DEF Walk
<1>16. CASE Act  BY <1>16 DEF Act
<1>17. CASE Transfers  BY <1>17 DEF Transfers
<1>18. CASE FreeItems  BY <1>18 DEF FreeItems
<1>19. CASE ShutDown  BY <1>19 DEF ShutDown
<1>20. CASE Close  BY <1>20 DEF Close
<1>21. CASE UNCHANGED sessionVars  BY <1>21 DEF sessionVars
<1> QED
  BY <1>1, <1>2, <1>3, <1>4, <1>5, <1>6, <1>7, <1>8, <1>9, <1>10, <1>11, <1>12, <1>13, <1>14, <1>15, <1>16, <1>17, <1>18, <1>19, <1>20, <1>21
     DEF SessionNext, SessionStep, ProcessConfig, Exited

\* The buffer is allocated by a login and freed by every close.
LEMMA BufferStep == SessionTypeOK /\ BufferInv /\ [SessionNext]_sessionVars => BufferInv'
<1> SUFFICES ASSUME SessionTypeOK, BufferInv, [SessionNext]_sessionVars PROVE BufferInv'
  OBVIOUS
<1> USE DEF BufferInv, SessionTypeOK, Starting, Connecting, Opening, Open, InProcess,
    argVars, loopVars, held, history, Calls, Exit, Unmoved, Stay, Returns,
    AbortOpen, CloseSession, ReleasedBuffer
<1>1. CASE Option  BY <1>1 DEF Option
<1>2. CASE OptionEnds  BY <1>2 DEF OptionEnds
<1>3. CASE OptionsDone  BY <1>3 DEF OptionsDone
<1>4. CASE Load  BY <1>4 DEF Load
<1>5. CASE ChangeDirectory  BY <1>5 DEF ChangeDirectory
<1>6. CASE NextConfig  BY <1>6 DEF NextConfig, More
<1>7. CASE LoopEnds  BY <1>7 DEF LoopEnds, More
<1>8. CASE OpenSocket  BY <1>8 DEF OpenSocket
<1>9. CASE Resolve  BY <1>9 DEF Resolve
<1>10. CASE ConnectSocket  BY <1>10 DEF ConnectSocket
<1>11. CASE InitSession  BY <1>11 DEF InitSession
<1>12. CASE Handshake  BY <1>12 DEF Handshake
<1>13. CASE Login  BY <1>13 DEF Login
<1>14. CASE OpenChannel  BY <1>14 DEF OpenChannel
<1>15. CASE Walk  BY <1>15 DEF Walk
<1>16. CASE Act  BY <1>16 DEF Act
<1>17. CASE Transfers  BY <1>17 DEF Transfers
<1>18. CASE FreeItems  BY <1>18 DEF FreeItems
<1>19. CASE ShutDown  BY <1>19 DEF ShutDown
<1>20. CASE Close  BY <1>20 DEF Close
<1>21. CASE UNCHANGED sessionVars  BY <1>21 DEF sessionVars
<1> QED
  BY <1>1, <1>2, <1>3, <1>4, <1>5, <1>6, <1>7, <1>8, <1>9, <1>10, <1>11, <1>12, <1>13, <1>14, <1>15, <1>16, <1>17, <1>18, <1>19, <1>20, <1>21
     DEF SessionNext, SessionStep, ProcessConfig, Exited

\* The configurations before the next one are those before this one, and it
\* if it is one of them.
LEMMA Advance ==
  ASSUME wanted \subseteq Int, at \in Int
  PROVE  {c \in wanted : c < at + 1} = {c \in wanted : c < at} \cup ({at} \cap wanted)
<1> DEFINE Before(n) == {c \in wanted : c < n}
<1>1. ASSUME NEW c \in wanted
      PROVE  c < at + 1 <=> c < at \/ c = at
  BY <1>1
<1> QED
  BY <1>1

\* The loop handles the configurations asked for in their order.
LEMMA ProgressStep == SessionTypeOK /\ AtConfig /\ Progress /\ [SessionNext]_sessionVars => Progress'
<1> SUFFICES ASSUME SessionTypeOK, AtConfig, Progress, [SessionNext]_sessionVars PROVE Progress'
  OBVIOUS
<1> USE DEF argVars, loopVars, held, history, Calls, Exit, Progress, AllTried,
    Starting, Connecting, Opening, Open, InProcess
<1>a. wanted \subseteq 1 .. size /\ wanted \subseteq Int /\ at \in Int /\ size \in Int
  BY BoundsAssumption DEF SessionTypeOK
<1>b. {c \in wanted : c < at + 1} = {c \in wanted : c < at} \cup ({at} \cap wanted)
  BY <1>a, Advance
<1>1. CASE Option  BY <1>1 DEF Option
<1>2. CASE OptionEnds
  <2>1. ~(at > 0) /\ UNCHANGED at
    BY <1>2 DEF OptionEnds, AtConfig
  <2> QED  BY <1>2, <2>1 DEF OptionEnds
<1>3. CASE OptionsDone
  <2>1. ~(at > 0) /\ UNCHANGED at
    BY <1>3 DEF OptionsDone, AtConfig
  <2> QED  BY <1>3, <2>1 DEF OptionsDone
<1>4. CASE Load
  <2>1. call' = "exit" => ~(at > 0) /\ UNCHANGED at
    BY <1>4 DEF Load, AtConfig
  <2> QED  BY <1>4, <2>1 DEF Load
<1>5. CASE ChangeDirectory
  <2>1. at = 1 /\ UNCHANGED <<wanted, at, handled>> /\ handled = {}
    BY <1>5 DEF ChangeDirectory, AtConfig
  <2>2. \A c \in wanted : ~(c < at)
    BY <2>1, <1>a
  <2>3. call' = "exit" => ~(reachable' /\ place' # "root")
    BY <1>5 DEF ChangeDirectory
  <2> QED  BY <1>5, <2>1, <2>2, <2>3 DEF ChangeDirectory
<1>6. CASE NextConfig  BY <1>6, <1>b DEF NextConfig
<1>7. CASE LoopEnds
  <2>1. \A c \in wanted : c < at
    BY <1>7, <1>a DEF LoopEnds, More
  <2> QED  BY <1>7, <2>1 DEF LoopEnds
<1>8. CASE ProcessConfig
  <2> USE <1>8 DEF ProcessConfig, OpenSocket, Resolve, ConnectSocket, InitSession,
      Handshake, Login, OpenChannel, Walk, Act, Transfers, FreeItems, ShutDown,
      Close, Unmoved, Stay, Returns
  <2>1. at \in wanted /\ handled = {c \in wanted : c < at} /\ wanted' = wanted
    BY DEF AtConfig
  <2>2. \/ call' \in InProcess /\ UNCHANGED <<at, handled>>
        \/ call' = "loop" /\ at' = at + 1 /\ handled' = handled \cup {at}
        \/ call' = "exit" /\ code' = 139
    OBVIOUS
  <2> HIDE <1>8
  <2> QED  BY <2>1, <2>2, <1>b
<1>9. CASE UNCHANGED sessionVars  BY <1>9 DEF sessionVars
<1> QED
  BY <1>1, <1>2, <1>3, <1>4, <1>5, <1>6, <1>7, <1>8, <1>9 DEF SessionNext, SessionStep, Exited

\* No call releases what another one holding still depends on.
LEMMA NestedStep ==
  SessionTypeOK /\ AtConfig /\ Holding /\ Ledger /\ Nested /\ [SessionNext]_sessionVars => Nested'
<1> SUFFICES ASSUME SessionTypeOK, AtConfig, Holding, Ledger, Nested, [SessionNext]_sessionVars
             PROVE  Nested'
  OBVIOUS
<1> USE DEF Nested, SessionTypeOK, AtConfig, Holding, Ledger, Starting, Connecting, Opening, Open, InProcess,
    argVars, loopVars, held, history, Calls, Exit, Unmoved, Stay, Returns,
    AbortOpen, CloseSession, ReleasedBuffer
<1>1. CASE Option  BY <1>1 DEF Option
<1>2. CASE OptionEnds  BY <1>2 DEF OptionEnds
<1>3. CASE OptionsDone  BY <1>3 DEF OptionsDone
<1>4. CASE Load  BY <1>4 DEF Load
<1>5. CASE ChangeDirectory  BY <1>5 DEF ChangeDirectory
<1>6. CASE NextConfig  BY <1>6 DEF NextConfig, More
<1>7. CASE LoopEnds  BY <1>7 DEF LoopEnds, More
<1>8. CASE OpenSocket  BY <1>8 DEF OpenSocket
<1>9. CASE Resolve  BY <1>9 DEF Resolve
<1>10. CASE ConnectSocket  BY <1>10 DEF ConnectSocket
<1>11. CASE InitSession  BY <1>11 DEF InitSession
<1>12. CASE Handshake  BY <1>12 DEF Handshake
<1>13. CASE Login  BY <1>13 DEF Login
<1>14. CASE OpenChannel
  <2>1. CASE Returns /\ CloseSession /\ UNCHANGED channel
    BY <1>14, <2>1 DEF OpenChannel
  <2>2. CASE Calls("walk") /\ channel' = TRUE /\ UNCHANGED session
    BY <1>14, <2>2 DEF OpenChannel
  <2> QED  BY <1>14, <2>1, <2>2 DEF OpenChannel
<1>15. CASE Walk  BY <1>15 DEF Walk
<1>16. CASE Act  BY <1>16 DEF Act
<1>17. CASE Transfers  BY <1>17 DEF Transfers
<1>18. CASE FreeItems  BY <1>18 DEF FreeItems
<1>19. CASE ShutDown  BY <1>19 DEF ShutDown
<1>20. CASE Close  BY <1>20 DEF Close
<1>21. CASE UNCHANGED sessionVars  BY <1>21 DEF sessionVars
<1> QED
  BY <1>1, <1>2, <1>3, <1>4, <1>5, <1>6, <1>7, <1>8, <1>9, <1>10, <1>11, <1>12, <1>13, <1>14, <1>15, <1>16, <1>17, <1>18, <1>19, <1>20, <1>21
     DEF SessionNext, SessionStep, ProcessConfig, Exited

-----------------------------------------------------------------------------
(* The theorems.                                                           *)
IInv ==
  SessionTypeOK /\ AtConfig /\ Holding /\ Ledger /\ BufferInv /\ Progress /\ Nested

\* The invariants hold of every behaviour.
LEMMA Invariance == SessionSpec => []IInv
<1>1. SessionInit => IInv
  BY InitInvariants DEF IInv
<1>2. IInv /\ [SessionNext]_sessionVars => IInv'
  BY AtStep, SessionTypeStep, HoldingStep, LedgerStep, BufferStep, ProgressStep,
     NestedStep DEF IInv
<1> QED
  BY <1>1, <1>2, PTL DEF SessionSpec

\* All variables keep their types, for any bounds.
THEOREM SessionTypeCorrect == SessionSpec => []SessionTypeOK
<1>1. IInv => SessionTypeOK
  BY DEF IInv
<1> QED
  BY <1>1, Invariance, PTL

(***************************************************************************)
(* However many configurations are gone through and whichever of the calls *)
(* fail, what stays behind are the sockets of the sessions that came up,   *)
(* which ssh_session_close does not close.                                 *)
(***************************************************************************)
THEOREM NothingElseLeaks == SessionSpec => []OnlySocketsLeak
<1>1. IInv => OnlySocketsLeak
  BY DEF IInv, OnlySocketsLeak, Holding, Ledger, BufferInv, SessionTypeOK, Connecting,
         Opening, Open
<1> QED
  BY <1>1, Invariance, PTL

\* The session never outlives its socket, nor the channel its session.
THEOREM ReleasedInOrder == SessionSpec => []Nested
<1>1. IInv => Nested
  BY DEF IInv
<1> QED
  BY <1>1, Invariance, PTL

(***************************************************************************)
(* The transfers find the buffer that ssh_session_open allocated, whatever *)
(* happened to the sessions before, unless the allocation failed.          *)
(***************************************************************************)
THEOREM BufferThere == SessionSpec => []BufferUsable
<1>1. IInv => BufferUsable
  BY DEF IInv, BufferUsable, BufferInv, Open
<1> QED
  BY <1>1, Invariance, PTL

(***************************************************************************)
(* An invocation that loaded its configurations and entered their          *)
(* directory went through every one with the label asked for, the failures *)
(* of some of them notwithstanding, unless it was killed.                  *)
(***************************************************************************)
THEOREM EveryConfigTried == SessionSpec => []AllTried
<1>1. IInv => AllTried
  BY DEF IInv, Progress
<1> QED
  BY <1>1, Invariance, PTL
=============================================================================
