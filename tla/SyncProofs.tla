----------------------------- MODULE SyncProofs -----------------------------
(***************************************************************************)
(* What the runs of the program do to the two trees, for every tree of     *)
(* names, every set of ignored names and any number of runs and changes.   *)
(***************************************************************************)
EXTENDS Sync, TLAPS

\* The file types and times a side can hold.
LEMMA EntryTypes ==
  /\ Absent \in Entry /\ Directory \in Entry
  /\ \A t \in Types, v \in Nat, m \in Int : File(t, v, m) \in Entry
  /\ now \in Int =>
       \A s \in Side, t \in Types, v \in Nat : Made(s, t, v) \in Entry
  BY TimesAssumption
  DEF Absent, Directory, File, Made, Clock, Entry, Types, Partial

\* An item the walk can list.
LEMMA ItemTypes ==
  /\ NoItem \in ItemType
  /\ \A t \in Types, m \in Int : Item(t, m) \in ItemType
  /\ \A s \in Side, m \in Int : Seen(s, m) \in Int
  BY TimesAssumption DEF NoItem, Item, ItemType, Seen, Types

\* The parameters, for any state.
LEMMA SideTypes ==
  /\ Src \in Side /\ Dst \in Side /\ Src # Dst
  /\ Base \notin Path
  BY NamesAssumption DEF Src, Dst, Other, Side, Base, Path

Causes == {"foreign", "failed", "raced", "as recent"}
CauseType == [Side -> [Path -> SUBSET Causes]]

\* Why the two sides may differ stays one of the four reasons.
LEMMA CauseTypes ==
  ASSUME cause \in CauseType, NEW p \in Path
  PROVE  /\ Forget(p) => cause' \in CauseType
         /\ \A why \in Causes : Blame(p, why) => cause' \in CauseType
<1>1. ASSUME NEW s \in Side, NEW why \in Causes
      PROVE  /\ [cause[s] EXCEPT ![p] = {}] \in [Path -> SUBSET Causes]
             /\ [cause[s] EXCEPT ![p] = @ \cup {why}] \in [Path -> SUBSET Causes]
  BY <1>1 DEF CauseType
<1>2. QED
  BY <1>1 DEF Forget, Blame, CauseType

\* Every start of the model has the right types.
LEMMA InitType == Init => TypeOK
<1> SUFFICES ASSUME Init PROVE TypeOK
  OBVIOUS
<1>1. PICK l, r \in [Path -> UNION {Existing(p, {1, 2}) : p \in Path}] :
        /\ \A p \in Path : l[p] \in Existing(p, {1}) /\ r[p] \in Existing(p, {1, 2})
        /\ tree = [s \in Side |-> IF s = "local" THEN l ELSE r]
  BY DEF Init
<1>2. \A p \in Path, V \in SUBSET Nat : Existing(p, V) \subseteq Entry
  BY EntryTypes, NamesAssumption, TimesAssumption DEF Existing, Types
<1>3. {1} \in SUBSET Nat /\ {1, 2} \in SUBSET Nat
  OBVIOUS
<1>4. l \in [Path -> Entry] /\ r \in [Path -> Entry]
  BY <1>1, <1>2, <1>3
<1>5. tree \in [Side -> [Path -> Entry]]
  BY <1>1, <1>4
<1>6. cause \in CauseType
  BY DEF Init, CauseType, Causes
<1>7. listed \in [Path -> ItemType]
  BY ItemTypes DEF Init
<1>8. /\ now \in Int /\ runs \in 0 .. MaxRuns /\ edits \in 0 .. MaxEdits
      /\ run \in [reverse : BOOLEAN, action : {"list", "updown"}, prompt : BOOLEAN,
                  ignored : SUBSET Path]
  BY NamesAssumption, TimesAssumption DEF Init
<1>9. /\ base \in [Side -> {"NONE", "DIR", "OTHER"}]
      /\ pc \in {"idle", "connect", "walk", "extra", "prompt", "base", "item",
                "link", "symlink", "copy", "close"}
      /\ todo \subseteq Path /\ opened \subseteq Path \cup {Base}
      /\ torn \in BOOLEAN /\ failed \subseteq Path \cup {Base}
      /\ stale \subseteq Path /\ calm \in BOOLEAN
      /\ settled \in {"none", "up", "down"}
  BY DEF Init
<1>10. QED
  BY <1>5, <1>6, <1>7, <1>8, <1>9 DEF CauseType, Causes, TypeOK

\* Every step keeps the types.
LEMMA TypeStep == TypeOK /\ [Next]_vars => TypeOK'
<1> SUFFICES ASSUME TypeOK, [Next]_vars PROVE TypeOK'
  OBVIOUS
<1> USE DEF Goto, Fails, Quiet, world, bounds, history
<1> USE SideTypes
<1>a. tree \in [Side -> [Path -> Entry]] /\ now \in Int
  BY DEF TypeOK
<1>b. cause \in CauseType
  BY DEF TypeOK, CauseType, Causes
<1>c. runs \in 0 .. MaxRuns /\ edits \in 0 .. MaxEdits
  BY DEF TypeOK
<1>d. ASSUME cause' \in CauseType
      PROVE  cause' \in [Side -> [Path ->
                           SUBSET {"foreign", "failed", "raced", "as recent"}]]
  BY <1>d DEF CauseType, Causes
<1>1. CASE Start
  <2>1. run' \in [reverse : BOOLEAN, action : {"list", "updown"}, prompt : BOOLEAN,
                  ignored : SUBSET Path]
    <3>1. run.ignored \in SUBSET Path
      BY DEF TypeOK
    <3>2. PICK r \in Directions, a \in {"list", "updown"}, y \in BOOLEAN :
            run' = [reverse |-> r, action |-> a, prompt |-> y, ignored |-> run.ignored]
      BY <1>1 DEF Start
    <3>3. QED
      BY <3>1, <3>2, NamesAssumption
  <2>2. runs' \in 0 .. MaxRuns
    BY <1>1, <1>c, TimesAssumption DEF Start
  <2>3. QED
    BY <1>1, <2>1, <2>2 DEF Start, TypeOK
<1>2. CASE Connect
  BY <1>2 DEF Connect, TypeOK
<1>3. CASE Sort
  BY <1>3 DEF Sort, Items, TypeOK
<1>4. CASE Act
  BY <1>4 DEF Act, TypeOK
<1>5. CASE Answer
  BY <1>5 DEF Answer, TypeOK
<1>6. CASE CheckBase
  BY <1>6 DEF CheckBase, Items, TypeOK
<1>7. CASE LoopEnds
  BY <1>7 DEF LoopEnds, TypeOK
<1>8. CASE Close
  BY <1>8, ItemTypes DEF Close, TypeOK
<1>9. CASE Killed
  <2>1. listed' \in [Path -> ItemType]
    BY <1>9, ItemTypes DEF Killed
  <2>2. UNCHANGED cause \/ \E p \in Path : Blame(p, "failed")
    BY <1>9 DEF Killed, TypeOK
  <2>3. cause' \in CauseType
    BY <1>b, <2>2, CauseTypes DEF Causes
  <2>4. QED
    BY <1>9, <1>d, <2>1, <2>3 DEF Killed, TypeOK
<1>10. CASE Tick
  <2>1. now' \in Int
    BY <1>10, <1>a DEF Tick
  <2>2. QED
    BY <1>10, <2>1 DEF Tick, TypeOK
<1>11. ASSUME NEW p \in Path, Visit(p) PROVE TypeOK'
  <2>1. tree[Src][p] \in Entry
    BY <1>a
  <2>2. Item(tree[Src][p].type, Seen(Src, tree[Src][p].mtime)) \in ItemType
    BY <2>1, ItemTypes DEF Entry
  <2>3. listed' \in [Path -> ItemType]
    BY <1>11, <2>2 DEF Visit, TypeOK
  <2>4. opened' \subseteq Path \cup {Base} /\ failed' \subseteq Path \cup {Base}
    BY <1>11 DEF Visit, TypeOK
  <2>5. QED
    BY <1>11, <2>3, <2>4 DEF Visit, TypeOK
<1>12. ASSUME NEW p \in Path, SetExtra(p) PROVE TypeOK'
  <2>1. PICK n, e \in BOOLEAN : Extra(p, n, e)
    BY <1>12 DEF SetExtra, Newer
  <2>2. listed' \in [Path -> ItemType]
    BY <2>1 DEF Extra, TypeOK, ItemType
  <2>3. failed' \subseteq Path \cup {Base}
    BY <1>12 DEF SetExtra, TypeOK
  <2>4. QED
    BY <1>12, <2>2, <2>3 DEF SetExtra, TypeOK
<1>13. ASSUME NEW p \in Path, NEW e \in Entry, Store(p, e)
       PROVE  tree' \in [Side -> [Path -> Entry]] /\ UNCHANGED base
  BY <1>a, <1>13 DEF Store
<1>14. ASSUME NEW p \in Path, Transfer(p) PROVE TypeOK'
  <2>1. now \in Int /\ Dst \in Side
    BY <1>a
  <2>2. tree[Src][p] \in Entry /\ tree[Dst][p] \in Entry
    BY <1>a
  <2>3. CASE Skip(p)
    BY <2>3 DEF Skip, TypeOK
  <2>4. CASE TransferFails(p)
    BY <2>4 DEF TransferFails, TypeOK
  <2>5. CASE MakeDirectory(p)
    BY <1>13, <2>5, EntryTypes DEF MakeDirectory, TypeOK
  <2>6. CASE UnlinkOld(p)
    BY <1>13, <2>6, EntryTypes DEF UnlinkOld, TypeOK
  <2>7. CASE MakeLink(p)
    <3>1. Made(Dst, "LNK", IF torn THEN Partial ELSE tree[Src][p].ver) \in Entry
      BY <2>1, <2>2, EntryTypes DEF Entry, Types, Partial
    <3>2. tree' \in [Side -> [Path -> Entry]] /\ UNCHANGED base
      BY <1>13, <2>7, <3>1 DEF MakeLink, TypeOK
    <3>3. cause' \in CauseType
      BY <2>7, <1>b, CauseTypes DEF MakeLink, Causes
    <3>4. QED
      BY <2>7, <1>d, <3>2, <3>3 DEF MakeLink, TypeOK
  <2>8. CASE OpenFile(p)
    <3>1. Made(Dst, "REG", Partial) \in Entry
      BY <2>1, EntryTypes DEF Types, Partial
    <3>2. tree' \in [Side -> [Path -> Entry]] /\ UNCHANGED base
      BY <1>13, <2>8, <3>1 DEF OpenFile
    <3>3. QED
      BY <2>8, <3>2 DEF OpenFile, TypeOK
  <2>9. ASSUME NEW v \in Nat, Written(p, v)
        PROVE  tree' \in [Side -> [Path -> Entry]] /\ UNCHANGED base
    <3>1. PICK m \in {tree[Dst][p].mtime, Clock(Dst)} : Store(p, File("REG", v, m))
      BY <2>9 DEF Written
    <3>2. m \in Int
      BY <2>1, <2>2, TimesAssumption DEF Entry, Clock
    <3>3. QED
      BY <1>13, <3>1, <3>2, EntryTypes DEF Types
  <2>10. CASE CopyEnds(p)
    <3>1. PICK v \in {tree[Src][p].ver, Partial} : Written(p, v)
      BY <2>10 DEF CopyEnds
    <3>2. v \in Nat
      BY <2>2 DEF Entry, Partial
    <3>3. tree' \in [Side -> [Path -> Entry]] /\ UNCHANGED base
      BY <2>9, <3>1, <3>2
    <3>4. cause' \in CauseType
      BY <2>10, <1>b, CauseTypes DEF CopyEnds, Causes
    <3>5. QED
      BY <2>10, <1>d, <3>3, <3>4 DEF CopyEnds, TypeOK
  <2>11. CASE CopyFails(p)
    <3>1. tree' \in [Side -> [Path -> Entry]] /\ UNCHANGED base
      BY <2>9, <2>11 DEF CopyFails, Partial
    <3>2. cause' \in CauseType
      BY <2>11, <1>b, CauseTypes DEF CopyFails, Causes
    <3>3. QED
      BY <2>11, <1>d, <3>1, <3>2 DEF CopyFails, TypeOK
  <2>12. CASE ReadLink(p)
    BY <2>12 DEF ReadLink, TypeOK
  <2>13. QED
    BY <1>14, <2>3, <2>4, <2>5, <2>6, <2>7, <2>8, <2>10, <2>11, <2>12 DEF Transfer
<1>15. ASSUME NEW s \in Side, NEW p \in Path, Edit(s, p) PROVE TypeOK'
  <2>1. PICK t \in Kinds[p] \cup {"NONE"} :
          tree' = [tree EXCEPT ![s][p] =
                     IF t = "NONE" THEN Absent ELSE Made(s, t, edits + 3)]
    BY <1>15 DEF Edit
  <2>2. t \in Types
    BY <2>1, NamesAssumption DEF Types
  <2>3. tree' \in [Side -> [Path -> Entry]]
    <3>1. (IF t = "NONE" THEN Absent ELSE Made(s, t, edits + 3)) \in Entry
      BY <1>a, <1>c, <2>2, EntryTypes, TimesAssumption
    <3>2. QED
      BY <1>a, <2>1, <3>1
  <2>4. edits' \in 0 .. MaxEdits
    <3>1. edits < MaxEdits /\ edits' = edits + 1
      BY <1>15 DEF Edit
    <3>2. QED
      BY <1>c, <3>1, TimesAssumption
  <2>5. cause' \in CauseType
    <3> DEFINE recent == IF tree[Other(s)][p].mtime >= Clock(Other(s))
                         THEN {"as recent"} ELSE {}
    <3>1. cause' = [cause EXCEPT ![s][p] = @ \cup {"foreign"}, ![Other(s)][p] = @ \cup recent]
      BY <1>15 DEF Edit
    <3>2. recent \subseteq {"as recent"}
      OBVIOUS
    <3> HIDE DEF recent
    <3>3. QED
      BY <1>b, <3>1, <3>2 DEF CauseType, Causes
  <2>6. torn' \in BOOLEAN /\ stale' \subseteq Path
    BY <1>15 DEF Edit, TypeOK
  <2>7. QED
    BY <1>d, <1>15, <2>3, <2>4, <2>5, <2>6 DEF Edit, TypeOK
<1>16. CASE UNCHANGED vars
  BY <1>16 DEF vars, TypeOK
<1>17. QED
  BY <1>1, <1>2, <1>3, <1>4, <1>5, <1>6, <1>7, <1>8, <1>9, <1>10, <1>11,
     <1>12, <1>14, <1>15, <1>16
  DEF Next, Proceed, Finished

(***************************************************************************)
(* Every variable keeps its type.                                          *)
(***************************************************************************)
THEOREM TypeCorrect == Spec => []TypeOK
  BY InitType, TypeStep, PTL DEF Spec

-----------------------------------------------------------------------------
(***************************************************************************)
(* Ignored names stay out of the list as the walk only enters directories  *)
(* that are in it; the loops that follow only go through the list.         *)
(***************************************************************************)
ListInv ==
  /\ \A q \in opened \cap Path : q \notin Excluded
  /\ \A p \in Path : listed[p].type # "NONE" => p \notin Excluded
  /\ pc \in {"extra", "item", "link", "symlink", "copy"} =>
       \A p \in todo : listed[p].type # "NONE"

\* What the program itself changes: the item of do_updown, at the destination.
LEMMA OneEntryChanges ==
  ASSUME TypeOK, [Next]_vars, edits' = edits,
         NEW s \in Side, NEW q \in Path, tree'[s][q] # tree[s][q]
  PROVE  /\ s = Dst /\ Transfer(q) /\ Turn(q)
         /\ \/ pc = "item" /\ Chosen(q)
            \/ pc \in {"link", "symlink", "copy"}
<1> USE DEF Goto, Quiet, world, bounds
<1>a. tree \in [Side -> [Path -> Entry]] /\ edits \in 0 .. MaxEdits
  BY DEF TypeOK
<1>b. Dst \in Side
  BY SideTypes
<1>1. ASSUME NEW p \in Path, NEW e, Store(p, e) PROVE s = Dst /\ q = p
  <2>1. tree' = [tree EXCEPT ![Dst][p] = e]
    BY <1>1 DEF Store
  <2>2. QED
    BY <1>a, <1>b, <2>1
<1>2. ASSUME NEW p \in Path, NEW v, Written(p, v) PROVE s = Dst /\ q = p
  BY <1>1, <1>2 DEF Written
<1>3. ASSUME NEW t \in Side, NEW p \in Path, Edit(t, p) PROVE FALSE
  <2>1. edits' = edits + 1
    BY <1>3 DEF Edit
  <2>2. QED
    BY <1>a, <2>1
<1>4. ~UNCHANGED tree
  OBVIOUS
<1>5. PICK p \in Path : Transfer(p)
  <2>1. ~(Start \/ Connect \/ Sort \/ Act \/ Answer \/ CheckBase \/ LoopEnds \/ Close)
    BY <1>4 DEF Start, Connect, Sort, Act, Answer, CheckBase, LoopEnds, Close
  <2>2. ~(Killed \/ Tick \/ Finished \/ UNCHANGED vars)
    BY <1>4 DEF Killed, Tick, Finished, vars
  <2>3. \A p \in Path : ~Visit(p) /\ ~SetExtra(p)
    BY <1>4 DEF Visit, SetExtra
  <2>4. QED
    BY <1>3, <2>1, <2>2, <2>3 DEF Next, Proceed
<1>6. ~Skip(p) /\ ~TransferFails(p) /\ ~ReadLink(p)
  BY <1>4 DEF Skip, TransferFails, ReadLink
<1>7. CASE MakeDirectory(p)
  BY <1>1, <1>4, <1>5, <1>7 DEF MakeDirectory, AtItem
<1>8. CASE UnlinkOld(p)
  BY <1>1, <1>4, <1>5, <1>8 DEF UnlinkOld, AtItem
<1>9. CASE MakeLink(p)
  BY <1>1, <1>4, <1>5, <1>9 DEF MakeLink
<1>10. CASE OpenFile(p)
  BY <1>1, <1>5, <1>10 DEF OpenFile, AtItem
<1>11. CASE CopyEnds(p)
  BY <1>2, <1>5, <1>11 DEF CopyEnds
<1>12. CASE CopyFails(p)
  BY <1>2, <1>5, <1>12 DEF CopyFails
<1>13. QED
  BY <1>5, <1>6, <1>7, <1>8, <1>9, <1>10, <1>11, <1>12 DEF Transfer

\* A name the walk comes to in a directory it has opened is not excluded.
LEMMA WalkedNames ==
  ASSUME ListInv, NEW p \in Path, Walked(p), p \notin Ignored
  PROVE  p \notin Excluded
<1>1. CASE Parent[p] = Base
  BY <1>1, NamesAssumption DEF Excluded
<1>2. CASE Parent[p] # Base
  <2>1. Parent[p] \in Path /\ Parent[p] \in opened
    BY <1>2, NamesAssumption DEF Walked
  <2>2. ({Parent[p]} \cup Above[Parent[p]]) \cap Ignored = {}
    BY <2>1 DEF ListInv, Excluded
  <2>3. Above[p] = {Parent[p]} \cup Above[Parent[p]]
    BY <1>2, NamesAssumption
  <2>4. QED
    BY <2>2, <2>3 DEF Excluded
<1>3. QED
  BY <1>1, <1>2

\* The configuration does not change.
LEMMA SameConfig ==
  ASSUME TypeOK, [Next]_vars
  PROVE  Ignored' = Ignored /\ Excluded' = Excluded
<1> USE DEF Quiet
<1>1. CASE Start
  <2>1. PICK r \in Directions, a \in {"list", "updown"}, y \in BOOLEAN :
          run' = [reverse |-> r, action |-> a, prompt |-> y, ignored |-> run.ignored]
    BY <1>1 DEF Start
  <2>2. QED
    BY <2>1 DEF Ignored, Excluded
<1>2. CASE ~Start
  <2>1. Connect \/ Sort \/ Act \/ Answer \/ CheckBase \/ LoopEnds \/ Close => UNCHANGED run
    BY DEF Connect, Sort, Act, Answer, CheckBase, LoopEnds, Close
  <2>2. Killed \/ Tick \/ Finished \/ UNCHANGED vars => UNCHANGED run
    BY DEF Killed, Tick, Finished, vars
  <2>3. \A p \in Path : Visit(p) \/ SetExtra(p) => UNCHANGED run
    BY DEF Visit, SetExtra
  <2>4. \A p \in Path : Transfer(p) => UNCHANGED run
    BY DEF Transfer, Skip, TransferFails, MakeDirectory, UnlinkOld, ReadLink,
           MakeLink, OpenFile,
           CopyEnds, CopyFails
  <2>5. \A s \in Side, p \in Path : Edit(s, p) => UNCHANGED run
    BY DEF Edit
  <2>6. UNCHANGED run
    BY <1>2, <2>1, <2>2, <2>3, <2>4, <2>5 DEF Next, Proceed
  <2>7. QED
    BY <2>6 DEF Ignored, Excluded
<1>3. QED
  BY <1>1, <1>2

\* Every step keeps the ignored names out of the list.
LEMMA ListStep == TypeOK /\ ListInv /\ [Next]_vars => ListInv'
<1> SUFFICES ASSUME TypeOK, ListInv, [Next]_vars PROVE ListInv'
  OBVIOUS
<1> USE DEF Goto, Quiet
<1>a. listed \in [Path -> ItemType] /\ todo \subseteq Path
  BY DEF TypeOK
<1>b. Excluded' = Excluded
  BY SameConfig
<1>1. CASE Start
  BY <1>1, <1>b DEF Start, ListInv
<1>2. CASE Connect
  BY <1>2, SideTypes, <1>b DEF Connect, ListInv
<1>3. CASE Sort
  BY <1>3, <1>b DEF Sort, Items, ListInv
<1>4. CASE Act \/ Answer \/ LoopEnds
  BY <1>4, <1>b DEF Act, Answer, LoopEnds, ListInv
<1>5. CASE CheckBase
  BY <1>5, <1>b DEF CheckBase, Items, ListInv
<1>6. CASE Close \/ Killed
  <2>1. /\ listed' = [p \in Path |-> NoItem] /\ opened' = {} /\ pc' = "idle"
    BY <1>6 DEF Close, Killed
  <2>2. QED
    BY <2>1, <1>b DEF NoItem, Item, ListInv
<1>7. CASE Tick
  BY <1>7, <1>b DEF Tick, ListInv
<1>8. ASSUME NEW p \in Path, Visit(p) PROVE ListInv'
  <2>1. CASE UNCHANGED <<listed, opened>>
    BY <1>8, <2>1, <1>b DEF Visit, ListInv
  <2>2. CASE ~UNCHANGED <<listed, opened>>
    <3>1. /\ p \notin Excluded /\ opened' \subseteq opened \cup {p} /\ pc' = "walk"
      BY <1>8, <2>2, WalkedNames DEF Visit
    <3>2. \A q \in Path \ {p} : listed'[q] = listed[q]
      BY <1>8, <2>2, <1>a DEF Visit
    <3>3. QED
      BY <3>1, <3>2, <1>b DEF ListInv
  <2>3. QED
    BY <2>1, <2>2
<1>9. ASSUME NEW p \in Path, SetExtra(p) PROVE ListInv'
  <2>1. PICK n, e : Extra(p, n, e)
    BY <1>9 DEF SetExtra
  <2>2. \A q \in Path : listed'[q].type = listed[q].type
    BY <1>a, <2>1 DEF Extra
  <2>3. UNCHANGED <<opened, pc>> /\ todo' \subseteq todo
    BY <1>9 DEF SetExtra
  <2>4. QED
    BY <1>a, <2>2, <2>3, <1>b DEF ListInv
<1>10. ASSUME NEW p \in Path, Transfer(p) PROVE ListInv'
  <2>1. UNCHANGED <<listed, opened>> /\ todo' \subseteq todo
    BY <1>10 DEF Transfer, Skip, TransferFails, MakeDirectory, UnlinkOld, ReadLink, MakeLink,
                 OpenFile, CopyEnds, CopyFails
  <2>2. pc \in {"item", "link", "symlink", "copy"}
    BY <1>10 DEF Transfer, Skip, TransferFails, MakeDirectory, UnlinkOld, ReadLink, MakeLink,
                 OpenFile, CopyEnds, CopyFails, AtItem
  <2>3. QED
    BY <2>1, <2>2, <1>b DEF ListInv
<1>11. ASSUME NEW s \in Side, NEW p \in Path, Edit(s, p) PROVE ListInv'
  <2>1. UNCHANGED <<listed, opened, todo, pc>>
    BY <1>11 DEF Edit
  <2>2. QED
    BY <2>1, <1>b DEF ListInv
<1>12. CASE UNCHANGED vars
  BY <1>12, <1>b DEF vars, ListInv
<1>13. QED
  BY <1>1, <1>2, <1>3, <1>4, <1>5, <1>6, <1>7, <1>8, <1>9, <1>10, <1>11, <1>12
  DEF Next, Proceed, Finished

(***************************************************************************)
(* In any number of runs, the program changes neither the source of a run  *)
(* nor anything that is ignored or in an ignored directory.                *)
(***************************************************************************)
THEOREM NothingElseChanged == Spec => SourceAndIgnoredUntouched
<1>1. Init => ListInv
  BY DEF Init, NoItem, Item, ListInv
<1>2. TypeOK /\ ListInv /\ [Next]_vars =>
        [edits' = edits =>
           \A s \in Side, p \in Path :
             tree'[s][p] # tree[s][p] => s = Dst /\ p \notin Excluded]_vars
  <2> SUFFICES ASSUME TypeOK, ListInv, [Next]_vars, edits' = edits,
                      NEW s \in Side, NEW p \in Path, tree'[s][p] # tree[s][p]
               PROVE  s = Dst /\ p \notin Excluded
    OBVIOUS
  <2>1. /\ s = Dst /\ p \in todo
        /\ pc \in {"item", "link", "symlink", "copy"}
    BY OneEntryChanges DEF Turn, IsFirst
  <2>2. QED
    BY <2>1 DEF ListInv
<1>3. QED
  BY <1>1, <1>2, InitType, TypeStep, ListStep, PTL
  DEF Spec, SourceAndIgnoredUntouched

-----------------------------------------------------------------------------
(***************************************************************************)
(* The trees stay trees: what is there lies in directories, and the file   *)
(* being written stays a file.                                             *)
(***************************************************************************)
Rooted ==
  /\ \A s \in Side, p \in Path : tree[s][p] # Absent =>
       base[s] = "DIR" /\ \A q \in Above[p] : tree[s][q].type = "DIR"
  /\ \A s \in Side, p \in Path : tree[s][p].type = "NONE" => tree[s][p] = Absent

TreeInv ==
  /\ Rooted
  /\ pc = "copy" => \A p \in todo : Turn(p) => tree[Dst][p].type = "REG"

\* What lies above a name comes before it.
LEMMA AboveIsOther ==
  ASSUME NEW p \in Path
  PROVE  /\ p \notin Above[p] /\ Above[p] \subseteq Path
         /\ \A q \in Above[p] : q < p
<1>1. N \in Nat /\ Above[p] \subseteq 1 .. p - 1
  BY NamesAssumption
<1>2. QED
  BY <1>1 DEF Path

\* The directory of a name is the last one above it.
LEMMA ParentAbove ==
  ASSUME NEW p \in Path, Parent[p] # Base
  PROVE  Parent[p] \in Path /\ Parent[p] \in Above[p] /\ Parent[p] < p
<1>1. Parent[p] \in Path /\ Parent[p] \in Above[p]
  BY NamesAssumption DEF Base
<1>2. QED
  BY <1>1, AboveIsOther

\* The item of the loop is determined.
LEMMA OneTurn ==
  ASSUME TypeOK, NEW p \in Path, NEW q \in Path, Turn(p), Turn(q)
  PROVE  p = q
  BY NamesAssumption DEF Turn, IsFirst, Path

\* When the change of one entry leaves the trees trees.
LEMMA RootedUpdate ==
  ASSUME TypeOK, Rooted, NEW s \in Side, NEW p \in Path, NEW e \in Entry,
         tree' = [tree EXCEPT ![s][p] = e], UNCHANGED base,
         e.type = "NONE" => e = Absent,
         e # Absent => InDirectory(s, p),
         e.type # "DIR" /\ tree[s][p].type = "DIR" => Empty(s, p)
  PROVE  Rooted'
<1>1. tree \in [Side -> [Path -> Entry]]
  BY DEF TypeOK
<1>2. /\ tree'[s][p] = e
      /\ \A t \in Side, q \in Path : t # s \/ q # p => tree'[t][q] = tree[t][q]
  BY <1>1
<1>3. Absent.type = "NONE"
  BY DEF Absent, File
<1>4. ASSUME NEW t \in Side, NEW q \in Path, tree'[t][q] # Absent
      PROVE  base[t] = "DIR" /\ \A r \in Above[q] : tree'[t][r].type = "DIR"
  <2>1. CASE t = s /\ q = p
    <3>1. InDirectory(s, p)
      BY <1>2, <1>4, <2>1
    <3>2. CASE Parent[p] = Base
      BY <2>1, <3>1, <3>2, NamesAssumption DEF InDirectory
    <3>3. CASE Parent[p] # Base
      <4>1. tree[s][Parent[p]].type = "DIR" /\ Parent[p] \in Path
        BY <3>1, <3>3, ParentAbove DEF InDirectory
      <4>2. /\ base[s] = "DIR"
            /\ \A r \in Above[Parent[p]] : tree[s][r].type = "DIR"
        BY <1>3, <4>1 DEF Rooted
      <4>3. Above[p] = {Parent[p]} \cup Above[Parent[p]]
        BY <3>3, NamesAssumption
      <4>4. \A r \in Above[p] : tree[s][r].type = "DIR" /\ r # p /\ r \in Path
        BY <4>1, <4>2, <4>3, AboveIsOther
      <4>5. QED
        BY <1>2, <2>1, <4>2, <4>4
    <3>4. QED
      BY <3>2, <3>3
  <2>2. CASE t # s
    BY <1>2, <1>4, <2>2, AboveIsOther DEF Rooted
  <2>3. CASE t = s /\ q # p
    <3>1. tree[s][q] # Absent
      BY <1>2, <1>4, <2>3
    <3>2. base[s] = "DIR" /\ \A r \in Above[q] : tree[s][r].type = "DIR" /\ r \in Path
      BY <3>1, AboveIsOther DEF Rooted
    <3>3. p \in Above[q] => e.type = "DIR"
      BY <3>1, <3>2 DEF Empty
    <3>4. \A r \in Above[q] : tree'[s][r].type = "DIR"
      BY <1>2, <3>2, <3>3
    <3>5. QED
      BY <2>3, <3>2, <3>4
  <2>4. QED
    BY <2>1, <2>2, <2>3
<1>5. ASSUME NEW t \in Side, NEW q \in Path, tree'[t][q].type = "NONE"
      PROVE  tree'[t][q] = Absent
  BY <1>2, <1>5 DEF Rooted
<1>6. QED
  BY <1>4, <1>5 DEF Rooted

\* The start holds trees.
LEMMA InitTree == Init => TreeInv
<1> SUFFICES ASSUME Init PROVE TreeInv
  OBVIOUS
<1>1. ASSUME NEW s \in Side, NEW p \in Path, tree[s][p].type = "NONE"
      PROVE  tree[s][p] = Absent
  <2>1. PICK l, r \in [Path -> UNION {Existing(q, {1, 2}) : q \in Path}] :
          /\ \A q \in Path : l[q] \in Existing(q, {1}) /\ r[q] \in Existing(q, {1, 2})
          /\ tree = [t \in Side |-> IF t = "local" THEN l ELSE r]
    BY DEF Init
  <2>2. \E V \in SUBSET Nat : tree[s][p] \in Existing(p, V)
    <3>1. {1} \in SUBSET Nat /\ {1, 2} \in SUBSET Nat
      OBVIOUS
    <3>2. tree[s][p] \in Existing(p, {1}) \/ tree[s][p] \in Existing(p, {1, 2})
      BY <2>1
    <3>3. QED
      BY <3>1, <3>2
  <2>3. Directory.type # "NONE"
    BY DEF Directory, File
  <2>4. \A t \in Kinds[p] \ {"DIR"} : \A v, m : File(t, v, m).type # "NONE"
    BY NamesAssumption DEF File
  <2>5. QED
    BY <1>1, <2>2, <2>3, <2>4 DEF Existing
<1>2. QED
  BY <1>1 DEF Init, TreeInv, Rooted

\* Every step keeps them trees.
LEMMA TreeStep == TypeOK /\ TreeInv /\ [Next]_vars => TreeInv'
<1> SUFFICES ASSUME TypeOK, TreeInv, [Next]_vars PROVE TreeInv'
  OBVIOUS
<1> USE DEF Goto, Quiet, world
<1>a. tree \in [Side -> [Path -> Entry]] /\ todo \subseteq Path
  BY DEF TypeOK
<1>b. Rooted
  BY DEF TreeInv
<1>c. now \in Int /\ edits \in 0 .. MaxEdits
  BY DEF TypeOK
<1>d. ASSUME UNCHANGED world PROVE Rooted'
  BY <1>b, <1>d DEF Rooted
<1>1. CASE Start \/ Connect \/ Sort \/ Act \/ Answer \/ LoopEnds \/ Close \/ Killed
  <2>1. UNCHANGED world /\ pc' # "copy"
    BY <1>1 DEF Start, Connect, Sort, Act, Answer, LoopEnds, Close, Killed
  <2>2. QED
    BY <1>d, <2>1 DEF TreeInv
<1>2. CASE CheckBase
  <2>1. UNCHANGED tree /\ pc' # "copy" /\ \A s \in Side : base[s] = "DIR" => base'[s] = "DIR"
    BY <1>2, SideTypes DEF CheckBase, TypeOK
  <2>2. QED
    BY <1>b, <2>1 DEF TreeInv, Rooted
<1>3. CASE Tick \/ UNCHANGED vars
  <2>1. UNCHANGED <<world, pc, todo, run>>
    BY <1>3 DEF Tick, vars
  <2>2. QED
    BY <1>d, <2>1 DEF TreeInv, Turn, IsFirst, Dst, Src
<1>4. ASSUME NEW p \in Path, Visit(p) \/ SetExtra(p) PROVE TreeInv'
  <2>1. UNCHANGED world /\ pc' # "copy"
    BY <1>4 DEF Visit, SetExtra
  <2>2. QED
    BY <1>d, <2>1 DEF TreeInv
<1>5. ASSUME NEW p \in Path, NEW v \in Nat, NEW m \in Int, Turn(p), pc = "copy",
             Store(p, File("REG", v, m))
      PROVE  Rooted'
  <2>1. tree[Dst][p].type = "REG" /\ Dst \in Side
    BY <1>5, SideTypes DEF TreeInv, Turn, IsFirst
  <2>2. tree[Dst][p] # Absent
    BY <2>1 DEF Absent, File
  <2>3. base[Dst] = "DIR" /\ \A q \in Above[p] : tree[Dst][q].type = "DIR"
    BY <1>b, <2>1, <2>2 DEF Rooted
  <2>4. InDirectory(Dst, p)
    BY <2>3, ParentAbove DEF InDirectory
  <2>5. File("REG", v, m) \in Entry /\ File("REG", v, m).type = "REG"
    BY EntryTypes DEF Types, File
  <2>6. QED
    BY <1>5, <1>b, <2>1, <2>4, <2>5, RootedUpdate DEF Store
<1>6. ASSUME NEW p \in Path, NEW v \in Nat, Turn(p), pc = "copy", Written(p, v)
      PROVE  Rooted'
  <2>1. tree[Dst][p].mtime \in Int /\ Clock(Dst) \in Int
    BY <1>a, <1>c, SideTypes, TimesAssumption DEF Entry, Clock
  <2>2. QED
    BY <1>5, <1>6, <2>1 DEF Written
<1>7. ASSUME NEW p \in Path, Transfer(p) PROVE TreeInv'
  <2>1. CASE Skip(p) \/ TransferFails(p) \/ ReadLink(p)
    <3>1. UNCHANGED world /\ pc' # "copy"
      BY <2>1 DEF Skip, TransferFails, ReadLink, AtItem
    <3>2. QED
      BY <1>d, <3>1 DEF TreeInv
  <2>2. CASE MakeDirectory(p)
    <3>1. pc' # "copy"
      BY <2>2 DEF MakeDirectory, AtItem
    <3>2. Directory.type = "DIR" /\ Directory \in Entry
      BY EntryTypes DEF Directory, File
    <3>3. Rooted'
      BY <1>b, <1>d, <2>2, <3>2, RootedUpdate, SideTypes DEF MakeDirectory, Store
    <3>4. QED
      BY <3>1, <3>3 DEF TreeInv
  <2>3. CASE UnlinkOld(p)
    <3>1. pc' # "copy"
      BY <2>3 DEF UnlinkOld
    <3>2. Absent \in Entry
      BY EntryTypes
    <3>3. Rooted'
      BY <1>b, <1>d, <2>3, <3>2, RootedUpdate, SideTypes DEF UnlinkOld, Store
    <3>4. QED
      BY <3>1, <3>3 DEF TreeInv
  <2>4. CASE MakeLink(p)
    <3>1. pc' # "copy"
      BY <2>4 DEF MakeLink
    <3> DEFINE v == IF torn THEN Partial ELSE tree[Src][p].ver
    <3>2. v \in Nat
      BY <1>a, SideTypes DEF Entry, Partial
    <3>3. /\ Made(Dst, "LNK", v) \in Entry
          /\ Made(Dst, "LNK", v).type = "LNK"
      BY <1>c, <3>2, EntryTypes, SideTypes DEF Made, File, Types
    <3>4. Absent.type = "NONE"
      BY DEF Absent, File
    <3>5. Rooted'
      BY <1>b, <1>d, <2>4, <3>3, <3>4, RootedUpdate, SideTypes DEF MakeLink, Store
    <3>6. QED
      BY <3>1, <3>5 DEF TreeInv
  <2>5. CASE OpenFile(p)
    <3>1. /\ Made(Dst, "REG", Partial) \in Entry
          /\ Made(Dst, "REG", Partial).type = "REG"
      BY <1>c, EntryTypes, SideTypes DEF Made, File, Types, Partial
    <3>2. Rooted'
      BY <1>b, <2>5, <3>1, RootedUpdate, SideTypes DEF OpenFile, Store
    <3>3. tree'[Dst][p].type = "REG" /\ Turn(p) /\ UNCHANGED <<todo, run>>
      BY <1>a, <2>5, <3>1, SideTypes DEF OpenFile, Store, AtItem
    <3>4. \A q \in todo' : Turn(q)' => tree'[Dst'][q].type = "REG"
      BY <1>a, <3>3, OneTurn DEF Turn, IsFirst, Dst, Src
    <3>5. QED
      BY <3>2, <3>4 DEF TreeInv
  <2>6. CASE CopyEnds(p)
    <3>1. PICK v \in {tree[Src][p].ver, Partial} : Written(p, v)
      BY <2>6 DEF CopyEnds
    <3>2. v \in Nat
      BY <1>a, SideTypes DEF Entry, Partial
    <3>3. pc' # "copy" /\ pc = "copy" /\ Turn(p)
      BY <2>6 DEF CopyEnds
    <3>4. QED
      BY <1>6, <3>1, <3>2, <3>3 DEF TreeInv
  <2>7. CASE CopyFails(p)
    <3>1. pc' # "copy" /\ pc = "copy" /\ Turn(p) /\ Written(p, Partial)
      BY <2>7 DEF CopyFails
    <3>2. QED
      BY <1>6, <3>1 DEF Partial, TreeInv
  <2>8. QED
    BY <1>7, <2>1, <2>2, <2>3, <2>4, <2>5, <2>6, <2>7 DEF Transfer
<1>8. ASSUME NEW s \in Side, NEW p \in Path, Edit(s, p) PROVE TreeInv'
  <2>1. PICK t \in Kinds[p] \cup {"NONE"} :
          /\ t = "NONE" => tree[s][p] # Absent /\ Empty(s, p)
          /\ t = "DIR" => tree[s][p] = Absent
          /\ t # "NONE" => InDirectory(s, p) /\ tree[s][p].type \in {"NONE", t}
          /\ tree' = [tree EXCEPT ![s][p] =
                        IF t = "NONE" THEN Absent ELSE Made(s, t, edits + 3)]
    BY <1>8 DEF Edit
  <2> DEFINE e == IF t = "NONE" THEN Absent ELSE Made(s, t, edits + 3)
  <2>2. t \in Types
    BY NamesAssumption DEF Types
  <2>3. e \in Entry
    BY <1>c, <2>2, EntryTypes, TimesAssumption
  <2>4. e.type = t
    BY DEF Absent, Made, Directory, File
  <2>5. UNCHANGED <<base, pc, todo, run>> /\ ~(pc = "copy" /\ s = Dst /\ Turn(p))
    BY <1>8 DEF Edit
  <2>6. tree' = [tree EXCEPT ![s][p] = e]
    BY <2>1
  <2> HIDE DEF e
  <2>7. (e.type = "NONE" => e = Absent) /\ (e # Absent => t # "NONE")
    BY <2>4 DEF e
  <2>8. Rooted'
    BY <1>b, <2>1, <2>3, <2>4, <2>5, <2>6, <2>7, RootedUpdate
  <2>9. ASSUME pc = "copy", NEW q \in todo, Turn(q) PROVE tree'[Dst][q].type = "REG"
    <3>1. tree'[Dst][q] = tree[Dst][q]
      BY <1>a, <2>5, <2>6, <2>9, SideTypes
    <3>2. QED
      BY <2>9, <3>1 DEF TreeInv
  <2>10. QED
    BY <2>5, <2>8, <2>9 DEF TreeInv, Turn, IsFirst, Dst, Src
<1>9. QED
  BY <1>1, <1>2, <1>3, <1>4, <1>7, <1>8 DEF Next, Proceed, Finished

-----------------------------------------------------------------------------
(***************************************************************************)
(* From the stat of an item to its transfer, its record says what the      *)
(* destination holds, unless somebody else changed it.                     *)
(***************************************************************************)
Pending(p) ==
  \/ pc \in {"walk", "extra", "prompt", "base"}
  \/ pc = "item" /\ p \in todo
  \/ pc \in {"link", "symlink", "copy"} /\ p \in todo /\ ~Turn(p)

Decision(p) ==
  \/ /\ listed[p].exist /\ tree[Dst][p].type = listed[p].type
     /\ listed[p].type # "DIR" =>
          \/ tree[Dst][p].mtime < listed[p].mtime
          \/ Dst = "remote" /\ listed[p].mtime < 0
  \/ /\ ~listed[p].exist
     /\ tree[Dst][p] = Absent \/ listed[p].type = "DIR"

DecisionInv ==
  /\ \A p \in Path \ stale : listed[p].newer /\ Pending(p) => Decision(p)
  /\ pc \in {"idle", "connect"} => \A p \in Path : listed[p] = NoItem

\* What the transfer of an item leaves alone.
LEMMA TransferFrame ==
  ASSUME TypeOK, NEW q \in Path, Transfer(q)
  PROVE  /\ UNCHANGED <<listed, stale, run, opened>>
         /\ pc \in {"item", "link", "symlink", "copy"} /\ Turn(q) /\ q \in todo
         /\ \/ todo' = todo /\ pc' \in {"link", "symlink", "copy"}
            \/ todo' = todo \ {q} /\ pc' = "item"
         /\ \A p \in Path \ {q} : tree'[Dst][p] = tree[Dst][p]
<1> USE DEF Goto, Quiet, world, bounds, history
<1>1. /\ UNCHANGED <<listed, stale, run, opened, edits>>
      /\ pc \in {"item", "link", "symlink", "copy"} /\ Turn(q)
      /\ \/ todo' = todo /\ pc' \in {"link", "symlink", "copy"}
         \/ todo' = todo \ {q} /\ pc' = "item"
  BY DEF Transfer, Skip, TransferFails, MakeDirectory, UnlinkOld, ReadLink, MakeLink,
         OpenFile, CopyEnds, CopyFails, AtItem
<1>2. ASSUME NEW p \in Path \ {q}, tree'[Dst][p] # tree[Dst][p] PROVE FALSE
  <2>1. [Next]_vars
    BY DEF Next, Proceed
  <2>2. Turn(p)
    BY <1>1, <1>2, <2>1, OneEntryChanges, SideTypes
  <2>3. QED
    BY <1>1, <1>2, <2>2, OneTurn
<1>3. QED
  BY <1>1, <1>2 DEF Turn, IsFirst

\* Only the transfer of an item settles what was pending for it.
LEMMA PendingFrame ==
  ASSUME TypeOK, NEW q \in Path, Transfer(q), NEW p \in Path, Pending(p)'
  PROVE  p # q /\ Pending(p)
<1>1. /\ pc \in {"item", "link", "symlink", "copy"} /\ Turn(q) /\ q \in todo
      /\ \/ todo' = todo /\ pc' \in {"link", "symlink", "copy"}
         \/ todo' = todo \ {q} /\ pc' = "item"
  BY TransferFrame
<1>2. p # q
  BY <1>1 DEF Pending, Turn, IsFirst
<1>3. ~Turn(p)
  BY <1>1, <1>2, OneTurn
<1>4. p \in todo
  BY <1>1 DEF Pending
<1>5. QED
  BY <1>1, <1>2, <1>3, <1>4 DEF Pending

\* A name below something that is no directory, or named like one, is absent.
LEMMA StatAbsentMeans ==
  ASSUME TypeOK, Rooted, NEW p \in Path, StatAbsent(p)
  PROVE  tree[Dst][p] = Absent \/ listed[p].type = "DIR"
<1>1. CASE Blocked(Dst, p)
  BY <1>1, SideTypes DEF Blocked, Rooted
<1>2. CASE ~Blocked(Dst, p)
  BY <1>2 DEF StatAbsent, NotDir
<1>3. QED
  BY <1>1, <1>2

\* Every step keeps the decisions right.
LEMMA DecisionStep ==
  TypeOK /\ TreeInv /\ DecisionInv /\ [Next]_vars => DecisionInv'
<1> SUFFICES ASSUME TypeOK, TreeInv, DecisionInv, [Next]_vars
             PROVE  DecisionInv'
  OBVIOUS
<1> USE DEF Goto, Quiet, world, bounds, history
<1>a. /\ listed \in [Path -> ItemType] /\ todo \subseteq Path
      /\ tree \in [Side -> [Path -> Entry]]
  BY DEF TypeOK
<1>b. NoItem.newer = FALSE
  BY DEF NoItem, Item
<1>c. ASSUME UNCHANGED <<tree, run, listed, stale>>, pc' \notin {"idle", "connect"},
             \A p \in Path : Pending(p)' => Pending(p)
      PROVE  DecisionInv'
  BY <1>c DEF DecisionInv, Decision, Dst, Src
<1>1. CASE Start
  <2>1. UNCHANGED listed /\ pc = "idle" /\ pc' = "connect"
    BY <1>1 DEF Start
  <2>2. QED
    BY <1>b, <2>1 DEF DecisionInv
<1>2. CASE Connect
  <2>1. UNCHANGED listed /\ pc = "connect"
    BY <1>2 DEF Connect
  <2>2. QED
    BY <1>b, <2>1 DEF DecisionInv
<1>3. CASE Sort
  <2>1. /\ UNCHANGED <<tree, run, listed, stale>> /\ pc = "walk" /\ pc' = "extra"
    BY <1>3 DEF Sort
  <2>2. QED
    BY <1>c, <2>1 DEF Pending
<1>4. CASE Act
  <2>1. /\ UNCHANGED <<tree, run, listed, stale>> /\ pc = "extra"
        /\ pc' \in {"close", "prompt", "base"}
    BY <1>4 DEF Act
  <2>2. QED
    BY <1>c, <2>1 DEF Pending
<1>5. CASE Answer
  <2>1. /\ UNCHANGED <<tree, run, listed, stale>> /\ pc = "prompt"
        /\ pc' \in {"close", "base"}
    BY <1>5 DEF Answer
  <2>2. QED
    BY <1>c, <2>1 DEF Pending
<1>6. CASE CheckBase
  <2>1. /\ UNCHANGED <<tree, run, listed, stale>> /\ pc = "base"
        /\ pc' \in {"close", "item"}
    BY <1>6 DEF CheckBase
  <2>2. QED
    BY <1>c, <2>1 DEF Pending
<1>7. CASE LoopEnds
  <2>1. /\ UNCHANGED <<tree, run, listed, stale>> /\ pc' = "close"
    BY <1>7 DEF LoopEnds
  <2>2. QED
    BY <1>c, <2>1 DEF Pending
<1>8. CASE Close \/ Killed
  <2>1. listed' = [p \in Path |-> NoItem]
    BY <1>8 DEF Close, Killed
  <2>2. QED
    BY <1>b, <2>1 DEF DecisionInv
<1>9. CASE Tick \/ UNCHANGED vars
  <2>1. UNCHANGED <<tree, run, listed, stale, pc, todo>>
    BY <1>9 DEF Tick, vars
  <2>2. QED
    BY <2>1 DEF DecisionInv, Decision, Pending, Turn, IsFirst, Dst, Src
<1>10. ASSUME NEW p \in Path, Visit(p) PROVE DecisionInv'
  <2>1. UNCHANGED <<tree, run, stale, pc>> /\ pc = "walk"
    BY <1>10 DEF Visit
  <2>2. \/ UNCHANGED listed
        \/ \E t, m : listed' = [listed EXCEPT ![p] = Item(t, m)]
    BY <1>10 DEF Visit
  <2>3. \A q \in Path : listed'[q] = listed[q] \/ ~listed'[q].newer
    BY <1>a, <2>2 DEF Item
  <2>4. QED
    BY <2>1, <2>3 DEF DecisionInv, Decision, Pending, Dst, Src
<1>11. ASSUME NEW p \in Path, SetExtra(p) PROVE DecisionInv'
  <2>1. /\ UNCHANGED <<tree, run, pc>> /\ pc = "extra" /\ stale' = stale \ {p}
    BY <1>11 DEF SetExtra
  <2>2. PICK n, e \in BOOLEAN :
          /\ Extra(p, n, e)
          /\ n => IF e THEN /\ tree[Dst][p].type = listed[p].type
                            /\ listed[p].type # "DIR" =>
                                 Newer(Seen(Dst, tree[Dst][p].mtime), listed[p].mtime)
                  ELSE StatAbsent(p)
    BY <1>11 DEF SetExtra, Newer
  <2>3. /\ \A q \in Path \ {p} : listed'[q] = listed[q]
        /\ listed'[p].newer = n /\ listed'[p].exist = e
        /\ listed'[p].type = listed[p].type /\ listed'[p].mtime = listed[p].mtime
    BY <1>a, <2>2 DEF Extra
  <2>4. ASSUME Newer(Seen(Dst, tree[Dst][p].mtime), listed[p].mtime)
        PROVE  \/ tree[Dst][p].mtime < listed[p].mtime
               \/ Dst = "remote" /\ listed[p].mtime < 0
    <3>1. tree[Dst][p].mtime \in Int /\ listed[p].mtime \in Int
      BY <1>a, SideTypes DEF Entry, ItemType
    <3>2. tree[Dst][p].mtime <= Seen(Dst, tree[Dst][p].mtime)
      BY <3>1, TimesAssumption DEF Seen
    <3>3. Seen(Dst, tree[Dst][p].mtime) \in Int
      BY <3>1, TimesAssumption DEF Seen
    <3>4. QED
      BY <2>4, <3>1, <3>2, <3>3 DEF Newer
  <2>5. n => Decision(p)'
    <3>1. CASE e
      BY <2>1, <2>2, <2>3, <2>4, <3>1 DEF Decision, Dst, Src
    <3>2. CASE ~e
      <4>1. n => tree[Dst][p] = Absent \/ listed[p].type = "DIR"
        BY <2>2, <3>2, StatAbsentMeans DEF TreeInv
      <4>2. QED
        BY <2>1, <2>3, <3>2, <4>1 DEF Decision, Dst, Src
    <3>3. QED
      BY <3>1, <3>2
  <2>6. ASSUME NEW q \in Path \ {p}, q \notin stale', listed'[q].newer
        PROVE  Decision(q)'
    <3>1. Decision(q)
      BY <2>1, <2>3, <2>6 DEF DecisionInv, Pending
    <3>2. QED
      BY <2>1, <2>3, <3>1 DEF Decision, Dst, Src
  <2>7. QED
    BY <2>1, <2>3, <2>5, <2>6 DEF DecisionInv
<1>12. ASSUME NEW p \in Path, Transfer(p) PROVE DecisionInv'
  <2>1. /\ UNCHANGED <<listed, stale, run>> /\ pc' \in {"item", "link", "symlink", "copy"}
        /\ \A q \in Path \ {p} : tree'[Dst][q] = tree[Dst][q]
    BY <1>12, TransferFrame
  <2>2. ASSUME NEW q \in Path \ stale, listed[q].newer, Pending(q)' PROVE Decision(q)'
    <3>1. q # p /\ Decision(q)
      BY <1>12, <2>2, PendingFrame DEF DecisionInv
    <3>2. QED
      BY <2>1, <3>1 DEF Decision, Dst, Src
  <2>3. QED
    BY <2>1, <2>2 DEF DecisionInv
<1>13. ASSUME NEW s \in Side, NEW p \in Path, Edit(s, p) PROVE DecisionInv'
  <2>1. /\ UNCHANGED <<listed, run, pc, todo>>
        /\ stale' = IF s = Dst THEN stale \cup {p} ELSE stale
        /\ \E e : tree' = [tree EXCEPT ![s][p] = e]
    BY <1>13 DEF Edit
  <2>2. \A q \in Path \ stale' : tree'[Dst][q] = tree[Dst][q] /\ q \notin stale
    BY <1>a, <2>1, SideTypes
  <2>3. \A q \in Path : Pending(q)' <=> Pending(q)
    BY <2>1 DEF Pending, Turn, IsFirst
  <2>4. QED
    BY <2>1, <2>2, <2>3 DEF DecisionInv, Decision, Dst, Src
<1>14. QED
  BY <1>1, <1>2, <1>3, <1>4, <1>5, <1>6, <1>7, <1>8, <1>9, <1>10, <1>11, <1>12,
     <1>13
  DEF Next, Proceed, Finished

(***************************************************************************)
(* In any number of runs nothing that is newer, or of another type, is     *)
(* lost: an entry that nobody else changed since its stat is only          *)
(* overwritten by a newer one, or by one dated before 1970.                *)
(***************************************************************************)
THEOREM NoNewerFileLost == Spec => NewerKept
<1>1. Init => DecisionInv
  BY DEF Init, NoItem, Item, DecisionInv
<1>2. TypeOK /\ DecisionInv /\ [Next]_vars =>
        [\A p \in Path \ stale :
           LET d == tree[Dst][p] IN
           edits' = edits /\ pc = "item" /\ d # Absent /\ tree'[Dst][p] # d =>
             /\ d.type = listed[p].type
             /\ d.mtime < listed[p].mtime \/ (Dst = "remote" /\ listed[p].mtime < 0)]_vars
  <2> SUFFICES ASSUME TypeOK, DecisionInv, [Next]_vars, NEW p \in Path \ stale,
                      edits' = edits, pc = "item", tree[Dst][p] # Absent,
                      tree'[Dst][p] # tree[Dst][p]
               PROVE  /\ tree[Dst][p].type = listed[p].type
                      /\ \/ tree[Dst][p].mtime < listed[p].mtime
                         \/ Dst = "remote" /\ listed[p].mtime < 0
    OBVIOUS
  <2>1. Transfer(p) /\ Turn(p) /\ Chosen(p)
    BY OneEntryChanges, SideTypes
  <2>2. Decision(p)
    BY <2>1 DEF DecisionInv, Pending, Chosen, Turn, IsFirst
  <2>3. ASSUME listed[p].type = "DIR" PROVE FALSE
    <3>1. Skip(p) \/ TransferFails(p) \/ MakeDirectory(p)
      BY <2>1, <2>3
      DEF Transfer, UnlinkOld, ReadLink, MakeLink, OpenFile, CopyEnds, CopyFails
    <3>2. UNCHANGED tree
      BY <3>1 DEF Skip, TransferFails, MakeDirectory, Quiet, world
    <3>3. QED
      BY <3>2
  <2>4. QED
    BY <2>2, <2>3 DEF Decision
<1>3. QED
  BY <1>1, <1>2, InitType, TypeStep, InitTree, TreeStep, DecisionStep, PTL
  DEF Spec, NewerKept

-----------------------------------------------------------------------------
(***************************************************************************)
(* The walk lists a directory before what is in it, and the loop of        *)
(* do_updown leaves every directory it has passed at the destination,      *)
(* unless there was a reason not to.                                       *)
(***************************************************************************)
WalkInv ==
  /\ \A q \in opened \cap Path : listed[q].type = "DIR"
  /\ \A p \in Path : listed[p].type # "NONE" /\ Parent[p] # Base =>
       listed[Parent[p]].type = "DIR"
  /\ pc = "connect" \/ pc = "idle" => \A p \in Path : listed[p].type = "NONE"
  /\ pc = "walk" => \A p \in todo : listed[p].type = "NONE"

PassedInv ==
  /\ pc \in {"item", "link", "symlink", "copy"} =>
       \A q \in Path \ (todo \cup failed \cup stale) :
         listed[q].type = "DIR" /\ listed[q].newer => tree[Dst][q].type = "DIR"
  /\ pc \in {"link", "symlink", "copy"} =>
       \A q \in todo : Turn(q) => listed[q].type # "DIR"

\* Every step keeps the list closed under directories.
LEMMA WalkStep == TypeOK /\ WalkInv /\ [Next]_vars => WalkInv'
<1> SUFFICES ASSUME TypeOK, WalkInv, [Next]_vars PROVE WalkInv'
  OBVIOUS
<1> USE DEF Goto, Quiet
<1>a. listed \in [Path -> ItemType] /\ todo \subseteq Path
  BY DEF TypeOK
<1>b. Item("NONE", 0).type = "NONE"
  BY DEF Item
<1>1. CASE Start
  BY <1>1 DEF Start, WalkInv
<1>2. CASE Connect
  <2>1. /\ UNCHANGED listed /\ pc = "connect" /\ opened' \subseteq opened \cup {Base}
        /\ pc' = "walk" => todo' = Path
    BY <1>2 DEF Connect
  <2>2. QED
    BY <2>1, SideTypes DEF WalkInv
<1>3. CASE Sort \/ Act \/ Answer \/ LoopEnds \/ CheckBase
  <2>1. UNCHANGED <<listed, opened>> /\ pc' \notin {"connect", "idle", "walk"}
    BY <1>3 DEF Sort, Act, Answer, LoopEnds, CheckBase
  <2>2. QED
    BY <2>1 DEF WalkInv
<1>4. CASE Close \/ Killed
  <2>1. listed' = [p \in Path |-> NoItem] /\ opened' = {} /\ pc' = "idle"
    BY <1>4 DEF Close, Killed
  <2>2. \A p \in Path : listed'[p].type = "NONE"
    BY <1>b, <2>1 DEF NoItem
  <2>3. QED
    BY <2>1, <2>2 DEF WalkInv
<1>5. CASE Tick \/ UNCHANGED vars
  <2>1. UNCHANGED <<listed, opened, pc, todo>>
    BY <1>5 DEF Tick, vars
  <2>2. QED
    BY <2>1 DEF WalkInv
<1>6. ASSUME NEW p \in Path, Visit(p) PROVE WalkInv'
  <2>1. /\ pc = "walk" /\ pc' = "walk" /\ todo' = todo \ {p} /\ p \in todo
        /\ listed[p].type = "NONE"
    BY <1>6 DEF Visit, WalkInv
  <2>2. CASE UNCHANGED <<listed, opened>>
    BY <2>1, <2>2 DEF WalkInv
  <2>3. CASE ~UNCHANGED <<listed, opened>>
    <3>1. PICK t, m : listed' = [listed EXCEPT ![p] = Item(t, m)]
      BY <1>6, <2>3 DEF Visit
    <3>2. /\ \A q \in Path \ {p} : listed'[q] = listed[q]
          /\ listed'[p].type = t
      BY <1>a, <3>1 DEF Item
    <3>3. opened' = opened \/ (opened' = opened \cup {p} /\ listed'[p].type = "DIR")
      BY <1>6, <1>a, <2>3 DEF Visit, Item
    <3>4. \A q \in opened' \cap Path : listed'[q].type = "DIR"
      BY <2>1, <3>2, <3>3 DEF WalkInv
    <3>5. Parent[p] # Base => Parent[p] \in Path \ {p} /\ Parent[p] \in opened
      BY <1>6, <2>3, ParentAbove, AboveIsOther DEF Visit, Walked
    <3>6. ASSUME NEW q \in Path, listed'[q].type # "NONE", Parent[q] # Base
          PROVE  listed'[Parent[q]].type = "DIR"
      <4>1. CASE q = p
        BY <3>2, <3>5, <3>6, <4>1 DEF WalkInv
      <4>2. CASE q # p
        BY <2>1, <3>2, <3>6, <4>2, ParentAbove DEF WalkInv
      <4>3. QED
        BY <4>1, <4>2
    <3>7. \A q \in todo' : listed'[q].type = "NONE"
      BY <1>a, <2>1, <3>2 DEF WalkInv
    <3>8. QED
      BY <2>1, <3>4, <3>6, <3>7 DEF WalkInv
  <2>4. QED
    BY <2>2, <2>3
<1>7. ASSUME NEW p \in Path, SetExtra(p) PROVE WalkInv'
  <2>1. UNCHANGED <<opened, pc>> /\ pc = "extra" /\ \E n, e : Extra(p, n, e)
    BY <1>7 DEF SetExtra
  <2>2. \A q \in Path : listed'[q].type = listed[q].type
    BY <1>a, <2>1 DEF Extra
  <2>3. \A q \in Path : Parent[q] # Base => Parent[q] \in Path
    BY ParentAbove
  <2>4. QED
    BY <2>1, <2>2, <2>3 DEF WalkInv
<1>8. ASSUME NEW p \in Path, Transfer(p) PROVE WalkInv'
  <2>1. UNCHANGED <<listed, opened>> /\ pc' \in {"item", "link", "symlink", "copy"}
    BY <1>8, TransferFrame
  <2>2. QED
    BY <2>1 DEF WalkInv
<1>9. ASSUME NEW s \in Side, NEW p \in Path, Edit(s, p) PROVE WalkInv'
  <2>1. UNCHANGED <<listed, opened, pc, todo>>
    BY <1>9 DEF Edit
  <2>2. QED
    BY <2>1 DEF WalkInv
<1>10. QED
  BY <1>1, <1>2, <1>3, <1>4, <1>5, <1>6, <1>7, <1>8, <1>9
  DEF Next, Proceed, Finished

\* Every step leaves the directories that were passed.
LEMMA PassedStep ==
  TypeOK /\ DecisionInv /\ PassedInv /\ [Next]_vars => PassedInv'
<1> SUFFICES ASSUME TypeOK, DecisionInv, PassedInv, [Next]_vars PROVE PassedInv'
  OBVIOUS
<1> USE DEF Goto, Quiet
<1>a. tree \in [Side -> [Path -> Entry]] /\ todo \subseteq Path
  BY DEF TypeOK
<1>1. CASE Start \/ Connect \/ Sort \/ Act \/ Answer \/ LoopEnds \/ Close \/ Killed
  <2>1. pc' \notin {"item", "link", "symlink", "copy"}
    BY <1>1 DEF Start, Connect, Sort, Act, Answer, LoopEnds, Close, Killed
  <2>2. QED
    BY <2>1 DEF PassedInv
<1>2. CASE CheckBase
  <2>1. /\ pc' \notin {"link", "symlink", "copy"} /\ UNCHANGED listed
        /\ pc' = "item" => todo' = Items
    BY <1>2 DEF CheckBase
  <2>2. QED
    BY <2>1 DEF PassedInv, Items
<1>3. CASE Tick \/ UNCHANGED vars
  <2>1. UNCHANGED <<tree, run, listed, stale, failed, pc, todo>>
    BY <1>3 DEF Tick, vars, world, history
  <2>2. QED
    BY <2>1 DEF PassedInv, Turn, IsFirst, Dst, Src
<1>4. ASSUME NEW p \in Path, Visit(p) \/ SetExtra(p) PROVE PassedInv'
  <2>1. pc' \notin {"item", "link", "symlink", "copy"}
    BY <1>4 DEF Visit, SetExtra
  <2>2. QED
    BY <2>1 DEF PassedInv
<1>5. ASSUME NEW p \in Path, Transfer(p) PROVE PassedInv'
  <2>1. /\ UNCHANGED <<listed, stale, run>>
        /\ pc \in {"item", "link", "symlink", "copy"} /\ Turn(p) /\ p \in todo
        /\ \/ todo' = todo /\ pc' \in {"link", "symlink", "copy"}
           \/ todo' = todo \ {p} /\ pc' = "item"
        /\ \A q \in Path \ {p} : tree'[Dst][q] = tree[Dst][q]
    BY <1>5, TransferFrame
  <2>2. failed \subseteq failed'
    BY <1>5 DEF Transfer, Skip, TransferFails, MakeDirectory, UnlinkOld, ReadLink, MakeLink,
                OpenFile, CopyEnds, CopyFails, Fails
  <2>3. ASSUME listed[p].type = "DIR", listed[p].newer, p \notin stale,
               p \notin failed'
        PROVE  tree'[Dst][p].type = "DIR" /\ pc' = "item"
    <3>1. pc = "item"
      BY <2>1, <2>3 DEF PassedInv
    <3>2. MakeDirectory(p)
      BY <1>5, <2>3, <3>1
      DEF Transfer, Skip, TransferFails, UnlinkOld, ReadLink, MakeLink, OpenFile, CopyEnds,
          CopyFails, Fails, Chosen, Transferable
    <3>3. CASE listed[p].exist
      <4>1. tree[Dst][p].type = "DIR"
        BY <2>1, <2>3, <3>1, <3>3 DEF DecisionInv, Decision, Pending
      <4>2. QED
        BY <3>2, <3>3, <4>1 DEF MakeDirectory, AtItem, world
    <3>4. CASE ~listed[p].exist
      <4>1. tree' = [tree EXCEPT ![Dst][p] = Directory] /\ pc' = "item"
        BY <3>2, <3>4 DEF MakeDirectory, AtItem, Store
      <4>2. QED
        BY <1>a, <4>1, SideTypes DEF Directory, File
    <3>5. QED
      BY <3>3, <3>4
  <2>4. ASSUME NEW q \in Path \ (todo' \cup failed' \cup stale'),
               listed'[q].type = "DIR", listed'[q].newer
        PROVE  tree'[Dst][q].type = "DIR"
    <3>1. CASE q = p
      BY <2>1, <2>3, <2>4, <3>1
    <3>2. CASE q # p
      BY <2>1, <2>2, <2>4, <3>2 DEF PassedInv
    <3>3. QED
      BY <3>1, <3>2
  <2>5. ASSUME NEW q \in todo, pc' \in {"link", "symlink", "copy"}, todo' = todo, Turn(q)
        PROVE  listed[q].type # "DIR"
    <3>1. q = p
      BY <1>a, <2>1, <2>5, OneTurn
    <3>2. UnlinkOld(p) \/ ReadLink(p) \/ OpenFile(p)
      BY <1>5, <2>5 DEF Transfer, Skip, TransferFails, MakeDirectory, MakeLink,
                        CopyEnds, CopyFails, AtItem
    <3>3. QED
      BY <2>5, <3>1, <3>2 DEF UnlinkOld, ReadLink, OpenFile, PassedInv
  <2>6. QED
    BY <2>1, <2>4, <2>5 DEF PassedInv, Turn, IsFirst, Dst, Src
<1>6. ASSUME NEW s \in Side, NEW p \in Path, Edit(s, p) PROVE PassedInv'
  <2>1. /\ UNCHANGED <<listed, run, pc, todo, failed>>
        /\ stale' = IF s = Dst THEN stale \cup {p} ELSE stale
        /\ \E e : tree' = [tree EXCEPT ![s][p] = e]
    BY <1>6 DEF Edit
  <2>2. \A q \in Path \ stale' : tree'[Dst][q] = tree[Dst][q] /\ q \notin stale
    BY <1>a, <2>1, SideTypes
  <2>3. QED
    BY <2>1, <2>2 DEF PassedInv, Turn, IsFirst, Dst, Src
<1>7. QED
  BY <1>1, <1>2, <1>3, <1>4, <1>5, <1>6 DEF Next, Proceed, Finished

(***************************************************************************)
(* The sorted list brings directories into being before their contents:    *)
(* when an item's turn comes its directory is at the destination, unless   *)
(* creating it failed or was not called for, or somebody else removed it.  *)
(***************************************************************************)
THEOREM ParentsFirst == Spec => []DirectoryBeforeContents
<1>1. Init => ListInv /\ DecisionInv /\ WalkInv /\ PassedInv
  BY DEF Init, NoItem, Item, ListInv, DecisionInv, WalkInv, PassedInv
<1>2. TypeOK /\ ListInv /\ WalkInv /\ PassedInv => DirectoryBeforeContents
  <2> SUFFICES ASSUME TypeOK, ListInv, WalkInv, PassedInv,
                      NEW p \in Path, AtItem(p), Chosen(p), Parent[p] # Base,
                      listed[Parent[p]].newer, Parent[p] \notin failed \cup stale
               PROVE  InDirectory(Dst, p)
    BY DEF DirectoryBeforeContents
  <2>1. Parent[p] \in Path /\ Parent[p] < p /\ N \in Nat
    BY ParentAbove, NamesAssumption
  <2>2. Parent[p] \notin todo
    BY <2>1 DEF AtItem, Turn, IsFirst, Path
  <2>3. listed[Parent[p]].type = "DIR"
    BY DEF AtItem, Turn, IsFirst, ListInv, WalkInv
  <2>4. tree[Dst][Parent[p]].type = "DIR"
    BY <2>1, <2>2, <2>3 DEF AtItem, PassedInv
  <2>5. QED
    BY <2>4 DEF InDirectory
<1>3. QED
  BY <1>1, <1>2, InitType, TypeStep, InitTree, TreeStep,
     ListStep, WalkStep, DecisionStep, PassedStep, PTL
  DEF Spec

-----------------------------------------------------------------------------
(***************************************************************************)
(* How the dates of the two sides relate.  A file is not dated later than  *)
(* the clock of its side, or than the first run.                           *)
(***************************************************************************)
Latest(s) == IF s = "remote" /\ Skew > 0 THEN now + Skew ELSE now

DatedInv ==
  \A s \in Side, p \in Path :
    /\ tree[s][p].type = "DIR" => tree[s][p] = Directory
    /\ tree[s][p].type \in {"REG", "LNK"} => tree[s][p].mtime <= Latest(s)

\* What the transfer of an item makes of the item's destination.
Outcome(p, e) ==
  \/ e \in {tree[Dst][p], Absent, Directory}
  \/ e.type = "LNK" /\ e.mtime = Clock(Dst)
  \/ e.type = "REG" /\ e.mtime \in {tree[Dst][p].mtime, Clock(Dst)} /\ pc = "copy"
  \/ e.type = "REG" /\ e.mtime = Clock(Dst)

LEMMA TransferOutcome ==
  ASSUME TypeOK, NEW p \in Path, Transfer(p)
  PROVE  /\ UNCHANGED <<base, now, edits, runs, calm, settled>>
         /\ \E e \in Entry : Outcome(p, e) /\ tree' = [tree EXCEPT ![Dst][p] = e]
<1> USE DEF Goto, Quiet, world, bounds, history
<1>a. tree \in [Side -> [Path -> Entry]] /\ now \in Int
  BY DEF TypeOK
<1>b. Src \in Side /\ Dst \in Side /\ tree[Src][p] \in Entry /\ tree[Dst][p] \in Entry
  BY <1>a, SideTypes
<1> DEFINE Goal == \E e \in Entry : Outcome(p, e) /\ tree' = [tree EXCEPT ![Dst][p] = e]
<1> HIDE DEF Goal
<1>1. UNCHANGED <<base, now, edits, runs, calm, settled>>
  BY DEF Transfer, Skip, TransferFails, MakeDirectory, UnlinkOld, ReadLink, MakeLink,
         OpenFile, CopyEnds, CopyFails, Store, Written
<1>2. ASSUME UNCHANGED tree PROVE Goal
  <2>1. tree' = [tree EXCEPT ![Dst][p] = tree[Dst][p]]
    BY <1>2, <1>a, <1>b
  <2>2. QED
    BY <1>b, <2>1 DEF Outcome, Goal
<1>3. ASSUME NEW e \in Entry, Store(p, e), Outcome(p, e) PROVE Goal
  BY <1>3 DEF Store, Goal
<1>4. ASSUME NEW v \in Nat, Written(p, v), pc = "copy" PROVE Goal
  <2>1. PICK m \in {tree[Dst][p].mtime, Clock(Dst)} : Store(p, File("REG", v, m))
    BY <1>4 DEF Written
  <2>2. File("REG", v, m) \in Entry
    BY <1>a, <1>b, TimesAssumption DEF File, Entry, Types, Clock
  <2>3. Outcome(p, File("REG", v, m))
    BY <1>4 DEF Outcome, File
  <2>4. QED
    BY <1>3, <2>1, <2>2, <2>3
<1>5. CASE Skip(p) \/ TransferFails(p) \/ ReadLink(p)
  BY <1>1, <1>2, <1>5 DEF Skip, TransferFails, ReadLink, Goal
<1>6. CASE MakeDirectory(p) \/ UnlinkOld(p)
  <2>1. UNCHANGED tree \/ Store(p, Directory) \/ Store(p, Absent)
    BY <1>6 DEF MakeDirectory, UnlinkOld
  <2>2. Outcome(p, Directory) /\ Outcome(p, Absent)
    BY DEF Outcome
  <2>3. QED
    BY <1>1, <1>2, <1>3, <2>1, <2>2, EntryTypes DEF Goal
<1>7. CASE MakeLink(p)
  <2> DEFINE v == IF torn THEN Partial ELSE tree[Src][p].ver
             e == Made(Dst, "LNK", v)
  <2>1. v \in Nat
    BY <1>b DEF Entry, Partial
  <2>2. e \in Entry /\ e.type = "LNK" /\ e.mtime = Clock(Dst)
    BY <1>a, <1>b, <2>1, EntryTypes DEF Made, File, Types
  <2>3. Outcome(p, e)
    BY <2>2 DEF Outcome
  <2>4. Store(p, e) \/ UNCHANGED tree
    BY <1>7 DEF MakeLink
  <2>5. QED
    BY <1>1, <1>2, <1>3, <2>2, <2>3, <2>4 DEF Goal
<1>8. CASE OpenFile(p)
  <2> DEFINE e == Made(Dst, "REG", Partial)
  <2>1. e \in Entry /\ e.type = "REG" /\ e.mtime = Clock(Dst)
    BY <1>a, <1>b, EntryTypes DEF Made, File, Types, Partial
  <2>2. Outcome(p, e)
    BY <2>1 DEF Outcome
  <2>3. QED
    BY <1>1, <1>3, <1>8, <2>1, <2>2 DEF OpenFile, Goal
<1>9. CASE CopyEnds(p)
  <2>1. PICK v \in {tree[Src][p].ver, Partial} : Written(p, v)
    BY <1>9 DEF CopyEnds
  <2>2. v \in Nat /\ pc = "copy"
    BY <1>b, <1>9 DEF Entry, Partial, CopyEnds
  <2>3. QED
    BY <1>1, <1>4, <2>1, <2>2 DEF Goal
<1>10. CASE CopyFails(p)
  BY <1>1, <1>4, <1>10 DEF CopyFails, Partial, Goal
<1>11. QED
  BY <1>1, <1>5, <1>6, <1>7, <1>8, <1>9, <1>10 DEF Transfer, Goal

\* The trees and the clock keep their dates when nothing is changed.
LEMMA InitDated == Init => DatedInv
<1> SUFFICES ASSUME Init, NEW s \in Side, NEW p \in Path
             PROVE  /\ tree[s][p].type = "DIR" => tree[s][p] = Directory
                    /\ tree[s][p].type \in {"REG", "LNK"} => tree[s][p].mtime <= Latest(s)
  BY DEF DatedInv
<1>1. PICK l, r \in [Path -> UNION {Existing(q, {1, 2}) : q \in Path}] :
        /\ \A q \in Path : l[q] \in Existing(q, {1}) /\ r[q] \in Existing(q, {1, 2})
        /\ tree = [t \in Side |-> IF t = "local" THEN l ELSE r]
  BY DEF Init
<1>2. \E V : tree[s][p] \in Existing(p, V)
  BY <1>1
<1>3. FirstTime <= Latest(s) /\ StartTime <= Latest(s)
  <2>1. now = StartTime
    BY DEF Init
  <2>2. QED
    BY <2>1, TimesAssumption DEF Latest
<1>4. \/ tree[s][p] \in {Absent, Directory}
      \/ \E t \in Kinds[p] \ {"DIR"} : \E v : \E m \in {FirstTime, StartTime} :
           tree[s][p] = File(t, v, m)
  BY <1>2 DEF Existing
<1>5. CASE tree[s][p] \in {Absent, Directory}
  BY <1>5 DEF Absent, Directory, File
<1>6. ASSUME NEW t \in Kinds[p] \ {"DIR"}, NEW v, NEW m \in {FirstTime, StartTime},
             tree[s][p] = File(t, v, m)
      PROVE  tree[s][p].type # "DIR" /\ tree[s][p].mtime <= Latest(s)
  <2>1. tree[s][p].type = t /\ tree[s][p].mtime = m
    BY <1>6 DEF File
  <2>2. QED
    BY <1>3, <2>1
<1>7. QED
  BY <1>4, <1>5, <1>6

\* Every step keeps them so.
LEMMA DatedStep == TypeOK /\ TreeInv /\ DatedInv /\ [Next]_vars => DatedInv'
<1> SUFFICES ASSUME TypeOK, TreeInv, DatedInv, [Next]_vars PROVE DatedInv'
  OBVIOUS
<1> USE DEF Goto, Quiet, world, bounds, history
<1>a. tree \in [Side -> [Path -> Entry]] /\ now \in Int /\ todo \subseteq Path
  BY DEF TypeOK
<1>b. ASSUME UNCHANGED tree, now' = now \/ now' = now + 1 PROVE DatedInv'
  <2>1. \A s \in Side : Latest(s)' >= Latest(s) /\ Latest(s) \in Int /\ Latest(s)' \in Int
    BY <1>a, <1>b, TimesAssumption DEF Latest
  <2>2. \A s \in Side, p \in Path : tree[s][p].mtime \in Int
    BY <1>a DEF Entry
  <2>3. QED
    BY <1>b, <2>1, <2>2 DEF DatedInv
<1>c. ASSUME NEW s \in Side, NEW p \in Path, NEW e \in Entry, now' = now,
             tree' = [tree EXCEPT ![s][p] = e], e.type = "DIR" => e = Directory,
             e.type \in {"REG", "LNK"} => e.mtime <= Latest(s)
      PROVE  DatedInv'
  <2>1. /\ tree'[s][p] = e
        /\ \A t \in Side, q \in Path : t # s \/ q # p => tree'[t][q] = tree[t][q]
    BY <1>a, <1>c
  <2>2. QED
    BY <1>c, <2>1 DEF DatedInv, Latest
<1>d. \A s \in Side : Clock(s) <= Latest(s)
  BY <1>a, TimesAssumption DEF Clock, Latest
<1>1. CASE Start \/ Connect \/ Sort \/ Act \/ Answer \/ CheckBase \/ LoopEnds \/ Close
  <2>1. UNCHANGED <<tree, now>>
    BY <1>1 DEF Start, Connect, Sort, Act, Answer, CheckBase, LoopEnds, Close
  <2>2. QED
    BY <1>b, <2>1
<1>2. CASE Killed \/ Tick \/ UNCHANGED vars
  <2>1. UNCHANGED tree /\ (now' = now \/ now' = now + 1)
    BY <1>2 DEF Killed, Tick, vars
  <2>2. QED
    BY <1>b, <2>1
<1>3. ASSUME NEW p \in Path, Visit(p) \/ SetExtra(p) PROVE DatedInv'
  <2>1. UNCHANGED <<tree, now>>
    BY <1>3 DEF Visit, SetExtra
  <2>2. QED
    BY <1>b, <2>1
<1>4. ASSUME NEW p \in Path, Transfer(p) PROVE DatedInv'
  <2>1. now' = now /\ Dst \in Side /\ p \in todo /\ Turn(p)
    BY <1>4, TransferOutcome, TransferFrame, SideTypes
  <2>2. PICK e \in Entry : Outcome(p, e) /\ tree' = [tree EXCEPT ![Dst][p] = e]
    BY <1>4, TransferOutcome
  <2>3. e.type = "DIR" => e = Directory
    BY <2>1, <2>2 DEF Outcome, DatedInv, Absent, Directory, File
  <2>4. ASSUME e.type \in {"REG", "LNK"} PROVE e.mtime <= Latest(Dst)
    <3>1. pc = "copy" => tree[Dst][p].mtime <= Latest(Dst)
      BY <2>1 DEF TreeInv, DatedInv
    <3>2. e = tree[Dst][p] => e.mtime <= Latest(Dst)
      BY <2>1, <2>4 DEF DatedInv
    <3>3. QED
      BY <1>d, <2>1, <2>2, <2>4, <3>1, <3>2 DEF Outcome, Absent, Directory, File
  <2>5. QED
    BY <1>c, <2>1, <2>2, <2>3, <2>4
<1>5. ASSUME NEW s \in Side, NEW p \in Path, Edit(s, p) PROVE DatedInv'
  <2>1. PICK t \in Kinds[p] \cup {"NONE"} :
          tree' = [tree EXCEPT ![s][p] =
                     IF t = "NONE" THEN Absent ELSE Made(s, t, edits + 3)]
    BY <1>5 DEF Edit
  <2> DEFINE e == IF t = "NONE" THEN Absent ELSE Made(s, t, edits + 3)
  <2>2. t \in Types /\ edits + 3 \in Nat
    <3>1. edits \in 0 .. MaxEdits
      BY DEF TypeOK
    <3>2. QED
      BY <3>1, NamesAssumption, TimesAssumption DEF Types
  <2>3. e \in Entry
    BY <1>a, <2>2, EntryTypes
  <2>4. e.type = "DIR" => e = Directory
    BY DEF Made, Absent, File
  <2>5. e.type \in {"REG", "LNK"} => e.mtime <= Latest(s)
    BY <1>d DEF Made, Absent, Directory, File
  <2>6. now' = now
    BY <1>5 DEF Edit
  <2>7. QED
    BY <1>c, <2>1, <2>3, <2>4, <2>5, <2>6
<1>6. QED
  BY <1>1, <1>2, <1>3, <1>4, <1>5 DEF Next, Proceed, Finished

\* Nothing changes but what the side s holds under p.
OnlyEntry(s, p) ==
  \A t \in Side, q \in Path : t # s \/ q # p => tree'[t][q] = tree[t][q]

OnlyCause(p) ==
  \A t \in Side, q \in Path \ {p} : cause'[t][q] = cause[t][q]

\* What another user changes: the entry, its date and what is on record.
LEMMA EditOutcome ==
  ASSUME TypeOK, NEW s \in Side, NEW p \in Path, Edit(s, p)
  PROVE  /\ UNCHANGED <<base, now, runs, run, pc, listed, todo, opened, failed>>
         /\ calm' = FALSE /\ settled' = "none"
         /\ OnlyEntry(s, p) /\ OnlyCause(p)
         /\ tree'[s][p].type \in {"REG", "LNK"} => tree'[s][p].mtime = Clock(s)
         /\ "foreign" \in cause'[s][p]
         /\ cause'[Other(s)][p] = {} =>
              cause[Other(s)][p] = {} /\ ~(tree[Other(s)][p].mtime >= Clock(Other(s)))
<1>a. tree \in [Side -> [Path -> Entry]] /\ cause \in CauseType
  BY DEF TypeOK, CauseType, Causes
<1>b. Other(s) \in Side /\ Other(s) # s
  BY DEF Side, Other
<1>1. PICK t \in Kinds[p] \cup {"NONE"} :
        tree' = [tree EXCEPT ![s][p] =
                   IF t = "NONE" THEN Absent ELSE Made(s, t, edits + 3)]
  BY DEF Edit
<1>2. OnlyEntry(s, p)
  BY <1>a, <1>1 DEF OnlyEntry
<1>3. tree'[s][p] = IF t = "NONE" THEN Absent ELSE Made(s, t, edits + 3)
  BY <1>a, <1>1
<1>4. tree'[s][p].type \in {"REG", "LNK"} => tree'[s][p].mtime = Clock(s)
  BY <1>3 DEF Made, Absent, Directory, File
<1> DEFINE recent == IF tree[Other(s)][p].mtime >= Clock(Other(s))
                       THEN {"as recent"} ELSE {}
<1>5. cause' = [cause EXCEPT ![s][p] = @ \cup {"foreign"}, ![Other(s)][p] = @ \cup recent]
  BY DEF Edit
<1> HIDE DEF recent
<1>6. /\ cause'[s][p] = cause[s][p] \cup {"foreign"}
      /\ cause'[Other(s)][p] = cause[Other(s)][p] \cup recent
      /\ OnlyCause(p)
  BY <1>a, <1>b, <1>5 DEF CauseType, OnlyCause
<1>7. UNCHANGED <<base, now, runs, run, pc, listed, todo, opened, failed>>
  BY DEF Edit
<1>8. calm' = FALSE /\ settled' = "none"
  BY DEF Edit
<1>9. QED
  BY <1>2, <1>4, <1>6, <1>7, <1>8 DEF recent

-----------------------------------------------------------------------------
(***************************************************************************)
(* Why a difference would not go unnoticed.  The side a run writes to may  *)
(* be either one, so what the property says of it is kept for both.        *)
(***************************************************************************)
\* Whether a run that writes to the side s would find the other side newer.
OlderOn(s, p) ==
  LET m == Seen(Other(s), tree[Other(s)][p].mtime) IN
  (s = "remote" /\ m < 0) \/ Seen(s, tree[s][p].mtime) < m

\* Both sides hold a file or link, with contents that differ.
Differs(p) ==
  /\ tree["local"][p].type = tree["remote"][p].type
  /\ tree["local"][p].type \in {"REG", "LNK"}
  /\ tree["local"][p].ver # tree["remote"][p].ver

\* The clock of the side is not ahead of the other one.
NotAhead(s) == IF s = "local" THEN Skew >= 0 ELSE Skew <= 0

Noticed(s, p) ==
  /\ Differs(p) /\ cause[s][p] = {} /\ NotAhead(s)
  /\ ~(s = "remote" /\ tree[s][p].mtime < 0)
  /\ ~(pc = "copy" /\ Turn(p))
  => OlderOn(s, p)

StuckInv == \A s \in Side, p \in Path : Noticed(s, p)

\* A file made after the other one is found newer, by clocks that agree.
LEMMA MadeIsNewer ==
  ASSUME now \in Int, NEW s \in Side, NEW p \in Path, NotAhead(s),
         tree[s][p].mtime \in Int, ~(tree[s][p].mtime >= Clock(s)),
         ~(s = "remote" /\ tree[s][p].mtime < 0)
  PROVE  Seen(s, tree[s][p].mtime) < Seen(Other(s), Clock(Other(s)))
  BY TimesAssumption DEF Seen, Clock, Other, NotAhead, Side

\* Every step keeps the differences noticed.
LEMMA StuckStep == TypeOK /\ StuckInv /\ [Next]_vars => StuckInv'
<1> SUFFICES ASSUME TypeOK, StuckInv, [Next]_vars PROVE StuckInv'
  OBVIOUS
<1> USE DEF Goto, Quiet, world, bounds, history
<1>a. /\ tree \in [Side -> [Path -> Entry]] /\ now \in Int /\ todo \subseteq Path
      /\ cause \in CauseType
  BY DEF TypeOK, CauseType, Causes
<1>b. ASSUME NEW s \in Side, NEW p \in Path,
             \A t \in Side : tree'[t][p] = tree[t][p], cause'[s][p] = cause[s][p],
             pc = "copy" /\ Turn(p) => pc' = "copy" /\ Turn(p)'
      PROVE  Noticed(s, p)'
  BY <1>b DEF StuckInv, Noticed, Differs, OlderOn, Other, Side
<1>1. CASE Start \/ Connect \/ Sort \/ Act \/ Answer \/ CheckBase \/ LoopEnds \/ Close
  <2>1. UNCHANGED <<tree, cause>> /\ pc # "copy"
    BY <1>1 DEF Start, Connect, Sort, Act, Answer, CheckBase, LoopEnds, Close
  <2>2. QED
    BY <1>b, <2>1 DEF StuckInv
<1>2. CASE Tick \/ UNCHANGED vars
  <2>1. UNCHANGED <<tree, cause, pc, todo>>
    BY <1>2 DEF Tick, vars
  <2>2. QED
    BY <1>b, <2>1 DEF StuckInv, Turn, IsFirst
<1>3. ASSUME NEW p \in Path, Visit(p) \/ SetExtra(p) PROVE StuckInv'
  <2>1. UNCHANGED <<tree, cause>> /\ pc # "copy"
    BY <1>3 DEF Visit, SetExtra
  <2>2. QED
    BY <1>b, <2>1 DEF StuckInv
<1>c. ASSUME NEW q \in Path, NEW why, Blame(q, why)
      PROVE  /\ \A s \in Side : cause'[s][q] # {}
             /\ \A s \in Side, p \in Path \ {q} : cause'[s][p] = cause[s][p]
  BY <1>a, <1>c DEF Blame, CauseType
<1>d. ASSUME NEW q \in Path, Forget(q)
      PROVE  \A s \in Side, p \in Path \ {q} : cause'[s][p] = cause[s][p]
  BY <1>a, <1>d DEF Forget, CauseType
<1>4. CASE Killed
  <2>1. UNCHANGED tree
    BY <1>4 DEF Killed
  <2>2. CASE pc # "copy"
    <3>1. UNCHANGED cause
      BY <1>4, <2>2 DEF Killed
    <3>2. QED
      BY <1>b, <2>1, <2>2, <3>1 DEF StuckInv
  <2>3. CASE pc = "copy"
    <3>1. PICK q \in todo : Turn(q) /\ Blame(q, "failed")
      BY <1>4, <2>3 DEF Killed
    <3>2. ASSUME NEW s \in Side PROVE Noticed(s, q)'
      BY <1>a, <1>c, <3>1 DEF Noticed
    <3>3. ASSUME NEW s \in Side, NEW p \in Path \ {q} PROVE Noticed(s, p)'
      <4>1. ~Turn(p)
        BY <1>a, <3>1, OneTurn
      <4>2. QED
        BY <1>a, <1>b, <1>c, <2>1, <3>1, <4>1
    <3>4. QED
      BY <1>a, <3>2, <3>3 DEF StuckInv
  <2>4. QED
    BY <2>2, <2>3
<1>5. ASSUME NEW q \in Path, Transfer(q) PROVE StuckInv'
  <2>1. /\ Turn(q) /\ Src \in Side /\ Dst \in Side /\ Src # Dst
        /\ \A s \in Side : s \in {Src, Dst}
    BY <1>5, TransferFrame, SideTypes DEF Side
  <2>2. PICK e \in Entry : Outcome(q, e) /\ tree' = [tree EXCEPT ![Dst][q] = e]
    BY <1>5, TransferOutcome
  <2>3. /\ tree'[Dst][q] = e /\ tree'[Src][q] = tree[Src][q]
        /\ \A s \in Side, p \in Path \ {q} : tree'[s][p] = tree[s][p]
    BY <1>a, <2>1, <2>2
  <2>4. \A s \in Side, p \in Path \ {q} : cause'[s][p] = cause[s][p]
    <3>1. UNCHANGED cause \/ Forget(q) \/ \E why : Blame(q, why)
      BY <1>5 DEF Transfer, Skip, TransferFails, MakeDirectory, UnlinkOld, ReadLink,
                  MakeLink, OpenFile, CopyEnds, CopyFails
    <3>2. QED
      BY <1>c, <1>d, <3>1
  <2>5. ASSUME NEW s \in Side, NEW p \in Path \ {q} PROVE Noticed(s, p)'
    <3>1. ~Turn(p)
      BY <2>1, OneTurn
    <3>2. QED
      BY <1>b, <2>3, <2>4, <3>1
  <2>6. ASSUME NEW s \in Side PROVE Noticed(s, q)'
    <3>1. CASE UNCHANGED <<tree, cause>> /\ pc # "copy"
      BY <1>b, <3>1
    <3>2. CASE e \in {Absent, Directory}
      <4>1. e.type \notin {"REG", "LNK"}
        BY <3>2 DEF Absent, Directory, File
      <4>2. QED
        BY <2>1, <2>3, <4>1 DEF Noticed, Differs, Side
    <3>3. CASE OpenFile(q)
      <4>1. pc' = "copy" /\ UNCHANGED todo
        BY <3>3 DEF OpenFile
      <4>2. QED
        BY <2>1, <4>1 DEF Noticed, Turn, IsFirst
    <3>4. CASE cause'[s][q] # {}
      BY <3>4 DEF Noticed
    <3>5. CASE e.ver = tree[Src][q].ver
      BY <2>1, <2>3, <3>5 DEF Noticed, Differs, Side
    <3>6. CASE MakeLink(q)
      <4>1. \/ UNCHANGED <<world, cause>> /\ pc # "copy"
            \/ /\ Store(q, Made(Dst, "LNK", IF torn THEN Partial ELSE tree[Src][q].ver))
               /\ IF torn THEN Blame(q, "raced") ELSE Forget(q)
        BY <3>6 DEF MakeLink
      <4>2. CASE UNCHANGED <<world, cause>> /\ pc # "copy"
        BY <3>1, <4>2
      <4>3. CASE torn /\ Blame(q, "raced")
        BY <1>c, <3>4, <4>3
      <4>4. CASE ~torn /\ Store(q, Made(Dst, "LNK", tree[Src][q].ver))
        <5>1. e = Made(Dst, "LNK", tree[Src][q].ver)
          BY <1>a, <2>1, <2>3, <4>4 DEF Store
        <5>2. QED
          BY <3>5, <5>1 DEF Made, File
      <4>5. QED
        BY <4>1, <4>2, <4>3, <4>4
    <3>7. CASE CopyEnds(q)
      <4>1. CASE torn
        <5>1. Blame(q, "raced")
          BY <3>7, <4>1 DEF CopyEnds
        <5>2. QED
          BY <1>c, <3>4, <5>1
      <4>2. CASE ~torn
        <5>1. Written(q, tree[Src][q].ver)
          BY <3>7, <4>2 DEF CopyEnds
        <5>2. \E m : e = File("REG", tree[Src][q].ver, m)
          BY <1>a, <2>1, <2>3, <5>1 DEF Written, Store
        <5>3. QED
          BY <3>5, <5>2 DEF File
      <4>3. QED
        BY <4>1, <4>2
    <3>8. CASE CopyFails(q)
      <4>1. Blame(q, "failed")
        BY <3>8 DEF CopyFails
      <4>2. QED
        BY <1>c, <3>4, <4>1
    <3>9. CASE Skip(q) \/ TransferFails(q) \/ ReadLink(q)
      <4>1. UNCHANGED <<tree, cause>> /\ pc # "copy"
        BY <3>9 DEF Skip, TransferFails, ReadLink, AtItem
      <4>2. QED
        BY <3>1, <4>1
    <3>10. CASE MakeDirectory(q) \/ UnlinkOld(q)
      <4>1. UNCHANGED cause /\ pc # "copy"
        BY <3>10 DEF MakeDirectory, UnlinkOld, AtItem
      <4>2. UNCHANGED tree \/ Store(q, Directory) \/ Store(q, Absent)
        BY <3>10 DEF MakeDirectory, UnlinkOld
      <4>3. UNCHANGED tree \/ e \in {Absent, Directory}
        BY <1>a, <2>1, <2>3, <4>2 DEF Store
      <4>4. QED
        BY <3>1, <3>2, <4>1, <4>3
    <3>11. QED
      BY <1>5, <3>3, <3>6, <3>7, <3>8, <3>9, <3>10 DEF Transfer
  <2>7. QED
    BY <2>5, <2>6 DEF StuckInv
<1>6. ASSUME NEW s \in Side, NEW p \in Path, Edit(s, p) PROVE StuckInv'
  <2>1. /\ UNCHANGED <<pc, todo>> /\ OnlyEntry(s, p) /\ OnlyCause(p)
        /\ tree'[s][p].type \in {"REG", "LNK"} => tree'[s][p].mtime = Clock(s)
        /\ "foreign" \in cause'[s][p]
        /\ cause'[Other(s)][p] = {} =>
             cause[Other(s)][p] = {} /\ ~(tree[Other(s)][p].mtime >= Clock(Other(s)))
    BY <1>6, EditOutcome
  <2>2. ASSUME NEW t \in Side, NEW q \in Path \ {p} PROVE Noticed(t, q)'
    BY <1>b, <2>1, <2>2 DEF Turn, IsFirst, OnlyEntry, OnlyCause
  <2>3. Noticed(s, p)'
    BY <2>1 DEF Noticed
  <2> DEFINE o == Other(s)
  <2>4. o \in Side /\ o # s /\ Other(o) = s /\ {o, s} = {"local", "remote"}
    BY DEF Other, Side
  <2>5. ASSUME Differs(p)', cause'[o][p] = {}, NotAhead(o),
               ~(o = "remote" /\ tree'[o][p].mtime < 0)
        PROVE  OlderOn(o, p)'
    <3>1. tree'[o][p] = tree[o][p] /\ tree[o][p].mtime \in Int
      BY <1>a, <2>1, <2>4 DEF Entry, OnlyEntry
    <3>2. tree'[s][p].mtime = Clock(s)
      BY <2>1, <2>4, <2>5 DEF Differs
    <3>3. Seen(o, tree[o][p].mtime) < Seen(s, Clock(s))
      BY <1>a, <2>1, <2>4, <2>5, <3>1, MadeIsNewer
    <3>4. QED
      BY <2>4, <3>1, <3>2, <3>3 DEF OlderOn
  <2>6. Noticed(o, p)'
    BY <2>5 DEF Noticed
  <2>7. \A t \in Side : t = s \/ t = o
    BY <2>4 DEF Side
  <2>8. QED
    BY <2>2, <2>3, <2>6, <2>7 DEF StuckInv
<1>7. QED
  BY <1>1, <1>2, <1>3, <1>4, <1>5, <1>6 DEF Next, Proceed, Finished

(***************************************************************************)
(* Two files that differ, on sides whose clocks agree, do not stay so      *)
(* unnoticed unless one of the recorded reasons holds.                     *)
(***************************************************************************)
THEOREM DifferencesNoticed == Spec => []StuckOnlyWithCause
<1>1. Init => StuckInv
  <2> SUFFICES ASSUME Init, NEW s \in Side, NEW p \in Path, cause[s][p] = {}
               PROVE  ~Differs(p)
    BY DEF StuckInv, Noticed
  <2>1. tree[s][p] = Absent
    BY DEF Init
  <2>2. QED
    BY <2>1 DEF Differs, Absent, File, Side
<1>2. TypeOK /\ StuckInv => StuckOnlyWithCause
  <2> SUFFICES ASSUME TypeOK, StuckInv, NEW p \in Path,
                      tree[Src][p].type \in {"REG", "LNK"},
                      tree[Dst][p].type = tree[Src][p].type,
                      ~Same(p), ~(pc = "copy" /\ Turn(p)), ~Older(p),
                      cause[Dst][p] = {}, ~(IF run.reverse THEN Skew < 0 ELSE Skew > 0),
                      ~(Dst = "remote" /\ tree[Dst][p].mtime < 0)
               PROVE  FALSE
    BY DEF StuckOnlyWithCause
  <2>1. Dst \in Side /\ Other(Dst) = Src /\ {Src, Dst} = {"local", "remote"}
    BY DEF Src, Dst, Other, Side
  <2>2. Differs(p)
    BY <2>1 DEF Differs, Same
  <2>3. NotAhead(Dst)
    BY TimesAssumption DEF NotAhead, Dst, Src, Other
  <2>4. OlderOn(Dst, p)
    BY <2>1, <2>2, <2>3 DEF StuckInv, Noticed
  <2>5. QED
    BY <2>1, <2>4 DEF OlderOn, Older, Newer
<1>3. QED
  BY <1>1, <1>2, InitType, TypeStep, StuckStep, PTL DEF Spec

-----------------------------------------------------------------------------
(***************************************************************************)
(* What a run that nobody disturbs knows: the list is what the source      *)
(* holds, and each loop leaves behind what its items call for.             *)
(***************************************************************************)
AsListed(p) ==
  /\ listed[p].type = tree[Src][p].type
  /\ listed[p].mtime = Seen(Src, tree[Src][p].mtime)

CalmInv ==
  /\ settled # "none" /\ pc # "idle" => calm
  /\ calm => stale = {}
  /\ calm /\ pc \in {"symlink", "copy"} => ~torn
  /\ calm => \A p \in Path : listed[p].type # "NONE" => AsListed(p)

WorkInv ==
  /\ pc \in {"idle", "connect", "walk"} => \A p \in Path : ~listed[p].newer
  /\ pc \in {"link", "symlink"} =>
       \A p \in todo : Turn(p) => Chosen(p) /\ listed[p].type = "LNK"
  /\ pc = "copy" => \A p \in todo : Turn(p) => Chosen(p) /\ listed[p].type = "REG"

\* What the transfer of an item leaves alone at the source and on record.
LEMMA SourceKept ==
  ASSUME TypeOK, NEW q \in Path, Transfer(q)
  PROVE  /\ \A p \in Path : tree'[Src][p] = tree[Src][p]
         /\ Src' = Src /\ Dst' = Dst /\ UNCHANGED <<calm, settled, listed, stale, run>>
         /\ failed \subseteq failed'
<1>1. UNCHANGED <<calm, settled, listed, stale, run>>
  BY TransferFrame, TransferOutcome
<1>2. PICK e \in Entry : tree' = [tree EXCEPT ![Dst][q] = e]
  BY TransferOutcome
<1>3. \A p \in Path : tree'[Src][p] = tree[Src][p]
  BY <1>2, SideTypes DEF TypeOK
<1>4. failed \subseteq failed'
  BY DEF Transfer, Skip, TransferFails, MakeDirectory, UnlinkOld, ReadLink, MakeLink,
         OpenFile, CopyEnds, CopyFails, Fails
<1>5. QED
  BY <1>1, <1>3, <1>4 DEF Src, Dst

\* Every step keeps the work on an item in line with its record.
LEMMA WorkStep == TypeOK /\ WorkInv /\ [Next]_vars => WorkInv'
<1> SUFFICES ASSUME TypeOK, WorkInv, [Next]_vars PROVE WorkInv'
  OBVIOUS
<1> USE DEF Goto, Quiet
<1>a. listed \in [Path -> ItemType] /\ todo \subseteq Path
  BY DEF TypeOK
<1>1. CASE Start \/ Connect
  <2>1. UNCHANGED listed /\ pc \in {"idle", "connect"} /\ pc' \in {"idle", "connect", "walk"}
    BY <1>1 DEF Start, Connect
  <2>2. QED
    BY <2>1 DEF WorkInv
<1>2. CASE Sort \/ Act \/ Answer \/ CheckBase \/ LoopEnds
  <2>1. pc' \notin {"idle", "connect", "walk", "link", "symlink", "copy"}
    BY <1>2 DEF Sort, Act, Answer, CheckBase, LoopEnds
  <2>2. QED
    BY <2>1 DEF WorkInv
<1>3. CASE Close \/ Killed
  <2>1. listed' = [p \in Path |-> NoItem] /\ pc' = "idle"
    BY <1>3 DEF Close, Killed
  <2>2. QED
    BY <2>1 DEF WorkInv, NoItem, Item
<1>4. CASE Tick \/ UNCHANGED vars
  <2>1. UNCHANGED <<listed, pc, todo>>
    BY <1>4 DEF Tick, vars
  <2>2. QED
    BY <2>1 DEF WorkInv, Turn, IsFirst, Chosen
<1>5. ASSUME NEW p \in Path, Visit(p) PROVE WorkInv'
  <2>1. /\ pc = "walk" /\ pc' = "walk"
        /\ UNCHANGED listed \/ \E t, m : listed' = [listed EXCEPT ![p] = Item(t, m)]
    BY <1>5 DEF Visit
  <2>2. \A q \in Path : listed'[q] = listed[q] \/ ~listed'[q].newer
    BY <1>a, <2>1 DEF Item
  <2>3. QED
    BY <2>1, <2>2 DEF WorkInv
<1>6. ASSUME NEW p \in Path, SetExtra(p) PROVE WorkInv'
  <2>1. pc' = "extra"
    BY <1>6 DEF SetExtra
  <2>2. QED
    BY <2>1 DEF WorkInv
<1>7. ASSUME NEW q \in Path, Transfer(q) PROVE WorkInv'
  <2>1. /\ UNCHANGED listed /\ Turn(q) /\ q \in todo
        /\ pc' \in {"item", "link", "symlink", "copy"}
    BY <1>7, TransferFrame
  <2>2. CASE UnlinkOld(q) \/ ReadLink(q) \/ OpenFile(q)
    <3>1. pc' # "item" => UNCHANGED todo
      BY <2>2 DEF UnlinkOld, ReadLink, OpenFile
    <3>2. pc' \in {"link", "symlink"} => Chosen(q) /\ listed[q].type = "LNK"
      BY <2>1, <2>2 DEF UnlinkOld, ReadLink, OpenFile, WorkInv
    <3>3. pc' = "copy" => Chosen(q) /\ listed[q].type = "REG"
      BY <2>2 DEF UnlinkOld, ReadLink, OpenFile
    <3>4. \A p \in todo : Turn(p) => p = q
      BY <1>a, <2>1, OneTurn
    <3>5. QED
      BY <2>1, <3>1, <3>2, <3>3, <3>4 DEF WorkInv, Turn, IsFirst, Chosen
  <2>3. CASE ~(UnlinkOld(q) \/ ReadLink(q) \/ OpenFile(q))
    <3>1. pc' = "item"
      BY <1>7, <2>3 DEF Transfer, Skip, TransferFails, MakeDirectory, MakeLink,
                        CopyEnds, CopyFails, AtItem
    <3>2. QED
      BY <3>1 DEF WorkInv
  <2>4. QED
    BY <2>2, <2>3
<1>8. ASSUME NEW s \in Side, NEW p \in Path, Edit(s, p) PROVE WorkInv'
  <2>1. UNCHANGED <<listed, pc, todo>>
    BY <1>8 DEF Edit
  <2>2. QED
    BY <2>1 DEF WorkInv, Turn, IsFirst, Chosen
<1>9. QED
  BY <1>1, <1>2, <1>3, <1>4, <1>5, <1>6, <1>7, <1>8 DEF Next, Proceed, Finished

\* Every step keeps the list of an undisturbed run equal to the source.
LEMMA CalmStep ==
  TypeOK /\ DecisionInv /\ CalmInv /\ [Next]_vars => CalmInv'
<1> SUFFICES ASSUME TypeOK, DecisionInv, CalmInv, [Next]_vars PROVE CalmInv'
  OBVIOUS
<1> USE DEF Goto, Quiet, world, bounds, history
<1>a. /\ listed \in [Path -> ItemType] /\ tree \in [Side -> [Path -> Entry]]
      /\ Src \in Side
  BY SideTypes DEF TypeOK
<1>b. ASSUME UNCHANGED <<tree, run, listed, calm, stale>>,
             settled' \in {settled, "none"} \/ (settled' # "none" => calm),
             pc = "idle" => pc' = "idle",
             pc' \in {"symlink", "copy"} => pc' = pc /\ UNCHANGED torn
      PROVE  CalmInv'
  BY <1>b DEF CalmInv, AsListed, Src
<1>1. CASE Start
  <2>1. /\ pc = "idle" /\ pc' = "connect" /\ stale' = {} /\ calm' = TRUE /\ UNCHANGED listed
    BY <1>1 DEF Start
  <2>2. \A p \in Path : listed'[p].type = "NONE"
    BY <2>1 DEF DecisionInv, NoItem, Item
  <2>3. QED
    BY <2>1, <2>2 DEF CalmInv
<1>2. CASE Connect \/ Sort \/ Act \/ Answer
  <2>1. /\ UNCHANGED <<tree, run, listed, calm, stale, settled>> /\ pc # "idle"
        /\ pc' \notin {"symlink", "copy"}
    BY <1>2 DEF Connect, Sort, Act, Answer
  <2>2. QED
    BY <1>b, <2>1
<1>3. CASE CheckBase
  <2>1. /\ UNCHANGED <<tree, run, listed, calm, stale, settled>> /\ pc # "idle"
        /\ pc' \notin {"symlink", "copy"}
    BY <1>3 DEF CheckBase
  <2>2. QED
    BY <1>b, <2>1
<1>4. CASE LoopEnds
  <2>1. /\ UNCHANGED <<tree, run, listed, calm, stale>> /\ pc = "item" /\ pc' = "close"
        /\ settled' # "none" => calm
    BY <1>4 DEF LoopEnds
  <2>2. QED
    BY <1>b, <2>1
<1>5. CASE Close \/ Killed
  <2>1. /\ listed' = [p \in Path |-> NoItem] /\ pc' = "idle" /\ UNCHANGED <<calm, stale>>
    BY <1>5 DEF Close, Killed
  <2>2. \A p \in Path : listed'[p].type = "NONE"
    BY <2>1 DEF NoItem, Item
  <2>3. QED
    BY <2>1, <2>2 DEF CalmInv
<1>6. CASE Tick \/ UNCHANGED vars
  <2>1. UNCHANGED <<tree, run, listed, calm, stale, settled, pc, torn>>
    BY <1>6 DEF Tick, vars
  <2>2. QED
    BY <1>b, <2>1
<1>7. ASSUME NEW p \in Path, Visit(p) PROVE CalmInv'
  <2>1. /\ pc = "walk" /\ pc' = "walk" /\ UNCHANGED <<tree, run, calm, stale, settled>>
        /\ \/ UNCHANGED listed
           \/ listed' = [listed EXCEPT ![p] =
                           Item(tree[Src][p].type, Seen(Src, tree[Src][p].mtime))]
    BY <1>7 DEF Visit
  <2>2. Src' = Src
    BY <2>1 DEF Src
  <2>3. ASSUME calm, NEW q \in Path, listed'[q].type # "NONE" PROVE AsListed(q)'
    <3>1. CASE listed'[q] = listed[q]
      BY <2>1, <2>2, <2>3, <3>1 DEF CalmInv, AsListed
    <3>2. CASE listed'[q] # listed[q]
      <4>1. q = p /\ listed'[q] = Item(tree[Src][p].type, Seen(Src, tree[Src][p].mtime))
        BY <1>a, <2>1, <3>2
      <4>2. QED
        BY <2>1, <2>2, <4>1 DEF AsListed, Item
    <3>3. QED
      BY <3>1, <3>2
  <2>4. QED
    BY <2>1, <2>3 DEF CalmInv
<1>8. ASSUME NEW p \in Path, SetExtra(p) PROVE CalmInv'
  <2>1. /\ pc = "extra" /\ pc' = "extra" /\ UNCHANGED <<tree, run, calm, settled>>
        /\ stale' = stale \ {p} /\ \E n, e : Extra(p, n, e)
    BY <1>8 DEF SetExtra
  <2>2. \A q \in Path : /\ listed'[q].type = listed[q].type
                        /\ listed'[q].mtime = listed[q].mtime
    BY <1>a, <2>1 DEF Extra
  <2>3. QED
    BY <2>1, <2>2 DEF CalmInv, AsListed, Src
<1>9. ASSUME NEW q \in Path, Transfer(q) PROVE CalmInv'
  <2>1. /\ \A p \in Path : tree'[Src][p] = tree[Src][p]
        /\ Src' = Src /\ UNCHANGED <<calm, settled, listed, stale>>
    BY <1>9, SourceKept
  <2>2. pc \in {"item", "link", "symlink", "copy"}
    BY <1>9, TransferFrame
  <2>3. pc' \in {"symlink", "copy"} => ~torn'
    BY <1>9 DEF Transfer, Skip, TransferFails, MakeDirectory, UnlinkOld, ReadLink,
                MakeLink, OpenFile, CopyEnds, CopyFails, AtItem
  <2>4. QED
    BY <2>1, <2>2, <2>3 DEF CalmInv, AsListed
<1>10. ASSUME NEW s \in Side, NEW p \in Path, Edit(s, p) PROVE CalmInv'
  BY <1>10, EditOutcome DEF CalmInv
<1>11. QED
  BY <1>1, <1>2, <1>3, <1>4, <1>5, <1>6, <1>7, <1>8, <1>9, <1>10
  DEF Next, Proceed, Finished

(***************************************************************************)
(* A clean run: nobody else changed anything and nothing failed so far.    *)
(***************************************************************************)
Clean == calm /\ failed = {} /\ pc \notin {"idle", "connect", "close"}

\* The walk has been at the name, and in the directory.
Reached(p) ==
  /\ listed[p].type # "NONE"
  /\ listed[p].type = "DIR" => p \in opened

\* Everything the walk has passed is listed.
ListedInv ==
  Clean =>
    /\ Base \in opened
    /\ \A p \in Path : tree[Src][p] # Absent /\ p \notin Excluded =>
         (pc = "walk" /\ p \in todo) \/ Reached(p)

\* The state of the item's destination gave no reason to transfer it.
LeftAlone(p) ==
  /\ tree[Dst][p] # Absent
  /\ \/ tree[Dst][p].type # listed[p].type
     \/ listed[p].type = "DIR"
     \/ ~Newer(Seen(Dst, tree[Dst][p].mtime), listed[p].mtime)

LeftInv ==
  Clean /\ pc # "walk" =>
    \A p \in Items : (pc = "extra" /\ p \in todo) \/ listed[p].newer \/ LeftAlone(p)

\* The item has been transferred, and its copy is not older than it.
Transferred(p) ==
  /\ Same(p)
  /\ listed[p].type # "DIR" /\ ClockNotBehind =>
       tree[Src][p].mtime <= tree[Dst][p].mtime

InLoop == pc \in {"item", "link", "symlink", "copy"}

TransferredInv ==
  /\ Clean /\ InLoop => \A p \in Items \ todo : Chosen(p) => Transferred(p)
  /\ Clean /\ pc = "copy" /\ ClockNotBehind =>
       \A p \in todo : Turn(p) => tree[Src][p].mtime <= tree[Dst][p].mtime

\* The steps between the loops, which change neither the entries nor the list.
Between == Sort \/ Act \/ Answer \/ CheckBase

LEMMA BetweenFrame ==
  ASSUME Between
  PROVE  /\ UNCHANGED <<tree, run, listed, opened, failed, stale, calm, settled>>
         /\ pc \in {"walk", "extra", "prompt", "base"} /\ ~InLoop
         /\ pc' \in {"extra", "prompt", "base", "item", "close"}
         /\ pc' = "extra" => pc = "walk" /\ todo = {} /\ todo' = Items
         /\ pc' = "item" => todo' = Items
         /\ pc # "walk" => pc' # "walk" /\ pc' # "extra"
         /\ pc = "extra" => todo = {}
<1>1. CASE Sort
  BY <1>1 DEF Sort, Goto, Quiet, world, bounds, history, InLoop
<1>2. CASE Act
  BY <1>2 DEF Act, Goto, Quiet, world, bounds, history, InLoop
<1>3. CASE Answer
  BY <1>3 DEF Answer, Goto, Quiet, world, bounds, history, InLoop
<1>4. CASE CheckBase
  BY <1>4 DEF CheckBase, Goto, Quiet, world, bounds, history, InLoop
<1>5. QED
  BY <1>1, <1>2, <1>3, <1>4 DEF Between

\* A clean run can be recognised at each of its steps.
LEMMA NotClean ==
  /\ Start \/ LoopEnds \/ Close \/ Killed => ~Clean'
  /\ \A s \in Side, p \in Path : Edit(s, p) => ~Clean'
  BY DEF Start, LoopEnds, Close, Killed, Edit, Goto, Clean

\* What is there of the source and not excluded, the walk comes to.
LEMMA PresentIsWalked ==
  ASSUME TypeOK, TreeInv, CalmInv, ListedInv, Clean, pc = "walk",
         NEW p \in todo, tree[Src][p] # Absent, p \notin Excluded,
         Parent[p] \notin todo
  PROVE  Walked(p) /\ p \notin Ignored
<1>1. p \in Path /\ Src \in Side
  BY SideTypes DEF TypeOK
<1>2. p \notin Ignored
  BY <1>1 DEF Excluded
<1>3. CASE Parent[p] = Base
  BY <1>2, <1>3 DEF ListedInv, Walked
<1>4. CASE Parent[p] # Base
  <2> DEFINE q == Parent[p]
  <2>1. q \in Path /\ q \in Above[p] /\ Above[p] = {q} \cup Above[q]
    BY <1>1, <1>4, ParentAbove, NamesAssumption
  <2>2. tree[Src][q].type = "DIR"
    BY <1>1, <2>1 DEF TreeInv, Rooted
  <2>3. q \notin Excluded
    BY <1>1, <2>1 DEF Excluded
  <2>4. tree[Src][q] # Absent
    BY <2>2 DEF Absent, File
  <2>5. Reached(q)
    BY <2>1, <2>3, <2>4 DEF ListedInv
  <2>6. listed[q].type = "DIR"
    BY <2>1, <2>2, <2>5 DEF Reached, CalmInv, AsListed, Clean
  <2>7. QED
    BY <1>2, <2>5, <2>6 DEF Reached, Walked
<1>5. QED
  BY <1>3, <1>4

\* Every step of a clean run keeps the list complete.
LEMMA ListedStep ==
  TypeOK /\ TreeInv /\ CalmInv /\ ListedInv /\ [Next]_vars => ListedInv'
<1> SUFFICES ASSUME TypeOK, TreeInv, CalmInv, ListedInv, [Next]_vars, Clean'
             PROVE  /\ Base \in opened'
                    /\ \A p \in Path : tree'[Src'][p] # Absent /\ p \notin Excluded =>
                         (pc' = "walk" /\ p \in todo') \/ Reached(p)'
  BY SameConfig DEF ListedInv
<1> USE DEF Goto, Quiet, world, bounds, history
<1>a. /\ listed \in [Path -> ItemType] /\ tree \in [Side -> [Path -> Entry]]
      /\ Src \in Side /\ todo \subseteq Path
  BY SideTypes DEF TypeOK
<1>1. CASE Connect
  <2>1. pc' = "walk" /\ todo' = Path /\ failed' = {}
    BY <1>1 DEF Connect, Clean
  <2>2. opened' = {Base}
    BY <1>1, <2>1 DEF Connect, Fails
  <2>3. QED
    BY <2>1, <2>2
<1>2. CASE Between
  <2>1. /\ UNCHANGED <<tree, run, listed, opened, failed, calm>>
        /\ pc \in {"walk", "extra", "prompt", "base"}
    BY <1>2, BetweenFrame
  <2>b. pc = "walk" => todo = {}
    BY <1>2 DEF Between, Sort, Act, Answer, CheckBase
  <2>2. Clean
    BY <2>1 DEF Clean
  <2>3. Base \in opened'
    BY <2>1, <2>2 DEF ListedInv
  <2>4. ASSUME NEW p \in Path, tree'[Src'][p] # Absent, p \notin Excluded
        PROVE  Reached(p)'
    <3>1. Src' = Src
      BY <2>1 DEF Src
    <3>2. Reached(p)
      BY <2>1, <2>2, <2>b, <2>4, <3>1 DEF ListedInv
    <3>3. QED
      BY <2>1, <3>2 DEF Reached
  <2>5. QED
    BY <2>3, <2>4
<1>3. CASE Tick \/ UNCHANGED vars
  <2>1. UNCHANGED <<tree, run, listed, opened, failed, calm, pc, todo>>
    BY <1>3 DEF Tick, vars
  <2>2. QED
    BY <2>1 DEF ListedInv, Reached, Src, Clean
<1>4. ASSUME NEW p \in Path, Visit(p)
      PROVE  /\ Base \in opened'
             /\ \A q \in Path : tree'[Src'][q] # Absent /\ q \notin Excluded =>
                  (pc' = "walk" /\ q \in todo') \/ Reached(q)'
  <2>1. /\ pc = "walk" /\ pc' = "walk" /\ p \in todo /\ todo' = todo \ {p}
        /\ Parent[p] \notin todo /\ UNCHANGED <<tree, run, calm>>
    BY <1>4 DEF Visit
  <2>2. Src' = Src /\ failed' = {}
    BY <2>1 DEF Src, Clean
  <2>3. ~Fails(p)
    BY <2>2 DEF Fails
  <2>4. \/ /\ ~Walked(p) \/ tree[Src][p] = Absent \/ p \in Ignored
           /\ UNCHANGED <<listed, opened, failed>>
        \/ /\ listed' = [listed EXCEPT ![p] =
                            Item(tree[Src][p].type, Seen(Src, tree[Src][p].mtime))]
           /\ tree[Src][p] # Absent /\ UNCHANGED failed
           /\ \/ tree[Src][p].type = "DIR" /\ opened' = opened \cup {p}
              \/ tree[Src][p].type # "DIR" /\ UNCHANGED opened
    BY <1>4, <2>3 DEF Visit
  <2>5. Clean
    BY <2>1, <2>2, <2>4 DEF Clean
  <2>6. Base \in opened'
    BY <2>4, <2>5 DEF ListedInv
  <2>7. ASSUME tree[Src][p] # Absent, p \notin Excluded PROVE Reached(p)'
    <3>1. Walked(p) /\ p \notin Ignored
      BY <2>1, <2>5, <2>7, PresentIsWalked
    <3>2. listed'[p].type = tree[Src][p].type
      BY <1>a, <2>4, <2>7, <3>1 DEF Item
    <3>3. tree[Src][p].type # "NONE"
      BY <1>a, <2>7 DEF TreeInv, Rooted
    <3>4. QED
      BY <2>4, <2>7, <3>1, <3>2, <3>3 DEF Reached
  <2>8. ASSUME NEW q \in Path \ {p}, q \notin todo, tree[Src][q] # Absent, q \notin Excluded
        PROVE  Reached(q)'
    <3>1. Reached(q)
      BY <2>5, <2>8 DEF ListedInv
    <3>2. listed'[q] = listed[q] /\ opened \subseteq opened'
      BY <1>a, <2>4
    <3>3. QED
      BY <3>1, <3>2 DEF Reached
  <2>9. QED
    BY <2>1, <2>2, <2>6, <2>7, <2>8
<1>5. ASSUME NEW p \in Path, SetExtra(p)
      PROVE  /\ Base \in opened'
             /\ \A q \in Path : tree'[Src'][q] # Absent /\ q \notin Excluded =>
                  (pc' = "walk" /\ q \in todo') \/ Reached(q)'
  <2>1. /\ pc = "extra" /\ UNCHANGED <<tree, run, opened, calm>> /\ \E n, e : Extra(p, n, e)
        /\ failed \subseteq failed'
    BY <1>5 DEF SetExtra, Fails
  <2>2. \A q \in Path : listed'[q].type = listed[q].type
    BY <1>a, <2>1 DEF Extra
  <2>3. Clean
    BY <2>1 DEF Clean
  <2>4. QED
    BY <2>1, <2>2, <2>3 DEF ListedInv, Reached, Src
<1>6. ASSUME NEW q \in Path, Transfer(q)
      PROVE  /\ Base \in opened'
             /\ \A p \in Path : tree'[Src'][p] # Absent /\ p \notin Excluded =>
                  (pc' = "walk" /\ p \in todo') \/ Reached(p)'
  <2>1. /\ \A p \in Path : tree'[Src][p] = tree[Src][p]
        /\ Src' = Src /\ UNCHANGED <<calm, listed>> /\ failed \subseteq failed'
    BY <1>6, SourceKept
  <2>2. pc \in {"item", "link", "symlink", "copy"} /\ UNCHANGED opened
    BY <1>6, TransferFrame
  <2>3. Clean
    BY <2>1, <2>2 DEF Clean
  <2>4. QED
    BY <2>1, <2>2, <2>3 DEF ListedInv, Reached
<1>7. QED
  BY <1>1, <1>2, <1>3, <1>4, <1>5, <1>6, NotClean
  DEF Next, Proceed, Finished, Between

\* Every step of a clean run leaves alone what its stat told it to.
LEMMA LeftStep ==
  TypeOK /\ WorkInv /\ LeftInv /\ [Next]_vars => LeftInv'
<1> SUFFICES ASSUME TypeOK, WorkInv, LeftInv, [Next]_vars, Clean', pc' # "walk"
             PROVE  \A p \in Items' : (pc' = "extra" /\ p \in todo')
                                         \/ listed'[p].newer \/ LeftAlone(p)'
  BY DEF LeftInv
<1> USE DEF Goto, Quiet, world, bounds, history
<1>a. /\ listed \in [Path -> ItemType] /\ tree \in [Side -> [Path -> Entry]]
      /\ todo \subseteq Path
  BY DEF TypeOK
<1>1. CASE Connect \/ \E p \in Path : Visit(p)
  BY <1>1 DEF Connect, Visit, Clean
<1>2. CASE Between
  <2>1. /\ UNCHANGED <<tree, run, listed, failed, calm>>
        /\ pc \in {"walk", "extra", "prompt", "base"}
        /\ pc' = "extra" => pc = "walk" /\ todo' = Items
        /\ pc # "walk" => pc' # "extra"
        /\ pc = "extra" => todo = {}
    BY <1>2, BetweenFrame
  <2>2. CASE pc' = "extra"
    BY <2>1, <2>2 DEF Items
  <2>3. CASE pc' # "extra"
    <3>1. pc # "walk"
      BY <1>2, <2>3 DEF Between, Sort, Act, Answer, CheckBase
    <3>2. \A p \in Items : listed[p].newer \/ LeftAlone(p)
      BY <2>1, <3>1 DEF LeftInv, Clean
    <3>3. QED
      BY <2>1, <3>2 DEF LeftAlone, Newer, Items, Dst, Src
  <2>4. QED
    BY <2>2, <2>3
<1>3. CASE Tick \/ UNCHANGED vars
  <2>1. UNCHANGED <<tree, run, listed, failed, calm, pc, todo>>
    BY <1>3 DEF Tick, vars
  <2>2. QED
    BY <2>1 DEF LeftInv, LeftAlone, Newer, Items, Dst, Src, Clean
<1>4. ASSUME NEW p \in Path, SetExtra(p), NEW q \in Items'
      PROVE  (pc' = "extra" /\ q \in todo') \/ listed'[q].newer \/ LeftAlone(q)'
  <2>1. /\ pc = "extra" /\ pc' = "extra" /\ todo' = todo \ {p} /\ Dst' = Dst
        /\ UNCHANGED <<tree, run, calm>> /\ failed \subseteq failed' /\ ~Fails(p)
    BY <1>4 DEF SetExtra, Fails, Dst, Src, Clean
  <2>2. \/ Extra(p, TRUE, FALSE)
        \/ /\ tree[Dst][p] # Absent
           /\ \E n \in BOOLEAN :
                /\ listed[p].type # "DIR" =>
                     n = Newer(Seen(Dst, tree[Dst][p].mtime), listed[p].mtime)
                /\ Extra(p, tree[Dst][p].type = listed[p].type /\ n, TRUE)
    BY <1>4, <2>1 DEF SetExtra
  <2>3. PICK n, e \in BOOLEAN : Extra(p, n, e)
    BY <2>2
  <2>4. /\ \A r \in Path \ {p} : listed'[r] = listed[r]
        /\ \A r \in Path : listed'[r].type = listed[r].type
        /\ listed'[p].mtime = listed[p].mtime /\ listed'[p].newer = n
    BY <1>a, <2>3 DEF Extra
  <2>5. CASE q = p
    <3>1. CASE Extra(p, TRUE, FALSE)
      BY <1>a, <2>5, <3>1 DEF Extra
    <3>2. ASSUME tree[Dst][p] # Absent, NEW m \in BOOLEAN,
                 listed[p].type # "DIR" =>
                   m = Newer(Seen(Dst, tree[Dst][p].mtime), listed[p].mtime),
                 Extra(p, tree[Dst][p].type = listed[p].type /\ m, TRUE)
          PROVE  listed'[p].newer \/ LeftAlone(p)'
      <4>1. listed'[p].newer = (tree[Dst][p].type = listed[p].type /\ m)
        BY <1>a, <3>2 DEF Extra
      <4>2. QED
        BY <2>1, <2>4, <3>2, <4>1 DEF LeftAlone, Newer
    <3>3. QED
      BY <2>2, <2>5, <3>1, <3>2
  <2>6. CASE q # p
    <3>1. q \in Items /\ listed'[q] = listed[q] /\ Clean
      BY <2>1, <2>4, <2>6 DEF Items, Clean
    <3>2. QED
      BY <2>1, <2>6, <3>1 DEF LeftInv, LeftAlone, Newer
  <2>7. QED
    BY <2>5, <2>6
<1>5. ASSUME NEW q \in Path, Transfer(q), NEW p \in Items'
      PROVE  listed'[p].newer \/ LeftAlone(p)'
  <2>1. /\ Src' = Src /\ Dst' = Dst /\ UNCHANGED <<calm, listed>> /\ failed \subseteq failed'
    BY <1>5, SourceKept
  <2>2. /\ pc \in {"item", "link", "symlink", "copy"} /\ Turn(q) /\ q \in todo
        /\ \A r \in Path \ {q} : tree'[Dst][r] = tree[Dst][r]
    BY <1>5, TransferFrame
  <2>3. Clean /\ p \in Items
    BY <2>1, <2>2 DEF Clean, Items
  <2>4. listed[p].newer \/ LeftAlone(p)
    BY <2>2, <2>3 DEF LeftInv
  <2>5. CASE p = q /\ ~listed[q].newer
    <3>1. pc = "item"
      BY <2>2, <2>5 DEF WorkInv, Chosen
    <3>2. Skip(q)
      BY <1>5, <2>5, <3>1
      DEF Transfer, TransferFails, MakeDirectory, UnlinkOld, ReadLink, MakeLink, OpenFile,
          CopyEnds, CopyFails, Chosen
    <3>3. UNCHANGED tree
      BY <3>2 DEF Skip
    <3>4. QED
      BY <2>1, <2>4, <2>5, <3>3 DEF LeftAlone, Newer
  <2>6. CASE p # q
    BY <2>1, <2>2, <2>3, <2>4, <2>6 DEF LeftAlone, Newer, Items
  <2>7. QED
    BY <2>1, <2>5, <2>6
<1>6. QED
  BY <1>1, <1>2, <1>3, <1>4, <1>5, NotClean
  DEF Next, Proceed, Finished, Between

\* A file made now is not older than any of the other side.
LEMMA MadeIsNotOlder ==
  ASSUME TypeOK, DatedInv, ClockNotBehind, NEW p \in Path,
         tree[Src][p].type \in {"REG", "LNK"}
  PROVE  tree[Src][p].mtime <= Clock(Dst)
<1>1. now \in Int /\ Src \in Side /\ tree[Src][p].mtime \in Int
  <2>1. now \in Int /\ tree \in [Side -> [Path -> Entry]] /\ Src \in Side
    BY SideTypes DEF TypeOK
  <2>2. QED
    BY <2>1 DEF Entry
<1>2. tree[Src][p].mtime <= Latest(Src)
  BY <1>1 DEF DatedInv
<1>3. Latest(Src) <= Clock(Dst) /\ Latest(Src) \in Int /\ Clock(Dst) \in Int
  BY <1>1, TimesAssumption DEF ClockNotBehind, Latest, Clock, Src, Dst, Other
<1>4. QED
  BY <1>1, <1>2, <1>3

\* The transfer that ends well has made the copy what the item is.
LEMMA TransferDone ==
  ASSUME TypeOK, TreeInv, DatedInv, DecisionInv, CalmInv, WorkInv, TransferredInv,
         NEW q \in Path, Transfer(q), Clean', pc' = "item", Chosen(q)
  PROVE  Transferred(q)'
<1> USE DEF Goto, Quiet, world, bounds, history
<1>a. /\ listed \in [Path -> ItemType] /\ tree \in [Side -> [Path -> Entry]]
      /\ Src \in Side /\ Dst \in Side /\ Src # Dst
  BY SideTypes DEF TypeOK
<1>1. /\ Src' = Src /\ Dst' = Dst /\ UNCHANGED <<calm, listed, run>> /\ failed \subseteq failed'
      /\ tree'[Src][q] = tree[Src][q]
  BY SourceKept
<1>2. pc \in {"item", "link", "symlink", "copy"} /\ Turn(q) /\ q \in todo
  BY TransferFrame
<1>3. Clean /\ calm /\ ~Fails(q) /\ (ClockNotBehind' <=> ClockNotBehind)
  BY <1>1, <1>2 DEF Clean, Fails, ClockNotBehind
<1>4. listed[q].type = tree[Src][q].type
  BY <1>3 DEF CalmInv, Chosen, Transferable, AsListed
<1>5. CASE MakeDirectory(q)
  <2>1. listed[q].type = "DIR" /\ tree[Src][q] = Directory
    BY <1>4, <1>5, <1>a DEF MakeDirectory, DatedInv
  <2>2. CASE ~listed[q].exist
    <3>1. tree' = [tree EXCEPT ![Dst][q] = Directory]
      BY <1>5, <2>2 DEF MakeDirectory, Store
    <3>2. tree'[Dst][q] = Directory
      BY <1>a, <3>1
    <3>3. QED
      BY <1>1, <2>1, <3>2 DEF Transferred, Same
  <2>3. CASE listed[q].exist
    <3>1. UNCHANGED tree
      BY <1>5, <2>3 DEF MakeDirectory
    <3>2. Decision(q)
      BY <1>2, <1>3, <1>5 DEF DecisionInv, Pending, CalmInv, Chosen, MakeDirectory, AtItem
    <3>3. tree[Dst][q] = Directory
      BY <1>a, <2>1, <2>3, <3>2 DEF Decision, DatedInv
    <3>4. QED
      BY <1>1, <2>1, <3>1, <3>3 DEF Transferred, Same
  <2>4. QED
    BY <2>2, <2>3
<1>6. CASE MakeLink(q)
  <2>1. ~torn /\ listed[q].type = "LNK"
    BY <1>2, <1>3, <1>6 DEF MakeLink, CalmInv, WorkInv
  <2>2. tree' = [tree EXCEPT ![Dst][q] = Made(Dst, "LNK", tree[Src][q].ver)]
    BY <1>3, <1>6, <2>1 DEF MakeLink, Store
  <2>3. tree'[Dst][q] = File("LNK", tree[Src][q].ver, Clock(Dst))
    BY <1>a, <2>2 DEF Made
  <2>4. ClockNotBehind => tree[Src][q].mtime <= Clock(Dst)
    BY <1>4, <2>1, MadeIsNotOlder
  <2>5. QED
    BY <1>1, <1>3, <1>4, <2>1, <2>3, <2>4 DEF Transferred, Same, File
<1>7. CASE CopyEnds(q)
  <2>1. ~torn /\ listed[q].type = "REG" /\ pc = "copy"
    BY <1>2, <1>3, <1>7 DEF CopyEnds, CalmInv, WorkInv
  <2>2. Written(q, tree[Src][q].ver)
    BY <1>7, <2>1 DEF CopyEnds
  <2>3. PICK m \in {tree[Dst][q].mtime, Clock(Dst)} :
          tree' = [tree EXCEPT ![Dst][q] = File("REG", tree[Src][q].ver, m)]
    BY <2>2 DEF Written, Store
  <2>4. tree'[Dst][q] = File("REG", tree[Src][q].ver, m)
    BY <1>a, <2>3
  <2>5. ClockNotBehind => tree[Src][q].mtime <= m
    <3>1. ClockNotBehind => tree[Src][q].mtime <= Clock(Dst)
      BY <1>4, <2>1, MadeIsNotOlder
    <3>2. ClockNotBehind => tree[Src][q].mtime <= tree[Dst][q].mtime
      BY <1>2, <1>3, <2>1 DEF TransferredInv
    <3>3. QED
      BY <2>3, <3>1, <3>2
  <2>6. QED
    BY <1>1, <1>3, <1>4, <2>1, <2>4, <2>5 DEF Transferred, Same, File
<1>8. ~Skip(q) /\ ~TransferFails(q) /\ ~CopyFails(q)
  BY <1>3 DEF Skip, TransferFails, CopyFails
<1>9. ~UnlinkOld(q) /\ ~OpenFile(q) /\ ~ReadLink(q)
  BY <1>3 DEF UnlinkOld, OpenFile, ReadLink
<1>10. QED
  BY <1>5, <1>6, <1>7, <1>8, <1>9 DEF Transfer

\* Every step of a clean run has transferred what it has passed.
LEMMA TransferredStep ==
  TypeOK /\ TreeInv /\ DatedInv /\ DecisionInv /\ CalmInv /\ WorkInv
  /\ TransferredInv /\ [Next]_vars => TransferredInv'
<1> SUFFICES ASSUME TypeOK, TreeInv, DatedInv, DecisionInv, CalmInv, WorkInv,
                    TransferredInv, [Next]_vars, Clean', InLoop'
             PROVE  /\ \A p \in Items' \ todo' : Chosen(p)' => Transferred(p)'
                    /\ pc' = "copy" /\ ClockNotBehind' =>
                         \A p \in todo' : Turn(p)' => tree'[Src'][p].mtime <= tree'[Dst'][p].mtime
  BY DEF TransferredInv, InLoop
<1> USE DEF Goto, Quiet, world, bounds, history
<1>a. /\ listed \in [Path -> ItemType] /\ tree \in [Side -> [Path -> Entry]]
      /\ todo \subseteq Path /\ Src \in Side /\ Dst \in Side /\ Src # Dst
  BY SideTypes DEF TypeOK
<1>1. CASE Connect \/ \E p \in Path : Visit(p) \/ SetExtra(p)
  BY <1>1 DEF Connect, Visit, SetExtra, InLoop
<1>2. CASE Between
  <2>1. UNCHANGED listed /\ pc' = "item" /\ todo' = Items
    BY <1>2, BetweenFrame DEF InLoop
  <2>2. QED
    BY <2>1 DEF Items
<1>3. CASE Tick \/ UNCHANGED vars
  <2>1. UNCHANGED <<tree, run, listed, failed, calm, pc, todo>>
    BY <1>3 DEF Tick, vars
  <2>2. /\ Clean /\ InLoop /\ Src' = Src /\ Dst' = Dst /\ Items' = Items
        /\ (ClockNotBehind' <=> ClockNotBehind)
    BY <2>1 DEF Clean, InLoop, Src, Dst, Items, ClockNotBehind
  <2>3. QED
    BY <2>1, <2>2 DEF TransferredInv, Transferred, Same, Chosen, Turn, IsFirst
<1>4. ASSUME NEW q \in Path, Transfer(q)
      PROVE  /\ \A p \in Items' \ todo' : Chosen(p)' => Transferred(p)'
             /\ pc' = "copy" /\ ClockNotBehind' =>
                  \A p \in todo' : Turn(p)' => tree'[Src'][p].mtime <= tree'[Dst'][p].mtime
  <2>1. /\ Src' = Src /\ Dst' = Dst /\ UNCHANGED <<calm, listed, run>> /\ failed \subseteq failed'
        /\ \A p \in Path : tree'[Src][p] = tree[Src][p]
    BY <1>4, SourceKept
  <2>2. /\ pc \in {"item", "link", "symlink", "copy"} /\ Turn(q) /\ q \in todo
        /\ \/ todo' = todo /\ pc' \in {"link", "symlink", "copy"}
           \/ todo' = todo \ {q} /\ pc' = "item"
        /\ \A p \in Path \ {q} : tree'[Dst][p] = tree[Dst][p]
    BY <1>4, TransferFrame
  <2>3. Clean /\ InLoop /\ Items' = Items /\ (ClockNotBehind' <=> ClockNotBehind)
    BY <2>1, <2>2 DEF Clean, InLoop, Items, ClockNotBehind
  <2>4. ASSUME NEW p \in Items \ todo', Chosen(p) PROVE Transferred(p)'
    <3>1. CASE p = q
      BY <1>4, <2>2, <2>4, <3>1, TransferDone
    <3>2. CASE p # q
      <4>1. Transferred(p) /\ p \in Path
        BY <2>2, <2>3, <2>4, <3>2 DEF TransferredInv, Items
      <4>2. QED
        BY <2>1, <2>2, <2>3, <3>2, <4>1 DEF Transferred, Same
    <3>3. QED
      BY <3>1, <3>2
  <2>5. ASSUME pc' = "copy", ClockNotBehind PROVE tree[Src][q].mtime <= tree'[Dst][q].mtime
    <3>1. OpenFile(q)
      BY <1>4, <2>5 DEF Transfer, Skip, TransferFails, MakeDirectory, UnlinkOld, ReadLink,
                        MakeLink, CopyEnds, CopyFails, AtItem
    <3>2. listed[q].type = "REG" /\ tree[Src][q].type = "REG"
      BY <2>3, <3>1 DEF OpenFile, CalmInv, AsListed, Clean
    <3>3. tree' = [tree EXCEPT ![Dst][q] = Made(Dst, "REG", Partial)]
      BY <3>1 DEF OpenFile, Store
    <3>4. tree'[Dst][q].mtime = Clock(Dst)
      BY <1>a, <3>3 DEF Made, File
    <3>5. QED
      BY <2>5, <3>2, <3>4, MadeIsNotOlder
  <2>6. ASSUME pc' = "copy", NEW p \in todo', Turn(p)' PROVE p = q
    <3>1. todo' = todo
      BY <2>2, <2>6
    <3>2. Turn(p)
      BY <2>6, <3>1 DEF Turn, IsFirst
    <3>3. QED
      BY <1>a, <2>2, <2>6, <3>1, <3>2, OneTurn
  <2>7. Chosen(q)' <=> Chosen(q)
    BY <2>1 DEF Chosen
  <2>8. \A p \in Path : Chosen(p)' <=> Chosen(p)
    BY <2>1 DEF Chosen
  <2>9. QED
    BY <2>1, <2>3, <2>4, <2>5, <2>6, <2>8 DEF Items
<1>5. QED
  BY <1>1, <1>2, <1>3, <1>4, NotClean
  DEF Next, Proceed, Finished, Between

\* The program has not been started yet.
LEMMA InitRun ==
  Init => /\ DecisionInv /\ CalmInv /\ WorkInv /\ ListedInv /\ LeftInv /\ TransferredInv
          /\ settled = "none" /\ ListInv
<1> SUFFICES ASSUME Init
             PROVE  /\ DecisionInv /\ CalmInv /\ WorkInv /\ ListedInv /\ LeftInv
                    /\ TransferredInv /\ settled = "none" /\ ListInv
  OBVIOUS
<1>1. /\ pc = "idle" /\ calm = FALSE /\ settled = "none" /\ todo = {} /\ opened = {}
      /\ listed = [p \in Path |-> NoItem]
  BY DEF Init
<1>2. ~Clean
  BY <1>1 DEF Clean
<1>3. \A p \in Path : listed[p].type = "NONE" /\ ~listed[p].newer
  BY <1>1 DEF NoItem, Item
<1>4. DecisionInv /\ CalmInv /\ WorkInv
  BY <1>1, <1>3 DEF DecisionInv, CalmInv, WorkInv
<1>5. ListedInv /\ LeftInv /\ TransferredInv
  BY <1>2 DEF ListedInv, LeftInv, TransferredInv
<1>6. ListInv
  BY <1>1, <1>3 DEF ListInv
<1>7. QED
  BY <1>1, <1>4, <1>5, <1>6

(***************************************************************************)
(* A run in which nothing failed and nobody else changed anything leaves   *)
(* the destination like the source, where it was not newer or different.   *)
(***************************************************************************)
THEOREM CleanRunCopies == Spec => []CleanRunConverges
<1>1. Init => DecisionInv /\ DatedInv /\ CalmInv /\ WorkInv /\ ListedInv /\ LeftInv
                /\ TransferredInv
  BY InitDated, InitRun
<1>2. TypeOK /\ TreeInv /\ CalmInv /\ ListedInv /\ LeftInv /\ TransferredInv
        => CleanRunConverges
  <2> SUFFICES ASSUME TypeOK, TreeInv, CalmInv, ListedInv, LeftInv, TransferredInv,
                      pc = "item", todo = {}, calm, failed = {}, NEW p \in Path,
                      tree[Src][p].type \in {"REG", "DIR", "LNK"}, p \notin Excluded
               PROVE  \/ Same(p)
                      \/ tree[Dst][p].type \notin {"NONE", tree[Src][p].type}
                      \/ tree[Dst][p].type = tree[Src][p].type /\ ~listed[p].newer
    BY DEF CleanRunConverges
  <2>1. Clean /\ InLoop
    BY DEF Clean, InLoop
  <2>2. tree[Src][p] # Absent
    BY DEF Absent, File
  <2>3. listed[p].type # "NONE"
    BY <2>1, <2>2 DEF ListedInv, Reached
  <2>4. listed[p].type = tree[Src][p].type /\ p \in Items
    BY <2>3 DEF CalmInv, AsListed, Items
  <2>5. CASE Chosen(p)
    BY <2>1, <2>4, <2>5 DEF TransferredInv, Transferred
  <2>6. CASE ~Chosen(p)
    <3>1. ~listed[p].newer
      BY <2>4, <2>6 DEF Chosen, Transferable
    <3>2. tree[Dst][p] # Absent
      BY <2>1, <2>4, <3>1 DEF LeftInv, LeftAlone
    <3>3. tree[Dst][p].type # "NONE"
      BY <3>2, SideTypes DEF TreeInv, Rooted
    <3>4. QED
      BY <3>1, <3>3
  <2>7. QED
    BY <2>5, <2>6
<1>3. QED
  BY <1>1, <1>2, InitType, TypeStep, InitTree, TreeStep, DatedStep, DecisionStep,
     CalmStep, WorkStep, ListedStep, LeftStep, TransferredStep, PTL
  DEF Spec

-----------------------------------------------------------------------------
(***************************************************************************)
(* What a settled direction means: where the clock of the side written to  *)
(* is not behind, no file of the other side is newer than its copy.        *)
(***************************************************************************)
SettledFrom == IF settled = "down" THEN "remote" ELSE "local"
SettledTo == Other(SettledFrom)
SettledClock == IF settled = "down" THEN Skew <= 0 ELSE Skew >= 0

\* Whether the run goes in the settled direction.
Again == settled = (IF run.reverse THEN "down" ELSE "up")

UpToDate(p) ==
  /\ tree[SettledTo][p] # Absent
  /\ \/ tree[SettledTo][p].type # tree[SettledFrom][p].type
     \/ tree[SettledFrom][p].mtime <= Seen(SettledTo, tree[SettledTo][p].mtime)

Dated1970(s, p) == tree[s][p].type \in {"REG", "LNK"} /\ tree[s][p].mtime >= 0

SettledInv ==
  settled # "none" /\ SettledClock /\ (InLoop => Again) =>
    \A p \in Path \ Excluded : Dated1970(SettledFrom, p) => UpToDate(p)

IdleInv ==
  Again /\ ClockNotBehind /\ (InLoop \/ pc \in {"extra", "prompt", "base"}) =>
    \A p \in Path :
      listed[p].newer => listed[p].type \notin {"REG", "LNK"} \/ tree[Src][p].mtime < 0

\* A run in the settled direction has the sides that were settled.
LEMMA AgainSides ==
  Again => /\ settled # "none" /\ SettledFrom = Src /\ SettledTo = Dst
           /\ SettledClock <=> ClockNotBehind
  BY DEF Again, SettledFrom, SettledTo, SettledClock, ClockNotBehind, Src, Dst

\* A loop that ends well leaves the destination up to date.
LEMMA SettledByRun ==
  ASSUME TypeOK, CalmInv, ListedInv, LeftInv, TransferredInv, ClockNotBehind,
         pc = "item", todo = {}, calm, failed = {},
         NEW p \in Path \ Excluded, Dated1970(Src, p)
  PROVE  /\ tree[Dst][p] # Absent
         /\ \/ tree[Dst][p].type # tree[Src][p].type
            \/ tree[Src][p].mtime <= Seen(Dst, tree[Dst][p].mtime)
<1>a. tree \in [Side -> [Path -> Entry]] /\ Src \in Side /\ Dst \in Side
  BY SideTypes DEF TypeOK
<1>b. tree[Src][p].mtime \in Int /\ tree[Dst][p].mtime \in Int
  BY <1>a DEF Entry
<1>1. Clean /\ InLoop /\ tree[Src][p] # Absent
  BY DEF Clean, InLoop, Dated1970, Absent, File
<1>2. listed[p].type # "NONE"
  BY <1>1 DEF ListedInv, Reached
<1>3. /\ listed[p].type = tree[Src][p].type /\ p \in Items
      /\ listed[p].mtime = tree[Src][p].mtime
  BY <1>b, <1>2 DEF CalmInv, AsListed, Items, Dated1970, Seen
<1>4. tree[Dst][p].mtime <= Seen(Dst, tree[Dst][p].mtime)
      /\ Seen(Dst, tree[Dst][p].mtime) \in Int
  BY <1>b, TimesAssumption DEF Seen
<1>5. CASE Chosen(p)
  <2>1. Same(p) /\ tree[Src][p].mtime <= tree[Dst][p].mtime
    BY <1>1, <1>3, <1>5 DEF TransferredInv, Transferred, Dated1970
  <2>2. tree[Dst][p] # Absent
    BY <2>1 DEF Same, Dated1970, Absent, File
  <2>3. QED
    BY <1>b, <1>4, <2>1, <2>2
<1>6. CASE ~Chosen(p)
  <2>1. LeftAlone(p)
    BY <1>1, <1>3, <1>6 DEF LeftInv, Chosen, Transferable, Dated1970
  <2>2. QED
    BY <1>b, <1>3, <1>4, <2>1 DEF LeftAlone, Newer, Dated1970
<1>7. QED
  BY <1>5, <1>6

\* Every step keeps the settled direction settled.
LEMMA SettledStep ==
  TypeOK /\ CalmInv /\ WorkInv /\ ListedInv /\ LeftInv /\ TransferredInv /\ IdleInv
  /\ SettledInv /\ [Next]_vars => SettledInv'
<1> SUFFICES ASSUME TypeOK, CalmInv, WorkInv, ListedInv, LeftInv, TransferredInv, IdleInv,
                    SettledInv, [Next]_vars, settled' # "none", SettledClock',
                    InLoop' => Again'
             PROVE  \A p \in Path \ Excluded : Dated1970(SettledFrom, p)' => UpToDate(p)'
  BY SameConfig DEF SettledInv
<1> USE DEF Goto, Quiet, world, bounds, history
<1>a. tree \in [Side -> [Path -> Entry]] /\ Src \in Side /\ Dst \in Side /\ Src # Dst
  BY SideTypes DEF TypeOK
<1>b. ASSUME UNCHANGED <<tree, settled>>, InLoop => Again
      PROVE  \A p \in Path \ Excluded : Dated1970(SettledFrom, p)' => UpToDate(p)'
  <2>1. SettledFrom' = SettledFrom /\ SettledTo' = SettledTo /\ SettledClock' = SettledClock
    BY <1>b DEF SettledFrom, SettledTo, SettledClock
  <2>2. QED
    BY <1>b, <2>1 DEF SettledInv, Dated1970, UpToDate
<1>1. CASE Start \/ Connect \/ Close
  <2>1. UNCHANGED <<tree, settled>> /\ ~InLoop
    BY <1>1 DEF Start, Connect, Close, InLoop
  <2>2. QED
    BY <1>b, <2>1
<1>2. CASE Between
  BY <1>b, <1>2, BetweenFrame
<1>3. ASSUME NEW p \in Path, Visit(p) \/ SetExtra(p)
      PROVE  \A q \in Path \ Excluded : Dated1970(SettledFrom, q)' => UpToDate(q)'
  <2>1. UNCHANGED <<tree, settled>> /\ ~InLoop
    BY <1>3 DEF Visit, SetExtra, InLoop
  <2>2. QED
    BY <1>b, <2>1
<1>4. CASE Tick \/ UNCHANGED vars
  <2>1. UNCHANGED <<tree, settled, pc, run>>
    BY <1>4 DEF Tick, vars
  <2>2. InLoop => Again
    BY <2>1 DEF InLoop, Again
  <2>3. QED
    BY <1>b, <2>1, <2>2
<1>5. CASE LoopEnds
  <2>1. /\ UNCHANGED tree /\ calm /\ failed = {} /\ pc = "item" /\ todo = {}
        /\ settled' = (IF run.reverse THEN "down" ELSE "up")
    BY <1>5 DEF LoopEnds
  <2>2. SettledFrom' = Src /\ SettledTo' = Dst /\ (SettledClock' <=> ClockNotBehind)
    BY <2>1 DEF SettledFrom, SettledTo, SettledClock, ClockNotBehind, Src, Dst
  <2>3. ASSUME NEW p \in Path \ Excluded, Dated1970(SettledFrom, p)' PROVE UpToDate(p)'
    <3>1. Dated1970(Src, p)
      BY <2>1, <2>2, <2>3 DEF Dated1970
    <3>2. /\ tree[Dst][p] # Absent
          /\ \/ tree[Dst][p].type # tree[Src][p].type
             \/ tree[Src][p].mtime <= Seen(Dst, tree[Dst][p].mtime)
      BY <2>1, <2>2, <3>1, SettledByRun
    <3>3. QED
      BY <2>1, <2>2, <3>2 DEF UpToDate
  <2>4. QED
    BY <2>3
<1>6. ASSUME NEW q \in Path, Transfer(q)
      PROVE  \A p \in Path \ Excluded : Dated1970(SettledFrom, p)' => UpToDate(p)'
  <2>1. /\ UNCHANGED <<settled, run>> /\ \A p \in Path : tree'[Src][p] = tree[Src][p]
        /\ Src' = Src /\ Dst' = Dst
    BY <1>6, SourceKept
  <2>2. /\ pc \in {"item", "link", "symlink", "copy"} /\ Turn(q) /\ q \in todo
        /\ pc' \in {"item", "link", "symlink", "copy"}
        /\ \A p \in Path \ {q} : tree'[Dst][p] = tree[Dst][p]
    BY <1>6, TransferFrame
  <2>3. Again /\ InLoop
    BY <2>1, <2>2 DEF Again, InLoop
  <2>4. /\ SettledFrom = Src /\ SettledTo = Dst /\ ClockNotBehind
        /\ SettledFrom' = Src /\ SettledTo' = Dst /\ SettledClock
    BY <2>1, <2>3, AgainSides DEF SettledFrom, SettledTo, SettledClock
  <2>5. \A p \in Path : Dated1970(Src, p)' <=> Dated1970(Src, p)
    BY <2>1 DEF Dated1970
  <2>6. \A p \in Path \ Excluded : Dated1970(Src, p) => UpToDate(p)
    BY <2>1, <2>3, <2>4 DEF SettledInv
  <2>7. CASE UNCHANGED tree
    <3>1. \A p \in Path : UpToDate(p)' <=> UpToDate(p)
      BY <2>4, <2>7 DEF UpToDate
    <3>2. QED
      BY <2>1, <2>4, <2>5, <2>6, <3>1 DEF Dated1970
  <2>8. CASE ~UNCHANGED tree
    <3>1. Chosen(q)
      BY <1>6, <2>2, <2>8
      DEF Transfer, Skip, TransferFails, MakeDirectory, UnlinkOld, ReadLink, MakeLink,
          OpenFile, CopyEnds, CopyFails, WorkInv
    <3>2. calm /\ listed[q].type = tree[Src][q].type
      BY <2>1, <2>2, <2>3, <3>1, AgainSides DEF CalmInv, AsListed, Chosen, Transferable
    <3>3. ~Dated1970(Src, q)
      <4>1. listed[q].type \notin {"REG", "LNK"} \/ tree[Src][q].mtime < 0
        BY <2>2, <2>3, <2>4, <3>1 DEF IdleInv, Chosen
      <4>2. tree[Src][q].mtime \in Int
        BY <1>a DEF Entry
      <4>3. QED
        BY <3>2, <4>1, <4>2 DEF Dated1970
    <3>4. \A p \in Path \ {q} : UpToDate(p)' <=> UpToDate(p)
      BY <2>1, <2>2, <2>4 DEF UpToDate
    <3>5. QED
      BY <2>1, <2>4, <2>5, <2>6, <3>3, <3>4 DEF Dated1970
  <2>9. QED
    BY <2>7, <2>8
<1>7. ~Killed /\ \A s \in Side, p \in Path : ~Edit(s, p)
  BY DEF Killed, Edit
<1>8. QED
  BY <1>1, <1>2, <1>3, <1>4, <1>5, <1>6, <1>7 DEF Next, Proceed, Finished, Between

\* Every step of a run in the settled direction finds nothing newer.
LEMMA IdleStep ==
  TypeOK /\ TreeInv /\ ListInv /\ DecisionInv /\ CalmInv /\ WorkInv /\ SettledInv /\ IdleInv
  /\ [Next]_vars => IdleInv'
<1> SUFFICES ASSUME TypeOK, TreeInv, ListInv, DecisionInv, CalmInv, WorkInv, SettledInv,
                    IdleInv, [Next]_vars, Again', ClockNotBehind',
                    InLoop' \/ pc' \in {"extra", "prompt", "base"},
                    NEW q \in Path, listed'[q].newer
             PROVE  listed'[q].type \notin {"REG", "LNK"} \/ tree'[Src'][q].mtime < 0
  BY DEF IdleInv
<1> USE DEF Goto, Quiet, world, bounds, history
<1>a. /\ tree \in [Side -> [Path -> Entry]] /\ listed \in [Path -> ItemType]
      /\ Src \in Side /\ Dst \in Side
  BY SideTypes DEF TypeOK
<1>b. ASSUME UNCHANGED <<settled, run, listed>>, tree'[Src][q] = tree[Src][q],
             InLoop \/ pc \in {"extra", "prompt", "base"}
      PROVE  listed'[q].type \notin {"REG", "LNK"} \/ tree'[Src'][q].mtime < 0
  BY <1>b DEF IdleInv, Again, ClockNotBehind, Src
<1>1. CASE Between
  <2>1. /\ UNCHANGED <<settled, run, listed, tree>>
        /\ pc = "walk" \/ pc \in {"extra", "prompt", "base"}
    BY <1>1, BetweenFrame
  <2>2. pc # "walk"
    BY <2>1 DEF WorkInv
  <2>3. QED
    BY <1>b, <2>1, <2>2
<1>2. CASE Tick \/ UNCHANGED vars
  <2>1. UNCHANGED <<settled, run, listed, tree, pc>>
    BY <1>2 DEF Tick, vars
  <2>2. QED
    BY <1>b, <2>1 DEF InLoop
<1>3. ASSUME NEW p \in Path, Transfer(p)
      PROVE  listed'[q].type \notin {"REG", "LNK"} \/ tree'[Src'][q].mtime < 0
  <2>1. UNCHANGED <<settled, run, listed>> /\ tree'[Src][q] = tree[Src][q] /\ InLoop
    BY <1>3, SourceKept, TransferFrame DEF InLoop
  <2>2. QED
    BY <1>b, <2>1
<1>4. ASSUME NEW p \in Path, SetExtra(p)
      PROVE  listed'[q].type \notin {"REG", "LNK"} \/ tree'[Src'][q].mtime < 0
  <2>1. /\ UNCHANGED <<settled, run, tree>> /\ pc = "extra" /\ Src' = Src
        /\ Again /\ ClockNotBehind /\ ~InLoop
    BY <1>4 DEF SetExtra, Src, Again, ClockNotBehind, InLoop
  <2>2. PICK n, e \in BOOLEAN :
          /\ Extra(p, n, e)
          /\ n => IF e THEN /\ tree[Dst][p].type = listed[p].type
                            /\ listed[p].type # "DIR" =>
                                 Newer(Seen(Dst, tree[Dst][p].mtime), listed[p].mtime)
                  ELSE StatAbsent(p)
    BY <1>4 DEF SetExtra, Newer
  <2>3. /\ \A r \in Path \ {p} : listed'[r] = listed[r]
        /\ listed'[p].newer = n /\ listed'[p].type = listed[p].type
    BY <1>a, <2>2 DEF Extra
  <2>4. CASE q # p
    BY <2>1, <2>3, <2>4 DEF IdleInv
  <2>5. CASE q = p /\ listed[p].type \in {"REG", "LNK"} /\ ~(tree[Src][p].mtime < 0)
    <3>1. calm /\ AsListed(p)
      BY <2>1, <2>5, AgainSides DEF CalmInv
    <3>2. tree[Src][p].mtime \in Int
      BY <1>a DEF Entry
    <3>3. Dated1970(Src, p) /\ listed[p].mtime = tree[Src][p].mtime
      BY <2>5, <3>1, <3>2 DEF Dated1970, AsListed, Seen
    <3>4. p \notin Excluded
      BY <2>5 DEF ListInv
    <3>5. /\ tree[Dst][p] # Absent
          /\ \/ tree[Dst][p].type # tree[Src][p].type
             \/ tree[Src][p].mtime <= Seen(Dst, tree[Dst][p].mtime)
      BY <2>1, <3>3, <3>4, AgainSides DEF SettledInv, UpToDate
    <3>6. ~StatAbsent(p)
      BY <2>5, <3>5, StatAbsentMeans DEF TreeInv
    <3>7. Seen(Dst, tree[Dst][p].mtime) \in Int
      BY <1>a, ItemTypes DEF Entry
    <3>8. ~n
      BY <2>2, <2>5, <3>1, <3>2, <3>3, <3>5, <3>6, <3>7 DEF AsListed, Newer
    <3>9. QED
      BY <2>3, <2>5, <3>8
  <2>6. QED
    BY <2>1, <2>3, <2>4, <2>5
<1>5. ~(Start \/ Connect \/ LoopEnds \/ Close \/ Killed) /\ \A p \in Path : ~Visit(p)
  BY DEF Start, Connect, LoopEnds, Close, Killed, Visit, InLoop
<1>6. \A s \in Side, p \in Path : ~Edit(s, p)
  BY DEF Edit, Again
<1>7. QED
  BY <1>1, <1>2, <1>3, <1>4, <1>5, <1>6 DEF Next, Proceed, Finished, Between

(***************************************************************************)
(* After a run in which nothing failed, a second one in the same direction *)
(* finds nothing to transfer, but directories and files from before 1970,  *)
(* as long as nobody else changed anything.                                *)
(***************************************************************************)
THEOREM SecondRunFindsNothing == Spec => []SecondRunIdle
<1>1. Init => /\ DecisionInv /\ DatedInv /\ CalmInv /\ WorkInv /\ ListedInv /\ LeftInv
              /\ TransferredInv /\ SettledInv /\ IdleInv /\ ListInv
  BY InitDated, InitRun DEF SettledInv, IdleInv, Again
<1>2. CalmInv /\ IdleInv => SecondRunIdle
  <2> SUFFICES ASSUME CalmInv, IdleInv, pc \in {"prompt", "base", "item"}, ClockNotBehind,
                      Again, NEW p \in Items, Chosen(p)
               PROVE  listed[p].type = "DIR" \/ tree[Src][p].mtime < 0
    BY DEF SecondRunIdle, Again
  <2>1. QED
    BY DEF IdleInv, InLoop, Chosen, Transferable, Items
<1>3. QED
  BY <1>1, <1>2, InitType, TypeStep, InitTree, TreeStep, DatedStep, DecisionStep, ListStep,
     CalmStep, WorkStep, ListedStep, LeftStep, TransferredStep, SettledStep, IdleStep, PTL
  DEF Spec
=============================================================================
