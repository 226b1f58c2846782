------------------------------ MODULE CopySpec ------------------------------
(***************************************************************************)
(* What the transfer of one item promises to the loop of do_updown, and    *)
(* all that module Sync knows of it, by the same names: the destination    *)
(* only changes at a few points, and a copy during which nothing failed    *)
(* and nobody changed the source leaves two files that are the same.       *)
(***************************************************************************)
VARIABLES
  item,  \* the type the item was listed with, and whether it exists
  src,   \* the file copied from, a record with its type and its data
  dst,   \* the file copied to; its data counts only when nothing is under way
  at,    \* where the transfer stands
  torn   \* whether the source changed since it was opened or read

vars == <<item, src, dst, at, torn>>

NoFile == [type |-> "NONE", data |-> <<>>]
Directory == [type |-> "DIR", data |-> <<>>]
Truncated == [type |-> "REG", data |-> <<>>]

Ended == {"done", "failed", "killed"}

Init ==
  /\ item = [type |-> src.type, exist |-> dst # NoFile]
  /\ item.exist => dst.type = src.type
  /\ at = "item" /\ torn = FALSE

Goto(l) == at' = l
Fail == at' = "failed"

TransferFails ==
  /\ at = "item" /\ ~(item.type = "DIR" /\ item.exist) /\ Fail
  /\ UNCHANGED <<item, src, dst, torn>>

MakeDirectory ==
  /\ at = "item" /\ item.type = "DIR" /\ Goto("done")
  /\ \/ item.exist /\ UNCHANGED dst
     \/ ~item.exist /\ dst = NoFile /\ dst' = Directory
  /\ UNCHANGED <<item, src, torn>>

UnlinkOld ==
  /\ at = "item" /\ item.type = "LNK" /\ Goto("link")
  /\ \/ item.exist /\ dst.type \notin {"NONE", "DIR"} /\ dst' = NoFile
     \/ ~item.exist /\ UNCHANGED dst
  /\ UNCHANGED <<item, src, torn>>

ReadLink ==
  /\ at = "link" /\ torn' = FALSE
  /\ \/ src.type = "LNK" /\ Goto("symlink")
     \/ Fail
  /\ UNCHANGED <<item, src, dst>>

MakeLink ==
  /\ at = "symlink"
  /\ \/ /\ Goto("done") /\ dst = NoFile /\ dst'.type = "LNK"
        /\ torn \/ dst' = src
     \/ Fail /\ UNCHANGED dst
  /\ UNCHANGED <<item, src, torn>>

OpenFile ==
  /\ at = "item" /\ item.type = "REG" /\ Goto("copy")
  /\ dst.type \in {"NONE", "REG"} /\ dst' = Truncated
  /\ torn' = FALSE
  /\ UNCHANGED <<item, src>>

CopyEnds ==
  /\ at = "copy" /\ Goto("done") /\ dst'.type = "REG"
  /\ torn \/ dst' = src
  /\ UNCHANGED <<item, src, torn>>

CopyFails ==
  /\ at = "copy" /\ at' \in {"failed", "killed"}
  /\ dst'.type = "REG"
  /\ UNCHANGED <<item, src, torn>>

\* Others may change the source at any time, the destination while it is closed.
SourceChanges ==
  /\ at \notin Ended /\ torn' = (torn \/ at \in {"symlink", "copy"})
  /\ UNCHANGED <<item, dst, at>>

DestinationChanges ==
  /\ at \notin Ended \cup {"copy"}
  /\ UNCHANGED <<item, src, at, torn>>

Next ==
  \/ TransferFails \/ MakeDirectory \/ UnlinkOld \/ ReadLink \/ MakeLink
  \/ OpenFile \/ CopyEnds \/ CopyFails
  \/ SourceChanges \/ DestinationChanges

Steps == Init /\ [][Next]_vars

\* A transfer comes to an end, one way or another.
Spec == Steps /\ <>(at \in Ended)
=============================================================================
