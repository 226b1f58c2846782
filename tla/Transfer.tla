------------------------------ MODULE Transfer ------------------------------
(***************************************************************************)
(* One call of sftp_send_file (upload) or sftp_recv_file (download),       *)
(* ssh_session.c, at the grain of its library calls.  Each call may fail,  *)
(* and another process may change the source or the destination between    *)
(* two of them: the arguments were computed from a listing that is older   *)
(* than the transfer.  do_updown passes regular files, directories and     *)
(* symbolic links only, so the "unsupported file type" returns are not     *)
(* reachable and have no action.  The POSIX build is modelled.             *)
(***************************************************************************)
EXTENDS Integers, Sequences

CONSTANTS
  Byte,        \* the values a byte of a file can take
  BufSize,     \* GENERIC_BUF_SIZE
  StdioBuf,    \* size of the stdio buffer behind the downloaded file's FILE
  MaxLen,      \* bound: longest file contents another process writes
  MaxChanges   \* bound: number of changes made by other processes

ASSUME SizesAssumption ==
  /\ BufSize \in Nat \ {0}
  /\ StdioBuf \in Nat \ {0}
  /\ MaxLen \in Nat
  /\ MaxChanges \in Nat

VARIABLES
  call,     \* the arguments: direction, listed mode, exists flag, listed size
  src,      \* the file copied from
  dst,      \* the file copied to
  pc,       \* where the call stands
  got,      \* bytes read from the source so far; Len(got) is cursize
  buf,      \* bytes of generic_buf not written yet
  open,     \* which of the two files the call holds a handle on
  ret,      \* the value returned
  touched,  \* history: which file another process changed since the listing
  masked,   \* history: errors of the C library the call did not report
  torn,     \* history: whether the source changed since it was opened or read
  changes   \* number of changes by other processes

vars == <<call, src, dst, pc, got, buf, open, ret, touched, masked, torn, changes>>

Kinds == {"NONE", "REG", "DIR", "LNK"}
File == [type : Kinds, data : Seq(Byte)]
NoFile == [type |-> "NONE", data |-> <<>>]
Directory == [type |-> "DIR", data |-> <<>>]
Regular(d) == [type |-> "REG", data |-> d]
Link(d) == [type |-> "LNK", data |-> d]

\* The contents that appear in a run: at most MaxLen bytes.
Contents == UNION {[1 .. n -> Byte] : n \in 0 .. MaxLen}

\* A link target is never empty.
Listed == {Directory} \cup {Regular(d) : d \in Contents}
                      \cup {Link(d) : d \in Contents \ {<<>>}}

(***************************************************************************)
(* do_updown calls the transfer for an item whose destination was absent   *)
(* (exists = 0), or present with the same type (exists = 1).               *)
(***************************************************************************)
Init ==
  /\ src \in Listed
  /\ dst \in {NoFile} \cup {f \in Listed : f.type = src.type}
  /\ \E d \in {"send", "recv"} :
       call = [dir |-> d, mode |-> src.type, exists |-> dst # NoFile,
               size |-> Len(src.data)]
  /\ pc = "start"
  /\ got = <<>> /\ buf = <<>> /\ open = {} /\ ret = -1
  /\ touched = {} /\ masked = {} /\ torn = FALSE /\ changes = 0

\* The call returns r.
Return(r) == pc' = "done" /\ ret' = r

Ended == {"done", "sigfpe"}
Copying == {"opensrc", "read", "write", "close"}

-----------------------------------------------------------------------------
(* Directories: nothing to do if it exists, mkdir otherwise.               *)
MakeDirectory ==
  /\ pc = "start" /\ call.mode = "DIR"
  /\ \/ call.exists /\ Return(0) /\ UNCHANGED dst
     \/ ~call.exists /\ dst = NoFile /\ dst' = Directory /\ Return(0)
     \/ ~call.exists /\ Return(-1) /\ UNCHANGED dst
  /\ UNCHANGED <<call, src, got, buf, open, touched, masked, torn, changes>>

(* Symbolic links: unlink the old one, read the source's, create the new.  *)
UnlinkOld ==
  /\ pc = "start" /\ call.mode = "LNK"
  /\ \/ ~call.exists /\ pc' = "readlink" /\ UNCHANGED <<dst, ret>>
     \/ /\ call.exists /\ dst.type \in {"REG", "LNK"}
        /\ dst' = NoFile /\ pc' = "readlink" /\ UNCHANGED ret
     \/ call.exists /\ Return(-1) /\ UNCHANGED dst
  /\ UNCHANGED <<call, src, got, buf, open, touched, masked, torn, changes>>

ReadLink ==
  /\ pc = "readlink"
  /\ \/ src.type = "LNK" /\ buf' = src.data /\ pc' = "symlink" /\ UNCHANGED ret
     \/ Return(-1) /\ UNCHANGED buf
  /\ torn' = FALSE
  /\ UNCHANGED <<call, src, dst, got, open, touched, masked, changes>>

\* Mutant: a failed symlink starts over from the unlink.
MakeLinkRetries ==
  /\ pc = "symlink"
  /\ \/ dst = NoFile /\ dst' = Link(buf) /\ Return(0)
     \/ pc' = "start" /\ UNCHANGED <<dst, ret>>
  /\ UNCHANGED <<call, src, got, buf, open, touched, masked, torn, changes>>

MakeLink ==
  /\ pc = "symlink"
  /\ \/ dst = NoFile /\ dst' = Link(buf) /\ Return(0)
     \/ Return(-1) /\ UNCHANGED dst
  /\ UNCHANGED <<call, src, got, buf, open, touched, masked, torn, changes>>

-----------------------------------------------------------------------------
(* Regular files.  Both directions open, and so truncate, the destination  *)
(* before they know whether the source can be opened.                      *)
OpenDestination ==
  /\ pc = "start" /\ call.mode = "REG"
  /\ \/ /\ dst.type \in {"NONE", "REG"}
        /\ dst' = Regular(<<>>) /\ open' = {"dst"} /\ pc' = "opensrc"
        /\ torn' = FALSE /\ UNCHANGED ret
     \/ Return(-1) /\ UNCHANGED <<dst, open, torn>>
  /\ UNCHANGED <<call, src, got, buf, touched, masked, changes>>

\* fdopen fails on the descriptor a download opened: it is not closed.
FdopenFails ==
  /\ pc = "opensrc" /\ call.dir = "recv"
  /\ Return(-1)
  /\ UNCHANGED <<call, src, dst, got, buf, open, touched, masked, torn, changes>>

OpenSource ==
  /\ pc = "opensrc"
  /\ \/ src.type \in {"REG", "DIR"} /\ open' = open \cup {"src"} /\ pc' = "read"
     \/ pc' = "close" /\ UNCHANGED open
  /\ UNCHANGED <<call, src, dst, got, buf, ret, touched, masked, torn, changes>>

\* What is left to read of the source as it is now.
Available == IF src.type = "REG" THEN Len(src.data) - Len(got) ELSE 0

\* fread fills the buffer unless the file ends; libssh2_sftp_read may not.
ReadLength(n) ==
  /\ n \in 1 .. BufSize /\ n <= Available
  /\ call.dir = "send" => n = BufSize \/ n = Available

\* Mutant: the percentage as cursize / (size / 100).
DivisorOfHundredths == call.size \div 100

\* The percentage shown is cursize * 100 / Divisor.
Divisor == call.size

ReadSome ==
  /\ pc = "read" /\ Divisor # 0
  /\ \E n \in 1 .. BufSize :
       /\ ReadLength(n)
       /\ buf' = SubSeq(src.data, Len(got) + 1, Len(got) + n)
  /\ got' = got \o buf'
  /\ pc' = "write"
  /\ UNCHANGED <<call, src, dst, open, ret, touched, masked, torn, changes>>

\* An integer division by zero: the process is killed by SIGFPE.
DivideByZero ==
  /\ pc = "read" /\ Divisor = 0 /\ Available > 0
  /\ pc' = "sigfpe"
  /\ UNCHANGED <<call, src, dst, got, buf, open, ret, touched, masked, torn, changes>>

ReadEof ==
  /\ pc = "read" /\ src.type = "REG" /\ Available <= 0
  /\ pc' = "close" /\ ret' = 0
  /\ UNCHANGED <<call, src, dst, got, buf, open, touched, masked, torn, changes>>

\* fread returns 0, not a negative number, on a read error.
ReadError ==
  /\ pc = "read" /\ pc' = "close"
  /\ IF call.dir = "send"
       THEN ret' = 0 /\ masked' = masked \cup {"fread"}
       ELSE UNCHANGED <<ret, masked>>
  /\ UNCHANGED <<call, src, dst, got, buf, open, touched, torn, changes>>

\* Mutant: pos stays at the start of the buffer.
RestFromStart(b, k) == SubSeq(b, 1, Len(b) - k)

\* The part of the buffer that remains after k bytes were written.
Rest(b, k) == SubSeq(b, k + 1, Len(b))

\* k bytes of the buffer reach the destination.
Put(k) ==
  /\ dst' = Regular(dst.data \o SubSeq(buf, 1, k))
  /\ buf' = Rest(buf, k)

\* libssh2_sftp_write may accept less than it is given, fwrite may not.
WriteSome ==
  /\ pc = "write"
  /\ \E k \in 1 .. Len(buf) :
       /\ call.dir = "recv" => k = Len(buf)
       /\ Put(k)
       /\ pc' = IF k = Len(buf) THEN "read" ELSE "write"
  /\ UNCHANGED <<call, src, got, open, ret, touched, masked, torn, changes>>

\* Mutant: without the goto, the loop reads on after a failed write.
WriteFailsReadsOn ==
  /\ pc = "write" /\ pc' = "read" /\ buf' = <<>>
  /\ UNCHANGED <<call, src, dst, got, open, ret, touched, masked, torn, changes>>

WriteFails ==
  /\ pc = "write" /\ pc' = "close"
  /\ \E k \in 0 .. Len(buf) :
       /\ call.dir = "recv" => k < Len(buf)
       /\ Put(k)
  /\ UNCHANGED <<call, src, got, open, ret, touched, masked, torn, changes>>

\* Mutant: the file opened for reading is forgotten.
ReleasedDestination == {"dst"}

\* The handles closed on the way out.
Released == {"src", "dst"}

\* fclose writes out what stdio still buffers; its result is not looked at.
Close ==
  /\ pc = "close" /\ pc' = "done" /\ open' = open \ Released
  /\ \/ UNCHANGED <<dst, masked>>
     \/ /\ call.dir = "recv"
        /\ \E k \in 1 .. StdioBuf :
             /\ k <= Len(dst.data)
             /\ dst' = Regular(SubSeq(dst.data, 1, Len(dst.data) - k))
        /\ masked' = masked \cup {"fclose"}
  /\ UNCHANGED <<call, src, got, buf, ret, touched, torn, changes>>

-----------------------------------------------------------------------------
(* Other processes.  A file that is open is only changed in place; the     *)
(* destination is left alone while it is open.                             *)
Outside == {NoFile} \cup Listed

SourceChanged ==
  /\ changes < MaxChanges /\ pc \notin Ended
  /\ \E f \in Outside \ {src} :
       /\ "src" \in open => f.type = src.type
       /\ src' = f
  /\ touched' = touched \cup {"src"} /\ changes' = changes + 1
  /\ torn' = (torn \/ pc \in {"symlink"} \cup Copying)
  /\ UNCHANGED <<call, dst, pc, got, buf, open, ret, masked>>

DestinationChanged ==
  /\ changes < MaxChanges /\ pc \notin Ended /\ open = {}
  /\ \E f \in Outside \ {dst} : dst' = f
  /\ touched' = touched \cup {"dst"} /\ changes' = changes + 1
  /\ UNCHANGED <<call, src, pc, got, buf, open, ret, masked, torn>>

Returned == pc \in Ended /\ UNCHANGED vars

-----------------------------------------------------------------------------
Step ==
  \/ MakeDirectory \/ UnlinkOld \/ ReadLink \/ MakeLink
  \/ OpenDestination \/ FdopenFails \/ OpenSource
  \/ ReadSome \/ DivideByZero \/ ReadEof \/ ReadError
  \/ WriteSome \/ WriteFails \/ Close

Next == Step \/ SourceChanged \/ DestinationChanged \/ Returned

\* Blocking calls return: the program keeps taking steps.
Spec == Init /\ [][Next]_vars /\ WF_vars(Step)

-----------------------------------------------------------------------------
TypeOK ==
  /\ call \in [dir : {"send", "recv"}, mode : {"REG", "DIR", "LNK"},
               exists : BOOLEAN, size : Nat]
  /\ src \in File /\ dst \in File
  /\ pc \in {"start", "readlink", "symlink", "opensrc", "read", "write",
             "close"} \cup Ended
  /\ got \in Seq(Byte) /\ buf \in Seq(Byte)
  /\ open \subseteq {"src", "dst"}
  /\ ret \in {-1, 0}
  /\ touched \subseteq {"src", "dst"} /\ masked \subseteq {"fread", "fclose"}
  /\ torn \in BOOLEAN
  /\ changes \in 0 .. MaxChanges

(***************************************************************************)
(* While the destination is open it holds, in order and without gaps or    *)
(* repetitions, every byte read from the source but the ones still in      *)
(* generic_buf, however the writes are cut into short ones, whichever of   *)
(* them fails and whatever happens to the source meanwhile.                *)
(***************************************************************************)
NothingLostInTheBuffer ==
  "dst" \in open => dst.data \o buf = got

(***************************************************************************)
(* A call that returns 0 has made the destination a copy of the source,    *)
(* provided nobody else changed either since the listing and the C library *)
(* hid no error from it.                                                   *)
(***************************************************************************)
SuccessMeansCopied ==
  pc = "done" /\ ret = 0 /\ touched = {} /\ masked = {} => dst = src

(***************************************************************************)
(* A call that returns leaves no handle open on any of its paths, except   *)
(* the descriptor of a download whose fdopen failed.                       *)
(***************************************************************************)
HandlesReleased ==
  pc = "done" /\ open # {} => /\ open = {"dst"} /\ got = <<>>
                              /\ call.dir = "recv" /\ ret = -1

(***************************************************************************)
(* The progress display divides by the listed size, which is 0 for an      *)
(* empty file: the division is only reached when the file has grown since  *)
(* it was listed.                                                          *)
(***************************************************************************)
KilledOnlyIfSourceGrew ==
  pc = "sigfpe" => call.size = 0 /\ "src" \in touched

(***************************************************************************)
(* What the comment on the fread loop says of the branch that returns 0:   *)
(* it is taken at the end of the file.  So a regular file nobody else      *)
(* touched has been read to its end when an upload returns 0.              *)
(***************************************************************************)
ZeroMeansEof ==
  pc = "done" /\ ret = 0 /\ call.mode = "REG" /\ call.dir = "send"
              /\ touched = {} => got = src.data

(***************************************************************************)
(* The call does what module Sync takes it for: it changes the destination *)
(* nowhere else, keeps its hands off it after a failure that comes first,  *)
(* makes a true copy unless something failed or the source changed under   *)
(* it, and comes to an end.                                                *)
(***************************************************************************)
Place ==
  CASE pc = "start" -> "item"
    [] pc = "readlink" -> "link"
    [] pc = "symlink" -> "symlink"
    [] pc \in Copying -> "copy"
    [] pc = "done" -> IF ret = 0 /\ masked = {} THEN "done" ELSE "failed"
    [] pc = "sigfpe" -> "killed"

Item == [type |-> call.mode, exist |-> call.exists]

\* What counts of the destination: nothing in it while it is being copied.
Settled == IF pc \in Copying THEN Regular(<<>>) ELSE dst

Copy == INSTANCE CopySpec WITH item <- Item, dst <- Settled, at <- Place

Implements == Copy!Spec
=============================================================================
