--------------------------- MODULE TransferProofs ---------------------------
(***************************************************************************)
(* What Transfer guarantees for files of any length, buffers of any size   *)
(* and any number of changes by other processes.                           *)
(***************************************************************************)
EXTENDS Transfer, SequenceTheorems, TLAPS

\* Contents of any bounded length are byte sequences.
LEMMA ContentsAreSequences == Contents \subseteq Seq(Byte)
  BY SizesAssumption DEF Contents

\* The constructors make files.
LEMMA FilesMade ==
  /\ Directory \in File /\ NoFile \in File
  /\ \A d \in Seq(Byte) : Regular(d) \in File /\ Link(d) \in File
<1>1. <<>> \in Seq(Byte)
  BY EmptySeq
<1>2. QED
  BY <1>1 DEF File, Kinds, Directory, NoFile, Regular, Link

\* What do_updown passes on are files of a type it transfers.
LEMMA ListedAreFiles ==
  ASSUME NEW f \in Listed
  PROVE  /\ f \in File /\ f.type \in {"REG", "DIR", "LNK"}
         /\ f.type = "DIR" => f = Directory
<1>1. CASE f = Directory
  BY <1>1, FilesMade DEF Directory
<1>2. CASE \E d \in Contents : f = Regular(d)
  BY <1>2, FilesMade, ContentsAreSequences DEF Regular
<1>3. CASE \E d \in Contents : f = Link(d)
  BY <1>3, FilesMade, ContentsAreSequences DEF Link
<1>4. QED
  BY <1>1, <1>2, <1>3 DEF Listed

\* What other processes write are files.
LEMMA OutsideAreFiles ==
  ASSUME NEW f \in Outside
  PROVE  f \in File
  BY FilesMade, ListedAreFiles DEF Outside

\* A slice within the bounds of a sequence is a sequence of its length.
LEMMA SliceType ==
  ASSUME NEW S, NEW s \in Seq(S), NEW i \in Nat \ {0}, NEW j \in Nat, j <= Len(s)
  PROVE  /\ SubSeq(s, i, j) \in Seq(S)
         /\ Len(SubSeq(s, i, j)) = IF i <= j THEN j - i + 1 ELSE 0
<1>1. \A k \in i .. j : s[k] \in S
  BY ElementOfSeq, LenProperties
<1>2. QED
  BY <1>1, SubSeqProperties

\* Cutting the first k bytes off a buffer and putting the two parts together
\* again gives the buffer: what Put writes and Rest keeps is all of it.
LEMMA CutBuffer ==
  ASSUME NEW b \in Seq(Byte), NEW k \in 0 .. Len(b)
  PROVE  /\ Rest(b, k) \in Seq(Byte)
         /\ SubSeq(b, 1, k) \in Seq(Byte)
         /\ SubSeq(b, 1, k) \o Rest(b, k) = b
         /\ k = Len(b) => Rest(b, k) = <<>>
<1> USE DEF Rest
<1>1. Len(b) \in Nat
  BY LenProperties
<1>2. /\ Rest(b, k) \in Seq(Byte)
      /\ SubSeq(b, 1, k) \in Seq(Byte)
  BY <1>1, SliceType
<1>3. SubSeq(b, 1, k) \o SubSeq(b, k + 1, Len(b)) = SubSeq(b, 1, Len(b))
  <2>1. 1 \in 1 .. Len(b) + 1 /\ k \in 1 - 1 .. Len(b) /\ Len(b) \in k .. Len(b)
    BY <1>1
  <2>2. QED
    BY <2>1, ConcatAdjacentSubSeq
<1>4. SubSeq(b, 1, Len(b)) = b
  BY SubSeqFull
<1>5. k = Len(b) => SubSeq(b, k + 1, Len(b)) = <<>>
  BY <1>1, SubSeqEmpty
<1>6. QED
  BY <1>2, <1>3, <1>4, <1>5

-----------------------------------------------------------------------------
(***************************************************************************)
(* The inductive invariant.  Control ties the handles held, the buffer and *)
(* the result to the point the call has reached; the other parts say what  *)
(* the two files hold there.                                               *)
(***************************************************************************)
Control ==
  /\ pc \in {"start", "readlink", "symlink"} => open = {} /\ got = <<>>
  /\ pc \in {"start", "readlink"} => buf = <<>>
  /\ pc = "opensrc" => open = {"dst"} /\ got = <<>> /\ buf = <<>>
  /\ pc \in {"read", "write"} => open = {"src", "dst"}
  /\ pc = "read" => buf = <<>>
  /\ pc = "close" => "dst" \in open
  /\ pc \in {"readlink", "symlink"} => call.mode = "LNK"
  /\ pc \in {"opensrc", "read", "write", "close"} => call.mode = "REG"
  /\ ret = 0 => pc \in {"close", "done"}
  /\ masked # {} => pc \in {"close", "done"}

Buffered == "dst" \in open => dst.type = "REG" /\ dst.data \o buf = got

SourceAsListed ==
  "src" \notin touched =>
    /\ src.type = call.mode /\ Len(src.data) = call.size
    /\ src.type = "DIR" => src = Directory

DestinationAsListed ==
  "dst" \notin touched /\ pc = "start" =>
    /\ call.exists <=> dst # NoFile
    /\ call.exists => dst.type = call.mode
    /\ dst.type = "DIR" => dst = Directory

Copied ==
  /\ torn => "src" \in touched
  /\ ~torn =>
       /\ pc \in {"opensrc", "read", "write"} =>
            Len(got) <= Len(src.data) /\ got = SubSeq(src.data, 1, Len(got))
       /\ pc = "symlink" => src = Link(buf)
       /\ pc = "close" /\ ret = 0 /\ masked = {} => dst = src
  /\ pc = "done" /\ ret = 0 /\ touched = {} /\ masked = {} => dst = src

IInv ==
  /\ TypeOK /\ Control /\ Buffered
  /\ SourceAsListed /\ DestinationAsListed /\ Copied

\* Every step keeps the types.
LEMMA TypeStep == TypeOK /\ [Next]_vars => TypeOK'
<1> SUFFICES ASSUME TypeOK, [Next]_vars PROVE TypeOK'
  OBVIOUS
<1> USE SizesAssumption DEF TypeOK, Ended
<1>1. ASSUME MakeDirectory PROVE TypeOK'
  BY <1>1, FilesMade DEF MakeDirectory, Return
<1>2. ASSUME UnlinkOld PROVE TypeOK'
  BY <1>2, FilesMade DEF UnlinkOld, Return
<1>3. ASSUME ReadLink PROVE TypeOK'
  BY <1>3 DEF ReadLink, Return, File
<1>4. ASSUME MakeLink PROVE TypeOK'
  BY <1>4, FilesMade DEF MakeLink, Return
<1>5. ASSUME OpenDestination PROVE TypeOK'
  BY <1>5, FilesMade, EmptySeq DEF OpenDestination, Return
<1>6. ASSUME FdopenFails PROVE TypeOK'
  BY <1>6 DEF FdopenFails, Return
<1>7. ASSUME OpenSource PROVE TypeOK'
  BY <1>7 DEF OpenSource
<1>8. ASSUME ReadSome PROVE TypeOK'
  <2>1. PICK n \in 1 .. BufSize :
          ReadLength(n) /\ buf' = SubSeq(src.data, Len(got) + 1, Len(got) + n)
    BY <1>8 DEF ReadSome
  <2>2. src.data \in Seq(Byte) /\ Len(src.data) \in Nat /\ Len(got) \in Nat
    BY LenProperties DEF File
  <2>3. Len(got) + n <= Len(src.data)
    BY <2>1, <2>2 DEF ReadLength, Available
  <2>4. buf' \in Seq(Byte)
    BY <2>1, <2>2, <2>3, SliceType
  <2>5. got' \in Seq(Byte)
    BY <1>8, <2>4, ConcatProperties DEF ReadSome
  <2>6. QED
    BY <1>8, <2>4, <2>5 DEF ReadSome
<1>9. ASSUME DivideByZero PROVE TypeOK'
  BY <1>9 DEF DivideByZero
<1>10. ASSUME ReadEof PROVE TypeOK'
  BY <1>10 DEF ReadEof
<1>11. ASSUME ReadError PROVE TypeOK'
  BY <1>11 DEF ReadError
<1>12. ASSUME NEW k \in 0 .. Len(buf), Put(k)
       PROVE  dst' \in File /\ buf' \in Seq(Byte)
  <2>1. dst.data \in Seq(Byte)
    BY DEF File
  <2>2. SubSeq(buf, 1, k) \in Seq(Byte) /\ Rest(buf, k) \in Seq(Byte)
    BY CutBuffer
  <2>3. dst.data \o SubSeq(buf, 1, k) \in Seq(Byte)
    BY <2>1, <2>2, ConcatProperties
  <2>4. QED
    BY <1>12, <2>2, <2>3, FilesMade DEF Put
<1>13. ASSUME WriteSome PROVE TypeOK'
  <2>1. dst' \in File /\ buf' \in Seq(Byte)
    BY <1>12, <1>13, LenProperties DEF WriteSome
  <2>2. QED
    BY <1>13, <2>1 DEF WriteSome
<1>14. ASSUME WriteFails PROVE TypeOK'
  <2>1. dst' \in File /\ buf' \in Seq(Byte)
    BY <1>12, <1>14 DEF WriteFails
  <2>2. QED
    BY <1>14, <2>1 DEF WriteFails
<1>15. ASSUME Close PROVE TypeOK'
  <2>1. dst.data \in Seq(Byte) /\ Len(dst.data) \in Nat
    BY LenProperties DEF File
  <2>2. ASSUME NEW k \in 1 .. StdioBuf, k <= Len(dst.data)
        PROVE  Regular(SubSeq(dst.data, 1, Len(dst.data) - k)) \in File
    <3>1. Len(dst.data) - k \in Nat /\ Len(dst.data) - k <= Len(dst.data)
      BY <2>1, <2>2
    <3>2. SubSeq(dst.data, 1, Len(dst.data) - k) \in Seq(Byte)
      BY <2>1, <3>1, SliceType
    <3>3. QED
      BY <3>2, FilesMade
  <2>3. dst' \in File
    BY <1>15, <2>2 DEF Close
  <2>4. QED
    BY <1>15, <2>3 DEF Close
<1>16. ASSUME SourceChanged PROVE TypeOK'
  BY <1>16, OutsideAreFiles DEF SourceChanged
<1>17. ASSUME DestinationChanged PROVE TypeOK'
  BY <1>17, OutsideAreFiles DEF DestinationChanged
<1>18. CASE UNCHANGED vars
  BY <1>18 DEF vars
<1>19. QED
  BY <1>1, <1>2, <1>3, <1>4, <1>5, <1>6, <1>7, <1>8, <1>9, <1>10, <1>11,
     <1>13, <1>14, <1>15, <1>16, <1>17, <1>18 DEF Next, Step, Returned

\* Every step keeps buffer and handles in line with the place in the code.
LEMMA ControlStep == TypeOK /\ Control /\ [Next]_vars => Control'
<1> SUFFICES ASSUME TypeOK, Control, [Next]_vars PROVE Control'
  OBVIOUS
<1> USE DEF TypeOK, Control
<1>1. CASE MakeDirectory \/ UnlinkOld \/ ReadLink \/ MakeLink
  BY <1>1 DEF MakeDirectory, UnlinkOld, ReadLink, MakeLink, Return
<1>2. CASE OpenDestination \/ FdopenFails \/ OpenSource
  BY <1>2 DEF OpenDestination, FdopenFails, OpenSource, Return
<1>3. CASE ReadSome \/ DivideByZero \/ ReadEof \/ ReadError
  BY <1>3 DEF ReadSome, DivideByZero, ReadEof, ReadError
<1>4. CASE WriteSome
  <2>1. PICK k \in 1 .. Len(buf) :
          Put(k) /\ pc' = IF k = Len(buf) THEN "read" ELSE "write"
    BY <1>4 DEF WriteSome
  <2>2. k = Len(buf) => buf' = <<>>
    BY <2>1, CutBuffer, LenProperties DEF Put
  <2>3. QED
    BY <1>4, <2>1, <2>2 DEF WriteSome
<1>5. CASE WriteFails \/ Close
  BY <1>5 DEF WriteFails, Close, Released
<1>6. CASE SourceChanged \/ DestinationChanged \/ UNCHANGED vars
  BY <1>6 DEF SourceChanged, DestinationChanged, vars
<1>7. QED
  BY <1>1, <1>2, <1>3, <1>4, <1>5, <1>6 DEF Next, Step, Returned

\* Every step keeps destination and buffer at the bytes read.
LEMMA BufferedStep == TypeOK /\ Control /\ Buffered /\ [Next]_vars => Buffered'
<1> SUFFICES ASSUME TypeOK, Control, Buffered, [Next]_vars PROVE Buffered'
  OBVIOUS
<1> USE DEF Buffered
<1>1. CASE MakeDirectory \/ UnlinkOld \/ ReadLink \/ MakeLink
  BY <1>1 DEF MakeDirectory, UnlinkOld, ReadLink, MakeLink, Return, Control
<1>2. CASE OpenDestination
  <2>1. <<>> \o <<>> = <<>>
    BY ConcatEmptySeq, EmptySeq
  <2>2. QED
    BY <1>2, <2>1 DEF OpenDestination, Return, Control, Regular
<1>3. CASE FdopenFails \/ OpenSource
  BY <1>3 DEF FdopenFails, OpenSource, Return, Control
<1>4. CASE ReadSome
  <2>1. dst.type = "REG" /\ dst.data \o <<>> = got
    BY <1>4 DEF ReadSome, Control
  <2>2. dst.data = got
    BY <2>1, ConcatEmptySeq DEF TypeOK, File
  <2>3. QED
    BY <1>4, <2>1, <2>2 DEF ReadSome
<1>5. CASE DivideByZero \/ ReadEof \/ ReadError
  BY <1>5 DEF DivideByZero, ReadEof, ReadError
<1>6. ASSUME NEW k \in 0 .. Len(buf), Put(k), "dst" \in open
      PROVE  dst'.type = "REG" /\ dst'.data \o buf' = got
  <2>1. /\ dst'.type = "REG"
        /\ dst'.data = dst.data \o SubSeq(buf, 1, k)
        /\ buf' = Rest(buf, k)
    BY <1>6 DEF Put, Regular
  <2>2. dst.data \in Seq(Byte) /\ buf \in Seq(Byte)
    BY DEF TypeOK, File
  <2>3. (dst.data \o SubSeq(buf, 1, k)) \o Rest(buf, k) = dst.data \o buf
    <3>1. /\ SubSeq(buf, 1, k) \in Seq(Byte) /\ Rest(buf, k) \in Seq(Byte)
          /\ SubSeq(buf, 1, k) \o Rest(buf, k) = buf
      BY <2>2, CutBuffer
    <3> DEFINE d == dst.data
               put == SubSeq(buf, 1, k)
               rest == Rest(buf, k)
    <3>2. d \in Seq(Byte) /\ put \in Seq(Byte) /\ rest \in Seq(Byte)
      BY <2>2, <3>1
    <3> HIDE DEF d, put, rest
    <3>3. (d \o put) \o rest = d \o (put \o rest)
      BY <3>2, ConcatAssociative
    <3>4. QED
      BY <3>1, <3>3 DEF d, put, rest
  <2>4. QED
    BY <1>6, <2>1, <2>3
<1>7. CASE WriteSome
  BY <1>6, <1>7, LenProperties DEF WriteSome, Control, TypeOK
<1>8. CASE WriteFails
  BY <1>6, <1>8 DEF WriteFails, Control
<1>9. CASE Close
  BY <1>9 DEF Close, Released
<1>10. CASE SourceChanged \/ DestinationChanged \/ UNCHANGED vars
  BY <1>10 DEF SourceChanged, DestinationChanged, vars
<1>11. QED
  BY <1>1, <1>2, <1>3, <1>4, <1>5, <1>7, <1>8, <1>9, <1>10 DEF Next, Step, Returned

\* Every step keeps an untouched file as it was listed.
LEMMA ListedStep ==
  SourceAsListed /\ DestinationAsListed /\ [Next]_vars
    => SourceAsListed' /\ DestinationAsListed'
<1> SUFFICES ASSUME SourceAsListed, DestinationAsListed, [Next]_vars
             PROVE  SourceAsListed' /\ DestinationAsListed'
  OBVIOUS
<1> USE DEF SourceAsListed, DestinationAsListed
<1>1. CASE MakeDirectory \/ UnlinkOld \/ ReadLink \/ MakeLink
  BY <1>1 DEF MakeDirectory, UnlinkOld, ReadLink, MakeLink, Return
<1>2. CASE OpenDestination \/ FdopenFails \/ OpenSource
  BY <1>2 DEF OpenDestination, FdopenFails, OpenSource, Return
<1>3. CASE ReadSome \/ DivideByZero \/ ReadEof \/ ReadError
  BY <1>3 DEF ReadSome, DivideByZero, ReadEof, ReadError
<1>4. CASE WriteSome \/ WriteFails \/ Close
  BY <1>4 DEF WriteSome, WriteFails, Close
<1>5. CASE SourceChanged \/ DestinationChanged \/ UNCHANGED vars
  BY <1>5 DEF SourceChanged, DestinationChanged, vars
<1>6. QED
  BY <1>1, <1>2, <1>3, <1>4, <1>5 DEF Next, Step, Returned

\* Every step keeps the copies made so far.
LEMMA CopiedStep == IInv /\ [Next]_vars => Copied'
<1> SUFFICES ASSUME IInv, [Next]_vars PROVE Copied'
  OBVIOUS
<1> USE DEF Copied
<1>1. CASE MakeDirectory
  <2>1. touched = {} => src = Directory
    BY <1>1 DEF MakeDirectory, IInv, SourceAsListed
  <2>2. touched = {} /\ call.exists => dst = Directory
    BY <1>1 DEF MakeDirectory, IInv, DestinationAsListed
  <2>3. QED
    BY <1>1, <2>1, <2>2 DEF MakeDirectory, Return, IInv, Control
<1>2. CASE UnlinkOld
  BY <1>2 DEF UnlinkOld, Return, IInv, Control
<1>3. CASE ReadLink
  <2>1. src.type = "LNK" => src = Link(src.data)
    BY DEF IInv, TypeOK, File, Link
  <2>2. QED
    BY <1>3, <2>1 DEF ReadLink, Return, IInv, Control
<1>4. CASE MakeLink
  BY <1>4 DEF MakeLink, Return, IInv, Control
<1>5. CASE OpenDestination
  <2>1. src.data \in Seq(Byte) /\ Len(src.data) \in Nat
    BY LenProperties DEF IInv, TypeOK, File
  <2>2. Len(<<>>) = 0 /\ SubSeq(src.data, 1, 0) = <<>>
    BY EmptySeq, SubSeqEmpty
  <2>3. QED
    BY <1>5, <2>1, <2>2 DEF OpenDestination, Return, IInv, Control
<1>6. CASE FdopenFails \/ OpenSource
  BY <1>6 DEF FdopenFails, OpenSource, Return, IInv, Control
<1>7. CASE ReadSome
  <2> SUFFICES ASSUME ~torn
               PROVE  Len(got') <= Len(src.data) /\ got' = SubSeq(src.data, 1, Len(got'))
    BY <1>7 DEF ReadSome, IInv, Control
  <2>1. PICK n \in 1 .. BufSize :
          ReadLength(n) /\ buf' = SubSeq(src.data, Len(got) + 1, Len(got) + n)
    BY <1>7 DEF ReadSome
  <2>2. /\ src.data \in Seq(Byte) /\ Len(src.data) \in Nat
        /\ got \in Seq(Byte) /\ Len(got) \in Nat /\ n \in Nat
    BY LenProperties, SizesAssumption DEF IInv, TypeOK, File
  <2>3. Len(got) + n <= Len(src.data)
    BY <2>1, <2>2 DEF ReadLength, Available
  <2>4. got = SubSeq(src.data, 1, Len(got))
    BY <1>7 DEF ReadSome, IInv
  <2>5. /\ 1 \in 1 .. Len(src.data) + 1
        /\ Len(got) \in 1 - 1 .. Len(src.data)
        /\ Len(got) + n \in Len(got) .. Len(src.data)
    BY <2>1, <2>2, <2>3
  <2>6. got' = SubSeq(src.data, 1, Len(got) + n)
    BY <1>7, <2>1, <2>2, <2>4, <2>5, ConcatAdjacentSubSeq DEF ReadSome
  <2>7. Len(got') = Len(got) + n
    BY <2>1, <2>2, <2>3, <2>6, SliceType
  <2>8. QED
    BY <2>3, <2>6, <2>7
<1>8. CASE DivideByZero \/ ReadError
  BY <1>8 DEF DivideByZero, ReadError, IInv, Control
<1>9. CASE ReadEof
  <2> SUFFICES ASSUME ~torn PROVE dst = src
    BY <1>9 DEF ReadEof, IInv
  <2>1. /\ src.data \in Seq(Byte) /\ Len(src.data) \in Nat
        /\ got \in Seq(Byte) /\ Len(got) \in Nat
        /\ dst \in File /\ src \in File
    BY LenProperties DEF IInv, TypeOK, File
  <2>2. Len(got) <= Len(src.data) /\ got = SubSeq(src.data, 1, Len(got))
    BY <1>9 DEF ReadEof, IInv
  <2>3. got = src.data
    BY <1>9, <2>1, <2>2, SubSeqFull DEF ReadEof, Available
  <2>4. dst.type = "REG" /\ dst.data \o <<>> = got
    BY <1>9 DEF ReadEof, IInv, Control, Buffered
  <2>5. dst.data = got
    BY <2>1, <2>4, ConcatEmptySeq DEF File
  <2>6. QED
    BY <1>9, <2>1, <2>3, <2>4, <2>5 DEF ReadEof, File
<1>10. CASE WriteSome \/ WriteFails
  BY <1>10 DEF WriteSome, WriteFails, IInv, Control
<1>11. CASE Close
  BY <1>11 DEF Close, IInv
<1>12. CASE SourceChanged
  <2>1. /\ pc' = pc /\ pc # "done" /\ "src" \in touched'
        /\ ~torn' => pc \notin {"symlink", "opensrc", "read", "write", "close"}
    BY <1>12 DEF SourceChanged, Ended, Copying
  <2>2. QED
    BY <2>1
<1>13. CASE DestinationChanged
  BY <1>13 DEF DestinationChanged, Ended, IInv, Control
<1>14. CASE UNCHANGED vars
  BY <1>14 DEF vars, IInv
<1>15. QED
  BY <1>1, <1>2, <1>3, <1>4, <1>5, <1>6, <1>7, <1>8, <1>9, <1>10, <1>11, <1>12,
     <1>13, <1>14
  DEF Next, Step, Returned

\* The invariant holds at the call.
LEMMA InitInvariant == Init => IInv
<1> SUFFICES ASSUME Init PROVE IInv
  OBVIOUS
<1>1. /\ src \in File /\ src.type \in {"REG", "DIR", "LNK"}
      /\ src.type = "DIR" => src = Directory
  BY ListedAreFiles DEF Init
<1>2. /\ dst \in File
      /\ dst = NoFile \/ (dst # NoFile /\ dst.type = src.type)
      /\ dst.type = "DIR" => dst = Directory
  BY <1>1, ListedAreFiles, FilesMade DEF Init, NoFile
<1>3. PICK d \in {"send", "recv"} :
        call = [dir |-> d, mode |-> src.type, exists |-> dst # NoFile,
                size |-> Len(src.data)]
  BY DEF Init
<1>4. Len(src.data) \in Nat /\ <<>> \in Seq(Byte)
  BY <1>1, LenProperties, EmptySeq DEF File
<1>5. TypeOK
  <2>1. call \in [dir : {"send", "recv"}, mode : {"REG", "DIR", "LNK"},
                  exists : BOOLEAN, size : Nat]
    BY <1>1, <1>3, <1>4
  <2>2. /\ pc = "start" /\ got = <<>> /\ buf = <<>> /\ open = {} /\ ret = -1
        /\ touched = {} /\ masked = {} /\ torn = FALSE /\ changes \in 0 .. MaxChanges
    BY SizesAssumption DEF Init
  <2>3. QED
    BY <1>1, <1>2, <1>4, <2>1, <2>2 DEF TypeOK
<1>6. Control /\ Buffered /\ Copied
  BY <1>3 DEF Init, Control, Buffered, Copied
<1>7. SourceAsListed /\ DestinationAsListed
  BY <1>1, <1>2, <1>3 DEF Init, SourceAsListed, DestinationAsListed
<1>8. QED
  BY <1>5, <1>6, <1>7 DEF IInv

\* The invariant holds throughout.
LEMMA Invariance == Spec => []IInv
<1>1. IInv /\ [Next]_vars => IInv'
  BY TypeStep, ControlStep, BufferedStep, ListedStep, CopiedStep DEF IInv
<1>2. QED
  BY InitInvariant, <1>1, PTL DEF Spec

-----------------------------------------------------------------------------
\* Every variable keeps its type, whatever fails and whoever interferes.
THEOREM TypeCorrect == Spec => []TypeOK
<1>1. IInv => TypeOK
  BY DEF IInv
<1>2. QED
  BY Invariance, <1>1, PTL

(***************************************************************************)
(* For every buffer size and every way of cutting the writes short, the    *)
(* destination and generic_buf together hold exactly the bytes read        *)
(* (sftp_send_file and sftp_recv_file, the loops over generic_buf).        *)
(***************************************************************************)
THEOREM BufferKeepsEveryByte == Spec => []NothingLostInTheBuffer
<1>1. IInv => NothingLostInTheBuffer
  BY DEF IInv, Buffered, NothingLostInTheBuffer
<1>2. QED
  BY Invariance, <1>1, PTL

(***************************************************************************)
(* A transfer of anything of any length that returns 0 has copied it, if   *)
(* nobody else touched the two files and no fread or fclose error was      *)
(* swallowed.                                                              *)
(***************************************************************************)
THEOREM ZeroMeansCopied == Spec => []SuccessMeansCopied
<1>1. IInv => SuccessMeansCopied
  BY DEF IInv, Copied, SuccessMeansCopied
<1>2. QED
  BY Invariance, <1>1, PTL

\* Every step keeps the cause of a division by zero.
LEMMA KilledStep ==
  IInv /\ KilledOnlyIfSourceGrew /\ [Next]_vars => KilledOnlyIfSourceGrew'
<1> SUFFICES ASSUME IInv, KilledOnlyIfSourceGrew, [Next]_vars, pc' = "sigfpe"
             PROVE  call'.size = 0 /\ "src" \in touched'
  BY DEF KilledOnlyIfSourceGrew
<1>1. CASE DivideByZero
  <2>1. got \in Seq(Byte) /\ Len(got) \in Nat
    BY LenProperties DEF IInv, TypeOK
  <2>2. call.size = 0 /\ Len(src.data) - Len(got) > 0
    BY <1>1 DEF DivideByZero, Divisor, Available
  <2>3. src.data \in Seq(Byte) /\ Len(src.data) \in Nat
    BY LenProperties DEF IInv, TypeOK, File
  <2>4. "src" \in touched
    BY <2>1, <2>2, <2>3 DEF IInv, SourceAsListed
  <2>5. QED
    BY <1>1, <2>2, <2>4 DEF DivideByZero
<1>2. CASE MakeDirectory \/ UnlinkOld \/ ReadLink \/ MakeLink
  BY <1>2 DEF MakeDirectory, UnlinkOld, ReadLink, MakeLink, Return
<1>3. CASE OpenDestination \/ FdopenFails \/ OpenSource
  BY <1>3 DEF OpenDestination, FdopenFails, OpenSource, Return
<1>4. CASE ReadSome \/ ReadEof \/ ReadError \/ WriteSome \/ WriteFails \/ Close
  BY <1>4 DEF ReadSome, ReadEof, ReadError, WriteSome, WriteFails, Close
<1>5. CASE SourceChanged \/ DestinationChanged \/ UNCHANGED vars
  BY <1>5 DEF SourceChanged, DestinationChanged, vars, Ended, KilledOnlyIfSourceGrew
<1>6. QED
  BY <1>1, <1>2, <1>3, <1>4, <1>5 DEF Next, Step, Returned

(***************************************************************************)
(* The division by the listed size kills the program only when an empty    *)
(* file grew between its listing and the first read.                       *)
(***************************************************************************)
THEOREM NoKillWithoutGrowth == Spec => []KilledOnlyIfSourceGrew
<1>1. Init => KilledOnlyIfSourceGrew
  BY DEF Init, KilledOnlyIfSourceGrew
<1>2. QED
  BY Invariance, KilledStep, <1>1, PTL DEF Spec

\* Every step keeps the account of the handles.
LEMMA ReleasedStep == IInv /\ HandlesReleased /\ [Next]_vars => HandlesReleased'
<1> SUFFICES ASSUME IInv, HandlesReleased, [Next]_vars PROVE HandlesReleased'
  OBVIOUS
<1> USE DEF HandlesReleased
<1>1. CASE MakeDirectory \/ UnlinkOld \/ ReadLink \/ MakeLink
  BY <1>1 DEF MakeDirectory, UnlinkOld, ReadLink, MakeLink, Return, IInv, Control
<1>2. CASE OpenDestination \/ FdopenFails \/ OpenSource
  BY <1>2 DEF OpenDestination, FdopenFails, OpenSource, Return, IInv, Control
<1>3. CASE ReadSome \/ DivideByZero \/ ReadEof \/ ReadError
  BY <1>3 DEF ReadSome, DivideByZero, ReadEof, ReadError
<1>4. CASE WriteSome \/ WriteFails
  BY <1>4 DEF WriteSome, WriteFails
<1>5. CASE Close
  BY <1>5 DEF Close, Released, IInv, TypeOK
<1>6. CASE SourceChanged \/ DestinationChanged \/ UNCHANGED vars
  BY <1>6 DEF SourceChanged, DestinationChanged, vars
<1>7. QED
  BY <1>1, <1>2, <1>3, <1>4, <1>5, <1>6 DEF Next, Step, Returned

(***************************************************************************)
(* Every way out of the two functions closes what it opened, but for the   *)
(* return after a failed fdopen.                                           *)
(***************************************************************************)
THEOREM NoHandleLeft == Spec => []HandlesReleased
<1>1. Init => HandlesReleased
  BY DEF Init, HandlesReleased
<1>2. QED
  BY Invariance, ReleasedStep, <1>1, PTL DEF Spec
-----------------------------------------------------------------------------
(***************************************************************************)
(* Every step is one of the abstract transfer or invisible in it: those    *)
(* between the truncation of the destination and the end of the copy are.  *)
(***************************************************************************)
LEMMA CopyStep == IInv /\ [Next]_vars => [Copy!Next]_(Copy!vars)
<1> SUFFICES ASSUME IInv, [Next]_vars PROVE Copy!Next \/ UNCHANGED Copy!vars
  OBVIOUS
<1> USE DEF Copy!Goto, Copy!Fail
<1>a. /\ Copy!NoFile = NoFile /\ Copy!Directory = Directory
      /\ Copy!Truncated = Regular(<<>>)
  BY DEF Copy!NoFile, NoFile, Copy!Directory, Directory, Copy!Truncated, Regular
<1>b. ret \in {-1, 0} /\ torn \in BOOLEAN
  BY DEF IInv, TypeOK
<1>c. /\ pc \notin Copying => Settled = dst
      /\ pc' \notin Copying => Settled' = dst'
      /\ pc \in Copying => Settled = Regular(<<>>) /\ Place = "copy" /\ "dst" \in open
      /\ pc' \in Copying => Settled' = Regular(<<>>) /\ Place' = "copy"
  BY DEF Settled, Place, Copying, IInv, Control
<1>d. /\ pc = "start" => Place = "item"
      /\ pc = "readlink" => Place = "link"
      /\ pc = "symlink" => Place = "symlink"
      /\ pc' = "readlink" => Place' = "link"
      /\ pc' = "symlink" => Place' = "symlink"
      /\ pc' = "sigfpe" => Place' = "killed"
      /\ pc' = "done" => Place' = IF ret' = 0 /\ masked' = {} THEN "done" ELSE "failed"
  BY DEF Place, Copying
<1>e. pc \in Copying => dst.type = "REG"
  BY <1>c DEF IInv, Buffered
<1>f. UNCHANGED call => UNCHANGED Item
  BY DEF Item
<1>1. CASE MakeDirectory
  <2>1. /\ pc = "start" /\ pc' = "done" /\ masked' = {} /\ UNCHANGED <<call, src, torn>>
    BY <1>1 DEF MakeDirectory, Return, IInv, Control
  <2>2. Copy!MakeDirectory \/ Copy!TransferFails
    BY <1>1, <1>a, <1>c, <1>d, <1>f, <2>1
    DEF MakeDirectory, Return, Copying, Item, Copy!MakeDirectory, Copy!TransferFails
  <2>3. QED
    BY <2>2 DEF Copy!Next
<1>2. CASE UnlinkOld
  <2>1. Copy!UnlinkOld \/ Copy!TransferFails
    BY <1>2, <1>a, <1>c, <1>d, <1>f
    DEF UnlinkOld, Return, Copying, Item, Copy!UnlinkOld, Copy!TransferFails
  <2>2. QED
    BY <2>1 DEF Copy!Next
<1>3. CASE ReadLink
  <2>1. Copy!ReadLink
    BY <1>3, <1>c, <1>d, <1>f DEF ReadLink, Return, Copying, Copy!ReadLink
  <2>2. QED
    BY <2>1 DEF Copy!Next
<1>4. CASE MakeLink
  <2>1. masked' = {} /\ (~torn => src = Link(buf)) /\ Link(buf).type = "LNK"
    BY <1>4 DEF MakeLink, IInv, Control, Copied, Link
  <2>2. Copy!MakeLink
    BY <1>4, <1>a, <1>c, <1>d, <1>f, <2>1 DEF MakeLink, Return, Copying, Copy!MakeLink
  <2>3. QED
    BY <2>2 DEF Copy!Next
<1>5. CASE OpenDestination
  <2>1. Copy!OpenFile \/ Copy!TransferFails
    BY <1>5, <1>a, <1>c, <1>d, <1>f
    DEF OpenDestination, Return, Copying, Item, Copy!OpenFile, Copy!TransferFails
  <2>2. QED
    BY <2>1 DEF Copy!Next
<1>6. CASE FdopenFails \/ DivideByZero
  <2>1. Copy!CopyFails
    BY <1>6, <1>c, <1>d, <1>e, <1>f
    DEF FdopenFails, DivideByZero, Return, Copying, Copy!CopyFails
  <2>2. QED
    BY <2>1 DEF Copy!Next
<1>7. CASE OpenSource \/ ReadSome \/ ReadEof \/ ReadError \/ WriteSome \/ WriteFails
  <2>1. pc \in Copying /\ pc' \in Copying /\ UNCHANGED <<call, src, torn>>
    BY <1>7
    DEF OpenSource, ReadSome, ReadEof, ReadError, WriteSome, WriteFails, Copying
  <2>2. QED
    BY <1>c, <1>f, <2>1 DEF Copy!vars
<1>8. CASE Close
  <2>1. /\ pc = "close" /\ pc' = "done" /\ pc \in Copying /\ pc' \notin Copying
        /\ UNCHANGED <<call, src, torn, ret>>
    BY <1>8 DEF Close, Copying
  <2>2. dst'.type = "REG"
    BY <1>8, <1>e, <2>1 DEF Close, Regular
  <2>3. CASE ret = 0 /\ masked' = {}
    <3>1. UNCHANGED <<dst, masked>>
      BY <1>8, <2>3 DEF Close
    <3>2. ~torn => dst' = src
      BY <2>1, <2>3, <3>1 DEF IInv, Copied
    <3>3. Copy!CopyEnds
      BY <1>c, <1>d, <1>f, <2>1, <2>2, <2>3, <3>2 DEF Copy!CopyEnds
    <3>4. QED
      BY <3>3 DEF Copy!Next
  <2>4. CASE ~(ret = 0 /\ masked' = {})
    <3>1. Copy!CopyFails
      BY <1>c, <1>d, <1>f, <2>1, <2>2, <2>4 DEF Copy!CopyFails
    <3>2. QED
      BY <3>1 DEF Copy!Next
  <2>5. QED
    BY <2>3, <2>4
<1>9. CASE SourceChanged \/ DestinationChanged
  <2>1. /\ pc \in {"start", "readlink", "symlink"} \cup Copying
        /\ UNCHANGED <<call, pc, ret, masked>>
    BY <1>9 DEF SourceChanged, DestinationChanged, IInv, TypeOK, Ended, Copying
  <2>2. UNCHANGED <<Place, Item>> /\ Place \notin Copy!Ended
    BY <1>c, <1>d, <1>f, <2>1 DEF Place, Copy!Ended
  <2>3. CASE SourceChanged
    <3>1. UNCHANGED Settled
      BY <2>1, <2>3 DEF SourceChanged, Settled
    <3>2. Place \in {"symlink", "copy"} <=> pc \in {"symlink"} \cup Copying
      BY <1>c, <1>d, <2>1
    <3>3. Copy!SourceChanges
      BY <2>2, <2>3, <3>1, <3>2 DEF SourceChanged, Copy!SourceChanges
    <3>4. QED
      BY <3>3 DEF Copy!Next
  <2>4. CASE DestinationChanged
    <3>1. pc \notin Copying
      BY <1>c, <2>4 DEF DestinationChanged
    <3>2. Place # "copy"
      BY <1>d, <2>1, <3>1
    <3>3. Copy!DestinationChanges
      BY <2>2, <2>4, <3>2 DEF DestinationChanged, Copy!DestinationChanges
    <3>4. QED
      BY <3>3 DEF Copy!Next
  <2>5. QED
    BY <1>9, <2>3, <2>4
<1>10. CASE UNCHANGED vars
  BY <1>10 DEF vars, Copy!vars, Item, Settled, Place
<1>11. QED
  BY <1>1, <1>2, <1>3, <1>4, <1>5, <1>6, <1>7, <1>8, <1>9, <1>10
  DEF Next, Step, Returned

\* The call starts as the abstract transfer does.
LEMMA CopyInit == Init => Copy!Init
<1> SUFFICES ASSUME Init PROVE Copy!Init
  OBVIOUS
<1>1. Settled = dst /\ Place = "item"
  BY DEF Init, Settled, Place, Copying
<1>2. Item = [type |-> src.type, exist |-> dst # NoFile]
  BY DEF Init, Item
<1>3. dst # NoFile => dst.type = src.type
  BY DEF Init
<1>4. Copy!NoFile = NoFile
  BY DEF Copy!NoFile, NoFile
<1>5. QED
  BY <1>1, <1>2, <1>3, <1>4 DEF Init, Copy!Init

(***************************************************************************)
(* Whatever fails and whoever interferes, a call does to the two files     *)
(* what module Sync takes a transfer to do, for files of any length and    *)
(* buffers of any size.                                                    *)
(***************************************************************************)
THEOREM ImplementsCopy == Spec => Copy!Steps
  BY CopyInit, CopyStep, Invariance, PTL DEF Spec, Copy!Steps
=============================================================================
