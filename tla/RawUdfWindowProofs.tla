------------------------- MODULE RawUdfWindowProofs -------------------------
(***************************************************************************)
(* The two windows of the raw-UDF reader cannot be seen in what it reads:  *)
(* for every disc, read-ahead, unit size and mixture of reads, and for     *)
(* prefetches that come late, twice or fail.                               *)
(***************************************************************************)
EXTENDS RawUdfWindow, TLAPS

\* A prefetch that waits was clipped at the end of its file.
ThreadsClipped == \A p \in threads : p[2] + p[3] <= FileSize[p[1]]

IInv == TypeOK /\ WindowsSound /\ ThreadsClipped /\ ReadsTransparent

-----------------------------------------------------------------------------
(* Bytes of a file *)

\* A file has a size.
LEMMA SizeType == \A rel \in Rels : FileSize[rel] \in Nat
BY SizesAssumption

\* A piece of a file is a sequence of that many bytes.
LEMMA ContentType ==
    ASSUME NEW rel \in Rels, NEW off \in Nat, NEW n \in Nat
    PROVE  Content(rel, off, n) \in Seq(Byte) /\ Len(Content(rel, off, n)) = n
BY DEF Content, Byte

\* Nothing is nothing, even where the end lies before the start.
LEMMA ContentEmpty ==
    ASSUME NEW rel, NEW off, NEW n \in Int, n <= 0
    PROVE  Content(rel, off, n) = <<>>
<1>1. 1..n = {}
  OBVIOUS
<1>2. QED
  BY <1>1 DEF Content

\* A part of what lies from off on is what lies from the part's start on.
LEMMA ContentPart ==
    ASSUME NEW rel \in Rels, NEW off \in Nat, NEW n \in Nat,
           NEW from \in 1..n, NEW to \in from..n
    PROVE  SubSeq(Content(rel, off, n), from, to) = Content(rel, off + from - 1, to - from + 1)
<1> DEFINE whole == Content(rel, off, n)
           part  == Content(rel, off + from - 1, to - from + 1)
<1>1. whole \in Seq(Byte) /\ Len(whole) = n
  BY ContentType
<1>2. part \in Seq(Byte) /\ Len(part) = to - from + 1
  <2>1. off + from - 1 \in Nat /\ to - from + 1 \in Nat
    OBVIOUS
  <2>2. QED
    BY <2>1, ContentType
<1>3. SubSeq(whole, from, to) = [i \in 1..(to - from + 1) |-> whole[i + from - 1]]
  BY <1>1
<1>4. \A i \in 1..(to - from + 1) : whole[i + from - 1] = part[i]
  BY DEF Content
<1>5. QED
  BY <1>2, <1>3, <1>4 DEF Content

\* What the drive gives for a range that begins in the file.
LEMMA DriveReads ==
    ASSUME NEW rel \in Rels, NEW off \in Nat, NEW n \in Nat, off < FileSize[rel]
    PROVE  LET len == SmallerOf(off + n, FileSize[rel]) - off
               buf == ReadExtents(rel, off, n) IN
           /\ len \in Nat
           /\ buf = Content(rel, off, len)
           /\ buf \in Seq(Byte) /\ Len(buf) = len
<1> DEFINE len == SmallerOf(off + n, FileSize[rel]) - off
<1>1. len \in Nat
  BY SizeType DEF SmallerOf
<1>2. QED
  BY <1>1, ContentType DEF ReadExtents

\* A buffer that came off the drive makes a sound window.
LEMMA NewWindow ==
    ASSUME NEW rel \in Rels, NEW off \in Nat, NEW n \in Nat, off < FileSize[rel]
    PROVE  LET w == [rel |-> rel, off |-> off, buf |-> ReadExtents(rel, off, n)] IN
           w \in Windows /\ Holds(w)
<1> DEFINE len == SmallerOf(off + n, FileSize[rel]) - off
           buf == ReadExtents(rel, off, n)
           w   == [rel |-> rel, off |-> off, buf |-> buf]
<1>1. len \in Nat /\ buf = Content(rel, off, len) /\ buf \in Seq(Byte) /\ Len(buf) = len
  BY DriveReads
<1>2. off + len <= FileSize[rel]
  BY SizeType DEF SmallerOf
<1>3. w.rel = rel /\ w.off = off /\ w.buf = buf
  OBVIOUS
<1> HIDE DEF len, buf
<1>4. w \in Windows
  BY <1>1 DEF Windows
<1>5. QED
  BY <1>1, <1>2, <1>3, <1>4 DEF Holds, EndOf, buf

\* What a read of off, n has to answer.
Wanted(rel, off, n) == Content(rel, off, SmallerOf(off + n, FileSize[rel]) - off)

\* A range that lies in a sound window is read out of it.
LEMMA SliceOfWindow ==
    ASSUME NEW w \in Windows, Holds(w), w # NoWindow,
           NEW rel \in Rels, NEW off \in Nat, NEW n \in Nat \ {0}, off < FileSize[rel],
           Covers(w, rel, off, SmallerOf(off + n, FileSize[rel]))
    PROVE  Slice(w, off, SmallerOf(off + n, FileSize[rel])) = Wanted(rel, off, n)
<1> DEFINE end == SmallerOf(off + n, FileSize[rel])
<1>1. end \in Nat /\ off < end
  BY SizeType DEF SmallerOf
<1>2. w.rel = rel /\ w.off \in Nat /\ w.off <= off /\ Len(w.buf) \in Nat /\ end <= w.off + Len(w.buf)
  BY DEF Covers, EndOf, Windows
<1>3. w.buf = Content(rel, w.off, Len(w.buf))
  BY <1>2 DEF Holds
<1> HIDE DEF end
<1>4. off - w.off + 1 \in 1..Len(w.buf) /\ end - w.off \in (off - w.off + 1)..Len(w.buf)
  BY <1>1, <1>2
<1>5. SubSeq(Content(rel, w.off, Len(w.buf)), off - w.off + 1, end - w.off)
        = Content(rel, w.off + (off - w.off + 1) - 1, (end - w.off) - (off - w.off + 1) + 1)
  <2>1. rel \in Rels /\ w.off \in Nat /\ Len(w.buf) \in Nat
    BY <1>2
  <2>2. QED
    BY ONLY <2>1, <1>4, ContentPart
<1>6. w.off + (off - w.off + 1) - 1 = off /\ (end - w.off) - (off - w.off + 1) + 1 = end - off
  BY <1>1, <1>2
<1>7. QED
  BY <1>3, <1>5, <1>6 DEF Slice, Wanted, end

-----------------------------------------------------------------------------
(* The steps *)

Answers == [rel : Rels, off : Nat, count : Nat, bytes : Seq(Byte),
            waited : BOOLEAN, foretold : BOOLEAN]

\* What is answered to a read is what the drive has.
LEMMA AnswerWanted ==
    ASSUME NEW rel \in Rels, NEW off \in Nat, NEW n \in Nat, NEW waited \in BOOLEAN,
           NEW bytes \in Seq(Byte), bytes = Wanted(rel, off, n),
           Answer(rel, off, n, bytes, waited)
    PROVE  last' \in Answers /\ ReadsTransparent' /\ last'.bytes = bytes
<1>1. Foretold(rel, off, n) \in BOOLEAN
  BY DEF Foretold
<1>2. last' = [rel |-> rel, off |-> off, count |-> n, bytes |-> bytes, waited |-> waited,
               foretold |-> Foretold(rel, off, n)]
  BY DEF Answer
<1>3. last' \in Answers
  BY <1>1, <1>2 DEF Answers
<1>4. last'.bytes = bytes /\ last'.rel = rel /\ last'.off = off /\ last'.count = n
  BY <1>2
<1>5. ReadsTransparent'
  BY <1>4 DEF ReadsTransparent, Wanted
<1>6. QED
  BY <1>3, <1>4, <1>5

\* A read leaves sound windows behind and answers what the drive has.
LEMMA ReadStep ==
    ASSUME TypeOK, WindowsSound, NEW rel \in Rels, NEW off \in Nat, NEW n \in Nat,
           ReadAt(rel, off, n)
    PROVE  /\ ahead' \in Windows \cup {NoWindow} /\ next' \in Windows \cup {NoWindow}
           /\ WindowsSound'
           /\ last' \in Answers /\ ReadsTransparent'
<1> DEFINE end == SmallerOf(off + n, FileSize[rel])
<1>0. FileSize[rel] \in Nat /\ end \in Nat
  BY SizeType DEF SmallerOf
<1>1. CASE off >= FileSize[rel] \/ n = 0
  <2>0. ~(off < FileSize[rel] /\ n # 0)
    BY <1>0, <1>1
  <2>1. UNCHANGED <<ahead, next>>
    BY <2>0, Zenon DEF ReadAt
  <2>2. Wanted(rel, off, n) = <<>>
    BY <1>0, <1>1, ContentEmpty DEF Wanted, SmallerOf
  <2>3. Answer(rel, off, n, <<>>, FALSE)
    BY <2>0, Zenon DEF ReadAt
  <2>4. <<>> \in Seq(Byte)
    OBVIOUS
  <2>5. QED
    BY <2>1, <2>2, <2>3, <2>4, AnswerWanted DEF TypeOK, WindowsSound
<1>2. CASE off < FileSize[rel] /\ n # 0
  <2>0. n \in Nat \ {0} /\ off < end /\ end <= FileSize[rel] /\ end - off \in Nat
    BY <1>0, <1>2 DEF SmallerOf
  <2>1. Wanted(rel, off, n) \in Seq(Byte)
    BY <2>0, ContentType DEF Wanted
  <2>2. CASE ReadFromAhead(rel, off, n)
    <3>1. ahead \in Windows /\ ahead # NoWindow /\ Holds(ahead) /\ Covers(ahead, rel, off, end)
      BY <2>2 DEF ReadFromAhead, Covers, TypeOK, WindowsSound
    <3>2. Slice(ahead, off, end) = Wanted(rel, off, n)
      BY <1>2, <2>0, <3>1, SliceOfWindow
    <3>3. Answer(rel, off, n, Slice(ahead, off, end), FALSE) /\ UNCHANGED <<ahead, next>>
      BY <2>2 DEF ReadFromAhead
    <3>4. last' \in Answers /\ ReadsTransparent'
      BY <2>1, <3>2, <3>3, AnswerWanted
    <3>5. QED
      BY <3>3, <3>4 DEF TypeOK, WindowsSound
  <2>3. CASE ReadFromNext(rel, off, n)
    <3>1. next \in Windows /\ next # NoWindow /\ Holds(next) /\ Covers(next, rel, off, end)
      BY <2>3 DEF ReadFromNext, Covers, TypeOK, WindowsSound
    <3>2. Slice(next, off, end) = Wanted(rel, off, n)
      BY <1>2, <2>0, <3>1, SliceOfWindow
    <3>3. Answer(rel, off, n, Slice(next, off, end), FALSE) /\ ahead' = next /\ next' = NoWindow
      BY <2>3 DEF ReadFromNext
    <3>4. last' \in Answers /\ ReadsTransparent'
      BY <2>1, <3>2, <3>3, AnswerWanted
    <3>5. WindowsSound'
      BY <3>1, <3>3 DEF WindowsSound, Holds, EndOf
    <3>6. QED
      BY <3>1, <3>3, <3>4, <3>5
  <2>4. CASE ReadFromDrive(rel, off, n)
    <3> DEFINE pull == Pull(rel, off, end)
               len  == SmallerOf(off + pull, FileSize[rel]) - off
               buf  == ReadExtents(rel, off, pull)
    <3>1. pull \in Nat /\ end - off <= pull /\ off + pull <= FileSize[rel]
      BY <1>0, <2>0, SizesAssumption DEF Pull, SmallerOf, GreaterOf
    <3>2. len \in Nat /\ end - off <= len
      BY <1>0, <2>0, <3>1 DEF SmallerOf
    <3>3. buf = Content(rel, off, len) /\ buf \in Seq(Byte) /\ Len(buf) = len
      BY <1>2, <3>1, DriveReads
    <3>4. ahead' = [rel |-> rel, off |-> off, buf |-> buf] /\ UNCHANGED next
      BY <2>4 DEF ReadFromDrive
    <3>5. ahead' \in Windows /\ Holds(ahead')
      BY <1>2, <3>1, <3>4, NewWindow
    <3>6. Answer(rel, off, n, SubSeq(buf, 1, SmallerOf(end - off, Len(buf))), TRUE)
      BY <2>4 DEF ReadFromDrive
    <3> HIDE DEF end, pull, len, buf
    <3>7. SmallerOf(end - off, Len(buf)) = end - off
      BY <1>0, <2>0, <3>2, <3>3 DEF SmallerOf
    <3>8. 1 \in 1..len /\ end - off \in 1..len
      BY <1>0, <2>0, <3>2
    <3>9. SubSeq(Content(rel, off, len), 1, end - off) = Content(rel, off + 1 - 1, (end - off) - 1 + 1)
      BY <3>2, <3>8, ContentPart
    <3>10. off + 1 - 1 = off /\ (end - off) - 1 + 1 = end - off
      BY <1>0
    <3>11. SubSeq(buf, 1, end - off) = Wanted(rel, off, n)
      BY <3>3, <3>9, <3>10 DEF Wanted, end
    <3>12. last' \in Answers /\ ReadsTransparent'
      BY <2>1, <3>6, <3>7, <3>11, AnswerWanted
    <3>13. QED
      BY <3>4, <3>5, <3>12 DEF TypeOK, WindowsSound
  <2>5. CASE ReadEmbedded(rel, off, n)
    <3>1. Answer(rel, off, n, ReadExtents(rel, off, n), FALSE) /\ UNCHANGED <<ahead, next>>
      BY <2>5 DEF ReadEmbedded
    <3>2. ReadExtents(rel, off, n) = Wanted(rel, off, n)
      BY DEF ReadExtents, Wanted
    <3>3. last' \in Answers /\ ReadsTransparent'
      BY <2>1, <3>1, <3>2, AnswerWanted
    <3>4. QED
      BY <3>1, <3>3 DEF TypeOK, WindowsSound
  <2>6. ~(off >= FileSize[rel] \/ n = 0)
    BY <1>0, <1>2
  <2>7. QED
    BY <2>2, <2>3, <2>4, <2>5, <2>6, Zenon DEF ReadAt
<1>3. QED
  BY <1>0, <1>1, <1>2

\* The initial states.
LEMMA InitIInv == Init => IInv
BY DEF Init, IInv, TypeOK, WindowsSound, Holds, ThreadsClipped, ReadsTransparent

\* The invariant over a read through the windows.
LEMMA WindowReadStep ==
    ASSUME IInv, NEW rel \in Streams, NEW first \in Nat, NEW units \in Nat,
           WindowRead(rel, first, units)
    PROVE  IInv'
<1> DEFINE off   == first * UnitSize
           n     == units * UnitSize
           after == off + Len(last'.bytes)
           count == SmallerOf(READAHEAD, FileSize[rel] - after)
<1>1. rel \in Rels /\ off \in Nat /\ n \in Nat /\ FileSize[rel] \in Nat /\ READAHEAD \in Nat
  BY SizesAssumption
<1>2. ReadAt(rel, off, n) /\ fetched' = NoRead
  BY DEF WindowRead
<1>3. threads' = IF after < FileSize[rel]
                 THEN threads \cup {<<rel, after, count>>} ELSE threads
  BY DEF WindowRead
<1> HIDE DEF off, n
<1>4. /\ ahead' \in Windows \cup {NoWindow} /\ next' \in Windows \cup {NoWindow}
      /\ WindowsSound' /\ last' \in Answers /\ ReadsTransparent'
  BY <1>1, <1>2, ReadStep DEF IInv
<1>5. after \in Nat
  BY <1>1, <1>4 DEF Answers
<1> HIDE DEF after
<1>6. after < FileSize[rel] => count \in Nat /\ after + count <= FileSize[rel]
  BY <1>1, <1>5 DEF SmallerOf
<1> HIDE DEF count
<1>7. threads' \subseteq Rels \X Nat \X Nat
  BY <1>1, <1>3, <1>5, <1>6 DEF IInv, TypeOK
<1>8. ThreadsClipped'
  BY <1>3, <1>6 DEF IInv, ThreadsClipped
<1>9. QED
  BY <1>2, <1>4, <1>7, <1>8 DEF IInv, TypeOK, Answers

\* The invariant when a prefetch comes or fails.
LEMMA PrefetchStep ==
    ASSUME IInv, NEW p \in threads,
           Prefetch(p[1], p[2], p[3]) \/ PrefetchFails(p[1], p[2], p[3])
    PROVE  IInv'
<1>1. /\ p \in Rels \X Nat \X Nat /\ p[1] \in Rels /\ p[2] \in Nat /\ p[3] \in Nat
      /\ p[2] + p[3] <= FileSize[p[1]] /\ FileSize[p[1]] \in Nat
  BY SizeType DEF IInv, TypeOK, ThreadsClipped
<1>2. threads' \subseteq threads /\ UNCHANGED <<ahead, last>>
  BY DEF Prefetch, PrefetchFails
<1>3. fetched' \in (Rels \X Nat \X Nat) \cup {NoRead}
  BY <1>1 DEF Prefetch, PrefetchFails, IInv, TypeOK
<1>4. next' \in Windows \cup {NoWindow} /\ (Holds(next))'
  <2>1. CASE UNCHANGED next
    BY <2>1 DEF IInv, TypeOK, WindowsSound, Holds, EndOf
  <2>2. CASE ~UNCHANGED next
    <3>1. /\ p[3] # 0
          /\ next' = [rel |-> p[1], off |-> p[2], buf |-> ReadExtents(p[1], p[2], p[3])]
      BY <2>2 DEF Prefetch, PrefetchFails
    <3>2. p[2] < FileSize[p[1]]
      BY <1>1, <3>1
    <3>3. QED
      BY <1>1, <3>1, <3>2, NewWindow
  <2>3. QED
    BY <2>1, <2>2
<1>5. TypeOK'
  BY <1>2, <1>3, <1>4 DEF IInv, TypeOK
<1>6. WindowsSound'
  BY <1>2, <1>4 DEF IInv, WindowsSound, Holds, EndOf
<1>7. ThreadsClipped' /\ ReadsTransparent'
  BY <1>2 DEF IInv, ThreadsClipped, ReadsTransparent
<1>8. QED
  BY <1>5, <1>6, <1>7 DEF IInv

\* Every step keeps the invariant.
LEMMA Inductive == IInv /\ [Next]_vars => IInv'
<1> SUFFICES ASSUME IInv, [Next]_vars PROVE IInv'
  OBVIOUS
<1>1. ASSUME NEW rel \in Streams, NEW first \in 0..(FileSize[rel] \div UnitSize),
             NEW units \in {SeqUnits, RandUnits}, WindowRead(rel, first, units)
      PROVE  IInv'
  <2>1. first \in Nat
    OBVIOUS
  <2>2. units \in Nat
    BY SizesAssumption DEF SeqUnits
  <2>3. QED
    BY <1>1, <2>1, <2>2, WindowReadStep
<1>2. ASSUME NEW rel \in Rels \ Streams, NEW r \in Passthrough, PassthroughRead(rel, r[1], r[2])
      PROVE  IInv'
  <2>1. r[1] \in Nat /\ r[2] \in Nat
    BY SizesAssumption
  <2>2. ReadAt(rel, r[1], r[2]) /\ fetched' = NoRead /\ UNCHANGED threads
    BY <1>2 DEF PassthroughRead
  <2>3. QED
    BY <2>1, <2>2, ReadStep DEF IInv, TypeOK, ThreadsClipped, Answers
<1>3. ASSUME NEW p \in threads, Prefetch(p[1], p[2], p[3]) \/ PrefetchFails(p[1], p[2], p[3])
      PROVE  IInv'
  BY <1>3, PrefetchStep
<1>4. CASE UNCHANGED vars
  BY <1>4 DEF vars, IInv, TypeOK, WindowsSound, Holds, EndOf, ThreadsClipped, ReadsTransparent
<1>5. QED
  BY <1>1, <1>2, <1>3, <1>4 DEF Next

\* The invariant always holds.
LEMMA Invariance == Spec => []IInv
BY InitIInv, Inductive, PTL DEF Spec

\* The windows, the waiting prefetches and the answers keep to their types.
THEOREM TypeCorrect == Spec => []TypeOK
<1>1. IInv => TypeOK
  BY DEF IInv
<1>2. QED
  BY <1>1, Invariance, PTL

\* Both windows always hold the bytes of their file at their offset
\* (RawUdf::read_at, RawUdf::prefetch).
THEOREM WindowsCorrect == Spec => []WindowsSound
<1>1. IInv => WindowsSound
  BY DEF IInv
<1>2. QED
  BY <1>1, Invariance, PTL

\* Every read is answered as the drive would have answered it.
THEOREM ReadsCorrect == Spec => []ReadsTransparent
<1>1. IInv => ReadsTransparent
  BY DEF IInv
<1>2. QED
  BY <1>1, Invariance, PTL
=============================================================================
