---------------------------- MODULE RawUdfWindow ----------------------------
(***************************************************************************)
(* The two read-ahead windows of the raw-UDF reader (src/src/rawudf.rs,    *)
(* RawUdf::read_at and RawUdf::prefetch) under the calls DecryptEngine     *)
(* makes of them: windows of whole units for encrypted streams, each       *)
(* followed by a prefetch thread for what comes next, and passthrough      *)
(* reads of any range.  One mutex covers both operations, so each is one   *)
(* step; what is left to chance is when a prefetch thread gets the mutex.  *)
(* A byte of a file is the pair of the file and its offset.                *)
(***************************************************************************)
EXTENDS Integers, Sequences, FiniteSets

CONSTANTS
    Rels,           \* files of the disc
    Streams,        \* those the engine decrypts
    Embedded,       \* those whose data sits in the ICB itself
    FileSize,       \* size of each file
    READAHEAD,      \* = PREFETCH_WINDOW
    UnitSize,       \* UNIT_SIZE of the engine
    RandUnits,      \* RANDOM_WINDOW_UNITS
    Passthrough,    \* <<offset, count>> of the passthrough reads to try
    NoWindow, NoRead

ASSUME SizesAssumption ==
    /\ FileSize \in [Rels -> Nat]
    /\ READAHEAD \in Nat \ {0}
    /\ UnitSize \in Nat \ {0} /\ UnitSize <= READAHEAD
    /\ RandUnits \in Nat \ {0}
    /\ Streams \subseteq Rels /\ Embedded \subseteq Rels
    /\ Passthrough \subseteq Nat \X Nat

\* SEQUENTIAL_WINDOW_UNITS
SeqUnits == READAHEAD \div UnitSize

VARIABLES
    ahead,      \* the window last read from
    next,       \* the prefetched one
    threads,    \* prefetch threads that wait for the mutex
    fetched,    \* the prefetch that ran last since the last read_at
    last        \* the last read_at and its answer

vars == <<ahead, next, threads, fetched, last>>

SmallerOf(a, b) == IF a < b THEN a ELSE b
GreaterOf(a, b) == IF a > b THEN a ELSE b

Init ==
    /\ ahead = NoWindow
    /\ next = NoWindow
    /\ threads = {}
    /\ fetched = NoRead
    /\ last = NoRead

-----------------------------------------------------------------------------

\* n bytes of a file from off on, as they are on the disc.
Content(rel, off, n) == [i \in 1..n |-> <<rel, off + i - 1>>]

\* Mutant: the bytes that come back start one too early.
ReadExtentsEarly(rel, off, n) ==
    Content(rel, off - 1, SmallerOf(off + n, FileSize[rel]) - off)

\* read_extents: a range is clipped at the end of the file.
ReadExtents(rel, off, n) ==
    Content(rel, off, SmallerOf(off + n, FileSize[rel]) - off)

EndOf(w) == w.off + Len(w.buf)

\* Mutant: the windows of one file are taken for those of another.
CoversAnyFile(w, rel, off, end) ==
    w # NoWindow /\ w.off <= off /\ end <= EndOf(w)

\* slice_ahead: the whole range lies in the window.
Covers(w, rel, off, end) ==
    w # NoWindow /\ w.rel = rel /\ w.off <= off /\ end <= EndOf(w)

Slice(w, off, end) == SubSeq(w.buf, off - w.off + 1, end - w.off)

\* The prefetch that ran last, and since the last read, was for this range.
Foretold(rel, off, n) ==
    /\ fetched # NoRead
    /\ fetched[1] = rel /\ fetched[2] = off
    /\ SmallerOf(n, FileSize[rel] - off) <= fetched[3]

Answer(rel, off, n, bytes, waited) ==
    last' = [rel |-> rel, off |-> off, count |-> n, bytes |-> bytes, waited |-> waited,
             foretold |-> Foretold(rel, off, n)]

\* How much a read of a range pulls from the drive.
Pull(rel, off, end) ==
    SmallerOf(GreaterOf(end - off, READAHEAD), FileSize[rel] - off)

ReadFromAhead(rel, off, n) ==
    LET end == SmallerOf(off + n, FileSize[rel]) IN
    /\ rel \notin Embedded
    /\ Covers(ahead, rel, off, end)
    /\ Answer(rel, off, n, Slice(ahead, off, end), FALSE)
    /\ UNCHANGED <<ahead, next>>

\* Mutant: the promoted window is taken to start where the read did.
ReadFromNextMoved(rel, off, n) ==
    LET end == SmallerOf(off + n, FileSize[rel]) IN
    /\ rel \notin Embedded
    /\ ~Covers(ahead, rel, off, end)
    /\ Covers(next, rel, off, end)
    /\ Answer(rel, off, n, Slice(next, off, end), FALSE)
    /\ ahead' = [next EXCEPT !.off = off]
    /\ next' = NoWindow

\* The prefetched window becomes the current one.
ReadFromNext(rel, off, n) ==
    LET end == SmallerOf(off + n, FileSize[rel]) IN
    /\ rel \notin Embedded
    /\ ~Covers(ahead, rel, off, end)
    /\ Covers(next, rel, off, end)
    /\ Answer(rel, off, n, Slice(next, off, end), FALSE)
    /\ ahead' = next
    /\ next' = NoWindow

ReadFromDrive(rel, off, n) ==
    LET end == SmallerOf(off + n, FileSize[rel])
        buf == ReadExtents(rel, off, Pull(rel, off, end)) IN
    /\ rel \notin Embedded
    /\ ~Covers(ahead, rel, off, end)
    /\ ~Covers(next, rel, off, end)
    /\ Answer(rel, off, n, SubSeq(buf, 1, SmallerOf(end - off, Len(buf))), TRUE)
    /\ ahead' = [rel |-> rel, off |-> off, buf |-> buf]
    /\ UNCHANGED next

\* The data of a small file comes out of its ICB.
ReadEmbedded(rel, off, n) ==
    /\ rel \in Embedded
    /\ Answer(rel, off, n, ReadExtents(rel, off, n), FALSE)
    /\ UNCHANGED <<ahead, next>>

\* read_at.  Nothing to read is answered before anything is looked at.
ReadAt(rel, off, n) ==
    \/ /\ off >= FileSize[rel] \/ n = 0
       /\ Answer(rel, off, n, <<>>, FALSE)
       /\ UNCHANGED <<ahead, next>>
    \/ /\ off < FileSize[rel] /\ n # 0
       /\ \/ ReadFromAhead(rel, off, n)
          \/ ReadFromNext(rel, off, n)
          \/ ReadFromDrive(rel, off, n)
          \/ ReadEmbedded(rel, off, n)

\* A window of the engine: whole units from a unit boundary on, clipped at
\* the last unit, and a prefetch thread for the bytes behind what came back.
WindowRead(rel, unit, units) ==
    LET off == unit * UnitSize
        n   == units * UnitSize IN
    /\ off < FileSize[rel]
    /\ ReadAt(rel, off, n)
    /\ LET after == off + Len(last'.bytes)
           count == SmallerOf(READAHEAD, FileSize[rel] - after)
       IN  threads' = IF after < FileSize[rel]
                      THEN threads \cup {<<rel, after, count>>} ELSE threads
    /\ fetched' = NoRead

PassthroughRead(rel, off, n) ==
    /\ ReadAt(rel, off, n)
    /\ fetched' = NoRead
    /\ UNCHANGED threads

\* prefetch(): skipped when its first byte is in the current window or the
\* next window already starts there.
Skipped(rel, off) ==
    \/ ahead # NoWindow /\ ahead.rel = rel /\ ahead.off <= off /\ off < EndOf(ahead)
    \/ next # NoWindow /\ next.rel = rel /\ next.off = off

Prefetch(rel, off, n) ==
    /\ <<rel, off, n>> \in threads
    /\ threads' = threads \ {<<rel, off, n>>}
    /\ fetched' = <<rel, off, n>>
    /\ IF Skipped(rel, off) \/ n = 0
       THEN UNCHANGED next
       ELSE next' = [rel |-> rel, off |-> off, buf |-> ReadExtents(rel, off, n)]
    /\ UNCHANGED <<ahead, last>>

\* The drive fails: the thread is gone and both windows are as they were.
PrefetchFails(rel, off, n) ==
    /\ <<rel, off, n>> \in threads
    /\ ~Skipped(rel, off)
    /\ threads' = threads \ {<<rel, off, n>>}
    /\ UNCHANGED <<ahead, next, fetched, last>>

Next ==
    \/ \E rel \in Streams : \E unit \in 0..(FileSize[rel] \div UnitSize),
          units \in {SeqUnits, RandUnits} : WindowRead(rel, unit, units)
    \/ \E rel \in Rels \ Streams, r \in Passthrough : PassthroughRead(rel, r[1], r[2])
    \/ \E p \in threads : Prefetch(p[1], p[2], p[3]) \/ PrefetchFails(p[1], p[2], p[3])

Spec == Init /\ [][Next]_vars

-----------------------------------------------------------------------------
(* Properties *)

Byte    == Rels \X Nat
Windows == [rel : Rels, off : Nat, buf : Seq(Byte)]

\* The windows, the waiting threads and the last answer keep to their types.
TypeOK ==
    /\ ahead \in Windows \cup {NoWindow}
    /\ next \in Windows \cup {NoWindow}
    /\ threads \subseteq Rels \X Nat \X Nat
    /\ fetched \in (Rels \X Nat \X Nat) \cup {NoRead}
    /\ last \in [rel : Rels, off : Nat, count : Nat, bytes : Seq(Byte),
                 waited : BOOLEAN, foretold : BOOLEAN] \cup {NoRead}

Holds(w) == w # NoWindow =>
    /\ EndOf(w) <= FileSize[w.rel]
    /\ w.buf = Content(w.rel, w.off, Len(w.buf))

\* Both windows hold the bytes of their file at their offset, however late a
\* prefetch came and whichever window it was promoted from.
WindowsSound == Holds(ahead) /\ Holds(next)

\* read_at() answers what the drive would have answered: the windows cannot
\* be seen in the bytes, for streams and passthrough files in any mixture.
ReadsTransparent ==
    last # NoRead => last.bytes =
        Content(last.rel, last.off, SmallerOf(last.off + last.count, FileSize[last.rel]) - last.off)

\* "Fill the next-window slot so the following sequential read does not wait
\* on the drive": a read of a range that was prefetched just before finds it.
PrefetchPays == last # NoRead /\ last.foretold => ~last.waited
=============================================================================
