----------------------------- MODULE UdfExtents -----------------------------
(***************************************************************************)
(* Where the raw-UDF reader finds the bytes of a file (src/src/rawudf.rs): *)
(* partition maps become spaces, the allocation extents of a file entry    *)
(* are resolved to absolute bytes, and a read walks the extents, reading   *)
(* each through whole sectors in transfers of limited size.  A byte of the *)
(* device is its address.                                                  *)
(***************************************************************************)
EXTENDS Integers, Vectors

CONSTANTS
    SECTOR,         \* logical block and device sector
    MAX_XFER,       \* the longest pread
    DiscBytes,      \* length of the device
    Layouts,        \* the discs to try: pds, maps, fsdRef, ref and file
    None

ASSUME SizesAssumption ==
    /\ SECTOR \in Nat \ {0}
    /\ MAX_XFER \in Nat \ {0} /\ MAX_XFER % SECTOR = 0
    /\ DiscBytes \in Nat /\ DiscBytes % SECTOR = 0

\* An allocation descriptor, a partition descriptor, and a metadata file: its
\* extents are whole blocks.
Ad == [recorded : BOOLEAN, ref : Nat \cup {None}, block : Nat, length : Nat]
Pd == [number : Nat, start : Nat]
MetadataFile == {fe \in Seq(Ad) : \A i \in DOMAIN fe : fe[i].length % SECTOR = 0}

PartMap ==
    [kind : {"type1"}, pd : Nat] \cup [kind : {"other"}]
    \cup [kind : {"metadata"}, pd : Nat,
          main : MetadataFile \cup {None}, mirror : MetadataFile \cup {None}]

\* A disc is what the parsers give: there is a partition descriptor, and an
\* entry of the metadata partition that does not parse is None.
Disc ==
    [pds : Seq(Pd) \ {<<>>}, maps : Seq(PartMap), fsdRef : Nat,
     ref : Nat, size : Nat, file : Seq(Ad)]

ASSUME DiscsAssumption == Layouts \subseteq Disc

VARIABLES
    layout,     \* the disc
    spaces,     \* RawUdf.spaces, from partition reference 0 on
    extents,    \* FileMeta.extents: <<absolute byte, length>>
    read,       \* the read in progress: its range, and whether it is of a directory
    next, pos,  \* the extent the read has come to and its first byte in the file
    xfer,       \* the read_abs in progress
    out,        \* what the read has collected
    pc

vars == <<layout, spaces, extents, read, next, pos, xfer, out, pc>>

Smaller(a, b) == IF a < b THEN a ELSE b
Greater(a, b) == IF a > b THEN a ELSE b

\* The length of the first n extents of a file, <<_, length>> each.
LengthOf(exts, n) ==
    LET sum[k \in 0..Len(exts)] == IF k = 0 THEN 0 ELSE sum[k - 1] + exts[k][2]
    IN  sum[n]

Init ==
    /\ layout \in Layouts
    /\ spaces = <<>> /\ extents = <<>>
    /\ read = None
    /\ next = 1 /\ pos = 0 /\ xfer = None /\ out = <<>>
    /\ pc = "open"

-----------------------------------------------------------------------------
(* RawUdf::open and meta *)

PdStart(number) ==
    LET hits == {i \in DOMAIN layout.pds : layout.pds[i].number = number} IN
    IF hits = {} THEN None
    ELSE layout.pds[CHOOSE i \in hits : \A j \in hits : i <= j].start

Recorded(fe) == Kept(fe, {e \in Ad : e.recorded})

\* The metadata file, or its mirror where the first does not parse.
CopyOf(map) == IF map.main # None THEN map.main ELSE map.mirror

\* fe_physical_extents: what is not recorded takes no room.
MetadataSpace(map) ==
    LET fe == Recorded(CopyOf(map))
    IN  [i \in DOMAIN fe |-> <<PdStart(map.pd) + fe[i].block, fe[i].length>>]

\* No partition maps: the descriptor of that number, or the last one.
SingleSpace ==
    LET start == PdStart(layout.fsdRef)
        last  == layout.pds[Len(layout.pds)].start
    IN  [kind |-> "physical", start |-> IF start = None THEN last ELSE start]

SpaceOf(map) ==
    CASE map.kind = "type1"    -> [kind |-> "physical", start |-> PdStart(map.pd)]
      [] map.kind = "metadata" -> [kind |-> "metadata", extents |-> MetadataSpace(map)]
      [] OTHER -> None

MapFails(map) ==
    \/ map.kind # "other" /\ PdStart(map.pd) = None
    \/ /\ map.kind = "metadata"
       /\ \/ map.main = None /\ map.mirror = None
          \/ Recorded(CopyOf(map)) = <<>>

\* The file set must be in a partition that build_spaces understands; one
\* that is behind the last map is an index out of bounds.
Outcome ==
    IF layout.maps = <<>> THEN "meta"
    ELSE IF \E i \in DOMAIN layout.maps : MapFails(layout.maps[i]) THEN "failed"
    ELSE IF layout.fsdRef >= Len(layout.maps) THEN "panicked"
    ELSE IF layout.maps[layout.fsdRef + 1].kind = "other" THEN "failed" ELSE "meta"

\* build_spaces.
BuildSpaces ==
    /\ pc = "open"
    /\ pc' = Outcome
    /\ spaces' = IF Outcome # "meta" THEN spaces
                 ELSE IF layout.maps = <<>>
                 THEN [i \in 1..layout.fsdRef + 1 |->
                         IF i = layout.fsdRef + 1 THEN SingleSpace ELSE None]
                 ELSE [i \in DOMAIN layout.maps |-> SpaceOf(layout.maps[i])]
    /\ UNCHANGED <<layout, extents, read, next, pos, xfer, out>>

\* Mutant: the blocks are not counted from the extent they are in.
ResolveFromStart(ref, block) ==
    LET space == IF ref + 1 \in DOMAIN spaces THEN spaces[ref + 1] ELSE None IN
    IF space = None THEN None
    ELSE IF space.kind = "physical" THEN space.start + block
    ELSE LET off  == block * SECTOR
             hits == {i \in DOMAIN space.extents : off < LengthOf(space.extents, i)}
         IN  IF hits = {} THEN None
             ELSE LET i == CHOOSE i \in hits : \A j \in hits : i <= j
                  IN  space.extents[i][1] + off \div SECTOR

\* resolve: the absolute sector of a block, None for an error.
Resolve(ref, block) ==
    LET space == IF ref + 1 \in DOMAIN spaces THEN spaces[ref + 1] ELSE None IN
    IF space = None THEN None
    ELSE IF space.kind = "physical" THEN space.start + block
    ELSE LET off  == block * SECTOR
             hits == {i \in DOMAIN space.extents : off < LengthOf(space.extents, i)}
         IN  IF hits = {} THEN None
             ELSE LET i == CHOOSE i \in hits : \A j \in hits : i <= j
                  IN  space.extents[i][1] + (off - LengthOf(space.extents, i - 1)) \div SECTOR

\* The reference of a short allocation descriptor is the one of the ICB.
RefOf(e) == IF e.ref = None THEN layout.ref ELSE e.ref

\* extents_abs: unrecorded extents are left out, and an extent lies where its
\* first block does.
ExtentsAbs ==
    LET fe == Recorded(layout.file)
    IN  [i \in DOMAIN fe |-> <<Resolve(RefOf(fe[i]), fe[i].block), fe[i].length>>]

Meta ==
    /\ pc = "meta"
    /\ IF \E i \in DOMAIN ExtentsAbs : ExtentsAbs[i][1] = None
       THEN pc' = "failed" /\ UNCHANGED extents
       ELSE /\ extents' = [i \in DOMAIN ExtentsAbs |-> <<ExtentsAbs[i][1] * SECTOR, ExtentsAbs[i][2]>>]
            /\ pc' = "idle"
    /\ UNCHANGED <<layout, spaces, read, next, pos, xfer, out>>

-----------------------------------------------------------------------------
(* read_extents and read_file_bytes *)

Begin(r) ==
    /\ pc = "idle"
    /\ read' = r
    /\ next' = 1 /\ pos' = 0 /\ out' = <<>> /\ xfer' = None
    /\ pc' = "extent"
    /\ UNCHANGED <<layout, spaces, extents>>

\* Mutant: the range is not clipped at the end of the file.
ReadRangeUnclipped(off, count) ==
    /\ off < layout.size /\ count > 0
    /\ Begin([off |-> off, end |-> off + count, whole |-> FALSE])

\* read_at has clipped the range at the end of the file.
ReadRange(off, count) ==
    /\ off < layout.size /\ count > 0
    /\ Begin([off |-> off, end |-> Smaller(off + count, layout.size), whole |-> FALSE])

\* A directory is read extent by extent, and cut to its size.
ReadWhole == Begin([off |-> 0, end |-> layout.size, whole |-> TRUE])

ExtEnd == pos + extents[next][2]

Finished ==
    \/ next > Len(extents)
    \/ read.end <= (IF read.whole THEN Len(out) ELSE pos)

Reply ==
    /\ pc = "extent" /\ Finished
    /\ out' = SubSeq(out, 1, Smaller(Len(out), read.end - read.off))
    /\ pc' = "done"
    /\ UNCHANGED <<layout, spaces, extents, read, next, pos, xfer>>

SkipExtent ==
    /\ pc = "extent" /\ ~Finished
    /\ ~read.whole /\ read.off >= ExtEnd
    /\ pos' = ExtEnd /\ next' = next + 1
    /\ UNCHANGED <<layout, spaces, extents, read, xfer, out, pc>>

\* read_abs: the sectors that cover the range.
Cover(abs, count) ==
    LET start == (abs \div SECTOR) * SECTOR
        skip  == abs - start IN
    [start |-> start, skip |-> skip, count |-> count,
     total |-> ((skip + count + SECTOR - 1) \div SECTOR) * SECTOR, done |-> 0]

\* The part of the extent that is wanted.
StartIn == IF read.whole THEN 0 ELSE Greater(read.off, pos) - pos
Take    == IF read.whole THEN extents[next][2] ELSE Smaller(read.end, ExtEnd) - pos - StartIn

OpenExtent ==
    /\ pc = "extent" /\ ~Finished
    /\ read.whole \/ read.off < ExtEnd
    /\ xfer' = Cover(extents[next][1] + StartIn, Take)
    /\ pc' = "pread"
    /\ UNCHANGED <<layout, spaces, extents, read, next, pos, out>>

Chunk == Smaller(xfer.total - xfer.done, MAX_XFER)

\* Mutant: the end of the device is tried again.
PreadRetries ==
    /\ pc = "pread" /\ xfer.done < xfer.total
    /\ \E n \in 0..Smaller(Chunk, Greater(DiscBytes - (xfer.start + xfer.done), 0)) :
           n % SECTOR = 0 /\ xfer' = [xfer EXCEPT !.done = @ + n]
    /\ UNCHANGED <<layout, spaces, extents, read, next, pos, out, pc>>

\* One pread: the device gives whole sectors, fewer than were asked for if it
\* likes, and none at its end.
Pread ==
    /\ pc = "pread" /\ xfer.done < xfer.total
    /\ LET left == Greater(DiscBytes - (xfer.start + xfer.done), 0)
           most == Smaller(Chunk, left) IN
       IF most = 0
       THEN xfer' = [xfer EXCEPT !.total = xfer.done]
       ELSE \E n \in {k * SECTOR : k \in 1..(most \div SECTOR)} :
               xfer' = [xfer EXCEPT !.done = @ + n]
    /\ UNCHANGED <<layout, spaces, extents, read, next, pos, out, pc>>

PreadFails ==
    /\ pc = "pread" /\ xfer.done < xfer.total
    /\ pc' = "error"
    /\ UNCHANGED <<layout, spaces, extents, read, next, pos, xfer, out>>

\* The wanted part of the sectors that came.
CloseExtent ==
    LET n == Greater(Smaller(xfer.skip + xfer.count, xfer.done) - xfer.skip, 0) IN
    /\ pc = "pread" /\ xfer.done = xfer.total
    /\ out' = out \o [i \in 1..n |-> xfer.start + xfer.skip + i - 1]
    /\ pos' = ExtEnd /\ next' = next + 1
    /\ pc' = "extent"
    /\ UNCHANGED <<layout, spaces, extents, read, xfer>>

Again ==
    /\ pc \in {"done", "error"}
    /\ read' = None /\ out' = <<>> /\ xfer' = None /\ next' = 1 /\ pos' = 0
    /\ pc' = "idle"
    /\ UNCHANGED <<layout, spaces, extents>>

Failed == pc \in {"failed", "panicked"} /\ UNCHANGED vars

Next ==
    \/ BuildSpaces \/ Meta
    \/ \E off, count \in 0..layout.size : ReadRange(off, count)
    \/ ReadWhole \/ SkipExtent \/ OpenExtent \/ Pread \/ PreadFails \/ CloseExtent
    \/ Reply \/ Again \/ Failed

Spec == Init /\ [][Next]_vars
FairSpec == Spec /\ WF_vars(SkipExtent \/ OpenExtent \/ Pread \/ CloseExtent \/ Reply)

-----------------------------------------------------------------------------
(* Properties *)

\* The extents, the read in progress and what it has collected are in range.
TypeOK ==
    /\ layout \in Layouts
    /\ extents \in Seq(Nat \X Nat)
    /\ pos \in Nat /\ next \in 1..Len(extents) + 1
    /\ read # None => read.off <= read.end /\ read.end <= layout.size
    /\ xfer # None => xfer.done <= xfer.total
    /\ out \in Seq(0..DiscBytes - 1)
    /\ pc \in {"open", "meta", "idle", "extent", "pread", "done", "error", "failed", "panicked"}

\* Item k of runs that lie one behind the other: the run it is in, and where.
At(runs, k) ==
    LET i == CHOOSE i \in DOMAIN runs : LengthOf(runs, i - 1) <= k /\ k < LengthOf(runs, i)
    IN  [run |-> i, off |-> k - LengthOf(runs, i - 1)]

\* The sector of a block of the metadata partition.  Each extent of the
\* metadata file is so many of its blocks, one that is not recorded as well.
MetadataSector(map, block) ==
    LET fe    == CopyOf(map)
        slots == [i \in DOMAIN fe |-> <<PdStart(map.pd) + fe[i].block, fe[i].length \div SECTOR>>]
        at    == At(slots, block)
    IN  slots[at.run][1] + at.off

SectorOf(ref, block) ==
    IF layout.maps = <<>> THEN SingleSpace.start + block
    ELSE LET map == layout.maps[ref + 1] IN
         IF map.kind = "type1" THEN PdStart(map.pd) + block ELSE MetadataSector(map, block)

\* The extents of the file: where the first block of each lies, its length.
FileRuns ==
    [i \in DOMAIN layout.file |->
        LET e == layout.file[i] IN <<SectorOf(RefOf(e), e.block) * SECTOR, e.length>>]

\* Where the disc has byte k of the file, block by block.
FileByte(k) ==
    LET at == At(FileRuns, k)
        e  == layout.file[at.run]
    IN  SectorOf(RefOf(e), e.block + (at.off \div SECTOR)) * SECTOR + (at.off % SECTOR)

\* The sectors of an extent lie one behind the other: it does not run over the
\* end of an extent of the metadata file.
Unbroken(e) ==
    \A k \in 0..e.length - 1 :
        SectorOf(RefOf(e), e.block + (k \div SECTOR)) = SectorOf(RefOf(e), e.block) + (k \div SECTOR)

\* No holes, neither in the file nor in a metadata file it may lie in.
Whole(fe) == \A i \in DOMAIN fe : fe[i].recorded

NoHoles ==
    /\ Whole(layout.file)
    /\ \A i \in DOMAIN layout.maps :
          layout.maps[i].kind = "metadata" => Whole(CopyOf(layout.maps[i]))

\* There are no holes, the extents hold all of the file, and the device has
\* them.
Readable ==
    /\ NoHoles
    /\ \A i \in DOMAIN layout.file : Unbroken(layout.file[i])
    /\ layout.size <= LengthOf(FileRuns, Len(FileRuns))
    /\ \A i \in DOMAIN FileRuns : FileRuns[i][1] + FileRuns[i][2] <= DiscBytes

\* A read that is not cut short by an error has the bytes of the file: through
\* every kind of partition map, across extents, from the middle of a sector,
\* in transfers of any size, for ranges and for whole directories
\* (read_extents, read_file_bytes).
ReadsFile ==
    pc = "done" /\ Readable =>
        out = [i \in 1..(read.end - read.off) |-> FileByte(read.off + i - 1)]

\* A read comes to an end however few bytes the device gives at a time, at the
\* end of the device as well (the loop of read_abs).
ReadEnds == read # None ~> pc \in {"done", "error"}
=============================================================================
