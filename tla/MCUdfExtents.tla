---------------------------- MODULE MCUdfExtents ----------------------------
(* Discs of 24 sectors of two bytes each.  The partition starts at sector 2, *)
(* a second one at 14.                                                       *)
EXTENDS UdfExtents

Pds == <<[number |-> 0, start |-> 2], [number |-> 7, start |-> 14]>>

Entry(ref, block, length) == [recorded |-> TRUE, ref |-> ref, block |-> block, length |-> length]
Hole(block, length)    == [Entry(None, block, length) EXCEPT !.recorded = FALSE]

Type1(pd)              == [kind |-> "type1", pd |-> pd]
Metadata(main, mirror) == [kind |-> "metadata", pd |-> 0, main |-> main, mirror |-> mirror]
Other                  == [kind |-> "other"]

Layout(maps, fsdRef, ref, size, file) ==
    [pds |-> Pds, maps |-> maps, fsdRef |-> fsdRef, ref |-> ref, size |-> size, file |-> file]

\* A metadata file of two extents, of one and of three blocks, and one with a
\* hole of one block between them.
Scattered == <<Entry(None, 9, 2), Entry(None, 4, 6)>>
Holed     == <<Entry(None, 9, 2), Hole(0, 2), Entry(None, 4, 6)>>

Plain ==
    { Layout(<<>>, 0, 0, 7, <<Entry(None, 1, 4), Entry(None, 6, 3)>>),
      Layout(<<>>, 1, 1, 3, <<Entry(None, 1, 3)>>),
      Layout(<<Type1(0), Type1(7)>>, 0, 0, 6, <<Entry(1, 0, 2), Entry(0, 3, 2), Entry(1, 2, 2)>>) }

Virtual ==
    { Layout(<<Type1(0), Metadata(Scattered, None)>>, 1, 1, 5, <<Entry(None, 1, 5)>>),
      Layout(<<Type1(0), Metadata(None, Scattered)>>, 1, 1, 7, <<Entry(0, 2, 2), Entry(None, 0, 2), Entry(None, 2, 3)>>),
      Layout(<<Other, Metadata(Scattered, None), Type1(7)>>, 2, 1, 4, <<Entry(2, 1, 2), Entry(1, 3, 2)>>) }

Broken ==
    { Layout(<<Type1(0), Other>>, 1, 1, 2, <<Entry(None, 0, 2)>>),
      Layout(<<Type1(5)>>, 0, 0, 2, <<Entry(None, 0, 2)>>),
      Layout(<<Type1(0), Metadata(None, None)>>, 1, 1, 2, <<Entry(None, 0, 2)>>),
      Layout(<<Type1(0), Metadata(<<Hole(0, 2)>>, None)>>, 1, 1, 2, <<Entry(None, 0, 2)>>),
      Layout(<<Type1(0)>>, 2, 0, 2, <<Entry(None, 0, 2)>>),
      Layout(<<Type1(0), Metadata(Scattered, None)>>, 1, 1, 2, <<Entry(None, 4, 2)>>) }

\* A file whose first extent ends behind the end of the device.
Truncated == { Layout(<<Type1(0)>>, 0, 0, 8, <<Entry(None, 20, 6), Entry(None, 3, 2)>>) }

\* A file with a hole, one that is longer than its extents, one with an extent
\* that runs over the end of an extent of the metadata file, and one behind the
\* hole of the metadata file.
Odd ==
    { Layout(<<Type1(0)>>, 0, 0, 5, <<Entry(None, 1, 2), Hole(3, 2), Entry(None, 5, 3)>>),
      Layout(<<Type1(0)>>, 0, 0, 6, <<Entry(None, 1, 3)>>),
      Layout(<<Type1(0), Metadata(Scattered, None)>>, 1, 1, 4, <<Entry(None, 0, 4)>>),
      Layout(<<Type1(0), Metadata(Holed, None)>>, 1, 1, 4, <<Entry(None, 2, 4)>>) }

Discs == Odd \cup Plain \cup Virtual \cup Broken \cup Truncated
=============================================================================
