--------------------------- MODULE MCRawUdfWindow ---------------------------
(* A disc with two streams, a passthrough file and one held in its ICB. The *)
(* unit does not divide the read-ahead: 6144 does not divide 16 MiB either. *)
EXTENDS RawUdfWindow

CONSTANTS m1, m2, clpi, idx

Sizes == [r \in {m1, m2, clpi, idx} |->
    CASE r = m1 -> 9 [] r = m2 -> 4 [] r = clpi -> 6 [] OTHER -> 2]

StreamSize == [r \in {m1} |-> 18]

Ranges == {<<0, 1>>, <<1, 9>>, <<6, 1>>, <<0, 0>>}
=============================================================================
