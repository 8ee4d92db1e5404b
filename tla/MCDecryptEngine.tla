-------------------------- MODULE MCDecryptEngine --------------------------
(* Small discs for TLC: one or two streams with every kind of chunk, and a  *)
(* passthrough file; some of their sources end before the node does.        *)
EXTENDS DecryptEngine, TLC

CONSTANTS r1, r2, c1, c2, m1, m2, idx

\* A stream whose source ends inside its second and last unit, another that
\* is whole, and a passthrough file.
TwoStreams == [f \in {m1, m2, idx} |->
    IF f = m1 THEN <<"pad", "cut">> ELSE IF f = m2 THEN <<"ts">> ELSE <<"tail">>]
TwoStreamSizes == [f \in {m1, m2, idx} |-> IF f = m1 THEN 2 ELSE 1]

\* A stream whose source ends inside the last of its units, and a passthrough
\* file whose source ends after one unit of two.
OneStream == [f \in {m1, idx} |->
    IF f = m1 THEN <<"ts", "noise", "bad", "cut">> ELSE <<"pad">>]
OneStreamSizes == [f \in {m1, idx} |-> IF f = m1 THEN 4 ELSE 2]

ClipNumber == [f \in {m1, m2} |-> IF f = m1 THEN 1 ELSE 2]
OneClip    == [f \in {m1} |-> 1]

Threads == Permutations({r1, r2}) \cup Permutations({c1, c2})
=============================================================================
