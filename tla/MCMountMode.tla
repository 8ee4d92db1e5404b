---------------------------- MODULE MCMountMode ----------------------------
(* Two drives, and a request for the second of them and for both.           *)
EXTENDS MountMode

CONSTANTS d6, d7, l6, l7

Drives     == <<d6, d7>>
Labelled   == [d \in {d6, d7} |-> IF d = d6 THEN l6 ELSE l7]
OneOrAll   == {{d7}, {d6, d7}}
=============================================================================
