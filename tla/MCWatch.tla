------------------------------ MODULE MCWatch ------------------------------
(* One or two discs, with a mountpoint each.                                 *)
EXTENDS Watch

CONSTANTS s1, s2, l1, l2

OwnLabels == [s \in {s1, s2} |-> IF s = s1 THEN l1 ELSE l2]
OneLabel  == [s \in {s1} |-> l1]
=============================================================================
