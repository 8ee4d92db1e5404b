---------------------------- MODULE MCEjectCommand ----------------------------
(* Two drives, a request for the first and for all.                           *)
EXTENDS EjectCommand

CONSTANTS d6, d7, l6, l7

Drives     == <<d6, d7>>
Labelled   == [d \in {d6, d7} |-> IF d = d6 THEN l6 ELSE l7]
FirstOrAll == {{d6}, {d6, d7}}
=============================================================================
