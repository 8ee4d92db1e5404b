------------------------------ MODULE Vectors ------------------------------
(***************************************************************************)
(* What the program does with its vectors, as recursive functions, so that *)
(* it can be reasoned about.                                               *)
(***************************************************************************)
EXTENDS Naturals, Sequences

\* Vec::retain, and a filter that collects into a Vec: the elements of s that
\* are in keep, in their order.
Kept(s, keep) ==
    LET kept[i \in 0..Len(s)] ==
            IF i = 0 THEN <<>>
            ELSE IF s[i] \in keep THEN Append(kept[i - 1], s[i]) ELSE kept[i - 1]
    IN  kept[Len(s)]
=============================================================================
