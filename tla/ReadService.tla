---------------------------- MODULE ReadService ----------------------------
(***************************************************************************)
(* What DecryptEngine promises the NFS server, without its locks, windows, *)
(* cache or threads: a read is answered once, with exactly the units of    *)
(* its request, clipped at the end of the file, that the source has for a  *)
(* reader, or with an error; after the service went down every new read is *)
(* answered with an error.                                                 *)
(***************************************************************************)
EXTENDS Integers, Sequences

CONSTANTS Readers, Files,
          Length,         \* the length each file claims, in units
          Shown           \* what its source has for a reader, unit by unit

VARIABLES phase, request, reply, down

svars == <<phase, request, reply, down>>

Rest == {"idle", "ok", "err"}

\* The units of a request, as far as the source goes.
Bytes(r) ==
    LET shown == Shown[r.file]
        end == IF r.last < Len(shown) THEN r.last + 1 ELSE Len(shown)
    IN [i \in 1..(end - r.first) |-> shown[r.first + i]]

Init ==
    /\ phase = [t \in Readers |-> "idle"]
    /\ \E f \in Files : request = [t \in Readers |-> [file |-> f, first |-> 0, last |-> -1]]
    /\ reply = [t \in Readers |-> <<>>]
    /\ down = FALSE

Requests == [file : Files, first : Nat, last : Nat \cup {-1}]

\* A call, with its request clipped at the end of the file.
Ask(t) ==
    /\ phase[t] \in Rest
    /\ request'[t] \in Requests
    /\ request'[t].last < Length[request'[t].file]
    /\ request' = [request EXCEPT ![t] = request'[t]]
    /\ \/ down /\ phase' = [phase EXCEPT ![t] = "err"]
       \/ ~down /\ phase' = [phase EXCEPT ![t] = "busy"]
       \/ ~down /\ request'[t].last < request'[t].first
                /\ phase' = [phase EXCEPT ![t] = "ok"]
    /\ reply' = [reply EXCEPT ![t] = <<>>]
    /\ UNCHANGED down

Answer(t) ==
    /\ phase[t] = "busy"
    /\ phase' = [phase EXCEPT ![t] = "ok"]
    /\ reply' = [reply EXCEPT ![t] = Bytes(request[t])]
    /\ UNCHANGED <<request, down>>

Refuse(t) ==
    /\ phase[t] = "busy"
    /\ phase' = [phase EXCEPT ![t] = "err"]
    /\ UNCHANGED <<request, reply, down>>

GoDown == down' = TRUE /\ UNCHANGED <<phase, request, reply>>

Next == GoDown \/ \E t \in Readers : Ask(t) \/ Answer(t) \/ Refuse(t)

Spec == Init /\ [][Next]_svars
=============================================================================
