----------------------------- MODULE MCDiscTree -----------------------------
(* Small discs: a plain Blu-ray as a volume and as a raw device, and one each  *)
(* for names that differ in case, deleted entries, specials, no index, and     *)
(* files whose bytes end before their sizes.                                   *)
EXTENDS DiscTree

Plain == ("BDMV" :> "BDMV") @@ ("bdmv" :> "BDMV") @@ ("STREAM" :> "STREAM") @@ ("SSIF" :> "SSIF")
      @@ ("BACKUP" :> "BACKUP") @@ ("backup" :> "BACKUP") @@ ("AACS" :> "AACS") @@ ("aacs" :> "AACS")
      @@ (".DS_Store" :> ".DS_STORE") @@ ("index.bdmv" :> "INDEX.BDMV")
      @@ ("00012.m2ts" :> "00012.M2TS") @@ ("00012.M2TS" :> "00012.M2TS")
      @@ ("12.m2ts" :> "12.M2TS") @@ ("00012.ssif" :> "00012.SSIF") @@ ("socket" :> "SOCKET")

Extension == [n \in DOMAIN Plain |->
    CASE n \in {"00012.m2ts", "00012.M2TS", "12.m2ts"} -> "m2ts"
      [] n = "00012.ssif" -> "ssif"
      [] OTHER -> "other"]

ClipNumber == [n \in DOMAIN Plain |->
    IF n \in {"00012.m2ts", "00012.M2TS", "00012.ssif"} THEN 12 ELSE None]

HiddenNames == {"AACS", ".DS_STORE"}

Dir(name, icb)  == [name |-> name, kind |-> "dir", icb |-> icb]
File(name, icb) == [name |-> name, kind |-> "file", icb |-> icb]
Gone(name, icb) == [name |-> name, kind |-> "deleted", icb |-> icb]
Special(name)   == [name |-> name, kind |-> "special", icb |-> 99]

Sizes == [icb \in 1..5 |-> 9] @@ (99 :> 0) @@ (11 :> 0) @@ (12 :> 3) @@ (13 :> 2) @@ (14 :> 1)

\* Of a disc that is cut off, one byte of a stream is there and none of another.
Cut == [icb \in DOMAIN Sizes |-> IF icb = 12 THEN 1 ELSE IF icb = 14 THEN 0 ELSE Sizes[icb]]

Index == File("index.bdmv", 11)

BluRay(mode, root, bdmv, stream) ==
    [mode |-> mode, sizes |-> Sizes, data |-> Sizes,
     dirs |-> (1 :> root) @@ (2 :> bdmv) @@ (3 :> stream)
           @@ (4 :> <<File("00012.ssif", 13)>>) @@ (5 :> <<File("00012.m2ts", 14)>>)]

\* A copy-protection directory at the root and one of its name below.
Protected == <<Dir("AACS", 5), Dir("BDMV", 2), File(".DS_Store", 14)>>
Full      == <<Dir("AACS", 5), Index, Dir("STREAM", 3)>>
Streams   == <<File("00012.m2ts", 12), File("12.m2ts", 14), Dir("SSIF", 4)>>

AllDiscs ==
    { BluRay(mode, Protected, Full, Streams) : mode \in {"udf", "volume"} }
    \cup { BluRay("udf", <<Dir("aacs", 5), Dir("bdmv", 2)>>, <<Index, Dir("STREAM", 3), Dir("BACKUP", 5)>>,
                  <<Gone("00012.m2ts", 14), File("00012.m2ts", 12), File("00012.M2TS", 13)>>),
           BluRay("udf", <<Dir("BDMV", 2)>>, <<Index, Dir("BACKUP", 5), Dir("backup", 4)>>, <<>>),
           BluRay("volume", Protected, <<Special("socket"), Index, Dir("STREAM", 3)>>,
                  <<File("00012.M2TS", 13), File("00012.m2ts", 12), Special("socket")>>),
           BluRay("volume", Protected, <<Dir("STREAM", 3)>>, Streams),
           [BluRay("udf", <<Dir("BDMV", 2)>>, Full, Streams) EXCEPT !.data = Cut] }
=============================================================================
