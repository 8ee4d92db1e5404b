--------------------------- MODULE DecryptEngine ---------------------------
(***************************************************************************)
(* The decrypting read path of one mounted disc (src/src/decrypt.rs): the  *)
(* NFS server's threads call DecryptEngine::read, a teardown calls         *)
(* DecryptEngine::shutdown, and in raw-UDF mode every window read leaves a *)
(* prefetch thread behind.  Offsets are in 6144-byte units; the bytes of a *)
(* unit are one record naming the file, the unit and the form the bytes    *)
(* are in.  A source may give less than the size its node claims, as a     *)
(* file does whose extents are shorter than its length.  Each action is    *)
(* the code between two accesses to shared state (a lock, the              *)
(* shutting_down flag) or between the start and the end of a disc read.    *)
(***************************************************************************)
EXTENDS Integers, Sequences, FiniteSets

CONSTANTS
    Readers,        \* threads of the NFS server
    Closers,        \* threads that tear the mount down
    Files,          \* nodes of the tree that hold data
    Encrypted,      \* those of kind NodeKind::Encrypted
    NameFlags,      \* the name_flags of an encrypted node
    Sizes,          \* the size of each node, in units
    Units,          \* the kinds of the units its source really gives
    SeqWindow,      \* SEQUENTIAL_WINDOW_UNITS
    RandWindow,     \* RANDOM_WINDOW_UNITS
    Slack,          \* SEQUENTIAL_SLACK
    CacheUnits,     \* capacity of the LRU
    MaxRequest,     \* the longest request, in units
    UseUdf,         \* bytes come from RawUdf rather than from /Volumes
    NoThread, Prefetcher

\* What a 6144-byte chunk is: "ts" has the sync byte and decrypts, "noise" has
\* it and libmmbd accepts it without giving clear TS packets, "bad" has it and
\* libmmbd refuses it, "pad" has none.  Two are shorter than a unit: "tail"
\* ends the file, and in "cut" the source ends before the node does.
Kinds == {"ts", "noise", "bad", "pad", "tail", "cut"}

ASSUME ThreadsAssumption ==
    /\ NoThread \notin Readers \cup Closers \cup {Prefetcher}
    /\ Prefetcher \notin Readers \cup Closers
    /\ Readers \cap Closers = {}

ASSUME DiscAssumption ==
    /\ Files # {}
    /\ Encrypted \subseteq Files
    /\ Sizes \in [Files -> Nat]
    /\ Units \in [Files -> Seq(Kinds)]
    /\ \A f \in Files :
          /\ Len(Units[f]) <= Sizes[f]
          /\ \A i \in 1..Len(Units[f]) :
                /\ Units[f][i] = "tail" => i = Sizes[f]
                /\ Units[f][i] = "cut" => i = Len(Units[f])
    /\ NameFlags \in [Encrypted -> Nat]
    /\ \A f, g \in Encrypted : NameFlags[f] = NameFlags[g] => f = g

ASSUME SizesAssumption ==
    /\ SeqWindow \in Nat \ {0}
    /\ RandWindow \in Nat \ {0}
    /\ Slack \in Nat
    /\ CacheUnits \in Nat \ {0}
    /\ MaxRequest \in Nat
    /\ UseUdf \in BOOLEAN

Size(f)    == Sizes[f]
Given(f)   == Len(Units[f])
Kind(f, u) == Units[f][u + 1]
\* Mutant: the cache is keyed by the unit, and the stream is forgotten.
KeyOfUnit(f, u) == <<1, u>>

Key(f, u)  == <<NameFlags[f], u>>

Chunk == [file : Files, unit : Nat, form : {"cipher", "clear", "noise", "part"}]

\* The chunk as the source gives it.
OnDisc(f, u) ==
    [file |-> f, unit |-> u,
     form |-> IF Kind(f, u) = "cut" THEN "part"
              ELSE IF f \in Encrypted /\ Kind(f, u) \in {"ts", "noise", "bad"}
              THEN "cipher" ELSE "clear"]

Least(a, b) == IF a < b THEN a ELSE b

\* Mutant: one too many is taken off the end.
LastUnitOffByOne(f, first, n) == Least(first + n, Size(f)) - 2

\* The end of a request of n units, clipped at the end of the file.
LastUnit(f, first, n) == Least(first + n, Size(f)) - 1

Distance(a, b) == IF a < b THEN b - a ELSE a - b

VARIABLES
    pc,             \* where each reader is
    req,            \* its request: file, first and last unit
    unit,           \* the next unit it will serve
    window,         \* window_units of the slow path
    runEnd,         \* run_end of the window being read
    out,            \* the reply so far
    engine,         \* holder of the mmbd mutex
    mmbd,           \* the libmmbd context behind it
    udf,            \* holder of the RawUdf mutex
    cache,          \* the LRU of decrypted units
    lastEnd,        \* last_end, -1 for a file not read yet
    shuttingDown,   \* the shutting_down flag
    closer,         \* where each closer is in shutdown()
    prefetch        \* prefetch threads that wait for the RawUdf mutex

frame == <<req, unit, window, runEnd>>   \* locals of a read
vars  == <<pc, req, unit, window, runEnd, out, engine, mmbd, udf, cache,
           lastEnd, shuttingDown, closer, prefetch>>

Rest == {"idle", "ok", "err"}

NoRequest == [file |-> CHOOSE f \in Files : TRUE, first |-> 0, last |-> -1]

Init ==
    /\ pc = [t \in Readers |-> "idle"]
    /\ req = [t \in Readers |-> NoRequest]
    /\ unit = [t \in Readers |-> 0]
    /\ window = [t \in Readers |-> 0]
    /\ runEnd = [t \in Readers |-> 0]
    /\ out = [t \in Readers |-> <<>>]
    /\ engine = NoThread
    /\ mmbd = "open"
    /\ udf = NoThread
    /\ cache = <<>>
    /\ lastEnd = [f \in Encrypted |-> -1]
    /\ shuttingDown = FALSE
    /\ closer = [c \in Closers |-> "idle"]
    /\ prefetch = {}

-----------------------------------------------------------------------------
(* Steps of a read *)

File(t)        == req[t].file
IsEncrypted(t) == File(t) \in Encrypted
UnitKey(t, u)  == Key(File(t), u)

Goto(t, l) == pc' = [pc EXCEPT ![t] = l]

\* The read returns; its locals die.
Return(t, result, bytes) ==
    /\ Goto(t, result)
    /\ out' = [out EXCEPT ![t] = bytes]
    /\ unit' = [unit EXCEPT ![t] = 0]
    /\ window' = [window EXCEPT ![t] = 0]
    /\ runEnd' = [runEnd EXCEPT ![t] = 0]

\* Mutant: the read-ahead of the window goes into the reply as well.
AppendWholeWindow(t, u, chunk) == out' = [out EXCEPT ![t] = Append(@, chunk)]

\* append_slice: the part of unit u that the request asked for.
AppendSlice(t, u, chunk) ==
    out' = IF u <= req[t].last
           THEN [out EXCEPT ![t] = Append(@, chunk)] ELSE out

\* LruCache::put.  Any unit may be the victim: every hit reorders the LRU,
\* and no property depends on the order.
PutUnit(key, chunk) ==
    IF key \in DOMAIN cache \/ Cardinality(DOMAIN cache) < CacheUnits
    THEN cache' = [k \in DOMAIN cache \cup {key} |->
                      IF k = key THEN chunk ELSE cache[k]]
    ELSE \E victim \in DOMAIN cache :
            cache' = [k \in (DOMAIN cache \ {victim}) \cup {key} |->
                         IF k = key THEN chunk ELSE cache[k]]

\* Mutant: the flag is not looked at on entry.
EntryUnchecked(f, first, last) ==
    IF f \notin Encrypted THEN "src"
    ELSE IF last < first THEN "ok" ELSE "fast"

\* The early returns of read(): shut down, passthrough, nothing to read.
Entry(f, first, last) ==
    IF shuttingDown THEN "err"
    ELSE IF f \notin Encrypted THEN "src"
    ELSE IF last < first THEN "ok" ELSE "fast"

Begin(t, f, first, n) ==
    LET last == LastUnit(f, first, n) IN
    /\ pc[t] \in Rest
    /\ Goto(t, Entry(f, first, last))
    /\ req' = [req EXCEPT ![t] = [file |-> f, first |-> first, last |-> last]]
    /\ unit' = [unit EXCEPT ![t] = first]
    /\ out' = [out EXCEPT ![t] = <<>>]
    /\ UNCHANGED <<window, runEnd, engine, mmbd, udf, cache, lastEnd,
                   shuttingDown, closer, prefetch>>

Hits(t) == \A u \in req[t].first..req[t].last : UnitKey(t, u) \in DOMAIN cache

\* Everything cached: reply and note the read under the cache mutex.
FastHit(t) ==
    /\ pc[t] = "fast"
    /\ Hits(t)
    /\ Return(t, "ok", [i \in 1..(req[t].last - req[t].first + 1) |->
                           cache[UnitKey(t, req[t].first + i - 1)]])
    /\ lastEnd' = [lastEnd EXCEPT ![File(t)] = req[t].last + 1]
    /\ UNCHANGED <<req, engine, mmbd, udf, cache, shuttingDown, closer, prefetch>>

FastMiss(t) ==
    /\ pc[t] = "fast"
    /\ ~Hits(t)
    /\ Goto(t, "lock")
    /\ UNCHANGED <<frame, out, engine, mmbd, udf, cache, lastEnd,
                   shuttingDown, closer, prefetch>>

Sequential(t) ==
    /\ lastEnd[File(t)] # -1
    /\ Distance(req[t].first, lastEnd[File(t)]) <= Slack

\* Mutant: misses do not exclude each other.
AcquireShared(t) ==
    /\ pc[t] = "lock"
    /\ ~shuttingDown
    /\ mmbd = "open"
    /\ engine' = t
    /\ window' = [window EXCEPT ![t] = IF Sequential(t) THEN SeqWindow ELSE RandWindow]
    /\ Goto(t, "loop")
    /\ UNCHANGED <<req, unit, runEnd, out, mmbd, udf, cache, lastEnd,
                   shuttingDown, closer, prefetch>>

\* Mutant: nothing is checked again once the mutex is held.
AcquireUnchecked(t) ==
    /\ pc[t] = "lock"
    /\ engine = NoThread
    /\ engine' = t
    /\ window' = [window EXCEPT ![t] = IF Sequential(t) THEN SeqWindow ELSE RandWindow]
    /\ Goto(t, "loop")
    /\ UNCHANGED <<req, unit, runEnd, out, mmbd, udf, cache, lastEnd,
                   shuttingDown, closer, prefetch>>

\* The mmbd mutex is acquired, the flag checked again, the window chosen.
Acquire(t) ==
    /\ pc[t] = "lock"
    /\ engine = NoThread
    /\ ~shuttingDown
    /\ mmbd = "open"
    /\ engine' = t
    /\ window' = [window EXCEPT ![t] = IF Sequential(t) THEN SeqWindow ELSE RandWindow]
    /\ Goto(t, "loop")
    /\ UNCHANGED <<req, unit, runEnd, out, mmbd, udf, cache, lastEnd,
                   shuttingDown, closer, prefetch>>

\* ... or found to be behind a shutdown, and released again.
AcquireTooLate(t) ==
    /\ pc[t] = "lock"
    /\ engine = NoThread
    /\ shuttingDown \/ mmbd # "open"
    /\ Return(t, "err", <<>>)
    /\ UNCHANGED <<req, engine, mmbd, udf, cache, lastEnd, shuttingDown, closer, prefetch>>

CachedUnit(t) ==
    /\ pc[t] = "loop"
    /\ unit[t] <= req[t].last
    /\ UnitKey(t, unit[t]) \in DOMAIN cache
    /\ AppendSlice(t, unit[t], cache[UnitKey(t, unit[t])])
    /\ unit' = [unit EXCEPT ![t] = @ + 1]
    /\ UNCHANGED <<pc, req, window, runEnd, engine, mmbd, udf, cache, lastEnd,
                   shuttingDown, closer, prefetch>>

\* A miss: a whole window from here, even past what was asked for.
MissedUnit(t) ==
    /\ pc[t] = "loop"
    /\ unit[t] <= req[t].last
    /\ UnitKey(t, unit[t]) \notin DOMAIN cache
    /\ runEnd' = [runEnd EXCEPT ![t] = Least(unit[t] + window[t], Size(File(t)))]
    /\ Goto(t, "src")
    /\ UNCHANGED <<req, unit, window, out, engine, mmbd, udf, cache, lastEnd,
                   shuttingDown, closer, prefetch>>

\* Mutant: RawUdf is used without its mutex.
StartReadUnlocked(t) ==
    /\ pc[t] = "src"
    /\ udf' = IF UseUdf /\ udf = NoThread THEN t ELSE udf
    /\ Goto(t, "io")
    /\ UNCHANGED <<frame, out, engine, mmbd, cache, lastEnd,
                   shuttingDown, closer, prefetch>>

\* read_source: RawUdf sits behind a mutex, a file on the volume does not.
StartRead(t) ==
    /\ pc[t] = "src"
    /\ IF UseUdf THEN udf = NoThread /\ udf' = t ELSE udf' = udf
    /\ Goto(t, "io")
    /\ UNCHANGED <<frame, out, engine, mmbd, cache, lastEnd,
                   shuttingDown, closer, prefetch>>

EndSourceRead(t) == udf' = IF UseUdf THEN NoThread ELSE udf

\* kick_prefetch: a detached thread for what follows the window.
KickPrefetch(f, u) ==
    prefetch' = IF UseUdf /\ u < Size(f) THEN prefetch \cup {<<f, u>>} ELSE prefetch

\* Where the chunks of the window end: at its end, or where the source does.
ReadEnd(t) == Least(runEnd[t], Given(File(t)))

\* The unit in which the bytes of the window end, unit + got.
GotEnd(t) ==
    IF ReadEnd(t) <= unit[t] THEN unit[t]
    ELSE IF Kind(File(t), ReadEnd(t) - 1) = "cut" THEN ReadEnd(t) - 1 ELSE ReadEnd(t)

WindowRead(t) ==
    /\ pc[t] = "io"
    /\ IsEncrypted(t)
    /\ EndSourceRead(t)
    /\ KickPrefetch(File(t), GotEnd(t))
    /\ Goto(t, "dec")
    /\ UNCHANGED <<frame, out, engine, mmbd, cache, lastEnd, shuttingDown, closer>>

\* Passthrough bytes are the reply as they are, as far as the source goes;
\* last_end is not noted.
PassthroughRead(t) ==
    /\ pc[t] = "io"
    /\ ~IsEncrypted(t)
    /\ EndSourceRead(t)
    /\ Return(t, "ok", [i \in 1..(Least(req[t].last + 1, Given(File(t))) - req[t].first) |->
                           OnDisc(File(t), req[t].first + i - 1)])
    /\ UNCHANGED <<req, engine, mmbd, cache, lastEnd, shuttingDown, closer, prefetch>>

ReleaseEngine(t) == engine' = IF engine = t THEN NoThread ELSE engine

\* The drive or the file system refuses; the `?` drops both guards.
SourceError(t) ==
    /\ pc[t] = "io"
    /\ EndSourceRead(t)
    /\ ReleaseEngine(t)
    /\ Return(t, "err", <<>>)
    /\ UNCHANGED <<req, mmbd, cache, lastEnd, shuttingDown, closer, prefetch>>

\* The decrypt loop over the window, one chunk at a time.
InWindow(t) == pc[t] = "dec" /\ unit[t] < ReadEnd(t)

NextChunk(t) == unit' = [unit EXCEPT ![t] = @ + 1]

\* decrypt_unit, when the chunk shows the sync byte and libmmbd accepts it: a
\* unit that is still no clear TS is only warned about.
Decrypted(f, u) ==
    [OnDisc(f, u) EXCEPT !.form = CASE Kind(f, u) = "ts"    -> "clear"
                                    [] Kind(f, u) = "noise" -> "noise"
                                    [] OTHER                -> @]

CacheChunk(t) ==
    LET u == unit[t]
        chunk == Decrypted(File(t), u) IN
    /\ InWindow(t)
    /\ Kind(File(t), u) \in {"ts", "noise", "pad"}
    /\ PutUnit(UnitKey(t, u), chunk)
    /\ AppendSlice(t, u, chunk)
    /\ NextChunk(t)
    /\ UNCHANGED <<pc, req, window, runEnd, engine, mmbd, udf, lastEnd,
                   shuttingDown, closer, prefetch>>

\* A chunk shorter than a unit is served from the source and not cached.
ShortChunk(t) ==
    LET u == unit[t] IN
    /\ InWindow(t)
    /\ Kind(File(t), u) \in {"tail", "cut"}
    /\ AppendSlice(t, u, OnDisc(File(t), u))
    /\ NextChunk(t)
    /\ UNCHANGED <<pc, req, window, runEnd, engine, mmbd, udf, cache, lastEnd,
                   shuttingDown, closer, prefetch>>

\* libmmbd refuses one chunk: the whole read fails, wherever the chunk is.
DecryptError(t) ==
    /\ InWindow(t)
    /\ Kind(File(t), unit[t]) = "bad"
    /\ ReleaseEngine(t)
    /\ Return(t, "err", <<>>)
    /\ UNCHANGED <<req, mmbd, udf, cache, lastEnd, shuttingDown, closer, prefetch>>

\* got < run_len: the source gave less than the window.
Short(t) == ReadEnd(t) = runEnd[t] => Kind(File(t), runEnd[t] - 1) \in {"tail", "cut"}

NextWindow(t) ==
    /\ pc[t] = "dec"
    /\ ~InWindow(t)
    /\ ~Short(t)
    /\ Goto(t, "loop")
    /\ UNCHANGED <<frame, out, engine, mmbd, udf, cache, lastEnd,
                   shuttingDown, closer, prefetch>>

\* A short window is taken for the end of the file, wherever it is.
EndOfSource(t) ==
    /\ pc[t] = "dec"
    /\ ~InWindow(t)
    /\ Short(t)
    /\ ReleaseEngine(t)
    /\ Goto(t, "note")
    /\ UNCHANGED <<frame, out, mmbd, udf, cache, lastEnd, shuttingDown, closer, prefetch>>

DropGuard(t) ==
    /\ pc[t] = "loop"
    /\ unit[t] > req[t].last
    /\ ReleaseEngine(t)
    /\ Goto(t, "note")
    /\ UNCHANGED <<frame, out, mmbd, udf, cache, lastEnd, shuttingDown, closer, prefetch>>

NoteRead(t) ==
    /\ pc[t] = "note"
    /\ lastEnd' = [lastEnd EXCEPT ![File(t)] = req[t].last + 1]
    /\ Return(t, "ok", out[t])
    /\ UNCHANGED <<req, engine, mmbd, udf, cache, shuttingDown, closer, prefetch>>

-----------------------------------------------------------------------------
(* Steps of shutdown() and of the prefetch threads *)

RaiseFlag(c) ==
    /\ closer[c] = "idle"
    /\ shuttingDown' = TRUE
    /\ closer' = [closer EXCEPT ![c] = "lock"]
    /\ UNCHANGED <<pc, frame, out, engine, mmbd, udf, cache, lastEnd, prefetch>>

\* Mutant: the context is taken away without waiting for the mutex.
TakeContextAtOnce(c) ==
    /\ closer[c] = "lock"
    /\ IF mmbd = "open"
       THEN engine' = c /\ mmbd' = "closing" /\ closer' = [closer EXCEPT ![c] = "close"]
       ELSE closer' = [closer EXCEPT ![c] = "done"] /\ UNCHANGED <<engine, mmbd>>
    /\ UNCHANGED <<pc, frame, out, udf, cache, lastEnd, shuttingDown, prefetch>>

\* take() of the Option; whoever finds it taken has nothing to close.
TakeContext(c) ==
    /\ closer[c] = "lock"
    /\ engine = NoThread
    /\ IF mmbd = "open"
       THEN engine' = c /\ mmbd' = "closing" /\ closer' = [closer EXCEPT ![c] = "close"]
       ELSE closer' = [closer EXCEPT ![c] = "done"] /\ UNCHANGED <<engine, mmbd>>
    /\ UNCHANGED <<pc, frame, out, udf, cache, lastEnd, shuttingDown, prefetch>>

CloseContext(c) ==
    /\ closer[c] = "close"
    /\ mmbd' = "closed"
    /\ engine' = NoThread
    /\ closer' = [closer EXCEPT ![c] = "done"]
    /\ UNCHANGED <<pc, frame, out, udf, cache, lastEnd, shuttingDown, prefetch>>

PrefetchStart ==
    /\ udf = NoThread
    /\ \E p \in prefetch : prefetch' = prefetch \ {p}
    /\ udf' = Prefetcher
    /\ UNCHANGED <<pc, frame, out, engine, mmbd, cache, lastEnd, shuttingDown, closer>>

PrefetchEnd ==
    /\ udf = Prefetcher
    /\ udf' = NoThread
    /\ UNCHANGED <<pc, frame, out, engine, mmbd, cache, lastEnd,
                   shuttingDown, closer, prefetch>>

-----------------------------------------------------------------------------

Call(t) == \E f \in Files : \E first \in 0..Size(f), n \in 0..MaxRequest :
              Begin(t, f, first, n)

ReadStep(t) ==
    \/ FastHit(t) \/ FastMiss(t) \/ Acquire(t) \/ AcquireTooLate(t)
    \/ CachedUnit(t) \/ MissedUnit(t) \/ StartRead(t)
    \/ WindowRead(t) \/ PassthroughRead(t) \/ SourceError(t)
    \/ CacheChunk(t) \/ ShortChunk(t) \/ DecryptError(t) \/ NextWindow(t)
    \/ EndOfSource(t) \/ DropGuard(t) \/ NoteRead(t)

CloseStep(c) == TakeContext(c) \/ CloseContext(c)

Next ==
    \/ \E t \in Readers : Call(t) \/ ReadStep(t)
    \/ \E c \in Closers : RaiseFlag(c) \/ CloseStep(c)
    \/ PrefetchStart \/ PrefetchEnd

Spec == Init /\ [][Next]_vars

\* A running thread goes on, a free mutex is taken by somebody who waits for
\* it, a disc read ends.  No reader has to call and nobody has to tear down.
Fairness ==
    /\ \A t \in Readers : WF_vars(ReadStep(t))
    /\ \A c \in Closers : WF_vars(CloseStep(c))
    /\ WF_vars(PrefetchStart) /\ WF_vars(PrefetchEnd)

FairSpec == Spec /\ Fairness

-----------------------------------------------------------------------------
(* Properties *)

\* What the source has for a reader at unit u of file f: the clear unit, the
\* unit libmmbd made nothing of, or the part of the unit the source ends in.
Plain(f, u) ==
    [file |-> f, unit |-> u,
     form |-> CASE Kind(f, u) = "cut" -> "part"
                [] f \in Encrypted /\ Kind(f, u) = "noise" -> "noise"
                [] OTHER -> "clear"]

Places == Rest \cup {"fast", "lock", "loop", "src", "io", "dec", "note"}

\* The values every variable of the engine keeps to.
TypeOK ==
    /\ pc \in [Readers -> Places]
    /\ req \in [Readers -> [file : Files, first : Nat, last : Nat \cup {-1}]]
    /\ unit \in [Readers -> Nat]
    /\ window \in [Readers -> {0, SeqWindow, RandWindow}]
    /\ runEnd \in [Readers -> Nat]
    /\ out \in [Readers -> Seq(Chunk)]
    /\ engine \in Readers \cup Closers \cup {NoThread}
    /\ mmbd \in {"open", "closing", "closed"}
    /\ udf \in Readers \cup {NoThread, Prefetcher}
    /\ DOMAIN cache \subseteq (Nat \X Nat)
    /\ \A k \in DOMAIN cache : cache[k] \in Chunk
    /\ lastEnd \in [Encrypted -> Nat \cup {-1}]
    /\ shuttingDown \in BOOLEAN
    /\ closer \in [Closers -> {"idle", "lock", "close", "done"}]
    /\ prefetch \subseteq (Files \X Nat)

\* A cached unit is the plain unit of the one file its key stands for, a unit
\* its source does give, whatever windows of whatever readers put it there or
\* evicted it.
CacheSound ==
    \A k \in DOMAIN cache : \E f \in Encrypted :
        /\ NameFlags[f] = k[1]
        /\ k[2] < Given(f)
        /\ cache[k] = Plain(f, k[2])

\* A reply of read() that succeeds is every unit of the clipped request that
\* the source gives, in order, once, and plain, whichever of them came from
\* the fast path, the cache or a window, and nothing besides: it stops short
\* of its request only where the source does.
RepliesSound ==
    \A t \in Readers : pc[t] = "ok" =>
        out[t] = [i \in 1..(Least(req[t].last + 1, Given(File(t))) - req[t].first) |->
                     Plain(File(t), req[t].first + i - 1)]

\* "Short reads happen only at end of file.": a reply that succeeds has every
\* unit of the request, clipped at the size of the node.  It does not hold where
\* a source ends before its node does; no run checks it.
ShortOnlyAtEnd ==
    \A t \in Readers :
        pc[t] = "ok" => Len(out[t]) = req[t].last - req[t].first + 1

\* libmmbd is not thread safe: a unit is decrypted only by the holder of the
\* engine lock and never with a context that shutdown() has taken.
LibmmbdExclusive ==
    /\ \A t \in Readers : pc[t] = "dec" => engine = t /\ mmbd = "open"
    /\ \A c \in Closers : closer[c] = "close" => engine = c

\* "concurrent NFS requests do not each drag their own window off the disc":
\* the disc is asked for a window only while its first unit is not cached.
NoReadOfCachedUnit ==
    \A t \in Readers : pc[t] \in {"src", "io"} /\ IsEncrypted(t) =>
        UnitKey(t, unit[t]) \notin DOMAIN cache

\* After shutdown() has closed the context no read of an encrypted file is on
\* its way to the disc, however it was interleaved with the flag.
NoEncryptedReadAfterClose ==
    mmbd # "open" => \A t \in Readers :
        IsEncrypted(t) => pc[t] \notin {"loop", "src", "io", "dec"}

DiscReaders == {t \in Readers : pc[t] = "io"} \cup ({udf} \cap {Prefetcher})

\* "one optical drive, one reader".
OneReader == Cardinality(DiscReaders) <= 1

\* The engine implements ReadService: nothing of its locks, windows, caching
\* or prefetching can be seen in an answer, and a read that begins after the
\* flag went up is never served.
Service == INSTANCE ReadService WITH
    Length  <- [f \in Files |-> Size(f)],
    Shown   <- [f \in Files |-> [i \in 1..Given(f) |-> Plain(f, i - 1)]],
    phase   <- [t \in Readers |-> IF pc[t] \in Rest THEN pc[t] ELSE "busy"],
    request <- req,
    reply   <- [t \in Readers |-> IF pc[t] = "ok" THEN out[t] ELSE <<>>],
    down    <- shuttingDown

ServiceSpec == Service!Spec

\* shutdown() returns, whatever reads are under way or keep arriving.
ShutdownReturns == \A c \in Closers : closer[c] = "lock" ~> closer[c] = "done"

\* Once the flag is up the engine drains: from some point on no read waits for
\* an answer, those that still come are refused at once, and nobody is on the
\* disc again.
EngineDrains ==
    shuttingDown ~> [](/\ \A t \in Readers : pc[t] \in Rest
                       /\ DiscReaders = {} /\ engine = NoThread /\ prefetch = {})
=============================================================================
