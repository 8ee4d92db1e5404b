------------------------ MODULE DecryptEngineProofs ------------------------
(***************************************************************************)
(* Safety of the read path for every number of readers and closers, every  *)
(* disc, window and cache size.                                            *)
(***************************************************************************)
EXTENDS DecryptEngine, FiniteSetTheorems, TLAPS

\* t is inside the critical section of the mmbd mutex.
HoldsEngine(t) ==
    \/ pc[t] \in {"loop", "dec"}
    \/ pc[t] \in {"src", "io"} /\ IsEncrypted(t)

EngineInv ==
    /\ \A t \in Readers : HoldsEngine(t) => engine = t /\ mmbd = "open"
    /\ \A c \in Closers : closer[c] = "close" => engine = c

\* How many units of the request are in the reply.
Served(t) == IF unit[t] <= req[t].last
             THEN unit[t] - req[t].first ELSE req[t].last - req[t].first + 1

PlainRun(f, first, n) == [i \in 1..n |-> Plain(f, first + i - 1)]

\* The locals of a read agree with each other and with the reply so far.
FrameInv(t) ==
    /\ req[t].last < Size(File(t))
    /\ pc[t] \in {"fast", "lock", "loop", "dec", "note"} => IsEncrypted(t)
    /\ pc[t] \notin Rest /\ IsEncrypted(t) =>
          /\ req[t].first <= req[t].last
          /\ req[t].first <= unit[t]
          /\ out[t] = PlainRun(File(t), req[t].first, Served(t))
          /\ unit[t] = req[t].first \/ unit[t] <= Given(File(t))
    /\ pc[t] \in {"fast", "lock"} => unit[t] = req[t].first
    /\ HoldsEngine(t) => window[t] > 0 /\ unit[t] <= Size(File(t))
    /\ pc[t] \in {"src", "io", "dec"} /\ IsEncrypted(t) =>
          runEnd[t] > 0 /\ runEnd[t] <= Size(File(t))
    /\ pc[t] = "note" => unit[t] > req[t].last \/ unit[t] >= Given(File(t))

IInv ==
    /\ TypeOK
    /\ EngineInv
    /\ CacheSound
    /\ \A t \in Readers : FrameInv(t)
    /\ RepliesSound

-----------------------------------------------------------------------------

\* One more unit makes the run one longer.
LEMMA AppendRun ==
    ASSUME NEW f \in Files, NEW first \in Nat, NEW n \in Nat
    PROVE  Append(PlainRun(f, first, n), Plain(f, first + n)) = PlainRun(f, first, n + 1)
BY DEF PlainRun, Plain

\* A run of plain units is a sequence of chunks.
LEMMA RunType ==
    ASSUME NEW f \in Files, NEW first \in Nat, NEW n \in Nat
    PROVE  PlainRun(f, first, n) \in Seq(Chunk)
<1>1. \A u \in Nat : Plain(f, u) \in Chunk
  BY DEF Plain, Chunk
<1>2. \A i \in 1..n : first + i - 1 \in Nat
  OBVIOUS
<1>3. QED
  BY <1>1, <1>2 DEF PlainRun

\* A file has a number of units, and its source gives no more of them.
LEMMA SizeType ==
    \A f \in Files : Size(f) \in Nat /\ Given(f) \in Nat /\ Given(f) <= Size(f)
BY DiscAssumption DEF Size, Given

\* A key stands for one file, so what is found under it is the unit asked for.
LEMMA CachedPlain ==
    ASSUME CacheSound, NEW f \in Encrypted, NEW u, Key(f, u) \in DOMAIN cache
    PROVE  cache[Key(f, u)] = Plain(f, u) /\ u < Given(f)
BY DiscAssumption DEF CacheSound, Key

\* What the type invariant says of one reader.
LEMMA TypesOf ==
    ASSUME TypeOK, NEW t \in Readers
    PROVE  /\ File(t) \in Files
           /\ req[t].file \in Files
           /\ Size(req[t].file) \in Nat
           /\ Given(req[t].file) \in Nat
           /\ Given(req[t].file) <= Size(req[t].file)
           /\ req[t].first \in Nat
           /\ req[t].last \in Int /\ req[t].last + 1 \in Nat
           /\ unit[t] \in Nat
           /\ runEnd[t] \in Nat
           /\ window[t] \in Nat
<1>1. req[t] \in [file : Files, first : Nat, last : Nat \cup {-1}]
  BY DEF TypeOK
<1>2. req[t].file \in Files /\ req[t].first \in Nat /\ req[t].last \in Nat \cup {-1}
  BY <1>1
<1>3. req[t].last \in Int /\ req[t].last + 1 \in Nat
  BY <1>2
<1>4. unit[t] \in Nat /\ runEnd[t] \in Nat
  BY DEF TypeOK
<1>5. window[t] \in {0, SeqWindow, RandWindow}
  BY DEF TypeOK
<1>6. window[t] \in Nat
  BY <1>5, SizesAssumption
<1>7. QED
  BY <1>2, <1>3, <1>4, <1>6, SizeType DEF File

\* The initial states.
LEMMA InitIInv == Init => IInv
<1> SUFFICES ASSUME Init PROVE IInv
  OBVIOUS
<1>1. NoRequest \in [file : Files, first : Nat, last : Nat \cup {-1}]
  BY DiscAssumption DEF NoRequest
<1>2. TypeOK
  <2>1. DOMAIN cache = {}
    BY DEF Init
  <2>2. out \in [Readers -> Seq(Chunk)]
    BY DEF Init
  <2>3. QED
    BY <1>1, <2>1, <2>2 DEF Init, TypeOK, Places, Rest
<1>3. EngineInv
  BY DEF Init, EngineInv, HoldsEngine
<1>4. CacheSound
  BY DEF Init, CacheSound
<1>5. \A t \in Readers : FrameInv(t)
  BY <1>1, SizeType DEF Init, FrameInv, Rest, NoRequest, File, HoldsEngine
<1>6. RepliesSound
  BY DEF Init, RepliesSound
<1>7. QED
  BY <1>2, <1>3, <1>4, <1>5, <1>6 DEF IInv

\* A reader that does not move keeps its frame.
SameFrame(s) ==
    /\ pc'[s] = pc[s] /\ req'[s] = req[s] /\ unit'[s] = unit[s]
    /\ window'[s] = window[s] /\ runEnd'[s] = runEnd[s] /\ out'[s] = out[s]

\* A reader that does not move keeps its frame, whatever the others do.
LEMMA FrameStable ==
    ASSUME NEW s \in Readers, FrameInv(s), SameFrame(s)
    PROVE  FrameInv(s)'
BY DEF FrameInv, SameFrame, Served, IsEncrypted, File, HoldsEngine

\* The units of the request from a to b, counted from 1.
LEMMA RunUnits ==
    ASSUME NEW a \in Nat, NEW b \in Int
    PROVE  /\ b - a + 1 \in Int
           /\ \A i \in 1..(b - a + 1) : a + i - 1 \in a..b /\ a + i - 1 \in Nat
OBVIOUS

\* A function on 1..n with values in S is a sequence over S, n negative or not.
LEMMA RunIsSeq ==
    ASSUME NEW S, NEW n \in Int, NEW e, e \in [1..n -> S]
    PROVE  e \in Seq(S)
<1>1. CASE n \in Nat
  BY <1>1
<1>2. CASE n \notin Nat
  <2>1. 1..n = 1..0
    BY <1>2
  <2>2. e \in [1..0 -> S]
    BY <2>1
  <2>3. QED
    BY <2>2
<1>3. QED
  BY <1>1, <1>2

\* What is on the disc and what it decrypts to are chunks.
LEMMA OnDiscType ==
    ASSUME NEW f \in Files, NEW u \in Nat
    PROVE  OnDisc(f, u) \in Chunk /\ Decrypted(f, u) \in Chunk
BY DEF OnDisc, Decrypted, Chunk

\* Whatever put() evicts, what the cache then holds was there or is new.
LEMMA PutUnitCases ==
    ASSUME NEW key, NEW chunk, PutUnit(key, chunk)
    PROVE  \A k \in DOMAIN cache' :
              \/ k = key /\ cache'[k] = chunk
              \/ k \in DOMAIN cache /\ cache'[k] = cache[k]
<1> DEFINE room == key \in DOMAIN cache \/ Cardinality(DOMAIN cache) < CacheUnits
           put(K) == [k \in K |-> IF k = key THEN chunk ELSE cache[k]]
<1>1. PICK kept \in SUBSET DOMAIN cache : cache' = put(kept \cup {key})
  <2>1. CASE room
    BY <2>1 DEF PutUnit
  <2>2. CASE ~room
    <3>1. PICK victim \in DOMAIN cache : cache' = put((DOMAIN cache \ {victim}) \cup {key})
      BY <2>2 DEF PutUnit
    <3>2. QED
      BY <3>1
  <2>3. QED
    BY <2>1, <2>2
<1>2. QED
  BY <1>1

\* Appending a chunk to a reply leaves the replies sequences of chunks.
LEMMA AppendSliceType ==
    ASSUME out \in [Readers -> Seq(Chunk)], NEW t \in Readers,
           NEW u, NEW chunk \in Chunk, AppendSlice(t, u, chunk)
    PROVE  out' \in [Readers -> Seq(Chunk)]
<1>1. Append(out[t], chunk) \in Seq(Chunk)
  OBVIOUS
<1>2. QED
  BY <1>1 DEF AppendSlice

\* TypeOK is kept by a step of a read.
LEMMA ReadTypeOK ==
    ASSUME TypeOK, NEW t \in Readers, FrameInv(t), ReadStep(t)
    PROVE  TypeOK'
<1> USE SizesAssumption DEF TypeOK, Places, Rest, frame
<1>1. CASE FastHit(t)
  <2> DEFINE bytes == [i \in 1..(req[t].last - req[t].first + 1) |->
                          cache[UnitKey(t, req[t].first + i - 1)]]
  <2>1. req[t].first \in Nat /\ req[t].last \in Int /\ req[t].last + 1 \in Nat
    BY TypesOf
  <2>2. \A i \in 1..(req[t].last - req[t].first + 1) :
           req[t].first + i - 1 \in req[t].first..req[t].last
    BY <2>1, RunUnits
  <2>3. bytes \in [1..(req[t].last - req[t].first + 1) -> Chunk]
    BY <1>1, <2>2 DEF FastHit, Hits
  <2>4. bytes \in Seq(Chunk)
    BY <2>1, <2>3, RunUnits, RunIsSeq
  <2>5. out' = [out EXCEPT ![t] = bytes]
    BY <1>1 DEF FastHit, Return
  <2>6. out' \in [Readers -> Seq(Chunk)]
    BY <2>4, <2>5
  <2>7. lastEnd' \in [Encrypted -> Nat \cup {-1}]
    BY <1>1, <2>1 DEF FastHit
  <2>8. QED
    BY <1>1, <2>6, <2>7 DEF FastHit, Return, Goto
<1>2. CASE FastMiss(t)
  BY <1>2 DEF FastMiss, Goto
<1>3. CASE Acquire(t)
  BY <1>3 DEF Acquire, Goto
<1>4. CASE AcquireTooLate(t)
  BY <1>4 DEF AcquireTooLate, Return, Goto
<1>5. CASE CachedUnit(t)
  <2>1. cache[UnitKey(t, unit[t])] \in Chunk
    BY <1>5 DEF CachedUnit
  <2>2. out' \in [Readers -> Seq(Chunk)]
    BY <1>5, <2>1, AppendSliceType DEF CachedUnit
  <2>3. unit' \in [Readers -> Nat]
    <3>1. unit \in [Readers -> Nat] /\ unit' = [unit EXCEPT ![t] = @ + 1]
      BY <1>5 DEF CachedUnit
    <3>2. QED
      BY ONLY <3>1
  <2>4. QED
    BY <1>5, <2>2, <2>3 DEF CachedUnit
<1>6. CASE MissedUnit(t)
  <2>1. Size(File(t)) \in Nat
    BY TypesOf DEF File
  <2>2. unit[t] \in Nat /\ window[t] \in Nat
    BY TypesOf
  <2>3. runEnd' \in [Readers -> Nat]
    BY <1>6, <2>1, <2>2, SMTT(30) DEF MissedUnit, Least
  <2>4. pc' \in [Readers -> Places]
    BY <1>6 DEF MissedUnit, Goto
  <2>5. QED
    BY <1>6, <2>3, <2>4 DEF MissedUnit
<1>7. CASE StartRead(t)
  BY <1>7 DEF StartRead, Goto
<1>8. CASE WindowRead(t)
  <2>1. prefetch' \subseteq (Files \X Nat)
    <3>1. File(t) \in Files /\ GotEnd(t) \in Nat
      BY TypesOf DEF GotEnd, ReadEnd, Least, File
    <3>2. QED
      BY <1>8, <3>1 DEF WindowRead, KickPrefetch
  <2>2. udf' \in Readers \cup {NoThread, Prefetcher}
    BY <1>8 DEF WindowRead, EndSourceRead
  <2>3. QED
    BY <1>8, <2>1, <2>2 DEF WindowRead, Goto
<1>9. CASE PassthroughRead(t)
  <2> DEFINE n == Least(req[t].last + 1, Given(File(t))) - req[t].first
             bytes == [i \in 1..n |-> OnDisc(File(t), req[t].first + i - 1)]
  <2>1. req[t].first \in Nat /\ n \in Int /\ File(t) \in Files
    <3>1. /\ req[t].first \in Nat /\ req[t].last + 1 \in Nat /\ File(t) \in Files
          /\ Given(File(t)) \in Nat
      BY TypesOf DEF File
    <3>2. Least(req[t].last + 1, Given(File(t))) \in Nat
      BY ONLY <3>1 DEF Least
    <3>3. QED
      BY ONLY <3>1, <3>2
  <2> HIDE DEF n
  <2>2. \A i \in 1..n : req[t].first + i - 1 \in Nat
    BY <2>1
  <2>3. bytes \in [1..n -> Chunk]
    BY <2>1, <2>2, OnDiscType
  <2>4. bytes \in Seq(Chunk)
    BY <2>1, <2>3, RunIsSeq
  <2>5. out' = [out EXCEPT ![t] = bytes]
    BY <1>9 DEF PassthroughRead, Return, n
  <2>6. out' \in [Readers -> Seq(Chunk)]
    BY <2>4, <2>5
  <2>7. udf' \in Readers \cup {NoThread, Prefetcher}
    BY <1>9 DEF PassthroughRead, EndSourceRead
  <2>8. QED
    BY <1>9, <2>6, <2>7 DEF PassthroughRead, Return, Goto
<1>10. CASE SourceError(t)
  <2>1. pc' \in [Readers -> Places]
    BY <1>10 DEF SourceError, Return, Goto
  <2>2. udf' \in Readers \cup {NoThread, Prefetcher}
    BY <1>10 DEF SourceError, EndSourceRead
  <2>3. engine' \in Readers \cup Closers \cup {NoThread}
    BY <1>10 DEF SourceError, ReleaseEngine
  <2>4. out' \in [Readers -> Seq(Chunk)]
    BY <1>10 DEF SourceError, Return, Goto
  <2>5. QED
    BY <1>10, <2>1, <2>2, <2>3, <2>4 DEF SourceError, Return
<1>11. CASE CacheChunk(t)
  <2> DEFINE chunk == Decrypted(File(t), unit[t])
             key == UnitKey(t, unit[t])
  <2>1. chunk \in Chunk
    BY TypesOf, OnDiscType
  <2>2. key \in Nat \X Nat
    <3>1. IsEncrypted(t)
      BY <1>11 DEF IInv, FrameInv, CacheChunk, InWindow
    <3>2. NameFlags[File(t)] \in Nat /\ unit[t] \in Nat
      BY <3>1, DiscAssumption DEF IsEncrypted
    <3>3. QED
      BY <3>2 DEF UnitKey, Key
  <2>3. DOMAIN cache' \subseteq (Nat \X Nat) /\ \A k \in DOMAIN cache' : cache'[k] \in Chunk
    <3>1. PutUnit(key, chunk)
      BY <1>11 DEF CacheChunk
    <3> HIDE DEF key, chunk
    <3>2. \A k \in DOMAIN cache' :
              \/ k = key /\ cache'[k] = chunk
              \/ k \in DOMAIN cache /\ cache'[k] = cache[k]
      BY <3>1, PutUnitCases
    <3>3. QED
      BY <2>1, <2>2, <3>2
  <2>4. out' \in [Readers -> Seq(Chunk)]
    BY <1>11, <2>1, AppendSliceType DEF CacheChunk
  <2>5. unit' \in [Readers -> Nat]
    <3>1. unit \in [Readers -> Nat] /\ unit' = [unit EXCEPT ![t] = @ + 1]
      BY <1>11 DEF CacheChunk, NextChunk
    <3>2. QED
      BY ONLY <3>1
  <2>6. QED
    BY <1>11, <2>3, <2>4, <2>5 DEF CacheChunk
<1>12. CASE ShortChunk(t)
  <2>1. OnDisc(File(t), unit[t]) \in Chunk
    BY TypesOf, OnDiscType
  <2>2. out' \in [Readers -> Seq(Chunk)]
    BY <1>12, <2>1, AppendSliceType DEF ShortChunk
  <2>3. unit' \in [Readers -> Nat]
    BY <1>12 DEF ShortChunk, NextChunk
  <2>4. QED
    BY <1>12, <2>2, <2>3 DEF ShortChunk
<1>13. CASE DecryptError(t)
  BY <1>13 DEF DecryptError, Return, Goto, ReleaseEngine
<1>14. CASE NextWindow(t)
  BY <1>14 DEF NextWindow, Goto
<1>15. CASE DropGuard(t)
  BY <1>15 DEF DropGuard, Goto, ReleaseEngine
<1>16. CASE NoteRead(t)
  <2>1. req[t].last + 1 \in Nat
    BY TypesOf
  <2>2. lastEnd' \in [Encrypted -> Nat \cup {-1}]
    BY <1>16, <2>1 DEF NoteRead
  <2>3. QED
    BY <1>16, <2>2 DEF NoteRead, Return, Goto
<1>17. CASE EndOfSource(t)
  BY <1>17 DEF EndOfSource, Goto, ReleaseEngine
<1>18. QED
  BY <1>1, <1>2, <1>3, <1>4, <1>5, <1>6, <1>7, <1>8, <1>9, <1>10, <1>11, <1>12,
     <1>13, <1>14, <1>15, <1>16, <1>17 DEF ReadStep

\* A request is clipped at the end of the file, and may be empty.
LEMMA LastUnitType ==
    ASSUME NEW f \in Files, NEW first \in Nat, NEW n \in Nat, first <= Size(f)
    PROVE  /\ LastUnit(f, first, n) \in Nat \cup {-1}
           /\ LastUnit(f, first, n) < Size(f)
BY SizeType DEF LastUnit, Least

\* TypeOK is kept by every step.
LEMMA TypeStep ==
    ASSUME TypeOK, \A t \in Readers : FrameInv(t), [Next]_vars
    PROVE  TypeOK'
<1>1. ASSUME NEW t \in Readers, NEW f \in Files, NEW first \in 0..Size(f),
             NEW n \in 0..MaxRequest, Begin(t, f, first, n)
      PROVE  TypeOK'
  <2> DEFINE last == LastUnit(f, first, n)
  <2>1. first \in Nat /\ last \in Nat \cup {-1}
    BY SizeType, SizesAssumption, LastUnitType
  <2>2. req' \in [Readers -> [file : Files, first : Nat, last : Nat \cup {-1}]]
    BY <1>1, <2>1 DEF TypeOK, Begin
  <2>3. Entry(f, first, last) \in Places
    BY DEF Entry, Places, Rest
  <2>4. pc' \in [Readers -> Places]
    BY <1>1, <2>3 DEF TypeOK, Begin, Goto
  <2>5. unit' \in [Readers -> Nat] /\ out' \in [Readers -> Seq(Chunk)]
    BY <1>1, <2>1 DEF TypeOK, Begin
  <2>6. UNCHANGED <<window, runEnd, engine, mmbd, udf, cache, lastEnd,
                    shuttingDown, closer, prefetch>>
    BY <1>1 DEF Begin
  <2>7. QED
    BY <2>2, <2>4, <2>5, <2>6 DEF TypeOK
<1>2. ASSUME NEW t \in Readers, ReadStep(t) PROVE TypeOK'
  BY <1>2, ReadTypeOK
<1>3. ASSUME NEW c \in Closers, RaiseFlag(c) PROVE TypeOK'
  BY <1>3 DEF TypeOK, RaiseFlag, frame
<1>4. ASSUME NEW c \in Closers, TakeContext(c) PROVE TypeOK'
  BY <1>4 DEF TypeOK, TakeContext, frame
<1>5. ASSUME NEW c \in Closers, CloseContext(c) PROVE TypeOK'
  BY <1>5 DEF TypeOK, CloseContext, frame
<1>6. CASE PrefetchStart
  BY <1>6 DEF TypeOK, PrefetchStart, frame
<1>7. CASE PrefetchEnd
  BY <1>7 DEF TypeOK, PrefetchEnd, frame
<1>8. CASE UNCHANGED vars
  BY <1>8 DEF TypeOK, vars
<1>9. QED
  BY <1>1, <1>2, <1>3, <1>4, <1>5, <1>6, <1>7, <1>8 DEF Next, Call, CloseStep

\* The mutex and the life of the context.
LEMMA EngineStep ==
    ASSUME TypeOK, EngineInv, \A t \in Readers : FrameInv(t), [Next]_vars
    PROVE  EngineInv'
<1> USE ThreadsAssumption DEF TypeOK, EngineInv, HoldsEngine, IsEncrypted, File
<1>1. ASSUME NEW t \in Readers, NEW f \in Files, NEW first \in 0..Size(f),
             NEW n \in 0..MaxRequest, Begin(t, f, first, n)
      PROVE  EngineInv'
  BY <1>1 DEF Begin, Entry, Goto
<1>2. ASSUME NEW t \in Readers, ReadStep(t) PROVE EngineInv'
  <2> USE DEF Goto, Return, ReleaseEngine
  <2>1. CASE FastHit(t)
    BY <2>1 DEF FastHit
  <2>2. CASE FastMiss(t)
    BY <2>2 DEF FastMiss, frame
  <2>3. CASE Acquire(t)
    BY <2>3 DEF Acquire
  <2>4. CASE AcquireTooLate(t)
    BY <2>4 DEF AcquireTooLate
  <2>5. CASE CachedUnit(t)
    BY <2>5 DEF CachedUnit
  <2>6. CASE MissedUnit(t)
    BY <2>6 DEF MissedUnit
  <2>7. CASE StartRead(t)
    BY <2>7 DEF StartRead, frame
  <2>8. CASE WindowRead(t)
    BY <2>8 DEF WindowRead, frame
  <2>9. CASE PassthroughRead(t)
    BY <2>9 DEF PassthroughRead
  <2>10. CASE SourceError(t)
    BY <2>10 DEF SourceError
  <2>11. CASE CacheChunk(t)
    BY <2>11 DEF CacheChunk
  <2>12. CASE ShortChunk(t)
    BY <2>12 DEF ShortChunk
  <2>13. CASE DecryptError(t)
    BY <2>13 DEF DecryptError, InWindow
  <2>14. CASE NextWindow(t)
    BY <2>14 DEF NextWindow, frame
  <2>15. CASE DropGuard(t)
    BY <2>15 DEF DropGuard, frame
  <2>16. CASE NoteRead(t)
    BY <2>16 DEF NoteRead
  <2>17. CASE EndOfSource(t)
    BY <2>17 DEF EndOfSource, frame
  <2>18. QED
    BY <1>2, <2>1, <2>2, <2>3, <2>4, <2>5, <2>6, <2>7, <2>8, <2>9, <2>10,
       <2>11, <2>12, <2>13, <2>14, <2>15, <2>16, <2>17 DEF ReadStep
<1>3. ASSUME NEW c \in Closers, RaiseFlag(c) PROVE EngineInv'
  BY <1>3 DEF RaiseFlag, frame
<1>4. ASSUME NEW c \in Closers, TakeContext(c) PROVE EngineInv'
  BY <1>4 DEF TakeContext, frame
<1>5. ASSUME NEW c \in Closers, CloseContext(c) PROVE EngineInv'
  BY <1>5 DEF CloseContext, frame
<1>6. CASE PrefetchStart
  BY <1>6 DEF PrefetchStart, frame
<1>7. CASE PrefetchEnd
  BY <1>7 DEF PrefetchEnd, frame
<1>8. CASE UNCHANGED vars
  BY <1>8 DEF vars
<1>9. QED
  BY <1>1, <1>2, <1>3, <1>4, <1>5, <1>6, <1>7, <1>8 DEF Next, Call, CloseStep

\* A chunk that libmmbd accepts, or need not be asked about, is plain.
LEMMA ChunkPlain ==
    ASSUME NEW f \in Encrypted, NEW u \in Nat, u < Given(f), Kind(f, u) # "bad"
    PROVE  Decrypted(f, u) = Plain(f, u)
<1>1. Kind(f, u) \in Kinds
  BY DiscAssumption, SizeType DEF Kind, Given
<1>2. CASE Kind(f, u) = "ts"
  BY <1>2 DEF Decrypted, OnDisc, Plain
<1>3. CASE Kind(f, u) = "noise"
  BY <1>3 DEF Decrypted, OnDisc, Plain
<1>4. CASE Kind(f, u) \in {"pad", "tail", "cut"}
  BY <1>4 DEF Decrypted, OnDisc, Plain
<1>5. QED
  BY <1>1, <1>2, <1>3, <1>4 DEF Kinds

\* Only the decrypt loop writes the cache.
LEMMA CacheStep ==
    ASSUME TypeOK, CacheSound, \A t \in Readers : FrameInv(t), [Next]_vars
    PROVE  CacheSound'
<1>1. ASSUME NEW t \in Readers, CacheChunk(t) PROVE CacheSound'
  <2> DEFINE key == UnitKey(t, unit[t])
             chunk == Decrypted(File(t), unit[t])
  <2>1. IsEncrypted(t) /\ unit[t] < Given(File(t))
    BY <1>1, TypesOf DEF FrameInv, CacheChunk, InWindow, ReadEnd, Least, File
  <2>2. chunk = Plain(File(t), unit[t])
    BY <1>1, <2>1, TypesOf, ChunkPlain DEF CacheChunk, IsEncrypted
  <2>3. PutUnit(key, chunk)
    BY <1>1 DEF CacheChunk
  <2>4. NameFlags[File(t)] = key[1] /\ unit[t] = key[2]
    BY DEF UnitKey, Key
  <2>5. File(t) \in Encrypted
    BY <2>1 DEF IsEncrypted
  <2> HIDE DEF key, chunk
  <2>6. \A k \in DOMAIN cache' :
              \/ k = key /\ cache'[k] = chunk
              \/ k \in DOMAIN cache /\ cache'[k] = cache[k]
    BY <2>3, PutUnitCases
  <2>7. QED
    BY <2>1, <2>2, <2>4, <2>5, <2>6 DEF CacheSound
<1>2. CASE UNCHANGED cache
  BY <1>2 DEF CacheSound
<1>3. ASSUME NEW t \in Readers, Call(t) \/ ReadStep(t) PROVE CacheSound'
  <2>1. CASE Call(t) \/ FastHit(t) \/ FastMiss(t) \/ Acquire(t) \/ AcquireTooLate(t)
    BY <1>2, <2>1 DEF Call, Begin, FastHit, FastMiss, Acquire, AcquireTooLate
  <2>2. CASE CachedUnit(t) \/ MissedUnit(t) \/ StartRead(t)
    BY <1>2, <2>2 DEF CachedUnit, MissedUnit, StartRead
  <2>3. CASE WindowRead(t) \/ PassthroughRead(t) \/ SourceError(t)
    BY <1>2, <2>3 DEF WindowRead, PassthroughRead, SourceError
  <2>4. CASE ShortChunk(t) \/ DecryptError(t) \/ NextWindow(t) \/ DropGuard(t) \/ NoteRead(t)
    BY <1>2, <2>4 DEF ShortChunk, DecryptError, NextWindow, DropGuard, NoteRead
  <2>5. CASE EndOfSource(t)
    BY <1>2, <2>5 DEF EndOfSource
  <2>6. QED
    BY <1>1, <1>3, <2>1, <2>2, <2>3, <2>4, <2>5 DEF ReadStep
<1>4. ASSUME NEW c \in Closers, RaiseFlag(c) \/ CloseStep(c) PROVE CacheSound'
  BY <1>2, <1>4 DEF RaiseFlag, CloseStep, TakeContext, CloseContext
<1>5. CASE PrefetchStart \/ PrefetchEnd \/ UNCHANGED vars
  BY <1>2, <1>5 DEF PrefetchStart, PrefetchEnd, vars
<1>6. QED
  BY <1>3, <1>4, <1>5 DEF Next

\* A step of one reader is no step of another.
LEMMA OthersKeepFrame ==
    ASSUME TypeOK, NEW t \in Readers, NEW s \in Readers \ {t}, ReadStep(t)
    PROVE  SameFrame(s)
BY DEF TypeOK, SameFrame, ReadStep, Goto, Return, NextChunk, AppendSlice, frame,
   FastHit, FastMiss, Acquire, AcquireTooLate, CachedUnit, MissedUnit, StartRead,
   WindowRead, PassthroughRead, SourceError, CacheChunk, ShortChunk, DecryptError,
   NextWindow, EndOfSource, DropGuard, NoteRead

\* A read that returned has no frame left to keep.
LEMMA ReturnFrame ==
    ASSUME TypeOK, NEW t \in Readers, FrameInv(t), UNCHANGED req,
           NEW result \in Rest, NEW bytes, Return(t, result, bytes)
    PROVE  FrameInv(t)'
<1>1. pc'[t] \in Rest
  BY DEF TypeOK, Return, Goto
<1>2. req'[t].last < Size(req'[t].file)
  BY DEF FrameInv, File
<1>3. QED
  BY <1>1, <1>2 DEF FrameInv, File, Rest, HoldsEngine

\* Serving the next unit in the clear makes the reply one unit longer,
\* unless the request ended before it.
LEMMA ServeUnit ==
    ASSUME TypeOK, NEW t \in Readers, FrameInv(t), pc[t] \in {"loop", "dec"},
           UNCHANGED req, unit' = [unit EXCEPT ![t] = @ + 1],
           AppendSlice(t, unit[t], Plain(File(t), unit[t]))
    PROVE  /\ unit'[t] = unit[t] + 1
           /\ out'[t] = PlainRun(File(t), req[t].first, Served(t)')
<1> DEFINE f == File(t)
           first == req[t].first
           last == req[t].last
           u == unit[t]
<1>1. /\ f \in Files /\ first \in Nat /\ last \in Int /\ u \in Nat
      /\ first <= u /\ first <= last /\ out[t] = PlainRun(f, first, Served(t))
  BY TypesOf DEF FrameInv, Rest
<1>2. unit'[t] = u + 1
  BY DEF TypeOK
<1>3. Served(t)' = IF u + 1 <= last THEN u + 1 - first ELSE last - first + 1
  BY <1>1, <1>2 DEF Served
<1>4. CASE u <= last
  <2>1. out'[t] = Append(out[t], Plain(f, u))
    BY <1>4 DEF AppendSlice, TypeOK
  <2>2. Served(t) = u - first /\ u - first \in Nat /\ first + (u - first) = u
    BY <1>1, <1>4 DEF Served
  <2>3. Served(t)' = (u - first) + 1
    BY <1>1, <1>3, <1>4
  <2>4. Append(PlainRun(f, first, u - first), Plain(f, u)) = PlainRun(f, first, (u - first) + 1)
    <3> HIDE DEF f, first, u
    <3>1. Append(PlainRun(f, first, u - first), Plain(f, first + (u - first)))
             = PlainRun(f, first, (u - first) + 1)
      BY <1>1, <2>2, AppendRun
    <3>2. QED
      BY <2>2, <3>1
  <2>5. QED
    BY <1>1, <1>2, <2>1, <2>2, <2>3, <2>4
<1>5. CASE ~(u <= last)
  <2>1. out'[t] = out[t]
    BY <1>5 DEF AppendSlice
  <2>2. Served(t)' = Served(t)
    BY <1>1, <1>3, <1>5 DEF Served
  <2>3. QED
    BY <1>1, <1>2, <2>1, <2>2
<1>6. QED
  BY <1>4, <1>5

\* A read that moves keeps its frame: what it appends is the next plain unit.
LEMMA OwnFrame ==
    ASSUME TypeOK, CacheSound, NEW t \in Readers, FrameInv(t), ReadStep(t)
    PROVE  FrameInv(t)'
<1> USE DEF Rest, HoldsEngine
<1>0. /\ File(t) \in Files /\ Size(File(t)) \in Nat
      /\ req[t].first \in Nat /\ req[t].last \in Int
      /\ unit[t] \in Nat /\ runEnd[t] \in Nat /\ window[t] \in Nat
      /\ Given(File(t)) \in Nat /\ Given(File(t)) <= Size(File(t))
  BY TypesOf DEF File
<1>1. CASE FastHit(t)
  BY <1>1, ReturnFrame DEF FastHit
<1>2. CASE FastMiss(t)
  <2>1. pc[t] = "fast" /\ pc'[t] = "lock" /\ UNCHANGED <<req, unit, window, runEnd, out>>
    BY <1>2 DEF FastMiss, Goto, frame, TypeOK
  <2>2. QED
    BY <1>0, <2>1 DEF FrameInv, Served, IsEncrypted, File
<1>3. CASE Acquire(t)
  <2>1. /\ pc[t] = "lock" /\ pc'[t] = "loop" /\ window'[t] > 0
        /\ UNCHANGED <<req, unit, runEnd, out>>
    BY <1>3, SizesAssumption DEF Acquire, Goto, TypeOK
  <2>2. QED
    BY <1>0, <2>1 DEF FrameInv, Served, IsEncrypted, File
<1>4. CASE AcquireTooLate(t)
  BY <1>4, ReturnFrame DEF AcquireTooLate
<1>5. CASE CachedUnit(t)
  <2>1. pc[t] = "loop" /\ pc'[t] = "loop" /\ UNCHANGED <<req, window, runEnd>>
    BY <1>5 DEF CachedUnit
  <2>2. IsEncrypted(t) /\ unit[t] <= req[t].last /\ req[t].last < Size(File(t))
    BY <1>5, <2>1 DEF FrameInv, CachedUnit
  <2>3. cache[UnitKey(t, unit[t])] = Plain(File(t), unit[t]) /\ unit[t] < Given(File(t))
    BY <1>5, <2>2, CachedPlain DEF CachedUnit, UnitKey, IsEncrypted
  <2>4. unit'[t] = unit[t] + 1 /\ out'[t] = PlainRun(File(t), req[t].first, Served(t)')
    BY <1>5, <2>1, <2>3, ServeUnit DEF CachedUnit
  <2>5. QED
    BY <1>0, <2>1, <2>2, <2>3, <2>4 DEF FrameInv, IsEncrypted, File
<1>6. CASE MissedUnit(t)
  <2>1. pc[t] = "loop" /\ pc'[t] = "src" /\ UNCHANGED <<req, unit, window, out>>
    BY <1>6 DEF MissedUnit, Goto, TypeOK
  <2>2. unit[t] <= req[t].last /\ req[t].last < Size(File(t))
    BY <1>6 DEF FrameInv, MissedUnit
  <2>3. runEnd'[t] = Least(unit[t] + window[t], Size(File(t)))
    BY <1>6 DEF MissedUnit, TypeOK
  <2>4. runEnd'[t] > 0 /\ runEnd'[t] <= Size(File(t))
    BY <1>0, <2>1, <2>2, <2>3 DEF FrameInv, Least
  <2>5. QED
    BY <1>0, <2>1, <2>2, <2>4 DEF FrameInv, Served, IsEncrypted, File
<1>7. CASE StartRead(t)
  <2>1. pc[t] = "src" /\ pc'[t] = "io" /\ UNCHANGED <<req, unit, window, runEnd, out>>
    BY <1>7 DEF StartRead, Goto, frame, TypeOK
  <2>2. QED
    BY <1>0, <2>1 DEF FrameInv, Served, IsEncrypted, File
<1>8. CASE WindowRead(t)
  <2>1. /\ pc[t] = "io" /\ pc'[t] = "dec" /\ IsEncrypted(t)
        /\ UNCHANGED <<req, unit, window, runEnd, out>>
    BY <1>8 DEF WindowRead, Goto, frame, TypeOK
  <2>2. QED
    BY <1>0, <2>1 DEF FrameInv, Served, IsEncrypted, File
<1>9. CASE PassthroughRead(t)
  BY <1>9, ReturnFrame DEF PassthroughRead
<1>10. CASE SourceError(t)
  BY <1>10, ReturnFrame DEF SourceError
<1>11. ASSUME CacheChunk(t) \/ ShortChunk(t) PROVE FrameInv(t)'
  <2>1. pc[t] = "dec" /\ pc'[t] = "dec" /\ UNCHANGED <<req, window, runEnd>>
    BY <1>11 DEF CacheChunk, ShortChunk, InWindow
  <2>2. IsEncrypted(t) /\ unit[t] < ReadEnd(t)
    BY <1>11, <2>1 DEF FrameInv, CacheChunk, ShortChunk, InWindow
  <2>3. unit[t] < Given(File(t))
    BY <1>0, <2>2 DEF ReadEnd, Least
  <2>4. AppendSlice(t, unit[t], Plain(File(t), unit[t]))
    <3>1. CASE CacheChunk(t)
      BY <1>0, <2>2, <2>3, <3>1, ChunkPlain DEF CacheChunk, IsEncrypted
    <3>2. CASE ShortChunk(t)
      BY <3>2 DEF ShortChunk, OnDisc, Plain
    <3>3. QED
      BY <1>11, <3>1, <3>2
  <2>5. unit'[t] = unit[t] + 1 /\ out'[t] = PlainRun(File(t), req[t].first, Served(t)')
    BY <1>11, <2>1, <2>4, ServeUnit DEF CacheChunk, ShortChunk, NextChunk
  <2>6. QED
    BY <1>0, <2>1, <2>2, <2>3, <2>5 DEF FrameInv, IsEncrypted, File
<1>12. CASE DecryptError(t)
  BY <1>12, ReturnFrame DEF DecryptError
<1>13. CASE NextWindow(t)
  <2>1. pc[t] = "dec" /\ pc'[t] = "loop" /\ UNCHANGED <<req, unit, window, runEnd, out>>
    BY <1>13 DEF NextWindow, Goto, frame, TypeOK
  <2>2. QED
    BY <1>0, <2>1 DEF FrameInv, Served, IsEncrypted, File
<1>14. CASE DropGuard(t)
  <2>1. /\ pc[t] = "loop" /\ pc'[t] = "note" /\ unit[t] > req[t].last
        /\ UNCHANGED <<req, unit, window, runEnd, out>>
    BY <1>14 DEF DropGuard, Goto, frame, TypeOK
  <2>2. QED
    BY <1>0, <2>1 DEF FrameInv, Served, IsEncrypted, File
<1>15. CASE NoteRead(t)
  BY <1>15, ReturnFrame DEF NoteRead
<1>16. CASE EndOfSource(t)
  <2>1. /\ pc[t] = "dec" /\ pc'[t] = "note" /\ unit[t] >= ReadEnd(t) /\ Short(t)
        /\ UNCHANGED <<req, unit, window, runEnd, out>>
    BY <1>0, <1>16 DEF EndOfSource, InWindow, ReadEnd, Least, Goto, frame, TypeOK
  <2>2. IsEncrypted(t) /\ req[t].last < Size(File(t)) /\ runEnd[t] > 0
    BY <2>1 DEF FrameInv
  <2>3. unit[t] > req[t].last \/ unit[t] >= Given(File(t))
    <3>1. CASE ReadEnd(t) = Given(File(t))
      BY <2>1, <3>1
    <3>2. CASE ReadEnd(t) = runEnd[t] /\ runEnd[t] <= Given(File(t))
      <4>1. Units[File(t)][runEnd[t]] \in {"tail", "cut"}
        BY <1>0, <2>1, <3>2 DEF Short, Kind
      <4>2. runEnd[t] = Size(File(t)) \/ runEnd[t] = Given(File(t))
        BY <1>0, <2>2, <3>2, <4>1, DiscAssumption DEF Size, Given
      <4>3. QED
        BY <1>0, <2>1, <2>2, <3>2, <4>2
    <3>3. QED
      BY <1>0, <3>1, <3>2 DEF ReadEnd, Least
  <2>4. QED
    BY <1>0, <2>1, <2>3 DEF FrameInv, Served, IsEncrypted, File
<1>17. QED
  BY <1>1, <1>2, <1>3, <1>4, <1>5, <1>6, <1>7, <1>8, <1>9, <1>10, <1>11,
     <1>12, <1>13, <1>14, <1>15, <1>16 DEF ReadStep

\* No units at all.
LEMMA EmptyRun ==
    ASSUME NEW f, NEW first \in Nat, NEW n \in Int, n <= 0
    PROVE  PlainRun(f, first, n) = <<>>
<1>1. 1..n = {}
  OBVIOUS
<1>2. QED
  BY <1>1 DEF PlainRun

\* The frames of all readers are kept.
LEMMA FrameStep ==
    ASSUME TypeOK, CacheSound, \A t \in Readers : FrameInv(t), [Next]_vars
    PROVE  \A t \in Readers : FrameInv(t)'
<1>1. ASSUME NEW t \in Readers, NEW f \in Files, NEW first \in 0..Size(f),
             NEW n \in 0..MaxRequest, Begin(t, f, first, n), NEW s \in Readers
      PROVE  FrameInv(s)'
  <2>1. CASE s # t
    <3>1. SameFrame(s)
      BY <1>1, <2>1 DEF TypeOK, Begin, Goto, SameFrame
    <3>2. QED
      BY <3>1, FrameStable
  <2>2. CASE s = t
    <3> DEFINE last == LastUnit(f, first, n)
    <3>1. first \in Nat /\ last \in Nat \cup {-1} /\ last < Size(f)
      BY SizeType, SizesAssumption, LastUnitType
    <3>2. req'[t] = [file |-> f, first |-> first, last |-> last]
      BY <1>1 DEF TypeOK, Begin
    <3>3. unit'[t] = first /\ out'[t] = <<>>
      BY <1>1 DEF TypeOK, Begin
    <3>4. pc'[t] = Entry(f, first, last)
      BY <1>1 DEF TypeOK, Begin, Goto
    <3> HIDE DEF last
    <3>5. CASE pc'[t] = "src"
      <4>1. f \notin Encrypted
        BY <3>4, <3>5 DEF Entry
      <4>2. QED
        BY <2>2, <3>1, <3>2, <3>5, <4>1 DEF FrameInv, IsEncrypted, File, Rest, HoldsEngine
    <3>6. CASE pc'[t] = "fast"
      <4>1. f \in Encrypted /\ first <= last
        BY <3>1, <3>4, <3>6 DEF Entry
      <4>2. Served(t)' = 0
        BY <3>1, <3>2, <3>3, <4>1 DEF Served
      <4>3. PlainRun(f, first, 0) = <<>>
        BY <3>1, EmptyRun
      <4>4. QED
        BY <2>2, <3>1, <3>2, <3>3, <3>6, <4>1, <4>2, <4>3
           DEF FrameInv, IsEncrypted, File, Rest, HoldsEngine
    <3>7. CASE pc'[t] \in Rest
      BY <2>2, <3>1, <3>2, <3>7 DEF FrameInv, File, Rest, HoldsEngine
    <3>8. QED
      BY <3>4, <3>5, <3>6, <3>7 DEF Entry, Rest
  <2>3. QED
    BY <2>1, <2>2
<1>2. ASSUME NEW t \in Readers, ReadStep(t), NEW s \in Readers PROVE FrameInv(s)'
  BY <1>2, OwnFrame, OthersKeepFrame, FrameStable
<1>3. ASSUME UNCHANGED <<pc, frame, out>>, NEW s \in Readers PROVE FrameInv(s)'
  <2>1. SameFrame(s)
    BY <1>3 DEF SameFrame, frame
  <2>2. QED
    BY <2>1, FrameStable
<1>4. (\E c \in Closers : RaiseFlag(c) \/ CloseStep(c)) \/ PrefetchStart \/ PrefetchEnd
         \/ UNCHANGED vars
      => UNCHANGED <<pc, frame, out>>
  BY DEF CloseStep, RaiseFlag, TakeContext, CloseContext, PrefetchStart, PrefetchEnd, vars, frame
<1>5. QED
  BY <1>1, <1>2, <1>3, <1>4 DEF Next, Call

\* The reply of one reader, once it has returned in success.
Reply(t) == PlainRun(File(t), req[t].first,
                     Least(req[t].last + 1, Given(File(t))) - req[t].first)

\* A read that succeeds has replied what was asked.
LEMMA OwnReply ==
    ASSUME TypeOK, CacheSound, NEW t \in Readers, FrameInv(t), ReadStep(t), pc'[t] = "ok"
    PROVE  out'[t] = Reply(t)'
<1> DEFINE first == req[t].first
           last == req[t].last
           n == Least(last + 1, Given(File(t))) - first
<1>0. /\ File(t) \in Files /\ first \in Nat /\ last \in Int /\ last + 1 \in Nat
      /\ unit[t] \in Nat /\ Given(File(t)) \in Nat
  BY TypesOf DEF File
<1>1. CASE FastHit(t)
  <2>1. IsEncrypted(t) /\ UNCHANGED req /\ first <= last
    BY <1>1 DEF FrameInv, FastHit, Rest
  <2>2. ASSUME NEW u \in first..last
        PROVE  cache[UnitKey(t, u)] = Plain(File(t), u) /\ u < Given(File(t))
    BY <1>1, <2>1, CachedPlain DEF FastHit, Hits, UnitKey, IsEncrypted
  <2>3. last < Given(File(t))
    BY <1>0, <2>1, <2>2
  <2>4. n = last - first + 1
    BY <1>0, <2>3 DEF Least
  <2>5. \A i \in 1..(last - first + 1) :
           cache[UnitKey(t, first + i - 1)] = Plain(File(t), first + i - 1)
    <3> HIDE DEF first, last
    <3>1. QED
      BY <1>0, <2>2, RunUnits
  <2>6. out'[t] = [i \in 1..(last - first + 1) |-> cache[UnitKey(t, first + i - 1)]]
    BY <1>1 DEF TypeOK, FastHit, Return
  <2>7. QED
    BY <2>1, <2>4, <2>5, <2>6 DEF Reply, PlainRun, File
<1>2. CASE PassthroughRead(t)
  <2>1. ~IsEncrypted(t) /\ UNCHANGED req
    BY <1>2 DEF PassthroughRead
  <2>2. \A u : OnDisc(File(t), u) = Plain(File(t), u)
    BY <2>1 DEF OnDisc, Plain, IsEncrypted
  <2>3. out'[t] = [i \in 1..n |-> OnDisc(File(t), first + i - 1)]
    BY <1>2 DEF TypeOK, PassthroughRead, Return
  <2>4. QED
    BY <2>1, <2>2, <2>3 DEF Reply, PlainRun, File
<1>3. CASE NoteRead(t)
  <2>1. UNCHANGED req /\ out'[t] = out[t] /\ pc[t] = "note"
    BY <1>3 DEF TypeOK, NoteRead, Return
  <2>2. /\ IsEncrypted(t) /\ first <= last /\ first <= unit[t]
        /\ unit[t] = first \/ unit[t] <= Given(File(t))
        /\ unit[t] > last \/ unit[t] >= Given(File(t))
        /\ out[t] = PlainRun(File(t), first, Served(t))
    BY <2>1 DEF FrameInv, Rest
  <2>3. CASE Served(t) = n
    BY <2>1, <2>2, <2>3 DEF Reply, File
  <2>4. CASE Served(t) # n
    <3>1. Served(t) = 0 /\ n <= 0 /\ n \in Int
      BY <1>0, <2>2, <2>4 DEF Served, Least
    <3> HIDE DEF n
    <3>2. PlainRun(File(t), first, n) = <<>> /\ out[t] = <<>>
      BY <1>0, <2>2, <3>1, EmptyRun
    <3>3. QED
      BY <2>1, <3>2 DEF Reply, File, n
  <2>5. QED
    BY <2>3, <2>4
<1>4. QED
  BY <1>1, <1>2, <1>3 DEF TypeOK, ReadStep, Goto, Return, FastMiss, Acquire,
     AcquireTooLate, CachedUnit, MissedUnit, StartRead, WindowRead, SourceError,
     CacheChunk, ShortChunk, DecryptError, InWindow, NextWindow, EndOfSource, DropGuard

\* RepliesSound is kept: a reply that was given does not change.
LEMMA RepliesStep ==
    ASSUME TypeOK, CacheSound, \A t \in Readers : FrameInv(t), RepliesSound, [Next]_vars
    PROVE  RepliesSound'
<1> SUFFICES ASSUME NEW s \in Readers, pc'[s] = "ok"
             PROVE  out'[s] = Reply(s)'
  BY DEF RepliesSound, Reply, PlainRun, File
<1>0. pc[s] = "ok" => out[s] = Reply(s)
  BY DEF RepliesSound, Reply, PlainRun, File
<1>1. CASE SameFrame(s)
  BY <1>0, <1>1 DEF SameFrame, Reply, File
<1>2. ASSUME NEW t \in Readers, NEW f \in Files, NEW first \in 0..Size(f),
             NEW n \in 0..MaxRequest, Begin(t, f, first, n)
      PROVE  out'[s] = Reply(s)'
  <2>1. CASE s # t
    <3>1. SameFrame(s)
      BY <1>2, <2>1 DEF TypeOK, Begin, Goto, SameFrame
    <3>2. QED
      BY <1>1, <3>1
  <2>2. CASE s = t
    <3> DEFINE last == LastUnit(f, first, n)
    <3>1. first \in Nat /\ last \in Int
      BY SizeType, SizesAssumption, LastUnitType
    <3>2. req'[t] = [file |-> f, first |-> first, last |-> last] /\ out'[t] = <<>>
      BY <1>2 DEF TypeOK, Begin
    <3>3. Entry(f, first, last) = "ok"
      BY <1>2, <2>2 DEF TypeOK, Begin, Goto
    <3> HIDE DEF last
    <3>4. last < first
      BY <3>3 DEF Entry
    <3>5. PlainRun(f, first, Least(last + 1, Given(f)) - first) = <<>>
      <4>1. Least(last + 1, Given(f)) - first \in Int
            /\ Least(last + 1, Given(f)) - first <= 0
        BY <3>1, <3>4, SizeType DEF Least
      <4>2. QED
        BY <3>1, <4>1, EmptyRun
    <3>6. QED
      BY <2>2, <3>2, <3>5 DEF Reply, File
  <2>3. QED
    BY <2>1, <2>2
<1>3. ASSUME NEW t \in Readers, ReadStep(t) PROVE out'[s] = Reply(s)'
  BY <1>1, <1>3, OwnReply, OthersKeepFrame
<1>4. ASSUME UNCHANGED <<pc, frame, out>> PROVE out'[s] = Reply(s)'
  BY <1>1, <1>4 DEF SameFrame, frame
<1>5. (\E c \in Closers : RaiseFlag(c) \/ CloseStep(c)) \/ PrefetchStart \/ PrefetchEnd
         \/ UNCHANGED vars
      => UNCHANGED <<pc, frame, out>>
  BY DEF CloseStep, RaiseFlag, TakeContext, CloseContext, PrefetchStart, PrefetchEnd, vars, frame
<1>6. QED
  BY <1>2, <1>3, <1>4, <1>5 DEF Next, Call

-----------------------------------------------------------------------------
(* The disc is asked once, by one thread at a time *)

\* Nobody but the holder of the mutex puts units into the cache, so the unit
\* a window begins with stays a miss until that window has been read.
LEMMA MissStep ==
    ASSUME IInv, NoReadOfCachedUnit, [Next]_vars
    PROVE  NoReadOfCachedUnit'
<1> SUFFICES ASSUME NEW s \in Readers, pc'[s] \in {"src", "io"}, IsEncrypted(s)'
             PROVE  (UnitKey(s, unit[s]) \notin DOMAIN cache)'
  BY DEF NoReadOfCachedUnit
<1> USE DEF File, UnitKey, IsEncrypted
<1>0. TypeOK /\ pc \in [Readers -> Places]
  BY DEF IInv, TypeOK
<1>1. ASSUME SameFrame(s), DOMAIN cache' \subseteq DOMAIN cache
      PROVE  (UnitKey(s, unit[s]) \notin DOMAIN cache)'
  BY <1>1 DEF SameFrame, NoReadOfCachedUnit
<1>2. ASSUME NEW t \in Readers, NEW f \in Files, NEW first \in 0..Size(f),
             NEW n \in 0..MaxRequest, Begin(t, f, first, n)
      PROVE  (UnitKey(s, unit[s]) \notin DOMAIN cache)'
  <2>1. CASE s # t
    <3>1. SameFrame(s) /\ UNCHANGED cache
      BY <1>2, <2>1 DEF IInv, TypeOK, Begin, Goto, SameFrame
    <3>2. QED
      BY <1>1, <3>1
  <2>2. CASE s = t
    <3>1. pc'[t] = Entry(f, first, LastUnit(f, first, n)) /\ req'[t].file = f
      BY <1>2 DEF IInv, TypeOK, Begin, Goto
    <3>2. QED
      BY <2>2, <3>1 DEF Entry
  <2>3. QED
    BY <2>1, <2>2
<1>3. ASSUME NEW t \in Readers, ReadStep(t)
      PROVE  (UnitKey(s, unit[s]) \notin DOMAIN cache)'
  <2>1. CASE s # t
    <3>1. SameFrame(s)
      BY <1>0, <1>3, <2>1, OthersKeepFrame
    <3>2. engine = s
      BY <3>1 DEF SameFrame, IInv, EngineInv, HoldsEngine
    <3>3. ~CacheChunk(t)
      BY <2>1, <3>2 DEF CacheChunk, InWindow, IInv, EngineInv, HoldsEngine
    <3>4. UNCHANGED cache
      BY <1>3, <3>3 DEF ReadStep, FastHit, FastMiss, Acquire, AcquireTooLate, CachedUnit,
         MissedUnit, StartRead, WindowRead, PassthroughRead, SourceError, ShortChunk,
         DecryptError, NextWindow, EndOfSource, DropGuard, NoteRead
    <3>5. QED
      BY <1>1, <3>1, <3>4
  <2>2. CASE s = t
    <3>1. CASE MissedUnit(t)
      BY <2>2, <3>1 DEF MissedUnit
    <3>2. CASE StartRead(t)
      <4>1. pc[t] = "src" /\ UNCHANGED <<frame, cache>>
        BY <3>2 DEF StartRead
      <4>2. QED
        BY <2>2, <4>1 DEF NoReadOfCachedUnit, frame
    <3>3. QED
      BY <1>0, <1>3, <2>2, <3>1, <3>2 DEF ReadStep, Goto, Return, Places, Rest,
         FastHit, FastMiss, Acquire, AcquireTooLate, CachedUnit, WindowRead,
         PassthroughRead, SourceError, CacheChunk, InWindow, ShortChunk, DecryptError,
         NextWindow, EndOfSource, DropGuard, NoteRead
  <2>3. QED
    BY <2>1, <2>2
<1>4. ASSUME UNCHANGED <<pc, frame, out, cache>>
      PROVE  (UnitKey(s, unit[s]) \notin DOMAIN cache)'
  BY <1>1, <1>4 DEF SameFrame, frame
<1>5. (\E c \in Closers : RaiseFlag(c) \/ CloseStep(c)) \/ PrefetchStart \/ PrefetchEnd
         \/ UNCHANGED vars
      => UNCHANGED <<pc, frame, out, cache>>
  BY DEF CloseStep, RaiseFlag, TakeContext, CloseContext, PrefetchStart, PrefetchEnd, vars, frame
<1>6. QED
  BY <1>2, <1>3, <1>4, <1>5 DEF Next, Call

\* A reader on the disc holds the mutex of RawUdf.
UdfInv == \A t \in Readers : pc[t] = "io" => udf = t

\* Over a raw disc, who is on the drive has the mutex of RawUdf.
LEMMA UdfStep ==
    ASSUME UseUdf, TypeOK, UdfInv, [Next]_vars
    PROVE  UdfInv'
<1> USE ThreadsAssumption DEF TypeOK, UdfInv, Goto, Return, EndSourceRead, frame
<1>1. ASSUME NEW t \in Readers, NEW f \in Files, NEW first \in 0..Size(f),
             NEW n \in 0..MaxRequest, Begin(t, f, first, n)
      PROVE  UdfInv'
  BY <1>1 DEF Begin, Entry
<1>2. ASSUME NEW t \in Readers, ReadStep(t) PROVE UdfInv'
  <2>1. CASE StartRead(t)
    BY <2>1 DEF StartRead
  <2>2. CASE WindowRead(t) \/ PassthroughRead(t) \/ SourceError(t)
    BY <2>2 DEF WindowRead, PassthroughRead, SourceError
  <2>3. CASE FastHit(t) \/ FastMiss(t) \/ Acquire(t) \/ AcquireTooLate(t)
    BY <2>3 DEF FastHit, FastMiss, Acquire, AcquireTooLate
  <2>4. CASE CachedUnit(t) \/ MissedUnit(t) \/ CacheChunk(t) \/ ShortChunk(t)
    BY <2>4 DEF CachedUnit, MissedUnit, CacheChunk, ShortChunk
  <2>5. CASE DecryptError(t) \/ NextWindow(t) \/ EndOfSource(t) \/ DropGuard(t) \/ NoteRead(t)
    BY <2>5 DEF DecryptError, NextWindow, EndOfSource, DropGuard, NoteRead
  <2>6. QED
    BY <1>2, <2>1, <2>2, <2>3, <2>4, <2>5 DEF ReadStep
<1>3. ASSUME UNCHANGED <<pc, udf>> PROVE UdfInv'
  BY <1>3
<1>4. (\E c \in Closers : RaiseFlag(c) \/ CloseStep(c)) \/ UNCHANGED vars => UNCHANGED <<pc, udf>>
  BY DEF CloseStep, RaiseFlag, TakeContext, CloseContext, vars
<1>5. CASE PrefetchStart
  BY <1>5 DEF PrefetchStart
<1>6. CASE PrefetchEnd
  BY <1>6 DEF PrefetchEnd
<1>7. QED
  BY <1>1, <1>2, <1>3, <1>4, <1>5, <1>6 DEF Next, Call

-----------------------------------------------------------------------------

\* Every step keeps the invariant.
LEMMA Inductive == IInv /\ [Next]_vars => IInv'
BY TypeStep, EngineStep, CacheStep, FrameStep, RepliesStep DEF IInv

\* The invariant always holds.
LEMMA Invariance == Spec => []IInv
<1>1. Init => IInv
  BY InitIInv
<1>2. IInv /\ [Next]_vars => IInv'
  BY Inductive
<1>3. QED
  BY <1>1, <1>2, PTL DEF Spec

\* Every variable of the engine keeps to its type.
THEOREM TypeCorrect == Spec => []TypeOK
<1>1. IInv => TypeOK
  BY DEF IInv
<1>2. QED
  BY <1>1, Invariance, PTL

\* Whatever readers, windows, evictions and errors come together, the cache
\* holds nothing but plain units under the key of their own stream.
THEOREM CacheCorrect == Spec => []CacheSound
<1>1. IInv => CacheSound
  BY DEF IInv
<1>2. QED
  BY <1>1, Invariance, PTL

\* A read that returns in success has returned exactly the units of its
\* clipped request that the source gives, whatever the source's end.
THEOREM RepliesCorrect == Spec => []RepliesSound
<1>1. IInv => RepliesSound
  BY DEF IInv
<1>2. QED
  BY <1>1, Invariance, PTL

\* libmmbd is only used under the mutex and never after it was closed.
THEOREM LibmmbdSafe == Spec => []LibmmbdExclusive
<1>1. IInv => LibmmbdExclusive
  BY DEF IInv, EngineInv, HoldsEngine, LibmmbdExclusive
<1>2. QED
  BY <1>1, Invariance, PTL

\* No read of an encrypted file goes to the disc once shutdown() has taken
\* the context.
THEOREM NoLateRead == Spec => []NoEncryptedReadAfterClose
<1>1. IInv => NoEncryptedReadAfterClose
  BY DEF IInv, EngineInv, HoldsEngine, NoEncryptedReadAfterClose
<1>2. QED
  BY <1>1, Invariance, PTL

\* The disc is asked for a window only while its first unit is not cached:
\* requests that wait for the same unit do not each read it again.
THEOREM WindowsReadOnce == Spec => []NoReadOfCachedUnit
<1>1. Init => NoReadOfCachedUnit
  BY DEF Init, NoReadOfCachedUnit
<1>2. IInv /\ NoReadOfCachedUnit /\ [Next]_vars => NoReadOfCachedUnit'
  BY MissStep
<1>3. QED
  BY <1>1, <1>2, Invariance, PTL DEF Spec

\* Over a raw-UDF disc two reads, or a read and a prefetch, are never on the
\* drive at once.  Over a volume nothing keeps two passthrough reads apart.
THEOREM DriveExclusive == ASSUME UseUdf PROVE Spec => []OneReader
<1>1. Init => UdfInv
  BY DEF Init, UdfInv
<1>2. TypeOK /\ UdfInv /\ [Next]_vars => UdfInv'
  BY UdfStep
<1>3. TypeOK /\ UdfInv => OneReader
  <2> SUFFICES ASSUME TypeOK, UdfInv PROVE OneReader
    OBVIOUS
  <2>1. DiscReaders \subseteq {udf}
    BY DEF DiscReaders, UdfInv
  <2>2. IsFiniteSet({udf}) /\ Cardinality({udf}) = 1
    BY FS_Singleton
  <2>3. IsFiniteSet(DiscReaders) /\ Cardinality(DiscReaders) <= 1
    BY <2>1, <2>2, FS_Subset
  <2>4. QED
    BY <2>3 DEF OneReader
<1>4. QED
  BY <1>1, <1>2, <1>3, TypeCorrect, PTL DEF Spec

-----------------------------------------------------------------------------
(* The engine implements ReadService *)

\* The state of the service that a state of the engine stands for.
PhaseOf(t) == IF pc[t] \in Rest THEN pc[t] ELSE "busy"
ReplyOf(t) == IF pc[t] = "ok" THEN out[t] ELSE <<>>

\* A step of one reader that leaves its request alone is an answer, a refusal
\* or a step inside the engine.
LEMMA ReadStepRefines ==
    ASSUME IInv, NEW t \in Readers, ReadStep(t)
    PROVE  [Service!Next]_(Service!svars)
<1>1. /\ UNCHANGED <<req, shuttingDown>>
      /\ pc[t] \notin Rest /\ pc'[t] \in Places \ {"idle"}
      /\ \A s \in Readers \ {t} : SameFrame(s)
  <2>1. UNCHANGED <<req, shuttingDown>> /\ pc[t] \notin Rest /\ pc'[t] \in Places \ {"idle"}
    BY DEF IInv, TypeOK, Places, Rest, ReadStep, Goto, Return, frame,
       FastHit, FastMiss, Acquire, AcquireTooLate, CachedUnit, MissedUnit, StartRead,
       WindowRead, PassthroughRead, SourceError, CacheChunk, InWindow, ShortChunk, DecryptError,
       NextWindow, EndOfSource, DropGuard, NoteRead
  <2>2. QED
    BY <2>1, OthersKeepFrame DEF IInv
<1>2. \A s \in Readers \ {t} : PhaseOf(s)' = PhaseOf(s) /\ ReplyOf(s)' = ReplyOf(s)
  BY <1>1 DEF SameFrame, PhaseOf, ReplyOf
<1>3. PhaseOf(t) = "busy" /\ ReplyOf(t) = <<>>
  BY <1>1 DEF PhaseOf, ReplyOf, Rest
<1>4. CASE pc'[t] = "ok"
  <2>1. out'[t] = Service!Bytes(req[t])
    <3> DEFINE f == File(t)
               n == Least(req[t].last + 1, Given(f)) - req[t].first
               shown == [i \in 1..Given(f) |-> Plain(f, i - 1)]
    <3>1. out'[t] = PlainRun(f, req[t].first, n)
      BY <1>1, <1>4, OwnReply DEF IInv, Reply, File
    <3>2. /\ f \in Files /\ f = req[t].file /\ Given(f) \in Nat
          /\ req[t].first \in Nat /\ req[t].last \in Int
      BY TypesOf DEF IInv, File
    <3>3. [g \in Files |-> [i \in 1..Given(g) |-> Plain(g, i - 1)]][req[t].file] = shown
      BY <3>2
    <3>4. Len(shown) = Given(f)
      BY <3>2
    <3>5. /\ n \in Int
          /\ n = (IF req[t].last < Given(f) THEN req[t].last + 1 ELSE Given(f)) - req[t].first
      BY <3>2 DEF Least
    <3> HIDE DEF n
    <3>6. Service!Bytes(req[t]) = [i \in 1..n |-> shown[req[t].first + i]]
      <4> DEFINE all == [g \in Files |-> [i \in 1..Given(g) |-> Plain(g, i - 1)]]
                 end == IF req[t].last < Len(all[req[t].file])
                        THEN req[t].last + 1 ELSE Len(all[req[t].file])
      <4>1. Service!Bytes(req[t])
              = [i \in 1..(end - req[t].first) |-> all[req[t].file][req[t].first + i]]
        BY DEF Service!Bytes
      <4>2. all[req[t].file] = shown
        BY <3>3
      <4> HIDE DEF shown, f, all
      <4>3. end - req[t].first = n
        BY <3>4, <3>5, <4>2
      <4> HIDE DEF end
      <4>4. QED
        BY <4>1, <4>2, <4>3
    <3>7. \A i \in 1..n : shown[req[t].first + i] = Plain(f, req[t].first + i - 1)
      <4> SUFFICES ASSUME NEW i \in 1..n
                   PROVE  shown[req[t].first + i] = Plain(f, req[t].first + i - 1)
        OBVIOUS
      <4> DEFINE k == req[t].first + i
      <4>1. k \in 1..Given(f) /\ k - 1 = req[t].first + i - 1
        BY <3>2, <3>5
      <4>2. shown[k] = Plain(f, k - 1)
        <5> HIDE DEF k
        <5>1. QED
          BY <4>1
      <4>3. QED
        BY <4>1, <4>2
    <3>8. QED
      BY <3>1, <3>6, <3>7 DEF PlainRun
  <2>2. PhaseOf(t)' = "ok" /\ ReplyOf(t)' = Service!Bytes(req[t])
    BY <1>4, <2>1 DEF PhaseOf, ReplyOf, Rest
  <2>3. Service!Answer(t)
    BY <1>1, <1>2, <1>3, <2>2 DEF Service!Answer, PhaseOf, ReplyOf
  <2>4. QED
    BY <2>3 DEF Service!Next
<1>5. CASE pc'[t] = "err"
  <2>1. PhaseOf(t)' = "err" /\ ReplyOf(t)' = <<>>
    BY <1>5 DEF PhaseOf, ReplyOf, Rest
  <2>2. Service!Refuse(t)
    BY <1>1, <1>2, <1>3, <2>1 DEF Service!Refuse, PhaseOf, ReplyOf
  <2>3. QED
    BY <2>2 DEF Service!Next
<1>6. CASE pc'[t] \notin Rest
  <2>1. PhaseOf(t)' = "busy" /\ ReplyOf(t)' = <<>>
    BY <1>6 DEF PhaseOf, ReplyOf, Rest
  <2>2. UNCHANGED Service!svars
    BY <1>1, <1>2, <1>3, <2>1 DEF Service!svars, PhaseOf, ReplyOf
  <2>3. QED
    BY <2>2
<1>7. QED
  BY <1>1, <1>4, <1>5, <1>6 DEF Places, Rest

\* A call is asked for with its request clipped, and refused while the flag is
\* up.
LEMMA CallRefines ==
    ASSUME IInv, NEW t \in Readers, NEW f \in Files, NEW first \in 0..Size(f),
           NEW n \in 0..MaxRequest, Begin(t, f, first, n)
    PROVE  Service!Next
<1> DEFINE last == LastUnit(f, first, n)
           r    == [file |-> f, first |-> first, last |-> last]
<1>1. first \in Nat /\ last \in Nat \cup {-1} /\ last < Size(f)
  BY SizeType, SizesAssumption, LastUnitType
<1>2. /\ pc[t] \in Rest /\ pc' = [pc EXCEPT ![t] = Entry(f, first, last)]
      /\ req' = [req EXCEPT ![t] = r] /\ out' = [out EXCEPT ![t] = <<>>]
      /\ UNCHANGED shuttingDown
  BY DEF Begin, Goto
<1> HIDE DEF last
<1>3. /\ pc'[t] = Entry(f, first, last) /\ req'[t] = r /\ out'[t] = <<>>
      /\ \A s \in Readers \ {t} : PhaseOf(s)' = PhaseOf(s) /\ ReplyOf(s)' = ReplyOf(s)
  BY <1>2 DEF IInv, TypeOK, PhaseOf, ReplyOf
<1>4. r \in Service!Requests /\ r.last < Size(r.file) /\ r.last = last /\ r.first = first
  BY <1>1 DEF Service!Requests
<1>5. PhaseOf(t) \in Rest /\ ReplyOf(t)' = <<>>
  BY <1>2, <1>3 DEF PhaseOf, ReplyOf
<1>6. \/ shuttingDown /\ PhaseOf(t)' = "err"
      \/ ~shuttingDown /\ PhaseOf(t)' = "busy"
      \/ ~shuttingDown /\ last < first /\ PhaseOf(t)' = "ok"
  BY <1>3 DEF Entry, PhaseOf, Rest
<1>7. Service!Ask(t)
  <2>1. Service!Rest = Rest
    BY DEF Service!Rest, Rest
  <2>2. req' = [req EXCEPT ![t] = req'[t]]
    BY <1>2, <1>3
  <2>3. [s \in Readers |-> PhaseOf(s)'] = [[s \in Readers |-> PhaseOf(s)] EXCEPT ![t] = PhaseOf(t)']
    BY <1>3
  <2>4. [s \in Readers |-> ReplyOf(s)'] = [[s \in Readers |-> ReplyOf(s)] EXCEPT ![t] = <<>>]
    BY <1>3, <1>5
  <2>5. [g \in Files |-> Size(g)][r.file] = Size(r.file)
    OBVIOUS
  <2>6. /\ req'[t] \in Service!Requests
        /\ req'[t].last < [g \in Files |-> Size(g)][req'[t].file]
        /\ req'[t].last = last /\ req'[t].first = first
    BY <1>3, <1>4, <2>5
  <2>7. \/ shuttingDown /\ PhaseOf(t)' = "err"
        \/ ~shuttingDown /\ PhaseOf(t)' = "busy"
        \/ ~shuttingDown /\ req'[t].last < req'[t].first /\ PhaseOf(t)' = "ok"
    BY <1>6, <2>6
  <2>8. [s \in Readers |-> PhaseOf(s)][t] \in Service!Rest
    BY <1>5, <2>1
  <2>9. QED
    BY <1>2, <2>2, <2>3, <2>4, <2>6, <2>7, <2>8
       DEF Service!Ask, PhaseOf, ReplyOf
<1>8. QED
  BY <1>7 DEF Service!Next

\* The initial states are initial states of the service.
LEMMA InitRefines == Init => Service!Init
<1> SUFFICES ASSUME Init PROVE Service!Init
  OBVIOUS
<1>1. NoRequest.file \in Files
      /\ req = [t \in Readers |-> [file |-> NoRequest.file, first |-> 0, last |-> -1]]
  BY DiscAssumption DEF Init, NoRequest
<1>2. QED
  BY <1>1 DEF Init, Service!Init, Rest

\* Every step is a step of the service or a stutter.
LEMMA StepRefines == IInv /\ [Next]_vars => [Service!Next]_(Service!svars)
<1> SUFFICES ASSUME IInv, [Next]_vars PROVE [Service!Next]_(Service!svars)
  OBVIOUS
<1>1. ASSUME NEW t \in Readers, Call(t) PROVE Service!Next
  BY <1>1, CallRefines DEF Call
<1>2. ASSUME NEW t \in Readers, ReadStep(t) PROVE [Service!Next]_(Service!svars)
  BY <1>2, ReadStepRefines
<1>3. ASSUME NEW c \in Closers, RaiseFlag(c) PROVE Service!Next
  <2>1. Service!GoDown
    BY <1>3 DEF RaiseFlag, frame, Service!GoDown
  <2>2. QED
    BY <2>1 DEF Service!Next
<1>4. (\E c \in Closers : CloseStep(c)) \/ PrefetchStart \/ PrefetchEnd \/ UNCHANGED vars
      => UNCHANGED <<pc, req, out, shuttingDown>>
  BY DEF CloseStep, TakeContext, CloseContext, PrefetchStart, PrefetchEnd, vars, frame
<1>5. ASSUME UNCHANGED <<pc, req, out, shuttingDown>> PROVE UNCHANGED Service!svars
  BY <1>5 DEF Service!svars
<1>6. QED
  BY <1>1, <1>2, <1>3, <1>4, <1>5 DEF Next

\* The engine implements ReadService: neither its locks nor its windows, its
\* cache or its prefetching can be seen in an answer, whose units stop before
\* the request only where the source does.
THEOREM Implementation == Spec => ServiceSpec
<1>1. Init => Service!Init
  BY InitRefines
<1>2. IInv /\ [Next]_vars => [Service!Next]_(Service!svars)
  BY StepRefines
<1>3. QED
  BY <1>1, <1>2, Invariance, PTL DEF Spec, ServiceSpec, Service!Spec
=============================================================================
