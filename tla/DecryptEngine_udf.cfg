SPECIFICATION FairSpec
CONSTANTS
    r1 = r1  r2 = r2  c1 = c1  c2 = c2  m1 = m1  m2 = m2  idx = idx
    NoThread = NoThread
    Prefetcher = Prefetcher
    Readers = {r1, r2}
    Closers = {c1}
    Files = {m1, m2, idx}
    Encrypted = {m1, m2}
    NameFlags <- ClipNumber
    Sizes <- TwoStreamSizes
    Units <- TwoStreams
    SeqWindow = 2
    RandWindow = 1
    Slack = 1
    CacheUnits = 2
    MaxRequest = 1
    UseUdf = TRUE
INVARIANTS
    TypeOK
    CacheSound
    NoReadOfCachedUnit
    OneReader
PROPERTIES
    ShutdownReturns
    EngineDrains
