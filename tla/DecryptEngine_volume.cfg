SPECIFICATION Spec
CONSTANTS
    r1 = r1  r2 = r2  c1 = c1  c2 = c2  m1 = m1  m2 = m2  idx = idx
    NoThread = NoThread
    Prefetcher = Prefetcher
    Readers = {r1, r2}
    Closers = {c1, c2}
    Files = {m1, idx}
    Encrypted = {m1}
    NameFlags <- OneClip
    Sizes <- OneStreamSizes
    Units <- OneStream
    SeqWindow = 2
    RandWindow = 1
    Slack = 1
    CacheUnits = 1
    MaxRequest = 2
    UseUdf = FALSE
SYMMETRY Threads
PROPERTIES
    ServiceSpec
INVARIANTS
    RepliesSound
    LibmmbdExclusive
    NoEncryptedReadAfterClose
