SPECIFICATION Spec
CONSTANTS
    m1 = m1  m2 = m2  clpi = clpi  idx = idx
    NoWindow = NoWindow
    NoRead = NoRead
    Rels = {m1}
    Streams = {m1}
    Embedded = {}
    FileSize <- StreamSize
    READAHEAD = 5
    UnitSize = 2
    RandUnits = 2
    Passthrough = {}
INVARIANTS
    PrefetchPays
