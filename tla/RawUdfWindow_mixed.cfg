SPECIFICATION Spec
CONSTANTS
    m1 = m1  m2 = m2  clpi = clpi  idx = idx
    NoWindow = NoWindow
    NoRead = NoRead
    Rels = {m1, m2, clpi, idx}
    Streams = {m1, m2}
    Embedded = {idx}
    FileSize <- Sizes
    READAHEAD = 5
    UnitSize = 2
    RandUnits = 1
    Passthrough <- Ranges
INVARIANTS
    TypeOK
    WindowsSound
    ReadsTransparent
