SPECIFICATION FairSpec
CONSTANTS
    None = None
    SECTOR = 2
    MAX_XFER = 4
    DiscBytes = 48
    Layouts <- Discs
INVARIANTS
    TypeOK
    ReadsFile
PROPERTIES
    ReadEnds
