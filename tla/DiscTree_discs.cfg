SPECIFICATION FairSpec
CONSTANTS
    None = None
    Discs <- AllDiscs
    Upper <- Plain
    Ext <- Extension
    Clip <- ClipNumber
    HiddenRootDirs <- HiddenNames
    DSStore = ".DS_Store"
    Failures = {"stat", "size", "list", "read"}
    MaxPage = 2
    MaxCount = 2
INVARIANTS
    TypeOK
    Mirror
    PathsLead
    FlagsOwn
    ClientComplete
PROPERTIES
    ClientEnds
CHECK_DEADLOCK FALSE
