SPECIFICATION FairSpec
CONSTANTS
    d6 = d6  d7 = d7  l6 = l6  l7 = l7
    None = None
    Main = Main
    Torn = Torn
    Threads = {Main}
    Sources = {d6, d7}
    Labels = {l6, l7}
    LabelOf <- Labelled
    Order <- Drives
    Requests <- OneOrAll
    Mounts = {1, 2}
    Failures = {"eject"}
    Kinds = {"bd", "locked", "avchd"}
    MaxInserts = 1
    MaxRequests = 1
INVARIANTS
    TypeOK
    OnePerDrive
    NoOrphan
PROPERTIES
    RequestHonoured
    ServedUnlessHidden
