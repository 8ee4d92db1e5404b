SPECIFICATION FairSpec
CONSTANTS
    s1 = s1  s2 = s2  l1 = l1  l2 = l2
    None = None
    Loop = Loop  Hook = Hook
    Threads = {Loop, Hook}
    Sources = {s1}
    Labels = {l1}
    LabelOf <- OneLabel
    Mounts = {1, 2}
    Failures = {"open", "prepare", "nfs", "umount"}
    MaxInserts = 2
    Asks = {s1, l1}
    Yanks = TRUE
INVARIANTS
    ViewServed
PROPERTIES
    GoneIsForgotten
    EjectAnswered
