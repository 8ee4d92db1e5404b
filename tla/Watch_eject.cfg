SPECIFICATION Spec
CONSTANTS
    s1 = s1  s2 = s2  l1 = l1  l2 = l2
    None = None
    Loop = Loop  Hook = Hook
    Threads = {Loop, Hook}
    Sources = {s1, s2}
    Labels = {l1, l2}
    LabelOf <- OwnLabels
    Mounts = {1, 2, 3}
    Failures = {"open", "nfs"}
    MaxInserts = 3
    Asks = {s1, s2}
    Yanks = FALSE
INVARIANTS
    TypeOK
    LiveHasView
    OneSession
    AllLiveMounts
PROPERTIES
    MountOnlyReady
