SPECIFICATION FairSpec
CONSTANTS
    Attempts = {a1, a2}
    Ids = {k1}
    MaxTries = 2
    None = None
    Absent = Absent
    h1 = h1
    h2 = h2
    Hosts <- MCHosts
    HostLists <- OneSpec
INVARIANTS NoSharedKernel CountsCover
PROPERTIES LaunchContract LaunchEnds
CHECK_DEADLOCK FALSE
