SPECIFICATION FairSpec
CONSTANTS
    Requests = {r1, r2}
    Ids = {k1, k2}
    Users = {u1}
    Ops = {o1, o2}
    MaxKernels = 1
    MaxKernelsPerUser = NoLimit
    Mode = "replication"
    CanCrash = TRUE
    MaxGen = 1
    NoLimit = NoLimit
    NoKM = NoKM
    NoSession = NoSession
    NoUser = NoUser
    NoId = NoId
INVARIANTS SessionsBacked 
PROPERTIES OperationsReturn
CHECK_DEADLOCK FALSE
