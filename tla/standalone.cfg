SPECIFICATION Spec
CONSTANTS
    Requests = {r1, r2, r3}
    Ids = {k1, k2}
    Users = {u1}
    Ops = {o1, o2}
    MaxKernels = 1
    MaxKernelsPerUser = NoLimit
    Mode = "standalone"
    CanCrash = TRUE
    MaxGen = 1
    NoLimit = NoLimit
    NoKM = NoKM
    NoSession = NoSession
    NoUser = NoUser
    NoId = NoId
INVARIANTS SessionsBacked  MaxKernelsRespected
SYMMETRY Symmetry
CHECK_DEADLOCK FALSE
