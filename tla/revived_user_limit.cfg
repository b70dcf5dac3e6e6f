SPECIFICATION Spec
CONSTANTS
    Requests = {r1, r2}
    Ids = {k1, k2}
    Users = {u1}
    Ops = {o1}
    MaxKernels = NoLimit
    MaxKernelsPerUser = 1
    Mode = "standalone"
    CanCrash = TRUE
    MaxGen = 0
    NoLimit = NoLimit
    NoKM = NoKM
    NoSession = NoSession
    NoUser = NoUser
    NoId = NoId
INVARIANTS MaxKernelsPerUserRespected
SYMMETRY Symmetry
CHECK_DEADLOCK FALSE
