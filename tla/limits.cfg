SPECIFICATION Spec
CONSTANTS
    Requests = {r1, r2, r3}
    Ids = {k1, k2, k3}
    Users = {u1, u2, u3}
    Ops = {o1}
    MaxKernels = 2
    MaxKernelsPerUser = 1
    Mode = "none"
    CanCrash = FALSE
    MaxGen = 1
    NoLimit = NoLimit
    NoKM = NoKM
    NoSession = NoSession
    NoUser = NoUser
    NoId = NoId
INVARIANTS TypeOK PendingExact MaxKernelsRespected MaxKernelsPerUserRespected
SYMMETRY Symmetry
CHECK_DEADLOCK FALSE
