SPECIFICATION SessionSpec
CONSTANTS
    Requests = {r1, r2, r3, s1, s2}
    Posts = {r1, r2, r3}
    WithEnv = {r1, r2}
    Rejected = {}
    MaxKernels = 2
    Bound = Bound
    NoEnv = NoEnv
    Paths = {p1}
    Deletes = {d1, d2}
    MaxPatches = 1
    NoSession = NoSession
INVARIANTS LeftoverIsOverlap SessionKernelListed SamePathIsOverlap
PROPERTIES BorrowedEnvIsOverlap
SYMMETRY Symmetry
CHECK_DEADLOCK FALSE
