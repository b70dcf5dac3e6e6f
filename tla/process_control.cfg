SPECIFICATION FairSpec

CONSTANTS
    Procs = {p1, p2}
    MaxFaults = 1
    None = None

INVARIANTS TypeOK NothingLeft
PROPERTIES NoLiveKernelReplaced DeadKernelNoticed

CHECK_DEADLOCK FALSE
