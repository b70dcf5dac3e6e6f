SPECIFICATION Spec
CONSTANTS
    Attempts = {a1, a2}
    Ids = {k1, k2}
    MaxFaults = 2
    None = None
INVARIANTS OrphanExplained OnlyNewApplications LivePolledAlive
PROPERTIES KillsOwnOrOverlapping
SYMMETRY Symmetry
CHECK_DEADLOCK FALSE
