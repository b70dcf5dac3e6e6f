SPECIFICATION Spec
CONSTANTS
    Attempts = {a1, a2}
    Ids = {k1}
    MaxFaults = 0
    None = None
INVARIANT NamespaceDeleted
CHECK_DEADLOCK FALSE
