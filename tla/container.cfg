SPECIFICATION Spec
CONSTANTS
    Attempts = {a1, a2}
    Ids = {k1}
    MaxFaults = 2
    None = None
INVARIANTS ContainerExplained NamespaceExplained
PROPERTIES NamespaceSurvives
SYMMETRY Symmetry
CHECK_DEADLOCK FALSE
