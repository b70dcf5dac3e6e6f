SPECIFICATION FairSpec
CONSTANTS
    n1 = n1
    n2 = n2
    n3 = n3
    d1 = d1
    d2 = d2
    Names <- MCNames
    Dirs = {d1, d2}
    DirOf <- MCDirOf
    SeedDirs = {d1}
    Requests = {r1}
    MaxChanges = 4
    NoName = NoName
INVARIANTS StaleOnlyInWindow CachedIsObserved
PROPERTIES DeletedForgotten
CHECK_DEADLOCK FALSE
