SPECIFICATION FairSpec
CONSTANTS
    Subs = {s1}
    MaxChanges = 2
    MaxFaults = 1
    MaxReads = 1
INVARIANTS
    CacheStaleHasCause
PROPERTIES
    RowsConverge
    GraceEnforced
CHECK_DEADLOCK FALSE
