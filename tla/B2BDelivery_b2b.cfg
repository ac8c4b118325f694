SPECIFICATION Spec
CONSTANTS
    s1 = s1
    s2 = s2
    i1 = i1
    i2 = i2
    x1 = x1
    x2 = x2
    p1 = p1
    p2 = p2
    Subs = {s1, s2}
    Sold <- Terms
    Invites = {i1}
    Sections = {x1}
    Procs = {p1, p2}
    Thin = {1}
    LastMonth = 2
    MaxTurns = 1
    MaxFaults = 1
    Nobody = Nobody
INVARIANTS
    TypeOK
    RepeatHasCause
    NoSilentGap
    CompletedMonthsOnly
    ClaimedOnce
    ProcessingIsRunning
    OneScheduler
PROPERTIES
    SweepComplete
SYMMETRY Sym
CHECK_DEADLOCK FALSE
