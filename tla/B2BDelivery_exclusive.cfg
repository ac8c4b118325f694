SPECIFICATION Spec
CONSTANTS
    s1 = s1
    s2 = s2
    i1 = i1
    i2 = i2
    x1 = x1
    x2 = x2
    p1 = p1
    p2 = p2
    Subs = {s1, s2}
    Sold <- Terms
    Invites = {i1}
    Sections = {x1, x2}
    Procs = {p1}
    Thin = {2}
    LastMonth = 3
    MaxTurns = 1
    MaxFaults = 0
    Nobody = Nobody
INVARIANTS
    NothingWithheldMailed
CHECK_DEADLOCK FALSE
