SPECIFICATION Spec
CONSTANTS
    sam = sam
    fay = fay
    r1 = r1
    r2 = r2
    r3 = r3
    p1 = p1
    p2 = p2
    k1 = k1
    k2 = k2
    k3 = k3
    Users = {sam}
    Reports = {r1, r2}
    Keys = {k1, k2}
    Procs = {p1}
    Owner <- BySam
    Key <- OwnForms
    Proc <- OneProc
    Subscribed = {sam}
    Limit <- LimitSam
    StartCredits <- CreditSam
    Queueing = {p1}
    Workers = 1
    Faults = {"enqueue"}
    MaxFaults = 1
    MaxInFlight = 2
    MaxPurchases = 0
    Idle = Idle
    NoReport = NoReport
INVARIANTS
    NeverChargedUngenerated
CHECK_DEADLOCK FALSE
