SPECIFICATION FairSpec
CONSTANTS
    sam = sam
    fay = fay
    r1 = r1
    r2 = r2
    r3 = r3
    p1 = p1
    p2 = p2
    k1 = k1
    k2 = k2
    k3 = k3
    Users = {fay}
    Reports = {r1, r2, r3}
    Keys = {k1, k2, k3}
    Procs = {p1, p2}
    Owner <- ByFay
    Key <- OwnForms
    Proc <- TwoProcs
    Subscribed = {}
    Limit <- LimitFay
    StartCredits <- BrokeFay
    Queueing = {p1}
    Workers = 1
    Faults <- AllFaults
    MaxFaults = 1
    MaxInFlight = 2
    MaxPurchases = 0
    Idle = Idle
    NoReport = NoReport
INVARIANTS
    FailedReportSettled
    QuotaOvershootBounded
PROPERTIES
    AcceptedReportSettles
CHECK_DEADLOCK FALSE
