SPECIFICATION FairSpec
CONSTANTS
    buy1 = buy1
    buy2 = buy2
    upgrade = upgrade
    notice = notice
    ann = ann
    spend = spend
    refund = refund
    p1 = p1
    p2 = p2
    Events = {buy1, buy2, upgrade, notice}
    Accounts = {ann}
    Procs = {p1, p2}
    Kind <- KindOf
    Account <- ByAnn
    Updates = {spend, refund}
    Does <- DoesOf
    Of <- OfAnn
    MaxFaults = 1
    MaxDuplicates = 1
    NoEvent = NoEvent
    NoUpdate = NoUpdate
INVARIANTS
    TypeOK
    SettledIsApplied
    CreditsCoverPurchases
    ReplaysBounded
PROPERTIES
    EveryEventApplied
CHECK_DEADLOCK FALSE
