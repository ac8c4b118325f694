SPECIFICATION Spec
CONSTANTS
    buy1 = buy1
    buy2 = buy2
    upgrade = upgrade
    notice = notice
    ann = ann
    spend = spend
    refund = refund
    p1 = p1
    p2 = p2
    Events = {buy1, buy2, upgrade, notice}
    Accounts = {ann}
    Procs = {p1}
    Kind <- KindOf
    Account <- ByAnn
    Updates = {}
    Does <- DoesOf
    Of <- OfAnn
    MaxFaults = 1
    MaxDuplicates = 0
    NoEvent = NoEvent
    NoUpdate = NoUpdate
INVARIANTS
    AppliedOnce
CHECK_DEADLOCK FALSE
