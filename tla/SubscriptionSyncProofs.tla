------------------------- MODULE SubscriptionSyncProofs -------------------------
(***************************************************************************)
(* Proofs about SubscriptionSync, for every set of subscriptions and every *)
(* bound: that it is type correct, that no plan is granted that Stripe has *)
(* not sold, that a cached profile is stale only for the reasons the code  *)
(* leaves open, and that rows, users.plan and pending markers drift from   *)
(* Stripe only for the reasons that DriftHasCause and MarkerHasCause name. *)
(***************************************************************************)
EXTENDS SubscriptionSync, TLAPS

USE SyncAssumption DEF PaidPlans, Plans, None

-----------------------------------------------------------------------------
(* Type correctness, part by part.  What TypeOK leaves open and the steps  *)
(* rely on: an activity past its start knows its subscription, a handler   *)
(* has an event about it, and a plan change a plan that is paid for.       *)
StripeOK ==
    /\ stripe \in [Subs -> StripeSub]
    /\ inbox \subseteq Event
    /\ open \subseteq Subs
    /\ charged \subseteq Subs \X PaidPlans
    /\ changes \in 0 .. MaxChanges
RowOK == row \in [Subs -> Row]
PlanOK ==
    /\ userPlan \in Plans
    /\ cache \in Plans \cup {None}
    /\ fill \in Plans \cup {None}
    /\ reads \in 0 .. MaxReads
HistoryOK == causes \subseteq Causes /\ faults \in 0 .. MaxFaults
WebOK ==
    /\ web \in Web
    /\ web.at # "idle" => web.sub \in Subs
    /\ web.event # NoEvent => web.event.sub = web.sub /\ web.then = "idle"
    /\ web.at \in {"row", "check"} => web.event # NoEvent
    /\ web.then # "idle" => web.plan \in PaidPlans
    /\ web.at \in {"charge", "schedule", "store", "mark"} => web.plan \in PaidPlans
RecOK ==
    /\ rec \in [at : {"idle", "next", "write", "user", "bust"}, seen : [Subs -> Row],
                sub : Subs \cup {None}, found : StripeSub]
    /\ rec.at \in {"write", "user", "bust"} => rec.sub \in Subs
DunOK ==
    /\ dun \in [at : {"idle", "next", "user", "bust"}, todo : SUBSET Subs,
                sub : Subs \cup {None}]
    /\ dun.at = "user" => dun.sub \in Subs

TypeInv == StripeOK /\ RowOK /\ PlanOK /\ HistoryOK /\ WebOK /\ RecOK /\ DunOK

LEMMA TypeInvTypeOK == TypeInv => TypeOK
BY DEF TypeInv, TypeOK, StripeOK, RowOK, PlanOK, HistoryOK, WebOK, RecOK, DunOK

LEMMA IdleOK ==
    /\ Idle \in Web
    /\ RecIdle \in [at : {"idle", "next", "write", "user", "bust"}, seen : [Subs -> Row],
                    sub : Subs \cup {None}, found : StripeSub]
    /\ DunIdle \in [at : {"idle", "next", "user", "bust"}, todo : SUBSET Subs,
                    sub : Subs \cup {None}]
    /\ NoRow \in Row
    /\ NoSub \in StripeSub
BY DEF Idle, Web, NoEvent, RecIdle, DunIdle, NoRow, NoSub, Row, StripeSub

LEMMA InitTypeInv == Init => TypeInv
BY IdleOK DEF Init, TypeInv, StripeOK, RowOK, PlanOK, HistoryOK, WebOK, RecOK, DunOK, Idle,
       RecIdle, DunIdle, NoEvent

(* A web process that has become idle, and the mirror write of any writer. *)
LEMMA IdleWeb == ASSUME web' = Idle PROVE WebOK'
BY IdleOK DEF WebOK, Idle, NoEvent

LEMMA MirrorOK ==
    ASSUME PlanOK, HistoryOK, NEW p \in Plans, NEW more \in SUBSET Causes,
           SetPlan(p, more), UNCHANGED cacheVars, UNCHANGED faults
    PROVE  PlanOK' /\ HistoryOK'
BY DEF PlanOK, HistoryOK, SetPlan, cacheVars

(* The deletion that follows it, and who breaks off.                       *)
LEMMA BustOK ==
    ASSUME PlanOK, HistoryOK, Bust, UNCHANGED <<userPlan, fill, reads>>
    PROVE  PlanOK' /\ HistoryOK'
<1>1. cache' \in Plans \cup {None}
  BY DEF PlanOK, Bust
<1>2. causes' \subseteq Causes
  BY DEF HistoryOK, Bust, Blame, Causes
<1>3. faults' \in 0 .. MaxFaults
  <2>1. CASE UNCHANGED faults
    BY <2>1 DEF HistoryOK
  <2>2. CASE Fault
    BY <2>2 DEF HistoryOK, Fault
  <2> QED
    BY <2>1, <2>2 DEF Bust
<1> QED
  BY <1>1, <1>2, <1>3 DEF PlanOK, HistoryOK

LEMMA BreakOK ==
    ASSUME HistoryOK, Fault, NEW at, NEW torn, Breaking(at, torn)
    PROVE  HistoryOK'
BY DEF HistoryOK, Fault, Breaking, Causes

(* A change at Stripe emits events about the subscription that changed.    *)
LEMMA BecomesType ==
    ASSUME StripeOK, NEW s \in Subs, NEW t \in StripeSub, NEW types \in Seq(EventTypes),
           Becomes(s, t, types), open' \subseteq Subs
    PROVE  StripeOK'
BY DEF StripeOK, Becomes, Event, StripeSub, EventTypes

(* What the changes at Stripe make of a subscription, and tell of it.      *)
LEMMA StripeSubs ==
    /\ \A p \in PaidPlans : [status |-> "active", plan |-> p, sched |-> None] \in StripeSub
    /\ \A t \in StripeSub :
         /\ [t EXCEPT !.status = "active"] \in StripeSub
         /\ [t EXCEPT !.status = "past_due"] \in StripeSub
         /\ [t EXCEPT !.status = "canceled", !.sched = None] \in StripeSub
         /\ t.sched # None => [t EXCEPT !.plan = t.sched, !.sched = None] \in StripeSub
         /\ [t EXCEPT !.sched = None] \in StripeSub
         /\ \A p \in PaidPlans : /\ [t EXCEPT !.plan = p] \in StripeSub
                                 /\ [t EXCEPT !.sched = p] \in StripeSub
BY DEF StripeSub

LEMMA EventSeqs ==
    {<<"updated">>, <<"deleted">>, <<"updated", "checkout">>, <<"failed", "updated">>,
     <<"paid", "updated">>, <<"released", "updated">>} \subseteq Seq(EventTypes)
BY DEF EventTypes

(* What a handler and the reconciler make of a row.                        *)
LEMMA Rows ==
    /\ \A r \in Row, t \in Event : Mirrored(r, t) \in Row
    /\ \A r \in Row, o \in Row, t \in StripeSub : Correct(r, o, t) \in Row
<1>1. ASSUME NEW r \in Row, NEW t \in Event PROVE Mirrored(r, t) \in Row
  BY DEF Row, Event, Mirrored, ScheduleFired
<1>2. ASSUME NEW r \in Row, NEW o \in Row, NEW t \in StripeSub PROVE Correct(r, o, t) \in Row
  <2> DEFINE status == IF StatusDiffers(o, t) THEN t.status ELSE r.status
             plan == IF PlanDiffers(o, t) THEN t.plan ELSE r.plan
             pending == IF ScheduleFired(o, t) THEN None ELSE r.pending
  <2>1. /\ status \in {"absent", "active", "past_due", "cancelled", "canceled"}
        /\ plan \in Plans
        /\ pending \in PaidPlans \cup {None}
    BY DEF Row, StripeSub
  <2>2. Correct(r, o, t) = [r EXCEPT !.status = status, !.plan = plan, !.pending = pending]
    BY DEF Correct, Corrected
  <2> HIDE DEF status, plan, pending
  <2> QED
    BY <2>1, <2>2 DEF Row
<1> QED
  BY <1>1, <1>2

LEMMA NextTypeInv == TypeInv /\ [Next]_vars => TypeInv'
<1> SUFFICES ASSUME TypeInv, [Next]_vars PROVE TypeInv'
  OBVIOUS
<1> USE DEF TypeInv, Rest, stripeVars, cacheVars
<1>1. CASE FillRead
  <2>1. PlanOK'
    BY <1>1 DEF FillRead, PlanOK
  <2> QED
    BY <1>1, <2>1 DEF FillRead, StripeOK, RowOK, HistoryOK, WebOK, RecOK, DunOK
<1>2. CASE FillStore
  <2>1. PlanOK'
    BY <1>2 DEF FillStore, PlanOK
  <2>2. HistoryOK'
    BY <1>2 DEF FillStore, HistoryOK, BlameIf, Causes
  <2> QED
    BY <1>2, <2>1, <2>2 DEF FillStore, StripeOK, RowOK, WebOK, RecOK, DunOK
<1>3. CASE CacheExpires
  <2>1. PlanOK'
    BY <1>3 DEF CacheExpires, PlanOK
  <2> QED
    BY <1>3, <2>1 DEF CacheExpires, StripeOK, RowOK, HistoryOK, WebOK, RecOK, DunOK
<1>4. CASE HandleCheckout
  <2>1. RowOK'
    BY <1>4 DEF HandleCheckout, RowOK, WebOK, Web, Row, Event, Handles
  <2>2. WebOK'
    BY <1>4 DEF HandleCheckout, WebOK, Web, Event, Handles
  <2> QED
    BY <1>4, <2>1, <2>2 DEF HandleCheckout, StripeOK, PlanOK, HistoryOK, RecOK, DunOK
<1>5. CASE HandleUpdated
  <2>1. RowOK'
    BY Rows, <1>5 DEF HandleUpdated, RowOK, WebOK, Web, Handles
  <2>2. WebOK'
    BY <1>5 DEF HandleUpdated, WebOK, Web, Event, Handles
  <2>3. HistoryOK'
    BY <1>5 DEF HandleUpdated, HistoryOK, BlameIf, Causes
  <2> QED
    BY <1>5, <2>1, <2>2, <2>3 DEF HandleUpdated, StripeOK, PlanOK, RecOK, DunOK
<1>6. CASE HandleDeleted
  <2>1. RowOK'
    BY <1>6 DEF HandleDeleted, RowOK, WebOK, Web, Row, Handles
  <2>2. WebOK'
    BY IdleWeb, <1>6 DEF HandleDeleted, WebOK, Web, Handles
  <2> QED
    BY <1>6, <2>1, <2>2 DEF HandleDeleted, StripeOK, PlanOK, HistoryOK, RecOK, DunOK
<1>7. CASE CheckOthers
  <2>1. WebOK'
    BY IdleWeb, <1>7 DEF CheckOthers, WebOK, Web
  <2> QED
    BY <1>7, <2>1 DEF CheckOthers, StripeOK, RowOK, PlanOK, HistoryOK, RecOK, DunOK
<1>8. CASE HandlePaid
  <2>1. RowOK'
    BY <1>8 DEF HandlePaid, RowOK, WebOK, Web, Row, Handles
  <2>2. WebOK'
    BY IdleWeb, <1>8 DEF HandlePaid
  <2> QED
    BY <1>8, <2>1, <2>2 DEF HandlePaid, StripeOK, PlanOK, HistoryOK, RecOK, DunOK
<1>9. CASE HandleFailed
  <2>1. RowOK'
    BY <1>9 DEF HandleFailed, RowOK, WebOK, Web, Row, Handles
  <2>2. WebOK'
    BY IdleWeb, <1>9 DEF HandleFailed
  <2> QED
    BY <1>9, <2>1, <2>2 DEF HandleFailed, StripeOK, PlanOK, HistoryOK, RecOK, DunOK
<1>10. CASE HandleReleased
  <2>1. RowOK'
    BY <1>10 DEF HandleReleased, RowOK, WebOK, Web, Row, Handles
  <2>2. WebOK'
    BY IdleWeb, <1>10 DEF HandleReleased
  <2> QED
    BY <1>10, <2>1, <2>2 DEF HandleReleased, StripeOK, PlanOK, HistoryOK, RecOK, DunOK
<1>11. CASE WriteUser
  <2>1. PlanOK' /\ HistoryOK'
    BY MirrorOK, <1>11 DEF WriteUser, WebOK, Web, Outdated, Causes
  <2>2. WebOK'
    BY <1>11 DEF WriteUser, WebOK, Web
  <2> QED
    BY <1>11, <2>1, <2>2 DEF WriteUser, StripeOK, RowOK, RecOK, DunOK
<1>43. CASE WebBust
  <2>1. PlanOK' /\ HistoryOK'
    BY BustOK, <1>43 DEF WebBust
  <2>2. WebOK'
    BY IdleWeb, <1>43 DEF WebBust
  <2> QED
    BY <1>43, <2>1, <2>2 DEF WebBust, StripeOK, RowOK, RecOK, DunOK
<1>12. CASE HandlerBreaks
  <2>1. StripeOK'
    BY <1>12 DEF HandlerBreaks, StripeOK, WebOK, Web
  <2>2. HistoryOK'
    BY BreakOK, <1>12 DEF HandlerBreaks
  <2>3. WebOK'
    BY IdleWeb, <1>12 DEF HandlerBreaks
  <2> QED
    BY <1>12, <2>1, <2>2, <2>3 DEF HandlerBreaks, RowOK, PlanOK, RecOK, DunOK
<1>13. CASE RequestBreaks
  <2>1. HistoryOK'
    BY BreakOK, <1>13 DEF RequestBreaks
  <2>2. WebOK'
    BY IdleWeb, <1>13 DEF RequestBreaks
  <2> QED
    BY <1>13, <2>1, <2>2 DEF RequestBreaks, StripeOK, RowOK, PlanOK, RecOK, DunOK
<1>14. ASSUME NEW s \in Subs, NEW p \in PaidPlans, AskUpgrade(s, p) PROVE TypeInv'
  <2>1. WebOK'
    BY <1>14 DEF AskUpgrade, Ask, WebOK, Web, Idle, NoEvent
  <2> QED
    BY <1>14, <2>1 DEF AskUpgrade, Ask, StripeOK, RowOK, PlanOK, HistoryOK, RecOK, DunOK
<1>15. ASSUME NEW s \in Subs, NEW p \in PaidPlans, AskDowngrade(s, p) PROVE TypeInv'
  <2>1. WebOK'
    BY <1>15 DEF AskDowngrade, Ask, WebOK, Web, Idle, NoEvent
  <2> QED
    BY <1>15, <2>1 DEF AskDowngrade, Ask, StripeOK, RowOK, PlanOK, HistoryOK, RecOK, DunOK
<1>16. ASSUME NEW s \in Subs, AskCancel(s) PROVE TypeInv'
  <2>1. WebOK'
    BY <1>16 DEF AskCancel, Ask, WebOK, Web, Idle, NoEvent
  <2> QED
    BY <1>16, <2>1 DEF AskCancel, Ask, StripeOK, RowOK, PlanOK, HistoryOK, RecOK, DunOK
<1>17. CASE Release
  <2>1. StripeOK'
    BY BecomesType, StripeSubs, EventSeqs, <1>17 DEF Release, StripeOK, WebOK
  <2>2. WebOK'
    BY IdleWeb, <1>17 DEF Release, WebOK, Web
  <2> QED
    BY <1>17, <2>1, <2>2 DEF Release, RowOK, PlanOK, HistoryOK, RecOK, DunOK
<1>18. CASE ReleaseFails
  <2>1. HistoryOK'
    BY <1>18 DEF ReleaseFails, HistoryOK, Fault, Blame, Causes
  <2>2. WebOK'
    BY IdleWeb, <1>18 DEF ReleaseFails, WebOK, Web
  <2> QED
    BY <1>18, <2>1, <2>2 DEF ReleaseFails, StripeOK, RowOK, PlanOK, RecOK, DunOK
<1>19. CASE ClearMarkers
  <2>1. RowOK'
    BY <1>19 DEF ClearMarkers, RowOK, WebOK, Web, Row
  <2>2. WebOK'
    BY IdleWeb, <1>19 DEF ClearMarkers, WebOK, Web
  <2> QED
    BY <1>19, <2>1, <2>2 DEF ClearMarkers, StripeOK, PlanOK, HistoryOK, RecOK, DunOK
<1>20. CASE Charge
  <2>1. StripeOK'
    BY BecomesType, StripeSubs, EventSeqs, <1>20 DEF Charge, StripeOK, WebOK
  <2>2. WebOK'
    BY <1>20 DEF Charge, WebOK, Web
  <2> QED
    BY <1>20, <2>1, <2>2 DEF Charge, RowOK, PlanOK, HistoryOK, RecOK, DunOK
<1>21. CASE ChargeFails
  <2>1. WebOK'
    BY IdleWeb, <1>21 DEF ChargeFails, Refused
  <2> QED
    BY <1>21, <2>1 DEF ChargeFails, StripeOK, RowOK, PlanOK, HistoryOK, RecOK, DunOK
<1>22. CASE StoreUpgrade
  <2>1. RowOK'
    BY <1>22 DEF StoreUpgrade, RowOK, WebOK, Web, Row
  <2>2. WebOK'
    BY <1>22 DEF StoreUpgrade, WebOK, Web
  <2> QED
    BY <1>22, <2>1, <2>2 DEF StoreUpgrade, StripeOK, PlanOK, HistoryOK, RecOK, DunOK
<1>23. CASE Schedule
  <2>1. StripeOK'
    BY BecomesType, StripeSubs, EventSeqs, <1>23 DEF Schedule, StripeOK, WebOK
  <2>2. WebOK'
    BY IdleWeb, <1>23 DEF Schedule, WebOK, Web
  <2> QED
    BY <1>23, <2>1, <2>2 DEF Schedule, RowOK, PlanOK, HistoryOK, RecOK, DunOK
<1>24. CASE StoreDowngrade
  <2>1. RowOK'
    BY <1>24 DEF StoreDowngrade, RowOK, WebOK, Web, Row
  <2>2. WebOK'
    BY IdleWeb, <1>24 DEF StoreDowngrade
  <2> QED
    BY <1>24, <2>1, <2>2 DEF StoreDowngrade, StripeOK, PlanOK, HistoryOK, RecOK, DunOK
<1>25. CASE RecStart
  <2>1. RecOK'
    BY IdleOK, <1>25 DEF RecStart, RecOK, RowOK, RecIdle
  <2> QED
    BY <1>25, <2>1 DEF RecStart, StripeOK, RowOK, PlanOK, HistoryOK, WebOK, DunOK
<1>26. ASSUME NEW s \in Subs, Compare(s) PROVE TypeInv'
  <2>1. RecOK'
    BY IdleOK, <1>26 DEF Compare, RecOK, StripeOK, Pending
  <2> QED
    BY <1>26, <2>1 DEF Compare, StripeOK, RowOK, PlanOK, HistoryOK, WebOK, DunOK
<1>27. ASSUME NEW s \in Subs, FetchFails(s) PROVE TypeInv'
  <2>1. RecOK'
    BY IdleOK, <1>27 DEF FetchFails, RecOK
  <2>2. HistoryOK'
    BY <1>27 DEF FetchFails, HistoryOK, Fault
  <2> QED
    BY <1>27, <2>1, <2>2 DEF FetchFails, StripeOK, RowOK, PlanOK, WebOK, DunOK
<1>28. CASE RecWrite
  <2>1. RowOK'
    BY Rows, <1>28 DEF RecWrite, RowOK, RecOK, Seen
  <2>2. RecOK'
    BY Rows, IdleOK, <1>28 DEF RecWrite, RowOK, RecOK, RecNext, Seen
  <2>3. HistoryOK'
    BY <1>28 DEF RecWrite, HistoryOK, BlameIf, Causes
  <2> QED
    BY <1>28, <2>1, <2>2, <2>3 DEF RecWrite, StripeOK, PlanOK, WebOK, DunOK
<1>29. CASE RecUser
  <2>1. PlanOK' /\ HistoryOK'
    BY MirrorOK, <1>29 DEF RecUser, RecOK, StripeSub, Causes
  <2>2. RecOK'
    BY <1>29 DEF RecUser, RecOK
  <2> QED
    BY <1>29, <2>1, <2>2 DEF RecUser, StripeOK, RowOK, WebOK, DunOK
<1>44. CASE RecBust
  <2>1. PlanOK' /\ HistoryOK'
    BY BustOK, <1>44 DEF RecBust
  <2>2. RecOK'
    BY IdleOK, <1>44 DEF RecBust, RecOK, RecNext
  <2> QED
    BY <1>44, <2>1, <2>2 DEF RecBust, StripeOK, RowOK, WebOK, DunOK
<1>30. CASE RecEnd
  <2>1. RecOK'
    BY IdleOK, <1>30 DEF RecEnd, RecOK, RecIdle
  <2> QED
    BY <1>30, <2>1 DEF RecEnd, StripeOK, RowOK, PlanOK, HistoryOK, WebOK, DunOK
<1>31. CASE RecBreaks
  <2>1. RecOK'
    BY IdleOK, <1>31 DEF RecBreaks, RecOK, RecIdle
  <2>2. HistoryOK'
    BY BreakOK, <1>31 DEF RecBreaks
  <2> QED
    BY <1>31, <2>1, <2>2 DEF RecBreaks, StripeOK, RowOK, PlanOK, WebOK, DunOK
<1>32. CASE DunStart
  <2>1. DunOK'
    BY <1>32 DEF DunStart, DunOK, DunIdle
  <2> QED
    BY <1>32, <2>1 DEF DunStart, StripeOK, RowOK, PlanOK, HistoryOK, WebOK, RecOK
<1>33. ASSUME NEW s \in Subs, DunCancel(s) PROVE TypeInv'
  <2>1. RowOK'
    BY <1>33 DEF DunCancel, RowOK, Row
  <2>2. DunOK'
    BY <1>33 DEF DunCancel, DunOK
  <2>3. HistoryOK'
    BY <1>33 DEF DunCancel, HistoryOK, BlameIf, Causes
  <2> QED
    BY <1>33, <2>1, <2>2, <2>3 DEF DunCancel, StripeOK, PlanOK, WebOK, RecOK
<1>34. CASE DunUser
  <2>1. PlanOK' /\ HistoryOK'
    BY MirrorOK, <1>34 DEF DunUser, Outdated, Causes
  <2>2. DunOK'
    BY <1>34 DEF DunUser, DunOK
  <2> QED
    BY <1>34, <2>1, <2>2 DEF DunUser, StripeOK, RowOK, WebOK, RecOK
<1>45. CASE DunBust
  <2>1. PlanOK' /\ HistoryOK'
    BY BustOK, <1>45 DEF DunBust
  <2>2. DunOK'
    BY IdleOK, <1>45 DEF DunBust, DunOK, DunIdle
  <2> QED
    BY <1>45, <2>1, <2>2 DEF DunBust, StripeOK, RowOK, WebOK, RecOK
<1>35. CASE DunBreaks
  <2>1. DunOK'
    BY IdleOK, <1>35 DEF DunBreaks, DunOK, DunIdle
  <2>2. HistoryOK'
    BY BreakOK, <1>35 DEF DunBreaks
  <2> QED
    BY <1>35, <2>1, <2>2 DEF DunBreaks, StripeOK, RowOK, PlanOK, WebOK, RecOK
<1>36. ASSUME NEW s \in Subs, OpenCheckout(s) PROVE TypeInv'
  <2>1. StripeOK'
    BY <1>36 DEF OpenCheckout, StripeOK
  <2> QED
    BY <1>36, <2>1 DEF OpenCheckout, RowOK, PlanOK, HistoryOK, WebOK, RecOK, DunOK
<1>37. ASSUME NEW s \in Subs, NEW p \in PaidPlans, CompleteCheckout(s, p) PROVE TypeInv'
  <2>1. StripeOK'
    BY BecomesType, StripeSubs, EventSeqs, <1>37 DEF CompleteCheckout, StripeOK
  <2>2. HistoryOK'
    BY <1>37 DEF CompleteCheckout, HistoryOK, BlameIf, Causes
  <2> QED
    BY <1>37, <2>1, <2>2 DEF CompleteCheckout, RowOK, PlanOK, WebOK, RecOK, DunOK
<1>38. ASSUME NEW s \in Subs, StripeChange(s) PROVE TypeInv'
  <2>1. StripeOK'
    BY BecomesType, StripeSubs, EventSeqs, <1>38 DEF StripeChange, StripeOK
  <2> QED
    BY <1>38, <2>1 DEF StripeChange, RowOK, PlanOK, HistoryOK, WebOK, RecOK, DunOK
<1>39. ASSUME NEW s \in Subs, GracePasses(s) PROVE TypeInv'
  <2>1. RowOK'
    BY <1>39 DEF GracePasses, RowOK, Row
  <2> QED
    BY <1>39, <2>1 DEF GracePasses, StripeOK, PlanOK, HistoryOK, WebOK, RecOK, DunOK
<1>40. ASSUME NEW e \in inbox, Lose(e) PROVE TypeInv'
  <2>1. StripeOK'
    BY <1>40 DEF Lose, StripeOK
  <2>2. HistoryOK'
    BY <1>40 DEF Lose, HistoryOK, Fault, Blame, Causes
  <2> QED
    BY <1>40, <2>1, <2>2 DEF Lose, RowOK, PlanOK, WebOK, RecOK, DunOK
<1>41. ASSUME NEW e \in inbox, Deliver(e) PROVE TypeInv'
  <2>1. StripeOK'
    BY <1>41 DEF Deliver, StripeOK
  <2>2. HistoryOK'
    BY <1>41 DEF Deliver, HistoryOK, Fault, Blame, Causes
  <2>3. WebOK'
    BY <1>41 DEF Deliver, WebOK, Web, Idle, StripeOK, Event, NoEvent
  <2> QED
    BY <1>41, <2>1, <2>2, <2>3 DEF Deliver, RowOK, PlanOK, RecOK, DunOK
<1>42. CASE UNCHANGED vars
  BY <1>42 DEF vars, StripeOK, RowOK, PlanOK, HistoryOK, WebOK, RecOK, DunOK
<1> QED
  BY <1>1, <1>2, <1>3, <1>4, <1>5, <1>6, <1>7, <1>8, <1>9, <1>10, <1>11, <1>12, <1>13,
     <1>14, <1>15, <1>16, <1>17, <1>18, <1>19, <1>20, <1>21, <1>22, <1>23, <1>24, <1>25,
     <1>26, <1>27, <1>28, <1>29, <1>30, <1>31, <1>32, <1>33, <1>34, <1>35, <1>36, <1>37,
     <1>38, <1>39, <1>40, <1>41, <1>42, <1>43, <1>44, <1>45
     DEF Next, Stripe, HandlerStep, Request, RequestStep, WebStep, RecStep, DunStep, Breaks

(* The state of an account is always well-formed: statuses, plans, dates   *)
(* and markers keep their range through every handler, request and job,    *)
(* whichever interleave, fail or are repeated.                             *)
THEOREM TypeCorrect == Spec => []TypeOK
<1>1. Spec => []TypeInv
  BY InitTypeInv, NextTypeInv, PTL DEF Spec
<1> QED
  BY <1>1, TypeInvTypeOK, PTL

-----------------------------------------------------------------------------
(* No plan without a sale: every place a plan can be copied from holds one *)
(* that Stripe has sold with that subscription.                            *)
Sold(s, p) == p = "free" \/ <<s, p>> \in charged
StripeSold ==
    /\ \A s \in Subs : Sold(s, stripe[s].plan)
    /\ \A e \in inbox : Sold(e.sub, e.plan)
RowSold == \A s \in Subs : Sold(s, row[s].plan)
UserSold == userPlan = "free" \/ \E s \in Subs : <<s, userPlan>> \in charged
WebSold ==
    /\ web.event # NoEvent => Sold(web.event.sub, web.event.plan)
    /\ web.at \in {"store", "user"} => Sold(web.sub, web.plan)
RecSold == rec.at \in {"write", "user"} => Sold(rec.sub, rec.found.plan)

SoldInv == StripeSold /\ RowSold /\ UserSold /\ WebSold /\ RecSold

LEMMA InitSoldInv == Init => SoldInv
BY DEF Init, SoldInv, StripeSold, RowSold, UserSold, WebSold, RecSold, Sold, NoSub, NoRow,
       Idle, NoEvent, RecIdle

(* A change at Stripe sells what it changes to, and unsells nothing.       *)
LEMMA BecomesSold ==
    ASSUME StripeOK, StripeSold, NEW s \in Subs, NEW t \in StripeSub,
           NEW types \in Seq(EventTypes), Becomes(s, t, types)
    PROVE  StripeSold' /\ charged \subseteq charged' /\ Sold(s, t.plan)'
<1>1. charged \subseteq charged' /\ Sold(s, t.plan)'
  BY DEF Becomes, Sold, StripeSub
<1>2. (\A r \in Subs : Sold(r, stripe[r].plan))'
  BY <1>1 DEF Becomes, StripeOK, StripeSold, Sold
<1>3. (\A e \in inbox : Sold(e.sub, e.plan))'
  <2>1. ASSUME NEW e \in inbox', e \notin inbox PROVE e.sub = s /\ e.plan = t.plan
    <3>1. PICK i \in DOMAIN types :
            e = [at |-> 2 * changes + i, type |-> types[i], sub |-> s,
                 status |-> t.status, plan |-> t.plan, sched |-> t.sched]
      BY <2>1 DEF Becomes
    <3> QED
      BY <3>1
  <2> QED
    BY <1>1, <2>1 DEF StripeSold, Sold
<1> QED
  BY <1>1, <1>2, <1>3 DEF StripeSold

LEMMA SoldStays ==
    ASSUME charged \subseteq charged'
    PROVE  /\ RowSold /\ UNCHANGED row => RowSold'
           /\ UserSold /\ UNCHANGED userPlan => UserSold'
           /\ WebSold /\ UNCHANGED web => WebSold'
           /\ RecSold /\ UNCHANGED rec => RecSold'
BY DEF RowSold, UserSold, WebSold, RecSold, Sold

LEMMA MirroredPlan == \A r \in Row, t \in Event : Mirrored(r, t).plan = t.plan
BY DEF Row, Mirrored

LEMMA IdleSold == web' = Idle => WebSold'
BY DEF WebSold, Idle

LEMMA NextSoldInv == TypeInv /\ SoldInv /\ [Next]_vars => SoldInv'
<1> SUFFICES ASSUME TypeInv, SoldInv, [Next]_vars PROVE SoldInv'
  OBVIOUS
<1> USE DEF TypeInv, SoldInv, Rest, stripeVars
<1>1. CASE FillRead
  BY <1>1 DEF FillRead, Sold, StripeSold, RowSold, UserSold, WebSold, RecSold
<1>2. CASE FillStore
  BY <1>2 DEF FillStore, Sold, StripeSold, RowSold, UserSold, WebSold, RecSold
<1>3. CASE CacheExpires
  BY <1>3 DEF CacheExpires, Sold, StripeSold, RowSold, UserSold, WebSold, RecSold
<1>4. CASE HandleCheckout
  <2>1. RowSold'
    BY <1>4 DEF HandleCheckout, RowSold, RowOK, WebOK, WebSold, Sold, Handles
  <2>2. WebSold'
    BY <1>4 DEF HandleCheckout, WebSold, WebOK, Web, Sold, Handles
  <2> QED
    BY <1>4, <2>1, <2>2 DEF HandleCheckout, Sold, StripeSold, UserSold, RecSold
<1>5. CASE HandleUpdated
  <2>1. RowSold'
    BY MirroredPlan, <1>5 DEF HandleUpdated, RowSold, RowOK, WebOK, Web, WebSold, Sold,
           Handles
  <2>2. WebSold'
    BY <1>5 DEF HandleUpdated, WebSold, WebOK, Web, Sold, Handles
  <2> QED
    BY <1>5, <2>1, <2>2 DEF HandleUpdated, Sold, StripeSold, UserSold, RecSold
<1>6. CASE HandleDeleted
  <2>1. RowSold'
    BY <1>6 DEF HandleDeleted, RowSold, RowOK, Row, Sold
  <2>2. WebSold'
    BY IdleSold, <1>6 DEF HandleDeleted, WebSold, WebOK, Web, Sold
  <2> QED
    BY <1>6, <2>1, <2>2 DEF HandleDeleted, Sold, StripeSold, UserSold, RecSold
<1>7. CASE CheckOthers
  <2>1. WebSold'
    BY IdleSold, <1>7 DEF CheckOthers, WebSold, WebOK, Web, Sold
  <2> QED
    BY <1>7, <2>1 DEF CheckOthers, Sold, StripeSold, RowSold, UserSold, RecSold
<1>8. CASE HandlePaid
  <2>1. RowSold'
    BY <1>8 DEF HandlePaid, RowSold, RowOK, Row, Sold
  <2>2. WebSold'
    BY IdleSold, <1>8 DEF HandlePaid
  <2> QED
    BY <1>8, <2>1, <2>2 DEF HandlePaid, Sold, StripeSold, UserSold, RecSold
<1>9. CASE HandleFailed
  <2>1. RowSold'
    BY <1>9 DEF HandleFailed, RowSold, RowOK, Row, Sold
  <2>2. WebSold'
    BY IdleSold, <1>9 DEF HandleFailed
  <2> QED
    BY <1>9, <2>1, <2>2 DEF HandleFailed, Sold, StripeSold, UserSold, RecSold
<1>10. CASE HandleReleased
  <2>1. RowSold'
    BY <1>10 DEF HandleReleased, RowSold, RowOK, Row, Sold
  <2>2. WebSold'
    BY IdleSold, <1>10 DEF HandleReleased
  <2> QED
    BY <1>10, <2>1, <2>2 DEF HandleReleased, Sold, StripeSold, UserSold, RecSold
<1>11. CASE WriteUser
  <2>1. UserSold'
    BY <1>11 DEF WriteUser, UserSold, WebSold, WebOK, Sold, SetPlan
  <2>2. WebSold'
    BY <1>11 DEF WriteUser, WebSold, WebOK, Web, Sold
  <2> QED
    BY <1>11, <2>1, <2>2 DEF WriteUser, Sold, StripeSold, RowSold, RecSold
<1>43. CASE WebBust
  <2>1. WebSold'
    BY IdleSold, <1>43 DEF WebBust
  <2> QED
    BY <1>43, <2>1 DEF WebBust, Sold, StripeSold, RowSold, UserSold, RecSold
<1>12. CASE HandlerBreaks
  <2>1. StripeSold'
    BY <1>12 DEF HandlerBreaks, StripeSold, WebSold, Sold
  <2>2. WebSold'
    BY IdleSold, <1>12 DEF HandlerBreaks
  <2> QED
    BY <1>12, <2>1, <2>2 DEF HandlerBreaks, Sold, RowSold, UserSold, RecSold
<1>13. CASE RequestBreaks
  <2>1. WebSold'
    BY IdleSold, <1>13 DEF RequestBreaks
  <2> QED
    BY <1>13, <2>1 DEF RequestBreaks, Sold, StripeSold, RowSold, UserSold, RecSold
<1>14. ASSUME NEW s \in Subs, NEW p \in PaidPlans, AskUpgrade(s, p) PROVE SoldInv'
  <2>1. WebSold'
    BY <1>14 DEF AskUpgrade, Ask, WebSold, Sold, Idle
  <2> QED
    BY <1>14, <2>1 DEF AskUpgrade, Ask, Sold, StripeSold, RowSold, UserSold, RecSold
<1>15. ASSUME NEW s \in Subs, NEW p \in PaidPlans, AskDowngrade(s, p) PROVE SoldInv'
  <2>1. WebSold'
    BY <1>15 DEF AskDowngrade, Ask, WebSold, Sold, Idle
  <2> QED
    BY <1>15, <2>1 DEF AskDowngrade, Ask, Sold, StripeSold, RowSold, UserSold, RecSold
<1>16. ASSUME NEW s \in Subs, AskCancel(s) PROVE SoldInv'
  <2>1. WebSold'
    BY <1>16 DEF AskCancel, Ask, WebSold, Sold, Idle
  <2> QED
    BY <1>16, <2>1 DEF AskCancel, Ask, Sold, StripeSold, RowSold, UserSold, RecSold
<1>17. CASE Release
  <2>1. StripeSold' /\ charged \subseteq charged'
    BY BecomesSold, StripeSubs, EventSeqs, <1>17
       DEF Release, StripeOK, WebOK, StripeSold, Sold
  <2>2. WebSold'
    BY <1>17, <2>1, SoldStays, IdleSold DEF Release, WebSold, WebOK, Web, Sold
  <2> QED
    BY <2>1, <2>2, <1>17, SoldStays DEF Release
<1>18. CASE ReleaseFails
  <2>1. WebSold'
    BY IdleSold, <1>18 DEF ReleaseFails, WebSold, WebOK, Web, Sold
  <2> QED
    BY <1>18, <2>1 DEF ReleaseFails, Sold, StripeSold, RowSold, UserSold, RecSold
<1>19. CASE ClearMarkers
  <2>1. RowSold'
    BY <1>19 DEF ClearMarkers, RowSold, RowOK, Row, Sold
  <2>2. WebSold'
    BY IdleSold, <1>19 DEF ClearMarkers, WebSold, WebOK, Web, Sold
  <2> QED
    BY <1>19, <2>1, <2>2 DEF ClearMarkers, Sold, StripeSold, UserSold, RecSold
<1>20. CASE Charge
  <2>1. StripeSold' /\ charged \subseteq charged'
    BY BecomesSold, StripeSubs, EventSeqs, <1>20 DEF Charge, StripeOK, WebOK, StripeSold,
           Sold
  <2>2. <<web.sub, web.plan>> \in charged'
    BY <1>20 DEF Charge, Becomes, WebOK, StripeOK, StripeSub
  <2>3. WebSold'
    BY <1>20, <2>1, <2>2 DEF Charge, WebSold, WebOK, Web, Sold
  <2> QED
    BY <2>1, <2>3, <1>20, SoldStays DEF Charge
<1>21. CASE ChargeFails
  <2>1. WebSold'
    BY IdleSold, <1>21 DEF ChargeFails, Refused
  <2> QED
    BY <1>21, <2>1 DEF ChargeFails, Sold, StripeSold, RowSold, UserSold, RecSold
<1>22. CASE StoreUpgrade
  <2>1. RowSold'
    BY <1>22 DEF StoreUpgrade, RowSold, RowOK, Row, WebSold, WebOK, Sold
  <2>2. WebSold'
    BY <1>22 DEF StoreUpgrade, WebSold, WebOK, Web, Sold
  <2> QED
    BY <1>22, <2>1, <2>2 DEF StoreUpgrade, Sold, StripeSold, UserSold, RecSold
<1>23. CASE Schedule
  <2>1. StripeSold' /\ charged \subseteq charged'
    BY BecomesSold, StripeSubs, EventSeqs, <1>23
       DEF Schedule, StripeOK, WebOK, StripeSold, Sold
  <2>2. WebSold'
    BY <1>23, <2>1, SoldStays, IdleSold DEF Schedule, WebSold, WebOK, Web, Sold
  <2> QED
    BY <2>1, <2>2, <1>23, SoldStays DEF Schedule
<1>24. CASE StoreDowngrade
  <2>1. RowSold'
    BY <1>24 DEF StoreDowngrade, RowSold, RowOK, Row, Sold
  <2>2. WebSold'
    BY IdleSold, <1>24 DEF StoreDowngrade
  <2> QED
    BY <1>24, <2>1, <2>2 DEF StoreDowngrade, Sold, StripeSold, UserSold, RecSold
<1>25. CASE RecStart
  <2>1. RecSold'
    BY <1>25 DEF RecStart, RecSold, RecIdle
  <2> QED
    BY <1>25, <2>1 DEF RecStart, Sold, StripeSold, RowSold, UserSold, WebSold
<1>26. ASSUME NEW s \in Subs, Compare(s) PROVE SoldInv'
  <2>1. RecSold'
    BY <1>26 DEF Compare, RecSold, RecOK, StripeSold, Sold
  <2> QED
    BY <1>26, <2>1 DEF Compare, Sold, StripeSold, RowSold, UserSold, WebSold
<1>27. ASSUME NEW s \in Subs, FetchFails(s) PROVE SoldInv'
  <2>1. RecSold'
    BY <1>27 DEF FetchFails, RecSold, RecOK, Sold
  <2> QED
    BY <1>27, <2>1 DEF FetchFails, Sold, StripeSold, RowSold, UserSold, WebSold
<1>28. CASE RecWrite
  <2>1. RowSold'
    BY <1>28 DEF RecWrite, RowSold, RowOK, RecOK, RecSold, Sold, Correct, Corrected, Row
  <2>2. RecSold'
    BY <1>28 DEF RecWrite, RecSold, RecOK, RecNext, Sold
  <2> QED
    BY <1>28, <2>1, <2>2 DEF RecWrite, Sold, StripeSold, UserSold, WebSold
<1>29. CASE RecUser
  <2>1. UserSold'
    BY <1>29 DEF RecUser, UserSold, RecSold, RecOK, Sold, SetPlan
  <2>2. RecSold'
    BY <1>29 DEF RecUser, RecSold, RecOK
  <2> QED
    BY <1>29, <2>1, <2>2 DEF RecUser, Sold, StripeSold, RowSold, WebSold
<1>44. CASE RecBust
  <2>1. RecSold'
    BY <1>44 DEF RecBust, RecSold, RecOK, RecNext
  <2> QED
    BY <1>44, <2>1 DEF RecBust, Sold, StripeSold, RowSold, UserSold, WebSold
<1>30. CASE RecEnd
  <2>1. RecSold'
    BY <1>30 DEF RecEnd, RecSold, RecIdle
  <2> QED
    BY <1>30, <2>1 DEF RecEnd, Sold, StripeSold, RowSold, UserSold, WebSold
<1>31. CASE RecBreaks
  <2>1. RecSold'
    BY <1>31 DEF RecBreaks, RecSold, RecIdle
  <2> QED
    BY <1>31, <2>1 DEF RecBreaks, Sold, StripeSold, RowSold, UserSold, WebSold
<1>32. CASE DunStart
  BY <1>32 DEF DunStart, Sold, StripeSold, RowSold, UserSold, WebSold, RecSold
<1>33. ASSUME NEW s \in Subs, DunCancel(s) PROVE SoldInv'
  <2>1. RowSold'
    BY <1>33 DEF DunCancel, RowSold, RowOK, Row, Sold
  <2> QED
    BY <1>33, <2>1 DEF DunCancel, Sold, StripeSold, UserSold, WebSold, RecSold
<1>34. CASE DunUser
  <2>1. UserSold'
    BY <1>34 DEF DunUser, UserSold, SetPlan
  <2> QED
    BY <1>34, <2>1 DEF DunUser, Sold, StripeSold, RowSold, WebSold, RecSold
<1>45. CASE DunBust
  BY <1>45 DEF DunBust, Sold, StripeSold, RowSold, UserSold, WebSold, RecSold
<1>35. CASE DunBreaks
  BY <1>35 DEF DunBreaks, Sold, StripeSold, RowSold, UserSold, WebSold, RecSold
<1>36. ASSUME NEW s \in Subs, OpenCheckout(s) PROVE SoldInv'
  BY <1>36 DEF OpenCheckout, Sold, StripeSold, RowSold, UserSold, WebSold, RecSold
<1>37. ASSUME NEW s \in Subs, NEW p \in PaidPlans, CompleteCheckout(s, p) PROVE SoldInv'
  <2>1. StripeSold' /\ charged \subseteq charged'
    BY BecomesSold, StripeSubs, EventSeqs, <1>37
       DEF CompleteCheckout, StripeOK, WebOK, StripeSold, Sold
  <2> QED
    BY <2>1, <1>37, SoldStays DEF CompleteCheckout
<1>38. ASSUME NEW s \in Subs, StripeChange(s) PROVE SoldInv'
  <2>1. StripeSold' /\ charged \subseteq charged'
    BY BecomesSold, StripeSubs, EventSeqs, <1>38
       DEF StripeChange, StripeOK, WebOK, StripeSold, Sold
  <2> QED
    BY <2>1, <1>38, SoldStays DEF StripeChange
<1>39. ASSUME NEW s \in Subs, GracePasses(s) PROVE SoldInv'
  <2>1. RowSold'
    BY <1>39 DEF GracePasses, RowSold, RowOK, Row, Sold
  <2> QED
    BY <1>39, <2>1 DEF GracePasses, Sold, StripeSold, UserSold, WebSold, RecSold
<1>40. ASSUME NEW e \in inbox, Lose(e) PROVE SoldInv'
  <2>1. StripeSold'
    BY <1>40 DEF Lose, StripeSold, Sold
  <2> QED
    BY <1>40, <2>1 DEF Lose, Sold, RowSold, UserSold, WebSold, RecSold
<1>41. ASSUME NEW e \in inbox, Deliver(e) PROVE SoldInv'
  <2>1. StripeSold'
    BY <1>41 DEF Deliver, StripeSold, Sold
  <2>2. WebSold'
    BY <1>41 DEF Deliver, WebSold, StripeSold, Sold, Idle, NoEvent
  <2> QED
    BY <1>41, <2>1, <2>2 DEF Deliver, Sold, RowSold, UserSold, RecSold
<1>42. CASE UNCHANGED vars
  BY <1>42 DEF vars, Sold, StripeSold, RowSold, UserSold, WebSold, RecSold
<1> QED
  BY <1>1, <1>2, <1>3, <1>4, <1>5, <1>6, <1>7, <1>8, <1>9, <1>10, <1>11, <1>12, <1>13,
     <1>14, <1>15, <1>16, <1>17, <1>18, <1>19, <1>20, <1>21, <1>22, <1>23, <1>24, <1>25,
     <1>26, <1>27, <1>28, <1>29, <1>30, <1>31, <1>32, <1>33, <1>34, <1>35, <1>36, <1>37,
     <1>38, <1>39, <1>40, <1>41, <1>42, <1>43, <1>44, <1>45
     DEF Next, Stripe, HandlerStep, Request, RequestStep, WebStep, RecStep, DunStep, Breaks

(* Whatever the order in which events, plan changes, dunning and the       *)
(* reconciler write them, and whatever is lost, repeated or broken off,    *)
(* users.plan and the rows never show a plan Stripe has not sold.          *)
THEOREM NothingUnpaid == Spec => []NeverGrantedUnpaid
<1>1. Spec => [](TypeInv /\ SoldInv)
  <2>1. Init => TypeInv /\ SoldInv
    BY InitTypeInv, InitSoldInv
  <2>2. TypeInv /\ SoldInv /\ [Next]_vars => (TypeInv /\ SoldInv)'
    BY NextTypeInv, NextSoldInv
  <2> QED
    BY <2>1, <2>2, PTL DEF Spec
<1>2. SoldInv => NeverGrantedUnpaid
  BY DEF SoldInv, NeverGrantedUnpaid, UserSold, RowSold, Sold
<1> QED
  BY <1>1, <1>2, PTL

-----------------------------------------------------------------------------
(* The cache.  Between the write of users.plan and the deletion a stale    *)
(* profile may be there; afterwards it is there only if the deletion did   *)
(* not happen, or was over when a request stored an earlier read.          *)

(* Who writes users.plan is about to delete the profile.                   *)
LEMMA MirrorCache ==
    ASSUME WriteUser \/ RecUser \/ DunUser, TypeInv
    PROVE  BustComes'
BY DEF WriteUser, RecUser, DunUser, BustComes, TypeInv, WebOK, Web, RecOK, DunOK

(* The deletion leaves no profile, or is known to have failed.             *)
LEMMA BustCache ==
    ASSUME Bust, UNCHANGED userPlan, CacheStaleHasCause
    PROVE  CacheStaleHasCause'
BY DEF Bust, CacheStaleHasCause, Stale, Blame

(* The three that break off leave it stale at their blame.                 *)
LEMMA BreakCache ==
    ASSUME CacheStaleHasCause,
           HandlerBreaks \/ RequestBreaks \/ RecBreaks \/ DunBreaks
    PROVE  CacheStaleHasCause'
<1>1. UNCHANGED <<userPlan, cache>>
  BY DEF HandlerBreaks, RequestBreaks, RecBreaks, DunBreaks, cacheVars
<1>2. causes \subseteq causes'
  BY DEF HandlerBreaks, RequestBreaks, RecBreaks, DunBreaks, Breaking
<1>3. Stale /\ BustComes => BustComes' \/ "unbusted" \in causes'
  <2>1. CASE HandlerBreaks
    BY <2>1 DEF HandlerBreaks, Breaking, BustComes
  <2>2. CASE RequestBreaks
    BY <2>2 DEF RequestBreaks, Breaking, BustComes
  <2>3. CASE RecBreaks
    BY <2>3 DEF RecBreaks, Breaking, BustComes
  <2>4. CASE DunBreaks
    BY <2>4 DEF DunBreaks, Breaking, BustComes
  <2> QED
    BY <2>1, <2>2, <2>3, <2>4
<1> QED
  BY <1>1, <1>2, <1>3 DEF CacheStaleHasCause, Stale

LEMMA NextCacheInv ==
    ASSUME TypeInv, CacheStaleHasCause, [Next]_vars
    PROVE  CacheStaleHasCause'
<1> DEFINE Quiet == /\ UNCHANGED <<userPlan, cache>> /\ causes \subseteq causes'
                    /\ BustComes => BustComes'
<1>1. CASE WriteUser \/ RecUser \/ DunUser
  BY <1>1, MirrorCache DEF CacheStaleHasCause
<1>2. CASE WebBust \/ RecBust \/ DunBust
  BY <1>2, BustCache DEF WebBust, RecBust, DunBust
<1>3. CASE FillStore
  BY <1>3 DEF CacheStaleHasCause, Stale, FillStore, BlameIf, BustComes
<1>4. CASE CacheExpires
  BY <1>4 DEF CacheStaleHasCause, Stale, CacheExpires
<1>5. CASE HandlerBreaks \/ RequestBreaks \/ RecBreaks \/ DunBreaks
  BY <1>5, BreakCache
<1>6. CASE Quiet
  BY <1>6 DEF CacheStaleHasCause, Stale
<1>7. \/ WriteUser \/ RecUser \/ DunUser \/ WebBust \/ RecBust \/ DunBust
      \/ FillStore \/ CacheExpires
      \/ HandlerBreaks \/ RequestBreaks \/ RecBreaks \/ DunBreaks
      \/ Quiet
  <2> USE DEF stripeVars, cacheVars, Blame, BlameIf, Rest, BustComes, TypeInv, WebOK, Web
  <2>1. CASE Stripe
    BY <2>1 DEF Stripe, OpenCheckout, CompleteCheckout, StripeChange, GracePasses, Lose
  <2>2. CASE FillRead
    BY <2>2 DEF FillRead
  <2>10. CASE \E e \in inbox : Deliver(e)
    <3>1. PICK e \in inbox : Deliver(e)
      BY <2>10
    <3>2. web.at # "bust" /\ UNCHANGED <<userPlan, cache, rec, dun>>
      BY <3>1 DEF Deliver, Idle
    <3>3. causes \subseteq causes'
      BY <3>1 DEF Deliver
    <3> QED
      BY <3>2, <3>3
  <2>3. CASE HandlerStep /\ ~WriteUser /\ ~WebBust
    BY <2>3 DEF HandlerStep, HandleCheckout, HandleUpdated, HandleDeleted, CheckOthers,
                HandlePaid, HandleFailed, HandleReleased, Handles
  <2>4. CASE Request
    <3>1. \E s \in Subs, p \in Plans, direction \in {"charge", "schedule", "idle"} :
             Ask(s, p, direction)
      BY <2>4 DEF Request, AskUpgrade, AskDowngrade, AskCancel
    <3>2. web.at # "bust" /\ UNCHANGED <<userPlan, cache, rec, dun, causes>>
      BY <3>1 DEF Ask, Idle
    <3> QED
      BY <3>2
  <2>5. CASE RequestStep
    BY <2>5 DEF RequestStep, Release, ClearMarkers, Charge, ChargeFails, StoreUpgrade,
                Schedule, StoreDowngrade
  <2>6. CASE RecStart \/ RecWrite \/ RecEnd \/ \E s \in Subs : Compare(s)
    BY <2>6 DEF RecStart, RecWrite, RecEnd, Compare
  <2>7. CASE DunStart \/ \E s \in Subs : DunCancel(s)
    BY <2>7 DEF DunStart, DunCancel
  <2>8. CASE ReleaseFails \/ \E s \in Subs : FetchFails(s)
    BY <2>8 DEF ReleaseFails, FetchFails, RecOK
  <2>9. CASE UNCHANGED vars
    BY <2>9 DEF vars
  <2> QED
    BY <2>1, <2>2, <2>3, <2>4, <2>5, <2>6, <2>7, <2>8, <2>9, <2>10
       DEF Next, WebStep, HandlerStep, RecStep, DunStep, Breaks
<1> QED
  BY <1>1, <1>2, <1>3, <1>4, <1>5, <1>6, <1>7

(* However events, requests and jobs interleave with one another and with  *)
(* the requests that fill the cache: an outdated plan is served while its  *)
(* deletion is still to come, and beyond that only after a request stored  *)
(* what it had read before the change when the deletion was over, or after *)
(* a deletion that failed or never came.                                   *)
THEOREM StaleOnlyWithCause == Spec => []CacheStaleHasCause
<1>1. Init => TypeInv /\ CacheStaleHasCause
  BY InitTypeInv DEF Init, CacheStaleHasCause, Stale
<1>2. TypeInv /\ CacheStaleHasCause /\ [Next]_vars => (TypeInv /\ CacheStaleHasCause)'
  BY NextTypeInv, NextCacheInv
<1> QED
  BY <1>1, <1>2, PTL DEF Spec

-----------------------------------------------------------------------------
(* The account at rest.  While nothing has happened that the code does not *)
(* handle (Clean), the last event Stripe has no answer for tells, for each *)
(* subscription, what Stripe says of it, and the subscriptions follow one  *)
(* another; so a row may differ from Stripe only while an event about it   *)
(* waits, and users.plan from the rows only while an event waits or a      *)
(* writer is on its way to the mirror write.                               *)

(* The events Stripe has no answer for, and those among them whose handler *)
(* has not yet written the row.                                            *)
Unanswered == inbox \cup ({web.event} \ {NoEvent})
Waiting == inbox \cup (IF web.at = "row" THEN {web.event} ELSE {})

Clean == causes \cap Excuses = {}

(* What the latest event of a subscription tells is what Stripe says of it. *)
Tells(e, t) ==
    /\ e.status = t.status /\ e.plan = t.plan /\ e.sched = t.sched
    /\ e.type \in (IF t.status = "canceled" THEN {"deleted"} ELSE {"updated", "checkout"})
Final(e) ==
    /\ Tells(e, stripe[e.sub])
    /\ \A f \in Unanswered : f.sub = e.sub => f.at <= e.at

OneLive == \A r, s \in Subs : Live(stripe[r]) /\ Live(stripe[s]) => r = s
Opening == \A s \in open : stripe[s].status = "absent"

(* Events have distinct dates, none later than the latest change; the one  *)
(* being handled is the oldest; each is about a subscription that began.   *)
Dated ==
    /\ \A e \in Unanswered : e.at <= 2 * changes /\ stripe[e.sub].status # "absent"
    /\ \A e, f \in Unanswered : e.at = f.at => e = f
    /\ web.event # NoEvent => \A f \in inbox : web.event.at < f.at
Contents ==
    /\ \A e \in Unanswered : e.type = "updated" => e.status \in {"active", "past_due"}
    /\ \A e \in Unanswered : e.type = "checkout" => e.status = "active"
    /\ \A e \in Unanswered : e.type = "deleted" => stripe[e.sub].status = "canceled"
    /\ \A e, f \in Unanswered : e.type = "deleted" /\ f.sub = e.sub => f.at <= e.at
    /\ \A e \in Unanswered : \E f \in Unanswered : f.sub = e.sub /\ Final(f)
(* The subscriptions of the account follow one another: what is told of    *)
(* one before something is told of another ends with its deletion.         *)
EndsBefore(r, e) ==
    \E d \in Unanswered : d.sub = r /\ d.type = "deleted" /\ d.at < e.at
Successive ==
    \A e, f \in Unanswered : e.sub # f.sub /\ e.at < f.at => EndsBefore(e.sub, f)

EventInv == OneLive /\ Opening /\ Dated /\ Contents /\ Successive

(* A row that no waiting event is about says what Stripe says; one that is *)
(* not there yet, or that the reconciler has marked canceled, waits for    *)
(* the event that creates or cancels it; one that is tracked is of the     *)
(* last subscription, or of one whose deletion comes first.                *)
RowsInv ==
    /\ \A s \in Subs : (\A e \in Waiting : e.sub # s) => RowAgrees(s)
    /\ \A s \in Subs : row[s].status = "absent" /\ stripe[s].status # "absent" =>
          \E e \in Waiting : e.sub = s /\ e.type = "updated"
    /\ \A s \in Subs : row[s].status # "absent" => stripe[s].status # "absent"
    /\ \A s \in Subs : row[s].status = "canceled" =>
          \E e \in Waiting : e.sub = s /\ e.type = "deleted"
    /\ \A s \in Subs, e \in Unanswered : Tracked(row[s]) /\ e.sub # s => EndsBefore(s, e)

(* What the writers know between their steps.                              *)
StageInv ==
    /\ web.event # NoEvent /\ web.at # "row" /\ web.event.type = "deleted" =>
          row[web.sub].status = "cancelled"
    /\ web.at = "store" => \E e \in inbox : e.sub = web.sub
    /\ web.at = "check" => web.event.type = "deleted"
    /\ rec.at = "write" => Tracked(Seen(rec.sub))
    /\ rec.at = "user" => /\ Seen(rec.sub).plan = rec.found.plan
                          /\ Seen(rec.sub).status = rec.found.status
                          /\ rec.found.status # "absent"

(* users.plan is that of a tracked row, or else somebody will write it.    *)
UserMatches ==
    \/ userPlan = "free" /\ \A s \in Subs : ~Tracked(row[s])
    \/ \E s \in Subs : Tracked(row[s]) /\ userPlan = row[s].plan
UserInv ==
    \/ UserMatches
    \/ Waiting # {}
    \/ web.at \in {"check", "user"} \/ rec.at = "user" \/ dun.at = "user"

DriftInv == Clean => EventInv /\ RowsInv /\ StageInv /\ UserInv

-----------------------------------------------------------------------------
(* A handler is at one of these steps.                                     *)
HandlerOK == web.event # NoEvent => web.at \in {"row", "check", "user", "bust"}

(* A step that leaves Stripe alone and answers no event; one that answers  *)
(* the event at hand; and one in which subscription s becomes t at Stripe, *)
(* which is told in the events N.                                          *)
Settles ==
    /\ UNCHANGED <<stripe, changes>> /\ Unanswered' = Unanswered
    /\ \A s \in open' : s \in open \/ stripe[s].status = "absent"
    /\ (web.event # NoEvent => \A f \in inbox : web.event.at < f.at)'
Answers ==
    /\ UNCHANGED <<stripe, changes, inbox, open>>
    /\ web.event # NoEvent /\ web'.event = NoEvent
Told(N, s, t) ==
    /\ \A e \in N : /\ e.sub = s /\ e.status = t.status /\ e.plan = t.plan /\ e.sched = t.sched
                    /\ e.at > 2 * changes /\ e.at <= 2 * changes + 2
                    /\ e.type = "updated" => Live(t)
                    /\ e.type = "checkout" => t.status = "active"
                    /\ e.type = "deleted" => N = {e} /\ t.status = "canceled"
                    /\ e.type = "released" => t.sched = None
    /\ \A e, f \in N : e.at = f.at => e = f
    /\ \E l \in N : /\ \A e \in N : e.at <= l.at
                    /\ Tells(l, t)
                    /\ l.type = "checkout" => stripe[s].status = "absent" /\ t.sched = None
                    /\ \A e \in N : e.type = "released" => l.type = "updated"
    /\ t.status # "canceled" => \E e \in N : e.type = "updated"
Moves(N, s, t) ==
    /\ Told(N, s, t) /\ N \subseteq Event
    /\ inbox' = inbox \cup N /\ stripe' = [stripe EXCEPT ![s] = t] /\ changes' = changes + 1
    /\ web'.event = web.event
    /\ open' \subseteq open /\ t.status # "absent"
    /\ \/ Live(stripe[s])
       \/ /\ stripe[s].status = "absent" /\ s \notin open' /\ Live(t) /\ t.sched = None
          /\ \A r \in Subs \ {s} : ~Live(stripe[r])
EventStep == Settles \/ Answers \/ \E s \in Subs, t \in StripeSub, N \in SUBSET Event : Moves(N, s, t)

LEMMA HandlerInit == Init => HandlerOK
BY DEF Init, HandlerOK, Idle

LEMMA HandlerNext == TypeInv /\ HandlerOK /\ [Next]_vars => HandlerOK'
<1> SUFFICES ASSUME TypeInv, HandlerOK, [Next]_vars PROVE HandlerOK'
  OBVIOUS
<1> USE DEF HandlerOK, TypeInv, WebOK, Web, stripeVars, cacheVars, Rest
<1>1. CASE Stripe
  BY <1>1 DEF Stripe, OpenCheckout, CompleteCheckout, StripeChange, GracePasses, Lose
<1>2. CASE FillRead \/ FillStore \/ CacheExpires
  BY <1>2 DEF FillRead, FillStore, CacheExpires
<1>3. CASE \E e \in inbox : Deliver(e)
  BY <1>3 DEF Deliver, Idle
<1>4. CASE HandlerStep
  <2>1. CASE HandleCheckout
    BY <2>1 DEF HandleCheckout, Handles, Idle
  <2>2. CASE HandleUpdated
    BY <2>2 DEF HandleUpdated, Handles, Idle
  <2>3. CASE HandleDeleted
    BY <2>3 DEF HandleDeleted, Handles, Idle
  <2>4. CASE CheckOthers
    BY <2>4 DEF CheckOthers, Handles, Idle
  <2>5. CASE HandlePaid
    BY <2>5 DEF HandlePaid, Handles, Idle
  <2>6. CASE HandleFailed
    BY <2>6 DEF HandleFailed, Handles, Idle
  <2>7. CASE HandleReleased
    BY <2>7 DEF HandleReleased, Handles, Idle
  <2>8. CASE WriteUser
    BY <2>8 DEF WriteUser
  <2>9. CASE WebBust
    BY <2>9 DEF WebBust, Idle
  <2> QED
    BY <1>4, <2>1, <2>2, <2>3, <2>4, <2>5, <2>6, <2>7, <2>8, <2>9 DEF HandlerStep
<1>5. CASE Request
  BY <1>5 DEF Request, AskUpgrade, AskDowngrade, AskCancel, Ask, Idle
<1>6. CASE RequestStep
  BY <1>6 DEF RequestStep, Release, ClearMarkers, Charge, ChargeFails, StoreUpgrade,
              Schedule, StoreDowngrade, Idle, Refused
<1>7. CASE RecStart \/ RecStep
  BY <1>7 DEF RecStart, RecStep, RecWrite, RecUser, RecBust, RecEnd, Compare
<1>8. CASE DunStart \/ DunStep
  BY <1>8 DEF DunStart, DunStep, DunCancel, DunUser, DunBust
<1>9. CASE Breaks
  <2>1. CASE HandlerBreaks \/ RequestBreaks
    <3>1. web' = Idle
      BY <2>1 DEF HandlerBreaks, RequestBreaks
    <3> QED
      BY <3>1 DEF Idle
  <2>2. CASE ReleaseFails
    BY <2>2 DEF ReleaseFails, Idle
  <2>3. CASE RecBreaks \/ DunBreaks
    BY <2>3 DEF RecBreaks, DunBreaks
  <2>4. CASE \E s \in Subs : FetchFails(s)
    BY <2>4 DEF FetchFails
  <2> QED
    BY <1>9, <2>1, <2>2, <2>3, <2>4 DEF Breaks
<1>10. CASE UNCHANGED vars
  BY <1>10 DEF vars
<1> QED
  BY <1>1, <1>2, <1>3, <1>4, <1>5, <1>6, <1>7, <1>8, <1>9, <1>10 DEF Next, WebStep

LEMMA CausesGrow == TypeInv /\ [Next]_vars => causes \subseteq causes'
<1> SUFFICES ASSUME TypeInv, [Next]_vars PROVE causes \subseteq causes'
  OBVIOUS
<1> USE DEF stripeVars, cacheVars, Rest, Blame, BlameIf, SetPlan, Bust, Breaking
<1>1. CASE Stripe
  BY <1>1 DEF Stripe, OpenCheckout, CompleteCheckout, StripeChange, GracePasses, Lose
<1>2. CASE FillRead \/ FillStore \/ CacheExpires
  BY <1>2 DEF FillRead, FillStore, CacheExpires
<1>3. CASE \E e \in inbox : Deliver(e)
  BY <1>3 DEF Deliver
<1>4. CASE HandlerStep
  BY <1>4 DEF HandlerStep, HandleCheckout, HandleUpdated, HandleDeleted, CheckOthers,
              HandlePaid, HandleFailed, HandleReleased, WriteUser, WebBust
<1>5. CASE Request
  BY <1>5 DEF Request, AskUpgrade, AskDowngrade, AskCancel, Ask
<1>6. CASE RequestStep
  BY <1>6 DEF RequestStep, Release, ClearMarkers, Charge, ChargeFails, StoreUpgrade,
              Schedule, StoreDowngrade
<1>7. CASE RecStart \/ RecStep
  BY <1>7 DEF RecStart, RecStep, RecWrite, RecUser, RecBust, RecEnd, Compare
<1>8. CASE DunStart \/ DunStep
  BY <1>8 DEF DunStart, DunStep, DunCancel, DunUser, DunBust
<1>9. CASE Breaks
  BY <1>9 DEF Breaks, HandlerBreaks, RequestBreaks, ReleaseFails, RecBreaks, DunBreaks,
              FetchFails
<1>10. CASE UNCHANGED vars
  BY <1>10 DEF vars
<1> QED
  BY <1>1, <1>2, <1>3, <1>4, <1>5, <1>6, <1>7, <1>8, <1>9, <1>10 DEF Next, WebStep

(* What Stripe tells of a change.                                          *)
NewEvents(s, t, types) ==
    {[at |-> 2 * changes + i, type |-> types[i], sub |-> s,
      status |-> t.status, plan |-> t.plan, sched |-> t.sched] : i \in DOMAIN types}

(* One event, two events, and those of a subscription that begins.         *)
LEMMA ToldOne ==
    ASSUME StripeOK, NEW s \in Subs, NEW t \in StripeSub, NEW y \in {"updated", "deleted"},
           y = "updated" => Live(t), y = "deleted" => t.status = "canceled"
    PROVE  Told(NewEvents(s, t, <<y>>), s, t) /\ NewEvents(s, t, <<y>>) \subseteq Event
<1> DEFINE e == [at |-> 2 * changes + 1, type |-> y, sub |-> s,
                 status |-> t.status, plan |-> t.plan, sched |-> t.sched]
<1>1. NewEvents(s, t, <<y>>) = {e}
  BY DEF NewEvents
<1>2. changes \in Nat
  BY DEF StripeOK
<1>3. e \in Event
  BY <1>2 DEF Event, EventTypes, StripeSub
<1>4. Told({e}, s, t)
  BY <1>2 DEF Told, Tells, Live
<1> QED
  BY <1>1, <1>3, <1>4

LEMMA ToldTwo ==
    ASSUME StripeOK, NEW s \in Subs, NEW t \in StripeSub,
           NEW x \in {"failed", "paid", "released"}, Live(t),
           x = "released" => t.sched = None
    PROVE  Told(NewEvents(s, t, <<x, "updated">>), s, t)
           /\ NewEvents(s, t, <<x, "updated">>) \subseteq Event
<1> DEFINE e == [at |-> 2 * changes + 1, type |-> x, sub |-> s,
                 status |-> t.status, plan |-> t.plan, sched |-> t.sched]
           f == [at |-> 2 * changes + 2, type |-> "updated", sub |-> s,
                 status |-> t.status, plan |-> t.plan, sched |-> t.sched]
<1>1. NewEvents(s, t, <<x, "updated">>) = {e, f}
  BY DEF NewEvents
<1>2. changes \in Nat
  BY DEF StripeOK
<1>3. {e, f} \subseteq Event
  BY <1>2 DEF Event, EventTypes, StripeSub
<1>4. Told({e, f}, s, t)
  BY <1>2 DEF Told, Tells, Live
<1> QED
  BY <1>1, <1>3, <1>4

LEMMA ToldNew ==
    ASSUME StripeOK, NEW s \in Subs, NEW t \in StripeSub,
           stripe[s].status = "absent", t.status = "active", t.sched = None
    PROVE  Told(NewEvents(s, t, <<"updated", "checkout">>), s, t)
           /\ NewEvents(s, t, <<"updated", "checkout">>) \subseteq Event
<1> DEFINE e == [at |-> 2 * changes + 1, type |-> "updated", sub |-> s,
                 status |-> t.status, plan |-> t.plan, sched |-> t.sched]
           f == [at |-> 2 * changes + 2, type |-> "checkout", sub |-> s,
                 status |-> t.status, plan |-> t.plan, sched |-> t.sched]
<1>1. NewEvents(s, t, <<"updated", "checkout">>) = {e, f}
  BY DEF NewEvents
<1>2. changes \in Nat
  BY DEF StripeOK
<1>3. {e, f} \subseteq Event
  BY <1>2 DEF Event, EventTypes, StripeSub
<1>4. Told({e, f}, s, t)
  BY <1>2 DEF Told, Tells, Live
<1> QED
  BY <1>1, <1>3, <1>4

(* The steps as the events see them.                                       *)
LEMMA NotNoEvent == \A e \in Event : e # NoEvent
BY DEF Event, EventTypes, NoEvent

LEMMA QuietSettles ==
    ASSUME Dated, UNCHANGED <<stripe, changes, inbox, open>>, web'.event = web.event
    PROVE  Settles
BY DEF Dated, Settles, Unanswered

LEMMA DeliverSettles ==
    ASSUME TypeInv, Dated, NEW e \in inbox, Deliver(e), "reordered" \notin causes'
    PROVE  Settles
<1> USE DEF TypeInv, StripeOK
<1>1. e \in Event /\ e # NoEvent
  BY NotNoEvent
<1>2. web = Idle /\ Oldest(e) /\ UNCHANGED <<stripe, changes, open>>
      /\ web'.event = e /\ inbox' = inbox \ {e}
  BY DEF Deliver, Blame, stripeVars, Idle
<1>3. Unanswered' = Unanswered
  BY <1>1, <1>2 DEF Unanswered, Idle
<1>4. ASSUME NEW f \in inbox, f # e PROVE e.at < f.at
  <2>1. f \in Unanswered /\ e \in Unanswered
    BY DEF Unanswered
  <2>2. e.at # f.at
    BY <1>4, <2>1 DEF Dated
  <2>3. e.at \in Nat /\ f.at \in Nat
    BY DEF Event
  <2> QED
    BY <1>2, <2>2, <2>3 DEF Oldest
<1> QED
  BY <1>2, <1>3, <1>4 DEF Settles

LEMMA BecomesMoves ==
    ASSUME StripeOK, NEW s \in Subs, NEW t \in StripeSub, NEW types, Becomes(s, t, types),
           Told(NewEvents(s, t, types), s, t), NewEvents(s, t, types) \subseteq Event,
           web'.event = web.event, open' \subseteq open, t.status # "absent",
           \/ Live(stripe[s])
           \/ /\ stripe[s].status = "absent" /\ s \notin open' /\ Live(t) /\ t.sched = None
              /\ \A r \in Subs \ {s} : ~Live(stripe[r])
    PROVE  EventStep
<1>1. Moves(NewEvents(s, t, types), s, t)
  BY DEF Moves, Becomes, NewEvents
<1> QED
  BY <1>1 DEF EventStep

LEMMA StripeChangeSteps ==
    ASSUME TypeInv, NEW s \in Subs, StripeChange(s)
    PROVE  EventStep
<1> DEFINE t == stripe[s]
<1> USE DEF TypeInv, StripeOK
<1>1. t \in StripeSub /\ web' = web /\ open' = open
  BY DEF StripeChange
<1>2. CASE t.status = "active" /\ Becomes(s, [t EXCEPT !.status = "past_due"], <<"failed", "updated">>)
  <2> DEFINE u == [t EXCEPT !.status = "past_due"]
  <2>1. u \in StripeSub /\ Live(u) /\ Live(t) /\ u.status # "absent"
    BY <1>1, <1>2 DEF StripeSub, Live
  <2> QED
    BY <1>1, <1>2, <2>1, ToldTwo, BecomesMoves
<1>3. CASE t.status = "past_due" /\ Becomes(s, [t EXCEPT !.status = "active"], <<"paid", "updated">>)
  <2> DEFINE u == [t EXCEPT !.status = "active"]
  <2>1. u \in StripeSub /\ Live(u) /\ Live(t) /\ u.status # "absent"
    BY <1>1, <1>3 DEF StripeSub, Live
  <2> QED
    BY <1>1, <1>3, <2>1, ToldTwo, BecomesMoves
<1>4. CASE Live(t) /\ t.sched # None /\ Becomes(s, [t EXCEPT !.plan = t.sched, !.sched = None], <<"updated">>)
  <2> DEFINE u == [t EXCEPT !.plan = t.sched, !.sched = None]
  <2>1. u \in StripeSub /\ Live(u) /\ u.status # "absent"
    BY <1>1, <1>4 DEF StripeSub, Live
  <2> QED
    BY <1>1, <1>4, <2>1, ToldOne, BecomesMoves
<1>5. CASE Live(t) /\ t.sched # None /\ Becomes(s, [t EXCEPT !.sched = None], <<"released", "updated">>)
  <2> DEFINE u == [t EXCEPT !.sched = None]
  <2>1. u \in StripeSub /\ Live(u) /\ u.status # "absent" /\ u.sched = None
    BY <1>1, <1>5 DEF StripeSub, Live
  <2> QED
    BY <1>1, <1>5, <2>1, ToldTwo, BecomesMoves
<1>6. CASE Live(t) /\ Becomes(s, [t EXCEPT !.status = "canceled", !.sched = None], <<"deleted">>)
  <2> DEFINE u == [t EXCEPT !.status = "canceled", !.sched = None]
  <2>1. u \in StripeSub /\ u.status = "canceled"
    BY <1>1, <1>6 DEF StripeSub, Live
  <2> QED
    BY <1>1, <1>6, <2>1, ToldOne, BecomesMoves
<1>7. CASE Live(t) /\ \E p \in PaidPlans \ {t.plan} : Becomes(s, [t EXCEPT !.plan = p], <<"updated">>)
  <2>1. PICK p \in PaidPlans : Becomes(s, [t EXCEPT !.plan = p], <<"updated">>)
    BY <1>7
  <2> DEFINE u == [t EXCEPT !.plan = p]
  <2>2. u \in StripeSub /\ Live(u) /\ u.status # "absent"
    BY <1>1, <1>7 DEF StripeSub, Live
  <2> QED
    BY <1>1, <1>7, <2>1, <2>2, ToldOne, BecomesMoves
<1> QED
  BY <1>2, <1>3, <1>4, <1>5, <1>6, <1>7 DEF StripeChange

LEMMA CompleteCheckoutSteps ==
    ASSUME TypeInv, Opening, NEW s \in Subs, NEW p \in PaidPlans, CompleteCheckout(s, p),
           "overlap" \notin causes'
    PROVE  EventStep
<1> DEFINE u == [status |-> "active", plan |-> p, sched |-> None]
<1> USE DEF TypeInv, StripeOK
<1>1. u \in StripeSub /\ Live(u)
  BY DEF StripeSub, Live
<1>2. stripe[s].status = "absent" /\ web' = web /\ s \notin open' /\ open' \subseteq open
      /\ Becomes(s, u, <<"updated", "checkout">>)
  BY DEF CompleteCheckout, Opening
<1>3. \A r \in Subs \ {s} : ~Live(stripe[r])
  BY DEF CompleteCheckout, BlameIf
<1> QED
  BY <1>1, <1>2, <1>3, ToldNew, BecomesMoves

LEMMA RequestEventSteps ==
    ASSUME TypeInv, HandlerOK, Dated, RequestStep
    PROVE  EventStep
<1> USE DEF TypeInv, StripeOK
<1>0. CASE web.event = NoEvent
  <2>1. CASE UNCHANGED <<stripe, changes, inbox, open>> /\ web'.event = web.event
    BY <2>1, QuietSettles DEF EventStep
  <2>2. CASE Release /\ Live(stripe[web.sub])
    <3> DEFINE t == stripe[web.sub]
               u == [t EXCEPT !.sched = None]
    <3>1. web.sub \in Subs /\ t \in StripeSub /\ u \in StripeSub /\ Live(u) /\ u.sched = None
          /\ u.status # "absent"
      BY <2>2 DEF Release, WebOK, StripeSub, Live
    <3>2. CASE Becomes(web.sub, u, <<"released", "updated">>) /\ web'.event = web.event
      BY <2>2, <3>1, <3>2, ToldTwo, BecomesMoves DEF Release
    <3>3. CASE UNCHANGED <<stripe, changes, inbox, open>> /\ web'.event = web.event
      BY <3>3, <2>1
    <3> QED
      BY <2>2, <3>2, <3>3, <1>0 DEF Release, Idle, WebOK, Web
  <2>3. CASE Charge
    <3> DEFINE t == stripe[web.sub]
               u == [t EXCEPT !.plan = web.plan]
    <3>1. web.sub \in Subs /\ t \in StripeSub /\ u \in StripeSub /\ Live(u) /\ Live(t)
          /\ u.status # "absent"
      BY <2>3 DEF Charge, WebOK, StripeSub, Live
    <3>2. Becomes(web.sub, u, <<"updated">>) /\ web'.event = web.event /\ open' = open
      BY <2>3 DEF Charge, WebOK, Web
    <3> QED
      BY <3>1, <3>2, ToldOne, BecomesMoves
  <2>4. CASE Schedule /\ Live(stripe[web.sub])
    <3> DEFINE t == stripe[web.sub]
               u == [t EXCEPT !.sched = web.plan]
    <3>1. web.sub \in Subs /\ t \in StripeSub /\ u \in StripeSub /\ Live(u)
          /\ u.status # "absent"
      BY <2>4 DEF Schedule, WebOK, StripeSub, Live
    <3>2. CASE Becomes(web.sub, u, <<"updated">>) /\ web'.event = web.event
      BY <2>4, <3>1, <3>2, ToldOne, BecomesMoves DEF Schedule
    <3>3. CASE UNCHANGED <<stripe, changes, inbox, open>> /\ web'.event = web.event
      BY <3>3, <2>1
    <3> QED
      BY <2>4, <3>2, <3>3, <1>0 DEF Schedule, Idle, WebOK, Web
  <2>5. CASE (Release \/ Schedule) /\ ~Live(stripe[web.sub])
    BY <2>5, <2>1, <1>0 DEF Release, Schedule, Idle, WebOK, Web
  <2>6. CASE ClearMarkers \/ ChargeFails \/ StoreUpgrade \/ StoreDowngrade
    <3>1. UNCHANGED <<stripe, changes, inbox, open>>
      BY <2>6 DEF ClearMarkers, ChargeFails, StoreUpgrade, StoreDowngrade, Rest, stripeVars
    <3>2. web'.event = web.event
      BY <2>6, <1>0 DEF ClearMarkers, ChargeFails, StoreUpgrade, StoreDowngrade, Refused, Idle,
                        WebOK, Web
    <3> QED
      BY <3>1, <3>2, <2>1
  <2> QED
    BY <2>2, <2>3, <2>4, <2>5, <2>6 DEF RequestStep
<1>1. web.event = NoEvent
  BY DEF RequestStep, Release, ClearMarkers, Charge, ChargeFails, StoreUpgrade, Schedule,
         StoreDowngrade, HandlerOK
<1> QED
  BY <1>0, <1>1

LEMMA HandlerEventSteps ==
    ASSUME TypeInv, HandlerOK, Dated, HandlerStep
    PROVE  EventStep
<1> USE DEF TypeInv, WebOK, Web, Rest, stripeVars
<1>1. UNCHANGED <<stripe, changes, inbox, open>>
  BY DEF HandlerStep, HandleCheckout, HandleUpdated, HandleDeleted, CheckOthers,
         HandlePaid, HandleFailed, HandleReleased, WriteUser, WebBust
<1>2. web'.event \in {web.event, NoEvent}
  <2>1. CASE HandleCheckout
    BY <2>1 DEF HandleCheckout
  <2>2. CASE HandleUpdated
    BY <2>2 DEF HandleUpdated
  <2>3. CASE HandleDeleted
    BY <2>3 DEF HandleDeleted, Idle
  <2>4. CASE CheckOthers
    BY <2>4 DEF CheckOthers, Idle
  <2>5. CASE HandlePaid \/ HandleFailed \/ HandleReleased \/ WriteUser \/ WebBust
    BY <2>5 DEF HandlePaid, HandleFailed, HandleReleased, WriteUser, WebBust, Idle
  <2> QED
    BY <2>1, <2>2, <2>3, <2>4, <2>5 DEF HandlerStep
<1>3. CASE web'.event = web.event
  BY <1>1, <1>3, QuietSettles DEF EventStep
<1>4. CASE web'.event # web.event
  BY <1>1, <1>2, <1>4 DEF EventStep, Answers
<1> QED
  BY <1>3, <1>4

LEMMA HandlerBreaksSettles ==
    ASSUME TypeInv, Dated, HandlerBreaks
    PROVE  Settles
<1>1. UNCHANGED <<stripe, changes, open>> /\ web'.event = NoEvent
      /\ inbox' = inbox \cup {web.event} /\ web.event # NoEvent
  BY DEF HandlerBreaks, stripeVars, Idle
<1> QED
  BY <1>1 DEF Settles, Unanswered

LEMMA EventSteps ==
    ASSUME TypeInv, HandlerOK, Dated, Opening, Clean', [Next]_vars
    PROVE  EventStep
<1> USE DEF TypeInv, StripeOK
<1>0. causes' \cap {"lost", "reordered", "overlap"} = {}
  BY DEF Clean, Excuses
<1>q. ASSUME UNCHANGED <<stripe, changes, inbox, open>>, web'.event = web.event PROVE EventStep
  BY <1>q, QuietSettles DEF EventStep
<1>1. ASSUME NEW s \in Subs, OpenCheckout(s) PROVE EventStep
  <2>1. UNCHANGED <<stripe, changes, inbox, web>>
    BY <1>1 DEF OpenCheckout
  <2>2. \A r \in open' : r \in open \/ stripe[r].status = "absent"
    BY <1>1 DEF OpenCheckout
  <2> QED
    BY <2>1, <2>2 DEF EventStep, Settles, Unanswered, Dated
<1>2. ASSUME NEW s \in Subs, StripeChange(s) PROVE EventStep
  BY <1>2, StripeChangeSteps
<1>3. ASSUME NEW s \in Subs, GracePasses(s) PROVE EventStep
  BY <1>3, <1>q DEF GracePasses, stripeVars
<1>4. ASSUME NEW s \in Subs, NEW p \in PaidPlans, CompleteCheckout(s, p) PROVE EventStep
  BY <1>0, <1>4, CompleteCheckoutSteps
<1>5. ASSUME NEW e \in inbox, Lose(e) PROVE FALSE
  BY <1>0, <1>5 DEF Lose, Blame
<1>6. CASE FillRead \/ FillStore \/ CacheExpires
  BY <1>6, <1>q DEF FillRead, FillStore, CacheExpires, stripeVars
<1>7. ASSUME NEW e \in inbox, Deliver(e) PROVE EventStep
  BY <1>0, <1>7, DeliverSettles DEF EventStep
<1>8. CASE HandlerStep
  BY <1>8, HandlerEventSteps
<1>9. CASE Request
  BY <1>9, <1>q DEF Request, AskUpgrade, AskDowngrade, AskCancel, Ask, Rest, stripeVars, Idle
<1>10. CASE RequestStep
  BY <1>10, RequestEventSteps
<1>11. CASE RecStart \/ RecStep
  BY <1>11, <1>q DEF RecStart, RecStep, RecWrite, RecUser, RecBust, RecEnd, Compare, stripeVars
<1>12. CASE DunStart \/ DunStep
  BY <1>12, <1>q DEF DunStart, DunStep, DunCancel, DunUser, DunBust, stripeVars
<1>13. CASE Breaks
  <2>1. CASE HandlerBreaks
    BY <2>1, HandlerBreaksSettles DEF EventStep
  <2>2. CASE RequestBreaks \/ ReleaseFails
    <3>1. UNCHANGED <<stripe, changes, inbox, open>>
      BY <2>2 DEF RequestBreaks, ReleaseFails, stripeVars
    <3>2. web.event = NoEvent
      BY <2>2 DEF RequestBreaks, ReleaseFails, HandlerOK
    <3>3. web'.event = NoEvent
      BY <2>2, <3>2 DEF RequestBreaks, ReleaseFails, Idle, WebOK, Web
    <3> QED
      BY <3>1, <3>2, <3>3, <1>q
  <2>3. CASE RecBreaks \/ DunBreaks \/ \E s \in Subs : FetchFails(s)
    BY <2>3, <1>q DEF RecBreaks, DunBreaks, FetchFails, stripeVars
  <2> QED
    BY <1>13, <2>1, <2>2, <2>3 DEF Breaks
<1>14. CASE UNCHANGED vars
  BY <1>14, <1>q DEF vars
<1> QED
  BY <1>1, <1>2, <1>3, <1>4, <1>5, <1>6, <1>7, <1>8, <1>9, <1>10, <1>11, <1>12, <1>13, <1>14
     DEF Next, Stripe, WebStep

(* Each of the three keeps what is said of the events.                     *)
LEMMA UnansweredType == TypeInv => Unanswered \subseteq Event /\ inbox \subseteq Unanswered
BY DEF TypeInv, StripeOK, WebOK, Web, Unanswered

LEMMA SettlesEventInv ==
    ASSUME EventInv, Settles
    PROVE  EventInv'
<1>1. UNCHANGED <<stripe, changes>> /\ Unanswered' = Unanswered
  BY DEF Settles
<1>2. OneLive' /\ Opening'
  BY <1>1 DEF EventInv, OneLive, Opening, Settles
<1>3. Dated'
  BY <1>1 DEF EventInv, Dated, Settles
<1>4. Contents' /\ Successive'
  BY <1>1 DEF EventInv, Contents, Final, Tells, Successive, EndsBefore
<1> QED
  BY <1>2, <1>3, <1>4 DEF EventInv

LEMMA AnswersEventInv ==
    ASSUME TypeInv, EventInv, Answers
    PROVE  EventInv'
<1> DEFINE w == web.event
<1>1. /\ Unanswered = inbox \cup {w} /\ Unanswered' = inbox
      /\ UNCHANGED <<stripe, changes, inbox, open>>
  BY DEF Answers, Unanswered
<1>2. \A e \in Unanswered : e.at \in Nat
  BY UnansweredType DEF Event
<1>3. \A f \in inbox : w.at < f.at
  BY DEF EventInv, Dated, Answers
<1> HIDE DEF w
<1>4. OneLive' /\ Opening'
  BY <1>1 DEF EventInv, OneLive, Opening
<1>5. Dated'
  BY <1>1 DEF EventInv, Dated, Answers
<1>6. Contents'
  <2>1. ASSUME NEW e \in inbox PROVE \E f \in inbox : f.sub = e.sub /\ Final(f)'
    <3>1. PICK f \in Unanswered : f.sub = e.sub /\ Final(f)
      BY <1>1 DEF EventInv, Contents
    <3>2. e.at <= f.at
      BY <1>1, <3>1 DEF Final
    <3>3. f # w
      BY <1>1, <1>2, <1>3, <3>2
    <3> QED
      BY <1>1, <3>1, <3>3 DEF Final, Tells
  <2> QED
    BY <1>1, <2>1 DEF EventInv, Contents
<1>7. Successive'
  <2> SUFFICES ASSUME NEW e \in inbox, NEW f \in inbox, e.sub # f.sub, e.at < f.at
               PROVE  \E d \in inbox : d.sub = e.sub /\ d.type = "deleted" /\ d.at < f.at
    BY <1>1 DEF Successive, EndsBefore
  <2>1. PICK d \in Unanswered : d.sub = e.sub /\ d.type = "deleted" /\ d.at < f.at
    BY <1>1 DEF EventInv, Successive, EndsBefore
  <2>2. e.at <= d.at
    BY <1>1, <2>1 DEF EventInv, Contents
  <2> QED
    BY <1>1, <1>2, <1>3, <2>1, <2>2
<1> QED
  BY <1>4, <1>5, <1>6, <1>7 DEF EventInv

LEMMA MovesEventInv ==
    ASSUME TypeInv, EventInv, NEW s \in Subs, NEW t \in StripeSub, NEW N \in SUBSET Event,
           Moves(N, s, t)
    PROVE  EventInv'
<1> USE DEF TypeInv, StripeOK
<1>1. /\ Unanswered' = Unanswered \cup N /\ changes' = changes + 1 /\ changes \in Nat
      /\ stripe'[s] = t /\ \A r \in Subs \ {s} : stripe'[r] = stripe[r]
  BY DEF Moves, Unanswered
<1>2. /\ \A e \in Unanswered : e.at \in Nat /\ e.at <= 2 * changes /\ e.sub \in Subs
      /\ \A e \in N : e.at \in Nat /\ e.at > 2 * changes /\ e.at <= 2 * changes + 2 /\ e.sub = s
  BY UnansweredType DEF Event, EventInv, Dated, Moves, Told
<1>3. \A e \in Unanswered, f \in N : e.at < f.at
  BY <1>1, <1>2
<1>4. OneLive'
  <2>1. \A r \in Subs \ {s} : ~Live(stripe[r])
    BY DEF Moves, EventInv, OneLive
  <2> QED
    BY <1>1, <2>1 DEF OneLive
<1>5. Opening'
  <2>1. s \notin open'
    BY DEF Moves, EventInv, Opening, Live
  <2> QED
    BY <1>1, <2>1 DEF Moves, EventInv, Opening
<1>6. Dated'
  <2>1. \A e \in Unanswered' : e.at <= 2 * changes' /\ stripe'[e.sub].status # "absent"
    BY <1>1, <1>2 DEF EventInv, Dated, Moves
  <2>2. \A e, f \in Unanswered' : e.at = f.at => e = f
    BY <1>1, <1>2, <1>3 DEF EventInv, Dated, Moves, Told
  <2>3. web'.event # NoEvent => \A f \in inbox' : web'.event.at < f.at
    <3>1. web.event # NoEvent => web.event \in Unanswered
      BY DEF Unanswered
    <3> QED
      BY <1>3, <3>1 DEF EventInv, Dated, Moves
  <2> QED
    BY <2>1, <2>2, <2>3 DEF Dated
<1>7. ~ (stripe[s].status = "canceled")
  BY DEF Moves, Live
<1>8. Contents'
  <2>1. \A e \in Unanswered' : e.type = "updated" => e.status \in {"active", "past_due"}
    BY <1>1 DEF EventInv, Contents, Moves, Told, Live
  <2>2. \A e \in Unanswered' : e.type = "checkout" => e.status = "active"
    BY <1>1 DEF EventInv, Contents, Moves, Told
  <2>3. \A e \in Unanswered : e.type = "deleted" => e.sub # s
    BY <1>7 DEF EventInv, Contents
  <2>4. \A e \in Unanswered' : e.type = "deleted" => stripe'[e.sub].status = "canceled"
    BY <1>1, <1>2, <2>3 DEF EventInv, Contents, Moves, Told
  <2>5. \A e, f \in Unanswered' : e.type = "deleted" /\ f.sub = e.sub => f.at <= e.at
    <3> SUFFICES ASSUME NEW e \in Unanswered', NEW f \in Unanswered',
                        e.type = "deleted", f.sub = e.sub
                 PROVE  f.at <= e.at
      OBVIOUS
    <3>1. CASE e \in N
      <4>1. N = {e}
        BY <3>1 DEF Moves, Told
      <4> QED
        BY <1>1, <1>2, <1>3, <4>1
    <3>2. CASE e \in Unanswered
      <4>1. f \in Unanswered
        BY <1>1, <1>2, <2>3, <3>2
      <4> QED
        BY <3>2, <4>1 DEF EventInv, Contents
    <3> QED
      BY <1>1, <3>1, <3>2
  <2>6. \A e \in Unanswered' : \E f \in Unanswered' : f.sub = e.sub /\ Final(f)'
    <3>1. ASSUME NEW e \in Unanswered', e.sub = s
          PROVE  \E f \in Unanswered' : f.sub = e.sub /\ Final(f)'
      <4>1. PICK l \in N : /\ \A f \in N : f.at <= l.at
                           /\ Tells(l, t)
        BY DEF Moves, Told
      <4>2. \A f \in Unanswered' : f.at <= l.at
        BY <1>1, <1>2, <1>3, <4>1
      <4> QED
        BY <1>1, <1>2, <3>1, <4>1, <4>2 DEF Final, Tells
    <3>2. ASSUME NEW e \in Unanswered', e.sub # s
          PROVE  \E f \in Unanswered' : f.sub = e.sub /\ Final(f)'
      <4>1. e \in Unanswered
        BY <1>1, <1>2, <3>2
      <4>2. PICK f \in Unanswered : f.sub = e.sub /\ Final(f)
        BY <4>1 DEF EventInv, Contents
      <4>3. stripe'[f.sub] = stripe[f.sub]
        BY <1>1, <1>2, <3>2, <4>2
      <4>4. \A g \in Unanswered' : g.sub = f.sub => g.at <= f.at
        BY <1>1, <1>2, <3>2, <4>2 DEF Final
      <4> QED
        BY <1>1, <4>2, <4>3, <4>4 DEF Final, Tells
    <3> QED
      BY <3>1, <3>2
  <2> QED
    BY <2>1, <2>2, <2>4, <2>5, <2>6 DEF Contents
<1>9. Successive'
  <2> SUFFICES ASSUME NEW e \in Unanswered', NEW f \in Unanswered', e.sub # f.sub, e.at < f.at
               PROVE  EndsBefore(e.sub, f)'
    BY DEF Successive
  <2>1. CASE f \in Unanswered
    <3>1. e \in Unanswered
      BY <1>1, <1>2, <1>3, <2>1
    <3> QED
      BY <1>1, <2>1, <3>1 DEF EventInv, Successive, EndsBefore
  <2>2. CASE f \in N
    <3>1. e \in Unanswered /\ e.sub # s
      BY <1>1, <1>2, <2>2
    <3>2. ~Live(stripe[e.sub])
      BY <1>2, <3>1 DEF Moves, EventInv, OneLive
    <3>3. stripe[e.sub].status = "canceled"
      BY <1>2, <3>1, <3>2 DEF EventInv, Dated, Live, StripeSub
    <3>4. PICK g \in Unanswered : g.sub = e.sub /\ Final(g)
      BY <3>1 DEF EventInv, Contents
    <3>5. g.type = "deleted"
      BY <3>3, <3>4 DEF Final, Tells
    <3> QED
      BY <1>1, <1>3, <2>2, <3>4, <3>5 DEF EndsBefore
  <2> QED
    BY <1>1, <2>1, <2>2
<1> QED
  BY <1>4, <1>5, <1>6, <1>8, <1>9 DEF EventInv

LEMMA EventInvNext ==
    ASSUME TypeInv, HandlerOK, EventInv, Clean', [Next]_vars
    PROVE  EventInv'
<1>1. EventStep
  BY EventSteps DEF EventInv
<1> QED
  BY <1>1, SettlesEventInv, AnswersEventInv, MovesEventInv DEF EventStep

(* The steps as the rows see them: those that leave every status and plan  *)
(* and take no event from those that wait, and the eight others.           *)
Steady ==
    /\ \A s \in Subs : row'[s].status = row[s].status /\ row'[s].plan = row[s].plan
    /\ Waiting \subseteq Waiting'
RowWrite ==
    \/ HandleCheckout \/ HandleUpdated \/ HandleDeleted
    \/ HandlePaid \/ HandleFailed \/ HandleReleased
    \/ StoreUpgrade \/ RecWrite \/ \E s \in Subs : DunCancel(s)

LEMMA SteadyRows ==
    ASSUME RowOK, UNCHANGED <<inbox, web>> \/ (web.at # "row" /\ inbox \subseteq inbox'),
           \/ row' = row
           \/ \E s \in Subs, p \in PaidPlans \cup {None} : row' = [row EXCEPT ![s].pending = p]
           \/ \E s \in Subs : row' = [row EXCEPT ![s].since = "expired"]
    PROVE  Steady
<1>1. Waiting \subseteq Waiting'
  BY DEF Waiting
<1> QED
  BY <1>1 DEF Steady, RowOK, Row

LEMMA SteadyOrWrite ==
    ASSUME TypeInv, HandlerOK, "lost" \notin causes', [Next]_vars
    PROVE  Steady \/ RowWrite
<1> USE DEF TypeInv
<1>q. ASSUME UNCHANGED <<inbox, web, row>> PROVE Steady
  BY <1>q, SteadyRows
<1>i. ASSUME web.at # "row", inbox \subseteq inbox', row' = row PROVE Steady
  BY <1>i, SteadyRows
<1>1. ASSUME NEW s \in Subs, OpenCheckout(s) PROVE Steady
  BY <1>1, <1>q DEF OpenCheckout
<1>2. ASSUME inbox \subseteq inbox', UNCHANGED <<web, row>> PROVE Steady
  BY <1>2 DEF Steady, Waiting
<1>3. ASSUME NEW s \in Subs, StripeChange(s) PROVE Steady
  <2>1. inbox \subseteq inbox' /\ UNCHANGED <<web, row>>
    BY <1>3 DEF StripeChange, Becomes
  <2> QED
    BY <1>2, <2>1
<1>4. ASSUME NEW s \in Subs, GracePasses(s) PROVE Steady
  BY <1>4, SteadyRows DEF GracePasses
<1>5. ASSUME NEW s \in Subs, NEW p \in PaidPlans, CompleteCheckout(s, p) PROVE Steady
  BY <1>5, <1>2 DEF CompleteCheckout, Becomes
<1>6. ASSUME NEW e \in inbox, Lose(e) PROVE FALSE
  BY <1>6 DEF Lose, Blame
<1>7. CASE FillRead \/ FillStore \/ CacheExpires
  BY <1>7, <1>q DEF FillRead, FillStore, CacheExpires
<1>8. ASSUME NEW e \in inbox, Deliver(e) PROVE Steady
  <2>1. Waiting = inbox /\ Waiting' = inbox /\ row' = row
    BY <1>8 DEF Deliver, Waiting, Idle
  <2> QED
    BY <2>1 DEF Steady
<1>9. CASE CheckOthers \/ WriteUser \/ WebBust
  BY <1>9, <1>i DEF CheckOthers, WriteUser, WebBust, Rest
<1>10. CASE Request
  <2>1. web = Idle /\ inbox' = inbox /\ row' = row
    BY <1>10 DEF Request, AskUpgrade, AskDowngrade, AskCancel, Ask, Rest
  <2> QED
    BY <2>1, <1>i DEF Idle
<1>11. CASE Release \/ Charge \/ ChargeFails \/ Schedule
  BY <1>11, <1>i DEF Release, Charge, ChargeFails, Schedule, Becomes, Rest
<1>12. CASE ClearMarkers \/ StoreDowngrade
  <2>1. web.at # "row" /\ inbox' = inbox /\ web.sub \in Subs
    BY <1>12 DEF ClearMarkers, StoreDowngrade, Rest, WebOK
  <2>2. \E p \in PaidPlans \cup {None} : row' = [row EXCEPT ![web.sub].pending = p]
    BY <1>12 DEF ClearMarkers, StoreDowngrade, WebOK
  <2> QED
    BY <2>1, <2>2, SteadyRows
<1>13. CASE RecStart \/ RecUser \/ RecBust \/ RecEnd \/ \E s \in Subs : Compare(s)
  BY <1>13, <1>q DEF RecStart, RecUser, RecBust, RecEnd, Compare
<1>14. CASE DunStart \/ DunUser \/ DunBust
  BY <1>14, <1>q DEF DunStart, DunUser, DunBust
<1>15. CASE Breaks
  <2>1. CASE HandlerBreaks
    <3>1. Waiting \subseteq Waiting' /\ row' = row
      BY <2>1 DEF HandlerBreaks, Waiting, Idle
    <3> QED
      BY <3>1 DEF Steady
  <2>2. CASE RequestBreaks \/ ReleaseFails
    <3>1. web.at # "row" /\ inbox' = inbox /\ row' = row
      BY <2>2 DEF RequestBreaks, ReleaseFails, WebOK
    <3> QED
      BY <3>1, <1>i
  <2>3. CASE RecBreaks \/ DunBreaks \/ \E s \in Subs : FetchFails(s)
    BY <2>3, <1>q DEF RecBreaks, DunBreaks, FetchFails
  <2> QED
    BY <1>15, <2>1, <2>2, <2>3 DEF Breaks
<1>16. CASE UNCHANGED vars
  BY <1>16, <1>q DEF vars
<1> QED
  BY <1>1, <1>3, <1>4, <1>5, <1>6, <1>7, <1>8, <1>9, <1>10, <1>11, <1>12, <1>13, <1>14, <1>15, <1>16
     DEF Next, Stripe, WebStep, HandlerStep, RequestStep, RecStep, DunStep, RowWrite

(* A subscription that is neither absent nor live, and that an event is    *)
(* still about, is told of by its deletion.                                *)
LEMMA EndTold ==
    ASSUME TypeInv, EventInv, NEW e \in Unanswered, ~Live(stripe[e.sub])
    PROVE  \E d \in Unanswered : d.sub = e.sub /\ d.type = "deleted"
<1>1. e.sub \in Subs /\ stripe[e.sub].status # "absent"
  BY UnansweredType DEF Event, EventInv, Dated
<1>2. stripe[e.sub].status = "canceled"
  BY <1>1 DEF TypeInv, StripeOK, StripeSub, Live
<1>3. PICK f \in Unanswered : f.sub = e.sub /\ Final(f)
  BY DEF EventInv, Contents
<1> QED
  BY <1>2, <1>3 DEF Final, Tells

LEMMA WaitingUnanswered ==
    TypeInv => Waiting \subseteq Unanswered
BY DEF TypeInv, WebOK, Waiting, Unanswered

LEMMA SteadyRowsInv ==
    ASSUME TypeInv, EventInv, RowsInv, StageInv, EventStep, Steady
    PROVE  RowsInv'
<1> USE DEF TypeInv, StripeOK
<1>0. /\ \A r \in Subs : row'[r].status = row[r].status /\ row'[r].plan = row[r].plan
      /\ Waiting \subseteq Waiting'
  BY DEF Steady
<1>1. \/ stripe' = stripe /\ Unanswered' = Unanswered
      \/ stripe' = stripe /\ Answers
      \/ \E s \in Subs, t \in StripeSub, N \in SUBSET Event : Moves(N, s, t)
  BY DEF EventStep, Settles, Answers
<1>2. CASE stripe' = stripe /\ (Unanswered' = Unanswered \/ Answers)
  <2>1. /\ \A s \in Subs : (\A e \in Waiting' : e.sub # s) => RowAgrees(s)'
    BY <1>0, <1>2 DEF RowsInv, RowAgrees
  <2>2. \A s \in Subs : row'[s].status = "absent" /\ stripe'[s].status # "absent" =>
          \E e \in Waiting' : e.sub = s /\ e.type = "updated"
    BY <1>0, <1>2 DEF RowsInv
  <2>3. \A s \in Subs : row'[s].status # "absent" => stripe'[s].status # "absent"
    BY <1>0, <1>2 DEF RowsInv
  <2>4. \A s \in Subs : row'[s].status = "canceled" =>
          \E e \in Waiting' : e.sub = s /\ e.type = "deleted"
    BY <1>0 DEF RowsInv
  <2>5. ASSUME NEW s \in Subs, NEW e \in Unanswered', Tracked(row'[s]), e.sub # s
        PROVE  EndsBefore(s, e)'
    <3>1. CASE Unanswered' = Unanswered
      BY <1>0, <2>5, <3>1 DEF RowsInv, Tracked, EndsBefore
    <3>2. CASE Answers
      <4>1. Unanswered = inbox \cup {web.event} /\ Unanswered' = inbox /\ inbox' = inbox
        BY <3>2 DEF Answers, Unanswered
      <4>2. \A f \in inbox : web.event.at < f.at
        BY <3>2 DEF Answers, EventInv, Dated
      <4>3. web.event \notin inbox
        BY <4>2, <4>1, UnansweredType DEF Event
      <4>4. web.at # "row"
        BY <1>0, <3>2, <4>1, <4>3 DEF Waiting, Answers, WebOK
      <4>5. web.event.type = "deleted" => web.event.sub # s
        BY <1>0, <2>5, <3>2, <4>4 DEF StageInv, Tracked, WebOK, Answers
      <4>6. Tracked(row[s]) /\ e \in Unanswered
        BY <1>0, <2>5, <4>1 DEF Tracked
      <4> QED
        BY <2>5, <4>1, <4>5, <4>6 DEF RowsInv, EndsBefore
    <3> QED
      BY <1>2, <3>1, <3>2
  <2> QED
    BY <2>1, <2>2, <2>3, <2>4, <2>5 DEF RowsInv
<1>3. CASE \E s \in Subs, t \in StripeSub, N \in SUBSET Event : Moves(N, s, t)
  <2>0. PICK s \in Subs, t \in StripeSub, N \in SUBSET Event : Moves(N, s, t)
    BY <1>3
  <2>1. /\ Unanswered' = Unanswered \cup N
        /\ N \subseteq Waiting' /\ N # {} /\ \A e \in N : e.sub = s
        /\ stripe'[s] = t /\ t.status # "absent" /\ \A r \in Subs \ {s} : stripe'[r] = stripe[r]
    BY <2>0 DEF Moves, Unanswered, Waiting, Told
  <2>2. ASSUME NEW r \in Subs, \A e \in Waiting' : e.sub # r PROVE RowAgrees(r)'
    <3>1. r # s /\ \A e \in Waiting : e.sub # r
      BY <1>0, <2>1, <2>2
    <3>2. stripe'[r] = stripe[r] /\ RowAgrees(r)
      BY <2>1, <3>1 DEF RowsInv
    <3> QED
      BY <1>0, <3>2 DEF RowAgrees
  <2>3. ASSUME NEW r \in Subs, row'[r].status = "absent", stripe'[r].status # "absent"
        PROVE  \E e \in Waiting' : e.sub = r /\ e.type = "updated"
    <3>1. CASE stripe[r].status # "absent"
      BY <1>0, <2>3, <3>1 DEF RowsInv
    <3>2. CASE stripe[r].status = "absent"
      <4>1. r = s /\ t.status # "canceled"
        BY <2>0, <2>1, <2>3, <3>2 DEF Moves, Live
      <4> QED
        BY <2>0, <2>1, <4>1 DEF Moves, Told
    <3> QED
      BY <3>1, <3>2
  <2>4. \A r \in Subs : row'[r].status # "absent" => stripe'[r].status # "absent"
    BY <1>0, <2>1 DEF RowsInv
  <2>5. \A r \in Subs : row'[r].status = "canceled" =>
          \E e \in Waiting' : e.sub = r /\ e.type = "deleted"
    BY <1>0 DEF RowsInv
  <2>6. ASSUME NEW r \in Subs, NEW e \in Unanswered', Tracked(row'[r]), e.sub # r
        PROVE  EndsBefore(r, e)'
    <3>1. Tracked(row[r])
      BY <1>0, <2>6 DEF Tracked
    <3>2. CASE e \in Unanswered
      BY <2>1, <2>6, <3>1, <3>2 DEF RowsInv, EndsBefore
    <3>3. CASE e \in N
      <4>1. r # s
        BY <2>1, <2>6, <3>3
      <4>2. ~Live(stripe[r])
        BY <2>0, <4>1 DEF Moves, EventInv, OneLive
      <4>3. stripe[r].status = "canceled"
        BY <3>1, <4>2 DEF RowsInv, Tracked, Live, StripeSub
      <4>4. PICK g \in Waiting : g.sub = r
        <5>1. ~RowAgrees(r)
          BY <3>1, <4>3 DEF RowAgrees, Tracked
        <5> QED
          BY <5>1 DEF RowsInv
      <4>5. PICK d \in Unanswered : d.sub = r /\ d.type = "deleted"
        BY <4>2, <4>4, EndTold, WaitingUnanswered
      <4>6. d.at <= 2 * changes /\ e.at > 2 * changes
        BY <2>0, <3>3 DEF Moves, Told, EventInv, Dated
      <4>7. d.at \in Nat /\ e.at \in Nat /\ changes \in Nat
        BY <3>3, UnansweredType DEF Event
      <4> QED
        BY <2>1, <4>5, <4>6, <4>7 DEF EndsBefore
    <3> QED
      BY <2>1, <3>2, <3>3
  <2> QED
    BY <2>2, <2>3, <2>4, <2>5, <2>6 DEF RowsInv
<1> QED
  BY <1>1, <1>2, <1>3

(* What a handler must do to the row of its event, when nothing is to be   *)
(* lost: the last event leaves the row as Stripe has it, and no handler    *)
(* takes a row away or revives one that is deleted.                        *)
HandlerRow(e) ==
    /\ \A r \in Subs \ {e.sub} : row'[r] = row[r]
    /\ \A s \in Subs : s = e.sub /\ Final(e) => RowAgrees(s)'
    /\ row'[e.sub].status = "absent" => row[e.sub].status = "absent" /\ e.type # "updated"
    /\ row'[e.sub].status = "canceled" => row[e.sub].status = "canceled" /\ e.type # "deleted"
    /\ e.type = "deleted" => ~Tracked(row'[e.sub])

LEMMA HandlerRowsInv ==
    ASSUME TypeInv, EventInv, RowsInv, web.at = "row", web'.at # "row",
           web'.event \in {web.event, NoEvent},
           UNCHANGED <<stripe, inbox>>, HandlerRow(web.event)
    PROVE  RowsInv'
<1> DEFINE w == web.event
<1> USE DEF TypeInv, StripeOK
<1>0. /\ Waiting = inbox \cup {w} /\ Waiting' = inbox
      /\ w # NoEvent /\ w.sub \in Subs /\ w \in Event
      /\ Unanswered = inbox \cup {w} /\ inbox \subseteq Unanswered' /\ Unanswered' \subseteq Unanswered
      /\ \A f \in inbox : w.at < f.at /\ w.at \in Nat /\ f.at \in Nat
  <2>1. w # NoEvent /\ w \in Event
    BY DEF WebOK, Web
  <2>2. \A f \in inbox : w.at < f.at
    BY <2>1 DEF EventInv, Dated
  <2> QED
    BY <2>1, <2>2 DEF Waiting, Unanswered, WebOK, Event
<1>1. \A r \in Subs \ {w.sub} : row'[r] = row[r]
  BY DEF HandlerRow
<1> HIDE DEF w
<1>2. ASSUME NEW r \in Subs, \A e \in inbox : e.sub # r PROVE RowAgrees(r)'
  <2>1. CASE r = w.sub
    <3>1. PICK f \in Unanswered : f.sub = w.sub /\ Final(f)
      BY <1>0 DEF EventInv, Contents
    <3>2. f = w
      BY <1>0, <1>2, <2>1, <3>1
    <3> QED
      BY <2>1, <3>1, <3>2 DEF HandlerRow, w
  <2>2. CASE r # w.sub
    <3>1. \A e \in Waiting : e.sub # r
      BY <1>0, <1>2, <2>2
    <3>2. RowAgrees(r) /\ row'[r] = row[r]
      BY <1>1, <2>2, <3>1 DEF RowsInv
    <3> QED
      BY <3>2 DEF RowAgrees
  <2> QED
    BY <2>1, <2>2
<1>3. ASSUME NEW r \in Subs, row'[r].status = "absent", stripe[r].status # "absent"
      PROVE  \E e \in inbox : e.sub = r /\ e.type = "updated"
  <2>1. row[r].status = "absent" /\ (r = w.sub => w.type # "updated")
    BY <1>1, <1>3 DEF HandlerRow, w
  <2>2. PICK e \in Waiting : e.sub = r /\ e.type = "updated"
    BY <1>3, <2>1 DEF RowsInv
  <2> QED
    BY <1>0, <2>1, <2>2
<1>4. ASSUME NEW r \in Subs, row'[r].status # "absent" PROVE stripe[r].status # "absent"
  <2>1. CASE r = w.sub
    BY <1>0, <2>1 DEF EventInv, Dated
  <2>2. CASE r # w.sub
    BY <1>1, <1>4, <2>2 DEF RowsInv
  <2> QED
    BY <2>1, <2>2
<1>5. ASSUME NEW r \in Subs, row'[r].status = "canceled"
      PROVE  \E e \in inbox : e.sub = r /\ e.type = "deleted"
  <2>1. row[r].status = "canceled" /\ (r = w.sub => w.type # "deleted")
    BY <1>1, <1>5 DEF HandlerRow, w
  <2>2. PICK e \in Waiting : e.sub = r /\ e.type = "deleted"
    BY <2>1 DEF RowsInv
  <2> QED
    BY <1>0, <2>1, <2>2
<1>6. ASSUME NEW r \in Subs, NEW e \in Unanswered', Tracked(row'[r]), e.sub # r
      PROVE  EndsBefore(r, e)'
  <2>1. e \in Unanswered
    BY <1>0
  <2>2. CASE r = w.sub
    <3>1. w.type # "deleted"
      BY <1>6, <2>2 DEF HandlerRow, w
    <3>2. e \in inbox /\ w.at < e.at
      BY <1>0, <1>6, <2>1, <2>2
    <3>3. EndsBefore(r, e)
      BY <1>0, <1>6, <2>1, <2>2, <3>2 DEF EventInv, Successive
    <3> QED
      BY <1>0, <3>1, <3>3 DEF EndsBefore
  <2>3. CASE r # w.sub
    <3>1. EndsBefore(r, e)
      BY <1>1, <1>6, <2>1, <2>3 DEF RowsInv
    <3> QED
      BY <1>0, <2>3, <3>1 DEF EndsBefore
  <2> QED
    BY <2>2, <2>3
<1> QED
  BY <1>0, <1>2, <1>3, <1>4, <1>5, <1>6 DEF RowsInv

LEMMA CorrectedAgrees ==
    ASSUME NEW s \in Subs, UNCHANGED stripe, Live(stripe[s]),
           row'[s].status = stripe[s].status, row'[s].plan = stripe[s].plan
    PROVE  RowAgrees(s)'
<1>1. CASE stripe[s].status = "active"
  BY <1>1 DEF RowAgrees
<1>2. CASE stripe[s].status = "past_due"
  BY <1>2 DEF RowAgrees
<1> QED
  BY <1>1, <1>2 DEF Live

LEMMA CheckoutRow ==
    ASSUME TypeInv, EventInv, HandleCheckout
    PROVE  HandlerRow(web.event)
<1> DEFINE e == web.event
<1> USE DEF TypeInv, StripeOK
<1>1. /\ e \in Event /\ e.sub \in Subs /\ e.sub = web.sub /\ e \in Unanswered /\ e.type = "checkout"
      /\ e.status = "active" /\ UNCHANGED stripe
  BY DEF HandleCheckout, Handles, WebOK, Web, Unanswered, EventInv, Contents, Rest, stripeVars
<1>2. /\ row'[e.sub].status = "active" /\ row'[e.sub].plan = e.plan
      /\ \A r \in Subs \ {e.sub} : row'[r] = row[r]
  BY <1>1 DEF HandleCheckout, RowOK, Row
<1>3. ASSUME NEW s \in Subs, s = e.sub, Final(e) PROVE RowAgrees(s)'
  <2>1. stripe'[s].status = "active" /\ stripe'[s].plan = e.plan
    BY <1>1, <1>3 DEF Final, Tells
  <2>2. row'[s].status = "active" /\ row'[s].plan = e.plan
    BY <1>2, <1>3
  <2> QED
    BY <2>1, <2>2 DEF RowAgrees
<1> QED
  BY <1>1, <1>2, <1>3 DEF HandlerRow

LEMMA UpdatedRow ==
    ASSUME TypeInv, EventInv, HandleUpdated
    PROVE  HandlerRow(web.event)
<1> DEFINE e == web.event
<1> USE DEF TypeInv, StripeOK
<1>1. /\ e \in Event /\ e.sub \in Subs /\ e.sub = web.sub /\ e \in Unanswered /\ e.type = "updated"
      /\ e.status \in {"active", "past_due"} /\ UNCHANGED stripe
  BY DEF HandleUpdated, Handles, WebOK, Web, Unanswered, EventInv, Contents, stripeVars
<1>2. /\ row'[e.sub].status = e.status /\ row'[e.sub].plan = e.plan
      /\ \A r \in Subs \ {e.sub} : row'[r] = row[r]
  <2>1. row' = [row EXCEPT ![e.sub] = Mirrored(row[e.sub], e)]
    BY <1>1 DEF HandleUpdated
  <2> QED
    BY <1>1, <2>1 DEF RowOK, Row, Mirrored
<1>3. ASSUME NEW s \in Subs, s = e.sub, Final(e) PROVE RowAgrees(s)'
  <2>1. stripe'[s].status = e.status /\ stripe'[s].plan = e.plan
    BY <1>1, <1>3 DEF Final, Tells
  <2>2. row'[s].status = e.status /\ row'[s].plan = e.plan
    BY <1>2, <1>3
  <2> QED
    BY <1>1, <2>1, <2>2, CorrectedAgrees DEF Live
<1> QED
  BY <1>1, <1>2, <1>3 DEF HandlerRow

(* A deletion finds its row: an account that has none yet has an update    *)
(* waiting, and that would be older.                                       *)
LEMMA DeletedKnown ==
    ASSUME TypeInv, EventInv, RowsInv, Handles("deleted")
    PROVE  Known(web.sub)
<1> DEFINE e == web.event
<1> USE DEF TypeInv, StripeOK
<1>1. e \in Event /\ e # NoEvent /\ e.sub = web.sub /\ e.sub \in Subs /\ e \in Unanswered
      /\ e.type = "deleted"
  BY DEF Handles, WebOK, Web, Unanswered
<1>2. ASSUME row[e.sub].status = "absent" PROVE FALSE
  <2>1. stripe[e.sub].status # "absent"
    BY <1>1 DEF EventInv, Dated
  <2>2. PICK g \in Waiting : g.sub = e.sub /\ g.type = "updated"
    BY <1>1, <1>2, <2>1 DEF RowsInv
  <2>3. g \in inbox /\ e.at < g.at
    BY <1>1, <2>2 DEF Waiting, EventInv, Dated
  <2>4. g.at <= e.at
    BY <1>1, <2>2, WaitingUnanswered DEF EventInv, Contents
  <2> QED
    BY <1>1, <2>3, <2>4 DEF Event
<1> QED
  BY <1>1, <1>2 DEF Known

LEMMA DeletedRow ==
    ASSUME TypeInv, EventInv, RowsInv, HandleDeleted
    PROVE  HandlerRow(web.event)
<1> DEFINE e == web.event
<1> USE DEF TypeInv, StripeOK
<1>1. /\ e \in Event /\ e.sub \in Subs /\ e.sub = web.sub /\ e \in Unanswered /\ e.type = "deleted"
      /\ UNCHANGED stripe
  BY DEF HandleDeleted, Handles, WebOK, Web, Unanswered, Rest, stripeVars
<1>2. /\ row'[e.sub].status = "cancelled"
      /\ \A r \in Subs \ {e.sub} : row'[r] = row[r]
  BY <1>1, DeletedKnown DEF HandleDeleted, RowOK, Row
<1>3. stripe'[e.sub].status = "canceled"
  BY <1>1 DEF EventInv, Contents
<1>4. ASSUME NEW s \in Subs, s = e.sub PROVE RowAgrees(s)'
  <2>1. stripe'[s].status = "canceled" /\ row'[s].status = "cancelled"
    BY <1>2, <1>3, <1>4
  <2> QED
    BY <2>1 DEF RowAgrees, Live
<1> QED
  BY <1>1, <1>2, <1>4 DEF HandlerRow, Tracked

LEMMA InvoiceRow ==
    ASSUME TypeInv, HandlePaid \/ HandleFailed \/ HandleReleased
    PROVE  HandlerRow(web.event)
<1> DEFINE e == web.event
<1> USE DEF TypeInv
<1>1. /\ e \in Event /\ e.sub \in Subs /\ e.sub = web.sub /\ e.type \in {"paid", "failed", "released"}
  BY DEF HandlePaid, HandleFailed, HandleReleased, Handles, WebOK, Web
<1>2. ~Final(e)
  BY <1>1 DEF Final, Tells
<1>3. \A r \in Subs \ {e.sub} : row'[r] = row[r]
  BY <1>1 DEF HandlePaid, HandleFailed, HandleReleased, RowOK, Row
<1>4. row'[e.sub].status \in {"active", "past_due", row[e.sub].status}
      /\ (row'[e.sub].status = "absent" => row[e.sub].status = "absent")
  <2>1. CASE HandlePaid
    BY <1>1, <2>1 DEF HandlePaid, RowOK, Row
  <2>2. CASE HandleFailed
    BY <1>1, <2>2 DEF HandleFailed, RowOK, Row
  <2>3. CASE HandleReleased
    BY <1>1, <2>3 DEF HandleReleased, RowOK, Row
  <2> QED
    BY <2>1, <2>2, <2>3
<1> QED
  BY <1>1, <1>2, <1>3, <1>4 DEF HandlerRow

(* The three other writes: an upgrade that is stored, what the reconciler  *)
(* corrects and what dunning cancels, when the row is as it was read.      *)
LEMMA StoreRowsInv ==
    ASSUME TypeInv, HandlerOK, EventInv, RowsInv, StageInv, StoreUpgrade
    PROVE  RowsInv'
<1> USE DEF TypeInv, StripeOK
<1>1. /\ UNCHANGED <<stripe, inbox>> /\ web.event = NoEvent /\ web'.event = NoEvent
      /\ web.at # "row" /\ web'.at # "row" /\ web.sub \in Subs
  BY DEF StoreUpgrade, Rest, stripeVars, WebOK, Web, HandlerOK
<1>2. Waiting' = Waiting /\ Unanswered' = Unanswered /\ Waiting = inbox
  BY <1>1 DEF Waiting, Unanswered
<1>3. /\ \A r \in Subs : row'[r].status = row[r].status
      /\ \A r \in Subs \ {web.sub} : row'[r] = row[r]
  BY <1>1 DEF StoreUpgrade, RowOK, Row
<1>4. \E e \in Waiting : e.sub = web.sub
  BY <1>2 DEF StageInv, StoreUpgrade
<1>5. ASSUME NEW r \in Subs, \A e \in Waiting : e.sub # r PROVE RowAgrees(r)'
  <2>1. row'[r] = row[r] /\ stripe'[r] = stripe[r] /\ RowAgrees(r)
    BY <1>1, <1>3, <1>4, <1>5 DEF RowsInv
  <2> QED
    BY <2>1 DEF RowAgrees
<1> QED
  BY <1>1, <1>2, <1>3, <1>5 DEF RowsInv, Tracked, EndsBefore

LEMMA RecWriteRow ==
    ASSUME TypeInv, RowsInv, StageInv, RecWrite, "race" \notin causes'
    PROVE  LET s == rec.sub IN
           /\ s \in Subs /\ Tracked(row[s]) /\ row[s] = Seen(s) /\ stripe[s] = rec.found
           /\ row'[s].status = stripe[s].status /\ row'[s].plan = stripe[s].plan
           /\ \A r \in Subs \ {s} : row'[r] = row[r]
           /\ row'[s] = Correct(row[s], Seen(s), rec.found)
           /\ stripe[s].status # "absent" /\ UNCHANGED <<stripe, inbox, web>>
<1> DEFINE s == rec.sub
<1> USE DEF TypeInv, StripeOK
<1>1. s \in Subs /\ row[s] = Seen(s) /\ stripe[s] = rec.found /\ UNCHANGED <<stripe, inbox, web>>
  BY DEF RecWrite, BlameIf, RecOK, stripeVars
<1>2. Tracked(row[s])
  BY <1>1 DEF StageInv, RecWrite
<1>3. stripe[s].status # "absent"
  BY <1>1, <1>2 DEF RowsInv, Tracked
<1>4. row' = [row EXCEPT ![s] = Correct(row[s], Seen(s), rec.found)]
  BY DEF RecWrite
<1>5. row'[s] = Correct(row[s], Seen(s), rec.found) /\ \A r \in Subs \ {s} : row'[r] = row[r]
  BY <1>1, <1>4 DEF RowOK
<1>6. row'[s].status = stripe[s].status /\ row'[s].plan = stripe[s].plan
  <2>1. row[s] \in Row
    BY <1>1 DEF RowOK
  <2> QED
    BY <1>1, <1>5, <2>1 DEF Correct, Corrected, StatusDiffers, PlanDiffers, Row
<1> QED
  BY <1>1, <1>2, <1>3, <1>5, <1>6

(* A row that is tracked has, when its subscription has ended, a deletion  *)
(* that waits.                                                             *)
LEMMA EndWaits ==
    ASSUME TypeInv, EventInv, RowsInv, StageInv, NEW s \in Subs, Tracked(row[s]),
           ~Live(stripe[s])
    PROVE  \E d \in Waiting : d.sub = s /\ d.type = "deleted"
<1> USE DEF TypeInv
<1>1. ~RowAgrees(s)
  <2>1. stripe[s].status = "canceled"
    BY DEF RowsInv, Tracked, Live, StripeOK, StripeSub
  <2> QED
    BY <2>1 DEF RowAgrees, Tracked
<1>2. PICK g \in Waiting : g.sub = s
  BY <1>1 DEF RowsInv
<1>3. PICK d \in Unanswered : d.sub = s /\ d.type = "deleted"
  BY <1>2, EndTold, WaitingUnanswered
<1>4. d \in inbox \/ (d = web.event /\ web.event # NoEvent)
  BY DEF Unanswered
<1>5. CASE d = web.event /\ web.event # NoEvent
  BY <1>3, <1>5 DEF StageInv, Tracked, WebOK, Waiting
<1> QED
  BY <1>3, <1>4, <1>5 DEF Waiting

LEMMA RecWriteRowsInv ==
    ASSUME TypeInv, EventInv, RowsInv, StageInv, RecWrite, "race" \notin causes'
    PROVE  RowsInv'
<1> DEFINE s == rec.sub
<1> USE DEF TypeInv
<1>1. /\ s \in Subs /\ Tracked(row[s])
      /\ row'[s].status = stripe[s].status /\ row'[s].plan = stripe[s].plan
      /\ \A r \in Subs \ {s} : row'[r] = row[r]
      /\ stripe[s].status # "absent" /\ UNCHANGED <<stripe, inbox, web>>
  BY RecWriteRow
<1> HIDE DEF s
<1>2. Waiting' = Waiting /\ Unanswered' = Unanswered
  BY <1>1 DEF Waiting, Unanswered
<1>3. ASSUME NEW r \in Subs, \A e \in Waiting : e.sub # r PROVE RowAgrees(r)'
  <2>1. CASE r = s
    <3>1. Live(stripe[s])
      BY <1>1, <1>3, <2>1, EndWaits
    <3> QED
      BY <1>1, <2>1, <3>1, CorrectedAgrees
  <2>2. CASE r # s
    <3>1. row'[r] = row[r] /\ stripe'[r] = stripe[r] /\ RowAgrees(r)
      BY <1>1, <1>3, <2>2 DEF RowsInv
    <3> QED
      BY <3>1 DEF RowAgrees
  <2> QED
    BY <2>1, <2>2
<1>4. ASSUME NEW r \in Subs, row'[r].status = "canceled"
      PROVE  \E e \in Waiting : e.sub = r /\ e.type = "deleted"
  <2>1. CASE r = s
    BY <1>1, <1>4, <2>1, EndWaits DEF Live
  <2>2. CASE r # s
    BY <1>1, <1>4, <2>2 DEF RowsInv
  <2> QED
    BY <2>1, <2>2
<1>5. \A r \in Subs : Tracked(row'[r]) => Tracked(row[r])
  BY <1>1
<1>6. \A r \in Subs : /\ row'[r].status = "absent" => row[r].status = "absent"
                      /\ row'[r].status # "absent" => stripe[r].status # "absent"
  BY <1>1 DEF RowsInv
<1> QED
  BY <1>1, <1>2, <1>3, <1>4, <1>5, <1>6 DEF RowsInv, EndsBefore

LEMMA DunCancelRowsInv ==
    ASSUME TypeInv, RowsInv, NEW s \in Subs, DunCancel(s), "race" \notin causes'
    PROVE  RowsInv'
<1> USE DEF TypeInv
<1>1. /\ row[s].status = "past_due" /\ UNCHANGED <<stripe, inbox, web>>
      /\ row'[s].status = "cancelled" /\ row'[s].plan = row[s].plan
      /\ \A r \in Subs \ {s} : row'[r] = row[r]
  BY DEF DunCancel, BlameIf, Overdue, RowOK, Row, stripeVars
<1>2. Waiting' = Waiting /\ Unanswered' = Unanswered
  BY <1>1 DEF Waiting, Unanswered
<1>3. ASSUME NEW r \in Subs, \A e \in Waiting : e.sub # r PROVE RowAgrees(r)'
  <2>0. RowAgrees(r)
    BY <1>3 DEF RowsInv
  <2>1. CASE r = s
    <3>1. stripe[s].status = "past_due" /\ (Live(stripe[s]) => row[s].plan = stripe[s].plan)
      <4>1. stripe[s].status \in {"absent", "active", "past_due", "canceled"}
        BY DEF StripeOK, StripeSub
      <4> QED
        BY <1>1, <2>0, <2>1, <4>1 DEF RowAgrees
    <3> QED
      BY <1>1, <2>1, <3>1 DEF RowAgrees
  <2>2. CASE r # s
    BY <1>1, <2>0, <2>2 DEF RowAgrees
  <2> QED
    BY <2>1, <2>2
<1> QED
  BY <1>1, <1>2, <1>3 DEF RowsInv, Tracked, EndsBefore

LEMMA RowsInvNext ==
    ASSUME TypeInv, HandlerOK, EventInv, RowsInv, StageInv, Clean', [Next]_vars
    PROVE  RowsInv'
<1>0. "lost" \notin causes' /\ "race" \notin causes'
  BY DEF Clean, Excuses
<1>1. EventStep
  BY EventSteps DEF EventInv
<1>2. CASE Steady
  BY <1>1, <1>2, SteadyRowsInv
<1>3. ASSUME HandleCheckout \/ HandleUpdated \/ HandleDeleted \/ HandlePaid \/ HandleFailed \/ HandleReleased
      PROVE  RowsInv'
  <2>1. HandlerRow(web.event)
    BY <1>3, CheckoutRow, UpdatedRow, DeletedRow, InvoiceRow
  <2>2. web.at = "row" /\ UNCHANGED <<stripe, inbox>>
    BY <1>3 DEF HandleCheckout, HandleUpdated, HandleDeleted, HandlePaid, HandleFailed,
                HandleReleased, Handles, Rest, stripeVars
  <2>3. web'.at # "row" /\ web'.event \in {web.event, NoEvent}
    <3> USE DEF TypeInv, WebOK, Web
    <3>1. CASE HandleCheckout
      BY <3>1 DEF HandleCheckout
    <3>2. CASE HandleUpdated
      BY <3>2 DEF HandleUpdated
    <3>3. CASE HandleDeleted
      BY <3>3 DEF HandleDeleted, Idle
    <3>4. CASE HandlePaid \/ HandleFailed \/ HandleReleased
      BY <3>4 DEF HandlePaid, HandleFailed, HandleReleased, Idle
    <3> QED
      BY <1>3, <3>1, <3>2, <3>3, <3>4
  <2> QED
    BY <2>1, <2>2, <2>3, HandlerRowsInv
<1>4. CASE StoreUpgrade
  BY <1>4, StoreRowsInv
<1>5. CASE RecWrite
  BY <1>0, <1>5, RecWriteRowsInv
<1>6. ASSUME NEW s \in Subs, DunCancel(s) PROVE RowsInv'
  BY <1>0, <1>6, DunCancelRowsInv
<1> QED
  BY <1>0, <1>2, <1>3, <1>4, <1>5, <1>6, SteadyOrWrite DEF RowWrite

(* The stages of the writers, and the mirror.                              *)
WebStage ==
    /\ web.event # NoEvent /\ web.at # "row" /\ web.event.type = "deleted" =>
          row[web.sub].status = "cancelled"
    /\ web.at = "store" => \E e \in inbox : e.sub = web.sub
    /\ web.at = "check" => web.event.type = "deleted"
RecStage ==
    /\ rec.at = "write" => Tracked(Seen(rec.sub))
    /\ rec.at = "user" => /\ Seen(rec.sub).plan = rec.found.plan
                          /\ Seen(rec.sub).status = rec.found.status
                          /\ rec.found.status # "absent"

LEMMA ChangeTells ==
    ASSUME NEW s, NEW t, Becomes(s, t, <<"updated">>)
    PROVE  \E e \in inbox' : e.sub = s /\ e.type = "updated"
<1> DEFINE e == [at |-> 2 * changes + 1, type |-> <<"updated">>[1], sub |-> s,
                 status |-> t.status, plan |-> t.plan, sched |-> t.sched]
<1>1. 1 \in DOMAIN <<"updated">>
  OBVIOUS
<1>2. e \in inbox'
  BY <1>1 DEF Becomes
<1>3. e.sub = s /\ e.type = "updated"
  OBVIOUS
<1> HIDE DEF e
<1> QED
  BY <1>2, <1>3

LEMMA WebStageNext ==
    ASSUME TypeInv, HandlerOK, EventInv, RowsInv, StageInv, Clean', [Next]_vars
    PROVE  WebStage'
<1> USE DEF TypeInv
<1>0. "lost" \notin causes' /\ "race" \notin causes'
  BY DEF Clean, Excuses
<1>s. WebStage
  BY DEF StageInv, WebStage
<1>i. ASSUME web' = Idle PROVE WebStage'
  BY <1>i DEF WebStage, Idle
<1>q. ASSUME web' = web, inbox \subseteq inbox', \A s \in Subs : row'[s].status = row[s].status
      PROVE  WebStage'
  BY <1>q, <1>s DEF WebStage, WebOK, HandlerOK
<1>r. ASSUME web'.event = NoEvent, web'.at \notin {"store", "check"} PROVE WebStage'
  BY <1>r DEF WebStage
<1>1. ASSUME NEW s \in Subs, OpenCheckout(s) \/ StripeChange(s) PROVE WebStage'
  <2>1. web' = web /\ inbox \subseteq inbox' /\ row' = row
    BY <1>1 DEF OpenCheckout, StripeChange, Becomes
  <2> QED
    BY <2>1, <1>q
<1>2. ASSUME NEW s \in Subs, GracePasses(s) PROVE WebStage'
  <2>1. web' = web /\ inbox' = inbox /\ \A r \in Subs : row'[r].status = row[r].status
    BY <1>2 DEF GracePasses, RowOK, Row
  <2> QED
    BY <2>1, <1>q
<1>3. ASSUME NEW s \in Subs, NEW p \in PaidPlans, CompleteCheckout(s, p) PROVE WebStage'
  BY <1>3, <1>q DEF CompleteCheckout, Becomes
<1>4. ASSUME NEW e \in inbox, Lose(e) PROVE FALSE
  BY <1>0, <1>4 DEF Lose, Blame
<1>5. CASE FillRead \/ FillStore \/ CacheExpires
  BY <1>5, <1>q DEF FillRead, FillStore, CacheExpires
<1>6. ASSUME NEW e \in inbox, Deliver(e) PROVE WebStage'
  <2>1. web'.at = "row"
    BY <1>6 DEF Deliver, Idle
  <2> QED
    BY <2>1 DEF WebStage
<1>7. CASE HandleCheckout \/ HandleUpdated
  <2>1. web'.at = "user" /\ web'.event.type # "deleted"
    <3>1. CASE HandleCheckout
      BY <3>1 DEF HandleCheckout, Handles, WebOK, Web
    <3>2. CASE HandleUpdated
      BY <3>2 DEF HandleUpdated, Handles, WebOK, Web
    <3> QED
      BY <1>7, <3>1, <3>2
  <2> QED
    BY <2>1 DEF WebStage
<1>8. CASE HandleDeleted
  <2>1. web.sub \in Subs /\ row' = [row EXCEPT ![web.sub].status = "cancelled"]
        /\ web' = [web EXCEPT !.at = "check"] /\ web.event.type = "deleted"
    BY <1>8, DeletedKnown DEF HandleDeleted, Handles, WebOK
  <2>2. /\ web'.at = "check" /\ web'.event.type = "deleted" /\ web'.sub = web.sub
        /\ row'[web.sub].status = "cancelled"
    BY <2>1 DEF WebOK, Web, RowOK, Row
  <2> QED
    BY <2>2 DEF WebStage
<1>9. CASE CheckOthers
  <2>1. CASE web' = [web EXCEPT !.at = "user", !.plan = "free"]
    <3>1. web'.at = "user" /\ web'.event = web.event /\ web'.sub = web.sub /\ row' = row
          /\ web.at # "row"
      BY <1>9, <2>1 DEF CheckOthers, WebOK, Web
    <3> QED
      BY <3>1, <1>s DEF WebStage
  <2> QED
    BY <1>9, <2>1, <1>i DEF CheckOthers
<1>10. CASE HandlePaid \/ HandleFailed \/ HandleReleased \/ WebBust
  BY <1>10, <1>i DEF HandlePaid, HandleFailed, HandleReleased, WebBust
<1>19. CASE WriteUser
  <2>1. web'.at = "bust" /\ web'.event = web.event /\ web'.sub = web.sub /\ row' = row
        /\ web.at # "row"
    BY <1>19 DEF WriteUser, WebOK, Web
  <2> QED
    BY <2>1, <1>s DEF WebStage
<1>11. CASE Request
  <2>1. PICK s \in Subs, p \in Plans, d \in {"charge", "schedule", "idle"} : Ask(s, p, d)
    BY <1>11 DEF Request, AskUpgrade, AskDowngrade, AskCancel
  <2>2. web'.event = NoEvent /\ web'.at \in {"charge", "schedule", "idle", "release"}
    BY <2>1 DEF Ask, Idle
  <2> QED
    BY <2>2, <1>r
<1>12. CASE RequestStep
  <2>0. web.event = NoEvent
    BY <1>12 DEF RequestStep, Release, ClearMarkers, Charge, ChargeFails, StoreUpgrade, Schedule,
                 StoreDowngrade, HandlerOK
  <2>1. CASE Charge
    <3>1. web'.event = NoEvent /\ web'.at = "store" /\ web'.sub = web.sub
      BY <2>0, <2>1 DEF Charge, WebOK, Web
    <3>2. \E e \in inbox' : e.sub = web.sub
      BY <2>1, ChangeTells DEF Charge
    <3> QED
      BY <3>1, <3>2 DEF WebStage
  <2>2. CASE web' = Idle
    BY <2>2, <1>i
  <2>3. CASE Release \/ Schedule \/ StoreUpgrade
    <3>1. CASE web' = [web EXCEPT !.at = "clear"] \/ web' = [web EXCEPT !.at = "mark"]
               \/ web' = [web EXCEPT !.at = "user"]
      BY <2>0, <3>1, <1>r DEF WebOK, Web
    <3> QED
      BY <2>2, <2>3, <3>1 DEF Release, Schedule, StoreUpgrade
  <2>4. CASE ClearMarkers
    <3>1. CASE web' = [web EXCEPT !.at = web.then]
      BY <2>0, <3>1, <1>r DEF WebOK, Web
    <3> QED
      BY <2>2, <2>4, <3>1 DEF ClearMarkers
  <2>5. CASE ChargeFails \/ StoreDowngrade
    BY <2>2, <2>5 DEF ChargeFails, Refused, StoreDowngrade
  <2> QED
    BY <1>12, <2>1, <2>3, <2>4, <2>5 DEF RequestStep
<1>13. CASE RecWrite
  <2>1. /\ rec.sub \in Subs /\ Tracked(row[rec.sub]) /\ \A r \in Subs \ {rec.sub} : row'[r] = row[r]
        /\ UNCHANGED <<web, inbox>>
    BY <1>0, <1>13, RecWriteRow
  <2>2. web.event # NoEvent /\ web.at # "row" /\ web.event.type = "deleted" => web.sub # rec.sub
    BY <2>1, <1>s DEF WebStage, Tracked
  <2> QED
    BY <2>1, <2>2, <1>s DEF WebStage, WebOK, HandlerOK
<1>14. ASSUME NEW s \in Subs, DunCancel(s) PROVE WebStage'
  <2>1. /\ row'[s].status = "cancelled" /\ \A r \in Subs \ {s} : row'[r] = row[r]
        /\ UNCHANGED <<web, inbox>>
    BY <1>14 DEF DunCancel, RowOK, Row
  <2> QED
    BY <2>1, <1>s DEF WebStage, WebOK, HandlerOK
<1>15. CASE RecStart \/ RecUser \/ RecBust \/ RecEnd \/ \E s \in Subs : Compare(s)
  BY <1>15, <1>q DEF RecStart, RecUser, RecBust, RecEnd, Compare
<1>16. CASE DunStart \/ DunUser \/ DunBust
  BY <1>16, <1>q DEF DunStart, DunUser, DunBust
<1>17. CASE Breaks
  <2>1. CASE HandlerBreaks \/ RequestBreaks
    BY <2>1, <1>i DEF HandlerBreaks, RequestBreaks
  <2>2. CASE ReleaseFails
    <3>1. CASE web' = [web EXCEPT !.at = "clear"]
      <4>1. web.event = NoEvent
        BY <2>2 DEF ReleaseFails, HandlerOK
      <4> QED
        BY <4>1, <3>1, <1>r DEF WebOK, Web
    <3> QED
      BY <2>2, <3>1, <1>i DEF ReleaseFails
  <2>3. CASE RecBreaks \/ DunBreaks \/ \E s \in Subs : FetchFails(s)
    BY <2>3, <1>q DEF RecBreaks, DunBreaks, FetchFails
  <2> QED
    BY <1>17, <2>1, <2>2, <2>3 DEF Breaks
<1>18. CASE UNCHANGED vars
  BY <1>18, <1>q DEF vars
<1> QED
  BY <1>1, <1>2, <1>3, <1>4, <1>5, <1>6, <1>7, <1>8, <1>9, <1>10, <1>11, <1>12, <1>13, <1>14, <1>15,
     <1>16, <1>17, <1>18, <1>19
     DEF Next, Stripe, WebStep, HandlerStep, RecStep, DunStep

LEMMA RecStageNext ==
    ASSUME TypeInv, RowsInv, StageInv, "race" \notin causes', [Next]_vars
    PROVE  RecStage'
<1> USE DEF TypeInv
<1>s. RecStage
  BY DEF StageInv, RecStage
<1>q. ASSUME rec' = rec PROVE RecStage'
  BY <1>q, <1>s DEF RecStage, Seen
<1>n. ASSUME rec'.at \in {"idle", "next", "bust"} PROVE RecStage'
  BY <1>n DEF RecStage
<1>1. ASSUME NEW s \in Subs, Compare(s) PROVE RecStage'
  <2>1. CASE rec' = [rec EXCEPT !.at = "write", !.sub = s, !.found = stripe[s]]
    <3>1. rec'.at = "write" /\ rec'.sub = s /\ rec'.seen = rec.seen
      BY <2>1 DEF RecOK
    <3>2. Tracked(rec.seen[s])
      BY <1>1 DEF Compare, Pending, Seen
    <3> QED
      BY <3>1, <3>2 DEF RecStage, Seen
  <2>2. CASE rec' = [rec EXCEPT !.seen[s] = NoRow]
    BY <1>1, <2>2, <1>n DEF Compare, RecOK
  <2> QED
    BY <1>1, <2>1, <2>2 DEF Compare
<1>2. CASE RecWrite
  <2> DEFINE s == rec.sub
             r == Correct(row[s], Seen(s), rec.found)
  <2>1. /\ s \in Subs /\ row'[s].status = stripe[s].status /\ row'[s].plan = stripe[s].plan
        /\ row'[s] = r /\ stripe[s] = rec.found /\ stripe[s].status # "absent"
    BY <1>2, RecWriteRow
  <2>2. CASE rec' = [rec EXCEPT !.at = "user", !.seen[s] = r]
    <3>1. rec'.at = "user" /\ rec'.sub = s /\ rec'.found = rec.found /\ rec'.seen[s] = r
      BY <2>1, <2>2 DEF RecOK
    <3> QED
      BY <2>1, <3>1 DEF RecStage, Seen
  <2>3. CASE rec' = RecNext
    BY <2>3, <1>n DEF RecNext, RecOK
  <2> QED
    BY <1>2, <2>2, <2>3 DEF RecWrite
<1>3. CASE RecUser \/ RecBust \/ RecEnd \/ RecStart \/ RecBreaks \/ \E s \in Subs : FetchFails(s)
  <2>1. rec'.at \in {"idle", "next", "bust"}
    <3>1. CASE RecUser
      BY <3>1 DEF RecUser, RecOK
    <3>5. CASE RecBust
      BY <3>5 DEF RecBust, RecNext, RecOK
    <3>2. CASE RecEnd \/ RecBreaks
      BY <3>2 DEF RecEnd, RecBreaks, RecIdle
    <3>3. CASE RecStart
      BY <3>3 DEF RecStart, RecIdle
    <3>4. CASE \E s \in Subs : FetchFails(s)
      BY <3>4 DEF FetchFails, RecOK
    <3> QED
      BY <1>3, <3>1, <3>2, <3>3, <3>4, <3>5
  <2> QED
    BY <2>1, <1>n
<1>4. CASE Stripe
  BY <1>4, <1>q DEF Stripe, OpenCheckout, CompleteCheckout, StripeChange, GracePasses, Lose
<1>5. CASE FillRead \/ FillStore \/ CacheExpires \/ \E e \in inbox : Deliver(e)
  BY <1>5, <1>q DEF FillRead, FillStore, CacheExpires, Deliver
<1>6. CASE HandlerStep
  BY <1>6, <1>q DEF HandlerStep, HandleCheckout, HandleUpdated, HandleDeleted, CheckOthers,
                    HandlePaid, HandleFailed, HandleReleased, WriteUser, WebBust, Rest
<1>7. CASE Request
  BY <1>7, <1>q DEF Request, AskUpgrade, AskDowngrade, AskCancel, Ask, Rest
<1>8. CASE RequestStep
  BY <1>8, <1>q DEF RequestStep, Release, ClearMarkers, Charge, ChargeFails, StoreUpgrade,
                    Schedule, StoreDowngrade, Rest
<1>9. CASE DunStart \/ DunStep
  BY <1>9, <1>q DEF DunStart, DunStep, DunCancel, DunUser, DunBust
<1>10. CASE HandlerBreaks \/ RequestBreaks \/ ReleaseFails \/ DunBreaks
  BY <1>10, <1>q DEF HandlerBreaks, RequestBreaks, ReleaseFails, DunBreaks
<1>11. CASE UNCHANGED vars
  BY <1>11, <1>q DEF vars
<1> QED
  BY <1>1, <1>2, <1>3, <1>4, <1>5, <1>6, <1>7, <1>8, <1>9, <1>10, <1>11
     DEF Next, WebStep, RecStep, Breaks

LEMMA StageInvNext ==
    ASSUME TypeInv, HandlerOK, EventInv, RowsInv, StageInv, Clean', [Next]_vars
    PROVE  StageInv'
<1>1. WebStage'
  BY WebStageNext
<1>2. RecStage'
  BY RecStageNext DEF Clean, Excuses
<1> QED
  BY <1>1, <1>2 DEF StageInv, WebStage, RecStage

LEMMA UserInvNext ==
    ASSUME TypeInv, HandlerOK, EventInv, RowsInv, StageInv, UserInv, Clean', [Next]_vars
    PROVE  UserInv'
<1> USE DEF TypeInv
<1>0. "lost" \notin causes' /\ "race" \notin causes' /\ "broken" \notin causes'
  BY DEF Clean, Excuses
<1>w. ASSUME web'.at \in {"check", "user"} \/ rec'.at = "user" \/ dun'.at = "user" PROVE UserInv'
  BY <1>w DEF UserInv
<1>m. ASSUME userPlan' = userPlan, Steady, UserMatches PROVE UserInv'
  BY <1>m DEF UserInv, UserMatches, Steady, Tracked
<1>q. ASSUME Steady, userPlan' = userPlan, web.at \in {"check", "user"} => web'.at \in {"check", "user"},
             rec.at = "user" => rec'.at = "user", dun.at = "user" => dun'.at = "user"
      PROVE  UserInv'
  BY <1>q, <1>m DEF UserInv, Steady
<1>1. CASE WriteUser
  <2>1. row' = row /\ userPlan' = web.plan /\ ~Outdated(web.sub, web.plan) /\ web.sub \in Subs
    BY <1>0, <1>1 DEF WriteUser, SetPlan, WebOK
  <2>2. UserMatches'
    BY <2>1 DEF UserMatches, Outdated
  <2> QED
    BY <2>2 DEF UserInv
<1>2. CASE DunUser
  <2>1. row' = row /\ userPlan' = "free" /\ ~Outdated(dun.sub, "free")
    BY <1>0, <1>2 DEF DunUser, SetPlan
  <2>2. UserMatches'
    BY <2>1 DEF UserMatches, Outdated
  <2> QED
    BY <2>2 DEF UserInv
<1>3. CASE RecUser
  <2>1. /\ row' = row /\ userPlan' = rec.found.plan /\ row[rec.sub] = Seen(rec.sub)
        /\ rec.sub \in Subs /\ UNCHANGED <<inbox, web>>
    BY <1>0, <1>3 DEF RecUser, SetPlan, RecOK
  <2>2. row[rec.sub].plan = rec.found.plan /\ row[rec.sub].status = rec.found.status
        /\ rec.found.status \in {"active", "past_due", "canceled"}
    BY <1>3, <2>1 DEF RecUser, StageInv, RecOK, StripeSub
  <2>3. CASE rec.found.status = "canceled"
    <3>1. Waiting # {}
      BY <2>1, <2>2, <2>3 DEF RowsInv
    <3>2. Waiting' = Waiting
      BY <2>1 DEF Waiting
    <3> QED
      BY <3>1, <3>2 DEF UserInv
  <2>4. CASE rec.found.status # "canceled"
    <3>1. UserMatches'
      BY <2>1, <2>2, <2>4 DEF UserMatches, Tracked
    <3> QED
      BY <3>1 DEF UserInv
  <2> QED
    BY <2>3, <2>4
<1>4. CASE CheckOthers
  <2>1. ASSUME NEW r \in Subs, row[r].status = "active" PROVE FALSE
    <3>1. /\ web.event # NoEvent /\ web.event \in Unanswered /\ web.event.sub = web.sub
          /\ row[web.sub].status = "cancelled"
      BY <1>4 DEF CheckOthers, WebOK, Unanswered, StageInv
    <3>2. EndsBefore(r, web.event)
      BY <2>1, <3>1 DEF RowsInv, Tracked
    <3>3. PICK d \in Unanswered : d.at < web.event.at
      BY <3>2 DEF EndsBefore
    <3>4. d.at \in Nat /\ web.event.at \in Nat
      BY <3>1, UnansweredType DEF Event
    <3>5. d \in inbox => web.event.at < d.at
      BY <3>1 DEF EventInv, Dated
    <3> QED
      BY <3>3, <3>4, <3>5 DEF Unanswered
  <2>2. web'.at = "user"
    BY <1>4, <2>1 DEF CheckOthers, WebOK, Web
  <2> QED
    BY <2>2, <1>w
<1>5. CASE HandleCheckout
  BY <1>5, <1>w DEF HandleCheckout, WebOK, Web
<1>6. CASE HandleUpdated
  BY <1>6, <1>w DEF HandleUpdated, WebOK, Web
<1>7. CASE HandleDeleted
  <2>1. web' = [web EXCEPT !.at = "check"]
    BY <1>7, DeletedKnown DEF HandleDeleted
  <2> QED
    BY <2>1, <1>w DEF WebOK, Web
<1>8. CASE HandlePaid \/ HandleFailed \/ HandleReleased
  <2>1. /\ web.event \in Unanswered /\ web.event.type \in {"paid", "failed", "released"}
        /\ inbox' = inbox
    BY <1>8 DEF HandlePaid, HandleFailed, HandleReleased, Handles, WebOK, Unanswered, Rest
  <2>2. PICK f \in Unanswered : Final(f)
    BY <2>1 DEF EventInv, Contents
  <2>3. f # web.event
    BY <2>1, <2>2 DEF Final, Tells
  <2>4. f \in Waiting'
    BY <2>1, <2>3 DEF Unanswered, Waiting
  <2> QED
    BY <2>4 DEF UserInv
<1>9. CASE StoreUpgrade
  BY <1>9, <1>w DEF StoreUpgrade, WebOK, Web
<1>10. CASE RecWrite
  <2> DEFINE s == rec.sub
  <2>1. /\ s \in Subs /\ Tracked(row[s]) /\ row[s] = Seen(s) /\ stripe[s] = rec.found
        /\ row'[s].status = stripe[s].status /\ row'[s].plan = stripe[s].plan
        /\ \A r \in Subs \ {s} : row'[r] = row[r]
        /\ UNCHANGED <<stripe, inbox, web>>
    BY <1>0, <1>10, RecWriteRow
  <2>2. userPlan' = userPlan /\ dun' = dun /\ Waiting' = Waiting
    BY <1>10, <2>1 DEF RecWrite, Waiting
  <2>3. CASE Mirrors(s)
    BY <1>10, <2>3, <1>w DEF RecWrite, RecOK
  <2>4. CASE ~Mirrors(s) /\ ~Live(stripe[s])
    <3>1. Waiting' # {}
      BY <2>1, <2>2, <2>4, EndWaits
    <3> QED
      BY <3>1 DEF UserInv
  <2>5. CASE ~Mirrors(s) /\ Live(stripe[s])
    <3>1. \A r \in Subs : /\ Tracked(row'[r]) <=> Tracked(row[r])
                          /\ row'[r].plan = row[r].plan
      BY <2>1, <2>5 DEF Mirrors, PlanDiffers, Live, Tracked
    <3>2. UserMatches => UserMatches'
      BY <2>2, <3>1 DEF UserMatches
    <3> QED
      BY <1>10, <2>1, <2>2, <3>2 DEF UserInv, RecWrite
  <2> QED
    BY <2>3, <2>4, <2>5
<1>11. ASSUME NEW s \in Subs, DunCancel(s) PROVE UserInv'
  BY <1>11, <1>w DEF DunCancel
<1>12. ASSUME Steady PROVE UserInv'
  <2>1. CASE Stripe \/ FillRead \/ FillStore \/ CacheExpires \/ UNCHANGED vars
    <3>1. UNCHANGED <<userPlan, web, rec, dun>>
      BY <2>1 DEF Stripe, OpenCheckout, CompleteCheckout, StripeChange, GracePasses, Lose,
                  FillRead, FillStore, CacheExpires, vars
    <3> QED
      BY <1>12, <3>1, <1>q
  <2>2. CASE \E e \in inbox : Deliver(e)
    <3>1. web = Idle /\ UNCHANGED <<userPlan, rec, dun>>
      BY <2>2 DEF Deliver, cacheVars
    <3> QED
      BY <1>12, <3>1, <1>q DEF Idle
  <2>3. CASE Request
    <3>1. web = Idle /\ UNCHANGED <<userPlan, rec, dun>>
      BY <2>3 DEF Request, AskUpgrade, AskDowngrade, AskCancel, Ask, Rest
    <3> QED
      BY <1>12, <3>1, <1>q DEF Idle
  <2>4. CASE Release \/ ClearMarkers \/ Charge \/ ChargeFails \/ Schedule \/ StoreDowngrade \/ ReleaseFails
    <3>1. web.at \notin {"check", "user"} /\ UNCHANGED <<userPlan, rec, dun>>
      BY <2>4 DEF Release, ClearMarkers, Charge, ChargeFails, Schedule, StoreDowngrade, ReleaseFails, Rest
    <3> QED
      BY <1>12, <3>1, <1>q
  <2>9. CASE WebBust \/ RecBust \/ DunBust
    <3>1. UNCHANGED userPlan
      BY <2>9 DEF WebBust, RecBust, DunBust
    <3>2. /\ web.at \in {"check", "user"} => web'.at \in {"check", "user"}
          /\ rec.at = "user" => rec'.at = "user"
          /\ dun.at = "user" => dun'.at = "user"
      BY <2>9 DEF WebBust, RecBust, DunBust
    <3> QED
      BY <1>12, <3>1, <3>2, <1>q
  <2>5. CASE RecStart \/ RecEnd \/ RecBreaks \/ \E s \in Subs : Compare(s) \/ FetchFails(s)
    <3>1. rec.at # "user" /\ UNCHANGED <<userPlan, web, dun>>
      BY <1>0, <2>5 DEF RecStart, RecEnd, RecBreaks, Breaking, Compare, FetchFails
    <3> QED
      BY <1>12, <3>1, <1>q
  <2>6. CASE DunStart \/ DunBreaks
    <3>1. dun.at # "user" /\ UNCHANGED <<userPlan, web, rec>>
      BY <1>0, <2>6 DEF DunStart, DunBreaks, Breaking
    <3> QED
      BY <1>12, <3>1, <1>q
  <2>7. CASE HandlerBreaks
    <3>1. Waiting' # {}
      BY <2>7 DEF HandlerBreaks, Waiting
    <3> QED
      BY <3>1 DEF UserInv
  <2>8. CASE RequestBreaks
    <3>1. web.at = "bust" /\ UNCHANGED <<userPlan, rec, dun>>
      BY <1>0, <2>8 DEF RequestBreaks, Breaking
    <3> QED
      BY <1>12, <3>1, <1>q
  <2> QED
    BY <1>1, <1>2, <1>3, <1>4, <1>5, <1>6, <1>7, <1>8, <1>9, <1>10, <1>11,
       <2>1, <2>2, <2>3, <2>4, <2>5, <2>6, <2>7, <2>8, <2>9
       DEF Next, WebStep, HandlerStep, RequestStep, RecStep, DunStep, Breaks
<1> QED
  BY <1>0, <1>5, <1>6, <1>7, <1>8, <1>9, <1>10, <1>11, <1>12, SteadyOrWrite DEF RowWrite

LEMMA DriftInit == Init => DriftInv
<1> SUFFICES ASSUME Init PROVE EventInv /\ RowsInv /\ StageInv /\ UserInv
  BY DEF DriftInv
<1> USE DEF Init, Idle, NoSub, NoRow, RecIdle, DunIdle
<1>1. Unanswered = {} /\ Waiting = {}
  BY DEF Unanswered, Waiting
<1>2. EventInv
  BY <1>1 DEF EventInv, OneLive, Opening, Dated, Contents, Successive, Live
<1>3. \A s \in Subs : RowAgrees(s)
  BY DEF RowAgrees, Live
<1>4. RowsInv
  BY <1>1, <1>3 DEF RowsInv, Tracked
<1>5. StageInv
  BY DEF StageInv
<1>6. UserInv
  BY DEF UserInv, UserMatches, Tracked
<1> QED
  BY <1>2, <1>4, <1>5, <1>6

LEMMA DriftNext == TypeInv /\ HandlerOK /\ DriftInv /\ [Next]_vars => DriftInv'
<1> SUFFICES ASSUME TypeInv, HandlerOK, DriftInv, [Next]_vars, Clean'
             PROVE  EventInv' /\ RowsInv' /\ StageInv' /\ UserInv'
  BY DEF DriftInv
<1>1. EventInv /\ RowsInv /\ StageInv /\ UserInv
  BY CausesGrow DEF DriftInv, Clean
<1> QED
  BY <1>1, EventInvNext, RowsInvNext, StageInvNext, UserInvNext

LEMMA DriftInvDrift == TypeInv /\ DriftInv => DriftHasCause
<1> SUFFICES ASSUME TypeInv, DriftInv, AtRest, Clean
             PROVE  UserAgrees /\ \A s \in Subs : RowAgrees(s)
  BY DEF DriftHasCause, Clean
<1>1. Waiting = {} /\ RowsInv /\ UserInv
  BY DEF AtRest, Idle, Waiting, DriftInv
<1>2. \A s \in Subs : RowAgrees(s)
  BY <1>1 DEF RowsInv
<1>3. UserMatches
  BY <1>1 DEF UserInv, AtRest, Idle
<1>4. ASSUME NEW s \in Subs, Tracked(row[s]) PROVE row[s].plan = stripe[s].plan
  <2>1. stripe[s].status \in {"absent", "active", "past_due", "canceled"}
    BY DEF TypeInv, StripeOK, StripeSub
  <2>2. RowAgrees(s)
    BY <1>2
  <2>3. Live(stripe[s])
    BY <1>4, <2>1, <2>2 DEF RowAgrees, Tracked, Live
  <2> QED
    BY <2>2, <2>3 DEF RowAgrees
<1>5. UserAgrees
  BY <1>3, <1>4 DEF UserMatches, UserAgrees
<1> QED
  BY <1>2, <1>5

(* When everything has come to rest, the rows and users.plan say what      *)
(* Stripe says, whichever handlers, plan changes and jobs interleaved, and *)
(* whatever was repeated or failed in between, unless an event was lost or *)
(* overtaken, two subscriptions overlapped, a job wrote over a row that    *)
(* had changed, or a request or a job broke off between two writes.        *)
THEOREM DriftHasCauseAlways == Spec => []DriftHasCause
<1>1. Init => TypeInv /\ HandlerOK /\ DriftInv
  BY InitTypeInv, HandlerInit, DriftInit
<1>2. TypeInv /\ HandlerOK /\ DriftInv /\ [Next]_vars => (TypeInv /\ HandlerOK /\ DriftInv)'
  BY NextTypeInv, HandlerNext, DriftNext
<1> QED
  BY <1>1, <1>2, DriftInvDrift, PTL DEF Spec

-----------------------------------------------------------------------------
(* The markers of pending downgrades, while no schedule was left behind    *)
(* and no event from before a schedule was handled after it either.        *)
Traceable == causes \cap (Excuses \cup {"delayed", "unreleased"}) = {}

(* A release is followed by an update that tells there is no schedule.     *)
Follows(e) ==
    \E f \in Waiting : f.sub = e.sub /\ f.type = "updated" /\ f.at > e.at /\ f.sched = None
(* The marker of a subscription is right, or an event still takes it away, *)
(* or the request that made the schedule is about to set it, or an update  *)
(* from before the schedule waits and will be blamed for what it finds.    *)
MarkerOf(s) ==
    \/ row[s].pending = stripe[s].sched
    \/ stripe[s].sched = None /\ \E e \in Waiting : e.sub = s
    \/ row[s].pending = None /\ web.at = "mark" /\ web.sub = s
    \/ row[s].pending = None
       /\ \E e \in Waiting : e.sub = s /\ e.type = "updated" /\ e.sched # stripe[s].sched
MarkersOK == \A s \in Subs : Live(stripe[s]) => MarkerOf(s)
ReleasesOK == \A e \in Waiting : e.type = "released" => Follows(e)
CheckoutsOK ==
    \A e \in Unanswered :
        e.type = "checkout" /\ (\A f \in Unanswered : f.sub = e.sub => f.at <= e.at) =>
            row[e.sub].pending = None
(* What a plan change relies on between its steps.                         *)
ChangeOK ==
    /\ web.at = "mark" => /\ stripe[web.sub].sched \in {None, web.plan}
                          /\ \E e \in inbox : e.sub = web.sub /\ Final(e) /\ e.type # "checkout"
    /\ web.at = "clear" => ~Live(stripe[web.sub]) \/ stripe[web.sub].sched = None
    /\ web.at \in {"charge", "schedule", "store", "mark"} => row[web.sub].pending = None
UnmarkedOK == \A s \in Subs : stripe[s].status = "absent" => row[s].pending = None
HandledOK ==
    web.event # NoEvent /\ web.at \in {"check", "user", "bust"} => web.event.type # "released"
MarkersInv == MarkersOK /\ ReleasesOK /\ CheckoutsOK /\ ChangeOK /\ UnmarkedOK /\ HandledOK
MarkerInv == Traceable => MarkersInv

-----------------------------------------------------------------------------
(* What steps do to the markers, the schedules and the stages of a plan    *)
(* change.                                                                 *)
LEMMA PendingNext ==
    ASSUME TypeInv, [Next]_vars
    PROVE  \/ \A s \in Subs : row'[s].pending \in {row[s].pending, None}
           \/ StoreDowngrade
<1> USE DEF TypeInv
<1> DEFINE Kept == \A s \in Subs : row'[s].pending \in {row[s].pending, None}
<1>q. ASSUME row' = row PROVE Kept
  BY <1>q
<1>1. ASSUME NEW s \in Subs, OpenCheckout(s) \/ StripeChange(s) PROVE Kept
  BY <1>1, <1>q DEF OpenCheckout, StripeChange
<1>2. ASSUME NEW s \in Subs, GracePasses(s) PROVE Kept
  BY <1>2 DEF GracePasses, RowOK, Row
<1>3. CASE (\E s \in Subs, p \in PaidPlans : CompleteCheckout(s, p)) \/ (\E e \in inbox : Lose(e) \/ Deliver(e))
  BY <1>3, <1>q DEF CompleteCheckout, Lose, Deliver
<1>4. CASE FillRead \/ FillStore \/ CacheExpires
  BY <1>4, <1>q DEF FillRead, FillStore, CacheExpires
<1>5. CASE HandleCheckout
  BY <1>5 DEF HandleCheckout, RowOK, Row, WebOK, Handles
<1>6. CASE HandleUpdated
  <2>1. web.sub \in Subs /\ row' = [row EXCEPT ![web.sub] = Mirrored(row[web.sub], web.event)]
    BY <1>6 DEF HandleUpdated, Handles, WebOK
  <2>2. Mirrored(row[web.sub], web.event).pending \in {row[web.sub].pending, None}
    BY <2>1 DEF Mirrored, RowOK, Row
  <2> QED
    BY <2>1, <2>2 DEF RowOK
<1>7. CASE HandleDeleted
  BY <1>7 DEF HandleDeleted, RowOK, Row, WebOK, Handles
<1>8. CASE HandlePaid
  BY <1>8 DEF HandlePaid, RowOK, Row, WebOK, Handles
<1>9. CASE HandleFailed
  BY <1>9 DEF HandleFailed, RowOK, Row, WebOK, Handles
<1>10. CASE HandleReleased
  BY <1>10 DEF HandleReleased, RowOK, Row, WebOK, Handles
<1>11. CASE CheckOthers \/ WriteUser \/ WebBust
  BY <1>11, <1>q DEF CheckOthers, WriteUser, WebBust
<1>12. CASE Request
  BY <1>12, <1>q DEF Request, AskUpgrade, AskDowngrade, AskCancel, Ask
<1>13. CASE Release \/ Charge \/ ChargeFails \/ Schedule
  BY <1>13, <1>q DEF Release, Charge, ChargeFails, Schedule
<1>14. CASE ClearMarkers
  BY <1>14 DEF ClearMarkers, RowOK, Row, WebOK
<1>15. CASE StoreUpgrade
  BY <1>15 DEF StoreUpgrade, RowOK, Row, WebOK
<1>16. CASE RecWrite
  <2>1. rec.sub \in Subs /\ row' = [row EXCEPT ![rec.sub] = Correct(row[rec.sub], Seen(rec.sub), rec.found)]
    BY <1>16 DEF RecWrite, RecOK
  <2>2. Correct(row[rec.sub], Seen(rec.sub), rec.found).pending \in {row[rec.sub].pending, None}
    BY <2>1 DEF Correct, Corrected, RowOK, Row
  <2> QED
    BY <2>1, <2>2 DEF RowOK
<1>17. ASSUME NEW s \in Subs, DunCancel(s) PROVE Kept
  BY <1>17 DEF DunCancel, RowOK, Row
<1>18. CASE \/ RecStart \/ RecUser \/ RecBust \/ RecEnd \/ (\E s \in Subs : Compare(s))
            \/ DunStart \/ DunUser \/ DunBust
  BY <1>18, <1>q DEF RecStart, RecUser, RecBust, RecEnd, Compare, DunStart, DunUser, DunBust
<1>19. CASE Breaks
  BY <1>19, <1>q DEF Breaks, HandlerBreaks, RequestBreaks, ReleaseFails, RecBreaks, DunBreaks, FetchFails
<1>20. CASE UNCHANGED vars
  BY <1>20, <1>q DEF vars
<1> QED
  BY <1>1, <1>2, <1>3, <1>4, <1>5, <1>6, <1>7, <1>8, <1>9, <1>10, <1>11, <1>12, <1>13, <1>14, <1>15,
     <1>16, <1>17, <1>18, <1>19, <1>20
     DEF Next, Stripe, WebStep, HandlerStep, RequestStep, RecStep, DunStep

(* Six actions write a marker; at every other step all of them stay.       *)
MarkerWrite ==
    HandleUpdated \/ HandleReleased \/ ClearMarkers \/ StoreUpgrade \/ StoreDowngrade \/ RecWrite
LEMMA PendingStays ==
    ASSUME TypeInv, [Next]_vars, ~MarkerWrite
    PROVE  \A s \in Subs : row'[s].pending = row[s].pending
<1> USE DEF TypeInv
<1> DEFINE Kept == \A s \in Subs : row'[s].pending = row[s].pending
<1>q. ASSUME row' = row PROVE Kept
  BY <1>q
<1>1. ASSUME NEW s \in Subs, OpenCheckout(s) \/ StripeChange(s) PROVE Kept
  BY <1>1, <1>q DEF OpenCheckout, StripeChange
<1>2. ASSUME NEW s \in Subs, GracePasses(s) PROVE Kept
  BY <1>2 DEF GracePasses, RowOK, Row
<1>3. CASE (\E s \in Subs, p \in PaidPlans : CompleteCheckout(s, p)) \/ (\E e \in inbox : Lose(e) \/ Deliver(e))
  BY <1>3, <1>q DEF CompleteCheckout, Lose, Deliver
<1>4. CASE FillRead \/ FillStore \/ CacheExpires
  BY <1>4, <1>q DEF FillRead, FillStore, CacheExpires
<1>5. CASE HandleCheckout
  BY <1>5 DEF HandleCheckout, RowOK, Row, WebOK, Handles
<1>7. CASE HandleDeleted
  BY <1>7 DEF HandleDeleted, RowOK, Row, WebOK, Handles
<1>8. CASE HandlePaid
  BY <1>8 DEF HandlePaid, RowOK, Row, WebOK, Handles
<1>9. CASE HandleFailed
  BY <1>9 DEF HandleFailed, RowOK, Row, WebOK, Handles
<1>11. CASE CheckOthers \/ WriteUser \/ WebBust
  BY <1>11, <1>q DEF CheckOthers, WriteUser, WebBust
<1>12. CASE Request
  BY <1>12, <1>q DEF Request, AskUpgrade, AskDowngrade, AskCancel, Ask
<1>13. CASE Release \/ Charge \/ ChargeFails \/ Schedule
  BY <1>13, <1>q DEF Release, Charge, ChargeFails, Schedule
<1>17. ASSUME NEW s \in Subs, DunCancel(s) PROVE Kept
  BY <1>17 DEF DunCancel, RowOK, Row
<1>18. CASE \/ RecStart \/ RecUser \/ RecBust \/ RecEnd \/ (\E s \in Subs : Compare(s))
            \/ DunStart \/ DunUser \/ DunBust
  BY <1>18, <1>q DEF RecStart, RecUser, RecBust, RecEnd, Compare, DunStart, DunUser, DunBust
<1>19. CASE Breaks
  BY <1>19, <1>q DEF Breaks, HandlerBreaks, RequestBreaks, ReleaseFails, RecBreaks, DunBreaks, FetchFails
<1>20. CASE UNCHANGED vars
  BY <1>20, <1>q DEF vars
<1> QED
  BY <1>1, <1>2, <1>3, <1>4, <1>5, <1>7, <1>8, <1>9, <1>11, <1>12, <1>13, <1>17, <1>18, <1>19, <1>20
     DEF Next, Stripe, WebStep, HandlerStep, RequestStep, RecStep, DunStep, MarkerWrite

(* A schedule comes into being by a plan change alone.                     *)
LEMMA SchedNext ==
    ASSUME TypeInv, Opening, [Next]_vars, NEW s \in Subs
    PROVE  \/ /\ stripe'[s].sched \in {None, stripe[s].sched}
              /\ Live(stripe'[s]) /\ ~Live(stripe[s]) => stripe'[s].sched = None
           \/ /\ Schedule /\ s = web.sub /\ stripe'[s].sched = web.plan
              /\ web'.at = "mark" /\ web'.sub = s /\ web'.plan = web.plan
<1> USE DEF TypeInv, StripeOK
<1> DEFINE Kept == /\ stripe'[s].sched \in {None, stripe[s].sched}
                   /\ Live(stripe'[s]) /\ ~Live(stripe[s]) => stripe'[s].sched = None
<1>q. ASSUME stripe' = stripe PROVE Kept
  BY <1>q
<1>b. ASSUME NEW r \in Subs, NEW t, NEW types, Becomes(r, t, types),
             t.sched \in {None, stripe[r].sched}, ~Live(stripe[r]) => t.sched = None
      PROVE  Kept
  <2>1. stripe'[s] = IF s = r THEN t ELSE stripe[s]
    BY <1>b DEF Becomes
  <2> QED
    BY <1>b, <2>1
<1>1. ASSUME NEW r \in Subs, OpenCheckout(r) \/ GracePasses(r) PROVE Kept
  BY <1>1, <1>q DEF OpenCheckout, GracePasses, stripeVars
<1>2. ASSUME NEW r \in Subs, StripeChange(r) PROVE Kept
  <2> DEFINE t == stripe[r]
  <2>1. t \in StripeSub
    OBVIOUS
  <2>2. ASSUME NEW u \in StripeSub, NEW types, Becomes(r, u, types), Live(t), u.sched \in {None, t.sched}
        PROVE  Kept
    BY <2>2, <1>b
  <2>3. CASE t.status = "active" /\ Becomes(r, [t EXCEPT !.status = "past_due"], <<"failed", "updated">>)
    <3>1. [t EXCEPT !.status = "past_due"].sched = t.sched /\ Live(t)
      BY <2>1, <2>3 DEF StripeSub, Live
    <3> QED
      BY <1>b, <2>3, <3>1
  <2>4. CASE t.status = "past_due" /\ Becomes(r, [t EXCEPT !.status = "active"], <<"paid", "updated">>)
    <3>1. [t EXCEPT !.status = "active"].sched = t.sched /\ Live(t)
      BY <2>1, <2>4 DEF StripeSub, Live
    <3> QED
      BY <1>b, <2>4, <3>1
  <2>5. CASE Becomes(r, [t EXCEPT !.plan = t.sched, !.sched = None], <<"updated">>)
    <3>1. [t EXCEPT !.plan = t.sched, !.sched = None].sched = None
      BY <2>1 DEF StripeSub
    <3> QED
      BY <1>b, <2>5, <3>1
  <2>6. CASE Becomes(r, [t EXCEPT !.sched = None], <<"released", "updated">>)
    <3>1. [t EXCEPT !.sched = None].sched = None
      BY <2>1 DEF StripeSub
    <3> QED
      BY <1>b, <2>6, <3>1
  <2>7. CASE Becomes(r, [t EXCEPT !.status = "canceled", !.sched = None], <<"deleted">>)
    <3>1. [t EXCEPT !.status = "canceled", !.sched = None].sched = None
      BY <2>1 DEF StripeSub
    <3> QED
      BY <1>b, <2>7, <3>1
  <2>8. CASE Live(t) /\ \E p \in PaidPlans : Becomes(r, [t EXCEPT !.plan = p], <<"updated">>)
    <3>1. PICK p \in PaidPlans : Becomes(r, [t EXCEPT !.plan = p], <<"updated">>)
      BY <2>8
    <3>2. [t EXCEPT !.plan = p].sched = t.sched
      BY <2>1 DEF StripeSub
    <3> QED
      BY <1>b, <2>8, <3>1, <3>2
  <2> QED
    BY <1>2, <2>3, <2>4, <2>5, <2>6, <2>7, <2>8 DEF StripeChange
<1>3. ASSUME NEW r \in Subs, NEW p \in PaidPlans, CompleteCheckout(r, p) PROVE Kept
  <2>1. [status |-> "active", plan |-> p, sched |-> None].sched = None
    OBVIOUS
  <2> QED
    BY <1>3, <1>b, <2>1 DEF CompleteCheckout
<1>4. ASSUME NEW e \in inbox, Lose(e) \/ Deliver(e) PROVE Kept
  BY <1>4, <1>q DEF Lose, Deliver, stripeVars
<1>5. CASE FillRead \/ FillStore \/ CacheExpires
  BY <1>5, <1>q DEF FillRead, FillStore, CacheExpires, stripeVars
<1>6. CASE HandlerStep
  BY <1>6, <1>q DEF HandlerStep, HandleCheckout, HandleUpdated, HandleDeleted, CheckOthers,
                    HandlePaid, HandleFailed, HandleReleased, WriteUser, WebBust, Rest, stripeVars
<1>7. CASE Request
  BY <1>7, <1>q DEF Request, AskUpgrade, AskDowngrade, AskCancel, Ask, Rest, stripeVars
<1>8. CASE Release
  <2>1. web.sub \in Subs /\ stripe[web.sub] \in StripeSub
    BY <1>8 DEF Release, WebOK
  <2>2. [stripe[web.sub] EXCEPT !.sched = None].sched = None
    BY <2>1 DEF StripeSub
  <2> QED
    BY <1>8, <1>q, <1>b, <2>1, <2>2 DEF Release
<1>9. CASE Charge
  <2>1. web.sub \in Subs /\ stripe[web.sub] \in StripeSub
    BY <1>9 DEF Charge, WebOK
  <2>2. [stripe[web.sub] EXCEPT !.plan = web.plan].sched = stripe[web.sub].sched
    BY <2>1 DEF StripeSub
  <2> QED
    BY <1>9, <1>b, <2>1, <2>2 DEF Charge
<1>10. CASE Schedule
  <2>1. web.sub \in Subs /\ stripe[web.sub] \in StripeSub
    BY <1>10 DEF Schedule, WebOK
  <2> DEFINE u == [stripe[web.sub] EXCEPT !.sched = web.plan]
  <2>2. CASE Becomes(web.sub, u, <<"updated">>) /\ web' = [web EXCEPT !.at = "mark"]
    <3>1. stripe'[s] = IF s = web.sub THEN u ELSE stripe[s]
      BY <2>2 DEF Becomes
    <3>2. u.sched = web.plan
      BY <2>1 DEF StripeSub
    <3>3. web'.at = "mark" /\ web'.sub = web.sub /\ web'.plan = web.plan
      BY <2>2 DEF WebOK, Web
    <3> QED
      BY <1>10, <3>1, <3>2, <3>3
  <2> QED
    BY <1>10, <1>q, <2>2 DEF Schedule
<1>11. CASE ClearMarkers \/ ChargeFails \/ StoreUpgrade \/ StoreDowngrade
  BY <1>11, <1>q DEF ClearMarkers, ChargeFails, StoreUpgrade, StoreDowngrade, Rest, stripeVars
<1>12. CASE RecStart \/ RecStep \/ DunStart \/ DunStep
  BY <1>12, <1>q DEF RecStart, RecStep, RecWrite, RecUser, RecBust, RecEnd, Compare, DunStart, DunStep,
                     DunUser, DunBust, DunCancel, stripeVars
<1>13. CASE Breaks
  BY <1>13, <1>q DEF Breaks, HandlerBreaks, RequestBreaks, ReleaseFails, RecBreaks, DunBreaks,
                     FetchFails, stripeVars
<1>14. CASE UNCHANGED vars
  BY <1>14, <1>q DEF vars
<1> QED
  BY <1>1, <1>2, <1>3, <1>4, <1>5, <1>6, <1>7, <1>8, <1>9, <1>10, <1>11, <1>12, <1>13, <1>14
     DEF Next, Stripe, WebStep, RequestStep

(* How a plan change gets to its next step.                                *)
Same(at) == web.at = at /\ web'.at = at /\ web'.sub = web.sub /\ web'.plan = web.plan
LEMMA ChangeSteps ==
    ASSUME TypeInv, HandlerOK, [Next]_vars
    PROVE  /\ web'.at = "mark" => Same("mark") \/ Schedule
           /\ web'.at = "clear" => Same("clear") \/ Release \/ ReleaseFails
           /\ web'.at = "charge" => Same("charge") \/ Request \/ ClearMarkers
           /\ web'.at = "schedule" => Same("schedule") \/ Request \/ ClearMarkers
           /\ web'.at = "store" => Same("store") \/ Charge
           /\ web.at = "mark" => Same("mark") \/ StoreDowngrade \/ RequestBreaks
           /\ web'.event # NoEvent /\ web'.at \in {"check", "user", "bust"} =>
                \/ web.at \in {"check", "user", "bust"} /\ web'.event = web.event
                \/ HandleCheckout \/ HandleUpdated \/ HandleDeleted
<1> USE DEF TypeInv, WebOK, Web
<1> DEFINE Goal ==
      /\ web'.at = "mark" => Same("mark") \/ Schedule
      /\ web'.at = "clear" => Same("clear") \/ Release \/ ReleaseFails
      /\ web'.at = "charge" => Same("charge") \/ Request \/ ClearMarkers
      /\ web'.at = "schedule" => Same("schedule") \/ Request \/ ClearMarkers
      /\ web'.at = "store" => Same("store") \/ Charge
      /\ web.at = "mark" => Same("mark") \/ StoreDowngrade \/ RequestBreaks
      /\ web'.event # NoEvent /\ web'.at \in {"check", "user", "bust"} =>
           \/ web.at \in {"check", "user", "bust"} /\ web'.event = web.event
           \/ HandleCheckout \/ HandleUpdated \/ HandleDeleted
<1> SUFFICES Goal
  OBVIOUS
<1>q. ASSUME web' = web PROVE Goal
  BY <1>q DEF Same
<1>i. ASSUME web' = Idle, web.at # "mark" \/ StoreDowngrade \/ RequestBreaks PROVE Goal
  BY <1>i DEF Idle
<1>e. ASSUME web.at \notin {"mark"}, web'.event = NoEvent,
             web'.at \notin {"mark", "clear", "charge", "schedule", "store"}
      PROVE  Goal
  BY <1>e
<1>1. CASE Stripe \/ FillRead \/ FillStore \/ CacheExpires \/ RecStart \/ RecStep \/ DunStart \/ DunStep
  BY <1>1, <1>q DEF Stripe, OpenCheckout, CompleteCheckout, StripeChange, GracePasses, Lose,
                    FillRead, FillStore, CacheExpires, RecStart, RecStep, RecWrite, RecUser, RecBust, RecEnd,
                    Compare, DunStart, DunStep, DunUser, DunBust, DunCancel
<1>2. ASSUME NEW e \in inbox, Deliver(e) PROVE Goal
  <2>1. web.at = "idle" /\ web'.at = "row"
    BY <1>2 DEF Deliver, Idle
  <2> QED
    BY <2>1
<1>3. CASE HandleCheckout
  <2>1. web.at = "row" /\ web'.at = "user"
    BY <1>3 DEF HandleCheckout, Handles
  <2> QED
    BY <1>3, <2>1
<1>4. CASE HandleUpdated
  <2>1. web.at = "row" /\ web'.at = "user"
    BY <1>4 DEF HandleUpdated, Handles
  <2> QED
    BY <1>4, <2>1
<1>5. CASE HandleDeleted
  <2>1. web.at = "row" /\ web'.at \in {"check", "idle"}
    BY <1>5 DEF HandleDeleted, Handles, Idle
  <2> QED
    BY <1>5, <2>1
<1>6. CASE CheckOthers
  <2>1. CASE web' = [web EXCEPT !.at = "user", !.plan = "free"]
    <3>1. web.at = "check" /\ web'.at = "user" /\ web'.event = web.event
      BY <1>6, <2>1 DEF CheckOthers
    <3> QED
      BY <3>1
  <2> QED
    BY <1>6, <1>i, <2>1 DEF CheckOthers
<1>7. CASE HandlePaid \/ HandleFailed \/ HandleReleased \/ WebBust
  BY <1>7, <1>i DEF HandlePaid, HandleFailed, HandleReleased, WebBust, Handles
<1>22. CASE WriteUser
  <2>1. web.at = "user" /\ web'.at = "bust" /\ web'.event = web.event
    BY <1>22 DEF WriteUser
  <2> QED
    BY <2>1
<1>8. CASE Request
  <2>1. web = Idle /\ web'.event = NoEvent /\ web'.at \in {"release", "charge", "schedule", "idle"}
    <3>1. PICK s \in Subs, p \in Plans, d \in {"charge", "schedule", "idle"} : Ask(s, p, d)
      BY <1>8 DEF Request, AskUpgrade, AskDowngrade, AskCancel
    <3> QED
      BY <3>1 DEF Ask, Idle
  <2> QED
    BY <1>8, <2>1 DEF Idle
<1>9. CASE Release \/ ReleaseFails
  <2>0. web.at = "release" /\ web.event = NoEvent
    BY <1>9 DEF Release, ReleaseFails, HandlerOK
  <2>1. CASE web' = [web EXCEPT !.at = "clear"]
    <3>1. web'.at = "clear" /\ web'.event = NoEvent
      BY <2>0, <2>1
    <3> QED
      BY <1>9, <2>0, <3>1
  <2> QED
    BY <1>9, <1>i, <2>0, <2>1 DEF Release, ReleaseFails
<1>10. CASE ClearMarkers
  <2>0. web.at = "clear" /\ web.event = NoEvent
    BY <1>10 DEF ClearMarkers, HandlerOK
  <2>1. CASE web.then # "idle" /\ web' = [web EXCEPT !.at = web.then]
    <3>1. web'.at \in {"charge", "schedule"} /\ web'.event = NoEvent
      BY <2>0, <2>1
    <3> QED
      BY <1>10, <2>0, <3>1
  <2> QED
    BY <1>10, <1>i, <2>0, <2>1 DEF ClearMarkers
<1>11. CASE Charge
  <2>1. web.at = "charge" /\ web'.at = "store" /\ web'.event = NoEvent
    BY <1>11 DEF Charge, HandlerOK
  <2> QED
    BY <1>11, <2>1
<1>12. CASE Schedule
  <2>0. web.at = "schedule" /\ web.event = NoEvent
    BY <1>12 DEF Schedule, HandlerOK
  <2>1. CASE web' = [web EXCEPT !.at = "mark"]
    <3>1. web'.at = "mark" /\ web'.event = NoEvent
      BY <2>0, <2>1
    <3> QED
      BY <1>12, <2>0, <3>1
  <2> QED
    BY <1>12, <1>i, <2>0, <2>1 DEF Schedule
<1>13. CASE ChargeFails
  BY <1>13, <1>i DEF ChargeFails, Refused
<1>14. CASE StoreUpgrade
  <2>1. web.at = "store" /\ web'.at = "user" /\ web'.event = NoEvent
    BY <1>14 DEF StoreUpgrade, HandlerOK
  <2> QED
    BY <2>1, <1>e
<1>15. CASE StoreDowngrade
  BY <1>15, <1>i DEF StoreDowngrade
<1>16. CASE HandlerBreaks
  BY <1>16, <1>i DEF HandlerBreaks, HandlerOK
<1>17. CASE RequestBreaks
  BY <1>17, <1>i DEF RequestBreaks
<1>18. CASE RecBreaks \/ DunBreaks \/ \E s \in Subs : FetchFails(s)
  BY <1>18, <1>q DEF RecBreaks, DunBreaks, FetchFails
<1>19. CASE UNCHANGED vars
  BY <1>19, <1>q DEF vars
<1> HIDE DEF Goal, TypeInv, WebOK, Web
<1>20. CASE WebStep
  BY <1>3, <1>4, <1>5, <1>6, <1>7, <1>9, <1>10, <1>11, <1>12, <1>13, <1>14, <1>15, <1>20,
     <1>22 DEF WebStep, HandlerStep, RequestStep
<1>21. CASE Breaks
  BY <1>9, <1>16, <1>17, <1>18, <1>21 DEF Breaks
<1> QED
  BY <1>1, <1>2, <1>8, <1>19, <1>20, <1>21 DEF Next

LEMMA MovesFinal ==
    ASSUME TypeInv, EventInv, NEW s \in Subs, NEW t \in StripeSub, NEW N \in SUBSET Event, Moves(N, s, t)
    PROVE  /\ \E l \in N : /\ Final(l)' /\ l.sub = s
                           /\ l.type = "checkout" => stripe[s].status = "absent" /\ t.sched = None
                           /\ \A e \in N : e.at <= l.at
                           /\ \A e \in N : e.type = "released" => l.type = "updated"
           /\ \A r \in Subs \ {s} : \A e \in Unanswered : e.sub = r /\ Final(e) => Final(e)'
           /\ \A e \in Unanswered, f \in N : e.at < f.at
           /\ Unanswered' = Unanswered \cup N /\ N \subseteq inbox' /\ inbox \subseteq inbox'
           /\ stripe'[s] = t /\ \A r \in Subs \ {s} : stripe'[r] = stripe[r]
           /\ \A e \in N : e.sub = s /\ e.at \in Nat
<1> USE DEF TypeInv, StripeOK
<1>1. /\ Unanswered' = Unanswered \cup N /\ N \subseteq inbox' /\ inbox \subseteq inbox'
      /\ stripe'[s] = t /\ \A r \in Subs \ {s} : stripe'[r] = stripe[r]
  BY DEF Moves, Unanswered
<1>2. /\ \A e \in Unanswered : e.at \in Nat /\ e.at <= 2 * changes
      /\ \A e \in N : e.at \in Nat /\ e.at > 2 * changes /\ e.sub = s
  BY UnansweredType DEF Event, EventInv, Dated, Moves, Told
<1>3. \A e \in Unanswered, f \in N : e.at < f.at
  BY <1>2
<1>4. PICK l \in N : /\ \A e \in N : e.at <= l.at
                     /\ Tells(l, t)
                     /\ l.type = "checkout" => stripe[s].status = "absent" /\ t.sched = None
                     /\ \A e \in N : e.type = "released" => l.type = "updated"
  BY DEF Moves, Told
<1>5. \A f \in Unanswered' : f.at <= l.at
  BY <1>1, <1>2, <1>3, <1>4
<1>6. Final(l)'
  BY <1>1, <1>2, <1>4, <1>5 DEF Final, Tells
<1>7. ASSUME NEW r \in Subs \ {s}, NEW e \in Unanswered, e.sub = r, Final(e) PROVE Final(e)'
  <2>1. Tells(e, stripe[r]) /\ \A f \in Unanswered : f.sub = e.sub => f.at <= e.at
    BY <1>7 DEF Final
  <2>2. \A f \in Unanswered' : f.sub = e.sub => f.at <= e.at
    BY <1>1, <1>2, <1>7, <2>1
  <2>3. Tells(e, stripe'[r])
    BY <1>1, <2>1
  <2> QED
    BY <1>7, <2>2, <2>3 DEF Final, Tells
<1> QED
  BY <1>1, <1>2, <1>3, <1>4, <1>6, <1>7

LEMMA MarkKnown ==
    ASSUME TypeInv, EventInv, ChangeOK, web.at = "mark"
    PROVE  stripe[web.sub].status # "absent"
<1>1. PICK e \in inbox : e.sub = web.sub
  BY DEF ChangeOK
<1>2. e \in Unanswered
  BY <1>1, UnansweredType
<1> QED
  BY <1>1, <1>2 DEF EventInv, Dated

LEMMA DowngradeRow ==
    ASSUME TypeInv, StoreDowngrade
    PROVE  /\ web.at = "mark" /\ web.sub \in Subs /\ row'[web.sub].pending = web.plan
           /\ \A s \in Subs \ {web.sub} : row'[s] = row[s]
           /\ UNCHANGED <<stripe, inbox>> /\ web' = Idle
BY DEF TypeInv, StoreDowngrade, WebOK, RowOK, Row, Rest, stripeVars

LEMMA UnmarkedNext ==
    ASSUME TypeInv, EventInv, EventStep, ChangeOK, UnmarkedOK, [Next]_vars
    PROVE  UnmarkedOK'
<1> USE DEF TypeInv, StripeOK
<1>1. \A s \in Subs : stripe'[s].status = "absent" => stripe[s].status = "absent"
  <2>1. CASE stripe' = stripe
    BY <2>1
  <2>2. CASE \E s \in Subs, t \in StripeSub, N \in SUBSET Event : Moves(N, s, t)
    BY <2>2 DEF Moves
  <2> QED
    BY <2>1, <2>2 DEF EventStep, Settles, Answers
<1>2. CASE \A s \in Subs : row'[s].pending \in {row[s].pending, None}
  BY <1>1, <1>2 DEF UnmarkedOK
<1>3. CASE StoreDowngrade
  BY <1>1, <1>3, DowngradeRow, MarkKnown DEF UnmarkedOK
<1> QED
  BY <1>2, <1>3, PendingNext

LEMMA HandledNext ==
    ASSUME TypeInv, HandlerOK, HandledOK, [Next]_vars
    PROVE  HandledOK'
<1> SUFFICES ASSUME web'.event # NoEvent, web'.at \in {"check", "user", "bust"} PROVE web'.event.type # "released"
  BY DEF HandledOK
<1>1. \/ web.at \in {"check", "user", "bust"} /\ web'.event = web.event
      \/ HandleCheckout \/ HandleUpdated \/ HandleDeleted
  BY ChangeSteps
<1>2. CASE web.at \in {"check", "user", "bust"} /\ web'.event = web.event
  BY <1>2 DEF HandledOK
<1>3. CASE HandleCheckout
  BY <1>3 DEF HandleCheckout, Handles, TypeInv, WebOK, Web
<1>4. CASE HandleUpdated
  BY <1>4 DEF HandleUpdated, Handles, TypeInv, WebOK, Web
<1>5. CASE HandleDeleted
  BY <1>5 DEF HandleDeleted, Handles, TypeInv, WebOK, Web, Idle
<1> QED
  BY <1>1, <1>2, <1>3, <1>4, <1>5

LEMMA ChangeNext ==
    ASSUME TypeInv, HandlerOK, HandlerOK', EventInv, EventStep, ChangeOK,
           "unreleased" \notin causes', [Next]_vars
    PROVE  ChangeOK'
<1> USE DEF TypeInv, StripeOK
<1>0. \A at \in {"mark", "clear", "charge", "schedule", "store"} :
         Same(at) => web.sub \in Subs /\ web.event = NoEvent /\ web'.event = NoEvent
  BY DEF Same, WebOK, HandlerOK
<1>1. ASSUME web'.at = "mark"
      PROVE  /\ stripe'[web'.sub].sched \in {None, web'.plan}
             /\ \E e \in inbox' : e.sub = web'.sub /\ Final(e)' /\ e.type # "checkout"
  <2>1. CASE Same("mark")
    <3> DEFINE s == web.sub
    <3>1. /\ web.at = "mark" /\ web'.sub = s /\ web'.plan = web.plan /\ s \in Subs
          /\ web.event = NoEvent /\ web'.event = NoEvent
      BY <1>0, <2>1 DEF Same
    <3>2. stripe'[s].sched \in {None, web.plan}
      <4>1. ~Schedule
        BY <3>1 DEF Schedule
      <4>2. stripe'[s].sched \in {None, stripe[s].sched}
        BY <3>1, <4>1, SchedNext DEF EventInv
      <4> QED
        BY <3>1, <4>2 DEF ChangeOK
    <3>3. PICK e \in inbox : e.sub = s /\ Final(e) /\ e.type # "checkout"
      BY <3>1 DEF ChangeOK
    <3>4. stripe[s].status # "absent"
      BY <3>1, MarkKnown
    <3>5. \E f \in inbox' : f.sub = s /\ Final(f)' /\ f.type # "checkout"
      <4>1. CASE Settles
        <5>1. inbox' = inbox /\ Unanswered' = Unanswered /\ stripe' = stripe
          BY <3>1, <4>1 DEF Settles, Unanswered
        <5> QED
          BY <3>3, <5>1 DEF Final, Tells
      <4>2. CASE Answers
        BY <3>1, <4>2 DEF Answers
      <4>3. ASSUME NEW r \in Subs, NEW t \in StripeSub, NEW N \in SUBSET Event, Moves(N, r, t)
            PROVE  \E f \in inbox' : f.sub = s /\ Final(f)' /\ f.type # "checkout"
        <5>1. CASE r = s
          BY <3>4, <4>3, <5>1, MovesFinal
        <5>2. CASE r # s
          <6>1. e \in Unanswered
            BY UnansweredType
          <6>2. Final(e)' /\ e \in inbox'
            BY <3>1, <3>3, <4>3, <5>2, <6>1, MovesFinal
          <6> QED
            BY <3>3, <6>2
        <5> QED
          BY <5>1, <5>2
      <4> QED
        BY <4>1, <4>2, <4>3 DEF EventStep
    <3> QED
      BY <3>1, <3>2, <3>5
  <2>2. CASE Schedule
    <3> DEFINE s == web.sub
    <3>1. /\ web'.at = "mark" /\ web'.sub = s /\ web'.plan = web.plan /\ s \in Subs
          /\ Live(stripe[s]) /\ stripe[s].sched = None /\ changes' = changes + 1
          /\ stripe'[s].sched = web.plan /\ web.plan # None
      BY <1>1, <2>2 DEF Schedule, Becomes, WebOK, Web, StripeSub, Idle
    <3>2. changes' # changes
      BY <3>1
    <3>3. PICK r \in Subs, t \in StripeSub, N \in SUBSET Event : Moves(N, r, t)
      BY <3>2 DEF EventStep, Settles, Answers
    <3>4. r = s
      BY <3>1, <3>3, MovesFinal
    <3>5. \E f \in inbox' : f.sub = s /\ Final(f)' /\ f.type # "checkout"
      BY <3>1, <3>3, <3>4, MovesFinal DEF Live
    <3> QED
      BY <3>1, <3>5
  <2> QED
    BY <1>1, <2>1, <2>2, ChangeSteps
<1>2. ASSUME web'.at = "clear"
      PROVE  ~Live(stripe'[web'.sub]) \/ stripe'[web'.sub].sched = None
  <2>1. CASE Same("clear")
    <3> DEFINE s == web.sub
    <3>1. web.at = "clear" /\ web'.sub = s /\ s \in Subs
      BY <1>0, <2>1 DEF Same
    <3>2. ~Schedule
      BY <3>1 DEF Schedule
    <3>3. /\ stripe'[s].sched \in {None, stripe[s].sched}
          /\ Live(stripe'[s]) /\ ~Live(stripe[s]) => stripe'[s].sched = None
      BY <3>1, <3>2, SchedNext DEF EventInv
    <3> QED
      BY <3>1, <3>3 DEF ChangeOK
  <2>2. CASE Release
    <3> DEFINE s == web.sub
    <3>1. web'.sub = s /\ s \in Subs /\ stripe[s] \in StripeSub
      BY <1>2, <2>2 DEF Release, WebOK, Web, Idle
    <3>2. CASE Becomes(s, [stripe[s] EXCEPT !.sched = None], <<"released", "updated">>)
      BY <3>1, <3>2 DEF Becomes, StripeSub
    <3>3. CASE stripe' = stripe /\ (~Live(stripe[s]) \/ stripe[s].sched = None)
      BY <3>1, <3>3
    <3> QED
      BY <2>2, <3>2, <3>3 DEF Release
  <2>3. CASE ReleaseFails
    BY <2>3 DEF ReleaseFails, Blame
  <2> QED
    BY <1>2, <2>1, <2>2, <2>3, ChangeSteps
<1>3. ASSUME web'.at \in {"charge", "schedule", "store", "mark"}
      PROVE  row'[web'.sub].pending = None
  <2>1. CASE Same(web'.at)
    <3>1. web.sub \in Subs /\ web'.sub = web.sub /\ web.at = web'.at /\ row[web.sub].pending = None
      BY <1>0, <1>3, <2>1 DEF Same, ChangeOK
    <3>2. ~StoreDowngrade
      BY <1>3 DEF StoreDowngrade, Idle
    <3>3. row'[web.sub].pending \in {row[web.sub].pending, None}
      BY <3>1, <3>2, PendingNext
    <3> QED
      BY <3>1, <3>3
  <2>2. CASE Request
    <3>1. PICK s \in Subs, p \in Plans, d \in {"charge", "schedule", "idle"} : Ask(s, p, d)
      BY <2>2 DEF Request, AskUpgrade, AskDowngrade, AskCancel
    <3>2. web'.sub = s /\ row' = row /\ row[s].pending = None
      BY <1>3, <3>1 DEF Ask, Idle
    <3> QED
      BY <3>2
  <2>3. CASE ClearMarkers
    <3>1. web'.sub = web.sub /\ web.sub \in Subs /\ row' = [row EXCEPT ![web.sub].pending = None]
      BY <1>3, <2>3 DEF ClearMarkers, WebOK, Web, Idle
    <3> QED
      BY <3>1 DEF RowOK, Row
  <2>4. CASE Charge
    <3>1. web'.sub = web.sub /\ row' = row
      BY <2>4 DEF Charge, WebOK, Web
    <3> QED
      BY <2>4, <3>1 DEF ChangeOK, Charge
  <2>5. CASE Schedule
    <3>1. web'.sub = web.sub /\ row' = row
      BY <1>3, <2>5 DEF Schedule, WebOK, Web, Idle
    <3> QED
      BY <2>5, <3>1 DEF ChangeOK, Schedule
  <2> QED
    BY <1>3, <2>1, <2>2, <2>3, <2>4, <2>5, ChangeSteps
<1> QED
  BY <1>1, <1>2, <1>3 DEF ChangeOK

LEMMA CheckoutsNext ==
    ASSUME TypeInv, EventInv, EventStep, ChangeOK, UnmarkedOK, CheckoutsOK, [Next]_vars
    PROVE  CheckoutsOK'
<1> USE DEF TypeInv, StripeOK
<1> SUFFICES ASSUME NEW e \in Unanswered', e.type = "checkout",
                    \A f \in Unanswered' : f.sub = e.sub => f.at <= e.at
             PROVE  row'[e.sub].pending = None
  BY DEF CheckoutsOK
<1>0. \A f \in Unanswered : f \in Event /\ f.sub \in Subs /\ f.at \in Nat
  BY UnansweredType DEF Event
<1>1. \/ e \in Unanswered /\ \A f \in Unanswered : f.sub = e.sub => f.at <= e.at
      \/ stripe[e.sub].status = "absent" /\ e.sub \in Subs /\ ~StoreDowngrade
  <2>1. CASE Settles
    BY <2>1 DEF Settles
  <2>2. CASE Answers
    <3>1. e \in inbox /\ Unanswered' = inbox /\ Unanswered = inbox \cup {web.event} /\ web.event.at < e.at
      BY <2>2 DEF Answers, Unanswered, EventInv, Dated
    <3> QED
      BY <1>0, <3>1
  <2>3. ASSUME NEW s \in Subs, NEW t \in StripeSub, NEW N \in SUBSET Event, Moves(N, s, t)
        PROVE  \/ e \in Unanswered /\ \A f \in Unanswered : f.sub = e.sub => f.at <= e.at
               \/ stripe[e.sub].status = "absent" /\ e.sub \in Subs /\ ~StoreDowngrade
    <3>1. Unanswered' = Unanswered \cup N /\ \A f \in N : f.sub = s /\ f.at \in Nat
      BY <2>3, MovesFinal
    <3>2. CASE e \in Unanswered
      BY <3>1, <3>2
    <3>3. CASE e \in N
      <4>1. PICK l \in N : /\ l.sub = s /\ \A f \in N : f.at <= l.at
                           /\ l.type = "checkout" => stripe[s].status = "absent"
        BY <2>3, MovesFinal
      <4>2. l.at = e.at
        BY <3>1, <3>3, <4>1
      <4>3. l = e
        BY <2>3, <3>3, <4>2 DEF Moves, Told
      <4>4. changes' # changes
        BY <2>3 DEF Moves
      <4>5. ~StoreDowngrade
        BY <4>4 DEF StoreDowngrade, Rest, stripeVars
      <4> QED
        BY <3>1, <3>3, <4>1, <4>3, <4>5
    <3> QED
      BY <3>1, <3>2, <3>3
  <2> QED
    BY <2>1, <2>2, <2>3 DEF EventStep
<1>2. e.sub \in Subs /\ row[e.sub].pending = None
  BY <1>0, <1>1 DEF CheckoutsOK, UnmarkedOK
<1>3. CASE \A s \in Subs : row'[s].pending \in {row[s].pending, None}
  BY <1>2, <1>3
<1>4. CASE StoreDowngrade
  <2>1. e \in Unanswered /\ \A f \in Unanswered : f.sub = e.sub => f.at <= e.at
    BY <1>1, <1>4
  <2>2. e.sub # web.sub
    <3>1. PICK f \in inbox : f.sub = web.sub /\ Final(f) /\ f.type # "checkout"
      BY <1>4, DowngradeRow DEF ChangeOK
    <3>2. f \in Unanswered
      BY UnansweredType
    <3>3. ASSUME e.sub = web.sub PROVE FALSE
      <4>1. e.at <= f.at /\ f.at <= e.at
        BY <2>1, <3>1, <3>2, <3>3 DEF Final
      <4>2. e.at = f.at
        BY <1>0, <2>1, <3>2, <4>1
      <4> QED
        BY <2>1, <3>1, <3>2, <4>2 DEF EventInv, Dated
    <3> QED
      BY <3>3
  <2> QED
    BY <1>2, <1>4, <2>2, DowngradeRow
<1> QED
  BY <1>3, <1>4, PendingNext

(* The end of a handler takes its event, the oldest, from those that wait. *)
HandlerEnds ==
    HandleCheckout \/ HandleUpdated \/ HandleDeleted \/ HandlePaid \/ HandleFailed \/ HandleReleased
LEMMA HandlerEnd ==
    ASSUME TypeInv, EventInv, HandlerEnds
    PROVE  /\ web.event # NoEvent /\ web.event \in Event /\ web.event.sub = web.sub /\ web.sub \in Subs
           /\ Waiting = inbox \cup {web.event} /\ Waiting = Unanswered /\ Waiting' = inbox
           /\ \A f \in inbox : web.event.at < f.at /\ web.event.at \in Nat /\ f.at \in Nat
           /\ UNCHANGED <<stripe, inbox>> /\ web.at = "row"
<1> USE DEF TypeInv
<1>1. /\ web.at = "row" /\ web.event # NoEvent /\ web.event \in Event /\ web.event.sub = web.sub
      /\ web.sub \in Subs /\ UNCHANGED <<stripe, inbox>>
  BY DEF HandlerEnds, HandleCheckout, HandleUpdated, HandleDeleted, HandlePaid, HandleFailed,
         HandleReleased, Handles, WebOK, Web, Rest, stripeVars
<1>2. web'.at # "row"
  <2>1. CASE HandleCheckout
    BY <2>1 DEF HandleCheckout, WebOK, Web
  <2>2. CASE HandleUpdated
    BY <2>2 DEF HandleUpdated, WebOK, Web
  <2>3. CASE HandleDeleted
    BY <2>3 DEF HandleDeleted, Idle, WebOK, Web
  <2>4. CASE HandlePaid \/ HandleFailed \/ HandleReleased
    BY <2>4 DEF HandlePaid, HandleFailed, HandleReleased, Idle
  <2> QED
    BY <2>1, <2>2, <2>3, <2>4 DEF HandlerEnds
<1>3. Waiting = inbox \cup {web.event} /\ Waiting = Unanswered /\ Waiting' = inbox
  BY <1>1, <1>2 DEF Waiting, Unanswered
<1>4. \A f \in inbox : web.event.at < f.at /\ web.event.at \in Nat /\ f.at \in Nat
  BY <1>1 DEF EventInv, Dated, StripeOK, Event
<1> QED
  BY <1>1, <1>3, <1>4

LEMMA WritesKeepWaiting ==
    ASSUME StoreUpgrade \/ RecWrite \/ \E s \in Subs : DunCancel(s)
    PROVE  Waiting' = Waiting
<1>1. CASE StoreUpgrade
  <2>1. web.at # "row" /\ web'.at # "row" /\ inbox' = inbox
    BY <1>1 DEF StoreUpgrade, Rest
  <2> QED
    BY <2>1 DEF Waiting
<1>2. CASE RecWrite \/ \E s \in Subs : DunCancel(s)
  BY <1>2 DEF RecWrite, DunCancel, Waiting
<1> QED
  BY <1>1, <1>2

LEMMA ReleasesNext ==
    ASSUME TypeInv, TypeInv', HandlerOK, EventInv, EventStep, ReleasesOK, HandledOK,
           "lost" \notin causes', [Next]_vars
    PROVE  ReleasesOK'
<1> SUFFICES ASSUME NEW e \in Waiting', e.type = "released"
             PROVE  \E f \in Waiting' : f.sub = e.sub /\ f.type = "updated" /\ f.at > e.at /\ f.sched = None
  BY DEF ReleasesOK, Follows
<1>1. CASE Steady
  <2>1. CASE e \in Waiting
    BY <1>1, <2>1 DEF ReleasesOK, Follows, Steady
  <2>2. CASE e \notin Waiting
    <3>1. e \in Unanswered'
      BY DEF TypeInv, WebOK, Waiting, Unanswered
    <3>2. e \notin Unanswered
      <4>1. ASSUME e \in Unanswered PROVE FALSE
        <5>1. e = web.event /\ web.event # NoEvent /\ web.at # "row"
          BY <2>2, <4>1 DEF Unanswered, Waiting
        <5> QED
          BY <5>1 DEF HandledOK, HandlerOK
      <4> QED
        BY <4>1
    <3>3. ~Settles
      BY <3>1, <3>2 DEF Settles
    <3>4. ~Answers
      BY <3>1, <3>2 DEF Answers, Unanswered
    <3>5. PICK s \in Subs, t \in StripeSub, N \in SUBSET Event : Moves(N, s, t)
      BY <3>3, <3>4 DEF EventStep
    <3>6. e \in N
      BY <3>1, <3>2, <3>5, MovesFinal
    <3>7. PICK l \in N : /\ l.sub = s /\ \A f \in N : f.at <= l.at
                         /\ l.type = "updated"
      BY <3>5, <3>6, MovesFinal
    <3>8. l.sched = None
      BY <3>5, <3>6 DEF Moves, Told
    <3>9. e.at < l.at
      <4>1. e.at <= l.at /\ e.at # l.at
        BY <3>5, <3>6, <3>7 DEF Moves, Told
      <4> QED
        BY <4>1, <3>5, <3>6, MovesFinal
    <3>10. l \in Waiting' /\ l.sub = e.sub
      BY <3>5, <3>6, MovesFinal DEF Waiting
    <3>11. l.at > e.at
      BY <3>5, <3>6, <3>9, MovesFinal
    <3> QED
      BY <3>7, <3>8, <3>10, <3>11
  <2> QED
    BY <2>1, <2>2
<1>2. CASE HandlerEnds
  <2>1. e \in inbox /\ e \in Waiting
    BY <1>2, HandlerEnd
  <2>2. PICK f \in Waiting : f.sub = e.sub /\ f.type = "updated" /\ f.at > e.at /\ f.sched = None
    BY <2>1 DEF ReleasesOK, Follows
  <2>3. f # web.event
    BY <1>2, <2>1, <2>2, HandlerEnd
  <2> QED
    BY <1>2, <2>2, <2>3, HandlerEnd
<1>3. CASE StoreUpgrade \/ RecWrite \/ \E s \in Subs : DunCancel(s)
  <2>1. Waiting' = Waiting
    BY <1>3, WritesKeepWaiting
  <2> QED
    BY <2>1 DEF ReleasesOK, Follows
<1> QED
  BY <1>1, <1>2, <1>3, SteadyOrWrite DEF RowWrite, HandlerEnds

(* The marker of a live subscription, step by step: one that changes at    *)
(* Stripe, one whose event is handled, and one whose row is written.       *)
LEMMA MarkerSteady ==
    ASSUME TypeInv, HandlerOK, EventInv, EventStep, MarkersOK, ChangeOK, "broken" \notin causes',
           Waiting \subseteq Waiting', ~MarkerWrite, [Next]_vars
    PROVE  MarkersOK'
<1> SUFFICES ASSUME NEW s \in Subs, Live(stripe'[s]) PROVE MarkerOf(s)'
  BY DEF MarkersOK
<1>1. row'[s].pending = row[s].pending
  BY PendingStays
<1>2. web.at = "mark" => web'.at = "mark" /\ web'.sub = web.sub
  BY ChangeSteps DEF Same, MarkerWrite, RequestBreaks, Breaking
<1>3. \/ stripe'[s] = stripe[s]
      \/ \E e \in Waiting' : e.sub = s
  <2>1. CASE stripe' = stripe
    BY <2>1
  <2>2. ASSUME NEW r \in Subs, NEW t \in StripeSub, NEW N \in SUBSET Event, Moves(N, r, t)
        PROVE  \/ stripe'[s] = stripe[s]
               \/ \E e \in Waiting' : e.sub = s
    BY <2>2, MovesFinal DEF Waiting
  <2> QED
    BY <2>1, <2>2 DEF EventStep, Settles, Answers
<1>4. CASE Schedule /\ s = web.sub /\ web'.at = "mark" /\ web'.sub = s
  <2>1. row[s].pending = None
    BY <1>4 DEF ChangeOK, Schedule
  <2> QED
    BY <1>1, <1>4, <2>1 DEF MarkerOf
<1>5. CASE stripe'[s] = stripe[s]
  <2>1. MarkerOf(s)
    BY <1>5 DEF MarkersOK
  <2> QED
    BY <1>1, <1>2, <1>5, <2>1 DEF MarkerOf
<1>6. CASE stripe'[s].sched = None /\ \E e \in Waiting' : e.sub = s
  BY <1>6 DEF MarkerOf
<1>7. CASE stripe'[s].sched # None /\ stripe'[s].sched = stripe[s].sched /\ Live(stripe[s])
  <2>1. MarkerOf(s)
    BY <1>7 DEF MarkersOK
  <2> QED
    BY <1>1, <1>2, <1>7, <2>1 DEF MarkerOf
<1> QED
  BY <1>3, <1>4, <1>5, <1>6, <1>7, SchedNext DEF EventInv

LEMMA MarkerHandled ==
    ASSUME TypeInv, EventInv, MarkersOK, ReleasesOK, CheckoutsOK, HandlerEnds,
           "delayed" \notin causes'
    PROVE  MarkersOK'
<1> DEFINE w == web.event
<1> USE DEF TypeInv
<1> SUFFICES ASSUME NEW s \in Subs, Live(stripe'[s]) PROVE MarkerOf(s)'
  BY DEF MarkersOK
<1>1. /\ w \in Event /\ w.sub = web.sub /\ web.sub \in Subs /\ w \in Unanswered
      /\ Waiting = inbox \cup {w} /\ Waiting = Unanswered /\ Waiting' = inbox
      /\ \A f \in inbox : w.at < f.at /\ w.at \in Nat /\ f.at \in Nat
      /\ stripe' = stripe /\ web.at = "row" /\ inbox' = inbox
  BY HandlerEnd
<1>2. Live(stripe[s]) /\ MarkerOf(s)
  BY <1>1 DEF MarkersOK
<1>3. CASE s # web.sub
  <2>1. row'[s] = row[s]
    BY <1>1, <1>3 DEF HandlerEnds, HandleCheckout, HandleUpdated, HandleDeleted, HandlePaid,
                      HandleFailed, HandleReleased, RowOK
  <2>2. /\ \A e \in Waiting : e.sub = s => e \in Waiting'
        /\ web.at # "mark"
    BY <1>1, <1>3
  <2> QED
    BY <1>1, <1>2, <2>1, <2>2 DEF MarkerOf
<1>4. CASE s = web.sub /\ HandleCheckout
  <2>1. row'[s].pending = row[s].pending /\ w.type = "checkout"
    BY <1>4 DEF HandleCheckout, Handles, RowOK, Row
  <2>2. CASE row[s].pending = stripe[s].sched
    BY <1>1, <2>1, <2>2 DEF MarkerOf
  <2>3. CASE stripe[s].sched = None
    <3>1. CASE \E e \in inbox : e.sub = s
      BY <1>1, <2>3, <3>1 DEF MarkerOf
    <3>2. CASE \A e \in inbox : e.sub # s
      <4>1. \A f \in Unanswered : f.sub = w.sub => f.at <= w.at
        BY <1>1, <1>4, <3>2 DEF Event
      <4>2. row[s].pending = None
        BY <1>1, <1>4, <2>1, <4>1 DEF CheckoutsOK
      <4> QED
        BY <1>1, <2>1, <2>3, <4>2 DEF MarkerOf
    <3> QED
      BY <3>1, <3>2
  <2>4. CASE row[s].pending = None /\ \E e \in Waiting : e.sub = s /\ e.type = "updated" /\ e.sched # stripe[s].sched
    BY <1>1, <2>1, <2>4 DEF MarkerOf
  <2> QED
    BY <1>1, <1>2, <2>2, <2>3, <2>4 DEF MarkerOf
<1>5. CASE s = web.sub /\ HandleUpdated
  <2>1. /\ row'[s].pending = IF ScheduleFired(row[s], w) THEN None ELSE row[s].pending
        /\ w.sched = stripe[s].sched /\ w.type = "updated"
    <3>1. row'[s] = Mirrored(row[s], w)
      BY <1>5 DEF HandleUpdated, RowOK
    <3>2. row[s] \in Row
      BY DEF RowOK
    <3>3. row'[s].pending = IF ScheduleFired(row[s], w) THEN None ELSE row[s].pending
      BY <3>1, <3>2 DEF Mirrored, Row
    <3>4. w.sched = stripe[s].sched /\ w.type = "updated"
      BY <1>5 DEF HandleUpdated, Handles, BlameIf
    <3> QED
      BY <3>3, <3>4
  <2>2. CASE stripe[s].sched = None
    BY <1>1, <2>1, <2>2 DEF MarkerOf, ScheduleFired
  <2>3. CASE stripe[s].sched # None
    <3>1. row'[s].pending = row[s].pending
      BY <2>1, <2>3 DEF ScheduleFired
    <3>2. \A e \in Waiting : e.sched # stripe[s].sched => e \in Waiting'
      BY <1>1, <2>1
    <3> QED
      BY <1>1, <1>2, <2>3, <3>1, <3>2 DEF MarkerOf
  <2> QED
    BY <2>2, <2>3
<1>6. CASE s = web.sub /\ HandleDeleted
  <2>1. w.type = "deleted"
    BY <1>6 DEF HandleDeleted, Handles
  <2>2. stripe[s].status = "canceled"
    BY <1>1, <1>6, <2>1 DEF EventInv, Contents
  <2> QED
    BY <1>2, <2>2 DEF Live
<1>7. ASSUME s = web.sub, w.type \in {"paid", "failed", "released"}
      PROVE  \E f \in inbox : f.sub = s
  <2>1. PICK f \in Unanswered : f.sub = w.sub /\ Final(f)
    BY <1>1 DEF EventInv, Contents
  <2>2. f # w
    BY <1>7, <2>1 DEF Final, Tells
  <2> QED
    BY <1>1, <1>7, <2>1, <2>2
<1>8. CASE s = web.sub /\ (HandlePaid \/ HandleFailed)
  <2>1. row'[s].pending = row[s].pending /\ w.type \in {"paid", "failed"}
    <3>1. CASE HandlePaid
      BY <1>8, <3>1 DEF HandlePaid, Handles, RowOK, Row
    <3>2. CASE HandleFailed
      BY <1>8, <3>2 DEF HandleFailed, Handles, RowOK, Row
    <3> QED
      BY <1>8, <3>1, <3>2
  <2>2. \E f \in Waiting' : f.sub = s
    BY <1>1, <1>7, <1>8, <2>1
  <2>3. \A e \in Waiting : e.type = "updated" => e \in Waiting'
    BY <1>1, <2>1
  <2> QED
    BY <1>1, <1>2, <2>1, <2>2, <2>3 DEF MarkerOf
<1>9. CASE s = web.sub /\ HandleReleased
  <2>1. row'[s].pending = None /\ w.type = "released"
    BY <1>9 DEF HandleReleased, Handles, RowOK, Row
  <2>2. PICK f \in Waiting : f.sub = s /\ f.type = "updated" /\ f.sched = None
    BY <1>1, <1>9, <2>1 DEF ReleasesOK, Follows
  <2>3. f \in Waiting'
    BY <1>1, <2>1, <2>2
  <2> QED
    BY <1>1, <2>1, <2>2, <2>3 DEF MarkerOf
<1> QED
  BY <1>3, <1>4, <1>5, <1>6, <1>8, <1>9 DEF HandlerEnds

LEMMA MarkerWritten ==
    ASSUME TypeInv, HandlerOK, EventInv, RowsInv, StageInv, MarkersOK, ChangeOK,
           "race" \notin causes', StoreUpgrade \/ ClearMarkers \/ StoreDowngrade \/ RecWrite
    PROVE  MarkersOK'
<1> USE DEF TypeInv
<1> SUFFICES ASSUME NEW s \in Subs, Live(stripe'[s]) PROVE MarkerOf(s)'
  BY DEF MarkersOK
<1>1. stripe' = stripe /\ inbox' = inbox
  BY DEF StoreUpgrade, ClearMarkers, StoreDowngrade, RecWrite, Rest, stripeVars
<1>2. Live(stripe[s]) /\ MarkerOf(s)
  BY <1>1 DEF MarkersOK
<1>3. CASE StoreUpgrade
  <2>1. web.at = "store" /\ web.sub \in Subs /\ row[web.sub].pending = None /\ web'.at # "row"
    BY <1>3 DEF StoreUpgrade, WebOK, ChangeOK
  <2>2. row'[s].pending = row[s].pending
    BY <1>3, <2>1 DEF StoreUpgrade, RowOK, Row
  <2>3. Waiting' = Waiting
    BY <1>3, WritesKeepWaiting
  <2> QED
    BY <1>1, <1>2, <2>1, <2>2, <2>3 DEF MarkerOf
<1>4. CASE ClearMarkers
  <2>1. web.at = "clear" /\ web.sub \in Subs /\ web'.at # "row" /\ web'.at # "mark"
    BY <1>4 DEF ClearMarkers, WebOK, Web, Idle
  <2>2. CASE s = web.sub
    <3>1. row'[s].pending = None
      BY <1>4, <2>1, <2>2 DEF ClearMarkers, RowOK, Row
    <3>2. stripe[s].sched = None
      BY <1>2, <2>1, <2>2 DEF ChangeOK
    <3> QED
      BY <1>1, <3>1, <3>2 DEF MarkerOf
  <2>3. CASE s # web.sub
    <3>1. row'[s] = row[s]
      BY <1>4, <2>1, <2>3 DEF ClearMarkers, RowOK
    <3>2. Waiting' = Waiting
      BY <1>1, <2>1 DEF Waiting
    <3> QED
      BY <1>1, <1>2, <2>1, <3>1, <3>2 DEF MarkerOf
  <2> QED
    BY <2>2, <2>3
<1>5. CASE StoreDowngrade
  <2>1. /\ web.at = "mark" /\ web.sub \in Subs /\ row'[web.sub].pending = web.plan
        /\ \A r \in Subs \ {web.sub} : row'[r] = row[r] /\ web' = Idle
    BY <1>5, DowngradeRow
  <2>2. Waiting = inbox /\ Waiting' = inbox
    BY <1>1, <1>5, <2>1, DowngradeRow DEF Waiting, Idle
  <2>3. CASE s = web.sub
    <3>1. stripe[s].sched \in {None, web.plan} /\ \E e \in inbox : e.sub = s
      BY <2>1, <2>3 DEF ChangeOK
    <3> QED
      BY <1>1, <2>1, <2>2, <2>3, <3>1 DEF MarkerOf
  <2>4. CASE s # web.sub
    BY <1>1, <1>2, <2>1, <2>2, <2>4 DEF MarkerOf
  <2> QED
    BY <2>3, <2>4
<1>6. CASE RecWrite
  <2> DEFINE c == rec.sub
  <2>1. /\ c \in Subs /\ row[c] = Seen(c) /\ stripe[c] = rec.found
        /\ row'[c] = Correct(row[c], Seen(c), rec.found)
        /\ \A r \in Subs \ {c} : row'[r] = row[r]
        /\ UNCHANGED web
    BY <1>6, RecWriteRow
  <2>2. Waiting' = Waiting
    BY <1>6, WritesKeepWaiting
  <2>3. CASE row'[s].pending = row[s].pending
    BY <1>1, <1>2, <2>1, <2>2, <2>3 DEF MarkerOf
  <2>4. CASE row'[s].pending # row[s].pending
    <3>1. s = c
      BY <2>1, <2>4
    <3>2. row'[c].pending = IF ScheduleFired(row[c], stripe[c]) THEN None ELSE row[c].pending
      BY <2>1 DEF Correct, Corrected, RowOK, Row
    <3>3. row'[s].pending = None /\ stripe[s].sched = None
      BY <2>4, <3>1, <3>2 DEF ScheduleFired
    <3> QED
      BY <1>1, <3>3 DEF MarkerOf
  <2> QED
    BY <2>3, <2>4
<1> QED
  BY <1>3, <1>4, <1>5, <1>6

LEMMA MarkersNext ==
    ASSUME TypeInv, HandlerOK, EventInv, EventStep, RowsInv, StageInv, MarkersInv,
           Traceable', [Next]_vars
    PROVE  MarkersOK'
<1>0. causes' \cap {"lost", "race", "broken", "delayed"} = {}
  BY DEF Traceable, Excuses
<1>1. CASE HandlerEnds
  BY <1>0, <1>1, MarkerHandled DEF MarkersInv
<1>2. CASE StoreUpgrade \/ ClearMarkers \/ StoreDowngrade \/ RecWrite
  BY <1>0, <1>2, MarkerWritten DEF MarkersInv
<1>3. CASE ~HandlerEnds /\ ~(StoreUpgrade \/ ClearMarkers \/ StoreDowngrade \/ RecWrite)
  <2>1. Waiting \subseteq Waiting'
    BY <1>0, <1>3, SteadyOrWrite, WritesKeepWaiting DEF RowWrite, HandlerEnds, Steady
  <2>2. ~MarkerWrite
    BY <1>3 DEF MarkerWrite, HandlerEnds
  <2> QED
    BY <1>0, <2>1, <2>2, MarkerSteady DEF MarkersInv
<1> QED
  BY <1>1, <1>2, <1>3

LEMMA MarkerInit == Init => MarkerInv
<1> SUFFICES ASSUME Init PROVE MarkersInv
  BY DEF MarkerInv
<1> USE DEF Init, Idle, NoSub, NoRow
<1>1. Unanswered = {} /\ Waiting = {}
  BY DEF Unanswered, Waiting
<1>2. MarkersOK /\ UnmarkedOK
  BY DEF MarkersOK, UnmarkedOK, Live
<1>3. ReleasesOK /\ CheckoutsOK
  BY <1>1 DEF ReleasesOK, CheckoutsOK
<1>4. ChangeOK /\ HandledOK
  BY DEF ChangeOK, HandledOK
<1> QED
  BY <1>2, <1>3, <1>4 DEF MarkersInv

LEMMA MarkerNext ==
    TypeInv /\ TypeInv' /\ HandlerOK /\ HandlerOK' /\ DriftInv /\ MarkerInv /\ [Next]_vars => MarkerInv'
<1> SUFFICES ASSUME TypeInv, TypeInv', HandlerOK, HandlerOK', DriftInv, MarkerInv, [Next]_vars, Traceable'
             PROVE  MarkersInv'
  BY DEF MarkerInv
<1>1. Clean' /\ Traceable /\ Clean
  BY CausesGrow DEF Traceable, Clean
<1>2. EventInv /\ RowsInv /\ StageInv /\ MarkersInv
  BY <1>1 DEF DriftInv, MarkerInv
<1>3. EventStep
  BY <1>1, <1>2, EventSteps DEF EventInv
<1>4. "lost" \notin causes' /\ "unreleased" \notin causes'
  BY DEF Traceable, Excuses
<1>5. MarkersOK'
  BY <1>2, <1>3, MarkersNext
<1>6. ReleasesOK'
  BY <1>2, <1>3, <1>4, ReleasesNext DEF MarkersInv
<1>7. CheckoutsOK'
  BY <1>2, <1>3, CheckoutsNext DEF MarkersInv
<1>8. ChangeOK'
  BY <1>2, <1>3, <1>4, ChangeNext DEF MarkersInv
<1>9. UnmarkedOK'
  BY <1>2, <1>3, UnmarkedNext DEF MarkersInv
<1>10. HandledOK'
  BY <1>2, HandledNext DEF MarkersInv
<1> QED
  BY <1>5, <1>6, <1>7, <1>8, <1>9, <1>10 DEF MarkersInv

LEMMA MarkerInvMarker == MarkerInv => MarkerHasCause
<1> SUFFICES ASSUME MarkerInv, AtRest, Traceable, NEW s \in Subs, Live(stripe[s])
             PROVE  row[s].pending = stripe[s].sched
  BY DEF MarkerHasCause, Traceable
<1>1. Waiting = {} /\ web.at = "idle"
  BY DEF AtRest, Idle, Waiting
<1>2. MarkerOf(s)
  BY DEF MarkerInv, MarkersInv, MarkersOK
<1> QED
  BY <1>1, <1>2 DEF MarkerOf

(* When everything has come to rest, a row shows a pending downgrade just  *)
(* when there is a schedule at Stripe, to that plan, whichever handlers,   *)
(* plan changes and jobs interleaved, unless besides the reasons a row may *)
(* drift for an event from before the schedule was handled after it, or a  *)
(* schedule could not be released.                                         *)
THEOREM MarkerHasCauseAlways == Spec => []MarkerHasCause
<1>1. Init => TypeInv /\ HandlerOK /\ DriftInv /\ MarkerInv
  BY InitTypeInv, HandlerInit, DriftInit, MarkerInit
<1>2. TypeInv /\ HandlerOK /\ DriftInv /\ MarkerInv /\ [Next]_vars =>
          (TypeInv /\ HandlerOK /\ DriftInv /\ MarkerInv)'
  BY NextTypeInv, HandlerNext, DriftNext, MarkerNext
<1> QED
  BY <1>1, <1>2, MarkerInvMarker, PTL DEF Spec
=============================================================================
