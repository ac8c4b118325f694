---------------------------- MODULE SubscriptionSync ----------------------------
(***************************************************************************)
(* How one account follows its subscriptions at Stripe.  Six writers share *)
(* the subscriptions rows, users.plan and the cached profile: the webhook  *)
(* handlers, the plan change an account asks for, the hourly dunning and   *)
(* reconciler jobs, and the requests that fill the cache.                  *)
(*                                                                         *)
(* A web process runs one handler to its end (none awaits); the two jobs   *)
(* run in threads of the scheduler, so they interleave with it and with    *)
(* one another between any two statements.  Every statement commits by     *)
(* itself.  Stripe changes by itself and tells of it by events, which are  *)
(* delivered until they are answered, in any order, and may be missed.     *)
(* That one event is handled once is the subject of WebhookDelivery.       *)
(***************************************************************************)
EXTENDS Integers, FiniteSets, Sequences

CONSTANTS
    Subs,        \* subscriptions the account may have at Stripe
    MaxChanges,  \* bound: changes at Stripe in one behaviour
    MaxFaults,   \* bound: lost or overtaken events, failed calls, broken runs
    MaxReads     \* bound: requests that find no cached profile

ASSUME SyncAssumption == {MaxChanges, MaxFaults, MaxReads} \subseteq Nat

PaidPlans == {"professional", "producer"}
Plans == PaidPlans \cup {"free"}
None == "none"

(* _PLAN_RANK: from a lower to a higher plan is an upgrade.                *)
Rank == [p \in Plans |-> CASE p = "free" -> 0
                           [] p = "professional" -> 1
                           [] p = "producer" -> 2]

(* A subscription at Stripe; sched is the plan a schedule moves it to.     *)
StripeSub == [status : {"absent", "active", "past_due", "canceled"},
              plan : Plans, sched : PaidPlans \cup {None}]
NoSub == [status |-> "absent", plan |-> "free", sched |-> None]

(* A subscriptions row.  since is past_due_since: unset, within the grace  *)
(* period of dunning, or past it.  pending is pending_plan together with   *)
(* stripe_schedule_id, which are written and cleared together.             *)
Row == [status : {"absent", "active", "past_due", "cancelled", "canceled"},
        plan : Plans, since : {None, "recent", "expired"},
        pending : PaidPlans \cup {None}]
NoRow == [status |-> "absent", plan |-> "free", since |-> None, pending |-> None]

EventTypes == {"checkout", "updated", "deleted", "paid", "failed", "released"}
Event == [at : Nat, type : EventTypes, sub : Subs,
          status : {"absent", "active", "past_due", "canceled"},
          plan : Plans, sched : PaidPlans \cup {None}]
NoEvent == [type |-> None]

(* get_active_subscription and the reconciler follow these statuses.       *)
Tracked(r) == r.status \in {"active", "past_due"}
Live(t) == t.status \in {"active", "past_due"}

VARIABLES
    stripe,    \* the subscriptions at Stripe
    inbox,     \* events Stripe has not got an answer for
    open,      \* checkouts the account has open
    row,       \* the subscriptions rows
    userPlan,  \* users.plan
    cache,     \* the plan of the cached profile, or None
    fill,      \* the plan a request has read and is about to cache, or None
    web,       \* the activity of the web process
    rec,       \* the reconciler's run
    dun,       \* the dunning run
    charged,   \* history: what Stripe has sold to this account
    causes,    \* history: what happened that explains a divergence
    changes,   \* history: changes at Stripe so far
    faults,    \* history: faults so far
    reads      \* history: requests that read the users row so far

stripeVars == <<stripe, open, charged, changes>>
cacheVars == <<cache, fill, reads>>
vars == <<stripe, inbox, open, row, userPlan, cache, fill, web, rec, dun,
          charged, causes, changes, faults, reads>>

Idle == [at |-> "idle", then |-> "idle", event |-> NoEvent, sub |-> None, plan |-> "free"]
Web == [at : {"idle", "row", "check", "user", "bust", "release", "clear",
              "charge", "schedule", "store", "mark"},
        then : {"idle", "charge", "schedule"},
        event : Event \cup {NoEvent}, sub : Subs \cup {None}, plan : Plans]
RecIdle == [at |-> "idle", seen |-> [s \in Subs |-> NoRow], sub |-> None, found |-> NoSub]
DunIdle == [at |-> "idle", todo |-> {}, sub |-> None]

Causes == {"lost", "reordered", "overlap", "race", "broken", "delayed", "unreleased",
           "unbusted", "overtaken"}

TypeOK ==
    /\ stripe \in [Subs -> StripeSub]
    /\ inbox \subseteq Event
    /\ open \subseteq Subs
    /\ row \in [Subs -> Row]
    /\ userPlan \in Plans
    /\ cache \in Plans \cup {None}
    /\ fill \in Plans \cup {None}
    /\ web \in Web
    /\ rec \in [at : {"idle", "next", "write", "user", "bust"}, seen : [Subs -> Row],
                sub : Subs \cup {None}, found : StripeSub]
    /\ dun \in [at : {"idle", "next", "user", "bust"}, todo : SUBSET Subs,
                sub : Subs \cup {None}]
    /\ charged \subseteq Subs \X PaidPlans
    /\ causes \subseteq Causes
    /\ changes \in 0 .. MaxChanges
    /\ faults \in 0 .. MaxFaults
    /\ reads \in 0 .. MaxReads

Init ==
    /\ stripe = [s \in Subs |-> NoSub]
    /\ inbox = {}
    /\ open = {}
    /\ row = [s \in Subs |-> NoRow]
    /\ userPlan = "free"
    /\ cache = None
    /\ fill = None
    /\ web = Idle
    /\ rec = RecIdle
    /\ dun = DunIdle
    /\ charged = {}
    /\ causes = {}
    /\ changes = 0
    /\ faults = 0
    /\ reads = 0

Fault == faults < MaxFaults /\ faults' = faults + 1
Blame(c) == causes' = causes \cup {c}
BlameIf(cond, c) == causes' = IF cond THEN causes \cup {c} ELSE causes

-----------------------------------------------------------------------------
(* Stripe.                                                                 *)

(* Subscription s becomes t, and Stripe tells of it in these events.       *)
Becomes(s, t, types) ==
    /\ changes < MaxChanges
    /\ changes' = changes + 1
    /\ stripe' = [stripe EXCEPT ![s] = t]
    /\ charged' = charged \cup ({<<s, t.plan>>} \cap (Subs \X PaidPlans))
    /\ inbox' = inbox \cup
         {[at |-> 2 * changes + i, type |-> types[i], sub |-> s,
           status |-> t.status, plan |-> t.plan, sched |-> t.sched] : i \in DOMAIN types}

(* POST /subscription-checkout: refused while a row is tracked.            *)
OpenCheckout(s) ==
    /\ web = Idle
    /\ stripe[s].status = "absent" /\ s \notin open
    /\ \A r \in Subs : ~Tracked(row[r])
    /\ open' = open \cup {s}
    /\ UNCHANGED <<stripe, inbox, row, userPlan, cacheVars, web, rec, dun,
                   charged, causes, changes, faults>>

CompleteCheckout(s, p) ==
    /\ s \in open
    /\ open' = open \ {s}
    /\ Becomes(s, [status |-> "active", plan |-> p, sched |-> None],
               <<"updated", "checkout">>)
    /\ BlameIf(\E r \in Subs \ {s} : Live(stripe[r]), "overlap")
    /\ UNCHANGED <<row, userPlan, cacheVars, web, rec, dun, faults>>

(* What happens at Stripe to a subscription that is running: a payment     *)
(* fails or is made good, its schedule comes due or is released in the     *)
(* dashboard, it ends, or the account changes plan in Stripe's portal.     *)
StripeChange(s) ==
    /\ LET t == stripe[s] IN
       \/ /\ t.status = "active"
          /\ Becomes(s, [t EXCEPT !.status = "past_due"], <<"failed", "updated">>)
       \/ /\ t.status = "past_due"
          /\ Becomes(s, [t EXCEPT !.status = "active"], <<"paid", "updated">>)
       \/ /\ Live(t) /\ t.sched # None
          /\ Becomes(s, [t EXCEPT !.plan = t.sched, !.sched = None], <<"updated">>)
       \/ /\ Live(t) /\ t.sched # None
          /\ Becomes(s, [t EXCEPT !.sched = None], <<"released", "updated">>)
       \/ /\ Live(t)
          /\ Becomes(s, [t EXCEPT !.status = "canceled", !.sched = None], <<"deleted">>)
       \/ /\ Live(t) /\ t.sched = None
          /\ \E p \in PaidPlans \ {t.plan} :
                Becomes(s, [t EXCEPT !.plan = p], <<"updated">>)
    /\ UNCHANGED <<open, row, userPlan, cacheVars, web, rec, dun, causes, faults>>

(* Stripe gives up on an event, or the endpoint never sees it.             *)
Lose(e) ==
    /\ Fault
    /\ inbox' = inbox \ {e}
    /\ Blame("lost")
    /\ UNCHANGED <<stripeVars, row, userPlan, cacheVars, web, rec, dun>>

(* Seven days pass since past_due_since was set.                           *)
GracePasses(s) ==
    /\ row[s].since = "recent"
    /\ row' = [row EXCEPT ![s].since = "expired"]
    /\ UNCHANGED <<stripeVars, inbox, userPlan, cacheVars, web, rec, dun, causes, faults>>

-----------------------------------------------------------------------------
(* The profile cache.                                                      *)

(* users.plan is written ...  Causes are added by the caller.              *)
SetPlan(p, more) ==
    /\ userPlan' = p
    /\ causes' = causes \cup more

(* ... and then, by another call, the cached profile is deleted.  That is  *)
(* best effort: it fails without a word.                                   *)
Bust_Kept == UNCHANGED <<cache, causes, faults>>
Bust ==
    \/ cache' = None /\ UNCHANGED <<causes, faults>>
    \/ cache # None /\ UNCHANGED cache /\ Fault /\ Blame("unbusted")

Stale == cache \notin {None, userPlan}
BustComes == "bust" \in {web.at, rec.at, dun.at}

(* Who breaks off between the two leaves a profile that is stale.          *)
Breaking(at, torn) ==
    causes' = causes \cup (IF torn THEN {"broken"} ELSE {})
                     \cup (IF at = "bust" /\ Stale THEN {"unbusted"} ELSE {})

(* Of a mirror write: the rows no longer say so.                           *)
Outdated(s, p) ==
    IF p = "free" THEN \E r \in Subs : Tracked(row[r])
    ELSE ~Tracked(row[s]) \/ row[s].plan # p

(* get_current_user misses the cache and reads the row ...                 *)
FillRead ==
    /\ cache = None /\ fill = None
    /\ reads < MaxReads
    /\ reads' = reads + 1
    /\ fill' = userPlan
    /\ UNCHANGED <<stripeVars, inbox, row, userPlan, cache, web, rec, dun, causes, faults>>

(* ... and stores the profile, whatever has happened in between: too late  *)
(* for a deletion, unless one is still to come.                            *)
FillStore ==
    /\ fill # None
    /\ cache' = fill
    /\ fill' = None
    /\ BlameIf(fill # userPlan /\ ~BustComes, "overtaken")
    /\ UNCHANGED <<stripeVars, inbox, row, userPlan, web, rec, dun, faults, reads>>

(* _USER_PROFILE_TTL.                                                      *)
CacheExpires ==
    /\ cache # None
    /\ cache' = None
    /\ UNCHANGED <<stripeVars, inbox, row, userPlan, fill, web, rec, dun, causes, faults, reads>>

-----------------------------------------------------------------------------
(* The webhook handlers.                                                   *)

Oldest(e) == \A f \in inbox : e.at <= f.at

(* Events come in order, but for some that overtake others.                *)
Deliver(e) ==
    /\ web = Idle
    /\ \/ Oldest(e) /\ UNCHANGED <<causes, faults>>
       \/ ~Oldest(e) /\ Fault /\ Blame("reordered")
    /\ web' = [Idle EXCEPT !.at = "row", !.event = e, !.sub = e.sub]
    /\ inbox' = inbox \ {e}
    /\ UNCHANGED <<stripeVars, row, userPlan, cacheVars, rec, dun>>

Handles(type) == web.at = "row" /\ web.event.type = type
Known(s) == row[s].status # "absent"
Rest == UNCHANGED <<stripeVars, inbox, userPlan, cacheVars, rec, dun, causes, faults>>

(* checkout.session.completed: an upsert on stripe_subscription_id, which  *)
(* leaves past_due_since and the pending markers as they are.              *)
HandleCheckout ==
    /\ Handles("checkout")
    /\ row' = [row EXCEPT ![web.sub].status = "active", ![web.sub].plan = web.event.plan]
    /\ web' = [web EXCEPT !.at = "user", !.plan = web.event.plan]
    /\ Rest

(* customer.subscription.created and .updated: the row is updated, or      *)
(* created when there is none.  A marker with no schedule in the event     *)
(* means that the schedule has fired.                                      *)
ScheduleFired_Never(r, t) == FALSE
ScheduleFired(r, t) == r.pending # None /\ t.sched = None
Mirrored_Free(r, t) == [r EXCEPT !.status = t.status, !.plan = t.plan,
                                 !.pending = IF ScheduleFired(r, t) THEN "free" ELSE @]
Mirrored(r, t) == [r EXCEPT !.status = t.status, !.plan = t.plan,
                            !.pending = IF ScheduleFired(r, t) THEN None ELSE @]
HandleUpdated_NoUser ==
    /\ Handles("updated")
    /\ row' = [row EXCEPT ![web.sub] = Mirrored(@, web.event)]
    /\ web' = Idle
    /\ Rest
HandleUpdated ==
    /\ Handles("updated")
    /\ row' = [row EXCEPT ![web.sub] = Mirrored(@, web.event)]
    /\ web' = [web EXCEPT !.at = "user", !.plan = web.event.plan]
    /\ BlameIf(web.event.sched # stripe[web.sub].sched, "delayed")
    /\ UNCHANGED <<stripeVars, inbox, userPlan, cacheVars, rec, dun, faults>>

(* customer.subscription.deleted.                                          *)
HandleDeleted ==
    /\ Handles("deleted")
    /\ IF Known(web.sub)
       THEN /\ row' = [row EXCEPT ![web.sub].status = "cancelled"]
            /\ web' = [web EXCEPT !.at = "check"]
       ELSE web' = Idle /\ UNCHANGED row
    /\ Rest

(* Another active row keeps the plan the account has.                      *)
CheckOthers ==
    /\ web.at = "check"
    /\ web' = IF \E r \in Subs : row[r].status = "active"
              THEN Idle
              ELSE [web EXCEPT !.at = "user", !.plan = "free"]
    /\ UNCHANGED row
    /\ Rest

(* invoice.paid: nothing to do unless a failure was recorded.              *)
HandlePaid ==
    /\ Handles("paid")
    /\ row' = IF row[web.sub].since # None
              THEN [row EXCEPT ![web.sub].status = "active", ![web.sub].since = None]
              ELSE row
    /\ web' = Idle
    /\ Rest

(* invoice.payment_failed: the first failure of a streak sets the date.    *)
HandleFailed ==
    /\ Handles("failed")
    /\ row' = IF Known(web.sub)
              THEN [row EXCEPT ![web.sub].status = "past_due",
                               ![web.sub].since = IF @ = None THEN "recent" ELSE @]
              ELSE row
    /\ web' = Idle
    /\ Rest

(* subscription_schedule.released.                                         *)
HandleReleased ==
    /\ Handles("released")
    /\ row' = [row EXCEPT ![web.sub].pending = None]
    /\ web' = Idle
    /\ Rest

(* The mirror write of a handler, or of an upgrade.                        *)
WriteUser ==
    /\ web.at = "user"
    /\ SetPlan(web.plan, IF Outdated(web.sub, web.plan) THEN {"race"} ELSE {})
    /\ web' = [web EXCEPT !.at = "bust"]
    /\ UNCHANGED <<stripeVars, inbox, row, cacheVars, rec, dun, faults>>

WebBust ==
    /\ web.at = "bust"
    /\ Bust
    /\ web' = Idle
    /\ UNCHANGED <<stripeVars, inbox, row, userPlan, fill, reads, rec, dun>>

(* A handler raises, or its process dies: the event is delivered again.    *)
HandlerBreaks ==
    /\ web.event # NoEvent
    /\ Fault
    /\ inbox' = inbox \cup {web.event}
    /\ web' = Idle
    /\ Breaking(web.at, FALSE)
    /\ UNCHANGED <<stripeVars, row, userPlan, cacheVars, rec, dun>>

-----------------------------------------------------------------------------
(* The plan change an account asks for.                                    *)

(* change_plan reads a tracked row (any: the query has no order) and the   *)
(* direction of the change; a pending downgrade is released first.         *)
Ask(s, p, direction) ==
    /\ web = Idle
    /\ Tracked(row[s])
    /\ web' = [Idle EXCEPT !.at = IF row[s].pending # None THEN "release" ELSE direction,
                           !.then = direction, !.sub = s, !.plan = p]
    /\ UNCHANGED row
    /\ Rest
AskUpgrade(s, p) == Rank[p] > Rank[row[s].plan] /\ Ask(s, p, "charge")
AskDowngrade(s, p) == Rank[p] < Rank[row[s].plan] /\ Ask(s, p, "schedule")

(* cancel_scheduled_change.                                                *)
AskCancel(s) ==
    /\ row[s].pending # None
    /\ Ask(s, "free", "idle")

(* cancel_scheduled_plan_change at Stripe.  When it fails, change_plan goes *)
(* on all the same and cancel_scheduled_change gives up.                   *)
Release ==
    /\ web.at = "release"
    /\ LET t == stripe[web.sub] IN
       \/ /\ Live(t) /\ t.sched # None
          /\ Becomes(web.sub, [t EXCEPT !.sched = None], <<"released", "updated">>)
          /\ web' = [web EXCEPT !.at = "clear"]
       \/ /\ ~Live(t) \/ t.sched = None
          /\ web' = IF web.then = "idle" THEN Idle ELSE [web EXCEPT !.at = "clear"]
          /\ UNCHANGED <<stripe, inbox, charged, changes>>
    /\ UNCHANGED <<open, row, userPlan, cacheVars, rec, dun, causes, faults>>

ReleaseFails ==
    /\ web.at = "release"
    /\ Fault
    /\ web' = IF web.then = "idle" THEN Idle ELSE [web EXCEPT !.at = "clear"]
    /\ Blame("unreleased")
    /\ UNCHANGED <<stripeVars, inbox, row, userPlan, cacheVars, rec, dun>>

ClearMarkers ==
    /\ web.at = "clear"
    /\ row' = [row EXCEPT ![web.sub].pending = None]
    /\ web' = IF web.then = "idle" THEN Idle ELSE [web EXCEPT !.at = web.then]
    /\ Rest

(* Subscription.modify with error_if_incomplete: the difference is charged *)
(* and the plan changed, or the call raises and nothing is.                *)
Charge ==
    /\ web.at = "charge"
    /\ Live(stripe[web.sub])
    /\ Becomes(web.sub, [stripe[web.sub] EXCEPT !.plan = web.plan], <<"updated">>)
    /\ web' = [web EXCEPT !.at = "store"]
    /\ UNCHANGED <<open, row, userPlan, cacheVars, rec, dun, causes, faults>>

Refused_Stored(r) == [r EXCEPT !.at = "store"]
Refused(r) == Idle
ChargeFails ==
    /\ web.at = "charge"
    /\ web' = Refused(web)
    /\ UNCHANGED row
    /\ Rest

StoreUpgrade ==
    /\ web.at = "store"
    /\ row' = [row EXCEPT ![web.sub].plan = web.plan, ![web.sub].pending = None]
    /\ web' = [web EXCEPT !.at = "user"]
    /\ Rest

(* A schedule from the subscription, for the end of the period; Stripe     *)
(* refuses a second one.                                                   *)
Schedule ==
    /\ web.at = "schedule"
    /\ LET t == stripe[web.sub] IN
       \/ /\ Live(t) /\ t.sched = None
          /\ Becomes(web.sub, [t EXCEPT !.sched = web.plan], <<"updated">>)
          /\ web' = [web EXCEPT !.at = "mark"]
       \/ /\ ~Live(t) \/ t.sched # None
          /\ web' = Idle
          /\ UNCHANGED <<stripe, inbox, charged, changes>>
    /\ UNCHANGED <<open, row, userPlan, cacheVars, rec, dun, causes, faults>>

StoreDowngrade ==
    /\ web.at = "mark"
    /\ row' = [row EXCEPT ![web.sub].pending = web.plan]
    /\ web' = Idle
    /\ Rest

(* The request breaks off between two of its statements.                   *)
RequestBreaks ==
    /\ web # Idle /\ web.event = NoEvent
    /\ Fault
    /\ web' = Idle
    /\ Breaking(web.at, web.at # "bust")
    /\ UNCHANGED <<stripeVars, inbox, row, userPlan, cacheVars, rec, dun>>

-----------------------------------------------------------------------------
(* The reconciler: it reads every tracked row at the start of its run ...  *)
RecStart ==
    /\ rec.at = "idle"
    /\ \E s \in Subs : Tracked(row[s])
    /\ rec' = [RecIdle EXCEPT !.at = "next",
                  !.seen = [s \in Subs |-> IF Tracked(row[s]) THEN row[s] ELSE NoRow]]
    /\ UNCHANGED <<stripeVars, inbox, row, userPlan, cacheVars, web, dun, causes, faults>>

Seen(s) == rec.seen[s]
Pending == {s \in Subs : Tracked(Seen(s))}

(* _diff_subscription.                                                     *)
StatusDiffers(r, t) == r.status # t.status
PlanDiffers(r, t) == r.plan # t.plan
Differs(r, t) == StatusDiffers(r, t) \/ PlanDiffers(r, t) \/ ScheduleFired(r, t)
Corrected(r, old, t) ==
    [r EXCEPT !.status = IF StatusDiffers(old, t) THEN t.status ELSE @,
              !.plan = IF PlanDiffers(old, t) THEN t.plan ELSE @,
              !.pending = IF ScheduleFired(old, t) THEN None ELSE @]

(* ... and then, one by one, compares each with what Stripe says of it.    *)
Compare(s) ==
    /\ rec.at = "next" /\ s \in Pending
    /\ rec' = IF Differs(Seen(s), stripe[s])
              THEN [rec EXCEPT !.at = "write", !.sub = s, !.found = stripe[s]]
              ELSE [rec EXCEPT !.seen[s] = NoRow]
    /\ UNCHANGED <<stripeVars, inbox, row, userPlan, cacheVars, web, dun, causes, faults>>

(* A failing fetch skips the row until the next run.                       *)
FetchFails(s) ==
    /\ rec.at = "next" /\ s \in Pending
    /\ Fault
    /\ rec' = [rec EXCEPT !.seen[s] = NoRow]
    /\ UNCHANGED <<stripeVars, inbox, row, userPlan, cacheVars, web, dun, causes>>

RecNext == [rec EXCEPT !.at = "next", !.seen[rec.sub] = NoRow, !.sub = None, !.found = NoSub]

(* Only a plan that differs on the row is mirrored to the user.            *)
Mirrors(s) == PlanDiffers(Seen(s), rec.found)
Correct_Statusless(r, old, t) == [Corrected(r, old, t) EXCEPT !.status = r.status]
Correct(r, old, t) == Corrected(r, old, t)
RecWrite ==
    /\ rec.at = "write"
    /\ LET s == rec.sub
           r == Correct(row[s], Seen(s), rec.found) IN
       /\ row' = [row EXCEPT ![s] = r]
       /\ rec' = IF Mirrors(s) THEN [rec EXCEPT !.at = "user", !.seen[s] = r] ELSE RecNext
       /\ BlameIf(row[s] # Seen(s) \/ stripe[s] # rec.found, "race")
    /\ UNCHANGED <<stripeVars, inbox, userPlan, cacheVars, web, dun, faults>>

RecUser ==
    /\ rec.at = "user"
    /\ SetPlan(rec.found.plan, IF row[rec.sub] # Seen(rec.sub) THEN {"race"} ELSE {})
    /\ rec' = [rec EXCEPT !.at = "bust"]
    /\ UNCHANGED <<stripeVars, inbox, row, cacheVars, web, dun, faults>>

RecBust ==
    /\ rec.at = "bust"
    /\ Bust
    /\ rec' = RecNext
    /\ UNCHANGED <<stripeVars, inbox, row, userPlan, fill, reads, web, dun>>

RecEnd ==
    /\ rec.at = "next" /\ Pending = {}
    /\ rec' = RecIdle
    /\ UNCHANGED <<stripeVars, inbox, row, userPlan, cacheVars, web, dun, causes, faults>>

(* The run breaks off: what it has not done waits for the next one.        *)
RecBreaks ==
    /\ rec.at # "idle"
    /\ Fault
    /\ Breaking(rec.at, rec.at = "user")
    /\ rec' = RecIdle
    /\ UNCHANGED <<stripeVars, inbox, row, userPlan, cacheVars, web, dun>>

-----------------------------------------------------------------------------
(* Dunning: the rows past due for longer than the grace period ...         *)
Overdue_Recent(r) == r.status = "past_due" /\ r.since = "recent"
Overdue(r) == r.status = "past_due" /\ r.since = "expired"

DunStart ==
    /\ dun.at = "idle"
    /\ \E s \in Subs : Overdue(row[s])
    /\ dun' = [DunIdle EXCEPT !.at = "next", !.todo = {s \in Subs : Overdue(row[s])}]
    /\ UNCHANGED <<stripeVars, inbox, row, userPlan, cacheVars, web, rec, causes, faults>>

(* ... are cancelled one by one ...                                        *)
DunCancel(s) ==
    /\ dun.at = "next" /\ s \in dun.todo
    /\ row' = [row EXCEPT ![s].status = "cancelled"]
    /\ dun' = [at |-> "user", todo |-> dun.todo \ {s}, sub |-> s]
    /\ BlameIf(~Overdue(row[s]), "race")
    /\ UNCHANGED <<stripeVars, inbox, userPlan, cacheVars, web, rec, faults>>

(* ... and the account is downgraded.                                      *)
DunUser ==
    /\ dun.at = "user"
    /\ SetPlan("free", IF Outdated(dun.sub, "free") THEN {"race"} ELSE {})
    /\ dun' = [dun EXCEPT !.at = "bust"]
    /\ UNCHANGED <<stripeVars, inbox, row, cacheVars, web, rec, faults>>

DunBust ==
    /\ dun.at = "bust"
    /\ Bust
    /\ dun' = IF dun.todo = {} THEN DunIdle
              ELSE [at |-> "next", todo |-> dun.todo, sub |-> None]
    /\ UNCHANGED <<stripeVars, inbox, row, userPlan, fill, reads, web, rec>>

DunBreaks ==
    /\ dun.at # "idle"
    /\ Fault
    /\ Breaking(dun.at, dun.at = "user")
    /\ dun' = DunIdle
    /\ UNCHANGED <<stripeVars, inbox, row, userPlan, cacheVars, web, rec>>

-----------------------------------------------------------------------------
Stripe ==
    \/ \E s \in Subs : OpenCheckout(s) \/ StripeChange(s) \/ GracePasses(s)
    \/ \E s \in Subs, p \in PaidPlans : CompleteCheckout(s, p)
    \/ \E e \in inbox : Lose(e)

HandlerStep ==
    \/ HandleCheckout \/ HandleUpdated \/ HandleDeleted \/ CheckOthers
    \/ HandlePaid \/ HandleFailed \/ HandleReleased \/ WriteUser \/ WebBust

Request ==
    \/ \E s \in Subs, p \in PaidPlans : AskUpgrade(s, p) \/ AskDowngrade(s, p)
    \/ \E s \in Subs : AskCancel(s)

RequestStep ==
    \/ Release \/ ClearMarkers \/ Charge \/ ChargeFails \/ StoreUpgrade
    \/ Schedule \/ StoreDowngrade

WebStep == HandlerStep \/ RequestStep

RecStep == RecWrite \/ RecUser \/ RecBust \/ RecEnd \/ \E s \in Subs : Compare(s)
DunStep == DunUser \/ DunBust \/ \E s \in Subs : DunCancel(s)

Breaks ==
    \/ HandlerBreaks \/ RequestBreaks \/ ReleaseFails \/ RecBreaks \/ DunBreaks
    \/ \E s \in Subs : FetchFails(s)

Next ==
    \/ Stripe
    \/ FillRead \/ FillStore \/ CacheExpires
    \/ \E e \in inbox : Deliver(e)
    \/ Request \/ WebStep
    \/ RecStart \/ RecStep
    \/ DunStart \/ DunStep
    \/ Breaks

Spec == Init /\ [][Next]_vars

(* Stripe retries its events, oldest first as far as it can; a handler     *)
(* that is alive goes on; the scheduler starts each job every hour.        *)
FairSpec ==
    /\ Spec
    /\ WF_vars(\E e \in inbox : Deliver(e))
    /\ WF_vars(WebStep)
    /\ WF_vars(RecStart) /\ WF_vars(RecStep)
    /\ WF_vars(DunStart) /\ WF_vars(DunStep)

-----------------------------------------------------------------------------
(* Properties.                                                             *)

(* Neither users.plan nor a row ever shows a plan Stripe has not sold to   *)
(* the account, in whatever order events, requests and jobs write them.    *)
NeverGrantedUnpaid ==
    /\ userPlan # "free" => \E s \in Subs : <<s, userPlan>> \in charged
    /\ \A s \in Subs : row[s].plan # "free" => <<s, row[s].plan>> \in charged

AtRest == web = Idle /\ rec.at = "idle" /\ dun.at = "idle" /\ inbox = {}

(* The row of a subscription says what Stripe says of it.  Dunning may     *)
(* have cancelled what Stripe still tries to collect.                      *)
RowAgrees(s) ==
    LET t == stripe[s] IN
    /\ Live(t) => row[s].plan = t.plan
    /\ CASE t.status = "absent" -> row[s].status = "absent"
         [] t.status = "active" -> row[s].status = "active"
         [] t.status = "past_due" -> row[s].status \in {"past_due", "cancelled"}
         [] t.status = "canceled" -> row[s].status = "cancelled"

(* users.plan is the plan of the subscription that is tracked, or free.    *)
UserAgrees ==
    \/ userPlan = "free" /\ \A s \in Subs : ~Tracked(row[s])
    \/ \E s \in Subs : Tracked(row[s]) /\ userPlan = stripe[s].plan

(* When everything has come to rest, the account has what Stripe sells it, *)
(* unless something happened that this code does not handle: an event was  *)
(* lost or overtaken by an older one, the account had two subscriptions at *)
(* once, a job wrote over a row that had changed since it read it, or a    *)
(* request or a job broke off between two of its writes.                   *)
Excuses == {"lost", "reordered", "overlap", "race", "broken"}
DriftHasCause ==
    AtRest /\ causes \cap Excuses = {} => UserAgrees /\ \A s \in Subs : RowAgrees(s)

(* The marker of a pending downgrade goes with a schedule at Stripe, unless *)
(* besides these an event from before the schedule was handled after it,   *)
(* or a schedule could not be released.                                    *)
MarkerHasCause ==
    AtRest /\ causes \cap (Excuses \cup {"delayed", "unreleased"}) = {} =>
        \A s \in Subs : Live(stripe[s]) => row[s].pending = stripe[s].sched

(* A cached profile shows another plan than users.plan only while one who  *)
(* has written users.plan is about to delete it, unless a request stored   *)
(* what it had read before a change whose deletion was over, or a deletion *)
(* failed or its writer broke off before it.                               *)
CacheStaleHasCause ==
    Stale => BustComes \/ causes \cap {"overtaken", "unbusted"} # {}

(* Whatever was lost or broke off, a row that is tracked agrees with       *)
(* Stripe in the end: the reconciler sees to it.                           *)
RowsConverge ==
    \A s \in Subs : <>[](Tracked(row[s]) =>
        row[s].status = stripe[s].status /\ row[s].plan = stripe[s].plan)

(* A row past its grace period does not stay so.                           *)
GraceEnforced ==
    \A s \in Subs :
        row[s].status = "past_due" /\ row[s].since = "expired" ~>
            row[s].status # "past_due" \/ row[s].since # "expired"
=============================================================================
