---------------------------- MODULE WebhookDelivery ----------------------------
(***************************************************************************)
(* How a Stripe event is delivered and applied: the route /stripe, the     *)
(* deduplication of WebhookHandler.handle_event and the writes of its      *)
(* handlers (payments/webhook_handler.py).                                 *)
(*                                                                         *)
(* Stripe delivers an event until it is answered with a 200, may deliver   *)
(* it again after that, and may have two deliveries under way at once.  A  *)
(* web process handles a delivery without an await, so it handles one at a *)
(* time; every statement commits by itself, so a failure between two of    *)
(* them leaves the first one done.                                         *)
(*                                                                         *)
(* The balance a purchase raises is also read and written back, without a  *)
(* lock, by the request that spends a credit, by the job that hands one    *)
(* back and by an administrator.                                           *)
(***************************************************************************)
EXTENDS Integers, FiniteSets

CONSTANTS
    Events,         \* Stripe events, by id
    Accounts,       \* users
    Procs,          \* web processes
    Kind,           \* what the handler of an event writes
    Account,        \* the user an event is about
    Updates,        \* the other updates of a balance there are to come
    Does,           \* what an update is
    Of,             \* the user whose balance it updates
    MaxFaults,      \* bound: exceptions and crashes in one behaviour
    MaxDuplicates,  \* bound: deliveries beyond the retries of an unanswered event
    NoEvent,        \* the process handles no event
    NoUpdate        \* the process makes no update

(* "credit": checkout.session.completed in mode payment.                   *)
(* "plan": the events that write the subscriptions row and then, where the *)
(* account's plan is to follow, users.plan.                                *)
(* "none": events the handlers only log, or refuse to act upon.            *)
Kinds == {"credit", "plan", "none"}

(* "spend": consume_report_credit, "refund": refund_report_credit, "grant" *)
(* and "write_off": an administrator's adjust_credits.                     *)
Others == {"spend", "refund", "grant", "write_off"}

ASSUME DeliveryAssumption ==
    /\ IsFiniteSet(Events) /\ IsFiniteSet(Procs)
    /\ Kind \in [Events -> Kinds]
    /\ Account \in [Events -> Accounts]
    /\ MaxFaults \in Nat
    /\ MaxDuplicates \in Nat
    /\ NoEvent \notin Events
    /\ IsFiniteSet(Updates)
    /\ Does \in [Updates -> Others]
    /\ Of \in [Updates -> Accounts]
    /\ NoUpdate \notin Updates
    /\ Updates \cap Procs = {}

VARIABLES
    stage,    \* how far a process is with its delivery
    event,    \* the event a process is handling
    seen,     \* "current" in _handle_credit_purchase
    marked,   \* processed_webhook_events
    acked,    \* events Stripe got a 200 for
    rows,     \* events whose subscriptions row was written
    credits,  \* users.credits_remaining
    update,   \* how far an update is
    found,    \* "current" in the function that makes it
    busy,     \* the update a web process is making
    applied,  \* history: events whose handler has run to its end
    faults,   \* history: exceptions and crashes so far
    extra,    \* history: duplicate deliveries so far
    overtaken \* history: raises of a balance while another writer held its value

handlerVars == <<stage, event, seen, marked, acked, rows, applied, extra>>
updateVars == <<update, found, busy>>
otherVars == <<updateVars, overtaken>>
vars == <<stage, event, seen, marked, acked, rows, credits, update, found, busy,
          applied, faults, extra, overtaken>>

Stages == {"idle", "checked", "row", "read", "applied"}

TypeOK ==
    /\ stage \in [Procs -> Stages]
    /\ event \in [Procs -> Events \cup {NoEvent}]
    /\ seen \in [Procs -> Nat]
    /\ marked \subseteq Events
    /\ acked \subseteq Events
    /\ rows \subseteq Events
    /\ credits \in [Accounts -> Nat]
    /\ applied \subseteq Events
    /\ faults \in 0 .. MaxFaults
    /\ extra \in 0 .. MaxDuplicates
    /\ update \in [Updates -> {"due", "read", "done", "broken"}]
    /\ found \in [Updates -> Nat]
    /\ busy \in [Procs -> Updates \cup {NoUpdate}]
    /\ overtaken \in [Accounts -> Nat]

Init ==
    /\ stage = [p \in Procs |-> "idle"]
    /\ event = [p \in Procs |-> NoEvent]
    /\ seen = [p \in Procs |-> 0]
    /\ marked = {}
    /\ acked = {}
    /\ rows = {}
    /\ credits = [u \in Accounts |-> 0]
    /\ applied = {}
    /\ faults = 0
    /\ extra = 0
    /\ update = [t \in Updates |-> "due"]
    /\ found = [t \in Updates |-> 0]
    /\ busy = [p \in Procs |-> NoUpdate]
    /\ overtaken = [u \in Accounts |-> 0]

Handled == {event[p] : p \in Procs}

(* handle_event begins: an event in processed_webhook_events is answered   *)
(* at once, any other goes to its handler.                                 *)
Begin(e, p) ==
    /\ stage[p] = "idle" /\ busy[p] = NoUpdate
    /\ \/ /\ e \in marked
          /\ acked' = acked \cup {e}
          /\ UNCHANGED <<stage, event>>
       \/ /\ e \notin marked
          /\ stage' = [stage EXCEPT ![p] = "checked"]
          /\ event' = [event EXCEPT ![p] = e]
          /\ UNCHANGED acked

(* Stripe delivers an event it has no answer for ...                       *)
Deliver(e, p) ==
    /\ e \notin acked \cup Handled
    /\ Begin(e, p)
    /\ UNCHANGED <<seen, marked, rows, credits, applied, faults, extra, otherVars>>

(* ... or one that is answered, or still being handled elsewhere.          *)
Redeliver(e, p) ==
    /\ e \in acked \cup Handled
    /\ extra < MaxDuplicates
    /\ extra' = extra + 1
    /\ Begin(e, p)
    /\ UNCHANGED <<seen, marked, rows, credits, applied, faults, otherVars>>

(* The upsert on stripe_subscription_id.                                   *)
WriteRow(p) ==
    /\ stage[p] = "checked"
    /\ Kind[event[p]] = "plan"
    /\ rows' = rows \cup {event[p]}
    /\ stage' = [stage EXCEPT ![p] = "row"]
    /\ UNCHANGED <<event, seen, marked, acked, credits, applied, faults, extra, otherVars>>

(* The entitlement write: users.plan gets the plan of the event, if it is  *)
(* to follow; either way the handler has run to its end.                   *)
WriteUser(p) ==
    /\ stage[p] = "row"
    /\ applied' = applied \cup {event[p]}
    /\ stage' = [stage EXCEPT ![p] = "applied"]
    /\ UNCHANGED <<event, seen, marked, acked, rows, credits, faults, extra, otherVars>>

(* _handle_credit_purchase reads the balance ...                           *)
ReadBalance(p) ==
    /\ stage[p] = "checked"
    /\ Kind[event[p]] = "credit"
    /\ seen' = [seen EXCEPT ![p] = credits[Account[event[p]]]]
    /\ stage' = [stage EXCEPT ![p] = "read"]
    /\ UNCHANGED <<event, marked, acked, rows, credits, applied, faults, extra, otherVars>>

(* ... and writes it back one higher.                                      *)
Credited_WrongSign(n) == n - 1
Credited_Unchanged(n) == n
Credited_Twice(n) == n + 2
Credited(n) == n + 1

(* Who holds a value of the balance of u that is about to be written back. *)
Holding(u) ==
    {p \in Procs : stage[p] = "read" /\ Account[event[p]] = u}
        \cup {t \in Updates : update[t] = "read" /\ Of[t] = u}

(* The balance of u is raised behind the back of another writer, whose     *)
(* own write will undo that.                                               *)
Overtakes(u, writer) ==
    overtaken' = [overtaken EXCEPT ![u] = IF Holding(u) \ {writer} = {} THEN @ ELSE @ + 1]

WriteBalance(p) ==
    /\ stage[p] = "read"
    /\ credits' = [credits EXCEPT ![Account[event[p]]] = Credited(seen[p])]
    /\ applied' = applied \cup {event[p]}
    /\ stage' = [stage EXCEPT ![p] = "applied"]
    /\ Overtakes(Account[event[p]], p)
    /\ seen' = [seen EXCEPT ![p] = 0]
    /\ UNCHANGED <<event, marked, acked, rows, faults, extra, updateVars>>

(* An event that is not handled, or whose metadata is refused.             *)
PassOver(p) ==
    /\ stage[p] = "checked"
    /\ Kind[event[p]] = "none"
    /\ applied' = applied \cup {event[p]}
    /\ stage' = [stage EXCEPT ![p] = "applied"]
    /\ UNCHANGED <<event, seen, marked, acked, rows, credits, faults, extra, otherVars>>

-----------------------------------------------------------------------------
(* The other writers of the balance.                                       *)

(* A refund is made by the worker, or by a thread beside the event loop;   *)
(* the others are made by a web process between two awaits.                *)
InWeb(t) == Does[t] # "refund"
Adds(t) == Does[t] \in {"refund", "grant"}

UpdateRead(t) ==
    /\ update[t] = "due"
    /\ \/ /\ InWeb(t)
          /\ \E p \in Procs :
                /\ stage[p] = "idle" /\ busy[p] = NoUpdate
                /\ busy' = [busy EXCEPT ![p] = t]
       \/ ~InWeb(t) /\ UNCHANGED busy
    /\ update' = [update EXCEPT ![t] = "read"]
    /\ found' = [found EXCEPT ![t] = credits[Of[t]]]
    /\ UNCHANGED <<handlerVars, credits, faults, overtaken>>

EndUpdate(t, how) ==
    /\ update' = [update EXCEPT ![t] = how]
    /\ busy' = [p \in Procs |-> IF busy[p] = t THEN NoUpdate ELSE busy[p]]
    /\ found' = [found EXCEPT ![t] = 0]

UpdateWrite(t) ==
    /\ update[t] = "read"
    /\ \/ /\ Adds(t)
          /\ credits' = [credits EXCEPT ![Of[t]] = found[t] + 1]
          /\ Overtakes(Of[t], t)
       \/ /\ ~Adds(t)
          /\ credits' = [credits EXCEPT ![Of[t]] = IF found[t] = 0 THEN 0 ELSE found[t] - 1]
          /\ UNCHANGED overtaken
    /\ EndUpdate(t, "done")
    /\ UNCHANGED <<handlerVars, faults>>

-----------------------------------------------------------------------------
(* Failures and answers.                                                   *)

Fault == faults < MaxFaults /\ faults' = faults + 1

Finish(p) ==
    /\ stage' = [stage EXCEPT ![p] = "idle"]
    /\ event' = [event EXCEPT ![p] = NoEvent]
    /\ seen' = [seen EXCEPT ![p] = 0]

(* The marker is inserted when the handler is done and the delivery is     *)
(* answered.  An insert that raises, because the marker is there already   *)
(* or for any other reason, is logged and answered with a 200 all the same.*)
Marks_Early(p) == stage[p] \in {"checked", "applied"}
Marks(p) == stage[p] = "applied"
Record(p) ==
    /\ Marks(p)
    /\ acked' = acked \cup {event[p]}
    /\ \/ marked' = marked \cup {event[p]} /\ UNCHANGED faults
       \/ Fault /\ UNCHANGED marked
    /\ Finish(p)
    /\ UNCHANGED <<rows, credits, applied, extra, otherVars>>

(* A statement of the handler raises: the route answers 500.  The last one *)
(* may raise after its commit, when the client reads the row back.         *)
MayRaise(p) ==
    \/ stage[p] \in {"checked", "row", "read"}
    \/ stage[p] = "applied" /\ Kind[event[p]] # "none"

Raise_Swallowed(p) ==
    /\ MayRaise(p)
    /\ Fault
    /\ acked' = acked \cup {event[p]}
    /\ Finish(p)
    /\ UNCHANGED <<marked, rows, credits, applied, extra, otherVars>>
Raise(p) ==
    /\ MayRaise(p)
    /\ Fault
    /\ Finish(p)
    /\ UNCHANGED <<marked, acked, rows, credits, applied, extra, otherVars>>

(* The process dies, at whatever statement it is: perhaps with the marker  *)
(* stored and the answer not sent.                                         *)
Crash(p) ==
    /\ stage[p] # "idle"
    /\ Fault
    /\ \/ UNCHANGED marked
       \/ Marks(p) /\ marked' = marked \cup {event[p]}
    /\ Finish(p)
    /\ UNCHANGED <<acked, rows, credits, applied, extra, otherVars>>

(* An update breaks off before its write: an exception, a crash, a killed  *)
(* worker.  Nothing takes it up again.                                     *)
UpdateBreaks(t) ==
    /\ update[t] = "read"
    /\ Fault
    /\ EndUpdate(t, "broken")
    /\ UNCHANGED <<handlerVars, credits, overtaken>>

HandlerStep(p) ==
    \/ WriteRow(p) \/ WriteUser(p) \/ ReadBalance(p) \/ WriteBalance(p)
    \/ PassOver(p) \/ Record(p)

Next ==
    \/ \E e \in Events, p \in Procs : Deliver(e, p) \/ Redeliver(e, p)
    \/ \E p \in Procs : HandlerStep(p) \/ Raise(p) \/ Crash(p)
    \/ \E t \in Updates : UpdateRead(t) \/ UpdateWrite(t) \/ UpdateBreaks(t)

Spec == Init /\ [][Next]_vars

(* Stripe retries what was not answered, for three days; processes that    *)
(* are alive go on with a delivery or an update.                           *)
Progress ==
    \/ \E p \in Procs : HandlerStep(p)
    \/ \E t \in Updates : UpdateWrite(t)

FairSpec ==
    /\ Spec
    /\ WF_vars(\E e \in Events, p \in Procs : Deliver(e, p))
    /\ WF_vars(Progress)

-----------------------------------------------------------------------------
(* Properties.                                                             *)

(* Stripe stops retrying, and later deliveries are skipped, only for       *)
(* events whose handler ran to its end: otherwise a customer would be      *)
(* "charged but never upgraded".                                           *)
SettledIsApplied ==
    /\ acked \cup marked \subseteq applied
    /\ \A e \in applied : Kind[e] = "plan" => e \in rows

Bought(u) == {e \in applied : Kind[e] = "credit" /\ Account[e] = u}

Added(u) == {t \in Updates : Of[t] = u /\ update[t] = "done" /\ Adds(t)}
Taken(u) == {t \in Updates : Of[t] = u /\ update[t] = "done" /\ ~Adds(t)}

(* The balance covers what was bought, handed back and granted, less what  *)
(* was spent and written off.  What it lacks was raised while another      *)
(* writer held the value it had before, and each such raise costs at most  *)
(* the credit it brought.  One web process alone overtakes nobody: it      *)
(* takes a second one, or a job that hands a credit back, to lose one.     *)
CreditsCoverPurchases ==
    \A u \in Accounts :
        /\ credits[u] >= Cardinality(Bought(u)) + Cardinality(Added(u))
                           - Cardinality(Taken(u)) - overtaken[u]
        /\ Cardinality(Procs) = 1 /\ (\A t \in Updates : Of[t] = u /\ ~InWeb(t) => update[t] = "due")
             => overtaken[u] = 0

(* A replay may add a credit again, but only when a delivery broke off     *)
(* after its write, its marker was not stored, or it was delivered twice;  *)
(* and no crossing of two updates makes a credit up.                       *)
ReplaysBounded ==
    \A u \in Accounts :
        credits[u] <= Cardinality(Bought(u)) + Cardinality(Added(u)) + faults + extra

(* Every event is applied in the end, whatever broke off on the way.       *)
EveryEventApplied == <>(Events \subseteq applied)

(* "The handlers' DB writes are idempotent ..., so reprocessing converges  *)
(* rather than double-applying": no more credits than purchases.           *)
AppliedOnce ==
    \A u \in Accounts : credits[u] <= Cardinality(Bought(u)) + Cardinality(Added(u))
=============================================================================
