---------------------------- MODULE B2BDelivery ----------------------------
(***************************************************************************)
(* Business-intelligence contracts and their recurring deliveries           *)
(* (src/app/modules/b2b/): a row of b2b_subscriptions is written by a       *)
(* claimed invitation or by a completed checkout, and a daily job of the    *)
(* process that holds the scheduler's advisory lock (src/app/core/          *)
(* scheduler.py) reports each due row's completed months, one row at a      *)
(* time: request, render and mail, advance the due date.                    *)
(*                                                                          *)
(* Time is counted in months: add_months clamps the day and never leaves    *)
(* the month it computes, so the month alone decides which months a         *)
(* delivery covers. All invitations are for one address and one product.    *)
(* The web endpoints contain no await and run on one event loop, so each    *)
(* is one step unless something breaks it off between two commits.          *)
(***************************************************************************)
EXTENDS Integers, FiniteSets

CONSTANTS
    Subs,       \* ids of rows of b2b_subscriptions
    Sold,       \* the delivery frequency each row is written with
    Invites,    \* ids of rows of the invitations table
    Sections,   \* sections of the product's template
    Procs,      \* processes that call start_scheduler
    Thin,       \* months with too few consented signals for a report
    LastMonth,  \* bound: the last month of the model
    MaxTurns,   \* bound: decisions of administrators, customers and Stripe
    MaxFaults,  \* bound: failures
    Nobody      \* no row, no process, no invitation

ASSUME ConstantsOK ==
    /\ LastMonth \in Nat /\ MaxTurns \in Nat /\ MaxFaults \in Nat
    /\ Nobody \notin Subs \cup Invites \cup Procs \cup {"checkout", "stray", "cut"}
    /\ "checkout" \notin Invites /\ "stray" \notin Invites /\ "cut" \notin Procs
    /\ Sold \in [Subs -> {"monthly", "quarterly"}]

VARIABLES
    now,      \* the current month
    row,      \* the columns of a row the job reads, "none" before the insert
    origin,   \* history: what wrote the row and in which month
    invite,   \* status, expiry and b2b_subscription_id of an invitation
    claim,    \* the claim whose row is inserted and not yet marked accepted
    grants,   \* exclusive entitlements in force, <<row, section>>
    proc,     \* "down", "standby" (runs no scheduler), "lead", "unaware" (leads
              \* on without the lock), "leaving"
    lock,     \* whose session holds the advisory lock; "cut" for a dead session
    job,      \* the delivery job of a process
    fate,     \* the last request that covers a month: "processing", or "settled"
              \* as completed, held or failed
    mailed,   \* history: months mailed to the customer
    again,    \* history: months mailed more than once
    leaked,   \* history: sections mailed though withheld at the request
    why,      \* history: what happened to a row that excuses a repetition
    torn,     \* history: invitations whose claim broke off before the mark
    turns, faults

contract == <<row, origin, invite, claim>>
schedule == <<proc, lock, job>>
reports  == <<fate, mailed, again, leaked>>
budget   == <<turns, faults>>
vars == <<now, contract, grants, schedule, reports, why, torn, budget>>

Months == 0 .. LastMonth
\* A due date lies up to a quarter ahead, a period up to a quarter back.
DueMonths == 0 .. LastMonth + 3
Covered   == -3 .. LastMonth + 2
Freqs  == {"monthly", "quarterly"}
Causes == {"cut off", "two jobs", "replay", "frequency", "rescheduled", "late"}
Fates  == {"none", "processing", "settled"}
\* A checkout's metadata names the user; user_id has no foreign key, and the job
\* finds no user or no address for a "stray" row.
Checkouts == {"checkout", "stray"}

interval(freq) == IF freq = "quarterly" THEN 3 ELSE 1

NoRow   == [status |-> "none", freq |-> "monthly", next |-> 0]
NoClaim == [invite |-> Nobody, sub |-> Nobody]
NoJob   == [pc |-> "idle", at |-> 0, cur |-> Nobody, left |-> {},
            due |-> [s \in Subs |-> NoRow], open |-> {}]

Init ==
    /\ now = 0
    /\ row = [s \in Subs |-> NoRow]
    /\ origin = [s \in Subs |-> [by |-> Nobody, in |-> 0]]
    /\ invite = [i \in Invites |-> [status |-> "none", lapsed |-> FALSE, sub |-> Nobody]]
    /\ claim = NoClaim
    /\ grants = {}
    /\ proc = [p \in Procs |-> "down"]
    /\ lock = Nobody
    /\ job = [p \in Procs |-> NoJob]
    /\ fate = [s \in Subs |-> [m \in Covered |-> "none"]]
    /\ mailed = [s \in Subs |-> {}]
    /\ again = [s \in Subs |-> {}]
    /\ leaked = {}
    /\ why = [s \in Subs |-> {}]
    /\ torn = {}
    /\ turns = 0 /\ faults = 0

(***************************************************************************)
(* Invitations.                                                            *)
(***************************************************************************)
WebFree == claim = NoClaim
Turn  == turns < MaxTurns /\ turns' = turns + 1 /\ UNCHANGED faults
Fault == faults < MaxFaults /\ faults' = faults + 1 /\ UNCHANGED turns

\* Expiry is computed from the clock, never stored.
effective_status(i) ==
    IF invite[i].status = "pending" /\ invite[i].lapsed THEN "expired" ELSE invite[i].status

Claimable(i) == effective_status(i) = "pending"

Issue(i) ==
    /\ WebFree
    /\ invite[i].status = "none"
    /\ \A j \in Invites : ~Claimable(j)
    /\ invite' = [invite EXCEPT ![i].status = "pending"]
    /\ UNCHANGED <<now, row, origin, claim, grants, schedule, reports, why, torn, budget>>

\* Resending revives an expired invitation, and asks nothing of the others.
Resend(i) ==
    /\ WebFree /\ Turn
    /\ effective_status(i) \in {"pending", "expired"}
    /\ invite' = [invite EXCEPT ![i].status = "pending", ![i].lapsed = FALSE]
    /\ UNCHANGED <<now, row, origin, claim, grants, schedule, reports, why, torn>>

Revoke(i) ==
    /\ WebFree /\ Turn
    /\ effective_status(i) \in {"pending", "expired"}
    /\ invite' = [invite EXCEPT ![i].status = "revoked"]
    /\ UNCHANGED <<now, row, origin, claim, grants, schedule, reports, why, torn>>

\* Time runs past expires_at.
Lapse(i) ==
    /\ WebFree /\ Turn
    /\ Claimable(i)
    /\ invite' = [invite EXCEPT ![i].lapsed = TRUE]
    /\ UNCHANGED <<now, row, origin, claim, grants, schedule, reports, why, torn>>

\* A fresh row: active, due one interval from now.
Fresh(s) == row[s].status = "none"
Written(s) == [status |-> "active", freq |-> Sold[s], next |-> now + interval(Sold[s])]

AcceptCreate_AnyStatus(i, s) ==
    /\ WebFree
    /\ invite[i].status # "none"
    /\ Fresh(s)
    /\ row' = [row EXCEPT ![s] = Written(s)]
    /\ origin' = [origin EXCEPT ![s] = [by |-> i, in |-> now]]
    /\ claim' = [invite |-> i, sub |-> s]
    /\ UNCHANGED <<now, invite, grants, schedule, reports, why, torn, budget>>

\* accept, up to the commit of the subscription; the link is the latest one and
\* the account is the invited one, or nothing happens.
AcceptCreate(i, s) ==
    /\ WebFree
    /\ Claimable(i)
    /\ Fresh(s)
    /\ row' = [row EXCEPT ![s] = Written(s)]
    /\ origin' = [origin EXCEPT ![s] = [by |-> i, in |-> now]]
    /\ claim' = [invite |-> i, sub |-> s]
    /\ UNCHANGED <<now, invite, grants, schedule, reports, why, torn, budget>>

\* accept, the rest: the invitation is marked with the row it created.
AcceptMark ==
    /\ claim # NoClaim
    /\ invite' = [invite EXCEPT ![claim.invite].status = "accepted",
                                ![claim.invite].sub = claim.sub]
    /\ claim' = NoClaim
    /\ UNCHANGED <<now, row, origin, grants, schedule, reports, why, torn, budget>>

\* The process dies or the update fails: the row stands, the invitation too.
AcceptBreaks ==
    /\ claim # NoClaim /\ Fault
    /\ torn' = torn \cup {claim.invite}
    /\ claim' = NoClaim
    /\ UNCHANGED <<now, row, origin, invite, grants, schedule, reports, why>>

(***************************************************************************)
(* Changes of a row by Stripe and by administrators. The job reads only     *)
(* rows in status "active"; every other status is "off" here.               *)
(***************************************************************************)
Excuse(s, cause) == why' = [why EXCEPT ![s] = @ \cup {cause}]

\* checkout.session.completed: an upsert on stripe_subscription_id. A replayed
\* event finds the row, reactivates it and starts its due date over.
CheckoutCompleted(s) ==
    /\ WebFree
    /\ \/ Fresh(s)
          /\ \E by \in Checkouts : origin' = [origin EXCEPT ![s] = [by |-> by, in |-> now]]
          /\ UNCHANGED <<why, budget>>
       \/ origin[s].by \in Checkouts /\ Turn /\ Excuse(s, "replay") /\ UNCHANGED origin
    /\ row' = [row EXCEPT ![s] = Written(s)]
    /\ UNCHANGED <<now, invite, claim, grants, schedule, reports, torn>>

\* subscription.updated, subscription.deleted, or PATCH of the status.
SetStatus(s) ==
    /\ WebFree /\ Turn
    /\ ~Fresh(s)
    /\ row' = [row EXCEPT ![s].status = IF @ = "active" THEN "off" ELSE "active"]
    /\ UNCHANGED <<now, origin, invite, claim, grants, schedule, reports, why, torn>>

\* PATCH of the frequency leaves the due date as it is.
SetFrequency(s) ==
    /\ WebFree /\ Turn
    /\ ~Fresh(s)
    /\ row' = [row EXCEPT ![s].freq = IF @ = "monthly" THEN "quarterly" ELSE "monthly"]
    /\ Excuse(s, "frequency")
    /\ UNCHANGED <<now, origin, invite, claim, grants, schedule, reports, torn>>

\* PATCH of next_delivery_at, to any moment.
SetNext(s) ==
    /\ WebFree /\ Turn
    /\ ~Fresh(s)
    /\ \E m \in Months : row' = [row EXCEPT ![s].next = m]
    /\ Excuse(s, "rescheduled")
    /\ UNCHANGED <<now, origin, invite, claim, grants, schedule, reports, torn>>

(***************************************************************************)
(* Exclusive entitlements.                                                  *)
(***************************************************************************)
\* A section is withheld from a row when another one holds it.
withheld(s) == {x \in Sections : \E t \in Subs \ {s} : <<t, x>> \in grants}
allowed(s)  == Sections \ withheld(s)

\* Granting an exclusive section another row holds is refused.
Grant(s, x) ==
    /\ WebFree /\ Turn
    /\ ~Fresh(s)
    /\ x \notin withheld(s)
    /\ <<s, x>> \notin grants
    /\ grants' = grants \cup {<<s, x>>}
    /\ UNCHANGED <<now, contract, schedule, reports, why, torn>>

\* The entitlement is deleted, or its reversion date is reached.
Revert(s, x) ==
    /\ WebFree
    /\ <<s, x>> \in grants
    /\ grants' = grants \ {<<s, x>>}
    /\ UNCHANGED <<now, contract, schedule, reports, why, torn, budget>>

(***************************************************************************)
(* The scheduler of a process and its advisory lock.                        *)
(***************************************************************************)
Running(p) == job[p].pc # "idle"

Start_NoLock(p) ==
    /\ proc[p] = "down"
    /\ proc' = [proc EXCEPT ![p] = "lead"]
    /\ lock' = IF lock = Nobody THEN p ELSE lock
    /\ UNCHANGED <<now, contract, grants, job, reports, why, torn, budget>>

\* The lock is tried once, at startup; without it the process never schedules.
Start(p) ==
    /\ proc[p] = "down"
    /\ proc' = [proc EXCEPT ![p] = IF lock = Nobody THEN "lead" ELSE "standby"]
    /\ lock' = IF lock = Nobody THEN p ELSE lock
    /\ UNCHANGED <<now, contract, grants, job, reports, why, torn, budget>>

\* shutdown(wait=False) lets a running job finish, and the lock is released
\* before it has.
Stop(p) ==
    /\ Turn
    /\ proc[p] \in {"standby", "lead", "unaware"}
    /\ proc' = [proc EXCEPT ![p] = IF Running(p) THEN "leaving" ELSE "down"]
    /\ lock' = IF lock = p THEN Nobody ELSE lock
    /\ UNCHANGED <<now, contract, grants, job, reports, why, torn>>

\* The job of p ends where it stands. Its row was mailed and stays due.
JobEnds(p) ==
    /\ job' = [job EXCEPT ![p] = NoJob]
    /\ IF job[p].pc \in {"requested", "processed"}
         THEN Excuse(job[p].cur, "cut off")
         ELSE UNCHANGED why

\* A crash; the database may notice the dead session only later.
Crash(p) ==
    /\ Fault
    /\ proc[p] # "down"
    /\ proc' = [proc EXCEPT ![p] = "down"]
    /\ IF lock = p THEN lock' \in {Nobody, "cut"} ELSE UNCHANGED lock
    /\ JobEnds(p)
    /\ UNCHANGED <<now, contract, grants, reports, torn>>

\* The connection that holds the lock is lost; the scheduler does not notice.
LoseLock(p) ==
    /\ Fault
    /\ lock = p
    /\ lock' = Nobody
    /\ proc' = [proc EXCEPT ![p] = "unaware"]
    /\ UNCHANGED <<now, contract, grants, job, reports, why, torn>>

LockFreed ==
    /\ lock = "cut"
    /\ lock' = Nobody
    /\ UNCHANGED <<now, contract, grants, proc, job, reports, why, torn, budget>>

Leaves(p) ==
    /\ proc[p] = "leaving" /\ ~Running(p)
    /\ proc' = [proc EXCEPT ![p] = "down"]
    /\ UNCHANGED <<now, contract, grants, lock, job, reports, why, torn, budget>>

(***************************************************************************)
(* run_due_b2b_auto_deliveries.                                             *)
(***************************************************************************)
Due(s) == row[s].status = "active" /\ row[s].next <= now

\* The rows still to be reported by a running job, as it read them.
Pending(p) == IF Running(p) THEN job[p].left ELSE {}

\* The snapshot: active rows whose due date has passed. Two jobs at once see
\* the same due date.
JobStart(p) ==
    /\ proc[p] \in {"lead", "unaware"} /\ ~Running(p)
    /\ \E s \in Subs : Due(s)
    /\ LET due == {s \in Subs : Due(s)}
           shared == due \cap UNION {Pending(q) : q \in Procs \ {p}}
       IN  /\ job' = [job EXCEPT ![p] =
                 [NoJob EXCEPT !.pc = "loop", !.at = now, !.left = due,
                               !.due = [s \in Subs |-> IF s \in due THEN row[s] ELSE NoRow]]]
           /\ why' = [s \in Subs |->
                         IF s \in shared THEN why[s] \cup {"two jobs"} ELSE why[s]]
    /\ UNCHANGED <<now, contract, grants, proc, lock, reports, torn, budget>>

Period_FromDue(due) == due.next .. (due.next + interval(due.freq) - 1)
Period_ThroughToday(due) == (due.next - interval(due.freq)) .. due.next
\* The completed months a delivery covers.
Period(due) == (due.next - interval(due.freq)) .. (due.next - 1)

InHand(p) == Period(job[p].due[job[p].cur])

SetFate(s, months, f) ==
    fate' = [fate EXCEPT ![s] = [m \in Covered |-> IF m \in months THEN f ELSE @[m]]]

Orphan(s) == origin[s].by = "stray"

\* A due row without a user to mail is passed over, and stays due.
Skip(p, s) ==
    /\ job[p].pc = "loop" /\ s \in job[p].left
    /\ Orphan(s)
    /\ job' = [job EXCEPT ![p].left = @ \ {s}]
    /\ UNCHANGED <<now, contract, grants, proc, lock, reports, why, torn, budget>>

\* A row of the snapshot whose product is not wholly withheld: its request.
CreateRequest(p, s) ==
    /\ job[p].pc = "loop" /\ s \in job[p].left
    /\ ~Orphan(s)
    /\ allowed(s) # {}
    /\ job' = [job EXCEPT ![p].pc = "requested", ![p].cur = s, ![p].open = allowed(s)]
    /\ SetFate(s, Period(job[p].due[s]), "processing")
    /\ UNCHANGED <<now, contract, grants, proc, lock, mailed, again, leaked, why, torn, budget>>

\* Wholly withheld: EntitlementScopeError, which nothing in the loop catches.
RequestRefused(p, s) ==
    /\ job[p].pc = "loop" /\ s \in job[p].left
    /\ ~Orphan(s)
    /\ allowed(s) = {}
    /\ job' = [job EXCEPT ![p] = NoJob]
    /\ UNCHANGED <<now, contract, grants, proc, lock, reports, why, torn, budget>>

Mail(p) ==
    LET s == job[p].cur
        months == InHand(p)
    IN  /\ again'  = [again EXCEPT ![s] = @ \cup (months \cap mailed[s])]
        /\ mailed' = [mailed EXCEPT ![s] = @ \cup months]
        \* Rendering takes the whole template, the scope of the request is not asked.
        /\ leaked' = leaked \cup (Sections \ job[p].open)

Settle(p) ==
    /\ SetFate(job[p].cur, InHand(p), "settled")
    /\ job' = [job EXCEPT ![p].pc = "processed"]
    /\ UNCHANGED <<now, contract, grants, proc, lock, why, torn>>

\* process_request: rendered, stored and mailed. A mail that raises marks the
\* completed request failed, which the job does not look at.
Deliver(p) ==
    /\ job[p].pc = "requested"
    /\ ~(InHand(p) \subseteq Thin)
    /\ Mail(p) /\ Settle(p)
    /\ UNCHANGED budget

Hold_Silent(p) ==
    /\ job[p].pc = "requested"
    /\ InHand(p) \subseteq Thin
    /\ job' = [job EXCEPT ![p].pc = "processed"]
    /\ UNCHANGED <<now, contract, grants, proc, lock, reports, why, torn, budget>>

Hold_EndsJob(p) ==
    /\ job[p].pc = "requested"
    /\ InHand(p) \subseteq Thin
    /\ SetFate(job[p].cur, InHand(p), "settled")
    /\ job' = [job EXCEPT ![p] = NoJob]
    /\ UNCHANGED <<now, contract, grants, proc, lock, mailed, again, leaked, why, torn, budget>>

\* process_request: held below the privacy floor, and nobody asks again.
Hold(p) ==
    /\ job[p].pc = "requested"
    /\ InHand(p) \subseteq Thin
    /\ Settle(p)
    /\ UNCHANGED <<mailed, again, leaked, budget>>

\* process_request: an exception before any mail marks the request failed.
Fail(p) ==
    /\ job[p].pc = "requested"
    /\ Fault /\ Settle(p)
    /\ UNCHANGED <<mailed, again, leaked>>

NextDelivery_OffByOne(due, at) == at + interval(due.freq) + 1

\* The first due date after the start of the job, whole intervals on.
NextDelivery(due, at) ==
    CHOOSE n \in due.next + 1 .. at + 3 :
        /\ n > at
        /\ (n - due.next) % interval(due.freq) = 0
        /\ n - interval(due.freq) <= at

\* The due date is written from the snapshot, whatever the row holds by now;
\* a job that comes an interval late passes over the months it missed.
Advance(p) ==
    /\ job[p].pc = "processed"
    /\ LET s   == job[p].cur
           due == job[p].due[s]
           nxt == NextDelivery(due, job[p].at)
       IN  /\ row' = [row EXCEPT ![s].next = nxt]
           /\ job' = [job EXCEPT ![p].pc = "loop", ![p].left = @ \ {s},
                                 ![p].cur = Nobody, ![p].open = {}]
           /\ IF nxt > due.next + interval(due.freq) THEN Excuse(s, "late") ELSE UNCHANGED why
    /\ UNCHANGED <<now, origin, invite, claim, grants, proc, lock, reports, torn, budget>>

JobDone(p) ==
    /\ job[p].pc = "loop" /\ job[p].left = {}
    /\ job' = [job EXCEPT ![p] = NoJob]
    /\ UNCHANGED <<now, contract, grants, proc, lock, reports, why, torn, budget>>

\* A statement of the job raises; the scheduler reports it and goes on.
JobRaises(p) ==
    /\ Running(p) /\ Fault
    /\ JobEnds(p)
    /\ UNCHANGED <<now, contract, grants, proc, lock, reports, torn>>

\* A claim or a job does not take a month.
Tick ==
    /\ now < LastMonth
    /\ WebFree /\ \A p \in Procs : ~Running(p)
    /\ now' = now + 1
    /\ UNCHANGED <<contract, grants, schedule, reports, why, torn, budget>>

JobStep(p) ==
    \/ \E s \in Subs : Skip(p, s) \/ CreateRequest(p, s) \/ RequestRefused(p, s)
    \/ Deliver(p) \/ Hold(p) \/ Advance(p) \/ JobDone(p)

Next ==
    \/ \E i \in Invites : Issue(i) \/ Resend(i) \/ Revoke(i) \/ Lapse(i)
    \/ \E i \in Invites, s \in Subs : AcceptCreate(i, s)
    \/ AcceptMark \/ AcceptBreaks
    \/ \E s \in Subs : CheckoutCompleted(s) \/ SetStatus(s) \/ SetFrequency(s) \/ SetNext(s)
    \/ \E s \in Subs, x \in Sections : Grant(s, x) \/ Revert(s, x)
    \/ \E p \in Procs : Start(p) \/ Stop(p) \/ Crash(p) \/ LoseLock(p) \/ Leaves(p)
    \/ LockFreed
    \/ \E p \in Procs : JobStart(p) \/ JobStep(p) \/ Fail(p) \/ JobRaises(p)
    \/ Tick

Spec == Init /\ [][Next]_vars
-----------------------------------------------------------------------------
TypeOK ==
    /\ now \in Months
    /\ row \in [Subs -> [status : {"none", "active", "off"}, freq : Freqs, next : DueMonths]]
    /\ origin \in [Subs -> [by : Invites \cup Checkouts \cup {Nobody}, in : Months]]
    /\ invite \in [Invites -> [status : {"none", "pending", "accepted", "revoked"},
                                lapsed : BOOLEAN, sub : Subs \cup {Nobody}]]
    /\ claim \in [invite : Invites \cup {Nobody}, sub : Subs \cup {Nobody}]
    /\ grants \subseteq Subs \X Sections
    /\ proc \in [Procs -> {"down", "standby", "lead", "unaware", "leaving"}]
    /\ lock \in Procs \cup {"cut", Nobody}
    /\ job \in [Procs ->
           [pc : {"idle", "loop", "requested", "processed"}, at : Months,
            cur : Subs \cup {Nobody}, left : SUBSET Subs,
            due : [Subs -> [status : {"none", "active", "off"}, freq : Freqs, next : DueMonths]],
            open : SUBSET Sections]]
    /\ fate \in [Subs -> [Covered -> Fates]]
    /\ mailed \in [Subs -> SUBSET Covered]
    /\ again \in [Subs -> SUBSET Covered]
    /\ leaked \subseteq Sections
    /\ why \in [Subs -> SUBSET Causes]
    /\ torn \subseteq Invites
    /\ turns \in 0 .. MaxTurns /\ faults \in 0 .. MaxFaults

\* No month is mailed twice to a customer unless the job was cut off between
\* the mail and the new due date, two jobs had read the same due date, a checkout
\* event was replayed, or an administrator changed frequency or due date.
RepeatHasCause == \A s \in Subs : again[s] # {} => why[s] \ {"late"} # {}

\* Every month between the first and the period next due has been requested,
\* unless the job came an interval late or the due date was moved from outside.
NoSilentGap ==
    \A s \in Subs : ~Fresh(s) =>
        \/ why[s] \cap {"late", "replay", "frequency", "rescheduled"} # {}
        \/ \A m \in origin[s].in .. row[s].next - interval(row[s].freq) - 1 : fate[s][m] # "none"

\* What is mailed covers completed months only, whatever moved the due date.
CompletedMonthsOnly == \A s \in Subs : \A m \in mailed[s] : m < now

\* An invitation yields one subscription, and once accepted names it, unless a
\* claim broke off between the insert and the mark and was tried again.
ClaimedOnce ==
    \A i \in Invites :
        /\ Cardinality({s \in Subs : origin[s].by = i}) <= 1 \/ i \in torn
        /\ invite[i].status = "accepted" =>
             \E s \in Subs : invite[i].sub = s /\ origin[s].by = i

\* A request that stays in "processing" is in the hands of a job, or its job was
\* cut off: nothing sweeps such requests.
ProcessingIsRunning ==
    \A s \in Subs, m \in Covered :
        fate[s][m] = "processing" =>
            \/ \E p \in Procs : job[p].pc = "requested" /\ job[p].cur = s /\ m \in InHand(p)
            \/ "cut off" \in why[s]

\* Schedules deliveries or is in the middle of one.
AtWork(p) == proc[p] \in {"lead", "unaware"} \/ Running(p)

\* Two processes are at work at once only when one of them lost the connection
\* that held the lock, or gave the lock up at shutdown with a job still running.
OneScheduler ==
    \A p, q \in Procs :
        p # q /\ AtWork(p) /\ AtWork(q) => {proc[p], proc[q]} \cap {"unaware", "leaving"} # {}

\* A job that ends has moved every due date it found past its own start, those
\* of rows without a user apart, unless a statement raised, the process died, or
\* a product on its list is wholly withheld: that one keeps all rows after it
\* waiting.
SweepComplete ==
    [][\A p \in Procs : Running(p) /\ ~Running(p)' =>
          \/ faults' > faults
          \/ \E t \in job[p].left : ~Orphan(t) /\ allowed(t) = {}
          \/ \A s \in Subs : job[p].due[s] # NoRow =>
                 row[s].next > job[p].at \/ Orphan(s) \/ "rescheduled" \in why[s]]_vars

\* A report leaves out the sections its request found licensed to another client.
NothingWithheldMailed == leaked = {}
=============================================================================
