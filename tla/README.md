# Prodculator backend: TLA+ models, checks and proofs

Prodculator sells script analysis reports. The backend is a FastAPI application
(`src/app`) over Postgres, with Redis as cache and queue broker, one RQ worker,
Stripe for payments, a language model for analysis, S3 for PDFs and APScheduler
for recurring jobs. This directory models the parts of it in which several
actors share state and money is at stake.

- `*.tla` modules, `*.cfg` TLC configurations, `PROJECT.json` the index: which
  definition models which lines, which run checks what, which theorem proves what.
- `tlc -config ReportJobs_queue.cfg MCReportJobs.tla` checks an instance,
  `tlapm ReportJobsProofs.tla` checks the proofs.

## 1. Inventory

How the code behaves everywhere, and what every model takes from it:

- `core/database_client.py`: every insert, update, delete and upsert commits by
  itself. There are no transactions over two statements, no row locks and no
  compare-and-set, so each "read, compute, write" is two steps. An update of a
  row that is gone matches nothing and raises nothing. Nothing rolls a session
  back after a failed statement (the webhook handler does it in two places).
- A web process runs `async def` handlers on one event loop and the database
  client is synchronous: between two `await`s a handler is alone in its process,
  but not against the worker, the scheduler threads or another web process.
- The deployment (`docker-compose`) has one web process and one worker.

| Component | State it keeps | Operations | Talks to | What is hard |
|---|---|---|---|---|
| Report submission and job (`modules/reports/router.py`, `service.py`, `core/queue.py`, `worker.py`) | `reports`, `report_usage_events`, `users.credits_remaining`, `_recent_submissions` in process memory | create, delete, `process_report_task` | subscriptions, RQ, model, S3 | charging before the outcome is known, refund after failure, crash and partial failure, duplicates |
| Stripe events (`modules/payments/webhook_handler.py`) | `processed_webhook_events`, the rows the events are about | nine event types | Stripe | at-least-once, out-of-order, lost deliveries |
| Subscriptions, dunning, reconciler (`modules/subscriptions/service.py`, `modules/payments/dunning.py`, `reconciler.py`) | `subscriptions`, `users.plan` | gate, change plan, cancel change, grace check, drift correction | Stripe, profile cache | local writes after remote calls, snapshots acted on later, convergence |
| Profile cache, authentication (`core/dependencies.py`, `core/security.py`, `modules/auth`) | Redis `user_profile:*`, token blocklist | login, refresh, logout, fill, bust | users | fill racing a bust |
| Scheduler (`core/scheduler.py`) | advisory lock | six recurring jobs | everything | singleton, threads beside the event loop |
| B2B (`modules/b2b`) | contracts, invitations, entitlements, requests, monthly aggregates | accept invitation, deliver on schedule, entitlement scopes | Stripe, e-mail, S3 | double claim, redelivery after a crash, two schedulers |
| Scraper (`modules/scraper`) | pending changes, sync settings | fetch, diff, queue | model, web sources | two scrapes at once |
| Incentives (`modules/incentives`) | programme rows, calculation gate, pending changes | approve, reject, materialise, edit, open the gate | scraper, reports | approvals of stale changes, edits under an approval |
| What a report says of a programme's money (`modules/reports/calculation_status.py`, `statutory_calculation.py`, parts of `service.py`, `builder.py`) | none | pure computation | incentives | two parts of the code deciding the same thing from differently converted figures |
| Report builders, scripts, grants (`modules/reports/*`, `modules/scripts`, `modules/grants`) | none | pure computation | incentives | wording, boundaries |
| E-mail gating, subscribers, milestones, alerts, limiter | block flags, milestone rows, throttle windows | block, adjust credits, seed, throttle | users, e-mail | the adjustment is one more unlocked writer of the balance |
| Administration and catalogues | one row each | create, read, update, delete | | nothing beyond the row |

What makes each correct:

- *Reports*: a customer is charged once for a report that is delivered and not
  for one that failed; a quota or trial is not overrun; a credit is neither lost
  nor made up; a report has one outcome; a duplicate starts nothing.
- *Stripe events*: no paid event is lost; none is applied twice; the answer to
  Stripe is truthful.
- *Subscriptions, dunning, reconciler*: when deliveries stop, the local row and
  `users.plan` agree with Stripe; nothing is granted that was not sold; a grace
  period ends.
- *Profile cache*: a stale entitlement has a cause.
- *B2B*: an invitation makes one contract; a completed month is delivered once
  and none is passed over; no client gets what is licensed to another.
- *Scraper, incentives*: what stands in a row was approved, what was approved
  stands in the row it names; a gate is open only for a formula that could be
  approved; what the status promises of a figure the chart keeps.

The hazards, at their lines, are in `PROJECT.json`.

## 2. How the modules fit together

| Module | Models | Proofs |
|---|---|---|
| `ReportJobs` | submission, generation job, ledger, credits | `ReportJobsTypes`, `ReportJobsProofs` |
| `ReportContract` | abstract: what one paid report promises its customer; `ReportJobs` implements it | `ReportContractProofs` |
| `WebhookDelivery` | delivery, deduplication and retry of Stripe events | `WebhookDeliveryProofs` |
| `SubscriptionSync` | what the subscription events, plan changes, dunning, the reconciler and the profile cache write | `SubscriptionSyncProofs` |
| `B2BDelivery` | invitations, contracts, exclusive entitlements, the scheduler's lock and the delivery job | `B2BDeliveryProofs` |
| `StatutoryFigure` | pure: the calculation status and the qualifying base of one programme | `StatutoryFigureProofs` |
| `IncentiveReview` | scrapes, pending changes, approvals, edits and the gate of a territory's programmes; extends `StatutoryFigure`, so that every row it reaches is put to the report's questions | `IncentiveReviewProofs` |

The order was: what takes a customer's money (`ReportJobs`, `WebhookDelivery`,
`SubscriptionSync`), what it promises (`ReportContract`), what is delivered on a
schedule (`B2BDelivery`), and what the delivered figures rest on
(`IncentiveReview`, `StatutoryFigure`). `MC...` modules give the constants their
values for TLC. That a Stripe event is handled at least once and marked after its
writes is established in `WebhookDelivery`; `SubscriptionSync` takes it from there
and looks at what the handlers write.

## 3. Modules and code

### ReportJobs

One submission makes at most one report, so both share an identifier in
`Reports`; `Owner`, `Key` and `Proc` say who sent it, the digest of its form and
script, and the web process that serves it.

| Variable | Code |
|---|---|
| `pc`, `funding`, `kind`, `answer` | where `create_report` stands, `using_credit`, `effective_report_type`, the `report_id` answered |
| `loop` | who runs on the event loop of a web process |
| `remembered` | `_recent_submissions` of a web process |
| `status`, `ledger` | `reports.status`; the `report_usage_events` row and its `voided_at` |
| `job` | where `process_report_task` stands |
| `credits`, `debitSeen`, `refundSeen`, `buySeen` | `users.credits_remaining` and the values its writers have read |
| `purchased`, `refunded`, `hit` | history only: credits paid for or granted, refunds written, failures that happened |

`Gate`, `Classify`, `Resume`, `CreateRow`, `RecordUsage`, `Dispatch`,
`ConsumeRead`, `ConsumeWrite` are the statements of `create_report` in order.
`Classify` ends where the upload is awaited and gives the loop back; from `Resume`
to the answer there is no await, and the loop stays held. `Load` to `RefundWrite`
are the job and its except handler; `Queueing` names the web processes that queue
the job for a worker, the others run it in a thread of their own. `SignalFails` is the swallowed failure of the
analytics write. The job has one session and nothing rolls it back, so after any
failed statement, passed over or not, every later one raises (`SessionBroken`):
completion is impossible and `fail_report` raises. The same holds of `void_usage`,
whose failure is logged and passed over (`subscriptions/service.py:370`): the slot
stays charged and `RefundRead` raises, so the credit is lost too, although
`subscriptions/service.py:399-403` says that a failed generation is never charged.
`FailedReportSettled` has that as its excuse. A statement may also fail after its
commit, when the client reads the row back (`database_client.py:488`). `PurchaseRead` and
`PurchaseWrite` are the webhook's credit purchase, `WriteOff` is an administrator's
`adjust_credits` downwards (upwards it writes what `PurchaseWrite` does), `Forget` the expiry or eviction of
a remembered submission, `WorkerKilled` and `WebCrash` the crashes.

Failures are nondeterministic choices of the operation that fails, named by
`FaultKinds` and counted in `hit`; `MaxFaults` bounds them. Generation itself
fails freely (`GenerationRaises` costs no fault), so the failure path is always
reachable.

Abstracted: analysis, rendering and upload are one step that succeeds or raises;
e-mails and alerts change no state; the billing period does not roll over within a
behaviour; a subscription does not appear or disappear.

### ReportContract

A report is promised, delivered, failed or withdrawn, and costs a slot of the
quota, a credit, or nothing yet; what it cost is returned only when it has failed.
`ReportJobs` implements it with `FateOf` and `ChargeOf` as the refinement mapping
(`KeepsContract`, a PROPERTY of the run `report_queue` and a theorem).

### WebhookDelivery

`Events` with a `Kind`; `marked` is `processed_webhook_events`, `acked` what Stripe
got a 200 for, `rows`, `credits` and `applied` what the handlers wrote. `Begin`
is the deduplication read, `WriteRow` and `WriteUser` the two writes of an event
about a subscription, `ReadBalance` and `WriteBalance` those of a purchase,
`Record` the marker and the answer, `Raise` the 500, `Crash` a dying process.
A failed insert of the marker is logged and answered with 200.

The balance has more writers: `Updates` are the credit a request spends, the one a
failed job hands back, and an administrator's adjustment, each a read and a write
(`UpdateRead`, `UpdateWrite`). Those of a web process keep its event loop (`busy`);
the refund is the worker's and interleaves with everything. Whoever raises the
balance while another writer holds the value it had before is `overtaken` by that
writer's write: the purchase is paid for and gone. `CreditsCoverPurchases` says
that nothing else costs a credit, that each such raise costs at most the one it
brought, and that it takes a second web process or a refund of that account.

Abstracted: `adjust_credits` adds or takes one; a spending is not tied to a report
(`ReportJobs` does that).

### SubscriptionSync

One account, its subscriptions at Stripe and everything that writes their local
copy. `stripe` and `inbox` are Stripe's side: a subscription and the events it has
not got an answer for; `row`, `userPlan`, `cache` are the `subscriptions` rows,
`users.plan` and `user_profile:*`; `web`, `rec`, `dun` say where the web process, the
reconciler and the dunning run stand, and what they read before.

- `HandleCheckout` to `WriteUser` are the statements of the webhook handlers,
  `AskUpgrade` to `StoreDowngrade` those of `change_plan` and
  `cancel_scheduled_change` with their calls to Stripe (`Charge`, `Schedule`,
  `Release`), `RecStart` to `RecEnd` the reconciler, `DunStart` to `DunUser` dunning,
  `FillRead` and `FillStore` a request that fills the profile cache. Each of the
  three writers of `users.plan` commits first and deletes the cached profile in a
  later step (`WebBust`, `RecBust`, `DunBust`), before which it may break off.
- Handlers do not interleave with one another (one event loop, no await); the two
  jobs run in threads and interleave with everything.
- Events arrive oldest first, but for a fault (`Deliver` of a later one, `Lose`).
  A handler that breaks off is delivered again (`HandlerBreaks`); a request or a
  job that breaks off is not taken up again (`RequestBreaks`, `RecBreaks`,
  `DunBreaks`).
- `causes` records what the code does not handle, at the step where it happens.
  The properties say that nothing *else* makes the account diverge. One of them
  is that the reconciler looks at rows only: a `users.plan` left behind by a lost
  deletion is never corrected.

Abstracted: every price is configured (the fallback of a missing `pending_plan` is
left out); `pending_plan` and `stripe_schedule_id` are one column, as they are
written together; `trialing` counts as active; each subscription is a Stripe
customer of its own; `pre_update` read and row update of one handler are one
step; period dates and e-mails are left out. That a cached profile expires after
300 seconds (`CacheExpires`) is modelled and nothing rests on it.

### B2BDelivery

Time is counted in months: `add_months` clamps the day and never leaves its month,
so the month decides which months a delivery covers. `row` holds the columns of
`b2b_subscriptions` the job reads, `invite` an invitation, `claim` a claim between
its two commits, `grants` the exclusive entitlements in force, `proc` and `lock` the
processes that may schedule and whose database session holds the advisory lock,
`job` the delivery job of each process with its snapshot, `fate` the last request
that covers a month. `origin`, `mailed`, `again`, `leaked`, `why`, `torn` are history.

- `Issue` to `AcceptBreaks` are `invite_service.py`. `CheckoutCompleted`, `SetStatus`,
  `SetFrequency`, `SetNext` are the other writers of a row. `Grant` and `Revert` are
  `entitlement_service.py`.
- `Start`, `Stop`, `Crash`, `LoseLock`, `LockFreed`, `Leaves` are `scheduler.py`:
  `pg_try_advisory_lock` is tried once, `shutdown(wait=False)` releases it while a
  job may go on ("leaving"), and a lost connection is not noticed ("unaware").
- `JobStart` to `JobDone` are `run_due_b2b_auto_deliveries` for one row after the other:
  nothing for a row whose user has no account or address (`Skip`; it stays due),
  else the request (`CreateRequest`, or `RequestRefused` when everything is withheld,
  which ends the loop), `process_request` (`Deliver`, `Hold`, `Fail`), and the due date
  written from the snapshot (`Advance`).

Abstracted: a row is without a user from the start or never (`user_id` comes from
the checkout's metadata and has no foreign key; nothing deletes users);
all rows sell one product and all invitations are for one address;
web endpoints are one step each (no await), except that a claim is two commits;
statuses other than "active" are "off"; completed, held and failed requests are
"settled"; a request is held iff all its months are `Thin`; a month passes only
while no claim and no job is under way. Rendering, recipients, on-demand and
bespoke requests and the monthly aggregates are left out.

### StatutoryFigure

Operators over one programme and one producer's scenario. `CalculationStatus` is
`resolve_calculation_status`; `Seeded` is `seed_spend_from_scenario`; `HasBase` and
`Base` are `_statutory_base_for` with `resolve_statutory_qualifying_spend` and the
engines, applied to the converted amounts (`Converted`). The point is that the
status is decided from the figures as entered and the base from the figures as
converted, by different code: `PromiseKept` and `FigureIsPromised` compare the two.
They do not always agree: `PromiseFails` lists the five cases in which a status that
may carry a figure comes without one (no entitlement or no engine, undeclared
buckets, no rate, a figure of the engine that is neither required nor known, a
figure dropped in conversion), and `PromiseKept` says that these, and only these,
have none. `AnswersCount` compares two entries of a producer: a further figure takes
no base away, and one below what was assumed does not raise it, through seeding,
engines, percentage and cap. `BlankSpendNoFigure` says that the budget alone gives no
figure. There is one exchange rate, as only whether an amount converts matters.

### IncentiveReview

The programmes of one territory. `rows`, `prog`, `src`, `val`, `engine`, `gate` are the
columns of `incentive_programs`; `change` is `pending_changes`; `scan` where the
scheduled scrape and one started by an administrator stand; `decide` an approval
between its commits.

- `ScanFind` to `ScanFails` are `differ.py`: find the row, compare, check for a
  pending change, insert one. The scheduled scrape runs in its own thread.
- `ApproveStart`, `ApproveWrite`, `ApproveMark` are `approve_change` with
  `_get_or_create_resource_id_for_change` (`Place`: by name, else the latest row of
  the same source, else the only row of the territory, else a new one), then
  `Reject`, and `Materialize`, which listing the programmes sets off for approved
  changes without a row.
- `Create`, `Edit`, `EditEngine`, `Delete` are the administrator's endpoints, `SetGate`
  is `set_status` of the calculation gate with its blockers and override.

`StatusMatchesChart`, `SilenceGivesNoFigure`, `AnswersKeepFigures` and
`EstimatedNotOverwritten` put the operators of `StatutoryFigure` to every row that
scrapes, approvals, edits and deletions lead to.

Abstracted: one record per page; the three commits of a late materialisation
(`Materialize`) are one step; the declared inputs are one set, for the gate and for
the report; two compared columns, in any order; the
qualifying cap is treated as the rate; statuses of a programme that does not run
are one; the gate status "conditional" is merged with "ready", which passes the
same checks; of the columns the gate looks at only the engine is edited; the
settings that schedule a scrape are left out. The reviews of grants and festivals
follow the same pattern and are not modelled.

## 4. Runs

Times are those of two TLC workers; the longest run takes about 50 s.

| Run | Instance | Shows |
|---|---|---|
| `report_queue` | subscriber with quota 1 and 1 credit, the same form twice, queue with 1 worker, 2 web processes, generation that may always fail and 1 further fault of any kind, 1 purchase (548,000 states) | types; failed reports are settled; credit ceiling; slots released only by failure; no second generation while remembered; outcomes final; the contract is implemented |
| `report_modes` | account without subscription or credit, three forms, two under way at a time, one web process that queues and one that runs its jobs itself, 1 fault, `FairSpec` (243,000 states) | the trial is overshot by concurrent submissions, by one and no more; the failure path settles trial slots in both modes; every accepted report ends |
| `webhook_retries` | two purchases, a plan change, a logged event, a credit spent and one handed back, two processes, 1 fault, 1 duplicate, `FairSpec` (1.0 million states) | nothing is lost, answers are truthful, replays are bounded, and a purchase is lost only by one writer overtaking another |
| `subscription_sync` | two subscriptions, 3 changes at Stripe, 1 fault (1.4 million states, symmetry) | nothing unpaid is granted; at rest rows, markers and `users.plan` agree with Stripe unless a named cause occurred |
| `subscription_live` | one subscription, 2 changes, 1 fault, 1 cache fill, `FairSpec` (186,000 states) | rows converge whatever was lost; an expired grace period ends; a stale profile has a cause |
| `b2b` | two monthly rows (a decision may make one quarterly, a checkout may name no user), one invitation, one section, two processes, three months of which one is thin, 1 decision from outside, 1 fault (1.6 million states, symmetry on processes and rows) | repeated, missing and abandoned deliveries have a named cause; completed months only; one claim; one process at work but in two named windows; a sweep leaves nothing due that has a user |
| `incentives` | two programmes, two pages read in four states, three changes of which one was approved before ids were written back, the catalogued one with any choice of engine, 2 decisions or scrapes, 1 fault, 28 entries of a producer (1.1 million states, symmetry on fresh changes) | what is written is what was approved and where; one question per fact; open gates; status and chart agree outside five cases; silence gives no figure, answers keep it |

Five runs are expected to end in a counterexample, each to a sentence of the
repository (`findings` in `PROJECT.json` quotes it):

- `report_enqueue`: Redis refuses the job after row and ledger entry are committed;
  the report is charged and never generated.
- `report_signal`: the "non-blocking" analytics write fails, the session is left
  aborted, and the report gets no outcome.
- `webhook_double`: a fault between balance and marker; the retry adds the credit
  again.
- `b2b_exclusive`: a section licensed exclusively to one client is mailed to
  another, although the request was scoped without it.
- `incentives_overwritten`: a statutory figure in a third currency is dropped in
  conversion (`reports/service.py:1755-1759`), the expected spend takes its place, and
  the status still reads ESTIMATED, while `statutory_calculation.py:158-160` says that
  a figure that was typed is kept and nothing is overwritten.

Bounds of the report and webhook runs. Every property but one relates at most two
submissions of one account (one consumes, one refunds; one is remembered, one
repeats it), hence two reports; `QuotaOvershootBounded` needs a third one beyond the
two that overlap, or the bound would never be put to the test. A quota of 1 and a
credit of 1 are the boundary both gates switch at. Generation fails without using
up a fault, so one fault is enough to fall on the failure path; one purchase is
enough to meet both read-modify-writes of a credit. Two web processes, with a
purchase each and a credit spent and one handed back beside them, are the writers
that can overtake one another.

Bounds of the others. Three changes at Stripe are a checkout, a change and another
that overtakes or follows it; two subscriptions are needed for an overlap. The months
0 to 2 hold three monthly due dates and let a monthly job come an interval late; a
row turned quarterly has at most one due date left in them, so that intervals of
three months between deliveries are left to the theorems. Two processes are all a lock can be
disputed by; one fault and one decision are what each cause needs. `MaxRow` 2 gives a
change three rows to go to (its own, one of the same source, a new one); the two
decisions are an approval that goes wrong and what an administrator or a scrape does
beside it. The 28 entries are complete, partial and empty ones, with and without a
rate, a third currency, a spend and its provenance; among them are pairs of which
one extends the other. Every safety property of the passing runs is also proved, for
all values of these bounds.

Deadlock checking is off: when customers, Stripe and administrators have done what
the bounds allow and the jobs have ended, nothing is left to do.

Fairness. `FairSpec` of `ReportJobs` assumes that a live worker takes a job when it
is free and carries it on (RQ does both; `job_timeout` bounds a job; a job in the
web process has no such bound and is assumed to end). Requests get no fairness: a
customer may never come, a process may stop. `AcceptedReportSettles` excuses a report
whose own job was struck by the fault; `report_signal` and the note on killed
workers in the hazards say what happens then. `FairSpec` of `WebhookDelivery`
assumes that Stripe retries an unanswered event and that a live process goes on;
the faults that break deliveries off are bounded. `FairSpec` of `SubscriptionSync`
assumes the same, and that the scheduler starts the hourly jobs whenever there is
something for them.
`B2BDelivery` and `IncentiveReview` state no liveness: what they promise depends on
administrators, and `SweepComplete` says step by step what a delivery job has done
when it ends.

## 5. Proofs

From the named assumptions on the constants only (`InstanceAssumption`,
`BoundAssumption`, `DeliveryAssumption`, `SyncAssumption`, `ConstantsOK`: finite sets
where something is counted, domains of the given maps, values that do not
overlap), for any number of accounts, submissions, processes, months, rows, faults.

- `ReportJobsTypes`: `TypeCorrect`. One step per action, one sub-step per variable
  it changes.
- `ReportJobsProofs`: `Inductive == TypeOK /\ Lifecycles /\ LoopHeld /\
  ClearedIsNew`. `FailedReportSettled` alone is not inductive: it needs to know
  that the ledger row precedes the job (or a void would miss it), that the row is
  marked failed before the void and the void precedes the refund, and that a
  refund happens once. `Lifecycle(r)` says this of one report. `LoopHeld` says
  that a handler between awaits holds its loop, `ClearedIsNew` that what passed the
  duplicate check is still not remembered. From it follow
  `FailedReportSettledCorrect`, `NoSecondGenerationCorrect`,
  `OutcomeIsFinalCorrect`, `SlotReleasedOnlyByFailureCorrect`.
  - `QuotaOvershootBoundedCorrect`: the set of charged and pending reports grows only
    at the gate, by one, when it was below the allowance apart from those the
    account has under way (`GateCharges`); every other step shrinks it
    (`ChargedShrinks`).
  - `CreditCeilingCorrect`: `CreditBound` keeps the balance and every copy a writer has
    read below what was bought or granted plus one per refunded report. The ceiling never sinks
    (`CeilingGrows`), copies come from the balance (`ReadsStep`, `BuyStep`), and each
    writer raises the balance by one only when it raises the ceiling (`BalanceStep`).
- `ReportContractProofs`: `KeepsContractCorrect`. `Strong` adds to `Inductive` that a
  report whose job or ledger entry exists has been promised; then every step changes
  fate and charge of at most one report and is a step of the contract for it, or
  changes neither (`OneReport`, one lemma per step that is not a stutter).
- `WebhookDeliveryProofs`: `SettledIsAppliedCorrect` from the invariant that the
  stage of a delivery tells what it has written (`Underhand`) and that a web process
  does one thing at a time (`Engaged`); `TypeCorrect`. `CreditsCoverPurchasesCorrect`
  for any number of processes and updates: `Covered` says it of the balance and of
  every value a writer still holds, which is owed what was bought since except what is
  on record as overtaken; that one process overtakes nobody is `OneHolder` and `NothingOvertaken`.
  `ReplaysBoundedCorrect`: the bound alone is not inductive: `WithinSlack` counts what a balance may
  still gain without another fault (deliveries about to add, first applications,
  applied events that Stripe will send again), and every step pays for what it takes.
- `SubscriptionSyncProofs`: `TypeCorrect`; `NothingUnpaid`, whose invariant says that
  every plan in flight anywhere (Stripe, events, rows, `users.plan`, the hands of a
  handler or of the reconciler) has been sold (`SoldInv`); `StaleOnlyWithCause`, which
  is inductive with the types.
  - `DriftHasCauseAlways`: "nothing waits, so the row is right" says nothing while
    something waits. `DriftInv` says what waiting entails as long as no excuse
    occurred. `EventInv`: the last unanswered event of a subscription tells what Stripe
    says of it, events come in the order they happened, and a subscription's end
    comes before what happens to its successor. `RowsInv`: a row is wrong only while an
    event about it waits. `StageInv`: what each writer knows between its steps. `UserInv`:
    `users.plan` is wrong only while an event waits or a writer is on its way to it. So
    that not every part meets every action, steps are classed first by what they do to
    Stripe and the events (`Settles`, `Answers`, `Moves`), then by whether they write a row
    (`Steady`, `RowWrite`).
  - `MarkerHasCauseAlways`: `MarkersInv` says that the marker of a subscription is right, or
    an event still takes it away, or the request that made the schedule is about to set
    it, or an update from before the schedule waits that would be blamed if it were
    handled late; that a release is followed by an update that knows of it; and that
    a plan change goes on only from an unmarked row.
- `B2BDeliveryProofs`: the invariant grows in parts. `Sound` types the state and ties
  a running job to the current month and to what it has left; `NextDueDate` shows what
  the CHOOSE of the due date returns. `Led` (who leads holds the lock, and a job
  runs only where deliveries were scheduled) gives `OneSchedulerAlways`, `Claimed` gives
  `ClaimedOnceAlways`. `Swept` carries the deliveries: what a job has read of a row
  still stands, or is on record as changed, or the other job that shares the row has
  moved the due date to where this one will (`Same`); every month behind the due
  date was requested (`Gapless`); every request in "processing" is in a job's hands or
  was cut off (`Answered`); what was mailed lies behind the period next due, unless
  the row is between mail and new due date (`Once`). From it follow
  `RepeatHasCauseAlways`, `NoSilentGapAlways`, `ProcessingIsRunningAlways`. `Dealt` gives
  the action property `SweepCompleteAlways`.
- `StatutoryFigureProofs`: `PromiseKeptAlways`, `FigureIsPromisedAlways`,
  `BlankSpendNoFigureAlways`, `AnswersCountAlways` for every programme and every scenario,
  amounts unbounded. The base is a fold over the declared inputs; that it grows with
  them is shown by a least counterexample among the sets of inputs, from facts of the library that take no operator as a parameter
  (`WFMin`, `NatLessThanWellFounded`, `FS_StrictSubsetOrderingWellFounded`).
- `IncentiveReviewProofs`: `Typed` and `Sane` type the state and keep row ids below the
  last one given; `StatusMatchesChartAlways`, `SilenceGivesNoFigureAlways` and
  `AnswersKeepFiguresAlways` follow with the theorems above. `Filed` says whose row a change, a scrape and a decision
  point at (`FiledByNameAlways`), `Kept` what a written column owes to its change
  (`WrittenIsApprovedAlways`), `Applied` what an approved change has done
  (`ApprovedIsWrittenAlways`), `Asked` what a scrape has found not to be asked yet
  (`AskedOnceAlways`), `Gated` what a gate was opened for (`OpenGateHasCauseAlways`).

Only model-checked: liveness (`AcceptedReportSettles`, `EveryEventApplied`, `RowsConverge`,
`GraceEnforced`), which needs fairness and ENABLED, both out of the
prover's reach. Every invariant and every action property of the passing runs is a
theorem.

## 6. Not modelled

The components marked `not_modelled` in `PROJECT.json`, with the reason there. Most
of the source's lines are among them: report builders, script analysis, PDF
templates, catalogues and administration are sequential computation or single-row
operations whose correctness is in their wording and data, not in an interplay.

Within the modelled components: the billing period and its boundary, preview
reports, sharing, the contents of a report, the signature check of webhooks, the
content of e-mails and alerts; token rotation and the blocklist (the profile cache is
modelled with the writers of `users.plan`); on-demand and bespoke B2B requests and
their aggregates; fetching and extraction of sources, rates, thresholds and stacking
of incentives, the import of rule versions.

Known cases that no property covers: resending an invitation revives one that had
expired beside its successor (`invite_service.py:311`); a second new programme of a
territory is swallowed by the deduplication of changes without a row, which is per
territory (`differ.py:255`).
