------------------------------ MODULE ReportJobs ------------------------------
(***************************************************************************)
(* Paid report generation and what it costs the customer: the request      *)
(* handler create_report (reports/router.py), the job process_report_task, *)
(* the quota ledger and the credit balance (subscriptions/service.py), the *)
(* credit purchase that the Stripe webhook books, and the adjustment an    *)
(* administrator makes (subscribers/service.py).                           *)
(*                                                                         *)
(* Every statement of the database client commits by itself, so a step     *)
(* here is one committed statement, and a read-modify-write is two steps   *)
(* with the value read kept in a local.  A web process runs its async      *)
(* handlers on one event loop: a handler keeps the loop from one await to  *)
(* the next, which "loop" records.  The worker is another process and      *)
(* interleaves with everything.                                            *)
(*                                                                         *)
(* One submission of the form creates at most one report, so a submission  *)
(* and its report share an identifier.                                     *)
(***************************************************************************)
EXTENDS Integers, FiniteSets

CONSTANTS
    Users,         \* accounts
    Reports,       \* submissions, and the reports they create
    Procs,         \* web processes
    Keys,          \* digests of (user, form body, script text)
    Owner,         \* the account that sends a submission
    Key,           \* the digest of a submission
    Proc,          \* the web process that serves a submission
    Subscribed,    \* accounts with an active, trialing or past_due subscription
    Limit,         \* report_limit of a subscription; Unlimited is -1
    Queueing,      \* web processes with REPORT_QUEUE_ENABLED
    Workers,       \* number of RQ worker processes
    StartCredits,  \* credits_remaining of each account at the start
    Faults,        \* kinds of failure the environment may inject
    MaxFaults,     \* bound: failures injected in one behaviour
    MaxInFlight,   \* bound: submissions one account has under way at a time
    MaxPurchases,  \* bound: credits bought or granted in one behaviour
    Idle,          \* nobody holds the event loop
    NoReport       \* no report

Unlimited == -1

FaultKinds == {"extract", "preflight", "insert", "record", "enqueue", "consume",
               "load", "signal", "statement", "persist_late", "fail_mark",
               "void", "refund",
               "web_crash", "worker_kill"}

(* What the model takes from its instance: who sends what, through where.  *)
ASSUME InstanceAssumption ==
    /\ IsFiniteSet(Reports)
    /\ Owner \in [Reports -> Users]
    /\ Key \in [Reports -> Keys]
    /\ Proc \in [Reports -> Procs]
    /\ Subscribed \subseteq Users
    /\ Limit \in [Users -> Int]
    /\ \A u \in Users : Limit[u] >= Unlimited
    /\ StartCredits \in [Users -> Nat]

(* Bounds and model values that stand for "nobody" and "nothing".          *)
ASSUME BoundAssumption ==
    /\ Queueing \subseteq Procs
    /\ Workers \in Nat \ {0}
    /\ Faults \subseteq FaultKinds
    /\ MaxFaults \in Nat
    /\ MaxInFlight \in Nat \ {0}
    /\ MaxPurchases \in Nat
    /\ Idle \notin Reports \cup Users
    /\ NoReport \notin Reports
    /\ Reports \cap Users = {}

VARIABLES
    pc,          \* where the handler of a submission stands
    funding,     \* what the gate cleared it on: "plan" slot or "credit"
    kind,        \* effective_report_type: "paid" or "free"
    answer,      \* the report_id the response named
    loop,        \* who runs on the event loop of a web process
    remembered,  \* _recent_submissions of a web process
    debitSeen,   \* "current" in consume_report_credit
    status,      \* reports.status; "absent" before, "deleted" after the row
    ledger,      \* report_usage_events row: its report_type, or "voided"
    job,         \* where process_report_task stands
    refundSeen,  \* "current" in refund_report_credit
    credits,     \* users.credits_remaining
    buySeen,     \* "current" in _handle_credit_purchase and adjust_credits
    purchased,   \* history: credits paid for, or granted by an administrator
    refunded,    \* history: reports whose refund was written
    hit          \* history: failures that happened, and to which report

webVars     == <<pc, funding, kind, answer, debitSeen>>
procVars    == <<loop, remembered, buySeen>>
workerVars  == <<job, refundSeen, refunded>>
vars == <<pc, funding, kind, answer, loop, remembered, debitSeen, status, ledger,
          job, refundSeen, credits, buySeen, purchased, refunded, hit>>

HandlerStates == {"idle", "gated", "reading", "cleared", "created", "recorded",
                  "dispatched", "debiting", "accepted", "duplicate", "refused",
                  "error", "dead"}
Active     == {"gated", "reading", "cleared", "created", "recorded",
               "dispatched", "debiting"}
OnLoop     == Active \ {"reading"}
RowStates  == {"absent", "processing", "completed", "failed", "deleted"}
JobStates  == {"none", "queued", "generating", "failing", "voiding",
               "refunding", "returning", "done", "lost"}
Running    == {"generating", "failing", "voiding", "refunding", "returning"}

TypeOK ==
    /\ pc \in [Reports -> HandlerStates]
    /\ funding \in [Reports -> {"none", "plan", "credit"}]
    /\ kind \in [Reports -> {"none", "paid", "free"}]
    /\ answer \in [Reports -> Reports \cup {NoReport}]
    /\ loop \in [Procs -> Reports \cup Users \cup {Idle}]
    /\ remembered \in [Procs -> [Keys -> Reports \cup {NoReport}]]
    /\ debitSeen \in [Reports -> Nat]
    /\ status \in [Reports -> RowStates]
    /\ ledger \in [Reports -> {"none", "paid", "free", "voided"}]
    /\ job \in [Reports -> JobStates]
    /\ refundSeen \in [Reports -> Nat]
    /\ credits \in [Users -> Nat]
    /\ buySeen \in [Procs -> Nat]
    /\ purchased \in [Users -> Nat]
    /\ refunded \subseteq Reports
    /\ hit \subseteq FaultKinds \X Reports

Init ==
    /\ pc = [r \in Reports |-> "idle"]
    /\ funding = [r \in Reports |-> "none"]
    /\ kind = [r \in Reports |-> "none"]
    /\ answer = [r \in Reports |-> NoReport]
    /\ loop = [p \in Procs |-> Idle]
    /\ remembered = [p \in Procs |-> [k \in Keys |-> NoReport]]
    /\ debitSeen = [r \in Reports |-> 0]
    /\ status = [r \in Reports |-> "absent"]
    /\ ledger = [r \in Reports |-> "none"]
    /\ job = [r \in Reports |-> "none"]
    /\ refundSeen = [r \in Reports |-> 0]
    /\ credits = StartCredits
    /\ buySeen = [p \in Procs |-> 0]
    /\ purchased = StartCredits
    /\ refunded = {}
    /\ hit = {}

(* The environment fails one operation of report r.                        *)
Fault(f, r) ==
    /\ f \in Faults
    /\ Cardinality(hit) < MaxFaults
    /\ hit' = hit \cup {<<f, r>>}

-----------------------------------------------------------------------------
(* The charging gate.                                                      *)

(* count_usage: voided rows never count; a subscriber's rows count whatever *)
(* their type, an account without subscription only counts "free" ones.    *)
Counted(u) == IF u \in Subscribed THEN {"paid", "free"} ELSE {"free"}
UsageFromReportRows(u) ==
    {r \in Reports : Owner[r] = u /\ ledger[r] # "none" /\ status[r] \in {"processing", "completed"}}
Usage(u) == {r \in Reports : Owner[r] = u /\ ledger[r] \in Counted(u)}

(* What a subscription allows in its period, or the one lifetime trial.    *)
Allowance(u) == IF u \in Subscribed THEN Limit[u] ELSE 1

PlanSlotFree_OffByOne(u) ==
    \/ u \in Subscribed /\ Limit[u] = Unlimited
    \/ Cardinality(Usage(u)) <= Allowance(u)
PlanSlotFree(u) ==
    \/ u \in Subscribed /\ Limit[u] = Unlimited
    \/ Cardinality(Usage(u)) < Allowance(u)

(* can_generate_report: what clears a submission of u.  Without a          *)
(* subscription credits come before the trial, with one they come after    *)
(* the quota.                                                              *)
ClearedBy(u, f) ==
    \/ f = "plan" /\ PlanSlotFree(u) /\ (u \in Subscribed \/ credits[u] = 0)
    \/ f = "credit" /\ credits[u] > 0 /\ (u \in Subscribed => ~PlanSlotFree(u))

Underway(u) == {r \in Reports : Owner[r] = u /\ pc[r] \in Active}

(* The handler takes the loop and asks the gate; a refusal is a 403.       *)
Gate(r) ==
    /\ pc[r] = "idle"
    /\ loop[Proc[r]] = Idle
    /\ Cardinality(Underway(Owner[r])) < MaxInFlight
    /\ \/ \E f \in {"plan", "credit"} :
            /\ ClearedBy(Owner[r], f)
            /\ funding' = [funding EXCEPT ![r] = f]
            /\ pc' = [pc EXCEPT ![r] = "gated"]
            /\ loop' = [loop EXCEPT ![Proc[r]] = r]
       \/ /\ \A f \in {"plan", "credit"} : ~ClearedBy(Owner[r], f)
          /\ pc' = [pc EXCEPT ![r] = "refused"]
          /\ UNCHANGED <<funding, loop>>
    /\ UNCHANGED <<kind, answer, remembered, debitSeen, status, ledger, workerVars,
                   credits, buySeen, purchased, hit>>

(* The credits are read a second time to choose the stored report type;    *)
(* then the upload is awaited and the loop is free again.                  *)
Classify(r) ==
    /\ pc[r] = "gated"
    /\ kind' = [kind EXCEPT ![r] =
                  IF \/ Owner[r] \in Subscribed /\ funding[r] = "plan"
                     \/ credits[Owner[r]] > 0
                  THEN "paid" ELSE "free"]
    /\ pc' = [pc EXCEPT ![r] = "reading"]
    /\ loop' = [loop EXCEPT ![Proc[r]] = Idle]
    /\ UNCHANGED <<funding, answer, remembered, debitSeen, status, ledger, workerVars,
                   credits, buySeen, purchased, hit>>

(* _recent_report_for: the report this process remembers for the digest.   *)
RecentReport_NoGuard(r) == NoReport
RecentReport(r) == remembered[Proc[r]][Key[r]]

(* The upload is read.  An unreadable script is a 400, an unreachable model *)
(* a 503, a remembered submission is answered with the report it made;     *)
(* otherwise the handler goes on without another await.                    *)
Resume(r) ==
    /\ pc[r] = "reading"
    /\ loop[Proc[r]] = Idle
    /\ \/ /\ RecentReport(r) # NoReport
          /\ pc' = [pc EXCEPT ![r] = "duplicate"]
          /\ answer' = [answer EXCEPT ![r] = RecentReport(r)]
          /\ UNCHANGED <<loop, hit>>
       \/ /\ RecentReport(r) = NoReport
          /\ pc' = [pc EXCEPT ![r] = "cleared"]
          /\ loop' = [loop EXCEPT ![Proc[r]] = r]
          /\ UNCHANGED <<answer, hit>>
       \/ /\ \/ Fault("extract", r)
             \/ RecentReport(r) = NoReport /\ Fault("preflight", r)
          /\ pc' = [pc EXCEPT ![r] = "refused"]
          /\ UNCHANGED <<answer, loop>>
    /\ UNCHANGED <<funding, kind, remembered, debitSeen, status, ledger, workerVars,
                   credits, buySeen, purchased>>

(* The handler answers and gives the loop back.                            *)
Respond(r, outcome) ==
    /\ pc' = [pc EXCEPT ![r] = outcome]
    /\ loop' = [loop EXCEPT ![Proc[r]] = Idle]

(* The reports row is inserted in status processing and the submission is  *)
(* remembered.  Or the insert raises and the customer sees a 500: as a     *)
(* write commits and then reads the row back, the row may be there, though *)
(* nothing will ever work on it.                                           *)
CreateRow(r) ==
    /\ pc[r] = "cleared"
    /\ \/ /\ status' = [status EXCEPT ![r] = "processing"]
          /\ remembered' = [remembered EXCEPT ![Proc[r]][Key[r]] = r]
          /\ pc' = [pc EXCEPT ![r] = "created"]
          /\ UNCHANGED <<loop, hit>>
       \/ /\ Fault("insert", r)
          /\ status' \in {status, [status EXCEPT ![r] = "processing"]}
          /\ Respond(r, "error")
          /\ UNCHANGED remembered
    /\ UNCHANGED <<funding, kind, answer, debitSeen, ledger, workerVars, credits,
                   buySeen, purchased>>

(* record_usage writes the ledger row of a plan-funded report; a failed    *)
(* insert is logged and the report goes on uncharged.                      *)
RecordUsage(r) ==
    /\ pc[r] = "created"
    /\ pc' = [pc EXCEPT ![r] = "recorded"]
    /\ \/ /\ funding[r] = "plan"
          /\ ledger' = [ledger EXCEPT ![r] = kind[r]]
          /\ UNCHANGED hit
       \/ /\ funding[r] = "credit"
          /\ UNCHANGED <<ledger, hit>>
       \/ /\ funding[r] = "plan"
          /\ Fault("record", r)
          /\ UNCHANGED ledger
    /\ UNCHANGED <<funding, kind, answer, loop, remembered, debitSeen, status,
                   workerVars, credits, buySeen, purchased>>

(* The job of r goes to an RQ worker, not to a thread of its web process.  *)
Queued(r) == Proc[r] \in Queueing

(* _dispatch_report_job: the job is in Redis, or in the background tasks   *)
(* of the response.  Redis being down is a 500 that undoes nothing.        *)
Dispatch(r) ==
    /\ pc[r] = "recorded"
    /\ \/ /\ job' = [job EXCEPT ![r] = "queued"]
          /\ IF funding[r] = "credit"
             THEN pc' = [pc EXCEPT ![r] = "dispatched"] /\ UNCHANGED <<loop, answer>>
             ELSE Respond(r, "accepted") /\ answer' = [answer EXCEPT ![r] = r]
          /\ UNCHANGED hit
       \/ /\ Queued(r)
          /\ Fault("enqueue", r)
          /\ Respond(r, "error")
          /\ UNCHANGED <<job, answer>>
    /\ UNCHANGED <<funding, kind, remembered, debitSeen, status, ledger, refundSeen,
                   refunded, credits, buySeen, purchased>>

(* consume_report_credit reads the balance ...                             *)
ConsumeRead(r) ==
    /\ pc[r] = "dispatched"
    /\ pc' = [pc EXCEPT ![r] = "debiting"]
    /\ debitSeen' = [debitSeen EXCEPT ![r] = credits[Owner[r]]]
    /\ UNCHANGED <<funding, kind, answer, procVars, status, ledger, workerVars,
                   credits, purchased, hit>>

Debited_NoFloor(n) == n - 1
Debited(n) == IF n = 0 THEN 0 ELSE n - 1

(* ... and writes it back one lower, never below zero.  A failure here,    *)
(* before or after the commit, is a 500 for a report whose job is out.     *)
ConsumeWrite(r) ==
    /\ pc[r] = "debiting"
    /\ debitSeen' = [debitSeen EXCEPT ![r] = 0]
    /\ \/ /\ credits' = [credits EXCEPT ![Owner[r]] = Debited(debitSeen[r])]
          /\ Respond(r, "accepted")
          /\ answer' = [answer EXCEPT ![r] = r]
          /\ UNCHANGED hit
       \/ /\ Fault("consume", r)
          /\ credits' \in {credits, [credits EXCEPT ![Owner[r]] = Debited(debitSeen[r])]}
          /\ Respond(r, "error")
          /\ UNCHANGED answer
    /\ UNCHANGED <<funding, kind, remembered, status, ledger, workerVars, buySeen,
                   purchased>>

(* An entry leaves _recent_submissions: its 180 seconds are over, or 256   *)
(* later submissions pushed it out.                                        *)
Forget(p, k) ==
    /\ remembered[p][k] # NoReport
    /\ remembered' = [remembered EXCEPT ![p][k] = NoReport]
    /\ UNCHANGED <<webVars, loop, status, ledger, workerVars, credits, buySeen,
                   purchased, hit>>

(* delete_report: the owner removes the row, whatever its status.  The     *)
(* ledger row and the credit stay as they are.                             *)
DeleteReport(r) ==
    /\ status[r] \in {"processing", "completed", "failed"}
    /\ \E p \in Procs : loop[p] = Idle
    /\ status' = [status EXCEPT ![r] = "deleted"]
    /\ UNCHANGED <<webVars, procVars, ledger, workerVars, credits, purchased, hit>>

-----------------------------------------------------------------------------
(* The credit purchase, _handle_credit_purchase, and the administrator's   *)
(* adjust_credits, on a web process.                                       *)

PurchaseRead(u, p) ==
    /\ loop[p] = Idle
    /\ purchased[u] < StartCredits[u] + MaxPurchases
    /\ loop' = [loop EXCEPT ![p] = u]
    /\ buySeen' = [buySeen EXCEPT ![p] = credits[u]]
    /\ UNCHANGED <<webVars, remembered, status, ledger, workerVars, credits, purchased, hit>>

PurchaseWrite(u, p) ==
    /\ loop[p] = u
    /\ credits' = [credits EXCEPT ![u] = buySeen[p] + 1]
    /\ purchased' = [purchased EXCEPT ![u] = @ + 1]
    /\ loop' = [loop EXCEPT ![p] = Idle]
    /\ buySeen' = [buySeen EXCEPT ![p] = 0]
    /\ UNCHANGED <<webVars, remembered, status, ledger, workerVars, hit>>

(* An administrator's adjust_credits reads and writes the balance in the   *)
(* same way: a credit more has the effect of PurchaseWrite, a credit less  *)
(* leaves at least none.                                                   *)
WriteOff(u, p) ==
    /\ loop[p] = u
    /\ credits' = [credits EXCEPT ![u] = IF buySeen[p] > 0 THEN buySeen[p] - 1 ELSE 0]
    /\ loop' = [loop EXCEPT ![p] = Idle]
    /\ buySeen' = [buySeen EXCEPT ![p] = 0]
    /\ UNCHANGED <<webVars, remembered, status, ledger, workerVars, purchased, hit>>

-----------------------------------------------------------------------------
(* The job: process_report_task.                                           *)

(* An RQ worker runs one job at a time; a background task runs in a thread *)
(* of the web process once the response is out.                            *)
InWorker(states) == {r \in Reports : Queued(r) /\ job[r] \in states}
CanStart_CountsQueued(r) ==
    Queued(r) => Cardinality(InWorker(Running \cup {"queued"})) < Workers
CanStart(r) ==
    IF Queued(r) THEN Cardinality(InWorker(Running)) < Workers ELSE pc[r] = "accepted"

(* The row is loaded; a report deleted meanwhile ends the job at once.  If *)
(* the load raises, the job fails without the row in its hands: no         *)
(* connection was to be had and the session has not begun anything         *)
(* ("load"), or the SELECT failed ("statement").                           *)
Load(r) ==
    /\ job[r] = "queued"
    /\ CanStart(r)
    /\ \/ /\ job' = [job EXCEPT ![r] =
                        IF status[r] = "deleted" THEN "done" ELSE "generating"]
          /\ UNCHANGED hit
       \/ /\ Fault("load", r) \/ Fault("statement", r)
          /\ job' = [job EXCEPT ![r] = "failing"]
    /\ UNCHANGED <<webVars, procVars, status, ledger, refundSeen, refunded, credits,
                   purchased>>

(* An UPDATE of a deleted row matches nothing.                             *)
Marked_Upsert(r, s) == [status EXCEPT ![r] = s]
Marked(r, s) == [status EXCEPT ![r] = IF @ = "deleted" THEN @ ELSE s]

(* The job has one database session and never rolls it back: a statement   *)
(* that fails leaves its transaction aborted, and every later one raises,  *)
(* whether or not the failure itself was passed over.                      *)
SessionBroken(r) == \E f \in {"signal", "statement", "void"} : <<f, r>> \in hit

(* The write into production_signals fails; that is logged and passed over.*)
SignalFails(r) ==
    /\ job[r] = "generating"
    /\ Fault("signal", r)
    /\ UNCHANGED <<webVars, procVars, status, ledger, workerVars, credits, purchased>>

(* Analysis, rendering and upload succeed and complete_report commits.     *)
(* After the commit the job timeout may still strike ("persist_late"), or  *)
(* the read of the row just written fails.                                 *)
Complete(r) ==
    /\ job[r] = "generating"
    /\ ~SessionBroken(r)
    /\ status' = Marked(r, "completed")
    /\ \/ job' = [job EXCEPT ![r] = "done"] /\ UNCHANGED hit
       \/ /\ job' = [job EXCEPT ![r] = "failing"]
          /\ Fault("persist_late", r) \/ Fault("statement", r)
    /\ UNCHANGED <<webVars, procVars, ledger, refundSeen, refunded, credits, purchased>>

(* Any step up to the commit raises, the job timeout included; or the step *)
(* that raises is a statement of the database.                             *)
GenerationRaises(r) ==
    /\ job[r] = "generating"
    /\ job' = [job EXCEPT ![r] = "failing"]
    /\ UNCHANGED hit \/ Fault("statement", r)
    /\ UNCHANGED <<webVars, procVars, status, ledger, refundSeen, refunded, credits,
                   purchased>>

(* fail_report; if it raises itself, before or after its commit, the rest  *)
(* of the handler never runs.                                              *)
FailMark_Swallowed(r) ==
    /\ job[r] = "failing"
    /\ job' = [job EXCEPT ![r] = "voiding"]
    /\ \/ status' = Marked(r, "failed") /\ UNCHANGED hit
       \/ Fault("fail_mark", r) /\ UNCHANGED status
    /\ UNCHANGED <<webVars, procVars, ledger, refundSeen, refunded, credits, purchased>>
FailMark(r) ==
    /\ job[r] = "failing"
    /\ \/ /\ ~SessionBroken(r)
          /\ status' = Marked(r, "failed")
          /\ job' = [job EXCEPT ![r] = "voiding"]
          /\ UNCHANGED hit
       \/ /\ IF SessionBroken(r) THEN UNCHANGED <<status, hit>>
             ELSE Fault("fail_mark", r) /\ status' \in {status, Marked(r, "failed")}
          /\ job' = [job EXCEPT ![r] = "lost"]
    /\ UNCHANGED <<webVars, procVars, ledger, refundSeen, refunded, credits, purchased>>

(* void_usage stamps voided_at on the ledger row of the report, if any.    *)
Voided_TrialOnly(row) == IF row = "free" THEN "voided" ELSE row
Voided_PaidOnly(row) == IF row = "paid" THEN "voided" ELSE row
Voided(row) == IF row = "none" THEN row ELSE "voided"

(* _credit_consumed of the row in the hands of the job, if it has one, says *)
(* whether a credit is to be handed back.                                  *)
RefundDue_Always(r) == TRUE
RefundDue(r) == funding[r] = "credit" /\ <<"load", r>> \notin hit

(* void_usage releases the slot, then the credit is refunded if the row    *)
(* says one was consumed.  A failed void is logged and passed over, with   *)
(* the session it has broken.                                              *)
Void(r) ==
    /\ job[r] = "voiding"
    /\ \/ /\ ledger' = [ledger EXCEPT ![r] = Voided(@)]
          /\ UNCHANGED hit
       \/ /\ Fault("void", r)
          /\ UNCHANGED ledger
    /\ job' = [job EXCEPT ![r] = IF RefundDue(r) THEN "refunding" ELSE "done"]
    /\ UNCHANGED <<webVars, procVars, status, refundSeen, refunded, credits, purchased>>

(* refund_report_credit reads the balance, which raises on a broken        *)
(* session: that is logged and the job ends without the refund ...         *)
RefundRead(r) ==
    /\ job[r] = "refunding"
    /\ \/ /\ ~SessionBroken(r)
          /\ job' = [job EXCEPT ![r] = "returning"]
          /\ refundSeen' = [refundSeen EXCEPT ![r] = credits[Owner[r]]]
       \/ /\ SessionBroken(r)
          /\ job' = [job EXCEPT ![r] = "done"]
          /\ UNCHANGED refundSeen
    /\ UNCHANGED <<webVars, procVars, status, ledger, refunded, credits, purchased, hit>>

(* ... and writes it back one higher, or fails, which is logged.           *)
RefundWrite(r) ==
    /\ job[r] = "returning"
    /\ job' = [job EXCEPT ![r] = "done"]
    /\ refundSeen' = [refundSeen EXCEPT ![r] = 0]
    /\ \/ /\ credits' = [credits EXCEPT ![Owner[r]] = refundSeen[r] + 1]
          /\ refunded' = refunded \cup {r}
          /\ UNCHANGED hit
       \/ /\ Fault("refund", r)
          /\ UNCHANGED <<credits, refunded>>
    /\ UNCHANGED <<webVars, procVars, status, ledger, purchased>>

-----------------------------------------------------------------------------
(* Crashes.                                                                *)

(* A worker is killed mid-job.  RQ drops the job: nothing is enqueued with *)
(* a retry, and no sweeper looks at rows left in processing.               *)
WorkerKilled(r) ==
    /\ Queued(r)
    /\ job[r] \in Running
    /\ Fault("worker_kill", r)
    /\ job' = [job EXCEPT ![r] = "lost"]
    /\ refundSeen' = [refundSeen EXCEPT ![r] = 0]
    /\ UNCHANGED <<webVars, procVars, status, ledger, refunded, credits, purchased>>

(* A web process dies and restarts with nothing in memory: its requests    *)
(* are gone, and so are the background tasks it was to run itself.         *)
WebCrash(p) ==
    LET mine(r)  == Proc[r] = p
        orphan(r) == mine(r) /\ ~Queued(r) /\ job[r] \in Running \cup {"queued"}
        struck   == {r \in Reports : (mine(r) /\ pc[r] \in Active) \/ orphan(r)}
    IN
    /\ "web_crash" \in Faults
    /\ Cardinality(hit) < MaxFaults
    /\ struck # {}
    /\ hit' = hit \cup {<<"web_crash", r>> : r \in struck}
    /\ pc' = [r \in Reports |-> IF mine(r) /\ pc[r] \in Active THEN "dead" ELSE pc[r]]
    /\ debitSeen' = [r \in Reports |-> IF mine(r) THEN 0 ELSE debitSeen[r]]
    /\ job' = [r \in Reports |-> IF orphan(r) THEN "lost" ELSE job[r]]
    /\ refundSeen' = [r \in Reports |-> IF orphan(r) THEN 0 ELSE refundSeen[r]]
    /\ loop' = [loop EXCEPT ![p] = Idle]
    /\ remembered' = [remembered EXCEPT ![p] = [k \in Keys |-> NoReport]]
    /\ buySeen' = [buySeen EXCEPT ![p] = 0]
    /\ UNCHANGED <<funding, kind, answer, status, ledger, credits, purchased, refunded>>

-----------------------------------------------------------------------------
HandlerStep(r) ==
    \/ Gate(r) \/ Classify(r) \/ Resume(r) \/ CreateRow(r) \/ RecordUsage(r)
    \/ Dispatch(r) \/ ConsumeRead(r) \/ ConsumeWrite(r)

JobStep(r) ==
    \/ Complete(r) \/ GenerationRaises(r) \/ FailMark(r) \/ Void(r)
    \/ RefundRead(r) \/ RefundWrite(r)

Next ==
    \/ \E r \in Reports : HandlerStep(r) \/ DeleteReport(r)
    \/ \E r \in Reports : Load(r) \/ JobStep(r) \/ SignalFails(r) \/ WorkerKilled(r)
    \/ \E u \in Users, p \in Procs : PurchaseRead(u, p) \/ PurchaseWrite(u, p) \/ WriteOff(u, p)
    \/ \E p \in Procs, k \in Keys : Forget(p, k)
    \/ \E p \in Procs : WebCrash(p)

Spec == Init /\ [][Next]_vars

(* A worker or thread that is alive takes the next job when it is free and *)
(* carries it to its end; requests need no fairness.                       *)
WorkerFairness ==
    /\ WF_vars(\E r \in Reports : Load(r))
    /\ \A r \in Reports : WF_vars(JobStep(r))

FairSpec == Spec /\ WorkerFairness

-----------------------------------------------------------------------------
(* Properties.                                                             *)

(* "Never charge for a report that didn't generate": once the job of a     *)
(* failed report has ended, its slot no longer counts and its credit was   *)
(* handed back, unless that very statement was the one that failed, or the *)
(* job never got to see the row that says a credit was consumed.  A failed *)
(* void also costs the credit, for a report that has no slot to void: the  *)
(* session it leaves behind refuses the refund.  The property rests on the *)
(* ledger row being written before the job can void it.                    *)
FailedReportSettled ==
    \A r \in Reports :
        job[r] = "done" /\ status[r] = "failed" =>
            /\ ledger[r] \in {"none", "voided"} \/ <<"void", r>> \in hit
            /\ funding[r] = "credit" =>
                 r \in refunded \/ \E f \in {"refund", "load", "void"} : <<f, r>> \in hit

(* Plan-cleared submissions whose ledger row is still to be written.       *)
Pending(u) ==
    {r \in Reports :
        /\ Owner[r] = u /\ funding[r] = "plan"
        /\ pc[r] \in {"gated", "reading", "cleared", "created"}}

(* The gate reads the ledger before the upload is awaited and the row is   *)
(* written after it, so concurrent submissions can overshoot the quota or  *)
(* the single trial, but never by more than the submissions under way.     *)
QuotaOvershootBounded ==
    \A u \in Users :
        \/ u \in Subscribed /\ Limit[u] = Unlimited
        \/ Cardinality(Usage(u) \cup Pending(u)) <= Allowance(u) + MaxInFlight - 1

(* A slot is only ever given back by the failure of its own report: not by *)
(* deleting the report, nor by anything another report does.               *)
SlotReleasedOnlyByFailure ==
    [][\A u \in Users : \A r \in Usage(u) \ Usage(u)' : job[r] = "voiding"]_vars

(* Reports of u that failed after consuming a credit and were refunded.    *)
Earned(u) ==
    {r \in refunded : /\ Owner[r] = u /\ funding[r] = "credit"
                      /\ status[r] \in {"failed", "deleted"}}

(* Whatever updates of the balance are lost, an account never holds more   *)
(* credits than it paid for or was granted, and one per failed report.     *)
CreditCeiling ==
    \A u \in Users : credits[u] <= purchased[u] + Cardinality(Earned(u))

(* While a process remembers a submission, it starts no second generation  *)
(* of it: check and registration happen in one turn of the event loop.     *)
NoSecondGeneration ==
    [][\A r \in Reports :
        status[r] = "absent" /\ status'[r] = "processing" =>
            remembered[Proc[r]][Key[r]] = NoReport]_vars

(* A deleted report stays deleted though its job is still running, and a   *)
(* delivered one fails only if its own commit was followed by an error.    *)
OutcomeIsFinal ==
    [][\A r \in Reports :
        /\ (status[r] = "deleted" => status'[r] = "deleted")
        /\ (status[r] = "completed" /\ status'[r] \notin {"completed", "deleted"} =>
               <<"persist_late", r>> \in hit)]_vars

Settled(r) ==
    \/ status[r] \in {"completed", "deleted"}
    \/ status[r] = "failed" /\ ledger[r] \in {"none", "voided"}
                            /\ (funding[r] = "credit" => r \in refunded)

(* What ran the job of r died, or a statement of the job failed.           *)
JobStruck(r) ==
    \E f \in {"worker_kill", "web_crash", "load", "signal", "statement", "fail_mark", "void",
              "refund"} : <<f, r>> \in hit

(* Every report the customer was told is under way ends delivered, or      *)
(* failed and settled, unless its own job was struck: by the death of what *)
(* runs it, or in a statement of the job.  Nothing that happens to other   *)
(* requests or to the job of another report is an excuse, and no error of  *)
(* the generation itself is one.                                           *)
AcceptedReportSettles ==
    \A r \in Reports : pc[r] = "accepted" ~> (Settled(r) \/ JobStruck(r))

-----------------------------------------------------------------------------
(* The contract these steps implement.                                     *)

(* What the row says has become of the report.                             *)
FateNamed == [absent |-> "none", processing |-> "promised", completed |-> "delivered",
              failed |-> "failed", deleted |-> "withdrawn"]
FateOf(r) == FateNamed[status[r]]

(* What it costs: a counting ledger row, or a credit not yet handed back.  *)
ChargeOf(r) ==
    IF r \in refunded \/ ledger[r] = "voided" THEN "returned"
    ELSE IF ledger[r] \in {"paid", "free"} THEN "slot"
    ELSE IF funding[r] = "credit" /\ status[r] # "absent" THEN "credit" ELSE "none"

Fate == [r \in Reports |-> FateOf(r)]
Charge == [r \in Reports |-> ChargeOf(r)]

Contract == INSTANCE ReportContract WITH fate <- Fate, charge <- Charge

(* Every behaviour of handler, job, deletion and crashes is one of the     *)
(* contract: a report is promised, charged and given an outcome once, and  *)
(* neither slot nor credit comes back but for one that failed.             *)
KeepsContract == Contract!Spec

-----------------------------------------------------------------------------
(* Statements of the repository that the code does not keep.               *)

InProgress(r) == pc[r] \in Active \/ job[r] \in Running \cup {"queued"}

(* "So a report that never generated is never charged"                     *)
(* (docs/report-pipeline-architecture.md): nothing is left to happen for   *)
(* the report, it was never generated, and yet its slot counts.            *)
NeverChargedUngenerated ==
    \A r \in Reports :
        ledger[r] \in {"paid", "free"} =>
            InProgress(r) \/ status[r] \in {"completed", "deleted"}

(* "Non-blocking write into production_signals for admin analytics": a     *)
(* report that met no failure but that one is not left without an outcome. *)
SignalWriteIsNonBlocking ==
    \A r \in Reports :
        (\A f \in FaultKinds : <<f, r>> \in hit => f = "signal") => job[r] # "lost"
=============================================================================
