-------------------------- MODULE ReportJobsTypes --------------------------
(***************************************************************************)
(* Type correctness of ReportJobs.  Each action changes a few variables;   *)
(* one step proves the new type of each of them, one that the others stay. *)
(***************************************************************************)
EXTENDS ReportJobs, TLAPS

(* Every step of the handlers, the jobs, the purchases and the crashes     *)
(* keeps the variables in the sets the code can leave them in.             *)
LEMMA TypeStep ==
    ASSUME TypeOK, [Next]_vars
    PROVE  TypeOK'
<1>1. ASSUME NEW r \in Reports, Gate(r)
      PROVE  TypeOK'
  <2>1. pc' \in [Reports -> HandlerStates]
    <3>1. pc' = [pc EXCEPT ![r] = "gated"] \/ pc' = [pc EXCEPT ![r] = "refused"]
      BY <1>1 DEF Gate
    <3>2. {"gated", "refused"} \subseteq HandlerStates
      BY DEF HandlerStates
    <3>. QED
      BY <3>1, <3>2 DEF TypeOK
  <2>2. funding' \in [Reports -> {"none", "plan", "credit"}]
    BY <1>1 DEF TypeOK, Gate
  <2>3. loop' \in [Procs -> Reports \cup Users \cup {Idle}]
    BY <1>1, InstanceAssumption DEF TypeOK, Gate
  <2>4. UNCHANGED <<kind, answer, remembered, debitSeen, status, ledger,
                    job, refundSeen, credits, buySeen, purchased, refunded,
                    hit>>
    BY <1>1 DEF Gate, workerVars
  <2>. QED
    BY <2>1, <2>2, <2>3, <2>4 DEF TypeOK
<1>2. ASSUME NEW r \in Reports, Classify(r)
      PROVE  TypeOK'
  <2>1. pc' \in [Reports -> HandlerStates]
    BY <1>2 DEF TypeOK, Classify, HandlerStates
  <2>2. kind' \in [Reports -> {"none", "paid", "free"}]
    BY <1>2 DEF TypeOK, Classify
  <2>3. loop' \in [Procs -> Reports \cup Users \cup {Idle}]
    BY <1>2, InstanceAssumption DEF TypeOK, Classify
  <2>4. UNCHANGED <<funding, answer, remembered, debitSeen, status, ledger,
                    job, refundSeen, credits, buySeen, purchased, refunded,
                    hit>>
    BY <1>2 DEF Classify, workerVars
  <2>. QED
    BY <2>1, <2>2, <2>3, <2>4 DEF TypeOK
<1>3. ASSUME NEW r \in Reports, Resume(r)
      PROVE  TypeOK'
  <2>1. pc' \in [Reports -> HandlerStates]
    BY <1>3 DEF TypeOK, Resume, HandlerStates
  <2>2. answer' \in [Reports -> Reports \cup {NoReport}]
    <3>1. RecentReport(r) \in Reports \cup {NoReport}
      BY InstanceAssumption DEF TypeOK, RecentReport
    <3>2. answer' = [answer EXCEPT ![r] = RecentReport(r)] \/ answer' = answer
      BY <1>3 DEF Resume
    <3>. QED
      BY <3>1, <3>2 DEF TypeOK
  <2>3. loop' \in [Procs -> Reports \cup Users \cup {Idle}]
    BY <1>3, InstanceAssumption DEF TypeOK, Resume
  <2>4. hit' \subseteq FaultKinds \X Reports
    BY <1>3, BoundAssumption DEF TypeOK, Resume, Fault
  <2>5. UNCHANGED <<funding, kind, remembered, debitSeen, status, ledger,
                    job, refundSeen, credits, buySeen, purchased, refunded>>
    BY <1>3 DEF Resume, workerVars
  <2>. QED
    BY <2>1, <2>2, <2>3, <2>4, <2>5 DEF TypeOK
<1>4. ASSUME NEW r \in Reports, CreateRow(r)
      PROVE  TypeOK'
  <2>1. pc' \in [Reports -> HandlerStates]
    BY <1>4 DEF TypeOK, CreateRow, HandlerStates, Respond
  <2>2. loop' \in [Procs -> Reports \cup Users \cup {Idle}]
    BY <1>4, InstanceAssumption DEF TypeOK, CreateRow, Respond
  <2>3. remembered' \in [Procs -> [Keys -> Reports \cup {NoReport}]]
    <3>1. Proc[r] \in Procs /\ Key[r] \in Keys
      BY InstanceAssumption
    <3>2. \/ remembered' = [remembered EXCEPT ![Proc[r]][Key[r]] = r]
          \/ remembered' = remembered
      BY <1>4 DEF CreateRow
    <3>3. remembered[Proc[r]] \in [Keys -> Reports \cup {NoReport}]
      BY <3>1 DEF TypeOK
    <3>4. [remembered[Proc[r]] EXCEPT ![Key[r]] = r]
            \in [Keys -> Reports \cup {NoReport}]
      BY <3>1, <3>3
    <3>. QED
      BY <3>1, <3>2, <3>4 DEF TypeOK
  <2>4. status' \in [Reports -> RowStates]
    BY <1>4 DEF TypeOK, CreateRow, RowStates
  <2>5. hit' \subseteq FaultKinds \X Reports
    BY <1>4, BoundAssumption DEF TypeOK, CreateRow, Fault
  <2>6. UNCHANGED <<funding, kind, answer, debitSeen, ledger, job,
                    refundSeen, credits, buySeen, purchased, refunded>>
    BY <1>4 DEF CreateRow, workerVars, Respond
  <2>. QED
    BY <2>1, <2>2, <2>3, <2>4, <2>5, <2>6 DEF TypeOK
<1>5. ASSUME NEW r \in Reports, RecordUsage(r)
      PROVE  TypeOK'
  <2>1. pc' \in [Reports -> HandlerStates]
    BY <1>5 DEF TypeOK, RecordUsage, HandlerStates
  <2>2. ledger' \in [Reports -> {"none", "paid", "free", "voided"}]
    BY <1>5 DEF TypeOK, RecordUsage
  <2>3. hit' \subseteq FaultKinds \X Reports
    BY <1>5, BoundAssumption DEF TypeOK, RecordUsage, Fault
  <2>4. UNCHANGED <<funding, kind, answer, loop, remembered, debitSeen,
                    status, job, refundSeen, credits, buySeen, purchased,
                    refunded>>
    BY <1>5 DEF RecordUsage, workerVars
  <2>. QED
    BY <2>1, <2>2, <2>3, <2>4 DEF TypeOK
<1>6. ASSUME NEW r \in Reports, Dispatch(r)
      PROVE  TypeOK'
  <2>1. pc' \in [Reports -> HandlerStates]
    BY <1>6 DEF TypeOK, Dispatch, HandlerStates, Respond
  <2>2. loop' \in [Procs -> Reports \cup Users \cup {Idle}]
    BY <1>6, InstanceAssumption DEF TypeOK, Dispatch, Respond
  <2>3. answer' \in [Reports -> Reports \cup {NoReport}]
    BY <1>6 DEF TypeOK, Dispatch
  <2>4. job' \in [Reports -> JobStates]
    BY <1>6 DEF TypeOK, Dispatch, JobStates
  <2>5. hit' \subseteq FaultKinds \X Reports
    BY <1>6, BoundAssumption DEF TypeOK, Dispatch, Fault
  <2>6. UNCHANGED <<funding, kind, remembered, debitSeen, status, ledger,
                    refundSeen, credits, buySeen, purchased, refunded>>
    BY <1>6 DEF Dispatch, Respond
  <2>. QED
    BY <2>1, <2>2, <2>3, <2>4, <2>5, <2>6 DEF TypeOK
<1>7. ASSUME NEW r \in Reports, ConsumeRead(r)
      PROVE  TypeOK'
  <2>1. pc' \in [Reports -> HandlerStates]
    BY <1>7 DEF TypeOK, ConsumeRead, HandlerStates
  <2>2. debitSeen' \in [Reports -> Nat]
    BY <1>7, InstanceAssumption DEF TypeOK, ConsumeRead
  <2>3. UNCHANGED <<funding, kind, answer, loop, remembered, status, ledger,
                    job, refundSeen, credits, buySeen, purchased, refunded,
                    hit>>
    BY <1>7 DEF ConsumeRead, procVars, workerVars
  <2>. QED
    BY <2>1, <2>2, <2>3 DEF TypeOK
<1>8. ASSUME NEW r \in Reports, ConsumeWrite(r)
      PROVE  TypeOK'
  <2>1. pc' \in [Reports -> HandlerStates]
    BY <1>8 DEF TypeOK, ConsumeWrite, HandlerStates, Respond
  <2>2. loop' \in [Procs -> Reports \cup Users \cup {Idle}]
    BY <1>8, InstanceAssumption DEF TypeOK, ConsumeWrite, Respond
  <2>3. answer' \in [Reports -> Reports \cup {NoReport}]
    BY <1>8 DEF TypeOK, ConsumeWrite
  <2>4. debitSeen' \in [Reports -> Nat]
    BY <1>8, InstanceAssumption DEF TypeOK, ConsumeWrite
  <2>5. credits' \in [Users -> Nat]
    <3>1. Debited(debitSeen[r]) \in Nat
      BY DEF TypeOK, Debited
    <3>2. credits' = credits \/ credits' = [credits EXCEPT ![Owner[r]] = Debited(debitSeen[r])]
      BY <1>8 DEF ConsumeWrite
    <3>. QED
      BY <3>1, <3>2 DEF TypeOK
  <2>6. hit' \subseteq FaultKinds \X Reports
    BY <1>8, BoundAssumption DEF TypeOK, ConsumeWrite, Fault
  <2>7. UNCHANGED <<funding, kind, remembered, status, ledger, job,
                    refundSeen, buySeen, purchased, refunded>>
    BY <1>8 DEF ConsumeWrite, workerVars, Respond
  <2>. QED
    BY <2>1, <2>2, <2>3, <2>4, <2>5, <2>6, <2>7 DEF TypeOK
<1>9. ASSUME NEW r \in Reports, DeleteReport(r)
      PROVE  TypeOK'
  <2>1. status' \in [Reports -> RowStates]
    BY <1>9 DEF TypeOK, DeleteReport, RowStates
  <2>2. UNCHANGED <<pc, funding, kind, answer, loop, remembered, debitSeen,
                    ledger, job, refundSeen, credits, buySeen, purchased,
                    refunded, hit>>
    BY <1>9 DEF DeleteReport, webVars, procVars, workerVars
  <2>. QED
    BY <2>1, <2>2 DEF TypeOK
<1>10. ASSUME NEW r \in Reports, Load(r)
       PROVE  TypeOK'
  <2>1. job' \in [Reports -> JobStates]
    BY <1>10 DEF TypeOK, Load, JobStates
  <2>2. hit' \subseteq FaultKinds \X Reports
    BY <1>10, BoundAssumption DEF TypeOK, Load, Fault
  <2>3. UNCHANGED <<pc, funding, kind, answer, loop, remembered, debitSeen,
                    status, ledger, refundSeen, credits, buySeen, purchased,
                    refunded>>
    BY <1>10 DEF Load, webVars, procVars
  <2>. QED
    BY <2>1, <2>2, <2>3 DEF TypeOK
<1>11. ASSUME NEW r \in Reports, Complete(r)
       PROVE  TypeOK'
  <2>1. status' \in [Reports -> RowStates]
    BY <1>11 DEF TypeOK, Complete, Marked, RowStates
  <2>2. job' \in [Reports -> JobStates]
    BY <1>11 DEF TypeOK, Complete, JobStates
  <2>3. hit' \subseteq FaultKinds \X Reports
    BY <1>11, BoundAssumption DEF TypeOK, Complete, Fault
  <2>4. UNCHANGED <<pc, funding, kind, answer, loop, remembered, debitSeen,
                    ledger, refundSeen, credits, buySeen, purchased,
                    refunded>>
    BY <1>11 DEF Complete, webVars, procVars
  <2>. QED
    BY <2>1, <2>2, <2>3, <2>4 DEF TypeOK
<1>12. ASSUME NEW r \in Reports, GenerationRaises(r)
       PROVE  TypeOK'
  <2>1. job' \in [Reports -> JobStates]
    BY <1>12 DEF TypeOK, GenerationRaises, JobStates
  <2>2. hit' \subseteq FaultKinds \X Reports
    BY <1>12, BoundAssumption DEF TypeOK, GenerationRaises, Fault
  <2>3. UNCHANGED <<pc, funding, kind, answer, loop, remembered, debitSeen,
                    status, ledger, refundSeen, credits, buySeen, purchased,
                    refunded>>
    BY <1>12 DEF GenerationRaises, webVars, procVars
  <2>. QED
    BY <2>1, <2>2, <2>3 DEF TypeOK
<1>13. ASSUME NEW r \in Reports, FailMark(r)
       PROVE  TypeOK'
  <2>1. status' \in [Reports -> RowStates]
    BY <1>13 DEF TypeOK, FailMark, Marked, RowStates
  <2>2. job' \in [Reports -> JobStates]
    BY <1>13 DEF TypeOK, FailMark, JobStates
  <2>3. hit' \subseteq FaultKinds \X Reports
    BY <1>13, BoundAssumption DEF TypeOK, FailMark, Fault
  <2>4. UNCHANGED <<pc, funding, kind, answer, loop, remembered, debitSeen,
                    ledger, refundSeen, credits, buySeen, purchased,
                    refunded>>
    BY <1>13 DEF FailMark, webVars, procVars
  <2>. QED
    BY <2>1, <2>2, <2>3, <2>4 DEF TypeOK
<1>14. ASSUME NEW r \in Reports, Void(r)
       PROVE  TypeOK'
  <2>1. ledger' \in [Reports -> {"none", "paid", "free", "voided"}]
    BY <1>14 DEF TypeOK, Void, Voided
  <2>2. job' \in [Reports -> JobStates]
    BY <1>14 DEF TypeOK, Void, JobStates
  <2>3. hit' \subseteq FaultKinds \X Reports
    BY <1>14, BoundAssumption DEF TypeOK, Void, Fault
  <2>4. UNCHANGED <<pc, funding, kind, answer, loop, remembered, debitSeen,
                    status, refundSeen, credits, buySeen, purchased,
                    refunded>>
    BY <1>14 DEF Void, webVars, procVars
  <2>. QED
    BY <2>1, <2>2, <2>3, <2>4 DEF TypeOK
<1>15. ASSUME NEW r \in Reports, RefundRead(r)
       PROVE  TypeOK'
  <2>1. job' \in [Reports -> JobStates]
    BY <1>15 DEF TypeOK, RefundRead, JobStates
  <2>2. refundSeen' \in [Reports -> Nat]
    BY <1>15, InstanceAssumption DEF TypeOK, RefundRead
  <2>3. UNCHANGED <<pc, funding, kind, answer, loop, remembered, debitSeen,
                    status, ledger, credits, buySeen, purchased, refunded,
                    hit>>
    BY <1>15 DEF RefundRead, webVars, procVars
  <2>. QED
    BY <2>1, <2>2, <2>3 DEF TypeOK
<1>16. ASSUME NEW r \in Reports, RefundWrite(r)
       PROVE  TypeOK'
  <2>1. job' \in [Reports -> JobStates]
    BY <1>16 DEF TypeOK, RefundWrite, JobStates
  <2>2. refundSeen' \in [Reports -> Nat]
    BY <1>16, InstanceAssumption DEF TypeOK, RefundWrite
  <2>3. credits' \in [Users -> Nat]
    BY <1>16, InstanceAssumption DEF TypeOK, RefundWrite
  <2>4. refunded' \subseteq Reports
    BY <1>16 DEF TypeOK, RefundWrite
  <2>5. hit' \subseteq FaultKinds \X Reports
    BY <1>16, BoundAssumption DEF TypeOK, RefundWrite, Fault
  <2>6. UNCHANGED <<pc, funding, kind, answer, loop, remembered, debitSeen,
                    status, ledger, buySeen, purchased>>
    BY <1>16 DEF RefundWrite, webVars, procVars
  <2>. QED
    BY <2>1, <2>2, <2>3, <2>4, <2>5, <2>6 DEF TypeOK
<1>17. ASSUME NEW r \in Reports, WorkerKilled(r)
       PROVE  TypeOK'
  <2>1. job' \in [Reports -> JobStates]
    BY <1>17 DEF TypeOK, WorkerKilled, JobStates
  <2>2. refundSeen' \in [Reports -> Nat]
    BY <1>17, InstanceAssumption DEF TypeOK, WorkerKilled
  <2>3. hit' \subseteq FaultKinds \X Reports
    BY <1>17, BoundAssumption DEF TypeOK, WorkerKilled, Fault
  <2>4. UNCHANGED <<pc, funding, kind, answer, loop, remembered, debitSeen,
                    status, ledger, credits, buySeen, purchased, refunded>>
    BY <1>17 DEF WorkerKilled, webVars, procVars
  <2>. QED
    BY <2>1, <2>2, <2>3, <2>4 DEF TypeOK
<1>18. ASSUME NEW p \in Procs, NEW k \in Keys, Forget(p, k)
       PROVE  TypeOK'
  <2>1. remembered' \in [Procs -> [Keys -> Reports \cup {NoReport}]]
    BY <1>18, InstanceAssumption DEF TypeOK, Forget
  <2>2. UNCHANGED <<pc, funding, kind, answer, loop, debitSeen, status,
                    ledger, job, refundSeen, credits, buySeen, purchased,
                    refunded, hit>>
    BY <1>18 DEF Forget, webVars, workerVars
  <2>. QED
    BY <2>1, <2>2 DEF TypeOK
<1>19. ASSUME NEW u \in Users, NEW p \in Procs, PurchaseRead(u, p)
       PROVE  TypeOK'
  <2>1. loop' \in [Procs -> Reports \cup Users \cup {Idle}]
    BY <1>19, InstanceAssumption DEF TypeOK, PurchaseRead
  <2>2. buySeen' \in [Procs -> Nat]
    BY <1>19, InstanceAssumption DEF TypeOK, PurchaseRead
  <2>3. UNCHANGED <<pc, funding, kind, answer, remembered, debitSeen,
                    status, ledger, job, refundSeen, credits, purchased,
                    refunded, hit>>
    BY <1>19 DEF PurchaseRead, webVars, workerVars
  <2>. QED
    BY <2>1, <2>2, <2>3 DEF TypeOK
<1>20. ASSUME NEW u \in Users, NEW p \in Procs, PurchaseWrite(u, p)
       PROVE  TypeOK'
  <2>1. loop' \in [Procs -> Reports \cup Users \cup {Idle}]
    BY <1>20, InstanceAssumption DEF TypeOK, PurchaseWrite
  <2>2. buySeen' \in [Procs -> Nat]
    BY <1>20, InstanceAssumption DEF TypeOK, PurchaseWrite
  <2>3. credits' \in [Users -> Nat]
    BY <1>20, InstanceAssumption DEF TypeOK, PurchaseWrite
  <2>4. purchased' \in [Users -> Nat]
    BY <1>20, InstanceAssumption DEF TypeOK, PurchaseWrite
  <2>5. UNCHANGED <<pc, funding, kind, answer, remembered, debitSeen,
                    status, ledger, job, refundSeen, refunded, hit>>
    BY <1>20 DEF PurchaseWrite, webVars, workerVars
  <2>. QED
    BY <2>1, <2>2, <2>3, <2>4, <2>5 DEF TypeOK
<1>21. ASSUME NEW p \in Procs, WebCrash(p)
       PROVE  TypeOK'
  <2>1. pc' \in [Reports -> HandlerStates]
    BY <1>21 DEF TypeOK, WebCrash, HandlerStates
  <2>2. loop' \in [Procs -> Reports \cup Users \cup {Idle}]
    BY <1>21, InstanceAssumption DEF TypeOK, WebCrash
  <2>3. remembered' \in [Procs -> [Keys -> Reports \cup {NoReport}]]
    BY <1>21, InstanceAssumption DEF TypeOK, WebCrash
  <2>4. debitSeen' \in [Reports -> Nat]
    BY <1>21, InstanceAssumption DEF TypeOK, WebCrash
  <2>5. job' \in [Reports -> JobStates]
    BY <1>21 DEF TypeOK, WebCrash, JobStates
  <2>6. refundSeen' \in [Reports -> Nat]
    BY <1>21, InstanceAssumption DEF TypeOK, WebCrash
  <2>7. buySeen' \in [Procs -> Nat]
    BY <1>21, InstanceAssumption DEF TypeOK, WebCrash
  <2>8. hit' \subseteq FaultKinds \X Reports
    BY <1>21, BoundAssumption DEF TypeOK, WebCrash, Fault
  <2>9. UNCHANGED <<funding, kind, answer, status, ledger, credits,
                    purchased, refunded>>
    BY <1>21 DEF WebCrash
  <2>. QED
    BY <2>1, <2>2, <2>3, <2>4, <2>5, <2>6, <2>7, <2>8, <2>9 DEF TypeOK
<1>22. ASSUME NEW r \in Reports, SignalFails(r)
       PROVE  TypeOK'
  <2>1. hit' \subseteq FaultKinds \X Reports
    BY <1>22, BoundAssumption DEF TypeOK, SignalFails, Fault
  <2>2. UNCHANGED <<pc, funding, kind, answer, loop, remembered, debitSeen,
                    status, ledger, job, refundSeen, credits, buySeen,
                    purchased, refunded>>
    BY <1>22 DEF SignalFails, webVars, procVars, workerVars
  <2>. QED
    BY <2>1, <2>2 DEF TypeOK
<1>23. ASSUME NEW u \in Users, NEW p \in Procs, WriteOff(u, p)
       PROVE  TypeOK'
  <2>1. loop' \in [Procs -> Reports \cup Users \cup {Idle}]
    BY <1>23, InstanceAssumption DEF TypeOK, WriteOff
  <2>2. buySeen' \in [Procs -> Nat]
    BY <1>23, InstanceAssumption DEF TypeOK, WriteOff
  <2>3. credits' \in [Users -> Nat]
    BY <1>23, InstanceAssumption DEF TypeOK, WriteOff
  <2>4. UNCHANGED <<pc, funding, kind, answer, remembered, debitSeen,
                    status, ledger, job, refundSeen, purchased, refunded, hit>>
    BY <1>23 DEF WriteOff, webVars, workerVars
  <2>. QED
    BY <2>1, <2>2, <2>3, <2>4 DEF TypeOK
<1>24. CASE UNCHANGED vars
  BY <1>24 DEF TypeOK, vars
<1>. QED
  BY <1>1, <1>2, <1>3, <1>4, <1>5, <1>6, <1>7, <1>8, <1>9, <1>10, <1>11,
     <1>12, <1>13, <1>14, <1>15, <1>16, <1>17, <1>18, <1>19, <1>20, <1>21,
     <1>22, <1>23, <1>24 DEF Next, HandlerStep, JobStep

(* The values every variable can take: balances never go below zero, and   *)
(* the ledger never names a report type the gate does not count.           *)
THEOREM TypeCorrect == Spec => []TypeOK
<1>1. Init => TypeOK
  BY InstanceAssumption DEF Init, TypeOK, HandlerStates, RowStates, JobStates
<1>2. TypeOK /\ [Next]_vars => TypeOK'
  BY TypeStep
<1>. QED
  BY <1>1, <1>2, PTL DEF Spec
=============================================================================
