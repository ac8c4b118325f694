-------------------------- MODULE ReportJobsProofs --------------------------
(***************************************************************************)
(* The safety properties of ReportJobs, for any number of accounts,        *)
(* submissions, web processes, workers and failures.                       *)
(***************************************************************************)
EXTENDS ReportJobsTypes, FiniteSetTheorems

(* Where a submission can stand before its row, its ledger entry and its   *)
(* job exist.                                                              *)
NotCreated    == {"idle", "gated", "reading", "cleared", "refused", "duplicate"}
NotRecorded   == NotCreated \cup {"created"}
NotDispatched == NotRecorded \cup {"recorded"}

SlotReleased(r) == ledger[r] \in {"none", "voided"} \/ <<"void", r>> \in hit

(* How far the row, the ledger, the job and the refund of one report can   *)
(* be apart.  FailedReportSettled is its last conjunct; the others say     *)
(* which of the four moves first, and make it inductive.                   *)
Lifecycle(r) ==
    \* Row, ledger and job appear in this order.
    /\ pc[r] \in NotCreated => status[r] = "absent"
    /\ pc[r] \in NotRecorded => ledger[r] = "none"
    /\ pc[r] \in NotDispatched => job[r] = "none"
    \* The row is final no later than the job.
    /\ status[r] = "completed" => job[r] \in {"failing", "done", "lost"}
    /\ status[r] = "completed" /\ job[r] = "failing" =>
         \/ <<"persist_late", r>> \in hit
         \/ <<"signal", r>> \in hit \/ <<"statement", r>> \in hit
    \* On the failure path only the void can have broken the session.
    /\ job[r] \in {"voiding", "refunding", "returning"} =>
         <<"signal", r>> \notin hit /\ <<"statement", r>> \notin hit
    /\ status[r] = "failed" =>
         job[r] \in {"voiding", "refunding", "returning", "done", "lost"}
    \* Only a failed report is refunded, and only once.
    /\ job[r] \in {"voiding", "refunding", "returning"} =>
         status[r] \in {"failed", "deleted"} /\ r \notin refunded
    /\ job[r] \in {"refunding", "returning"} => SlotReleased(r) /\ funding[r] = "credit"
    /\ r \in refunded =>
         /\ job[r] = "done" /\ funding[r] = "credit"
         /\ status[r] \in {"failed", "deleted"}
    /\ job[r] = "done" /\ status[r] = "failed" =>
         /\ SlotReleased(r)
         /\ funding[r] = "credit" =>
              r \in refunded \/ \E f \in {"refund", "load", "void"} : <<f, r>> \in hit

Lifecycles == \A r \in Reports : Lifecycle(r)

(* A handler that is not awaiting holds the event loop of its process, and *)
(* a submission that passed the duplicate check is not remembered yet.     *)
LoopHeld == \A r \in Reports : pc[r] \in OnLoop => loop[Proc[r]] = r
ClearedIsNew ==
    \A r \in Reports : pc[r] = "cleared" => remembered[Proc[r]][Key[r]] = NoReport

(* What every reachable state satisfies and every step keeps.              *)
Inductive == TypeOK /\ Lifecycles /\ LoopHeld /\ ClearedIsNew

-----------------------------------------------------------------------------
(* Cardinalities of sets of reports.                                       *)

(* Every set of reports is finite: the instance has finitely many.         *)
LEMMA FiniteReports ==
    ASSUME NEW S, S \subseteq Reports
    PROVE  IsFiniteSet(S) /\ Cardinality(S) \in Nat
  BY InstanceAssumption, FS_Subset, FS_CardinalityType

(* A set of reports has no more members than a set that contains it.       *)
LEMMA CardOrder ==
    ASSUME NEW T, T \subseteq Reports, NEW S, S \subseteq T
    PROVE  Cardinality(S) <= Cardinality(T)
  BY FiniteReports, FS_Subset

(* A union has no more members than its two parts together.                *)
LEMMA CardUnion ==
    ASSUME NEW S, S \subseteq Reports, NEW T, T \subseteq Reports
    PROVE  Cardinality(S \cup T) <= Cardinality(S) + Cardinality(T)
<1>1. /\ IsFiniteSet(S) /\ Cardinality(S) \in Nat
      /\ IsFiniteSet(T) /\ Cardinality(T) \in Nat
  BY FiniteReports
<1>2. Cardinality(S \cap T) \in Nat
  BY FiniteReports
<1>3. Cardinality(S \cup T) =
        Cardinality(S) + Cardinality(T) - Cardinality(S \cap T)
  BY <1>1, FS_Union, Zenon
<1>. QED
  BY <1>1, <1>2, <1>3

(* One more report makes a set larger by at most one, by exactly one if it *)
(* was not in it.                                                          *)
LEMMA CardAdd ==
    ASSUME NEW S, S \subseteq Reports, NEW r \in Reports
    PROVE  /\ Cardinality(S \cup {r}) <= Cardinality(S) + 1
           /\ r \notin S => Cardinality(S \cup {r}) = Cardinality(S) + 1
<1>1. IsFiniteSet(S) /\ Cardinality(S) \in Nat
  BY FiniteReports
<1>2. Cardinality(S \cup {r}) =
        IF r \in S THEN Cardinality(S) ELSE Cardinality(S) + 1
  BY <1>1, FS_AddElement, Zenon
<1>. QED
  BY <1>1, <1>2

-----------------------------------------------------------------------------
(* The order of row, ledger, job and refund.                               *)

(* Every step keeps the life cycle of every report: of the report it is    *)
(* about, and of the others, which it leaves alone.                        *)
LEMMA LifecycleStep ==
    ASSUME TypeOK, Lifecycles, [Next]_vars
    PROVE  Lifecycles'
<1>. USE DEF TypeOK, Lifecycles, Lifecycle, SlotReleased, NotCreated,
   NotRecorded, NotDispatched
<1>1. ASSUME NEW s \in Reports, Gate(s)
      PROVE  Lifecycles'
  <2>1. ASSUME NEW r \in Reports, r # s
        PROVE  Lifecycle(r)'
    BY <1>1, <2>1 DEF Gate, workerVars
  <2>2. Lifecycle(s)'
    BY <1>1 DEF Gate, workerVars
  <2>. QED
    BY <2>1, <2>2
<1>2. ASSUME NEW s \in Reports, Classify(s)
      PROVE  Lifecycles'
  <2>1. ASSUME NEW r \in Reports, r # s
        PROVE  Lifecycle(r)'
    BY <1>2, <2>1 DEF Classify, workerVars
  <2>2. Lifecycle(s)'
    BY <1>2 DEF Classify, workerVars
  <2>. QED
    BY <2>1, <2>2
<1>3. ASSUME NEW s \in Reports, Resume(s)
      PROVE  Lifecycles'
  <2>1. ASSUME NEW r \in Reports, r # s
        PROVE  Lifecycle(r)'
    BY <1>3, <2>1 DEF Resume, Fault, workerVars
  <2>2. Lifecycle(s)'
    BY <1>3 DEF Resume, Fault, workerVars
  <2>. QED
    BY <2>1, <2>2
<1>4. ASSUME NEW s \in Reports, CreateRow(s)
      PROVE  Lifecycles'
  <2>1. ASSUME NEW r \in Reports, r # s
        PROVE  Lifecycle(r)'
    BY <1>4, <2>1 DEF CreateRow, Fault, workerVars, Respond
  <2>2. Lifecycle(s)'
    BY <1>4 DEF CreateRow, Fault, workerVars, Respond
  <2>. QED
    BY <2>1, <2>2
<1>5. ASSUME NEW s \in Reports, RecordUsage(s)
      PROVE  Lifecycles'
  <2>1. ASSUME NEW r \in Reports, r # s
        PROVE  Lifecycle(r)'
    BY <1>5, <2>1 DEF RecordUsage, workerVars, Fault
  <2>2. Lifecycle(s)'
    BY <1>5 DEF RecordUsage, workerVars, Fault
  <2>. QED
    BY <2>1, <2>2
<1>6. ASSUME NEW s \in Reports, Dispatch(s)
      PROVE  Lifecycles'
  <2>0. UNCHANGED <<funding, status, ledger, refunded>>
    BY <1>6 DEF Dispatch
  <2>1. ASSUME NEW r \in Reports, r # s
        PROVE  Lifecycle(r)'
    <3>1. pc'[r] = pc[r] /\ job'[r] = job[r]
      BY <1>6, <2>1 DEF Dispatch, Respond
    <3>2. ASSUME NEW f PROVE <<f, r>> \in hit' <=> <<f, r>> \in hit
      BY <1>6, <2>1 DEF Dispatch, Fault
    <3>. QED
      BY <2>0, <3>1, <3>2
  <2>2. Lifecycle(s)'
    <3>1. CASE job' = [job EXCEPT ![s] = "queued"] /\ UNCHANGED hit
      BY <1>6, <2>0, <3>1 DEF Dispatch, Respond
    <3>2. CASE Fault("enqueue", s) /\ Respond(s, "error") /\ UNCHANGED job
      BY <1>6, <2>0, <3>2 DEF Dispatch, Respond, Fault
    <3>. QED
      BY <1>6, <3>1, <3>2 DEF Dispatch
  <2>. QED
    BY <2>1, <2>2
<1>7. ASSUME NEW s \in Reports, ConsumeRead(s)
      PROVE  Lifecycles'
  <2>1. ASSUME NEW r \in Reports, r # s
        PROVE  Lifecycle(r)'
    BY <1>7, <2>1 DEF ConsumeRead, procVars, workerVars
  <2>2. Lifecycle(s)'
    BY <1>7 DEF ConsumeRead, procVars, workerVars
  <2>. QED
    BY <2>1, <2>2
<1>8. ASSUME NEW s \in Reports, ConsumeWrite(s)
      PROVE  Lifecycles'
  <2>1. ASSUME NEW r \in Reports, r # s
        PROVE  Lifecycle(r)'
    BY <1>8, <2>1 DEF ConsumeWrite, workerVars, Respond, Fault
  <2>2. Lifecycle(s)'
    BY <1>8 DEF ConsumeWrite, workerVars, Respond, Fault
  <2>. QED
    BY <2>1, <2>2
<1>9. ASSUME NEW s \in Reports, DeleteReport(s)
      PROVE  Lifecycles'
  <2>1. ASSUME NEW r \in Reports, r # s
        PROVE  Lifecycle(r)'
    BY <1>9, <2>1 DEF DeleteReport, webVars, procVars, workerVars
  <2>2. Lifecycle(s)'
    BY <1>9 DEF DeleteReport, webVars, procVars, workerVars
  <2>. QED
    BY <2>1, <2>2
<1>10. ASSUME NEW s \in Reports, Load(s)
      PROVE  Lifecycles'
  <2>1. ASSUME NEW r \in Reports, r # s
        PROVE  Lifecycle(r)'
    BY <1>10, <2>1 DEF Load, webVars, procVars, Fault
  <2>2. Lifecycle(s)'
    BY <1>10 DEF Load, webVars, procVars, Fault
  <2>. QED
    BY <2>1, <2>2
<1>11. ASSUME NEW s \in Reports, Complete(s)
      PROVE  Lifecycles'
  <2>1. ASSUME NEW r \in Reports, r # s
        PROVE  Lifecycle(r)'
    BY <1>11, <2>1 DEF Complete, SessionBroken, webVars, procVars, Marked, Fault
  <2>2. Lifecycle(s)'
    BY <1>11 DEF Complete, SessionBroken, webVars, procVars, Marked, Fault
  <2>. QED
    BY <2>1, <2>2
<1>12. ASSUME NEW s \in Reports, GenerationRaises(s)
      PROVE  Lifecycles'
  <2>1. ASSUME NEW r \in Reports, r # s
        PROVE  Lifecycle(r)'
    BY <1>12, <2>1 DEF GenerationRaises, webVars, procVars, Fault
  <2>2. Lifecycle(s)'
    BY <1>12 DEF GenerationRaises, webVars, procVars, Fault
  <2>. QED
    BY <2>1, <2>2
<1>13. ASSUME NEW s \in Reports, FailMark(s)
      PROVE  Lifecycles'
  <2>0. /\ UNCHANGED <<pc, funding, ledger, refunded>>
        /\ status' = status \/ status' = Marked(s, "failed")
    BY <1>13 DEF FailMark, webVars
  <2>1. ASSUME NEW r \in Reports, r # s
        PROVE  Lifecycle(r)'
    <3>1. status'[r] = status[r] /\ job'[r] = job[r]
      BY <1>13, <2>0, <2>1 DEF FailMark, Marked
    <3>2. ASSUME NEW f PROVE <<f, r>> \in hit' <=> <<f, r>> \in hit
      <4>1. hit' = hit \/ hit' = hit \cup {<<"fail_mark", s>>}
        BY <1>13 DEF FailMark, Fault
      <4>. QED
        BY <4>1, <2>1
    <3>. QED
      BY <2>0, <3>1, <3>2
  <2>2. Lifecycle(s)'
    <3>1. CASE ~SessionBroken(s) /\ status' = Marked(s, "failed")
               /\ job' = [job EXCEPT ![s] = "voiding"] /\ UNCHANGED hit
      BY <1>13, <2>0, <3>1 DEF FailMark, SessionBroken, Marked
    <3>2. CASE job' = [job EXCEPT ![s] = "lost"]
      BY <1>13, <2>0, <3>2 DEF FailMark, Marked, Fault
    <3>. QED
      BY <1>13, <3>1, <3>2 DEF FailMark
  <2>. QED
    BY <2>1, <2>2
<1>14. ASSUME NEW s \in Reports, Void(s)
      PROVE  Lifecycles'
  <2>1. ASSUME NEW r \in Reports, r # s
        PROVE  Lifecycle(r)'
    BY <1>14, <2>1 DEF Void, webVars, procVars, Voided, Fault, RefundDue
  <2>2. Lifecycle(s)'
    BY <1>14 DEF Void, webVars, procVars, Voided, Fault, RefundDue
  <2>. QED
    BY <2>1, <2>2
<1>15. ASSUME NEW s \in Reports, RefundRead(s)
      PROVE  Lifecycles'
  <2>1. ASSUME NEW r \in Reports, r # s
        PROVE  Lifecycle(r)'
    BY <1>15, <2>1 DEF RefundRead, SessionBroken, webVars, procVars
  <2>2. Lifecycle(s)'
    BY <1>15 DEF RefundRead, SessionBroken, webVars, procVars
  <2>. QED
    BY <2>1, <2>2
<1>16. ASSUME NEW s \in Reports, RefundWrite(s)
      PROVE  Lifecycles'
  <2>1. ASSUME NEW r \in Reports, r # s
        PROVE  Lifecycle(r)'
    BY <1>16, <2>1 DEF RefundWrite, webVars, procVars, Fault
  <2>2. Lifecycle(s)'
    BY <1>16 DEF RefundWrite, webVars, procVars, Fault
  <2>. QED
    BY <2>1, <2>2
<1>17. ASSUME NEW s \in Reports, WorkerKilled(s)
      PROVE  Lifecycles'
  <2>1. ASSUME NEW r \in Reports, r # s
        PROVE  Lifecycle(r)'
    BY <1>17, <2>1 DEF WorkerKilled, webVars, procVars, Fault, Running
  <2>2. Lifecycle(s)'
    BY <1>17 DEF WorkerKilled, webVars, procVars, Fault, Running
  <2>. QED
    BY <2>1, <2>2
<1>18. ASSUME NEW u \in Users, NEW p \in Procs, PurchaseRead(u, p) \/ PurchaseWrite(u, p) \/ WriteOff(u, p)
      PROVE  Lifecycles'
  BY <1>18 DEF PurchaseRead, PurchaseWrite, WriteOff, webVars, workerVars
<1>19. ASSUME NEW p \in Procs, NEW k \in Keys, Forget(p, k)
      PROVE  Lifecycles'
  BY <1>19 DEF Forget, webVars, workerVars
<1>20. ASSUME NEW p \in Procs, WebCrash(p)
      PROVE  Lifecycles'
  <2>. SUFFICES ASSUME NEW r \in Reports
                PROVE  Lifecycle(r)'
    OBVIOUS
  <2>. QED
    BY <1>20 DEF WebCrash, Active, Running
<1>21. ASSUME NEW s \in Reports, SignalFails(s)
       PROVE  Lifecycles'
  BY <1>21 DEF SignalFails, webVars, procVars, workerVars, Fault
<1>22. CASE UNCHANGED vars
  BY <1>22 DEF vars
<1>. QED
  BY <1>1, <1>2, <1>3, <1>4, <1>5, <1>6, <1>7, <1>8, <1>9, <1>10, <1>11,
     <1>12, <1>13, <1>14, <1>15, <1>16, <1>17, <1>18, <1>19, <1>20, <1>21,
     <1>22
     DEF Next, HandlerStep, JobStep

-----------------------------------------------------------------------------
(* The event loop and the memory of recent submissions.                    *)

(* Between two awaits a handler is alone on its event loop, so nothing is  *)
(* remembered between its duplicate check and its own registration.        *)
LEMMA LoopStep ==
    ASSUME TypeOK, LoopHeld, ClearedIsNew, [Next]_vars
    PROVE  LoopHeld' /\ ClearedIsNew'
<1>1. ASSUME NEW s \in Reports, HandlerStep(s)
      PROVE  LoopHeld' /\ ClearedIsNew'
  <2>1. ASSUME NEW r \in Reports, r # s, pc'[r] \in OnLoop
        PROVE  /\ loop'[Proc[r]] = r
               /\ pc'[r] = "cleared" => remembered'[Proc[r]][Key[r]] = NoReport
    <3>1. pc[r] \in OnLoop /\ pc'[r] = pc[r] /\ loop[Proc[r]] = r
      BY <1>1, <2>1 DEF TypeOK, LoopHeld, HandlerStep, Gate, Classify, Resume,
         CreateRow, RecordUsage, Dispatch, ConsumeRead, ConsumeWrite, Respond
    <3>2. loop[Proc[s]] \in {Idle, s}
      BY <1>1 DEF LoopHeld, OnLoop, Active, HandlerStep, Gate, Classify,
         Resume, CreateRow, RecordUsage, Dispatch, ConsumeRead, ConsumeWrite
    <3>3. Proc[s] # Proc[r]
      BY <2>1, <3>1, <3>2, BoundAssumption
    <3>4. loop'[Proc[r]] = loop[Proc[r]] /\ remembered'[Proc[r]] = remembered[Proc[r]]
      BY <1>1, <3>3, InstanceAssumption DEF TypeOK, HandlerStep, Gate,
         Classify, Resume, CreateRow, RecordUsage, Dispatch, ConsumeRead,
         ConsumeWrite, Respond, procVars
    <3>. QED
      BY <3>1, <3>4 DEF ClearedIsNew
  <2>2. ASSUME pc'[s] \in OnLoop
        PROVE  /\ loop'[Proc[s]] = s
               /\ pc'[s] = "cleared" => remembered'[Proc[s]][Key[s]] = NoReport
    BY <1>1, <2>2, InstanceAssumption, BoundAssumption DEF TypeOK, LoopHeld,
       ClearedIsNew, OnLoop, Active, HandlerStep, Gate, Classify, Resume,
       CreateRow, RecordUsage, Dispatch, ConsumeRead, ConsumeWrite, Respond,
       procVars, RecentReport
  <2>. QED
    BY <2>1, <2>2 DEF LoopHeld, ClearedIsNew, OnLoop, Active
<1>2. ASSUME NEW s \in Reports,
             DeleteReport(s) \/ Load(s) \/ JobStep(s) \/ SignalFails(s)
           \/ WorkerKilled(s)
      PROVE  LoopHeld' /\ ClearedIsNew'
  BY <1>2 DEF LoopHeld, ClearedIsNew, DeleteReport, Load, JobStep, Complete,
     GenerationRaises, FailMark, Void, RefundRead, RefundWrite, SignalFails,
     WorkerKilled, webVars, procVars
<1>3. ASSUME NEW u \in Users, NEW p \in Procs, PurchaseRead(u, p) \/ PurchaseWrite(u, p) \/ WriteOff(u, p)
      PROVE  LoopHeld' /\ ClearedIsNew'
  BY <1>3, InstanceAssumption, BoundAssumption DEF TypeOK, LoopHeld,
     ClearedIsNew, PurchaseRead, PurchaseWrite, WriteOff, webVars
<1>4. ASSUME NEW p \in Procs, NEW k \in Keys, Forget(p, k)
      PROVE  LoopHeld' /\ ClearedIsNew'
  BY <1>4, InstanceAssumption DEF TypeOK, LoopHeld, ClearedIsNew, Forget,
     webVars
<1>5. ASSUME NEW p \in Procs, WebCrash(p)
      PROVE  LoopHeld' /\ ClearedIsNew'
  BY <1>5, InstanceAssumption DEF TypeOK, LoopHeld, ClearedIsNew, WebCrash,
     OnLoop, Active
<1>6. CASE UNCHANGED vars
  BY <1>6 DEF LoopHeld, ClearedIsNew, vars
<1>. QED
  BY <1>1, <1>2, <1>3, <1>4, <1>5, <1>6 DEF Next

-----------------------------------------------------------------------------
(* The theorems that follow from the invariant alone.                      *)

(* The inductive invariant holds in every reachable state.                 *)
THEOREM InductiveCorrect == Spec => []Inductive
<1>1. Init => Inductive
  <2>1. Init => TypeOK
    BY InstanceAssumption DEF Init, TypeOK, HandlerStates, RowStates,
       JobStates
  <2>2. Init => Lifecycles
    BY DEF Init, Lifecycles, Lifecycle, SlotReleased, NotCreated, NotRecorded,
       NotDispatched
  <2>3. Init => LoopHeld /\ ClearedIsNew
    BY DEF Init, LoopHeld, ClearedIsNew, OnLoop, Active
  <2>. QED
    BY <2>1, <2>2, <2>3 DEF Inductive
<1>2. Inductive /\ [Next]_vars => Inductive'
  BY TypeStep, LifecycleStep, LoopStep DEF Inductive
<1>. QED
  BY <1>1, <1>2, PTL DEF Spec

(* "Never charge for a report that didn't generate": when the job of a     *)
(* failed report has ended, its slot is free and its credit is back,       *)
(* unless the statement that does it was the one that failed.              *)
THEOREM FailedReportSettledCorrect == Spec => []FailedReportSettled
<1>1. Inductive => FailedReportSettled
  BY DEF Inductive, Lifecycles, Lifecycle, SlotReleased, FailedReportSettled
<1>. QED
  BY <1>1, InductiveCorrect, PTL

(* A row is only ever inserted for a submission its process does not       *)
(* remember, although the check and the insert are different statements.   *)
THEOREM NoSecondGenerationCorrect == Spec => NoSecondGeneration
<1>1. ASSUME Inductive, [Next]_vars, NEW r \in Reports,
             status[r] = "absent", status'[r] = "processing"
      PROVE  pc[r] = "cleared"
  <2>1. CASE \E s \in Reports : CreateRow(s)
    BY <1>1, <2>1 DEF CreateRow, Inductive, TypeOK
  <2>2. CASE \E s \in Reports : JobStep(s) \/ DeleteReport(s)
    <3>1. PICK s \in Reports : JobStep(s) \/ DeleteReport(s)
      BY <2>2
    <3>2. \/ status' = status \/ status' = Marked(s, "completed")
          \/ status' = Marked(s, "failed") \/ status' = [status EXCEPT ![s] = "deleted"]
      BY <3>1 DEF JobStep, Complete, GenerationRaises, FailMark, Void, RefundRead,
         RefundWrite, DeleteReport
    <3>. QED
      BY <1>1, <3>2 DEF Marked, Inductive, TypeOK
  <2>3. CASE UNCHANGED status
    BY <1>1, <2>3
  <2>. QED
    BY <1>1, <2>1, <2>2, <2>3 DEF Next, vars, HandlerStep, Gate, Classify,
       Resume, RecordUsage, Dispatch, ConsumeRead, ConsumeWrite, Load,
       SignalFails, WorkerKilled, PurchaseRead, PurchaseWrite, WriteOff, Forget, WebCrash
<1>2. Inductive /\ [Next]_vars =>
        [\A r \in Reports :
           status[r] = "absent" /\ status'[r] = "processing" =>
             remembered[Proc[r]][Key[r]] = NoReport]_vars
  BY <1>1 DEF Inductive, ClearedIsNew
<1>. QED
  BY <1>2, InductiveCorrect, PTL DEF Spec, NoSecondGeneration

(* Deletion is final though the job goes on, and a delivered report turns  *)
(* failed only when an error follows the commit that delivered it.         *)
THEOREM OutcomeIsFinalCorrect == Spec => OutcomeIsFinal
<1>1. ASSUME Inductive, [Next]_vars, NEW r \in Reports
      PROVE  /\ status[r] = "deleted" => status'[r] = "deleted"
             /\ status[r] = "completed" /\ status'[r] \notin {"completed", "deleted"} =>
                  <<"persist_late", r>> \in hit
  <2>1. CASE \E s \in Reports : CreateRow(s)
    BY <2>1, <1>1 DEF CreateRow, Inductive, TypeOK, Lifecycles, Lifecycle,
       NotCreated
  <2>2. CASE \E s \in Reports : DeleteReport(s)
    BY <2>2, <1>1 DEF DeleteReport, Inductive, TypeOK
  <2>3. CASE \E s \in Reports : Complete(s)
    BY <2>3, <1>1 DEF Complete, Marked, Inductive, TypeOK
  <2>4. CASE \E s \in Reports : FailMark(s)
    <3>1. PICK s \in Reports : FailMark(s)
      BY <2>4
    <3>2. status' # status => status' = Marked(s, "failed") /\ ~SessionBroken(s)
      BY <3>1 DEF FailMark
    <3>. QED
      BY <1>1, <3>1, <3>2 DEF FailMark, SessionBroken, Marked, Inductive, TypeOK, Lifecycles,
         Lifecycle
  <2>5. CASE UNCHANGED status
    BY <2>5
  <2>. QED
    BY <1>1, <2>1, <2>2, <2>3, <2>4, <2>5 DEF Next, vars, HandlerStep,
       JobStep, Gate, Classify, Resume, RecordUsage, Dispatch, ConsumeRead,
       ConsumeWrite, Load, GenerationRaises, Void, RefundRead, RefundWrite,
       SignalFails, WorkerKilled, PurchaseRead, PurchaseWrite, WriteOff, Forget, WebCrash
<1>2. Inductive /\ [Next]_vars =>
        [\A r \in Reports :
           /\ (status[r] = "deleted" => status'[r] = "deleted")
           /\ (status[r] = "completed" /\ status'[r] \notin {"completed", "deleted"} =>
                 <<"persist_late", r>> \in hit)]_vars
  BY <1>1
<1>. QED
  BY <1>2, InductiveCorrect, PTL DEF Spec, OutcomeIsFinal

(* A slot of the quota is given back by the void of its own failed report  *)
(* and by nothing else.                                                    *)
THEOREM SlotReleasedOnlyByFailureCorrect == Spec => SlotReleasedOnlyByFailure
<1>1. ASSUME Inductive, [Next]_vars, NEW u \in Users,
             NEW r \in Usage(u) \ Usage(u)'
      PROVE  job[r] = "voiding"
  <2>1. r \in Reports /\ Owner[r] = u /\ ledger[r] # "none" /\ ledger'[r] # ledger[r]
    BY DEF Usage, Counted
  <2>2. CASE \E s \in Reports : RecordUsage(s)
    BY <1>1, <2>1, <2>2 DEF RecordUsage, Inductive, TypeOK, Lifecycles,
       Lifecycle, NotRecorded
  <2>3. CASE \E s \in Reports : Void(s)
    BY <1>1, <2>1, <2>3 DEF Void, Inductive, TypeOK
  <2>4. CASE UNCHANGED ledger
    BY <2>1, <2>4
  <2>. QED
    BY <1>1, <2>2, <2>3, <2>4 DEF Next, vars, HandlerStep, JobStep, Gate,
       Classify, Resume, CreateRow, Dispatch, ConsumeRead, ConsumeWrite,
       DeleteReport, Load, Complete, GenerationRaises, FailMark, RefundRead,
       RefundWrite, SignalFails, WorkerKilled, PurchaseRead, PurchaseWrite, WriteOff, Forget,
       WebCrash
<1>2. Inductive /\ [Next]_vars =>
        [\A u \in Users : \A r \in Usage(u) \ Usage(u)' : job[r] = "voiding"]_vars
  BY <1>1
<1>. QED
  BY <1>2, InductiveCorrect, PTL DEF Spec, SlotReleasedOnlyByFailure

-----------------------------------------------------------------------------
(* The quota.                                                              *)

(* Reports of u that take a slot, or will once their ledger row is there.  *)
Charged(u) == Usage(u) \cup Pending(u)

(* The gate reads the ledger without the submissions under way, so it can  *)
(* let in one report for each of them beyond the allowance, and no more.   *)
LEMMA GateCharges ==
    ASSUME TypeOK, NEW u \in Users, NEW r \in Reports, Gate(r),
           ~(u \in Subscribed /\ Limit[u] = Unlimited),
           Cardinality(Charged(u)) <= Allowance(u) + MaxInFlight - 1
    PROVE  Cardinality(Charged(u)') <= Allowance(u) + MaxInFlight - 1
<1>1. CASE Charged(u)' \subseteq Charged(u)
  <2>1. Charged(u) \subseteq Reports /\ Charged(u)' \subseteq Reports
    BY DEF Charged, Usage, Pending
  <2>2. Cardinality(Charged(u)') <= Cardinality(Charged(u))
    BY <1>1, <2>1, CardOrder
  <2>3. Cardinality(Charged(u)) \in Nat /\ Cardinality(Charged(u)') \in Nat
    BY <2>1, FiniteReports
  <2>. QED
    BY <2>2, <2>3, InstanceAssumption, BoundAssumption DEF Allowance
<1>2. CASE ~(Charged(u)' \subseteq Charged(u))
  <2>1. /\ Owner[r] = u /\ ClearedBy(u, "plan")
        /\ funding' = [funding EXCEPT ![r] = "plan"]
        /\ pc' = [pc EXCEPT ![r] = "gated"]
    BY <1>2 DEF TypeOK, Gate, Charged, Usage, Pending
  <2>2. Usage(u)' = Usage(u)
    BY DEF Gate, Usage, Counted
  <2>3. Pending(u)' \subseteq Underway(u) \cup {r}
    BY <2>1 DEF TypeOK, Pending, Underway, Active
  <2>4. Cardinality(Usage(u)) < Allowance(u) /\ Cardinality(Underway(u)) < MaxInFlight
    BY <1>2, <2>1 DEF ClearedBy, PlanSlotFree, Gate
  <2>5. /\ Usage(u) \subseteq Reports
        /\ Underway(u) \subseteq Reports
        /\ Pending(u)' \subseteq Reports
    BY DEF Usage, Underway, Pending
  <2>6. Cardinality(Pending(u)') <= Cardinality(Underway(u) \cup {r})
    BY <2>3, <2>5, CardOrder
  <2>7. Cardinality(Underway(u) \cup {r}) <= Cardinality(Underway(u)) + 1
    BY <2>5, CardAdd
  <2>8. Cardinality(Charged(u)') <= Cardinality(Usage(u)) + Cardinality(Pending(u)')
    BY <2>2, <2>5, CardUnion DEF Charged
  <2>9. /\ Cardinality(Usage(u)) \in Nat
        /\ Cardinality(Underway(u)) \in Nat
        /\ Cardinality(Underway(u) \cup {r}) \in Nat
        /\ Cardinality(Pending(u)') \in Nat
        /\ Cardinality(Charged(u)') \in Nat
    BY <2>2, <2>5, FiniteReports DEF Charged
  <2>10. Allowance(u) \in Int /\ MaxInFlight \in Int
    BY InstanceAssumption, BoundAssumption DEF Allowance
  <2>. QED
    BY <2>4, <2>6, <2>7, <2>8, <2>9, <2>10
<1>. QED
  BY <1>1, <1>2

(* After the gate nothing takes a slot that was not accounted for.         *)
LEMMA ChargedShrinks ==
    ASSUME TypeOK, NEW u \in Users, [Next]_vars,
           \A r \in Reports : ~Gate(r)
    PROVE  Charged(u)' \subseteq Charged(u)
<1>. SUFFICES ASSUME NEW r \in Charged(u)'
              PROVE  r \in Charged(u)
  OBVIOUS
<1>. DEFINE Takes(s) ==
              /\ Owner[s] = u
              /\ \/ ledger[s] \in Counted(u)
                 \/ /\ funding[s] = "plan"
                    /\ pc[s] \in {"gated", "reading", "cleared", "created"}
<1>0. r \in Reports /\ Takes(r)'
  BY DEF Charged, Usage, Pending, Counted
<1>a. Takes(r) => r \in Charged(u)
  BY <1>0 DEF Charged, Usage, Pending
<1>1. CASE \E s \in Reports : HandlerStep(s)
  BY <1>1, <1>0, <1>a DEF TypeOK, Counted, HandlerStep, Classify, Resume,
     CreateRow, RecordUsage, Dispatch, ConsumeRead, ConsumeWrite, Respond
<1>2. CASE \E s \in Reports : DeleteReport(s) \/ Load(s) \/ JobStep(s) \/ SignalFails(s)
           \/ WorkerKilled(s)
  BY <1>2, <1>0, <1>a DEF TypeOK, Counted, DeleteReport, Load, JobStep,
     Complete, GenerationRaises, FailMark, Void, RefundRead, RefundWrite,
     SignalFails, WorkerKilled, webVars, Voided
<1>3. CASE \E v \in Users, p \in Procs : PurchaseRead(v, p) \/ PurchaseWrite(v, p) \/ WriteOff(v, p)
  BY <1>3, <1>0, <1>a DEF PurchaseRead, PurchaseWrite, WriteOff, webVars, Counted
<1>4. CASE \E p \in Procs, k \in Keys : Forget(p, k)
  BY <1>4, <1>0, <1>a DEF Forget, webVars, Counted
<1>5. CASE \E p \in Procs : WebCrash(p)
  BY <1>5, <1>0, <1>a DEF TypeOK, WebCrash, Active, Counted
<1>6. CASE UNCHANGED vars
  BY <1>6, <1>0, <1>a DEF vars, Counted
<1>. QED
  BY <1>1, <1>2, <1>3, <1>4, <1>5, <1>6 DEF Next

(* Concurrent submissions overshoot the quota, or the single free trial,   *)
(* by less than the number of submissions an account has under way.        *)
THEOREM QuotaOvershootBoundedCorrect == Spec => []QuotaOvershootBounded
<1>1. Init => QuotaOvershootBounded
  <2>1. SUFFICES ASSUME Init, NEW u \in Users, ~(u \in Subscribed /\ Limit[u] = Unlimited)
                 PROVE  Cardinality(Charged(u)) <= Allowance(u) + MaxInFlight - 1
    BY DEF QuotaOvershootBounded, Charged
  <2>2. Charged(u) = {}
    BY <2>1 DEF Init, Charged, Usage, Pending, Counted
  <2>3. Cardinality(Charged(u)) = 0
    BY <2>2, FS_EmptySet
  <2>. QED
    BY <2>1, <2>3, InstanceAssumption, BoundAssumption DEF Allowance,
       Unlimited
<1>2. TypeOK /\ QuotaOvershootBounded /\ [Next]_vars => QuotaOvershootBounded'
  <2>1. SUFFICES ASSUME TypeOK, QuotaOvershootBounded, [Next]_vars, NEW u \in Users,
                        ~(u \in Subscribed /\ Limit[u] = Unlimited)
                 PROVE  Cardinality(Charged(u)') <= Allowance(u) + MaxInFlight - 1
    BY DEF QuotaOvershootBounded, Charged, Allowance
  <2>2. Cardinality(Charged(u)) <= Allowance(u) + MaxInFlight - 1
    BY <2>1 DEF QuotaOvershootBounded, Charged
  <2>3. CASE \E r \in Reports : Gate(r)
    BY <2>1, <2>2, <2>3, GateCharges
  <2>4. CASE \A r \in Reports : ~Gate(r)
    <3>1. Charged(u)' \subseteq Charged(u)
      BY <2>1, <2>4, ChargedShrinks
    <3>2. Charged(u) \subseteq Reports /\ Charged(u)' \subseteq Reports
      BY DEF Charged, Usage, Pending
    <3>3. Cardinality(Charged(u)') <= Cardinality(Charged(u))
      BY <3>1, <3>2, CardOrder
    <3>4. Cardinality(Charged(u)) \in Nat /\ Cardinality(Charged(u)') \in Nat
      BY <3>2, FiniteReports
    <3>. QED
      BY <2>2, <3>3, <3>4, InstanceAssumption, BoundAssumption DEF Allowance
  <2>. QED
    BY <2>3, <2>4
<1>. QED
  BY <1>1, <1>2, TypeCorrect, PTL DEF Spec

-----------------------------------------------------------------------------
(* The credit balance.                                                     *)

(* What an account has bought, and what its failed reports gave back.      *)
Ceiling == [u \in Users |-> purchased[u] + Cardinality(Earned(u))]

(* The balance stays below the ceiling, and so does every copy of it that  *)
(* a handler, a job or a purchase has read and is about to write back.     *)
CreditBound ==
    /\ \A u \in Users : credits[u] <= Ceiling[u]
    /\ \A r \in Reports : /\ debitSeen[r] <= Ceiling[Owner[r]]
                          /\ refundSeen[r] <= Ceiling[Owner[r]]
    /\ \A p \in Procs, u \in Users : loop[p] = u => buySeen[p] <= Ceiling[u]

(* The ceiling never sinks: credits stay bought and refunds stay given.    *)
LEMMA CeilingGrows ==
    ASSUME TypeOK, TypeOK', Lifecycles, Lifecycles', [Next]_vars, NEW u \in Users
    PROVE  Ceiling[u] \in Nat /\ Ceiling'[u] \in Nat /\ Ceiling'[u] >= Ceiling[u]
<1>1. Earned(u) \subseteq Reports /\ Earned(u)' \subseteq Reports
  BY DEF TypeOK, Earned
<1>2. refunded \subseteq refunded' /\ purchased'[u] >= purchased[u]
  <2>1. CASE UNCHANGED <<refunded, purchased>>
    BY <2>1 DEF TypeOK
  <2>2. CASE \E r \in Reports : RefundWrite(r)
    BY <2>2 DEF TypeOK, RefundWrite
  <2>3. CASE \E v \in Users, p \in Procs : PurchaseWrite(v, p)
    BY <2>3 DEF TypeOK, PurchaseWrite, workerVars
  <2>. QED
    BY <2>1, <2>2, <2>3 DEF Next, vars, HandlerStep, Gate, Classify, Resume,
       CreateRow, RecordUsage, Dispatch, ConsumeRead, ConsumeWrite,
       DeleteReport, Load, JobStep, Complete, GenerationRaises, FailMark,
       Void, RefundRead, SignalFails, WorkerKilled, PurchaseRead, WriteOff, Forget,
       WebCrash, workerVars
<1>3. Earned(u) \subseteq Earned(u)'
  BY <1>1, <1>2 DEF Lifecycles, Lifecycle, Earned
<1>4. Cardinality(Earned(u)) <= Cardinality(Earned(u)')
  BY <1>1, <1>3, CardOrder
<1>5. Cardinality(Earned(u)) \in Nat /\ Cardinality(Earned(u)') \in Nat
  BY <1>1, FiniteReports
<1>6. purchased[u] \in Nat /\ purchased'[u] \in Nat
  BY DEF TypeOK
<1>. QED
  BY <1>2, <1>4, <1>5, <1>6 DEF Ceiling


(* The balance a handler or a job holds is its last read of it, or none.   *)
LEMMA ReadsStep ==
    ASSUME TypeOK, [Next]_vars, NEW r \in Reports
    PROVE  /\ debitSeen'[r] \in {0, debitSeen[r], credits[Owner[r]]}
           /\ refundSeen'[r] \in {0, refundSeen[r], credits[Owner[r]]}
<1>1. CASE \E s \in Reports : HandlerStep(s) \/ DeleteReport(s)
  BY <1>1 DEF TypeOK, HandlerStep, Gate, Classify, Resume, CreateRow,
     RecordUsage, Dispatch, ConsumeRead, ConsumeWrite, DeleteReport,
     workerVars, webVars
<1>2. CASE \E s \in Reports : Load(s) \/ JobStep(s) \/ SignalFails(s)
           \/ WorkerKilled(s)
  BY <1>2 DEF TypeOK, Load, JobStep, Complete, GenerationRaises, FailMark,
     Void, RefundRead, RefundWrite, SignalFails, WorkerKilled, webVars,
     workerVars
<1>3. CASE UNCHANGED <<debitSeen, refundSeen>>
  BY <1>3
<1>4. CASE \E p \in Procs : WebCrash(p)
  BY <1>4 DEF TypeOK, WebCrash
<1>. QED
  BY <1>1, <1>2, <1>3, <1>4 DEF Next, vars, PurchaseRead, PurchaseWrite, WriteOff,
     Forget, webVars, workerVars

(* The balance a purchase holds was read when it took the event loop.      *)
LEMMA BuyStep ==
    ASSUME TypeOK, [Next]_vars, NEW p \in Procs, NEW u \in Users, loop'[p] = u
    PROVE  buySeen'[p] = credits[u] \/ (loop[p] = u /\ buySeen'[p] = buySeen[p])
<1>1. CASE \E s \in Reports : HandlerStep(s)
  <2>1. PICK s \in Reports : HandlerStep(s)
    BY <1>1
  <2>2. buySeen' = buySeen
    BY <2>1 DEF HandlerStep, Gate, Classify, Resume, CreateRow, RecordUsage,
       Dispatch, ConsumeRead, ConsumeWrite, procVars
  <2>3. loop'[p] \in {loop[p], s, Idle}
    BY <2>1 DEF TypeOK, HandlerStep, Gate, Classify, Resume, CreateRow,
       RecordUsage, Dispatch, ConsumeRead, ConsumeWrite, procVars, Respond
  <2>. QED
    BY <2>2, <2>3, BoundAssumption
<1>2. CASE \E v \in Users, q \in Procs : PurchaseRead(v, q)
  BY <1>2 DEF TypeOK, PurchaseRead
<1>3. CASE \E v \in Users, q \in Procs : PurchaseWrite(v, q) \/ WriteOff(v, q)
  BY <1>3, BoundAssumption DEF TypeOK, PurchaseWrite, WriteOff
<1>4. CASE \E q \in Procs : WebCrash(q)
  BY <1>4, BoundAssumption DEF TypeOK, WebCrash
<1>5. CASE UNCHANGED <<loop, buySeen>>
  BY <1>5
<1>. QED
  BY <1>1, <1>2, <1>3, <1>4, <1>5 DEF Next, vars, DeleteReport, Load, JobStep,
     Complete, GenerationRaises, FailMark, Void, RefundRead, RefundWrite,
     SignalFails, WorkerKilled, Forget, procVars

(* Each of the four writers of the balance stays below the new ceiling,    *)
(* however stale the value it read.                                        *)
LEMMA BalanceStep ==
    ASSUME TypeOK, Lifecycles, Lifecycles', CreditBound, [Next]_vars,
           NEW u \in Users, credits'[u] # credits[u],
           Ceiling[u] \in Nat, Ceiling'[u] \in Nat, Ceiling'[u] >= Ceiling[u]
    PROVE  credits'[u] <= Ceiling'[u]
<1>1. CASE \E r \in Reports : ConsumeWrite(r)
  <2>1. PICK r \in Reports : ConsumeWrite(r)
    BY <1>1
  <2>2. u = Owner[r] /\ credits'[u] = Debited(debitSeen[r])
    BY <2>1 DEF TypeOK, ConsumeWrite
  <2>3. debitSeen[r] \in Nat /\ debitSeen[r] <= Ceiling[u]
    BY <2>2 DEF TypeOK, CreditBound
  <2>. QED
    BY <2>2, <2>3 DEF Debited
<1>2. CASE \E r \in Reports : RefundWrite(r)
  <2>1. PICK r \in Reports : RefundWrite(r)
    BY <1>2
  <2>2. u = Owner[r] /\ credits'[u] = refundSeen[r] + 1 /\ refunded' = refunded \cup {r}
    BY <2>1 DEF TypeOK, RefundWrite
  <2>3. r \notin Earned(u)
    BY <2>1 DEF Earned, Lifecycles, Lifecycle, RefundWrite
  <2>4. Earned(u)' = Earned(u) \cup {r}
    <3>1. UNCHANGED <<funding, status>>
      BY <2>1 DEF RefundWrite, webVars
    <3>2. funding[r] = "credit" /\ status[r] \in {"failed", "deleted"}
      BY <2>1 DEF Lifecycles, Lifecycle, RefundWrite
    <3>. QED
      BY <2>2, <3>1, <3>2 DEF Earned
  <2>5. Earned(u) \subseteq Reports
    BY DEF Earned, TypeOK
  <2>6. Cardinality(Earned(u)') = Cardinality(Earned(u)) + 1
    BY <2>3, <2>4, <2>5, CardAdd
  <2>7. purchased' = purchased
    BY <2>1 DEF RefundWrite
  <2>8. purchased[u] \in Nat /\ Cardinality(Earned(u)) \in Nat
    BY <2>5, FiniteReports DEF TypeOK
  <2>9. Ceiling'[u] = Ceiling[u] + 1
    BY <2>6, <2>7, <2>8 DEF Ceiling
  <2>10. refundSeen[r] \in Nat /\ refundSeen[r] <= Ceiling[u]
    BY <2>2 DEF TypeOK, CreditBound
  <2>. QED
    BY <2>2, <2>9, <2>10
<1>3. CASE \E v \in Users, p \in Procs : PurchaseWrite(v, p)
  <2>1. PICK v \in Users, p \in Procs : PurchaseWrite(v, p)
    BY <1>3
  <2>2. v = u /\ loop[p] = u /\ credits'[u] = buySeen[p] + 1
    BY <2>1 DEF TypeOK, PurchaseWrite
  <2>3. Earned(u)' = Earned(u)
    BY <2>1 DEF Earned, PurchaseWrite, webVars, workerVars
  <2>4. purchased'[u] = purchased[u] + 1
    BY <2>1, <2>2 DEF TypeOK, PurchaseWrite
  <2>5. purchased[u] \in Nat /\ Cardinality(Earned(u)) \in Nat
    BY FiniteReports DEF TypeOK, Earned
  <2>6. Ceiling'[u] = Ceiling[u] + 1
    BY <2>3, <2>4, <2>5 DEF Ceiling
  <2>7. buySeen[p] \in Nat /\ buySeen[p] <= Ceiling[u]
    BY <2>2 DEF TypeOK, CreditBound
  <2>. QED
    BY <2>2, <2>6, <2>7
<1>4. CASE \E v \in Users, p \in Procs : WriteOff(v, p)
  <2>1. PICK v \in Users, p \in Procs : WriteOff(v, p)
    BY <1>4
  <2>2. /\ v = u /\ loop[p] = u
        /\ credits'[u] = IF buySeen[p] > 0 THEN buySeen[p] - 1 ELSE 0
    BY <2>1 DEF TypeOK, WriteOff
  <2>3. Ceiling'[u] = Ceiling[u] /\ Ceiling[u] \in Nat
    <3>1. Earned(u)' = Earned(u) /\ purchased' = purchased
      BY <2>1 DEF Earned, WriteOff, webVars, workerVars
    <3>2. purchased[u] \in Nat /\ Cardinality(Earned(u)) \in Nat
      BY FiniteReports DEF TypeOK, Earned
    <3>. QED
      BY <3>1, <3>2 DEF Ceiling
  <2>4. buySeen[p] \in Nat /\ buySeen[p] <= Ceiling[u]
    BY <2>2 DEF TypeOK, CreditBound
  <2>. QED
    BY <2>2, <2>3, <2>4
<1>. QED
  BY <1>1, <1>2, <1>3, <1>4 DEF Next, vars, HandlerStep, Gate, Classify, Resume,
     CreateRow, RecordUsage, Dispatch, ConsumeRead, DeleteReport, Load,
     JobStep, Complete, GenerationRaises, FailMark, Void, RefundRead,
     SignalFails, WorkerKilled, PurchaseRead, Forget, WebCrash

(* Every step keeps the balance and all copies of it below the ceiling.    *)
LEMMA CreditStep ==
    ASSUME TypeOK, TypeOK', Lifecycles, Lifecycles', CreditBound, [Next]_vars
    PROVE  CreditBound'
<1>1. \A u \in Users : Ceiling[u] \in Nat /\ Ceiling'[u] \in Nat /\ Ceiling'[u] >= Ceiling[u]
  BY CeilingGrows
<1>2. ASSUME NEW u \in Users
      PROVE  credits'[u] <= Ceiling'[u]
  <2>1. CASE credits'[u] = credits[u]
    BY <1>1, <2>1 DEF CreditBound, TypeOK
  <2>2. CASE credits'[u] # credits[u]
    BY <1>1, <2>2, BalanceStep
  <2>. QED
    BY <2>1, <2>2
<1>3. ASSUME NEW r \in Reports
      PROVE  debitSeen'[r] <= Ceiling'[Owner[r]] /\ refundSeen'[r] <= Ceiling'[Owner[r]]
  <2>1. Owner[r] \in Users
    BY InstanceAssumption
  <2>2. /\ credits[Owner[r]] \in Nat /\ credits[Owner[r]] <= Ceiling[Owner[r]]
        /\ debitSeen[r] \in Nat /\ debitSeen[r] <= Ceiling[Owner[r]]
        /\ refundSeen[r] \in Nat /\ refundSeen[r] <= Ceiling[Owner[r]]
    BY <2>1 DEF TypeOK, CreditBound
  <2>. QED
    BY <1>1, <2>1, <2>2, ReadsStep
<1>4. ASSUME NEW p \in Procs, NEW u \in Users, loop'[p] = u
      PROVE  buySeen'[p] <= Ceiling'[u]
  <2>1. buySeen[p] \in Nat /\ credits[u] \in Nat /\ credits[u] <= Ceiling[u]
    BY DEF TypeOK, CreditBound
  <2>2. buySeen'[p] = credits[u] \/ (loop[p] = u /\ buySeen'[p] = buySeen[p])
    BY <1>4, BuyStep
  <2>. QED
    BY <1>1, <2>1, <2>2 DEF CreditBound
<1>. QED
  BY <1>2, <1>3, <1>4 DEF CreditBound

(* No interleaving of unlocked read-modify-writes gives an account more    *)
(* credits than it bought or was granted and one per failed report.        *)
THEOREM CreditCeilingCorrect == Spec => []CreditCeiling
<1>1. Init => CreditBound
  <2>1. SUFFICES ASSUME Init
                 PROVE  CreditBound
    OBVIOUS
  <2>2. \A u \in Users : Earned(u) = {}
    BY <2>1 DEF Init, Earned
  <2>3. ASSUME NEW u \in Users
        PROVE  Ceiling[u] = StartCredits[u] /\ StartCredits[u] \in Nat
    <3>1. purchased[u] = StartCredits[u] /\ StartCredits[u] \in Nat
      BY <2>1, InstanceAssumption DEF Init
    <3>2. Cardinality(Earned(u)) = 0
      BY <2>2, FS_EmptySet
    <3>. QED
      BY <3>1, <3>2 DEF Ceiling
  <2>. QED
    BY <2>1, <2>3, InstanceAssumption DEF Init, CreditBound
<1>2. Inductive /\ Inductive' /\ CreditBound /\ [Next]_vars => CreditBound'
  BY CreditStep DEF Inductive
<1>3. CreditBound => CreditCeiling
  BY DEF CreditBound, CreditCeiling, Ceiling
<1>. QED
  BY <1>1, <1>2, <1>3, InductiveCorrect, PTL DEF Spec
=============================================================================
