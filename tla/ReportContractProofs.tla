------------------------- MODULE ReportContractProofs -------------------------
(***************************************************************************)
(* ReportJobs implements ReportContract, for any number of accounts,       *)
(* submissions, processes, workers and failures.                           *)
(***************************************************************************)
EXTENDS ReportJobsProofs

(* A report whose handler has passed the insert, or that has a job, has or *)
(* had a row: the contract is entered by a promise and in no other way.    *)
Promised(r) ==
    /\ pc[r] \in {"created", "recorded", "dispatched", "debiting", "accepted"} =>
         status[r] # "absent"
    /\ job[r] # "none" => status[r] # "absent"
RowsExist == \A r \in Reports : Promised(r)

Strong == Inductive /\ RowsExist

(* Every step keeps it: only CreateRow leads past the insert, and a row    *)
(* never becomes absent again.                                             *)
LEMMA RowsExistStep ==
    ASSUME TypeOK, RowsExist, [Next]_vars
    PROVE  RowsExist'
<1>. USE DEF TypeOK, RowsExist, Promised
<1>1. ASSUME NEW s \in Reports, HandlerStep(s)
      PROVE  RowsExist'
  <2>1. CASE Gate(s)
    BY <2>1 DEF Gate, workerVars
  <2>2. CASE Classify(s)
    BY <2>2 DEF Classify, workerVars
  <2>3. CASE Resume(s)
    BY <2>3 DEF Resume, Fault, workerVars
  <2>4. CASE CreateRow(s)
    BY <2>4 DEF CreateRow, Respond, workerVars
  <2>5. CASE RecordUsage(s)
    BY <2>5 DEF RecordUsage, workerVars
  <2>6. CASE Dispatch(s)
    BY <2>6 DEF Dispatch, Respond
  <2>7. CASE ConsumeRead(s)
    BY <2>7 DEF ConsumeRead, workerVars
  <2>8. CASE ConsumeWrite(s)
    BY <2>8 DEF ConsumeWrite, Respond, workerVars
  <2>. QED
    BY <1>1, <2>1, <2>2, <2>3, <2>4, <2>5, <2>6, <2>7, <2>8 DEF HandlerStep
<1>2. ASSUME NEW s \in Reports, JobStep(s)
      PROVE  RowsExist'
  <2>1. CASE Complete(s)
    BY <2>1 DEF Complete, Marked, webVars
  <2>2. CASE GenerationRaises(s)
    BY <2>2 DEF GenerationRaises, webVars
  <2>3. CASE FailMark(s)
    BY <2>3 DEF FailMark, Marked, webVars
  <2>4. CASE Void(s)
    BY <2>4 DEF Void, webVars
  <2>5. CASE RefundRead(s)
    BY <2>5 DEF RefundRead, webVars
  <2>6. CASE RefundWrite(s)
    BY <2>6 DEF RefundWrite, webVars
  <2>. QED
    BY <1>2, <2>1, <2>2, <2>3, <2>4, <2>5, <2>6 DEF JobStep
<1>3. ASSUME NEW s \in Reports, Load(s) \/ SignalFails(s) \/ WorkerKilled(s)
      PROVE  RowsExist'
  BY <1>3 DEF Load, SignalFails, WorkerKilled, Running, webVars, workerVars
<1>4. ASSUME NEW s \in Reports, DeleteReport(s)
      PROVE  RowsExist'
  BY <1>4 DEF DeleteReport, webVars, workerVars
<1>5. ASSUME NEW p \in Procs, WebCrash(p)
      PROVE  RowsExist'
  BY <1>5 DEF WebCrash, Running, Active
<1>6. CASE UNCHANGED <<pc, job, status>>
  BY <1>6
<1>. QED
  BY <1>1, <1>2, <1>3, <1>4, <1>5, <1>6 DEF Next, vars, webVars, workerVars,
     PurchaseRead, PurchaseWrite, WriteOff, Forget

(* The strengthened invariant holds in every reachable state.              *)
THEOREM StrongCorrect == Spec => []Strong
<1>1. Init => RowsExist
  BY DEF Init, RowsExist, Promised
<1>2. Inductive /\ RowsExist /\ [Next]_vars => RowsExist'
  BY RowsExistStep DEF Inductive
<1>. QED
  BY <1>1, <1>2, InductiveCorrect, PTL DEF Spec, Strong

-----------------------------------------------------------------------------
(* Steps of one report.                                                    *)

Kept(r) == FateOf(r)' = FateOf(r) /\ ChargeOf(r)' = ChargeOf(r)

(* The steps of the contract, told of the two values of a report.          *)
Allowed(r) ==
    \/ /\ FateOf(r) = "none" /\ FateOf(r)' = "promised"
       /\ ChargeOf(r)' \in {"none", "credit"}
    \/ /\ FateOf(r) \in {"promised", "withdrawn"} /\ FateOf(r)' = FateOf(r)
       /\ ChargeOf(r) = "none" /\ ChargeOf(r)' = "slot"
    \/ /\ FateOf(r) = "promised" /\ FateOf(r)' = "delivered"
       /\ ChargeOf(r)' = ChargeOf(r)
    \/ /\ FateOf(r) \in {"promised", "delivered"} /\ FateOf(r)' = "failed"
       /\ ChargeOf(r)' = ChargeOf(r)
    \/ /\ FateOf(r) \in {"promised", "delivered", "failed"} /\ FateOf(r)' = "withdrawn"
       /\ ChargeOf(r)' = ChargeOf(r)
    \/ /\ FateOf(r) \in {"failed", "withdrawn"} /\ FateOf(r)' = FateOf(r)
       /\ ChargeOf(r) \in {"slot", "credit"} /\ ChargeOf(r)' = "returned"

(* A step that moves one report along the contract and no other one is a   *)
(* step of the contract.                                                   *)
LEMMA OneReport ==
    ASSUME NEW r \in Reports, Kept(r) \/ Allowed(r),
           \A s \in Reports \ {r} : Kept(s)
    PROVE  [Contract!Next]_<<Fate, Charge>>
<1>1. CASE Kept(r)
  BY <1>1 DEF Kept, Fate, Charge
<1>2. CASE Allowed(r)
  <2>1. /\ Fate' = [Fate EXCEPT ![r] = FateOf(r)']
        /\ Charge' = [Charge EXCEPT ![r] = ChargeOf(r)']
    BY DEF Kept, Fate, Charge
  <2>2. Fate[r] = FateOf(r) /\ Charge[r] = ChargeOf(r)
    BY DEF Fate, Charge
  <2>3. FateOf(r)' = FateOf(r) => Fate' = Fate
    BY DEF Kept, Fate
  <2>4. ChargeOf(r)' = ChargeOf(r) => Charge' = Charge
    BY DEF Kept, Charge
  <2>. QED
    BY <1>2, <2>1, <2>2, <2>3, <2>4 DEF Allowed, Contract!Next, Contract!Promise,
       Contract!TakeSlot, Contract!Deliver, Contract!Fail, Contract!Withdraw,
       Contract!Return
<1>. QED
  BY <1>1, <1>2

(* What a report has cost depends on its row only in whether there is one. *)
LEMMA ChargeKept ==
    ASSUME NEW r \in Reports,
           ledger'[r] = ledger[r], r \in refunded' <=> r \in refunded,
           \/ funding'[r] = funding[r] /\ (status'[r] = "absent" <=> status[r] = "absent")
           \/ status[r] = "absent" /\ status'[r] = "absent"
    PROVE  ChargeOf(r)' = ChargeOf(r)
  BY DEF ChargeOf

LEMMA FateKept ==
    ASSUME NEW r \in Reports, status'[r] = status[r]
    PROVE  FateOf(r)' = FateOf(r)
  BY DEF FateOf, FateNamed

-----------------------------------------------------------------------------
(* The steps that move a report.                                           *)

LEMMA CreateRowAllowed ==
    ASSUME Strong, NEW r \in Reports, CreateRow(r)
    PROVE  [Contract!Next]_<<Fate, Charge>>
<1>1. status[r] = "absent" /\ ledger[r] = "none" /\ r \notin refunded
  BY DEF Strong, Inductive, Lifecycles, Lifecycle, NotCreated, NotRecorded,
     CreateRow
<1>2. \A s \in Reports \ {r} : Kept(s)
  BY FateKept, ChargeKept DEF CreateRow, Strong, Inductive, TypeOK, workerVars, Kept
<1>3. Kept(r) \/ Allowed(r)
  <2>1. CASE UNCHANGED status
    BY <2>1, FateKept, ChargeKept DEF CreateRow, workerVars, Kept
  <2>2. CASE status' = [status EXCEPT ![r] = "processing"]
    <3>1. FateOf(r) = "none" /\ FateOf(r)' = "promised"
      BY <1>1, <2>2 DEF FateOf, FateNamed, Strong, Inductive, TypeOK
    <3>2. ChargeOf(r)' \in {"none", "credit"}
      BY <1>1 DEF ChargeOf, CreateRow, workerVars
    <3>. QED
      BY <3>1, <3>2 DEF Allowed
  <2>. QED
    BY <2>1, <2>2 DEF CreateRow
<1>. QED
  BY <1>2, <1>3, OneReport

LEMMA RecordUsageAllowed ==
    ASSUME Strong, NEW r \in Reports, RecordUsage(r)
    PROVE  [Contract!Next]_<<Fate, Charge>>
<1>1. /\ status[r] \in {"processing", "deleted"}
      /\ ledger[r] = "none" /\ r \notin refunded
  BY DEF Strong, Inductive, Lifecycles, Lifecycle, NotRecorded, NotDispatched,
     RecordUsage, RowsExist, Promised, TypeOK, RowStates
<1>2. \A s \in Reports \ {r} : Kept(s)
  BY FateKept, ChargeKept DEF RecordUsage, Strong, Inductive, TypeOK, workerVars, Kept
<1>3. Kept(r) \/ Allowed(r)
  <2>1. CASE UNCHANGED ledger
    BY <2>1, FateKept, ChargeKept DEF RecordUsage, workerVars, Kept
  <2>2. CASE funding[r] = "plan" /\ ledger' = [ledger EXCEPT ![r] = kind[r]]
    <3>1. FateOf(r) \in {"promised", "withdrawn"} /\ FateOf(r)' = FateOf(r)
      BY <1>1 DEF FateOf, FateNamed, RecordUsage
    <3>2. ChargeOf(r) = "none"
      BY <1>1, <2>2 DEF ChargeOf
    <3>3. ChargeOf(r)' \in {"slot", "none"}
      BY <1>1, <2>2 DEF ChargeOf, RecordUsage, workerVars, Strong, Inductive,
         TypeOK
    <3>. QED
      BY <3>1, <3>2, <3>3 DEF Allowed, Kept
  <2>. QED
    BY <2>1, <2>2 DEF RecordUsage
<1>. QED
  BY <1>2, <1>3, OneReport

LEMMA DeleteReportAllowed ==
    ASSUME Strong, NEW r \in Reports, DeleteReport(r)
    PROVE  [Contract!Next]_<<Fate, Charge>>
<1>1. status[r] \in {"processing", "completed", "failed"} /\ status'[r] = "deleted"
  BY DEF DeleteReport, Strong, Inductive, TypeOK
<1>2. \A s \in Reports \ {r} : Kept(s)
  BY FateKept, ChargeKept DEF DeleteReport, Strong, Inductive, TypeOK, webVars,
     workerVars, Kept
<1>3. ChargeOf(r)' = ChargeOf(r)
  BY <1>1, ChargeKept DEF DeleteReport, webVars, workerVars
<1>4. FateOf(r) \in {"promised", "delivered", "failed"} /\ FateOf(r)' = "withdrawn"
  BY <1>1 DEF FateOf, FateNamed
<1>. QED
  BY <1>2, <1>3, <1>4, OneReport DEF Allowed

LEMMA CompleteAllowed ==
    ASSUME Strong, NEW r \in Reports, Complete(r)
    PROVE  [Contract!Next]_<<Fate, Charge>>
<1>1. status[r] \in {"processing", "deleted"}
  BY DEF Complete, Strong, Inductive, Lifecycles, Lifecycle, RowsExist, Promised,
     TypeOK, RowStates
<1>2. status' = [status EXCEPT ![r] = IF @ = "deleted" THEN @ ELSE "completed"]
  BY DEF Complete, Marked
<1>3. \A s \in Reports \ {r} : Kept(s)
  BY <1>2, FateKept, ChargeKept DEF Complete, Strong, Inductive, TypeOK, webVars, Kept
<1>4. status'[r] = IF status[r] = "deleted" THEN "deleted" ELSE "completed"
  BY <1>2 DEF Strong, Inductive, TypeOK
<1>5. ChargeOf(r)' = ChargeOf(r)
  BY <1>1, <1>4, ChargeKept DEF Complete, webVars
<1>6. Kept(r) \/ (FateOf(r) = "promised" /\ FateOf(r)' = "delivered")
  BY <1>1, <1>4, <1>5 DEF FateOf, FateNamed, Kept
<1>. QED
  BY <1>3, <1>5, <1>6, OneReport DEF Allowed

LEMMA FailMarkAllowed ==
    ASSUME Strong, NEW r \in Reports, FailMark(r)
    PROVE  [Contract!Next]_<<Fate, Charge>>
<1>1. status[r] \in {"processing", "completed", "deleted"}
  BY DEF FailMark, Strong, Inductive, Lifecycles, Lifecycle, RowsExist, Promised,
     TypeOK, RowStates
<1>2. CASE UNCHANGED status
  <2>1. \A s \in Reports : Kept(s)
    BY <1>2, FateKept, ChargeKept DEF FailMark, webVars, Kept
  <2>. QED
    BY <2>1, OneReport
<1>3. CASE status' = [status EXCEPT ![r] = IF @ = "deleted" THEN @ ELSE "failed"]
  <2>1. \A s \in Reports \ {r} : Kept(s)
    BY <1>3, FateKept, ChargeKept DEF FailMark, Strong, Inductive, TypeOK, webVars, Kept
  <2>2. status'[r] = IF status[r] = "deleted" THEN "deleted" ELSE "failed"
    BY <1>3 DEF Strong, Inductive, TypeOK
  <2>3. ChargeOf(r)' = ChargeOf(r)
    BY <1>1, <2>2, ChargeKept DEF FailMark, webVars
  <2>4. Kept(r) \/ (FateOf(r) \in {"promised", "delivered"} /\ FateOf(r)' = "failed")
    BY <1>1, <2>2, <2>3 DEF FateOf, FateNamed, Kept
  <2>. QED
    BY <2>1, <2>3, <2>4, OneReport DEF Allowed
<1>. QED
  BY <1>2, <1>3 DEF FailMark, Marked

LEMMA VoidAllowed ==
    ASSUME Strong, NEW r \in Reports, Void(r)
    PROVE  [Contract!Next]_<<Fate, Charge>>
<1>1. status[r] \in {"failed", "deleted"} /\ r \notin refunded
  BY DEF Void, Strong, Inductive, Lifecycles, Lifecycle
<1>2. \A s \in Reports \ {r} : Kept(s)
  BY FateKept, ChargeKept DEF Void, Strong, Inductive, TypeOK, webVars, Kept
<1>3. FateOf(r) \in {"failed", "withdrawn"} /\ FateOf(r)' = FateOf(r)
  BY <1>1 DEF FateOf, FateNamed, Void
<1>4. ChargeOf(r)' = ChargeOf(r) \/ (ChargeOf(r) = "slot" /\ ChargeOf(r)' = "returned")
  <2>1. CASE ledger'[r] = ledger[r]
    BY <2>1, ChargeKept DEF Void, webVars
  <2>2. CASE ledger[r] \in {"paid", "free"} /\ ledger'[r] = "voided"
    BY <1>1, <2>2 DEF ChargeOf
  <2>. QED
    BY <2>1, <2>2 DEF Void, Voided, Strong, Inductive, TypeOK
<1>. QED
  BY <1>2, <1>3, <1>4, OneReport DEF Allowed, Kept

LEMMA RefundWriteAllowed ==
    ASSUME Strong, NEW r \in Reports, RefundWrite(r)
    PROVE  [Contract!Next]_<<Fate, Charge>>
<1>1. /\ status[r] \in {"failed", "deleted"} /\ r \notin refunded
      /\ funding[r] = "credit"
  BY DEF RefundWrite, Strong, Inductive, Lifecycles, Lifecycle
<1>2. \A s \in Reports \ {r} : Kept(s)
  BY FateKept, ChargeKept DEF RefundWrite, Strong, Inductive, TypeOK, webVars, Kept
<1>3. FateOf(r) \in {"failed", "withdrawn"} /\ FateOf(r)' = FateOf(r)
  BY <1>1 DEF FateOf, FateNamed, RefundWrite
<1>4. ChargeOf(r)' = ChargeOf(r)
      \/ (ChargeOf(r) \in {"slot", "credit"} /\ ChargeOf(r)' = "returned")
  BY <1>1 DEF ChargeOf, RefundWrite, webVars
<1>. QED
  BY <1>2, <1>3, <1>4, OneReport DEF Allowed, Kept

-----------------------------------------------------------------------------
(* Every other step leaves the fate and the charge of every report alone;  *)
(* the gate sets the funding of a report that has no row yet.              *)
LEMMA OthersKeep ==
    ASSUME Strong, UNCHANGED <<status, ledger, refunded>>,
           \A r \in Reports : funding'[r] = funding[r] \/ status[r] = "absent"
    PROVE  UNCHANGED <<Fate, Charge>>
  BY FateKept, ChargeKept DEF Fate, Charge

LEMMA GateKeeps ==
    ASSUME Strong, NEW r \in Reports, Gate(r)
    PROVE  UNCHANGED <<Fate, Charge>>
<1>1. status[r] = "absent"
  BY DEF Gate, Strong, Inductive, Lifecycles, Lifecycle, NotCreated
<1>. QED
  BY <1>1, OthersKeep DEF Gate, Strong, Inductive, TypeOK, workerVars

(* Every behaviour of ReportJobs, seen through row, ledger and refunds, is *)
(* one of the contract: a report is promised, charged and given an outcome *)
(* once, and slot or credit come back only for one that failed.            *)
THEOREM KeepsContractCorrect == Spec => KeepsContract
<1>1. Init => Contract!Init
  BY DEF Init, Contract!Init, Fate, Charge, FateOf, FateNamed, ChargeOf
<1>2. ASSUME Strong, [Next]_vars
      PROVE  [Contract!Next]_<<Fate, Charge>>
  <2>1. CASE \E r \in Reports : CreateRow(r) \/ RecordUsage(r) \/ DeleteReport(r)
    BY <1>2, <2>1, CreateRowAllowed, RecordUsageAllowed, DeleteReportAllowed
  <2>2. CASE \E r \in Reports : Complete(r) \/ FailMark(r) \/ Void(r) \/ RefundWrite(r)
    BY <1>2, <2>2, CompleteAllowed, FailMarkAllowed, VoidAllowed, RefundWriteAllowed
  <2>3. CASE \E r \in Reports : Gate(r)
    BY <1>2, <2>3, GateKeeps
  <2>4. CASE UNCHANGED <<status, ledger, refunded, funding>>
    BY <1>2, <2>4, OthersKeep
  <2>. QED
    BY <1>2, <2>1, <2>2, <2>3, <2>4 DEF Next, vars, HandlerStep, JobStep,
       Classify, Resume, Dispatch, ConsumeRead, ConsumeWrite, Load,
       GenerationRaises, RefundRead, SignalFails, WorkerKilled, PurchaseRead,
       PurchaseWrite, WriteOff, Forget, WebCrash, webVars, workerVars
<1>. QED
  BY <1>1, <1>2, StrongCorrect, PTL DEF Spec, KeepsContract, Contract!Spec
=============================================================================
