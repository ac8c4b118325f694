---------------------------- MODULE ReportContract ----------------------------
(***************************************************************************)
(* What a paid report promises its customer, whatever processes, queues    *)
(* and balances are behind it: it is promised once, has one outcome, is    *)
(* charged once, and gives its charge back only when it has failed.        *)
(***************************************************************************)
CONSTANT Reports

VARIABLES
    fate,    \* what has become of a report
    charge   \* what it costs the account: a slot of the quota or a credit

Fates == {"none", "promised", "delivered", "failed", "withdrawn"}
Charges == {"none", "slot", "credit", "returned"}

ContractTypeOK ==
    /\ fate \in [Reports -> Fates]
    /\ charge \in [Reports -> Charges]

Init ==
    /\ fate = [r \in Reports |-> "none"]
    /\ charge = [r \in Reports |-> "none"]

(* A credit is owed from the promise on, a slot is taken shortly after it. *)
Promise(r) ==
    /\ fate[r] = "none"
    /\ fate' = [fate EXCEPT ![r] = "promised"]
    /\ \E c \in {"none", "credit"} : charge' = [charge EXCEPT ![r] = c]

TakeSlot(r) ==
    /\ fate[r] \in {"promised", "withdrawn"}
    /\ charge[r] = "none"
    /\ charge' = [charge EXCEPT ![r] = "slot"]
    /\ UNCHANGED fate

Deliver(r) ==
    /\ fate[r] = "promised"
    /\ fate' = [fate EXCEPT ![r] = "delivered"]
    /\ UNCHANGED charge

(* A delivered report may still be declared failed, when something behind  *)
(* its delivery goes wrong.                                                *)
Fail(r) ==
    /\ fate[r] \in {"promised", "delivered"}
    /\ fate' = [fate EXCEPT ![r] = "failed"]
    /\ UNCHANGED charge

(* The customer may drop a report at any time; that returns nothing ...    *)
Withdraw(r) ==
    /\ fate[r] \in {"promised", "delivered", "failed"}
    /\ fate' = [fate EXCEPT ![r] = "withdrawn"]
    /\ UNCHANGED charge

(* ... unless its generation fails, which nobody sees any more.            *)
Return(r) ==
    /\ fate[r] \in {"failed", "withdrawn"}
    /\ charge[r] \in {"slot", "credit"}
    /\ charge' = [charge EXCEPT ![r] = "returned"]
    /\ UNCHANGED fate

Next ==
    \E r \in Reports :
        Promise(r) \/ TakeSlot(r) \/ Deliver(r) \/ Fail(r) \/ Withdraw(r) \/ Return(r)

Spec == Init /\ [][Next]_<<fate, charge>>
=============================================================================
