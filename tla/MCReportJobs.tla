---------------------------- MODULE MCReportJobs ----------------------------
(* Instances of ReportJobs for TLC: sam has a subscription with a quota of *)
(* one report and a credit to overflow into, fay has no subscription.      *)
EXTENDS ReportJobs

CONSTANTS sam, fay,     \* a subscriber, an account without a subscription
          r1, r2, r3,   \* submissions of one account
          p1, p2,       \* web processes
          k1, k2, k3    \* digests

BySam == [r \in Reports |-> sam]
ByFay == [r \in Reports |-> fay]

\* The same form sent again, or a different script each time.
SameForm == [r \in Reports |-> k1]
OwnForms == [r \in Reports |-> CASE r = r1 -> k1 [] r = r2 -> k2 [] r = r3 -> k3]

\* One web process serves all submissions, or one serves the first.
OneProc  == [r \in Reports |-> p1]
TwoProcs == [r \in Reports |-> IF r = r1 THEN p1 ELSE p2]

LimitSam  == [u \in {sam} |-> 1]
LimitFay  == [u \in {fay} |-> 0]
CreditSam == [u \in {sam} |-> 1]
BrokeFay  == [u \in {fay} |-> 0]

AllFaults == FaultKinds
=============================================================================
