--------------------------- MODULE MCWebhookDelivery ---------------------------
(* Instances of WebhookDelivery for TLC: two purchases and a plan change   *)
(* of one account, and an event that is only logged; a report of hers that *)
(* spends a credit and one that hands its credit back.                     *)
EXTENDS WebhookDelivery

CONSTANTS buy1, buy2, upgrade, notice,  \* events
          ann,                          \* an account
          spend, refund,                \* other updates of her balance
          p1, p2                        \* web processes

KindOf == [e \in Events |->
             CASE e = upgrade -> "plan"
               [] e = notice  -> "none"
               [] OTHER       -> "credit"]
ByAnn == [e \in Events |-> ann]
DoesOf == [t \in Updates |-> IF t = spend THEN "spend" ELSE "refund"]
OfAnn == [t \in Updates |-> ann]
=============================================================================
