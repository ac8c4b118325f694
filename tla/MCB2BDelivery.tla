--------------------------- MODULE MCB2BDelivery ---------------------------
(* Instances of B2BDelivery for TLC. *)
EXTENDS B2BDelivery, TLC

CONSTANTS s1, s2,   \* subscriptions
          i1, i2,   \* invitations
          x1, x2,   \* sections
          p1, p2    \* processes

Terms == [s \in Subs |-> "monthly"]
Sym == Permutations(Procs) \cup Permutations(Subs)
=============================================================================
