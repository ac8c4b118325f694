--------------------------- MODULE MCSubscriptionSync ---------------------------
EXTENDS SubscriptionSync, TLC

Symmetry == Permutations(Subs)
=============================================================================
