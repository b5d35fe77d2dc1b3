-------------------------- MODULE MCSubscriptions --------------------------
(* Instances for TLC: every value is given in the .cfg files.              *)
EXTENDS SubscriptionProperties
=============================================================================
