------------------------- MODULE EconomyProperties -------------------------
(***************************************************************************)
(* What the YAD economy must satisfy, and its values for TLC.              *)
(***************************************************************************)
EXTENDS Economy

\* Users whose slots the sweep has deleted after an upgrade of them got its
\* price.
Swept ==
    {u \in Users : \E c \in Clients :
        /\ req[c].op = "slots" /\ req[c].user = u /\ req[c].at > 2
        /\ db[Slots(u)] = 0
        /\ req[c].yad < Price(req[c].qty)}

Promised == INSTANCE Purse WITH
    balance <- [u \in Users |-> db[Balance(u)]],
    uses    <- db[Uses],
    slots   <- [u \in Users |-> db[Slots(u)]],
    reward  <- db[Reward],
    swept   <- Swept

\* Under every interleaving of statements, lock waits, 40001 retries and
\* failures, what commits is a sequence of whole deals: each paid for in the
\* same instant at the right price, no balance below zero, a promo code used
\* once per user and never beyond its limit, a clawback no larger than the
\* reward or the balance (service.go and user_repo.go: the conditional UPDATEs
\* of AdjustYADBalance, UsePromoCode and ClawbackYAD, and the user's row lock).
ImplementsPurse == Promised!Spec

\* Nobody waits for ever: the order in which transactions lock rows has no
\* circle, every error path releases what was locked, and a pool with more
\* connections than requests in flight always has the second one that
\* GetActiveDeviceExpansion and GetRewardByPaymentID take inside a transaction.
RequestsEnd == \A c \in Clients : req[c] # Idle ~> req[c] = Idle
=============================================================================
