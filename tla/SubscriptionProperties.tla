----------------------- MODULE SubscriptionProperties -----------------------
(***************************************************************************)
(* What the subscription rows and the panel must satisfy.                  *)
(***************************************************************************)
EXTENDS Subscriptions, FiniteSetsExt

\* The date the user's time ends, over all the rows they have.
End == IF rows = <<>> THEN 0 ELSE Max({rows[i].expires : i \in DOMAIN rows})

Owed == INSTANCE Entitlement WITH end <- End, Gifts <- "extend_days" \in Actors

\* However requests, chargebacks and the administrator interleave, the rows
\* are an account of time in which a purchase adds exactly its days to what was
\* left, the trial is given once, and a returned payment takes back no more
\* than its own days (ExtendSubscriptionByDuration, SetTrialUsedTx,
\* ContractSubscriptionByDuration).
ImplementsEntitlement == Owed!Spec

\* The panel never promises a date no committed transaction has granted: VPN
\* access is granted after the database record, never before or without it
\* (the C-4 comments of ActivateTrial and the post-commit calls of purchases).
PanelBacked == panel.expires <= peak

\* A row that has run out is retired by the sweep or revived by a purchase; it
\* does not keep its active or trial status (periodicExpirySweep).
LapsedRowSettles ==
    \A i \in 1..2 :
        (i \in DOMAIN rows /\ Lapsed(rows[i])) ~> (i \in DOMAIN rows /\ ~Lapsed(rows[i]))

NothingLive == \A i \in DOMAIN rows : ~Live(rows[i])

RevertedInUse ==
    /\ NothingLive
    /\ \E i \in DOMAIN rows : rows[i].status = "reverted"
    /\ panel.enabled
    /\ panel.expires > day

\* Access that a chargeback retires is switched off at the panel, by the
\* chargeback itself or by the sweep after it ("marked `reverted` so the
\* periodic sweep disables Remnawave access on the next pass").
RevertedLosesAccess == RevertedInUse ~> ~RevertedInUse
=============================================================================
