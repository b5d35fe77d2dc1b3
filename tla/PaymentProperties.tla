------------------------- MODULE PaymentProperties -------------------------
(***************************************************************************)
(* What is claimed of the payment pipeline: invariants, the refinement of  *)
(* PaymentLedger, liveness, and two sentences of the source's comments     *)
(* that the pipeline does not keep.                                        *)
(***************************************************************************)
EXTENDS PaymentSystem

Ledger == INSTANCE PaymentLedger WITH MaxGrants    <- MaxJobRetries + 1,
                                      RewardMissed <- "RewardLookup" \in Faults

\* Every transaction of the pipeline is one entry of PaymentLedger: repeated
\* webhooks, polls, the sweep, retries, lost jobs and crashes never book a
\* payment twice, undo it twice, pay its reward or bonus twice, or grant time
\* for a payment that Platega has not confirmed, and a chargeback takes back
\* the reward that was paid, unless its look-up fails (worker.go: the keys of
\* handlePaymentProcess and handleDeviceExpansionActivate, the one push of each
\* follow-up job after the confirming commit, and processRevertedPayment).
ImplementsLedger == Ledger!Spec

-----------------------------------------------------------------------------
\* The gateway really is, or was, in status s for p.
Reached(p, s) ==
    \/ gw[p] = s
    \/ s = "CONFIRMED" /\ (gw[p] = "CHARGEBACKED" \/ kind[p] = "free")

JobReached(j) == Reached(j.payment, j.status)

RowsReached ==
    \A p \in Payments : status[p] \in FinalStatus => Reached(p, status[p])

JobsReached ==
    /\ \A h \in sent : JobReached(h)
    /\ \A q \in Queues :
        /\ \A i \in DOMAIN queue[q] : JobReached(queue[q][i].job)
        /\ hand[q] # Nil => JobReached(hand[q].job)
        /\ \A e \in Entry : backoff[q][e] > 0 => JobReached(e.job)

AnswersReached ==
    \A x \in Askers :
        poll[x] # Nil /\ poll[x].pc \in {"write", "push"} =>
            Reached(poll[x].payment, poll[x].answer)

\* No final status is invented: a row, a queued, running or sleeping job, and
\* the answer an asker still holds while the row moves on are all statuses
\* that Platega has really reported for that payment, however stale.
GatewayBacked == RowsReached /\ JobsReached /\ AnswersReached

\* Where the worker still finds a copy of the follow-up job of p: one place for
\* each position in the list, one for the handler, one for each sleeping copy.
Copies(q, p) ==
         {<<"listed", i, 0>> : i \in {i \in DOMAIN queue[q] : queue[q][i].job = FollowUp(p)}}
    \cup (IF InHand(q, FollowUp(p)) THEN {<<"in hand", 0, 0>>} ELSE {})
    \cup UNION {{<<"asleep", e.retries, n>> : n \in 1..backoff[q][e]} :
                    e \in {e \in Entry : e.job = FollowUp(p)}}

\* handleReferralReward and handleSubscriptionActivate have no idempotency key
\* of their own: they are safe against a duplicate only because a payment has
\* at most one activation and one reward job, whatever was delivered twice,
\* polled or retried, and none before its booking has committed.
SingleFollowUp ==
    \A p \in Payments, q \in Queues \ {PaymentQ} :
        Cardinality(Copies(q, p)) <= (IF ledger[p].credits = 0 THEN 0 ELSE 1)

\* A row that a poll has set to CONFIRMED ahead of the worker is not the end
\* of it: its LTV is booked, or the job that will do so is still under way or
\* waits for an operator in the dead-letter list (service.go
\* CheckPaymentStatus, worker.go syncStalePayments).
ConfirmedIsBooked ==
    \A p \in Payments : status[p] = "CONFIRMED" =>
        \/ ledger[p].credits = 1
        \/ Alive(PaymentQ, FollowUp(p))
        \/ FollowUp(p) \in dead[PaymentQ]
        \/ \E x \in Askers :
                poll[x] # Nil /\ poll[x].payment = p /\ poll[x].pc = "push"

-----------------------------------------------------------------------------
\* A subscription that Platega has confirmed is extended, or one of its jobs
\* ends in a dead-letter list where periodicDeadQueueAlert reports it.
PaidIsServed ==
    \A p \in Payments :
        (gw[p] = "CONFIRMED" /\ kind[p] = "subscription") ~>
            \/ ledger[p].grants > 0
            \/ FollowUp(p) \in dead[PaymentQ] \cup dead[ActivateQ]

\* Once Platega has settled a payment its row does not stay PENDING, however
\* the webhook, the polls, the sweep and the user's return to the checkout
\* page interleave.
RowSettles ==
    \A p \in Payments :
        gw[p] \in FinalStatus ~>
            \/ status[p] # "PENDING"
            \/ \E j \in dead[PaymentQ] : j.payment = p

\* The retry policy gives up: failing jobs do not circulate for ever.
QueuesDrain == []<>QueuesQuiet

-----------------------------------------------------------------------------
(* Sentences of the source that do not hold.                               *)

\* worker.go:6 "Idempotency checked before every operation": one payment
\* extends the subscription once.
OneGrantPerPayment == \A p \in Payments : ledger[p].grants <= 1

\* worker.go:950-953 and 975-977: a payment confirmed at the gateway whose
\* webhook is lost is activated all the same.  Once its row is EXPIRED and
\* nothing is on its way, nobody looks at it again.
MissedWebhookIsActivated ==
    \A p \in Payments :
        LET abandoned ==
                /\ gw[p] = "CONFIRMED"
                /\ status[p] = "EXPIRED"
                /\ FollowUp(p) \notin sent
                /\ \A x \in Askers : poll[x] = Nil
                /\ QueuesQuiet
        IN  abandoned => ledger[p].credits = 1
=============================================================================
