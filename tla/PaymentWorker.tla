--------------------------- MODULE PaymentWorker ---------------------------
(***************************************************************************)
(* How one user's payments become LTV, VPN time and rewards: the checkout  *)
(* that creates a payment, Platega's webhook, and the worker's handlers    *)
(* for the four queues a payment travels through.  A handler is cut where  *)
(* another goroutine, a crash or an error can come in between: at every    *)
(* Redis call, read and transaction.  A serializable transaction that      *)
(* holds the user's row lock is one step.                                  *)
(***************************************************************************)
EXTENDS JobQueue

CONSTANT Faults     \* the calls that may fail, a subset of FaultKinds

FaultKinds ==
    {"Delivery",            \* a webhook request never reaches the API
     "EnsureWebhookEvent",  \* the webhook's idempotency insert
     "GetPaymentByID",      \* the webhook's payment lookup
     "Enqueue",             \* LPUSH of a new job
     "Requeue",             \* LPUSH at the end of a backoff
     "DeadLetter",          \* LPUSH to the dead-letter list
     "EnsureOnce",          \* SETNX of an idempotency key
     "PaymentTx", "ActivateTx", "ExpandTx", "RewardTx", "BonusTx",
     "RewardLookup",        \* the chargeback's look-up of the reward
     "Remnawave",           \* the VPN panel
     "GetPaymentStatus",    \* Platega's status endpoint
     "UpdateStatus",        \* a poll's UpdatePaymentStatus, error discarded
     "SweepQuery",          \* the sweep's own queries
     "WorkerCrash", "ApiCrash"}

ASSUME FaultAssumption == Faults \subseteq FaultKinds

VARIABLES
    kind,       \* what payment p buys: "subscription", "expansion", or "free"
    gw,         \* Platega's status of p, "NONE" before checkout
    sent,       \* the webhooks Platega may still deliver, as PaymentProcessJobs
    event,      \* the webhook_events row of a webhook
    status,     \* payments.status, "NONE" before the row exists
    ledger,     \* what committed transactions did for p, as counters
    reward,     \* the referral_rewards row of p
    referred,   \* the user has a referrer whose reward is not zero
    hasSub,     \* the user has a subscriptions row
    expanded,   \* the user has a device_expansions row
    once,       \* the keys pay:processed:<tx>:<status>
    devexp,     \* the keys devexp:processed:<payment>
    stage,      \* how far the handler of queue q is
    seen        \* the payment status processRevertedPayment relies on, read
                \* before its transaction; "NONE" in every other stage

gatewayVars == <<gw, sent>>
inputVars   == <<kind, referred>>
accountVars == <<ledger, reward, hasSub, expanded>>
keyVars     == <<once, devexp>>
loopVars    == <<stage, seen>>
workerVars  == <<queueVars, inputVars, gatewayVars, event, status,
                 accountVars, keyVars, loopVars>>

-----------------------------------------------------------------------------
RowStatus     == FinalStatus \cup {"NONE", "PENDING", "EXPIRED"}
GatewayStatus == FinalStatus \cup {"NONE", "PENDING"}
Stage == {"idle", "taken", "claimed", "confirmed", "extended"}

\* credits, debits: UpdateLTV(+/-amount).  grants, cuts: plan durations (or
\* device slots) added and taken back.  bonuses: PlanYADBonus credited.
\* payouts, clawbacks: referral reward credited to and reclaimed from the
\* referrer.
LedgerRow == [credits : Nat, debits : Nat, grants : Nat, cuts : Nat,
              bonuses : Nat, payouts : Nat, clawbacks : Nat]

EmptyRow == [credits |-> 0, debits |-> 0, grants |-> 0, cuts |-> 0,
             bonuses |-> 0, payouts |-> 0, clawbacks |-> 0]

WorkerTypeOK ==
    /\ QueueTypeOK
    /\ kind \in [Payments -> {"subscription", "expansion", "free"}]
    /\ gw \in [Payments -> GatewayStatus]
    /\ sent \in SUBSET Job
    /\ event \in [Job -> {"absent", "enqueued", "failed"}]
    /\ status \in [Payments -> RowStatus]
    /\ ledger \in [Payments -> LedgerRow]
    /\ reward \in [Payments -> {"none", "immediate", "reverted"}]
    /\ referred \in BOOLEAN
    /\ hasSub \in BOOLEAN
    /\ expanded \in BOOLEAN
    /\ once \in SUBSET Job
    /\ devexp \in SUBSET Payments
    /\ stage \in [Queues -> Stage]
    /\ seen \in RowStatus

WorkerInit ==
    /\ QueueInit
    /\ kind \in [Payments -> {"subscription", "expansion", "free"}]
    /\ gw = [p \in Payments |-> "NONE"]
    /\ sent = {}
    /\ event = [h \in Job |-> "absent"]
    /\ status = [p \in Payments |-> "NONE"]
    /\ ledger = [p \in Payments |-> EmptyRow]
    /\ reward = [p \in Payments |-> "none"]
    /\ referred \in BOOLEAN
    /\ hasSub \in BOOLEAN
    /\ expanded = FALSE
    /\ once = {}
    /\ devexp = {}
    /\ stage = [q \in Queues |-> "idle"]
    /\ seen = "NONE"

-----------------------------------------------------------------------------
(* Checkout and the gateway.                                               *)

\* Platega opens a transaction and the PENDING row is stored.
OpenTransaction(p) ==
    /\ status[p] = "NONE"
    /\ gw' = [gw EXCEPT ![p] = "PENDING"]
    /\ status' = [status EXCEPT ![p] = "PENDING"]
    /\ UNCHANGED <<queueVars, inputVars, sent, event, accountVars, keyVars,
                   loopVars>>

InitiatePayment(p) == kind[p] = "subscription" /\ OpenTransaction(p)

\* An expansion needs an active subscription.
InitiateDeviceExpansionPayment(p) ==
    /\ kind[p] = "expansion"
    /\ hasSub
    /\ OpenTransaction(p)

\* InitiatePayment with a 100% discount: the row is born CONFIRMED and the
\* activation is queued; a failed push is only logged.
InitiateFreePayment(p) ==
    /\ status[p] = "NONE"
    /\ kind[p] = "free"
    /\ status' = [status EXCEPT ![p] = "CONFIRMED"]
    /\ \/ Push(PaymentQ, [payment |-> p, status |-> "CONFIRMED"])
       \/ /\ "Enqueue" \in Faults
          /\ UNCHANGED queueVars
    /\ UNCHANGED <<inputVars, gatewayVars, event, accountVars, keyVars,
                   loopVars>>

Settlements == {<<"PENDING", "CONFIRMED">>, <<"PENDING", "CANCELED">>,
                <<"CONFIRMED", "CHARGEBACKED">>}

\* Platega settles, cancels or charges back p and has a webhook to deliver.
GatewaySettles(p, s) ==
    /\ <<gw[p], s>> \in Settlements
    /\ gw' = [gw EXCEPT ![p] = s]
    /\ sent' = sent \cup {[payment |-> p, status |-> s]}
    /\ UNCHANGED <<queueVars, inputVars, event, status, accountVars,
                   keyVars, loopVars>>

\* Platega gives up (no 200 after its retries), or the handler answers 200
\* although the idempotency insert failed.
WebhookLost(h) ==
    /\ h \in sent
    /\ event[h] = "absent"
    /\ Faults \cap {"Delivery", "EnsureWebhookEvent"} # {}
    /\ sent' = sent \ {h}
    /\ UNCHANGED <<queueVars, inputVars, gw, event, status, accountVars,
                   keyVars, loopVars>>

-----------------------------------------------------------------------------
(* PlategalHandler.Handle.  EnsureWebhookEvent inserts the row first, so a  *)
(* redelivery finds it and is answered without any effect, whatever became *)
(* of the first request.  Nobody else reads the row: insert, lookup, push  *)
(* and MarkWebhookProcessed are one step with two outcomes.                *)

EnqueueWebhook(h) ==
    /\ h \in sent
    /\ event[h] = "absent"
    /\ event' = [event EXCEPT ![h] = "enqueued"]
    /\ Push(PaymentQ, h)
    /\ UNCHANGED <<inputVars, gatewayVars, status, accountVars, keyVars,
                   loopVars>>

\* The lookup or the push failed after the insert, which is recorded with an
\* error text and answered with 200, or the API died in between.
FailWebhook(h) ==
    /\ h \in sent
    /\ event[h] = "absent"
    /\ Faults \cap {"GetPaymentByID", "Enqueue", "ApiCrash"} # {}
    /\ event' = [event EXCEPT ![h] = "failed"]
    /\ UNCHANGED <<queueVars, inputVars, gatewayVars, status, accountVars,
                   keyVars, loopVars>>

-----------------------------------------------------------------------------
(* The worker loops.                                                       *)

TakeJob(q) ==
    /\ Pop(q)
    /\ stage' = [stage EXCEPT ![q] = "taken"]
    /\ UNCHANGED <<inputVars, gatewayVars, event, status, accountVars,
                   keyVars, seen>>

\* The handler of q goes on from one of its stages to the next.
Advance(q, from, to) ==
    /\ hand[q] # Nil
    /\ stage[q] = from
    /\ stage' = [stage EXCEPT ![q] = to]
    /\ UNCHANGED queueVars

\* The handler of q returns nil at this stage.
Finish(q, from) ==
    /\ hand[q] # Nil
    /\ stage[q] = from
    /\ stage' = [stage EXCEPT ![q] = "idle"]
    /\ Return(q)

\* The stages at which a handler returns an error, and the failing call.
Failures ==
    {<<PaymentQ, "taken", "EnsureOnce">>, <<PaymentQ, "claimed", "PaymentTx">>,
     <<ActivateQ, "taken", "ActivateTx">>, <<ActivateQ, "extended", "Remnawave">>,
     <<ExpandQ, "taken", "EnsureOnce">>, <<ExpandQ, "claimed", "ExpandTx">>,
     <<RewardQ, "taken", "RewardTx">>}

HandlerFails(q) ==
    /\ hand[q] # Nil
    /\ \E f \in Faults : <<q, stage[q], f>> \in Failures
    /\ \/ Requeue(q)
       \/ "DeadLetter" \in Faults /\ BuryLost(q)
    /\ stage' = [stage EXCEPT ![q] = "idle"]
    /\ seen' = IF q = PaymentQ THEN "NONE" ELSE seen
    /\ UNCHANGED <<inputVars, gatewayVars, event, status, accountVars,
                   keyVars>>

BackoffEnds(q, e) ==
    /\ \/ Wake(q, e)
       \/ "Requeue" \in Faults /\ WakeLost(q, e)
    /\ UNCHANGED <<inputVars, gatewayVars, event, status, accountVars,
                   keyVars, loopVars>>

-----------------------------------------------------------------------------
(* handlePaymentProcess.                                                   *)

ThePayment(q) == hand[q].job.payment

\* The Redis key pay:processed:<tx>:<status> does not exist yet.
AlwaysNew(j) == TRUE
IsNew(j) == j \notin once

\* EnsureOnce, then GetPaymentByID: the key of this (transaction, status) is
\* set before any work, and the status is read before the transaction that
\* relies on it (which a CONFIRMED job does not).  A job whose key exists is
\* skipped.
ClaimPayment ==
    LET j == hand[PaymentQ].job
    IN  \/ /\ Advance(PaymentQ, "taken", "claimed")
           /\ IsNew(j)
           /\ once' = once \cup {j}
           /\ seen' = IF j.status = "CONFIRMED" THEN "NONE" ELSE status[j.payment]
           /\ UNCHANGED <<inputVars, gatewayVars, event, status, accountVars,
                          devexp>>
        \/ /\ Finish(PaymentQ, "taken")
           /\ ~IsNew(j)
           /\ UNCHANGED <<inputVars, gatewayVars, event, status, accountVars,
                          keyVars, seen>>

\* processConfirmedPayment, the transaction: status and LTV together,
\* whatever the status was.
ConfirmPayment ==
    LET p == ThePayment(PaymentQ)
    IN  /\ Advance(PaymentQ, "claimed", "confirmed")
        /\ hand[PaymentQ].job.status = "CONFIRMED"
        /\ status' = [status EXCEPT ![p] = "CONFIRMED"]
        /\ ledger' = [ledger EXCEPT ![p].credits = @ + 1]
        /\ seen' = "NONE"
        /\ UNCHANGED <<inputVars, gatewayVars, event, reward, hasSub,
                       expanded, keyVars>>

\* ... and the two pushes after the commit, no reward for a free payment.  A
\* failed push is only logged.
ActivationQ(p) == IF kind[p] = "expansion" THEN ExpandQ ELSE ActivateQ

PushFollowUp(p, qs) ==
    queue' = [q \in Queues |->
                IF q \in qs
                THEN Append(queue[q], [job |-> FollowUp(p), retries |-> 0])
                ELSE queue[q]]

DispatchFollowUps ==
    LET p == ThePayment(PaymentQ)
        followUps == {ActivationQ(p)} \cup (IF kind[p] = "free" THEN {} ELSE {RewardQ})
    IN  /\ hand[PaymentQ] # Nil
        /\ stage[PaymentQ] = "confirmed"
        /\ \E pushed \in SUBSET followUps :
            /\ "Enqueue" \notin Faults => pushed = followUps
            /\ PushFollowUp(p, pushed)
        /\ hand' = [hand EXCEPT ![PaymentQ] = Nil]
        /\ stage' = [stage EXCEPT ![PaymentQ] = "idle"]
        /\ UNCHANGED <<backoff, dead, inputVars, gatewayVars, event, status,
                       accountVars, keyVars, seen>>

\* processRevertedPayment, the transaction.  Only a payment that was read as
\* CONFIRMED is undone; there is nothing to contract without a subscription
\* and nothing to reclaim without a paid reward.
Undone(row, cut, reclaim) ==
    [row EXCEPT !.debits = @ + 1,
                !.cuts = IF cut THEN @ + 1 ELSE @,
                !.clawbacks = IF reclaim THEN @ + 1 ELSE @]

\* GetRewardByPaymentID runs on a connection of its own: an error of it is
\* swallowed and the rest commits.  (It may also find a reward younger than the
\* transaction's snapshot, whose UPDATE meets no row: an Undo before PayReward.)
Reclaims(p) ==
    {reclaim \in BOOLEAN :
        \/ reclaim = (reward[p] = "immediate")
        \/ ~reclaim /\ "RewardLookup" \in Faults}

Undo(p) ==
    LET expansion == kind[p] = "expansion"
        cut       == IF expansion THEN expanded ELSE hasSub
    IN  \E reclaim \in Reclaims(p) :
        /\ ledger' = [ledger EXCEPT ![p] = Undone(@, cut, reclaim)]
        /\ reward' = [reward EXCEPT ![p] = IF reclaim THEN "reverted" ELSE @]
        /\ expanded' = (expanded /\ ~expansion)

AlwaysConfirmed == TRUE
WasConfirmed == seen = "CONFIRMED"

\* The row takes the job's status whether or not there is something to undo.
RowIfConfirmed(j) ==
    IF WasConfirmed THEN [status EXCEPT ![j.payment] = j.status] ELSE status
RevertedRow(j) == [status EXCEPT ![j.payment] = j.status]

RevertPayment ==
    LET j == hand[PaymentQ].job
    IN  /\ Finish(PaymentQ, "claimed")
        /\ j.status # "CONFIRMED"
        /\ status' = RevertedRow(j)
        /\ \/ WasConfirmed /\ Undo(j.payment)
           \/ ~WasConfirmed /\ UNCHANGED <<ledger, reward, expanded>>
        /\ seen' = "NONE"
        /\ UNCHANGED <<inputVars, gatewayVars, event, hasSub, keyVars>>

-----------------------------------------------------------------------------
(* handleSubscriptionActivate.                                             *)

\* extendOrCreateSub: no idempotency key guards it.
ExtendSubscription ==
    /\ Advance(ActivateQ, "taken", "extended")
    /\ ledger' = [ledger EXCEPT ![ThePayment(ActivateQ)].grants = @ + 1]
    /\ hasSub' = TRUE
    /\ UNCHANGED <<inputVars, gatewayVars, event, status, reward, expanded,
                   keyVars, seen>>

\* Remnawave answered; the YAD bonus then has a transaction of its own, whose
\* failure is only logged.
CreditBonus ==
    /\ Finish(ActivateQ, "extended")
    /\ \/ ledger' = [ledger EXCEPT ![ThePayment(ActivateQ)].bonuses = @ + 1]
       \/ "BonusTx" \in Faults /\ UNCHANGED ledger
    /\ UNCHANGED <<inputVars, gatewayVars, event, status, reward, hasSub,
                   expanded, keyVars, seen>>

-----------------------------------------------------------------------------
(* handleDeviceExpansionActivate.                                          *)

ClaimExpansion ==
    LET p == ThePayment(ExpandQ)
    IN  \/ /\ Advance(ExpandQ, "taken", "claimed")
           /\ p \notin devexp
           /\ devexp' = devexp \cup {p}
           /\ UNCHANGED <<inputVars, gatewayVars, event, status,
                          accountVars, once, seen>>
        \/ /\ Finish(ExpandQ, "taken")
           /\ p \in devexp
           /\ UNCHANGED <<inputVars, gatewayVars, event, status,
                          accountVars, keyVars, seen>>

\* Without an active subscription the job ends with no effect: the one the
\* user had at checkout may have run out since.
ExpandDevices ==
    /\ Finish(ExpandQ, "claimed")
    /\ \/ /\ hasSub
          /\ ledger' = [ledger EXCEPT ![ThePayment(ExpandQ)].grants = @ + 1]
          /\ expanded' = TRUE
       \/ UNCHANGED <<ledger, expanded>>
    /\ UNCHANGED <<inputVars, gatewayVars, event, status, reward, hasSub,
                   keyVars, seen>>

-----------------------------------------------------------------------------
(* handleReferralReward: the row, keyed by payment, and the credit commit  *)
(* together; the insert's ON CONFLICT DO NOTHING is not looked at.         *)

PayReward ==
    LET p == ThePayment(RewardQ)
    IN  /\ Finish(RewardQ, "taken")
        /\ \/ /\ referred
              /\ ledger' = [ledger EXCEPT ![p].payouts = @ + 1]
              /\ reward' = [reward EXCEPT ![p] =
                                IF @ = "none" THEN "immediate" ELSE @]
           \/ /\ ~referred
              /\ UNCHANGED <<ledger, reward>>
        /\ UNCHANGED <<inputVars, gatewayVars, event, status, hasSub,
                       expanded, keyVars, seen>>

-----------------------------------------------------------------------------
(* The worker process dies, possibly between the two pushes that follow a  *)
(* confirmation.                                                           *)

WorkerCrash ==
    /\ "WorkerCrash" \in Faults
    /\ WorkerStops
    /\ \/ UNCHANGED queue
       \/ /\ hand[PaymentQ] # Nil
          /\ stage[PaymentQ] = "confirmed"
          /\ PushFollowUp(ThePayment(PaymentQ), {ActivationQ(ThePayment(PaymentQ))})
    /\ stage' = [q \in Queues |-> "idle"]
    /\ seen' = "NONE"
    /\ UNCHANGED <<inputVars, gatewayVars, event, status, accountVars,
                   keyVars>>

=============================================================================
