--------------------------- MODULE PaymentSystem ---------------------------
(***************************************************************************)
(* The whole payment pipeline: PaymentWorker together with everything that *)
(* asks Platega for a status instead of waiting for its webhook, namely    *)
(* the user's poll (CheckPaymentStatus of the service, reached from the    *)
(* site and the bot), the administrator's poll, and the worker's minute    *)
(* sweep (syncStalePayments, then MarkExpiredPayments).  Each of them      *)
(* reads the row, asks, writes the row and pushes a job in four separate   *)
(* steps, and the write does not look at the row again.                    *)
(***************************************************************************)
EXTENDS PaymentWorker, FiniteSetsExt

CONSTANTS
    Askers,        \* who asks Platega: the user, an administrator, the sweep
    MaxBacklog     \* bound: nobody asks while this many jobs are waiting

\* A status check under way.
Check == [pc : {"ask", "write", "push", "expire"}, payment : Payments,
          answer : GatewayStatus]

ASSUME PollAssumption ==
    /\ Askers \subseteq {"user", "admin", "sweep"}
    /\ Nil \notin Check
    /\ MaxBacklog \in Nat

VARIABLES
    age,         \* how close expires_at is: "fresh", "stale" (5 minutes), "past"
    poll,        \* poll[x]: the status check that x has under way, or Nil
    sweeping,    \* the minute sweep is between its query and MarkExpiredPayments
    todo,        \* the PENDING rows the sweep has listed and not yet looked at
    syncKey      \* the keys worker:sync:<payment>

pollVars == <<poll, sweeping, todo, syncKey>>
vars     == <<workerVars, age, pollVars>>

TypeOK ==
    /\ WorkerTypeOK
    /\ age \in [Payments -> {"fresh", "stale", "past"}]
    /\ poll \in [Askers -> Check \cup {Nil}]
    /\ sweeping \in BOOLEAN
    /\ todo \in SUBSET Payments
    /\ syncKey \in SUBSET Payments

Init ==
    /\ WorkerInit
    /\ age = [p \in Payments |-> "fresh"]
    /\ poll = [x \in Askers |-> Nil]
    /\ sweeping = FALSE
    /\ todo = {}
    /\ syncKey = {}

\* Nobody reads the expires_at of a row that is not PENDING, and its dedup key
\* may as well have expired: what the model forgets of it.
ForgetClocks ==
    /\ age' = [p \in Payments |-> IF status'[p] = "PENDING" THEN age[p] ELSE "fresh"]
    /\ syncKey' = {p \in syncKey : status'[p] = "PENDING"}

Backlog ==
    Len(queue[PaymentQ]) + MapThenSumSet(LAMBDA e : backoff[PaymentQ][e], Entry)

-----------------------------------------------------------------------------
(* Time and the user's return to the checkout page.                        *)

TimePasses(p) ==
    /\ status[p] = "PENDING"
    /\ \/ age[p] = "fresh" /\ age' = [age EXCEPT ![p] = "stale"]
       \/ age[p] = "stale" /\ age' = [age EXCEPT ![p] = "past"]
    /\ UNCHANGED <<workerVars, pollVars>>

\* TouchPayment renews expires_at of any PENDING row, even a lapsed one.
TouchPayment(p) ==
    /\ status[p] = "PENDING"
    /\ age' = [age EXCEPT ![p] = "fresh"]
    /\ UNCHANGED <<workerVars, pollVars>>

-----------------------------------------------------------------------------
(* A status check.  The user's and the administrator's start with StartPoll, *)
(* the sweep's with SyncNext; the rest is common.                          *)

\* Someone reads the row of p, finds it PENDING and goes on at pc.
ReadPending(x, p, pc) ==
    /\ poll[x] = Nil
    /\ Backlog < MaxBacklog
    /\ status[p] = "PENDING"
    /\ poll' = [poll EXCEPT ![x] =
                    [pc |-> pc, payment |-> p, answer |-> "PENDING"]]
    /\ UNCHANGED <<workerVars, age, sweeping, todo, syncKey>>

\* A lapsed row is not asked about: the user's poll goes on to mark it
\* EXPIRED, the administrator's poll only reports it.
UserCheckPaymentStatus(p) ==
    \/ age[p] # "past" /\ ReadPending("user", p, "ask")
    \/ age[p] = "past" /\ ReadPending("user", p, "expire")

AdminCheckPaymentStatus(p) ==
    age[p] # "past" /\ ReadPending("admin", p, "ask")

StartPoll(x, p) ==
    \/ x = "user"  /\ UserCheckPaymentStatus(p)
    \/ x = "admin" /\ AdminCheckPaymentStatus(p)

WriteExpired(x) ==
    /\ poll[x] # Nil
    /\ poll[x].pc = "expire"
    /\ \/ status' = [status EXCEPT ![poll[x].payment] = "EXPIRED"]
       \/ "UpdateStatus" \in Faults /\ UNCHANGED status
    /\ poll' = [poll EXCEPT ![x] = Nil]
    /\ ForgetClocks
    /\ UNCHANGED <<queueVars, inputVars, gatewayVars, event, accountVars,
                   keyVars, loopVars, sweeping, todo>>

\* What Platega answers for p, as far as IsValidPaymentStatus lets it pass.
AnswersUnchecked(p) == {gw[p], "REFUNDED"}
Answers(p) == {gw[p]}

\* GetPaymentStatus.  PENDING is no news; on an error the sweep gives its
\* dedup key back.
AskGateway(x) ==
    LET c == poll[x]
    IN  /\ c # Nil
        /\ c.pc = "ask"
        /\ \/ \E s \in Answers(c.payment) :
              /\ poll' = [poll EXCEPT ![x] =
                    IF s = "PENDING" THEN Nil
                    ELSE [c EXCEPT !.pc = "write", !.answer = s]]
              /\ UNCHANGED syncKey
           \/ /\ "GetPaymentStatus" \in Faults
              /\ poll' = [poll EXCEPT ![x] = Nil]
              /\ syncKey' = IF x = "sweep" THEN syncKey \ {c.payment} ELSE syncKey
        /\ UNCHANGED <<workerVars, age, sweeping, todo>>

\* The answer that is followed by a job.
AnnouncesAll(s) == TRUE
AnnouncesNone(s) == FALSE
Announces(s) == s = "CONFIRMED"

\* UpdatePaymentStatus with no condition on the row; its error is discarded.
WriteAnswer(x) ==
    LET c == poll[x]
    IN  /\ c # Nil
        /\ c.pc = "write"
        /\ \/ status' = [status EXCEPT ![c.payment] = c.answer]
           \/ "UpdateStatus" \in Faults /\ UNCHANGED status
        /\ poll' = [poll EXCEPT ![x] =
                        IF Announces(c.answer) THEN [c EXCEPT !.pc = "push"]
                                               ELSE Nil]
        /\ ForgetClocks
        /\ UNCHANGED <<queueVars, inputVars, gatewayVars, event, accountVars,
                       keyVars, loopVars, sweeping, todo>>

\* The job the webhook would have sent; a failed push is only logged.
PushAnswer(x) ==
    LET c == poll[x]
    IN  /\ c # Nil
        /\ c.pc = "push"
        /\ \/ Push(PaymentQ, [payment |-> c.payment, status |-> "CONFIRMED"])
           \/ "Enqueue" \in Faults /\ UNCHANGED queueVars
        /\ poll' = [poll EXCEPT ![x] = Nil]
        /\ UNCHANGED <<inputVars, gatewayVars, event, status, accountVars,
                       keyVars, loopVars, age, sweeping, todo, syncKey>>

-----------------------------------------------------------------------------
(* The minute sweep of the worker.                                         *)

\* GetStalePendingPayments; when the query fails the sweep goes straight on
\* to MarkExpiredPayments.  A sweep that finds nothing to do is not modelled.
StalePending == {p \in Payments : status[p] = "PENDING" /\ age[p] # "fresh"}

ListStale ==
    /\ "sweep" \in Askers
    /\ ~sweeping
    /\ StalePending # {}
    /\ sweeping' = TRUE
    /\ \/ todo' = StalePending
       \/ "SweepQuery" \in Faults /\ todo' = {}
    /\ UNCHANGED <<workerVars, age, poll, syncKey>>

\* SETNX of the dedup key: a payment asked about in the last 5 minutes is
\* skipped, and so is every payment while Redis cannot answer.
SyncNext(p) ==
    /\ p \in todo
    /\ poll["sweep"] = Nil
    /\ todo' = todo \ {p}
    /\ \/ /\ p \notin syncKey
          /\ Backlog < MaxBacklog
          /\ syncKey' = IF status[p] = "PENDING" THEN syncKey \cup {p} ELSE syncKey
          /\ poll' = [poll EXCEPT !["sweep"] =
                          [pc |-> "ask", payment |-> p, answer |-> "PENDING"]]
       \/ /\ p \in syncKey \/ "EnsureOnce" \in Faults
          /\ UNCHANGED <<poll, syncKey>>
    /\ UNCHANGED <<workerVars, age, sweeping>>

SyncKeyExpires(p) ==
    /\ p \in syncKey
    /\ syncKey' = syncKey \ {p}
    /\ UNCHANGED <<workerVars, age, poll, sweeping, todo>>

MarkExpiredPayments ==
    /\ sweeping
    /\ todo = {}
    /\ poll["sweep"] = Nil
    /\ sweeping' = FALSE
    /\ \/ status' = [p \in Payments |->
                        IF status[p] = "PENDING" /\ age[p] = "past"
                        THEN "EXPIRED" ELSE status[p]]
       \/ "SweepQuery" \in Faults /\ UNCHANGED status
    /\ ForgetClocks
    /\ UNCHANGED <<queueVars, inputVars, gatewayVars, event, accountVars,
                   keyVars, loopVars, poll, todo>>

-----------------------------------------------------------------------------
WorkerRestart ==
    /\ WorkerCrash
    /\ sweeping' = FALSE
    /\ todo' = {}
    /\ poll' = [x \in Askers |-> IF x = "sweep" THEN Nil ELSE poll[x]]
    /\ UNCHANGED <<age, syncKey>>

ApiRestart ==
    /\ "ApiCrash" \in Faults
    /\ poll' = [x \in Askers |-> IF x = "sweep" THEN poll[x] ELSE Nil]
    /\ UNCHANGED <<workerVars, age, sweeping, todo, syncKey>>

\* What a step of the gateway, the webhook or a worker loop leaves alone here.
Keep == ForgetClocks /\ UNCHANGED <<poll, sweeping, todo>>

PaidCheckout(p) == InitiatePayment(p) \/ InitiateDeviceExpansionPayment(p)

Checkout(p) ==
    \/ PaidCheckout(p) /\ Keep
    \/ InitiateFreePayment(p) /\ Keep

Gateway(p) == \E s \in FinalStatus : GatewaySettles(p, s) /\ Keep

Webhook(h) ==
    \/ WebhookLost(h) /\ Keep
    \/ EnqueueWebhook(h) /\ Keep
    \/ FailWebhook(h) /\ Keep

PaymentLoop ==
    \/ TakeJob(PaymentQ) /\ Keep
    \/ ClaimPayment /\ Keep
    \/ ConfirmPayment /\ Keep
    \/ DispatchFollowUps /\ Keep
    \/ RevertPayment /\ Keep
    \/ HandlerFails(PaymentQ) /\ Keep

ActivateLoop ==
    \/ TakeJob(ActivateQ) /\ Keep
    \/ ExtendSubscription /\ Keep
    \/ CreditBonus /\ Keep
    \/ HandlerFails(ActivateQ) /\ Keep

ExpandLoop ==
    \/ TakeJob(ExpandQ) /\ Keep
    \/ ClaimExpansion /\ Keep
    \/ ExpandDevices /\ Keep
    \/ HandlerFails(ExpandQ) /\ Keep

RewardLoop ==
    \/ TakeJob(RewardQ) /\ Keep
    \/ PayReward /\ Keep
    \/ HandlerFails(RewardQ) /\ Keep

Backoff(q) == \E e \in Entry : BackoffEnds(q, e) /\ Keep

CheckStep(x) == WriteExpired(x) \/ AskGateway(x) \/ WriteAnswer(x) \/ PushAnswer(x)

Poll(x) == CheckStep(x) \/ \E p \in Payments : StartPoll(x, p)

Sweep ==
    \/ ListStale
    \/ \E p \in Payments : SyncNext(p)
    \/ MarkExpiredPayments
    \/ \E x \in Askers \cap {"sweep"} : CheckStep(x)

Time(p) == TimePasses(p) \/ SyncKeyExpires(p)

Next ==
    \/ \E p \in Payments : Checkout(p) \/ Gateway(p) \/ TouchPayment(p) \/ Time(p)
    \/ \E h \in Job : Webhook(h)
    \/ PaymentLoop \/ ActivateLoop \/ ExpandLoop \/ RewardLoop
    \/ \E q \in Queues : Backoff(q)
    \/ \E x \in Askers \ {"sweep"} : Poll(x)
    \/ Sweep
    \/ WorkerRestart
    \/ ApiRestart

Spec == Init /\ [][Next]_vars

\* The loops of Worker.Run, the goroutines of requeueOrDead, the minute ticker
\* and the request handlers keep running; Platega repeats a webhook until it
\* is answered; keys expire and time passes.  Nothing obliges a user to check
\* out, to pay, to come back or to poll.
Fairness ==
    /\ WF_vars(PaymentLoop) /\ WF_vars(ActivateLoop)
    /\ WF_vars(ExpandLoop)  /\ WF_vars(RewardLoop)
    /\ \A q \in Queues : WF_vars(Backoff(q))
    /\ \A h \in Job : WF_vars(Webhook(h))
    /\ \A x \in Askers : WF_vars(CheckStep(x))
    /\ WF_vars(Sweep)
    /\ \A p \in Payments : WF_vars(TimePasses(p)) /\ WF_vars(SyncKeyExpires(p))

FairSpec == Spec /\ Fairness
=============================================================================
