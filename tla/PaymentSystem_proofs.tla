------------------------- MODULE PaymentSystem_proofs -------------------------
(***************************************************************************)
(* The payment pipeline, for every set of payments, every retry limit and  *)
(* every set of faults and askers: every state is well typed (TypeCorrect) *)
(* and no row, job or answer claims a status that Platega has not reported *)
(* (NoStatusInvented).                                                     *)
(***************************************************************************)
EXTENDS PaymentProperties, JobQueue_proofs

\* What a loop holds is an entry about a payment of the system.
LEMMA HandType ==
    ASSUME QueueTypeOK, NEW q \in Queues, hand[q] # Nil
    PROVE  /\ hand[q] \in Entry
           /\ hand[q].job \in Job
           /\ ThePayment(q) \in Payments
           /\ hand[q].job.status \in FinalStatus
BY DEF QueueTypeOK, Entry, Job, ThePayment

\* Counting up one column of a payment's ledger row keeps it a ledger row.
LEMMA LedgerType ==
    ASSUME ledger \in [Payments -> LedgerRow], NEW p \in Payments
    PROVE  /\ [ledger EXCEPT ![p].credits = @ + 1] \in [Payments -> LedgerRow]
           /\ [ledger EXCEPT ![p].grants = @ + 1] \in [Payments -> LedgerRow]
           /\ [ledger EXCEPT ![p].bonuses = @ + 1] \in [Payments -> LedgerRow]
           /\ [ledger EXCEPT ![p].payouts = @ + 1] \in [Payments -> LedgerRow]
BY DEF LedgerRow

\* The pushes after a confirmation keep the lists well typed.
LEMMA FollowUpType ==
    ASSUME QueueTypeOK, NEW p \in Payments, NEW qs, PushFollowUp(p, qs)
    PROVE  queue' \in [Queues -> Seq(Entry)]
<1>1. [job |-> FollowUp(p), retries |-> 0] \in Entry
  BY FollowUpJob, NewEntry
<1>2. ASSUME NEW q \in Queues
      PROVE  /\ queue[q] \in Seq(Entry)
             /\ Append(queue[q], [job |-> FollowUp(p), retries |-> 0]) \in Seq(Entry)
  BY <1>1 DEF QueueTypeOK
<1> QED
  BY <1>2 DEF PushFollowUp

-----------------------------------------------------------------------------
(* Checkout, gateway and webhook.                                          *)

\* A checkout keeps the types.
LEMMA InitiatePaymentType ==
    ASSUME WorkerTypeOK, NEW p \in Payments, PaidCheckout(p)
    PROVE  WorkerTypeOK'
BY DEF WorkerTypeOK, QueueTypeOK, PaidCheckout, InitiatePayment,
       InitiateDeviceExpansionPayment, OpenTransaction, queueVars, inputVars,
       accountVars, keyVars, loopVars, RowStatus, GatewayStatus

\* A free checkout keeps the types.
LEMMA InitiateFreePaymentType ==
    ASSUME WorkerTypeOK, NEW p \in Payments, InitiateFreePayment(p)
    PROVE  WorkerTypeOK'
<1>1. [payment |-> p, status |-> "CONFIRMED"] \in Job
  BY DEF Job, FinalStatus
<1>2. QueueTypeOK'
  <2>1. PaymentQ \in Queues /\ QueueTypeOK
    BY DEF Queues, WorkerTypeOK
  <2>2. CASE Push(PaymentQ, [payment |-> p, status |-> "CONFIRMED"])
    BY <1>1, <2>1, <2>2, PushType
  <2>3. CASE UNCHANGED queueVars
    BY <2>1, <2>3 DEF queueVars, QueueTypeOK
  <2> QED
    BY <2>2, <2>3 DEF InitiateFreePayment
<1>3. status' \in [Payments -> RowStatus]
  BY DEF WorkerTypeOK, InitiateFreePayment, RowStatus, FinalStatus
<1> QED
  BY <1>2, <1>3 DEF WorkerTypeOK, InitiateFreePayment, inputVars, gatewayVars,
                    accountVars, keyVars, loopVars

\* A decision of Platega keeps the types.
LEMMA GatewaySettlesType ==
    ASSUME WorkerTypeOK, NEW p \in Payments, NEW s \in FinalStatus,
           GatewaySettles(p, s)
    PROVE  WorkerTypeOK'
<1>1. [payment |-> p, status |-> s] \in Job
  BY DEF Job
<1>2. gw' \in [Payments -> GatewayStatus] /\ sent' \in SUBSET Job
  BY <1>1 DEF WorkerTypeOK, GatewaySettles, GatewayStatus
<1> QED
  BY <1>2 DEF WorkerTypeOK, QueueTypeOK, GatewaySettles, queueVars, inputVars,
              accountVars, keyVars, loopVars

\* A webhook, answered, failed or lost, keeps the types.
LEMMA WebhookType ==
    ASSUME WorkerTypeOK, NEW h \in Job,
           WebhookLost(h) \/ EnqueueWebhook(h) \/ FailWebhook(h)
    PROVE  WorkerTypeOK'
<1>1. CASE WebhookLost(h)
  BY <1>1 DEF WorkerTypeOK, QueueTypeOK, WebhookLost, queueVars, inputVars,
              accountVars, keyVars, loopVars
<1>2. CASE EnqueueWebhook(h)
  <2>1. QueueTypeOK'
    BY <1>2, PushType DEF WorkerTypeOK, EnqueueWebhook, Queues
  <2> QED
    BY <1>2, <2>1 DEF WorkerTypeOK, EnqueueWebhook, inputVars, gatewayVars,
                      accountVars, keyVars, loopVars
<1>3. CASE FailWebhook(h)
  BY <1>3 DEF WorkerTypeOK, QueueTypeOK, FailWebhook, queueVars, inputVars,
              gatewayVars, accountVars, keyVars, loopVars
<1> QED
  BY <1>1, <1>2, <1>3

-----------------------------------------------------------------------------
(* What the loops have in common.                                          *)

\* A loop that pops a job keeps the types.
LEMMA TakeJobType ==
    ASSUME WorkerTypeOK, NEW q \in Queues, TakeJob(q)
    PROVE  WorkerTypeOK'
<1>1. QueueTypeOK'
  BY PopType DEF WorkerTypeOK, TakeJob
<1> QED
  BY <1>1 DEF WorkerTypeOK, TakeJob, Stage, inputVars, gatewayVars,
              accountVars, keyVars

\* A handler that goes on to a stage leaves queues and stages well typed.
LEMMA AdvanceType ==
    ASSUME WorkerTypeOK, NEW q \in Queues, NEW from, NEW to \in Stage,
           Advance(q, from, to)
    PROVE  QueueTypeOK' /\ stage' \in [Queues -> Stage]
BY DEF WorkerTypeOK, QueueTypeOK, Advance, queueVars

\* A handler that returns leaves queues and stages well typed.
LEMMA FinishType ==
    ASSUME WorkerTypeOK, NEW q \in Queues, NEW from, Finish(q, from)
    PROVE  QueueTypeOK' /\ stage' \in [Queues -> Stage]
BY ReturnType DEF WorkerTypeOK, Finish, Stage

\* A handler that fails keeps the types.
LEMMA HandlerFailsType ==
    ASSUME WorkerTypeOK, NEW q \in Queues, HandlerFails(q)
    PROVE  WorkerTypeOK'
<1>1. QueueTypeOK'
  BY RequeueType, ReturnType DEF WorkerTypeOK, HandlerFails, BuryLost
<1> QED
  BY <1>1 DEF WorkerTypeOK, HandlerFails, Stage, RowStatus, inputVars,
              gatewayVars, accountVars, keyVars

\* The end of a backoff keeps the types.
LEMMA BackoffEndsType ==
    ASSUME WorkerTypeOK, NEW q \in Queues, NEW e \in Entry, BackoffEnds(q, e)
    PROVE  WorkerTypeOK'
<1>1. QueueTypeOK'
  BY WakeType DEF WorkerTypeOK, BackoffEnds
<1> QED
  BY <1>1 DEF WorkerTypeOK, BackoffEnds, inputVars, gatewayVars, accountVars,
              keyVars, loopVars

-----------------------------------------------------------------------------
(* The payment loop.                                                       *)

\* Setting the key of a payment job keeps the types.
LEMMA ClaimPaymentType ==
    ASSUME WorkerTypeOK, ClaimPayment
    PROVE  WorkerTypeOK'
<1>1. PaymentQ \in Queues /\ "claimed" \in Stage
  BY DEF Queues, Stage
<1>2. QueueTypeOK' /\ stage' \in [Queues -> Stage]
  BY <1>1, AdvanceType, FinishType DEF ClaimPayment
<1>3. hand[PaymentQ] # Nil
  BY DEF ClaimPayment, Advance, Finish
<1>4. hand[PaymentQ].job \in Job /\ hand[PaymentQ].job.payment \in Payments
  BY <1>1, <1>3, HandType DEF WorkerTypeOK, ThePayment
<1>5. once' \in SUBSET Job /\ seen' \in RowStatus
  BY <1>4 DEF ClaimPayment, WorkerTypeOK, RowStatus, keyVars
<1> QED
  BY <1>2, <1>5 DEF ClaimPayment, WorkerTypeOK, inputVars, gatewayVars,
                    accountVars, keyVars

\* The confirming transaction keeps the types.
LEMMA ConfirmPaymentType ==
    ASSUME WorkerTypeOK, ConfirmPayment
    PROVE  WorkerTypeOK'
<1> DEFINE p == ThePayment(PaymentQ)
<1>1. PaymentQ \in Queues /\ "confirmed" \in Stage
  BY DEF Queues, Stage
<1>2. QueueTypeOK' /\ stage' \in [Queues -> Stage]
  BY <1>1, AdvanceType DEF ConfirmPayment
<1>3. p \in Payments
  BY <1>1, HandType DEF WorkerTypeOK, ConfirmPayment, Advance
<1>4. ledger' \in [Payments -> LedgerRow]
  <2>1. ledger' = [ledger EXCEPT ![p].credits = @ + 1]
    BY DEF ConfirmPayment
  <2> QED
    BY <1>3, <2>1, LedgerType DEF WorkerTypeOK
<1>5. status' \in [Payments -> RowStatus]
  BY <1>3 DEF ConfirmPayment, WorkerTypeOK, RowStatus, FinalStatus
<1> QED
  BY <1>2, <1>4, <1>5 DEF ConfirmPayment, WorkerTypeOK, RowStatus, inputVars,
                          gatewayVars, keyVars

\* The pushes after the confirming transaction keep the types.
LEMMA DispatchFollowUpsType ==
    ASSUME WorkerTypeOK, DispatchFollowUps
    PROVE  WorkerTypeOK'
<1> DEFINE p == ThePayment(PaymentQ)
<1>1. PaymentQ \in Queues /\ p \in Payments
  BY HandType DEF Queues, WorkerTypeOK, DispatchFollowUps
<1>2. PICK pushed : PushFollowUp(p, pushed)
  BY DEF DispatchFollowUps
<1>3. queue' \in [Queues -> Seq(Entry)]
  BY <1>1, <1>2, FollowUpType DEF WorkerTypeOK
<1> QED
  BY <1>1, <1>3 DEF DispatchFollowUps, WorkerTypeOK, QueueTypeOK, Stage,
                    inputVars, gatewayVars, accountVars, keyVars

\* Undoing a payment keeps the types of what it touches.
LEMMA UndoType ==
    ASSUME WorkerTypeOK, NEW p \in Payments, Undo(p)
    PROVE  /\ ledger' \in [Payments -> LedgerRow]
           /\ reward' \in [Payments -> {"none", "immediate", "reverted"}]
           /\ expanded' \in BOOLEAN
<1>1. ASSUME NEW row \in LedgerRow, NEW c \in BOOLEAN, NEW r \in BOOLEAN
      PROVE  Undone(row, c, r) \in LedgerRow
  <2> DEFINE a == IF c THEN row.cuts + 1 ELSE row.cuts
             b == IF r THEN row.clawbacks + 1 ELSE row.clawbacks
  <2>1. a \in Nat /\ b \in Nat /\ row.debits + 1 \in Nat
    BY DEF LedgerRow
  <2>2. Undone(row, c, r) =
            [row EXCEPT !.debits = row.debits + 1, !.cuts = a, !.clawbacks = b]
    BY DEF Undone
  <2> HIDE DEF a, b
  <2> QED
    BY <2>1, <2>2 DEF LedgerRow
<1> DEFINE cut == IF kind[p] = "expansion" THEN expanded ELSE hasSub
<1>2. PICK reclaim \in Reclaims(p) :
        /\ ledger' = [ledger EXCEPT ![p] = Undone(@, cut, reclaim)]
        /\ reward' = [reward EXCEPT ![p] = IF reclaim THEN "reverted" ELSE @]
        /\ expanded' = (expanded /\ kind[p] # "expansion")
  BY DEF Undo
<1>3. cut \in BOOLEAN /\ reclaim \in BOOLEAN
  BY DEF WorkerTypeOK, Reclaims
<1>4. Undone(ledger[p], cut, reclaim) \in LedgerRow
  BY <1>1, <1>3 DEF WorkerTypeOK
<1>5. ledger' \in [Payments -> LedgerRow]
  BY <1>2, <1>4 DEF WorkerTypeOK
<1> QED
  BY <1>2, <1>5 DEF WorkerTypeOK

\* The reverting transaction keeps the types.
LEMMA RevertPaymentType ==
    ASSUME WorkerTypeOK, RevertPayment
    PROVE  WorkerTypeOK'
<1> DEFINE j == hand[PaymentQ].job
<1>1. PaymentQ \in Queues
  BY DEF Queues
<1>2. QueueTypeOK' /\ stage' \in [Queues -> Stage]
  BY <1>1, FinishType DEF RevertPayment
<1>3. j.payment \in Payments /\ j.status \in FinalStatus
  BY <1>1, HandType DEF WorkerTypeOK, RevertPayment, Finish, ThePayment
<1>4. status' \in [Payments -> RowStatus]
  BY <1>3 DEF RevertPayment, RevertedRow, WorkerTypeOK, RowStatus
<1>5. /\ ledger' \in [Payments -> LedgerRow]
      /\ reward' \in [Payments -> {"none", "immediate", "reverted"}]
      /\ expanded' \in BOOLEAN
  <2>1. CASE Undo(j.payment)
    BY <1>3, <2>1, UndoType
  <2>2. CASE UNCHANGED <<ledger, reward, expanded>>
    BY <2>2 DEF WorkerTypeOK
  <2> QED
    BY <2>1, <2>2 DEF RevertPayment
<1> QED
  BY <1>2, <1>4, <1>5 DEF RevertPayment, WorkerTypeOK, RowStatus, inputVars,
                          gatewayVars, keyVars

-----------------------------------------------------------------------------
(* The activation, expansion and reward loops.                             *)

\* The extension of a subscription keeps the types.
LEMMA ExtendSubscriptionType ==
    ASSUME WorkerTypeOK, ExtendSubscription
    PROVE  WorkerTypeOK'
<1> DEFINE p == ThePayment(ActivateQ)
<1>1. ActivateQ \in Queues /\ "extended" \in Stage
  BY DEF Queues, Stage
<1>2. QueueTypeOK' /\ stage' \in [Queues -> Stage]
  BY <1>1, AdvanceType DEF ExtendSubscription
<1>3. p \in Payments
  BY <1>1, HandType DEF WorkerTypeOK, ExtendSubscription, Advance
<1>4. ledger' \in [Payments -> LedgerRow]
  <2>1. ledger' = [ledger EXCEPT ![p].grants = @ + 1]
    BY DEF ExtendSubscription
  <2> QED
    BY <1>3, <2>1, LedgerType DEF WorkerTypeOK
<1> QED
  BY <1>2, <1>4 DEF ExtendSubscription, WorkerTypeOK, inputVars, gatewayVars,
                    keyVars

\* The bonus, paid or failed, keeps the types.
LEMMA CreditBonusType ==
    ASSUME WorkerTypeOK, CreditBonus
    PROVE  WorkerTypeOK'
<1> DEFINE p == ThePayment(ActivateQ)
<1>1. ActivateQ \in Queues
  BY DEF Queues
<1>2. QueueTypeOK' /\ stage' \in [Queues -> Stage]
  BY <1>1, FinishType DEF CreditBonus
<1>3. p \in Payments
  BY <1>1, HandType DEF WorkerTypeOK, CreditBonus, Finish
<1>4. ledger' \in [Payments -> LedgerRow]
  <2>1. ledger \in [Payments -> LedgerRow]
    BY DEF WorkerTypeOK
  <2>2. [ledger EXCEPT ![p].bonuses = @ + 1] \in [Payments -> LedgerRow]
    BY <1>3, <2>1, LedgerType
  <2>3. ledger' = [ledger EXCEPT ![p].bonuses = @ + 1] \/ ledger' = ledger
    BY DEF CreditBonus
  <2> QED
    BY <2>1, <2>2, <2>3, Zenon
<1> QED
  BY <1>2, <1>4 DEF CreditBonus, WorkerTypeOK, inputVars, gatewayVars, keyVars

\* Setting the key of an expansion job keeps the types.
LEMMA ClaimExpansionType ==
    ASSUME WorkerTypeOK, ClaimExpansion
    PROVE  WorkerTypeOK'
<1> DEFINE p == ThePayment(ExpandQ)
<1>1. ExpandQ \in Queues /\ "claimed" \in Stage
  BY DEF Queues, Stage
<1>2. QueueTypeOK' /\ stage' \in [Queues -> Stage]
  BY <1>1, AdvanceType, FinishType DEF ClaimExpansion
<1>3. p \in Payments
  BY <1>1, HandType DEF WorkerTypeOK, ClaimExpansion, Advance, Finish
<1>4. devexp' \in SUBSET Payments
  BY <1>3 DEF ClaimExpansion, WorkerTypeOK, keyVars
<1> QED
  BY <1>2, <1>4 DEF ClaimExpansion, WorkerTypeOK, inputVars, gatewayVars,
                    accountVars, keyVars

\* The expansion, bought or dropped, keeps the types.
LEMMA ExpandDevicesType ==
    ASSUME WorkerTypeOK, ExpandDevices
    PROVE  WorkerTypeOK'
<1> DEFINE p == ThePayment(ExpandQ)
<1>1. ExpandQ \in Queues
  BY DEF Queues
<1>2. QueueTypeOK' /\ stage' \in [Queues -> Stage]
  BY <1>1, FinishType DEF ExpandDevices
<1>3. p \in Payments
  BY <1>1, HandType DEF WorkerTypeOK, ExpandDevices, Finish
<1>4. ledger' \in [Payments -> LedgerRow]
  <2>1. ledger \in [Payments -> LedgerRow]
    BY DEF WorkerTypeOK
  <2>2. [ledger EXCEPT ![p].grants = @ + 1] \in [Payments -> LedgerRow]
    BY <1>3, <2>1, LedgerType
  <2>3. ledger' = [ledger EXCEPT ![p].grants = @ + 1] \/ ledger' = ledger
    BY DEF ExpandDevices
  <2> QED
    BY <2>1, <2>2, <2>3, Zenon
<1> QED
  BY <1>2, <1>4 DEF ExpandDevices, WorkerTypeOK, inputVars, gatewayVars, keyVars

\* The referral reward keeps the types.
LEMMA PayRewardType ==
    ASSUME WorkerTypeOK, PayReward
    PROVE  WorkerTypeOK'
<1> DEFINE p == ThePayment(RewardQ)
<1>1. RewardQ \in Queues
  BY DEF Queues
<1>2. QueueTypeOK' /\ stage' \in [Queues -> Stage]
  BY <1>1, FinishType DEF PayReward
<1>3. p \in Payments
  BY <1>1, HandType DEF WorkerTypeOK, PayReward, Finish
<1>4. ledger' \in [Payments -> LedgerRow]
  <2>1. CASE referred
    <3>1. ledger' = [ledger EXCEPT ![p].payouts = @ + 1]
      BY <2>1 DEF PayReward
    <3> QED
      BY <1>3, <3>1, LedgerType DEF WorkerTypeOK
  <2>2. CASE ~referred
    BY <2>2 DEF PayReward, WorkerTypeOK
  <2> QED
    BY <2>1, <2>2
<1>5. reward' \in [Payments -> {"none", "immediate", "reverted"}]
  BY <1>3 DEF PayReward, WorkerTypeOK
<1> QED
  BY <1>2, <1>4, <1>5 DEF PayReward, WorkerTypeOK, inputVars, gatewayVars, keyVars

\* A crash of the worker keeps the types.
LEMMA WorkerCrashType ==
    ASSUME WorkerTypeOK, WorkerCrash
    PROVE  WorkerTypeOK'
<1> DEFINE p == ThePayment(PaymentQ)
<1>1. queue' \in [Queues -> Seq(Entry)]
  <2>1. CASE UNCHANGED queue
    BY <2>1 DEF WorkerTypeOK, QueueTypeOK
  <2>2. CASE hand[PaymentQ] # Nil /\ PushFollowUp(p, {ActivationQ(p)})
    <3>1. PaymentQ \in Queues
      BY DEF Queues
    <3>2. p \in Payments
      BY <2>2, <3>1, HandType DEF WorkerTypeOK
    <3> QED
      BY <2>2, <3>2, FollowUpType DEF WorkerTypeOK
  <2> QED
    BY <2>1, <2>2 DEF WorkerCrash
<1>2. QueueTypeOK'
  BY <1>1, WorkerStopsType DEF WorkerTypeOK, WorkerCrash
<1> QED
  BY <1>2 DEF WorkerCrash, WorkerTypeOK, Stage, RowStatus, inputVars,
              gatewayVars, accountVars, keyVars

-----------------------------------------------------------------------------
(* Who asks Platega.                                                       *)

\* What TypeOK says of the variables of PaymentSystem itself.
AskTypeOK ==
    /\ age \in [Payments -> {"fresh", "stale", "past"}]
    /\ poll \in [Askers -> Check \cup {Nil}]
    /\ sweeping \in BOOLEAN
    /\ todo \in SUBSET Payments
    /\ syncKey \in SUBSET Payments

\* TypeOK is the conjunction of its two halves.
LEMMA TypeSplit == TypeOK <=> WorkerTypeOK /\ AskTypeOK
BY DEF TypeOK, AskTypeOK

\* Forgetting the clocks of settled rows keeps the types.
LEMMA ForgetType ==
    ASSUME AskTypeOK, ForgetClocks
    PROVE  /\ age' \in [Payments -> {"fresh", "stale", "past"}]
           /\ syncKey' \in SUBSET Payments
BY DEF AskTypeOK, ForgetClocks

\* A step of the gateway, the webhook or a loop keeps the askers' types.
LEMMA KeepType ==
    ASSUME AskTypeOK, Keep
    PROVE  AskTypeOK'
BY ForgetType DEF AskTypeOK, Keep

\* A step of an asker that leaves the worker alone keeps the worker's types.
LEMMA WorkerSame ==
    ASSUME WorkerTypeOK, UNCHANGED workerVars
    PROVE  WorkerTypeOK'
BY DEF WorkerTypeOK, QueueTypeOK, workerVars, queueVars, inputVars,
       gatewayVars, accountVars, keyVars, loopVars

\* An asker that writes a row keeps the worker's types.
LEMMA WorkerRow ==
    ASSUME WorkerTypeOK, status' \in [Payments -> RowStatus],
           UNCHANGED <<queueVars, inputVars, gatewayVars, event, accountVars,
                       keyVars, loopVars>>
    PROVE  WorkerTypeOK'
BY DEF WorkerTypeOK, QueueTypeOK, queueVars, inputVars, gatewayVars,
       accountVars, keyVars, loopVars

\* The check that an asker holds.
LEMMA PollType ==
    ASSUME AskTypeOK, NEW x \in Askers, poll[x] # Nil
    PROVE  /\ poll[x] \in Check
           /\ poll[x].payment \in Payments
           /\ poll[x].answer \in GatewayStatus
BY DEF AskTypeOK, Check

\* The start of a check keeps the askers' types.
LEMMA StartPollType ==
    ASSUME AskTypeOK, NEW x \in Askers, NEW p \in Payments, StartPoll(x, p)
    PROVE  AskTypeOK'
<1>1. ASSUME NEW pc \in {"ask", "expire"}
      PROVE  [pc |-> pc, payment |-> p, answer |-> "PENDING"] \in Check
  BY DEF Check, GatewayStatus
<1>2. poll' \in [Askers -> Check \cup {Nil}]
  BY <1>1 DEF StartPoll, UserCheckPaymentStatus, AdminCheckPaymentStatus,
              ReadPending, AskTypeOK
<1> QED
  BY <1>2 DEF StartPoll, UserCheckPaymentStatus, AdminCheckPaymentStatus,
              ReadPending, AskTypeOK

\* Writing EXPIRED keeps the types.
LEMMA WriteExpiredType ==
    ASSUME WorkerTypeOK, AskTypeOK, NEW x \in Askers, WriteExpired(x)
    PROVE  WorkerTypeOK' /\ AskTypeOK'
<1>1. poll[x].payment \in Payments
  BY PollType DEF WriteExpired
<1>2. status' \in [Payments -> RowStatus]
  BY <1>1 DEF WriteExpired, WorkerTypeOK, RowStatus
<1>3. WorkerTypeOK'
  BY <1>2, WorkerRow DEF WriteExpired
<1>4. poll' \in [Askers -> Check \cup {Nil}]
  BY DEF WriteExpired, AskTypeOK
<1> QED
  BY <1>3, <1>4, ForgetType DEF WriteExpired, AskTypeOK

\* Platega's answer, or its failure, keeps the types.
LEMMA AskGatewayType ==
    ASSUME WorkerTypeOK, AskTypeOK, NEW x \in Askers, AskGateway(x)
    PROVE  WorkerTypeOK' /\ AskTypeOK'
<1>1. WorkerTypeOK'
  BY WorkerSame DEF AskGateway
<1>2. poll[x] \in Check /\ poll[x].payment \in Payments
  BY PollType DEF AskGateway
<1>3. ASSUME NEW s \in Answers(poll[x].payment)
      PROVE  [poll[x] EXCEPT !.pc = "write", !.answer = s] \in Check
  BY <1>2 DEF Answers, WorkerTypeOK, Check
<1>4. poll' \in [Askers -> Check \cup {Nil}] /\ syncKey' \in SUBSET Payments
  <2>1. CASE \E s \in Answers(poll[x].payment) :
                /\ poll' = [poll EXCEPT ![x] =
                      IF s = "PENDING" THEN Nil
                      ELSE [poll[x] EXCEPT !.pc = "write", !.answer = s]]
                /\ UNCHANGED syncKey
    BY <1>3, <2>1 DEF AskTypeOK
  <2>2. CASE /\ poll' = [poll EXCEPT ![x] = Nil]
             /\ syncKey' = IF x = "sweep" THEN syncKey \ {poll[x].payment} ELSE syncKey
    BY <2>2 DEF AskTypeOK
  <2> QED
    BY <2>1, <2>2 DEF AskGateway
<1> QED
  BY <1>1, <1>4 DEF AskGateway, AskTypeOK

\* Writing an answer keeps the types.
LEMMA WriteAnswerType ==
    ASSUME WorkerTypeOK, AskTypeOK, NEW x \in Askers, WriteAnswer(x)
    PROVE  WorkerTypeOK' /\ AskTypeOK'
<1>1. /\ poll[x] \in Check /\ poll[x].payment \in Payments
      /\ poll[x].answer \in GatewayStatus
  BY PollType DEF WriteAnswer
<1>2. status' \in [Payments -> RowStatus]
  BY <1>1 DEF WriteAnswer, WorkerTypeOK, RowStatus, GatewayStatus
<1>3. WorkerTypeOK'
  BY <1>2, WorkerRow DEF WriteAnswer
<1>4. [poll[x] EXCEPT !.pc = "push"] \in Check
  BY <1>1 DEF Check
<1>5. poll' \in [Askers -> Check \cup {Nil}]
  BY <1>4 DEF WriteAnswer, AskTypeOK
<1> QED
  BY <1>3, <1>5, ForgetType DEF WriteAnswer, AskTypeOK

\* The push after an answer keeps the types.
LEMMA PushAnswerType ==
    ASSUME WorkerTypeOK, AskTypeOK, NEW x \in Askers, PushAnswer(x)
    PROVE  WorkerTypeOK' /\ AskTypeOK'
<1>1. [payment |-> poll[x].payment, status |-> "CONFIRMED"] \in Job
  BY PollType DEF PushAnswer, Job, FinalStatus
<1>2. PaymentQ \in Queues /\ QueueTypeOK
  BY DEF Queues, WorkerTypeOK
<1>3. QueueTypeOK'
  <2>1. CASE Push(PaymentQ, [payment |-> poll[x].payment, status |-> "CONFIRMED"])
    BY <1>1, <1>2, <2>1, PushType
  <2>2. CASE UNCHANGED queueVars
    BY <1>2, <2>2 DEF queueVars, QueueTypeOK
  <2> QED
    BY <2>1, <2>2 DEF PushAnswer
<1>4. poll' \in [Askers -> Check \cup {Nil}]
  BY DEF PushAnswer, AskTypeOK
<1> QED
  BY <1>3, <1>4 DEF PushAnswer, AskTypeOK, WorkerTypeOK, inputVars,
                    gatewayVars, accountVars, keyVars, loopVars

\* The minute sweep keeps the types.
LEMMA SweepType ==
    ASSUME WorkerTypeOK, AskTypeOK,
           \/ ListStale
           \/ \E p \in Payments : SyncNext(p) \/ SyncKeyExpires(p)
           \/ MarkExpiredPayments
    PROVE  WorkerTypeOK' /\ AskTypeOK'
<1>1. CASE ListStale
  BY <1>1, WorkerSame DEF ListStale, AskTypeOK, StalePending
<1>2. ASSUME NEW p \in Payments, SyncNext(p)
      PROVE  WorkerTypeOK' /\ AskTypeOK'
  <2>1. [pc |-> "ask", payment |-> p, answer |-> "PENDING"] \in Check
    BY DEF Check, GatewayStatus
  <2>2. poll' \in [Askers -> Check \cup {Nil}] /\ syncKey' \in SUBSET Payments
    BY <1>2, <2>1 DEF SyncNext, AskTypeOK
  <2> QED
    BY <1>2, <2>2, WorkerSame DEF SyncNext, AskTypeOK
<1>3. ASSUME NEW p \in Payments, SyncKeyExpires(p)
      PROVE  WorkerTypeOK' /\ AskTypeOK'
  BY <1>3, WorkerSame DEF SyncKeyExpires, AskTypeOK
<1>4. CASE MarkExpiredPayments
  <2>1. status' \in [Payments -> RowStatus]
    BY <1>4 DEF MarkExpiredPayments, WorkerTypeOK, RowStatus
  <2> QED
    BY <1>4, <2>1, WorkerRow, ForgetType DEF MarkExpiredPayments, AskTypeOK
<1> QED
  BY <1>1, <1>2, <1>3, <1>4

\* Time and the return to the checkout page keep the types.
LEMMA ClockType ==
    ASSUME WorkerTypeOK, AskTypeOK, NEW p \in Payments,
           TimePasses(p) \/ TouchPayment(p)
    PROVE  WorkerTypeOK' /\ AskTypeOK'
BY WorkerSame DEF TimePasses, TouchPayment, AskTypeOK, pollVars

\* Restarts of either process keep the types.
LEMMA RestartType ==
    ASSUME WorkerTypeOK, AskTypeOK, WorkerRestart \/ ApiRestart
    PROVE  WorkerTypeOK' /\ AskTypeOK'
<1>1. CASE WorkerRestart
  BY <1>1, WorkerCrashType DEF WorkerRestart, AskTypeOK
<1>2. CASE ApiRestart
  BY <1>2, WorkerSame DEF ApiRestart, AskTypeOK
<1> QED
  BY <1>1, <1>2

-----------------------------------------------------------------------------
\* The actions that PaymentWorker defines, each with the frame Keep.
WorkerAction ==
    \/ \E p \in Payments : PaidCheckout(p) \/ InitiateFreePayment(p)
    \/ \E p \in Payments, s \in FinalStatus : GatewaySettles(p, s)
    \/ \E h \in Job : WebhookLost(h) \/ EnqueueWebhook(h) \/ FailWebhook(h)
    \/ \E q \in Queues : TakeJob(q) \/ HandlerFails(q)
    \/ \E q \in Queues, e \in Entry : BackoffEnds(q, e)
    \/ ClaimPayment \/ ConfirmPayment \/ DispatchFollowUps \/ RevertPayment
    \/ ExtendSubscription \/ CreditBonus
    \/ ClaimExpansion \/ ExpandDevices \/ PayReward

\* The actions of the askers and of time.
AskAction ==
    \/ \E p \in Payments : TimePasses(p) \/ TouchPayment(p) \/ SyncKeyExpires(p)
    \/ \E x \in Askers : CheckStep(x) \/ \E p \in Payments : StartPoll(x, p)
    \/ ListStale \/ MarkExpiredPayments
    \/ \E p \in Payments : SyncNext(p)

\* Every step of the system is one of these.
LEMMA NextSplit ==
    ASSUME Next
    PROVE  (WorkerAction /\ Keep) \/ AskAction \/ WorkerRestart \/ ApiRestart
<1>1. PaymentQ \in Queues /\ ActivateQ \in Queues /\ ExpandQ \in Queues /\ RewardQ \in Queues
  BY DEF Queues
<1>2. ASSUME NEW p \in Payments, Checkout(p) \/ Gateway(p)
      PROVE  WorkerAction /\ Keep
  BY <1>2 DEF Checkout, Gateway, WorkerAction
<1>3. ASSUME NEW h \in Job, Webhook(h)
      PROVE  WorkerAction /\ Keep
  BY <1>3 DEF Webhook, WorkerAction
<1>4. CASE PaymentLoop
  BY <1>1, <1>4 DEF PaymentLoop, WorkerAction
<1>5. CASE ActivateLoop
  BY <1>1, <1>5 DEF ActivateLoop, WorkerAction
<1>6. CASE ExpandLoop
  BY <1>1, <1>6 DEF ExpandLoop, WorkerAction
<1>7. CASE RewardLoop
  BY <1>1, <1>7 DEF RewardLoop, WorkerAction
<1>8. ASSUME NEW q \in Queues, Backoff(q)
      PROVE  WorkerAction /\ Keep
  BY <1>8 DEF Backoff, WorkerAction
<1>9. ASSUME NEW p \in Payments, TouchPayment(p) \/ Time(p)
      PROVE  AskAction
  BY <1>9 DEF Time, AskAction
<1>10. ASSUME NEW x \in Askers, Poll(x)
       PROVE  AskAction
  BY <1>10 DEF Poll, AskAction
<1>11. CASE Sweep
  BY <1>11 DEF Sweep, AskAction
<1> QED
  BY <1>2, <1>3, <1>4, <1>5, <1>6, <1>7, <1>8, <1>9, <1>10, <1>11 DEF Next

\* Every step keeps the types.
LEMMA TypeStep ==
    ASSUME TypeOK, Next
    PROVE  TypeOK'
<1> USE TypeSplit
<1>1. WorkerTypeOK /\ AskTypeOK
  OBVIOUS
<1>2. CASE WorkerAction /\ Keep
  <2>1. WorkerTypeOK'
    BY <1>1, <1>2, InitiatePaymentType, InitiateFreePaymentType,
       GatewaySettlesType, WebhookType, TakeJobType, HandlerFailsType,
       BackoffEndsType, ClaimPaymentType, ConfirmPaymentType,
       DispatchFollowUpsType, RevertPaymentType, ExtendSubscriptionType,
       CreditBonusType, ClaimExpansionType, ExpandDevicesType, PayRewardType
       DEF WorkerAction
  <2> QED
    BY <1>1, <1>2, <2>1, KeepType DEF TypeOK, AskTypeOK
<1>3. CASE AskAction
  <2>1. ASSUME NEW p \in Payments, TimePasses(p) \/ TouchPayment(p)
        PROVE  WorkerTypeOK' /\ AskTypeOK'
    BY <1>1, <2>1, ClockType
  <2>2. ASSUME NEW x \in Askers, CheckStep(x)
        PROVE  WorkerTypeOK' /\ AskTypeOK'
    BY <1>1, <2>2, WriteExpiredType, AskGatewayType, WriteAnswerType,
       PushAnswerType DEF CheckStep
  <2>3. ASSUME NEW x \in Askers, NEW p \in Payments, StartPoll(x, p)
        PROVE  WorkerTypeOK' /\ AskTypeOK'
    BY <1>1, <2>3, StartPollType, WorkerSame
       DEF StartPoll, UserCheckPaymentStatus, AdminCheckPaymentStatus,
           ReadPending
  <2>4. ASSUME \/ ListStale \/ MarkExpiredPayments
               \/ \E p \in Payments : SyncNext(p) \/ SyncKeyExpires(p)
        PROVE  WorkerTypeOK' /\ AskTypeOK'
    BY <1>1, <2>4, SweepType
  <2>5. WorkerTypeOK' /\ AskTypeOK'
    BY <1>3, <2>1, <2>2, <2>3, <2>4 DEF AskAction
  <2> QED
    BY <2>5 DEF TypeOK, AskTypeOK
<1>4. CASE WorkerRestart \/ ApiRestart
  BY <1>1, <1>4, RestartType DEF TypeOK, AskTypeOK
<1> QED
  BY <1>2, <1>3, <1>4, NextSplit

\* The initial state is well typed.
LEMMA TypeInit ==
    ASSUME Init
    PROVE  TypeOK
<1>1. \A q \in Queues : <<>> \in Seq(Entry)
  OBVIOUS
<1>2. QueueTypeOK
  BY <1>1 DEF Init, WorkerInit, QueueInit, QueueTypeOK
<1>3. EmptyRow \in LedgerRow
  BY DEF EmptyRow, LedgerRow
<1>4. WorkerTypeOK
  BY <1>2, <1>3 DEF Init, WorkerInit, WorkerTypeOK, RowStatus, GatewayStatus, Stage
<1> QED
  BY <1>4 DEF Init, TypeOK

\* No step of the pipeline leaves the types: in particular a retry counter
\* never passes MaxJobRetries, a backoff is never woken more often than it was
\* started, and no row, answer or job ever holds an unknown status.
THEOREM TypeCorrect == Spec => []TypeOK
<1>1. Init => TypeOK
  BY TypeInit
<1>2. TypeOK /\ [Next]_vars => TypeOK'
  <2>1. ASSUME TypeOK, UNCHANGED vars
        PROVE  TypeOK'
    BY <2>1, WorkerSame DEF TypeOK, vars, pollVars
  <2> QED
    BY <2>1, TypeStep
<1> QED
  BY <1>1, <1>2, PTL DEF Spec

-----------------------------------------------------------------------------
(* Nothing is claimed of a payment that Platega has not reported.  That is *)
(* not inductive: what a poll writes is final and true only because the    *)
(* poll asked about a payment that Platega knows, and the follow-up jobs   *)
(* are true only because the job that pushes them is a CONFIRMED one.      *)
(* GatewayInv adds those facts.                                            *)

\* The jobs whose status Platega has reported.
ReachedJobs == {j \in Job : JobReached(j)}

\* An asker deals with a payment that Platega knows, and what it is about to
\* write or push is a final status of that payment.
AsksKnown ==
    \A x \in Askers : poll[x] # Nil =>
        /\ gw[poll[x].payment] # "NONE"
        /\ poll[x].pc \in {"write", "push"} =>
            /\ poll[x].answer \in FinalStatus
            /\ Reached(poll[x].payment, poll[x].answer)
        /\ poll[x].pc = "push" => poll[x].answer = "CONFIRMED"

\* Platega knows every payment whose row is PENDING or listed by the sweep, and
\* no payment without a row.
PendingKnown ==
    /\ \A p \in Payments : status[p] = "NONE" => gw[p] = "NONE"
    /\ \A p \in Payments : status[p] = "PENDING" => gw[p] # "NONE"
    /\ \A p \in todo : gw[p] # "NONE"

\* Only a CONFIRMED job reaches the stage that pushes the follow-up jobs.
ConfirmedStage ==
    hand[PaymentQ] # Nil /\ stage[PaymentQ] = "confirmed" =>
        hand[PaymentQ].job.status = "CONFIRMED"

GatewayInv ==
    /\ TypeOK
    /\ RowsReached
    /\ sent \subseteq ReachedJobs
    /\ JobsIn(ReachedJobs)
    /\ AsksKnown
    /\ PendingKnown
    /\ ConfirmedStage

\* GatewayInv is strong enough.
LEMMA GatewayInvImplies == GatewayInv => GatewayBacked
BY DEF GatewayInv, GatewayBacked, JobsReached, JobsIn, ReachedJobs,
       AnswersReached, AsksKnown

\* A final status that was reached stays reached while Platega goes on.
LEMMA ReachedGrows ==
    ASSUME WorkerTypeOK, PendingKnown, NEW p \in Payments,
           NEW s \in FinalStatus, Reached(p, s), UNCHANGED kind,
           \/ UNCHANGED gw
           \/ \E r \in Payments, t \in FinalStatus : GatewaySettles(r, t)
           \/ \E r \in Payments : PaidCheckout(r)
    PROVE  Reached(p, s)'
<1>1. CASE UNCHANGED gw
  BY <1>1 DEF Reached
<1>2. ASSUME NEW r \in Payments, NEW t \in FinalStatus, GatewaySettles(r, t)
      PROVE  Reached(p, s)'
  BY <1>2 DEF GatewaySettles, Settlements, Reached, FinalStatus, WorkerTypeOK
<1>3. ASSUME NEW r \in Payments, PaidCheckout(r)
      PROVE  Reached(p, s)'
  BY <1>3 DEF PaidCheckout, InitiatePayment, InitiateDeviceExpansionPayment,
              OpenTransaction, PendingKnown, Reached, FinalStatus, WorkerTypeOK
<1> QED
  BY <1>1, <1>2, <1>3

-----------------------------------------------------------------------------
(* Every step of the worker's side, with the frame Keep.                   *)

\* While kind and gw stand still, so does what was reached.
LEMMA ReachedSame ==
    ASSUME UNCHANGED <<kind, gw>>
    PROVE  /\ ReachedJobs' = ReachedJobs
           /\ \A p \in Payments, s \in FinalStatus : Reached(p, s)' <=> Reached(p, s)
BY DEF ReachedJobs, JobReached, Reached

\* An asker's facts survive a step that leaves poll and gw alone.
LEMMA AsksSame ==
    ASSUME AsksKnown, UNCHANGED <<kind, gw, poll>>
    PROVE  AsksKnown'
BY DEF AsksKnown, Reached

\* The job in the hands of a loop is true.
LEMMA HandReached ==
    ASSUME TypeOK, JobsIn(ReachedJobs), NEW q \in Queues, hand[q] # Nil
    PROVE  /\ hand[q].job \in ReachedJobs
           /\ Reached(hand[q].job.payment, hand[q].job.status)
           /\ hand[q].job.payment \in Payments
           /\ hand[q].job.status \in FinalStatus
BY HandType DEF TypeOK, WorkerTypeOK, JobsIn, ReachedJobs, JobReached, ThePayment

\* The follow-up jobs of a payment with a CONFIRMED job are true.
LEMMA FollowUpReached ==
    ASSUME NEW p \in Payments, Reached(p, "CONFIRMED")
    PROVE  FollowUp(p) \in Job \cap ReachedJobs
BY FollowUpJob DEF ReachedJobs, JobReached, FollowUp

\* Pushing the follow-up jobs of p adds no other job.
LEMMA FollowUpJobs ==
    ASSUME QueueTypeOK, NEW S, JobsIn(S), NEW p \in Payments, FollowUp(p) \in S,
           NEW qs, PushFollowUp(p, qs), NEW q \in Queues, NEW i \in DOMAIN queue'[q]
    PROVE  queue'[q][i].job \in S
<1> DEFINE e == [job |-> FollowUp(p), retries |-> 0]
<1>1. e \in Entry
  BY FollowUpJob, NewEntry
<1>2. CASE q \in qs
  <2>1. queue'[q] = Append(queue[q], e)
    BY <1>2 DEF PushFollowUp
  <2>2. (i \in DOMAIN queue[q] /\ queue'[q][i] = queue[q][i]) \/ queue'[q][i] = e
    BY <1>1, <2>1, AppendJobs
  <2> QED
    BY <2>2 DEF JobsIn
<1>3. CASE q \notin qs
  BY <1>3 DEF PushFollowUp, JobsIn
<1> QED
  BY <1>2, <1>3

\* A step that moves no job but forgets some keeps the jobs true.
LEMMA JobsSame ==
    ASSUME NEW S, JobsIn(S), UNCHANGED queueVars
    PROVE  JobsIn(S)'
BY DEF JobsIn, queueVars

\* No worker action pushes an untrue job.
LEMMA WorkerJobsReached ==
    ASSUME GatewayInv, WorkerAction, UNCHANGED <<kind, gw>>
    PROVE  JobsIn(ReachedJobs)'
<1>1. PICK S : S = ReachedJobs
  OBVIOUS
<1>2. S = ReachedJobs'
  BY <1>1, ReachedSame
<1>3. JobsIn(S) /\ QueueTypeOK
  BY <1>1 DEF GatewayInv, TypeOK, WorkerTypeOK
<1>4. PaymentQ \in Queues /\ ActivateQ \in Queues /\ ExpandQ \in Queues /\ RewardQ \in Queues
  BY DEF Queues
<1>5. JobsIn(S)'
  <2>1. ASSUME NEW p \in Payments, PaidCheckout(p)
        PROVE  JobsIn(S)'
    BY <1>3, <2>1, JobsSame DEF PaidCheckout, InitiatePayment,
                                InitiateDeviceExpansionPayment, OpenTransaction
  <2>2. ASSUME NEW p \in Payments, InitiateFreePayment(p)
        PROVE  JobsIn(S)'
    <3>1. [payment |-> p, status |-> "CONFIRMED"] \in Job \cap S
      BY <1>1, <2>2 DEF InitiateFreePayment, ReachedJobs, JobReached, Reached,
                        Job, FinalStatus
    <3> QED
      BY <1>3, <1>4, <2>2, <3>1, PushJobs, JobsSame DEF InitiateFreePayment
  <2>3. ASSUME NEW p \in Payments, NEW s \in FinalStatus, GatewaySettles(p, s)
        PROVE  JobsIn(S)'
    BY <1>3, <2>3, JobsSame DEF GatewaySettles
  <2>4. ASSUME NEW h \in Job, WebhookLost(h) \/ EnqueueWebhook(h) \/ FailWebhook(h)
        PROVE  JobsIn(S)'
    <3>1. h \in S
      BY <1>1, <2>4 DEF GatewayInv, WebhookLost, EnqueueWebhook, FailWebhook
    <3> QED
      BY <1>3, <1>4, <2>4, <3>1, PushJobs, JobsSame
         DEF WebhookLost, EnqueueWebhook, FailWebhook
  <2>5. ASSUME NEW q \in Queues, TakeJob(q) \/ HandlerFails(q)
        PROVE  JobsIn(S)'
    BY <1>3, <2>5, PopJobs, RequeueJobs, ReturnJobs DEF TakeJob, HandlerFails, BuryLost
  <2>6. ASSUME NEW q \in Queues, NEW e \in Entry, BackoffEnds(q, e)
        PROVE  JobsIn(S)'
    BY <1>3, <2>6, WakeJobs DEF BackoffEnds
  <2>7. CASE DispatchFollowUps
    <3> DEFINE p == ThePayment(PaymentQ)
    <3>1. p \in Payments /\ Reached(p, "CONFIRMED")
      BY <1>4, <2>7, HandReached
         DEF GatewayInv, DispatchFollowUps, ConfirmedStage, ThePayment
    <3>2. FollowUp(p) \in S
      BY <1>1, <3>1, FollowUpReached
    <3>3. PICK pushed : PushFollowUp(p, pushed)
      BY <2>7 DEF DispatchFollowUps
    <3>4. \A q \in Queues : \A i \in DOMAIN queue'[q] : queue'[q][i].job \in S
      BY <1>3, <3>1, <3>2, <3>3, FollowUpJobs
    <3>5. \A q \in Queues : hand'[q] # Nil => hand'[q].job \in S
      BY <1>3, <2>7 DEF DispatchFollowUps, JobsIn, QueueTypeOK
    <3> QED
      BY <1>3, <2>7, <3>4, <3>5 DEF DispatchFollowUps, JobsIn
  <2>8. CASE ClaimPayment \/ ConfirmPayment \/ RevertPayment
    BY <1>3, <1>4, <2>8, ReturnJobs, JobsSame
       DEF ClaimPayment, ConfirmPayment, RevertPayment, Advance, Finish
  <2>9. CASE ExtendSubscription \/ CreditBonus
    BY <1>3, <1>4, <2>9, ReturnJobs, JobsSame
       DEF ExtendSubscription, CreditBonus, Advance, Finish
  <2>10. CASE ClaimExpansion \/ ExpandDevices \/ PayReward
    BY <1>3, <1>4, <2>10, ReturnJobs, JobsSame
       DEF ClaimExpansion, ExpandDevices, PayReward, Advance, Finish
  <2> QED
    BY <2>1, <2>2, <2>3, <2>4, <2>5, <2>6, <2>7, <2>8, <2>9, <2>10 DEF WorkerAction
<1> QED
  BY <1>2, <1>5 DEF JobsIn

\* Only ConfirmPayment enters the stage that pushes, with a CONFIRMED job.
LEMMA WorkerStage ==
    ASSUME GatewayInv, WorkerAction
    PROVE  ConfirmedStage'
<1>1. /\ hand \in [Queues -> Entry \cup {Nil}] /\ stage \in [Queues -> Stage]
      /\ PaymentQ \in Queues /\ ActivateQ \in Queues
      /\ ExpandQ \in Queues /\ RewardQ \in Queues
      /\ PaymentQ # ActivateQ /\ PaymentQ # ExpandQ /\ PaymentQ # RewardQ
  BY DEF GatewayInv, TypeOK, WorkerTypeOK, QueueTypeOK, Queues, PaymentQ,
         ActivateQ, ExpandQ, RewardQ
<1>2. ASSUME \/ hand'[PaymentQ] = hand[PaymentQ] /\ stage'[PaymentQ] = stage[PaymentQ]
             \/ stage'[PaymentQ] # "confirmed"
      PROVE  ConfirmedStage'
  BY <1>2 DEF GatewayInv, ConfirmedStage
<1>3. ASSUME NEW p \in Payments, PaidCheckout(p) \/ InitiateFreePayment(p)
      PROVE  ConfirmedStage'
  BY <1>2, <1>3 DEF PaidCheckout, InitiatePayment,
                    InitiateDeviceExpansionPayment, OpenTransaction,
                    InitiateFreePayment, Push, queueVars, loopVars
<1>4. ASSUME NEW p \in Payments, NEW s \in FinalStatus, GatewaySettles(p, s)
      PROVE  ConfirmedStage'
  BY <1>2, <1>4 DEF GatewaySettles, queueVars, loopVars
<1>5. ASSUME NEW h \in Job, WebhookLost(h) \/ EnqueueWebhook(h) \/ FailWebhook(h)
      PROVE  ConfirmedStage'
  BY <1>2, <1>5 DEF WebhookLost, EnqueueWebhook, FailWebhook, Push, queueVars,
                    loopVars
<1>6. ASSUME NEW q \in Queues, TakeJob(q) \/ HandlerFails(q)
      PROVE  ConfirmedStage'
  BY <1>1, <1>2, <1>6 DEF TakeJob, HandlerFails, Pop, Requeue, BuryLost, Return
<1>7. ASSUME NEW q \in Queues, NEW e \in Entry, BackoffEnds(q, e)
      PROVE  ConfirmedStage'
  BY <1>2, <1>7 DEF BackoffEnds, Wake, WakeLost, loopVars
<1>8. CASE ClaimPayment
  BY <1>1, <1>2, <1>8 DEF ClaimPayment, Advance, Finish
<1>9. CASE ConfirmPayment
  BY <1>9 DEF ConfirmPayment, Advance, queueVars, ConfirmedStage
<1>10. CASE DispatchFollowUps \/ RevertPayment
  BY <1>1, <1>2, <1>10 DEF DispatchFollowUps, RevertPayment, Finish
<1>11. CASE ExtendSubscription \/ CreditBonus
  BY <1>1, <1>2, <1>11 DEF ExtendSubscription, CreditBonus, Advance, Finish,
                           Return, queueVars
<1>12. CASE ClaimExpansion \/ ExpandDevices
  BY <1>1, <1>2, <1>12 DEF ClaimExpansion, ExpandDevices, Advance, Finish,
                           Return, queueVars
<1>13. CASE PayReward
  BY <1>1, <1>2, <1>13 DEF PayReward, Finish, Return
<1> QED
  BY <1>3, <1>4, <1>5, <1>6, <1>7, <1>8, <1>9, <1>10, <1>11, <1>12, <1>13
     DEF WorkerAction

\* What the worker's side does to the rows.
LEMMA WorkerRows ==
    ASSUME GatewayInv, WorkerAction, UNCHANGED <<kind, gw, todo>>
    PROVE  RowsReached' /\ PendingKnown'
<1>1. PaymentQ \in Queues /\ status \in [Payments -> RowStatus]
  BY DEF Queues, GatewayInv, TypeOK, WorkerTypeOK
<1>2. \/ UNCHANGED status
      \/ \E p \in Payments, s \in FinalStatus :
            status' = [status EXCEPT ![p] = s] /\ Reached(p, s)
  <2>1. ASSUME NEW p \in Payments, PaidCheckout(p)
        PROVE  FALSE
    BY <2>1 DEF PaidCheckout, InitiatePayment, InitiateDeviceExpansionPayment,
                OpenTransaction, GatewayInv, TypeOK, WorkerTypeOK, PendingKnown
  <2>2. ASSUME NEW p \in Payments, InitiateFreePayment(p)
        PROVE  status' = [status EXCEPT ![p] = "CONFIRMED"] /\ Reached(p, "CONFIRMED")
    BY <2>2 DEF InitiateFreePayment, Reached
  <2>3. CASE ConfirmPayment \/ RevertPayment
    <3> DEFINE j == hand[PaymentQ].job
    <3>1. hand[PaymentQ] # Nil
      BY <2>3 DEF ConfirmPayment, RevertPayment, Advance, Finish
    <3>2. j.payment \in Payments /\ j.status \in FinalStatus /\ Reached(j.payment, j.status)
      BY <1>1, <3>1, HandReached DEF GatewayInv
    <3>3. status' = [status EXCEPT ![j.payment] = j.status]
      BY <2>3 DEF ConfirmPayment, RevertPayment, RevertedRow, ThePayment
    <3> QED
      BY <3>2, <3>3
  <2>4. ASSUME NEW p \in Payments, NEW s \in FinalStatus, GatewaySettles(p, s)
        PROVE  UNCHANGED status
    BY <2>4 DEF GatewaySettles
  <2>5. ASSUME NEW h \in Job, WebhookLost(h) \/ EnqueueWebhook(h) \/ FailWebhook(h)
        PROVE  UNCHANGED status
    BY <2>5 DEF WebhookLost, EnqueueWebhook, FailWebhook
  <2>6. ASSUME NEW q \in Queues, TakeJob(q) \/ HandlerFails(q)
        PROVE  UNCHANGED status
    BY <2>6 DEF TakeJob, HandlerFails
  <2>7. ASSUME NEW q \in Queues, NEW e \in Entry, BackoffEnds(q, e)
        PROVE  UNCHANGED status
    BY <2>7 DEF BackoffEnds
  <2>8. CASE ClaimPayment \/ DispatchFollowUps \/ ExtendSubscription \/ CreditBonus
             \/ ClaimExpansion \/ ExpandDevices \/ PayReward
    BY <2>8 DEF ClaimPayment, DispatchFollowUps, ExtendSubscription,
                CreditBonus, ClaimExpansion, ExpandDevices, PayReward
  <2>9. "CONFIRMED" \in FinalStatus
    BY DEF FinalStatus
  <2> QED
    BY <2>1, <2>2, <2>3, <2>4, <2>5, <2>6, <2>7, <2>8, <2>9 DEF WorkerAction
<1>3. CASE UNCHANGED status
  BY <1>3 DEF GatewayInv, RowsReached, PendingKnown, Reached
<1>4. ASSUME NEW p \in Payments, NEW s \in FinalStatus,
             status' = [status EXCEPT ![p] = s], Reached(p, s)
      PROVE  RowsReached' /\ PendingKnown'
  <2>1. s # "PENDING" /\ s # "NONE"
    BY DEF FinalStatus
  <2>2. RowsReached'
    BY <1>1, <1>4 DEF GatewayInv, RowsReached, Reached
  <2>3. PendingKnown'
    BY <1>1, <1>4, <2>1 DEF GatewayInv, PendingKnown
  <2> QED
    BY <2>2, <2>3
<1> QED
  BY <1>2, <1>3, <1>4

\* Every worker action changes kind never, and gw and the webhooks to come only
\* at checkout and when Platega settles or gives up.
LEMMA WorkerGateway ==
    ASSUME WorkerAction
    PROVE  /\ UNCHANGED kind
           /\ \/ UNCHANGED gw /\ sent' \subseteq sent
              \/ \E p \in Payments : PaidCheckout(p)
              \/ \E p \in Payments, s \in FinalStatus : GatewaySettles(p, s)
<1>1. ASSUME NEW p \in Payments, PaidCheckout(p) \/ InitiateFreePayment(p)
      PROVE  UNCHANGED kind
  BY <1>1 DEF PaidCheckout, InitiatePayment, InitiateDeviceExpansionPayment,
              OpenTransaction, InitiateFreePayment, inputVars
<1>2. ASSUME NEW p \in Payments, InitiateFreePayment(p)
      PROVE  UNCHANGED gw /\ sent' \subseteq sent
  BY <1>2 DEF InitiateFreePayment, gatewayVars
<1>3. ASSUME NEW p \in Payments, NEW s \in FinalStatus, GatewaySettles(p, s)
      PROVE  UNCHANGED kind
  BY <1>3 DEF GatewaySettles, inputVars
<1>4. ASSUME NEW h \in Job, WebhookLost(h) \/ EnqueueWebhook(h) \/ FailWebhook(h)
      PROVE  UNCHANGED <<kind, gw>> /\ sent' \subseteq sent
  BY <1>4 DEF WebhookLost, EnqueueWebhook, FailWebhook, inputVars, gatewayVars
<1>5. ASSUME NEW q \in Queues, TakeJob(q) \/ HandlerFails(q)
      PROVE  UNCHANGED <<kind, gw, sent>>
  BY <1>5 DEF TakeJob, HandlerFails, inputVars, gatewayVars
<1>6. ASSUME NEW q \in Queues, NEW e \in Entry, BackoffEnds(q, e)
      PROVE  UNCHANGED <<kind, gw, sent>>
  BY <1>6 DEF BackoffEnds, inputVars, gatewayVars
<1>7. CASE ClaimPayment \/ ConfirmPayment \/ DispatchFollowUps \/ RevertPayment
           \/ ExtendSubscription \/ CreditBonus
           \/ ClaimExpansion \/ ExpandDevices \/ PayReward
  BY <1>7 DEF ClaimPayment, ConfirmPayment, DispatchFollowUps, RevertPayment,
              ExtendSubscription, CreditBonus, ClaimExpansion, ExpandDevices,
              PayReward, inputVars, gatewayVars
<1> QED
  BY <1>1, <1>2, <1>3, <1>4, <1>5, <1>6, <1>7 DEF WorkerAction

\* When Platega moves, nothing else does, and what was reached stays reached.
LEMMA GatewayMoves ==
    ASSUME GatewayInv, UNCHANGED <<poll, todo>>,
           \/ \E p \in Payments : PaidCheckout(p)
           \/ \E p \in Payments, s \in FinalStatus : GatewaySettles(p, s)
    PROVE  /\ RowsReached' /\ PendingKnown' /\ AsksKnown'
           /\ sent' \subseteq ReachedJobs' /\ JobsIn(ReachedJobs)'
<1>1. WorkerTypeOK /\ AskTypeOK /\ PendingKnown
  BY TypeSplit DEF GatewayInv
<1>2. UNCHANGED <<kind, queue, hand, backoff>>
  BY DEF PaidCheckout, InitiatePayment, InitiateDeviceExpansionPayment,
         OpenTransaction, GatewaySettles, inputVars, queueVars
<1>3. ASSUME NEW p \in Payments, NEW s \in FinalStatus, Reached(p, s)
      PROVE  Reached(p, s)'
  BY <1>1, <1>2, <1>3, ReachedGrows
<1>4. ReachedJobs \subseteq ReachedJobs'
  BY <1>3 DEF ReachedJobs, JobReached, Job
<1>5. \A p \in Payments : gw[p] # "NONE" => gw'[p] # "NONE"
  <2>1. ASSUME NEW r \in Payments, PaidCheckout(r)
        PROVE  \A p \in Payments : gw[p] # "NONE" => gw'[p] # "NONE"
    BY <1>1, <2>1 DEF PaidCheckout, InitiatePayment,
                      InitiateDeviceExpansionPayment, OpenTransaction,
                      WorkerTypeOK
  <2>2. ASSUME NEW r \in Payments, NEW s \in FinalStatus, GatewaySettles(r, s)
        PROVE  \A p \in Payments : gw[p] # "NONE" => gw'[p] # "NONE"
    BY <1>1, <2>2 DEF GatewaySettles, WorkerTypeOK, FinalStatus
  <2> QED
    BY <2>1, <2>2
<1>6. JobsIn(ReachedJobs)'
  BY <1>2, <1>4 DEF GatewayInv, JobsIn
<1>7. AsksKnown'
  <2> SUFFICES ASSUME NEW x \in Askers, poll[x] # Nil
               PROVE  /\ gw'[poll[x].payment] # "NONE"
                      /\ poll[x].pc \in {"write", "push"} =>
                          /\ poll[x].answer \in FinalStatus
                          /\ Reached(poll[x].payment, poll[x].answer)'
                      /\ poll[x].pc = "push" => poll[x].answer = "CONFIRMED"
    BY DEF AsksKnown, Reached
  <2>1. poll[x].payment \in Payments
    BY <1>1, PollType
  <2> QED
    BY <1>3, <1>5, <2>1 DEF GatewayInv, AsksKnown
<1>8. sent' \subseteq ReachedJobs'
  <2>1. ASSUME NEW p \in Payments, PaidCheckout(p)
        PROVE  sent' = sent
    BY <2>1 DEF PaidCheckout, InitiatePayment, InitiateDeviceExpansionPayment,
                OpenTransaction
  <2>2. ASSUME NEW p \in Payments, NEW s \in FinalStatus, GatewaySettles(p, s)
        PROVE  sent' \subseteq ReachedJobs'
    <3>1. gw'[p] = s /\ [payment |-> p, status |-> s] \in Job
      BY <1>1, <2>2 DEF GatewaySettles, WorkerTypeOK, Job
    <3>2. [payment |-> p, status |-> s] \in ReachedJobs'
      BY <3>1 DEF ReachedJobs, JobReached, Reached
    <3> QED
      BY <1>4, <2>2, <3>2 DEF GatewaySettles, GatewayInv
  <2> QED
    BY <1>4, <2>1, <2>2 DEF GatewayInv
<1>9. RowsReached' /\ PendingKnown'
  <2>1. ASSUME NEW r \in Payments, PaidCheckout(r)
        PROVE  RowsReached' /\ PendingKnown'
    <3>1. /\ status' = [status EXCEPT ![r] = "PENDING"]
          /\ gw' = [gw EXCEPT ![r] = "PENDING"]
      BY <2>1 DEF PaidCheckout, InitiatePayment,
                  InitiateDeviceExpansionPayment, OpenTransaction
    <3>2. RowsReached'
      <4> SUFFICES ASSUME NEW p \in Payments, status'[p] \in FinalStatus
                   PROVE  Reached(p, status[p])' /\ status'[p] = status[p]
        BY DEF RowsReached, Reached
      <4>1. p # r /\ status'[p] = status[p]
        BY <1>1, <3>1 DEF WorkerTypeOK, FinalStatus
      <4> QED
        BY <1>2, <3>1, <4>1 DEF GatewayInv, RowsReached, Reached
    <3>3. PendingKnown'
      BY <1>1, <1>5, <3>1 DEF PendingKnown, WorkerTypeOK, AskTypeOK
    <3> QED
      BY <3>2, <3>3
  <2>2. ASSUME NEW r \in Payments, NEW s \in FinalStatus, GatewaySettles(r, s)
        PROVE  RowsReached' /\ PendingKnown'
    <3>1. UNCHANGED status
      BY <2>2 DEF GatewaySettles
    <3>2. RowsReached'
      <4> SUFFICES ASSUME NEW p \in Payments, status[p] \in FinalStatus
                   PROVE  Reached(p, status[p])'
        BY <3>1 DEF RowsReached, Reached
      <4> QED
        BY <1>3, <3>1 DEF GatewayInv, RowsReached, Reached
    <3>3. \A p \in Payments : gw[p] = "NONE" => gw'[p] = "NONE"
      BY <1>1, <2>2 DEF GatewaySettles, Settlements, WorkerTypeOK
    <3>4. PendingKnown'
      BY <1>1, <1>5, <3>1, <3>3 DEF PendingKnown, AskTypeOK
    <3> QED
      BY <3>2, <3>4
  <2> QED
    BY <2>1, <2>2
<1> QED
  BY <1>6, <1>7, <1>8, <1>9

\* Every step of the worker's side keeps the invariant.
LEMMA WorkerKeepsGateway ==
    ASSUME GatewayInv, TypeOK', WorkerAction, Keep
    PROVE  GatewayInv'
<1>1. ConfirmedStage' /\ UNCHANGED <<kind, poll, todo>>
  BY WorkerStage, WorkerGateway DEF Keep
<1>2. CASE UNCHANGED gw /\ sent' \subseteq sent
  <2>1. ReachedJobs' = ReachedJobs
    BY <1>1, <1>2, ReachedSame
  <2>2. JobsIn(ReachedJobs)'
    BY <1>1, <1>2, WorkerJobsReached
  <2>3. RowsReached' /\ PendingKnown' /\ AsksKnown'
    BY <1>1, <1>2, WorkerRows, AsksSame DEF GatewayInv
  <2>4. sent' \subseteq ReachedJobs'
    BY <1>2, <2>1 DEF GatewayInv
  <2> QED
    BY <1>1, <2>2, <2>3, <2>4 DEF GatewayInv
<1>3. CASE \/ \E p \in Payments : PaidCheckout(p)
           \/ \E p \in Payments, s \in FinalStatus : GatewaySettles(p, s)
  BY <1>1, <1>3, GatewayMoves DEF GatewayInv
<1> QED
  BY <1>2, <1>3, WorkerGateway

-----------------------------------------------------------------------------
(* Every step of an asker, of time and of a restart.                       *)

\* What holds of the worker's side when a step touches only rows and askers.
LEMMA AskLeaves ==
    ASSUME GatewayInv, TypeOK',
           UNCHANGED <<queueVars, inputVars, gatewayVars, loopVars>>,
           RowsReached', AsksKnown', PendingKnown'
    PROVE  GatewayInv'
<1>1. ReachedJobs' = ReachedJobs
  BY ReachedSame DEF inputVars, gatewayVars
<1>2. PICK S : S = ReachedJobs
  OBVIOUS
<1>3. JobsIn(S)'
  BY <1>2, JobsSame DEF GatewayInv
<1>4. JobsIn(ReachedJobs)'
  BY <1>1, <1>2, <1>3
<1>5. ConfirmedStage'
  BY DEF GatewayInv, ConfirmedStage, queueVars, loopVars
<1> QED
  BY <1>1, <1>4, <1>5 DEF GatewayInv, gatewayVars

\* Rows and listings that stay, or settle as Platega has said or as EXPIRED.
LEMMA AskRows ==
    ASSUME GatewayInv, UNCHANGED <<kind, gw>>, todo' \subseteq todo,
           \A p \in Payments :
               \/ status'[p] = status[p]
               \/ status'[p] = "EXPIRED"
               \/ status'[p] \in FinalStatus /\ Reached(p, status'[p])
    PROVE  RowsReached' /\ PendingKnown'
<1>1. RowsReached'
  <2> SUFFICES ASSUME NEW p \in Payments, status'[p] \in FinalStatus
               PROVE  Reached(p, status'[p])
    BY DEF RowsReached, Reached
  <2>1. "EXPIRED" \notin FinalStatus
    BY DEF FinalStatus
  <2> QED
    BY <2>1 DEF GatewayInv, RowsReached
<1>2. PendingKnown'
  BY DEF GatewayInv, PendingKnown, FinalStatus
<1> QED
  BY <1>1, <1>2

\* A check that starts knows no answer but PENDING.
LEMMA StartPollGateway ==
    ASSUME GatewayInv, TypeOK', NEW x \in Askers, NEW p \in Payments, StartPoll(x, p)
    PROVE  GatewayInv'
<1>1. UNCHANGED <<workerVars, todo>> /\ status[p] = "PENDING"
  BY DEF StartPoll, UserCheckPaymentStatus, AdminCheckPaymentStatus, ReadPending
<1>2. UNCHANGED <<queueVars, inputVars, gatewayVars, loopVars, kind, gw, status>>
  BY <1>1 DEF workerVars, inputVars, gatewayVars
<1>3. RowsReached' /\ PendingKnown'
  BY <1>1, <1>2, AskRows
<1>4. PICK pc \in {"ask", "expire"} :
        poll' = [poll EXCEPT ![x] = [pc |-> pc, payment |-> p, answer |-> "PENDING"]]
  BY DEF StartPoll, UserCheckPaymentStatus, AdminCheckPaymentStatus, ReadPending
<1>5. poll \in [Askers -> Check \cup {Nil}] /\ gw[p] # "NONE"
  BY <1>1 DEF GatewayInv, TypeOK, PendingKnown
<1>6. AsksKnown'
  BY <1>2, <1>4, <1>5 DEF GatewayInv, AsksKnown, Reached
<1> QED
  BY <1>2, <1>3, <1>6, AskLeaves

\* EXPIRED is not a status of Platega: writing it invents nothing.
LEMMA WriteExpiredGateway ==
    ASSUME GatewayInv, TypeOK', NEW x \in Askers, WriteExpired(x)
    PROVE  GatewayInv'
<1>1. UNCHANGED <<queueVars, inputVars, gatewayVars, loopVars, kind, gw, todo>>
  BY DEF WriteExpired, inputVars, gatewayVars
<1>2. poll \in [Askers -> Check \cup {Nil}] /\ status \in [Payments -> RowStatus]
  BY DEF GatewayInv, TypeOK, WorkerTypeOK
<1>3. RowsReached' /\ PendingKnown'
  BY <1>1, <1>2, AskRows DEF WriteExpired
<1>4. AsksKnown'
  BY <1>1, <1>2 DEF WriteExpired, GatewayInv, AsksKnown, Reached
<1> QED
  BY <1>1, <1>3, <1>4, AskLeaves

\* The answer an asker takes away is what Platega says at that moment.
LEMMA AskGatewayGateway ==
    ASSUME GatewayInv, TypeOK', NEW x \in Askers, AskGateway(x)
    PROVE  GatewayInv'
<1> DEFINE c == poll[x]
<1>1. UNCHANGED <<workerVars, todo>>
  BY DEF AskGateway
<1>2. UNCHANGED <<queueVars, inputVars, gatewayVars, loopVars, kind, gw, status>>
  BY <1>1 DEF workerVars, inputVars, gatewayVars
<1>3. RowsReached' /\ PendingKnown'
  BY <1>1, <1>2, AskRows
<1>4. /\ poll \in [Askers -> Check \cup {Nil}] /\ c # Nil /\ c \in Check
      /\ gw[c.payment] # "NONE" /\ gw[c.payment] \in GatewayStatus
  BY DEF AskGateway, GatewayInv, TypeOK, WorkerTypeOK, AsksKnown, Check
<1>5. \/ poll' = [poll EXCEPT ![x] = Nil]
      \/ /\ gw[c.payment] # "PENDING"
         /\ poll' = [poll EXCEPT ![x] =
                         [c EXCEPT !.pc = "write", !.answer = gw[c.payment]]]
  BY DEF AskGateway, Answers
<1>6. AsksKnown'
  <2>1. CASE poll' = [poll EXCEPT ![x] = Nil]
    BY <1>2, <1>4, <2>1 DEF GatewayInv, AsksKnown, Reached
  <2>2. CASE /\ gw[c.payment] # "PENDING"
             /\ poll' = [poll EXCEPT ![x] =
                             [c EXCEPT !.pc = "write", !.answer = gw[c.payment]]]
    <3>1. gw[c.payment] \in FinalStatus
      BY <1>4, <2>2 DEF GatewayStatus
    <3>2. /\ poll'[x].payment = c.payment /\ poll'[x].pc = "write"
          /\ poll'[x].answer = gw[c.payment]
          /\ \A y \in Askers \ {x} : poll'[y] = poll[y]
      BY <1>4, <2>2 DEF Check
    <3> QED
      BY <1>2, <1>4, <3>1, <3>2 DEF GatewayInv, AsksKnown, Reached
  <2> QED
    BY <1>5, <2>1, <2>2
<1> QED
  BY <1>2, <1>3, <1>6, AskLeaves

\* An answer that is written late was still reached.
LEMMA WriteAnswerGateway ==
    ASSUME GatewayInv, TypeOK', NEW x \in Askers, WriteAnswer(x)
    PROVE  GatewayInv'
<1> DEFINE c == poll[x]
<1>1. UNCHANGED <<queueVars, inputVars, gatewayVars, loopVars, kind, gw, todo>>
  BY DEF WriteAnswer, inputVars, gatewayVars
<1>2. /\ poll \in [Askers -> Check \cup {Nil}] /\ status \in [Payments -> RowStatus]
      /\ c # Nil /\ c \in Check /\ c.pc = "write"
      /\ gw[c.payment] # "NONE"
      /\ c.answer \in FinalStatus /\ Reached(c.payment, c.answer)
  BY DEF WriteAnswer, GatewayInv, TypeOK, WorkerTypeOK, AsksKnown
<1>3. RowsReached' /\ PendingKnown'
  <2>1. UNCHANGED status \/ status' = [status EXCEPT ![c.payment] = c.answer]
    BY DEF WriteAnswer
  <2> QED
    BY <1>1, <1>2, <2>1, AskRows
<1>4. AsksKnown'
  <2>1. CASE c.answer = "CONFIRMED"
    <3>1. poll' = [poll EXCEPT ![x] = [c EXCEPT !.pc = "push"]]
      BY <2>1 DEF WriteAnswer, Announces
    <3>2. /\ poll'[x].payment = c.payment /\ poll'[x].answer = c.answer
          /\ \A y \in Askers \ {x} : poll'[y] = poll[y]
      BY <1>2, <3>1 DEF Check
    <3> QED
      BY <1>1, <1>2, <2>1, <3>2 DEF GatewayInv, AsksKnown, Reached
  <2>2. CASE c.answer # "CONFIRMED"
    BY <1>1, <1>2, <2>2 DEF WriteAnswer, Announces, GatewayInv, AsksKnown, Reached
  <2> QED
    BY <2>1, <2>2
<1> QED
  BY <1>1, <1>3, <1>4, AskLeaves

\* The job pushed after a CONFIRMED answer is a true one.
LEMMA PushAnswerGateway ==
    ASSUME GatewayInv, TypeOK', NEW x \in Askers, PushAnswer(x)
    PROVE  GatewayInv'
<1> DEFINE c == poll[x]
           j == [payment |-> c.payment, status |-> "CONFIRMED"]
<1>1. /\ UNCHANGED <<inputVars, gatewayVars, loopVars, kind, gw, status, todo>>
      /\ poll' = [poll EXCEPT ![x] = Nil]
  BY DEF PushAnswer, inputVars, gatewayVars
<1>2. /\ poll \in [Askers -> Check \cup {Nil}] /\ QueueTypeOK
      /\ c # Nil /\ c \in Check
      /\ Reached(c.payment, "CONFIRMED")
  BY DEF PushAnswer, GatewayInv, TypeOK, WorkerTypeOK, AsksKnown
<1>3. RowsReached' /\ PendingKnown'
  BY <1>1, AskRows
<1>4. AsksKnown'
  BY <1>1, <1>2 DEF GatewayInv, AsksKnown, Reached
<1>5. ReachedJobs' = ReachedJobs
  BY <1>1, ReachedSame
<1>6. PICK S : S = ReachedJobs
  OBVIOUS
<1>7. j \in Job \cap S /\ PaymentQ \in Queues
  BY <1>2, <1>6 DEF Check, Job, FinalStatus, ReachedJobs, JobReached, Queues
<1>8. JobsIn(S)'
  BY <1>2, <1>6, <1>7, PushJobs, JobsSame DEF PushAnswer, GatewayInv
<1>9. JobsIn(ReachedJobs)'
  BY <1>5, <1>6, <1>8
<1>10. ConfirmedStage'
  BY <1>1 DEF GatewayInv, ConfirmedStage, PushAnswer, Push, queueVars, loopVars
<1> QED
  BY <1>1, <1>3, <1>4, <1>5, <1>9, <1>10 DEF GatewayInv, gatewayVars

\* Listing, skipping and expiring rows keep the invariant.
LEMMA SweepGateway ==
    ASSUME GatewayInv, TypeOK',
           \/ ListStale \/ MarkExpiredPayments
           \/ \E p \in Payments : SyncNext(p) \/ SyncKeyExpires(p)
           \/ \E p \in Payments : TimePasses(p) \/ TouchPayment(p)
    PROVE  GatewayInv'
<1>1. CASE ListStale
  <2>1. UNCHANGED <<queueVars, inputVars, gatewayVars, loopVars, kind, gw, status, poll>>
    BY <1>1 DEF ListStale, workerVars, inputVars, gatewayVars
  <2>2. todo' \subseteq StalePending
    BY <1>1 DEF ListStale
  <2>3. RowsReached' /\ PendingKnown'
    BY <2>1, <2>2 DEF GatewayInv, RowsReached, PendingKnown, Reached, StalePending
  <2>4. AsksKnown'
    BY <2>1, AsksSame DEF GatewayInv
  <2> QED
    BY <2>1, <2>3, <2>4, AskLeaves
<1>2. ASSUME NEW p \in Payments, SyncNext(p)
      PROVE  GatewayInv'
  <2>1. /\ UNCHANGED <<queueVars, inputVars, gatewayVars, loopVars, kind, gw, status>>
        /\ todo' \subseteq todo /\ p \in todo
    BY <1>2 DEF SyncNext, workerVars, inputVars, gatewayVars
  <2>2. RowsReached' /\ PendingKnown'
    BY <2>1, AskRows
  <2>3. gw[p] # "NONE" /\ poll \in [Askers -> Check \cup {Nil}]
    BY <2>1 DEF GatewayInv, PendingKnown, TypeOK
  <2>4. AsksKnown'
    BY <1>2, <2>1, <2>3 DEF SyncNext, GatewayInv, AsksKnown, Reached
  <2> QED
    BY <2>1, <2>2, <2>4, AskLeaves
<1>3. ASSUME NEW p \in Payments, SyncKeyExpires(p) \/ TimePasses(p) \/ TouchPayment(p)
      PROVE  GatewayInv'
  <2>1. UNCHANGED <<queueVars, inputVars, gatewayVars, loopVars, kind, gw,
                    status, poll, todo>>
    BY <1>3 DEF SyncKeyExpires, TimePasses, TouchPayment, workerVars, pollVars,
                inputVars, gatewayVars
  <2> QED
    BY <2>1, AskRows, AsksSame, AskLeaves DEF GatewayInv
<1>4. CASE MarkExpiredPayments
  <2>1. UNCHANGED <<queueVars, inputVars, gatewayVars, loopVars, kind, gw, poll, todo>>
    BY <1>4 DEF MarkExpiredPayments, inputVars, gatewayVars
  <2>2. RowsReached' /\ PendingKnown'
    BY <1>4, <2>1, AskRows DEF MarkExpiredPayments
  <2> QED
    BY <2>1, <2>2, AsksSame, AskLeaves DEF GatewayInv
<1> QED
  BY <1>1, <1>2, <1>3, <1>4

\* A crash drops jobs, and pushes at most the activation it was about to push.
LEMMA RestartGateway ==
    ASSUME GatewayInv, TypeOK', WorkerRestart \/ ApiRestart
    PROVE  GatewayInv'
<1>1. poll \in [Askers -> Check \cup {Nil}] /\ WorkerTypeOK /\ QueueTypeOK
  BY DEF GatewayInv, TypeOK, WorkerTypeOK
<1>2. CASE ApiRestart
  <2>1. UNCHANGED <<queueVars, inputVars, gatewayVars, loopVars, kind, gw, status, todo>>
    BY <1>2 DEF ApiRestart, workerVars, inputVars, gatewayVars
  <2>2. AsksKnown'
    BY <1>2, <2>1 DEF ApiRestart, GatewayInv, AsksKnown, Reached
  <2> QED
    BY <2>1, <2>2, AskRows, AskLeaves
<1>3. CASE WorkerRestart
  <2>1. /\ UNCHANGED <<inputVars, gatewayVars, kind, gw, status>> /\ todo' \subseteq todo
        /\ WorkerCrash
    BY <1>3 DEF WorkerRestart, WorkerCrash, inputVars, gatewayVars
  <2>2. AsksKnown'
    BY <1>3, <2>1 DEF WorkerRestart, GatewayInv, AsksKnown, Reached
  <2>3. RowsReached' /\ PendingKnown'
    BY <2>1, AskRows
  <2>4. ConfirmedStage'
    BY <2>1 DEF WorkerCrash, ConfirmedStage, Queues
  <2>5. ReachedJobs' = ReachedJobs
    BY <2>1, ReachedSame
  <2>6. ASSUME NEW q \in Queues, NEW i \in DOMAIN queue'[q]
        PROVE  queue'[q][i].job \in ReachedJobs
    <3>1. CASE UNCHANGED queue
      BY <2>6, <3>1 DEF GatewayInv, JobsIn
    <3>2. CASE /\ hand[PaymentQ] # Nil /\ stage[PaymentQ] = "confirmed"
               /\ PushFollowUp(ThePayment(PaymentQ), {ActivationQ(ThePayment(PaymentQ))})
      <4> DEFINE p == ThePayment(PaymentQ)
      <4>1. PaymentQ \in Queues
        BY DEF Queues
      <4>2. p \in Payments /\ Reached(p, "CONFIRMED")
        BY <3>2, <4>1, HandReached DEF GatewayInv, ConfirmedStage, ThePayment
      <4>3. FollowUp(p) \in ReachedJobs
        BY <4>2, FollowUpReached
      <4> QED
        BY <1>1, <2>6, <3>2, <4>2, <4>3, FollowUpJobs DEF GatewayInv
    <3> QED
      BY <2>1, <3>1, <3>2 DEF WorkerCrash
  <2>7. JobsIn(ReachedJobs)'
    BY <2>1, <2>5, <2>6 DEF WorkerCrash, WorkerStops, JobsIn
  <2> QED
    BY <2>1, <2>2, <2>3, <2>4, <2>5, <2>7 DEF GatewayInv, gatewayVars
<1> QED
  BY <1>2, <1>3

-----------------------------------------------------------------------------
\* GatewayInv holds at the start.
LEMMA GatewayInit ==
    ASSUME Init
    PROVE  GatewayInv
<1>1. TypeOK
  BY TypeInit
<1>2. RowsReached /\ AsksKnown /\ PendingKnown /\ ConfirmedStage
  BY DEF Init, WorkerInit, QueueInit, RowsReached, AsksKnown, PendingKnown,
         ConfirmedStage, FinalStatus, Queues
<1>3. sent \subseteq ReachedJobs /\ JobsIn(ReachedJobs)
  BY DEF Init, WorkerInit, QueueInit, JobsIn
<1> QED
  BY <1>1, <1>2, <1>3 DEF GatewayInv

\* Every step keeps GatewayInv.
LEMMA GatewayStep ==
    ASSUME GatewayInv, Next
    PROVE  GatewayInv'
<1>1. TypeOK'
  BY TypeStep DEF GatewayInv
<1>2. CASE WorkerAction /\ Keep
  BY <1>1, <1>2, WorkerKeepsGateway
<1>3. CASE AskAction
  BY <1>1, <1>3, StartPollGateway, WriteExpiredGateway, AskGatewayGateway,
     WriteAnswerGateway, PushAnswerGateway, SweepGateway DEF AskAction, CheckStep
<1>4. CASE WorkerRestart \/ ApiRestart
  BY <1>1, <1>4, RestartGateway
<1> QED
  BY <1>2, <1>3, <1>4, NextSplit

\* No final status is invented, for any number of payments, jobs, askers,
\* retries and faults: every settled row, every job the worker can still run
\* and every answer an asker still holds repeats what Platega said.
THEOREM NoStatusInvented == Spec => []GatewayBacked
<1>1. Init => GatewayInv
  BY GatewayInit
<1>2. GatewayInv /\ [Next]_vars => GatewayInv'
  <2>1. ASSUME GatewayInv, UNCHANGED vars
        PROVE  GatewayInv'
    <3>1. TypeOK'
      BY <2>1, WorkerSame DEF GatewayInv, TypeOK, vars, pollVars
    <3>2. UNCHANGED <<queueVars, inputVars, gatewayVars, loopVars, kind, gw,
                      status, poll, todo>>
      BY <2>1 DEF vars, workerVars, pollVars, inputVars, gatewayVars
    <3> QED
      BY <2>1, <3>1, <3>2, AskRows, AsksSame, AskLeaves DEF GatewayInv
  <2> QED
    BY <2>1, GatewayStep
<1> QED
  BY <1>1, <1>2, GatewayInvImplies, PTL DEF Spec
==============================================================================
