------------------------- MODULE PaymentLedger_proofs -------------------------
(***************************************************************************)
(* The payment pipeline implements PaymentLedger, and a payment has at     *)
(* most one copy of each follow-up job, for every set of payments, every   *)
(* retry limit and every set of faults and askers; a row that says         *)
(* CONFIRMED is booked, where no fault can cut its booking short.          *)
(*                                                                         *)
(* None of these is inductive.  What makes them true is how three handlers *)
(* keep each other in step: the key that handlePaymentProcess sets before  *)
(* its transaction (Claims, Books, Undoes), the moment at which a payment  *)
(* passes to its follow-up queues (Awaited, Serves), and the single copy   *)
(* of the job that carries it there through retries, backoffs and crashes  *)
(* (Proper, GrantsCounted, ExpandedOnce).  LedgerInv is their conjunction. *)
(* BookInv says that a key which is set has its booking made or under way. *)
(***************************************************************************)
EXTENDS PaymentSystem_proofs, FiniteSetTheorems

FollowUpQs == {ActivateQ, ExpandQ, RewardQ}

Chargeback(p) == [payment |-> p, status |-> "CHARGEBACKED"]

\* The loop of payment:process holds job j at stage s.
Carries(j, s) ==
    hand[PaymentQ] # Nil /\ hand[PaymentQ].job = j /\ stage[PaymentQ] = s

\* The payment has not passed to its follow-up queues: it is not booked, or
\* booked and not dispatched.
Awaited(p) == ledger[p].credits = 0 \/ Carries(FollowUp(p), "confirmed")

\* What a job for p in queue q may rely on.
Wanted(q, p) ==
    /\ ~Awaited(p)
    /\ q = ActivateQ => kind[p] # "expansion" /\ ledger[p].bonuses = 0
    /\ q = ExpandQ   => kind[p] = "expansion"
    /\ q = RewardQ   => kind[p] # "free" /\ ledger[p].payouts = 0

\* A follow-up queue holds single copies of follow-up jobs that are wanted.
Proper(q) ==
    \A j \in Job :
        /\ Alone(q, j)
        /\ Alive(q, j) => j.status = "CONFIRMED" /\ Wanted(q, j.payment)

\* A transaction of handlePaymentProcess runs under the key of its job, and one
\* that found the row CONFIRMED undoes it for a chargeback, never a cancellation.
Claims ==
    \A j \in Job : Carries(j, "claimed") =>
        /\ j \in once
        /\ j.status # "CONFIRMED" /\ seen = "CONFIRMED" => j.status = "CHARGEBACKED"

\* A payment is booked at most once: the key outlives the transaction.
Books ==
    \A p \in Payments :
        /\ ledger[p].credits \in {0, 1}
        /\ ledger[p].credits = 1 => FollowUp(p) \in once
        /\ Carries(FollowUp(p), "claimed") => ledger[p].credits = 0
        /\ Carries(FollowUp(p), "confirmed") => ledger[p].credits = 1

\* ... and undone at most once, and nothing is taken back before.
Undoes ==
    \A p \in Payments :
        /\ ledger[p].debits \in {0, 1}
        /\ ledger[p].debits = 1 => Chargeback(p) \in once
        /\ Carries(Chargeback(p), "claimed") => ledger[p].debits = 0
        /\ ledger[p].debits = 0 => /\ ledger[p].cuts = 0 /\ ledger[p].clawbacks = 0
                                   /\ reward[p] # "reverted"

\* The referral_rewards row says whether the reward was paid.
Rewards ==
    \A p \in Payments :
        /\ ledger[p].payouts \in {0, 1}
        /\ ledger[p].payouts = 0 <=> reward[p] = "none"

\* Nothing is done for a payment before it passes to its follow-up queues.
Serves ==
    \A p \in Payments : Awaited(p) =>
        ledger[p].grants = 0 /\ ledger[p].bonuses = 0 /\ ledger[p].payouts = 0

\* handleSubscriptionActivate extends once per attempt, and attempts are counted
\* in the job.
GrantsCounted ==
    /\ \A e \in Entry : Waits(ActivateQ, e) => ledger[e.job.payment].grants <= e.retries
    /\ hand[ActivateQ] # Nil =>
           LET n == ledger[ThePayment(ActivateQ)].grants
           IN  /\ n <= hand[ActivateQ].retries + 1
               /\ stage[ActivateQ] = "extended" => n > 0
               /\ stage[ActivateQ] # "extended" => n <= hand[ActivateQ].retries

\* handleDeviceExpansionActivate expands once per key.
ExpandedOnce ==
    /\ \A p \in Payments : kind[p] = "expansion" /\ p \notin devexp => ledger[p].grants = 0
    /\ hand[ExpandQ] # Nil /\ stage[ExpandQ] = "claimed" =>
           /\ ThePayment(ExpandQ) \in devexp
           /\ ledger[ThePayment(ExpandQ)].grants = 0

\* Platega knows nothing of a free payment.
FreeUnsettled == \A p \in Payments : kind[p] = "free" => gw[p] = "NONE"

PayInv   == Claims /\ Books /\ Undoes
ServeInv == /\ Rewards /\ Serves /\ GrantsCounted /\ ExpandedOnce
            /\ \A q \in FollowUpQs : Proper(q)

LedgerInv == GatewayInv /\ FreeUnsettled /\ PayInv /\ ServeInv

-----------------------------------------------------------------------------
(* Facts about states.                                                     *)

\* The four queues.
LEMMA FourQueues ==
    /\ PaymentQ \in Queues /\ ActivateQ \in Queues /\ ExpandQ \in Queues /\ RewardQ \in Queues
    /\ PaymentQ \notin FollowUpQs /\ FollowUpQs = Queues \ {PaymentQ}
    /\ ActivateQ # ExpandQ /\ ActivateQ # RewardQ /\ ExpandQ # RewardQ
    /\ ActivateQ \in FollowUpQs /\ ExpandQ \in FollowUpQs /\ RewardQ \in FollowUpQs
BY DEF Queues, FollowUpQs, PaymentQ, ActivateQ, ExpandQ, RewardQ

\* What LedgerInv says of types.
LEMMA LedgerTypes ==
    ASSUME LedgerInv
    PROVE  /\ QueueTypeOK /\ WorkerTypeOK
           /\ ledger \in [Payments -> LedgerRow]
           /\ reward \in [Payments -> {"none", "immediate", "reverted"}]
           /\ stage \in [Queues -> Stage]
           /\ hand \in [Queues -> Entry \cup {Nil}]
BY DEF LedgerInv, GatewayInv, TypeOK, WorkerTypeOK, QueueTypeOK

\* A CONFIRMED job is the follow-up job of its payment.
LEMMA ConfirmedJob ==
    ASSUME NEW j \in Job, j.status = "CONFIRMED"
    PROVE  j.payment \in Payments /\ j = FollowUp(j.payment)
BY DEF Job, FollowUp

\* The job in the hands of a follow-up loop.
LEMMA HandFacts ==
    ASSUME QueueTypeOK, NEW q \in FollowUpQs, Proper(q), hand[q] # Nil
    PROVE  /\ hand[q] \in Entry /\ hand[q].job \in Job
           /\ ThePayment(q) \in Payments
           /\ hand[q].job = FollowUp(ThePayment(q))
           /\ hand[q].job.status = "CONFIRMED"
           /\ hand[q].retries \in 0..MaxJobRetries
           /\ Wanted(q, ThePayment(q))
           /\ Alone(q, hand[q].job)
           /\ Alive(q, hand[q].job)
<1>1. q \in Queues
  BY FourQueues
<1>2. hand[q] \in Entry /\ hand[q].job \in Job
  BY <1>1, HandType
<1>3. Alive(q, hand[q].job)
  BY DEF Alive, InHand
<1>4. Alone(q, hand[q].job) /\ hand[q].job.status = "CONFIRMED" /\ Wanted(q, hand[q].job.payment)
  BY <1>2, <1>3 DEF Proper
<1>5. ThePayment(q) \in Payments /\ hand[q].job = FollowUp(ThePayment(q))
  BY <1>2, <1>4, ConfirmedJob DEF ThePayment
<1> QED
  BY <1>2, <1>3, <1>4, <1>5 DEF Entry, ThePayment

\* An entry that waits in a follow-up queue; it is not about the payment whose
\* job the loop holds.
LEMMA WaitFacts ==
    ASSUME QueueTypeOK, NEW q \in FollowUpQs, Proper(q), NEW e \in Entry, Waits(q, e)
    PROVE  /\ e.job \in Job /\ e.job.payment \in Payments
           /\ e.job = FollowUp(e.job.payment)
           /\ Wanted(q, e.job.payment)
           /\ hand[q] # Nil => e.job.payment # ThePayment(q)
<1>1. q \in Queues
  BY FourQueues
<1>2. e.job \in Job
  BY DEF Entry
<1>3. Listed(q, e.job) \/ Sleeping(q, e.job)
  BY DEF Waits, Listed, Sleeping
<1>4. Alone(q, e.job) /\ e.job.status = "CONFIRMED" /\ Wanted(q, e.job.payment)
  BY <1>2, <1>3 DEF Proper, Alive
<1>5. e.job.payment \in Payments /\ e.job = FollowUp(e.job.payment)
  BY <1>2, <1>4, ConfirmedJob
<1>6. ASSUME hand[q] # Nil, e.job.payment = ThePayment(q)
      PROVE  FALSE
  <2>1. hand[q].job = e.job
    BY <1>5, <1>6, HandFacts
  <2>2. InHand(q, e.job)
    BY <1>6, <2>1 DEF InHand
  <2> QED
    BY <1>3, <1>4, <2>2 DEF Alone
<1> QED
  BY <1>2, <1>4, <1>5, <1>6

-----------------------------------------------------------------------------
(* What a step may leave alone.                                            *)

\* A step that books, undoes and claims nothing.
LEMMA PayKept ==
    ASSUME PayInv, UNCHANGED once,
           \A j \in Job : Carries(j, "claimed")' => Carries(j, "claimed") /\ seen' = seen,
           \A j \in Job : Carries(j, "confirmed")' => Carries(j, "confirmed"),
           \A p \in Payments : /\ ledger'[p].credits = ledger[p].credits
                               /\ ledger'[p].debits = ledger[p].debits
                               /\ ledger'[p].cuts = ledger[p].cuts
                               /\ ledger'[p].clawbacks = ledger[p].clawbacks
                               /\ reward'[p] = "reverted" => reward[p] = "reverted"
    PROVE  PayInv'
<1>1. Claims'
  BY DEF PayInv, Claims
<1>2. Books'
  <2> SUFFICES ASSUME NEW p \in Payments
               PROVE  /\ ledger'[p].credits \in {0, 1}
                      /\ ledger'[p].credits = 1 => FollowUp(p) \in once
                      /\ Carries(FollowUp(p), "claimed")' => ledger'[p].credits = 0
                      /\ Carries(FollowUp(p), "confirmed")' => ledger'[p].credits = 1
    BY DEF Books, FollowUp
  <2>1. FollowUp(p) \in Job
    BY FollowUpJob
  <2> QED
    BY <2>1 DEF PayInv, Books
<1>3. Undoes'
  <2> SUFFICES ASSUME NEW p \in Payments
               PROVE  /\ ledger'[p].debits \in {0, 1}
                      /\ ledger'[p].debits = 1 => Chargeback(p) \in once
                      /\ Carries(Chargeback(p), "claimed")' => ledger'[p].debits = 0
                      /\ ledger'[p].debits = 0 =>
                             /\ ledger'[p].cuts = 0 /\ ledger'[p].clawbacks = 0
                             /\ reward'[p] # "reverted"
    BY DEF Undoes, Chargeback
  <2>1. Chargeback(p) \in Job
    BY DEF Chargeback, Job, FinalStatus
  <2> QED
    BY <2>1 DEF PayInv, Undoes
<1> QED
  BY <1>1, <1>2, <1>3 DEF PayInv

\* A queue stays proper while its jobs only move or go, and stay wanted.
LEMMA ProperKept ==
    ASSUME NEW q \in FollowUpQs, Proper(q),
           \A j \in Job : Alive(q, j)' => Alive(q, j),
           \A j \in Job : Alone(q, j) => Alone(q, j)',
           \A j \in Job : Alive(q, j)' /\ Wanted(q, j.payment) => Wanted(q, j.payment)'
    PROVE  Proper(q)'
BY DEF Proper

\* A queue that stands still stays proper while its jobs stay wanted.
LEMMA ProperStill ==
    ASSUME NEW q \in FollowUpQs, Proper(q),
           queue'[q] = queue[q], hand'[q] = hand[q], backoff'[q] = backoff[q],
           \A p \in Payments : Wanted(q, p) => Wanted(q, p)'
    PROVE  Proper(q)'
<1>1. q \in Queues
  BY FourQueues
<1>2. \A j \in Job : j.payment \in Payments
  BY DEF Job
<1>3. \A j \in Job : (Alive(q, j)' => Alive(q, j)) /\ (Alone(q, j) => Alone(q, j)')
  BY <1>1, QueueStill
<1>4. \A j \in Job : Wanted(q, j.payment) => Wanted(q, j.payment)'
  BY <1>2
<1> QED
  BY <1>3, <1>4, ProperKept

\* A step that leaves the follow-up queues and what was served alone.
LEMMA ServeKept ==
    ASSUME ServeInv, UNCHANGED <<kind, devexp>>,
           \A q \in FollowUpQs : /\ queue'[q] = queue[q] /\ hand'[q] = hand[q]
                                 /\ backoff'[q] = backoff[q] /\ stage'[q] = stage[q],
           \A p \in Payments : /\ ledger'[p].grants = ledger[p].grants
                               /\ ledger'[p].bonuses = ledger[p].bonuses
                               /\ ledger'[p].payouts = ledger[p].payouts
                               /\ (reward'[p] = "none") <=> (reward[p] = "none"),
           \A p \in Payments : Awaited(p)' => Awaited(p),
           QueueTypeOK
    PROVE  ServeInv'
<1>1. Rewards' /\ Serves'
  BY DEF ServeInv, Rewards, Serves
<1>2. ASSUME NEW q \in FollowUpQs
      PROVE  Proper(q)'
  <2>1. \A p \in Payments : Wanted(q, p) => Wanted(q, p)'
    BY DEF Wanted
  <2>2. Proper(q)
    BY DEF ServeInv
  <2> QED
    BY <2>1, <2>2, ProperStill
<1>3. GrantsCounted'
  <2>1. ASSUME NEW e \in Entry, Waits(ActivateQ, e)'
        PROVE  ledger'[e.job.payment].grants <= e.retries
    <3>1. Waits(ActivateQ, e) /\ e.job.payment \in Payments
      BY <2>1, FourQueues, QueueStill DEF Entry, Job
    <3> QED
      BY <3>1 DEF ServeInv, GrantsCounted
  <2>2. hand[ActivateQ] # Nil => ThePayment(ActivateQ) \in Payments
    BY FourQueues, HandType
  <2> QED
    BY <2>1, <2>2, FourQueues DEF ServeInv, GrantsCounted, ThePayment
<1>4. ExpandedOnce'
  <2>1. hand[ExpandQ] # Nil => ThePayment(ExpandQ) \in Payments
    BY FourQueues, HandType
  <2> QED
    BY <2>1, FourQueues DEF ServeInv, ExpandedOnce, ThePayment
<1> QED
  BY <1>1, <1>2, <1>3, <1>4 DEF ServeInv

\* A step of a follow-up loop that touches one queue and books nothing.
LEMMA FollowUpKept ==
    ASSUME ServeInv, NEW q \in FollowUpQs,
           \A r \in FollowUpQs \ {q} : /\ queue'[r] = queue[r] /\ hand'[r] = hand[r]
                                       /\ backoff'[r] = backoff[r],
           \A j \in Job : Alive(q, j)' => Alive(q, j),
           \A j \in Job : Alone(q, j) => Alone(q, j)',
           \A j \in Job : Alive(q, j)' /\ Wanted(q, j.payment) => Wanted(q, j.payment)',
           \A r \in FollowUpQs \ {q}, p \in Payments : Wanted(r, p) => Wanted(r, p)'
    PROVE  \A r \in FollowUpQs : Proper(r)'
<1> SUFFICES ASSUME NEW r \in FollowUpQs
             PROVE  Proper(r)'
  OBVIOUS
<1>1. Proper(r)
  BY DEF ServeInv
<1>2. CASE r = q
  BY <1>1, <1>2, ProperKept
<1>3. CASE r # q
  BY <1>1, <1>3, ProperStill
<1> QED
  BY <1>2, <1>3

\* A step that neither books a payment nor moves the loop of payment:process
\* makes no payment wait again.
LEMMA AwaitedSame ==
    ASSUME \A p \in Payments : ledger'[p].credits = ledger[p].credits,
           hand'[PaymentQ] = hand[PaymentQ], stage'[PaymentQ] = stage[PaymentQ]
    PROVE  /\ \A j, s : Carries(j, s)' <=> Carries(j, s)
           /\ \A p \in Payments : Awaited(p)' <=> Awaited(p)
<1>1. \A j, s : Carries(j, s)' <=> Carries(j, s)
  BY DEF Carries
<1>2. \A p : FollowUp(p)' = FollowUp(p)
  BY DEF FollowUp
<1> QED
  BY <1>1, <1>2 DEF Awaited, Carries, FollowUp

-----------------------------------------------------------------------------
(* Steps that leave the loops, the keys and what was done alone.           *)

\* A step that at most pushes to payment:process or wakes one of its jobs.
LEMMA QuietKept ==
    ASSUME LedgerInv,
           UNCHANGED <<kind, ledger, reward, once, devexp, hand, stage, seen>>,
           \A q \in FollowUpQs : queue'[q] = queue[q] /\ backoff'[q] = backoff[q]
    PROVE  PayInv' /\ ServeInv'
<1>1. PayInv /\ ServeInv /\ QueueTypeOK
  BY LedgerTypes DEF LedgerInv
<1>2. /\ \A j, s : Carries(j, s)' <=> Carries(j, s)
      /\ \A p \in Payments : Awaited(p)' <=> Awaited(p)
  BY AwaitedSame
<1>3. PayInv'
  BY <1>1, <1>2, PayKept
<1>4. ServeInv'
  BY <1>1, <1>2, ServeKept
<1> QED
  BY <1>3, <1>4

\* A push to payment:process touches no follow-up queue.
LEMMA PushElsewhere ==
    ASSUME NEW j, QueueTypeOK, Push(PaymentQ, j) \/ UNCHANGED queueVars
    PROVE  /\ UNCHANGED hand
           /\ \A q \in FollowUpQs : queue'[q] = queue[q] /\ backoff'[q] = backoff[q]
BY FourQueues DEF Push, queueVars, QueueTypeOK

\* Checkout, Platega and its webhooks book, undo and serve nothing.
LEMMA InputLedger ==
    ASSUME LedgerInv,
           \/ \E p \in Payments : PaidCheckout(p) \/ InitiateFreePayment(p)
           \/ \E p \in Payments, s \in FinalStatus : GatewaySettles(p, s)
           \/ \E h \in Job : WebhookLost(h) \/ EnqueueWebhook(h) \/ FailWebhook(h)
    PROVE  PayInv' /\ ServeInv'
<1>1. QueueTypeOK
  BY LedgerTypes
<1>2. ASSUME NEW p \in Payments, PaidCheckout(p)
      PROVE  PayInv' /\ ServeInv'
  BY <1>2, QuietKept DEF PaidCheckout, InitiatePayment, InitiateDeviceExpansionPayment,
     OpenTransaction, queueVars, inputVars, accountVars, keyVars, loopVars
<1>3. ASSUME NEW p \in Payments, InitiateFreePayment(p)
      PROVE  PayInv' /\ ServeInv'
  <2>1. \E j : Push(PaymentQ, j) \/ UNCHANGED queueVars
    BY <1>3 DEF InitiateFreePayment
  <2> QED
    BY <1>1, <1>3, <2>1, PushElsewhere, QuietKept
       DEF InitiateFreePayment, inputVars, accountVars, keyVars, loopVars
<1>4. ASSUME NEW p \in Payments, NEW s \in FinalStatus, GatewaySettles(p, s)
      PROVE  PayInv' /\ ServeInv'
  BY <1>4, QuietKept DEF GatewaySettles, queueVars, inputVars, accountVars, keyVars, loopVars
<1>5. ASSUME NEW h \in Job, WebhookLost(h) \/ EnqueueWebhook(h) \/ FailWebhook(h)
      PROVE  PayInv' /\ ServeInv'
  <2>1. Push(PaymentQ, h) \/ UNCHANGED queueVars
    BY <1>5 DEF WebhookLost, EnqueueWebhook, FailWebhook
  <2> QED
    BY <1>1, <1>5, <2>1, PushElsewhere, QuietKept
       DEF WebhookLost, EnqueueWebhook, FailWebhook, inputVars, accountVars, keyVars, loopVars
<1> QED
  BY <1>2, <1>3, <1>4, <1>5

\* Whoever asks Platega books, undoes and serves nothing himself.
LEMMA AskLedger ==
    ASSUME LedgerInv, AskAction \/ ApiRestart \/ UNCHANGED vars
    PROVE  PayInv' /\ ServeInv' /\ UNCHANGED <<kind, gw, ledger>>
<1>1. QueueTypeOK
  BY LedgerTypes
<1>2. ASSUME UNCHANGED workerVars
      PROVE  PayInv' /\ ServeInv' /\ UNCHANGED <<kind, gw, ledger>>
  BY <1>2, QuietKept DEF workerVars, queueVars, inputVars, gatewayVars, accountVars,
     keyVars, loopVars
<1>3. ASSUME UNCHANGED <<queueVars, inputVars, gatewayVars, event, accountVars, keyVars, loopVars>>
      PROVE  PayInv' /\ ServeInv' /\ UNCHANGED <<kind, gw, ledger>>
  BY <1>3, QuietKept DEF queueVars, inputVars, gatewayVars, accountVars, keyVars, loopVars
<1>4. ASSUME NEW x \in Askers, CheckStep(x)
      PROVE  PayInv' /\ ServeInv' /\ UNCHANGED <<kind, gw, ledger>>
  <2>1. CASE WriteExpired(x) \/ WriteAnswer(x)
    BY <1>3, <2>1 DEF WriteExpired, WriteAnswer
  <2>2. CASE AskGateway(x)
    BY <1>2, <2>2 DEF AskGateway
  <2>3. CASE PushAnswer(x)
    <3>1. \E j : Push(PaymentQ, j) \/ UNCHANGED queueVars
      BY <2>3 DEF PushAnswer
    <3> QED
      BY <1>1, <2>3, <3>1, PushElsewhere, QuietKept
         DEF PushAnswer, inputVars, gatewayVars, accountVars, keyVars, loopVars
  <2> QED
    BY <1>4, <2>1, <2>2, <2>3 DEF CheckStep
<1>5. ASSUME NEW x \in Askers, NEW p \in Payments, StartPoll(x, p)
      PROVE  UNCHANGED workerVars
  BY <1>5 DEF StartPoll, UserCheckPaymentStatus, AdminCheckPaymentStatus, ReadPending
<1>6. ASSUME NEW p \in Payments,
             TimePasses(p) \/ TouchPayment(p) \/ SyncKeyExpires(p) \/ SyncNext(p)
      PROVE  UNCHANGED workerVars
  BY <1>6 DEF TimePasses, TouchPayment, SyncKeyExpires, SyncNext
<1>7. ListStale \/ ApiRestart \/ UNCHANGED vars => UNCHANGED workerVars
  BY DEF ListStale, ApiRestart, vars
<1>8. CASE MarkExpiredPayments
  BY <1>3, <1>8 DEF MarkExpiredPayments
<1> QED
  BY <1>2, <1>4, <1>5, <1>6, <1>7, <1>8 DEF AskAction

\* A free payment stays unknown to Platega.
LEMMA FreeKept ==
    ASSUME LedgerInv, Next
    PROVE  FreeUnsettled'
<1>1. FreeUnsettled /\ gw \in [Payments -> GatewayStatus]
  BY LedgerTypes DEF LedgerInv, WorkerTypeOK
<1>2. CASE UNCHANGED <<kind, gw>>
  BY <1>1, <1>2 DEF FreeUnsettled
<1>3. ASSUME UNCHANGED kind, NEW p \in Payments, PaidCheckout(p)
      PROVE  FreeUnsettled'
  <2>1. kind[p] # "free" /\ gw' = [gw EXCEPT ![p] = "PENDING"]
    BY <1>3 DEF PaidCheckout, InitiatePayment, InitiateDeviceExpansionPayment, OpenTransaction
  <2> QED
    BY <1>1, <1>3, <2>1 DEF FreeUnsettled
<1>4. ASSUME UNCHANGED kind, NEW p \in Payments, NEW s \in FinalStatus, GatewaySettles(p, s)
      PROVE  FreeUnsettled'
  <2>1. gw[p] # "NONE" /\ gw' = [gw EXCEPT ![p] = s]
    BY <1>4 DEF GatewaySettles, Settlements
  <2> QED
    BY <1>1, <1>4, <2>1 DEF FreeUnsettled
<1>5. CASE WorkerAction /\ Keep
  BY <1>2, <1>3, <1>4, <1>5, WorkerGateway
<1>6. CASE AskAction \/ ApiRestart
  BY <1>2, <1>6, AskLedger
<1>7. CASE WorkerRestart
  BY <1>2, <1>7 DEF WorkerRestart, WorkerCrash, inputVars, gatewayVars
<1> QED
  BY <1>5, <1>6, <1>7, NextSplit

-----------------------------------------------------------------------------
(* The loop of payment:process.                                            *)

\* A step of the loop that only drops, fetches or sets aside its job.
LEMMA LoopIdles ==
    ASSUME LedgerInv, UNCHANGED <<kind, ledger, reward, once, devexp>>,
           \A q \in FollowUpQs : /\ queue'[q] = queue[q] /\ hand'[q] = hand[q]
                                 /\ backoff'[q] = backoff[q] /\ stage'[q] = stage[q],
           stage'[PaymentQ] \notin {"claimed", "confirmed"}
    PROVE  PayInv' /\ ServeInv'
<1>1. \A j : ~Carries(j, "claimed")' /\ ~Carries(j, "confirmed")'
  BY DEF Carries
<1>2. \A p \in Payments : Awaited(p)' => Awaited(p)
  BY <1>1 DEF Awaited, FollowUp, Carries
<1>3. PayInv /\ ServeInv /\ QueueTypeOK
  BY LedgerTypes DEF LedgerInv
<1>4. PayInv'
  BY <1>1, <1>3, PayKept
<1>5. ServeInv'
  BY <1>2, <1>3, ServeKept
<1> QED
  BY <1>4, <1>5

\* BRPOP, a failed handler and the end of a backoff of payment:process.
LEMMA PaymentLoopLedger ==
    ASSUME LedgerInv,
           \/ TakeJob(PaymentQ) \/ HandlerFails(PaymentQ)
           \/ \E e \in Entry : BackoffEnds(PaymentQ, e)
    PROVE  PayInv' /\ ServeInv'
<1>1. /\ queue \in [Queues -> Seq(Entry)] /\ hand \in [Queues -> Entry \cup {Nil}]
      /\ backoff \in [Queues -> [Entry -> Nat]] /\ stage \in [Queues -> Stage]
  BY LedgerTypes DEF QueueTypeOK
<1>2. CASE TakeJob(PaymentQ)
  <2>1. UNCHANGED <<kind, ledger, reward, once, devexp>>
    BY <1>2 DEF TakeJob, inputVars, accountVars, keyVars
  <2>2. stage'[PaymentQ] = "taken"
    BY <1>1, <1>2, FourQueues DEF TakeJob
  <2>3. \A q \in FollowUpQs : /\ queue'[q] = queue[q] /\ hand'[q] = hand[q]
                              /\ backoff'[q] = backoff[q] /\ stage'[q] = stage[q]
    BY <1>1, <1>2, FourQueues DEF TakeJob, Pop
  <2> QED
    BY <2>1, <2>2, <2>3, LoopIdles
<1>3. CASE HandlerFails(PaymentQ)
  <2>1. UNCHANGED <<kind, ledger, reward, once, devexp>>
    BY <1>3 DEF HandlerFails, inputVars, accountVars, keyVars
  <2>2. stage'[PaymentQ] = "idle"
    BY <1>1, <1>3, FourQueues DEF HandlerFails
  <2>3. \A q \in FollowUpQs : /\ queue'[q] = queue[q] /\ hand'[q] = hand[q]
                              /\ backoff'[q] = backoff[q] /\ stage'[q] = stage[q]
    BY <1>1, <1>3, FourQueues DEF HandlerFails, Requeue, BuryLost, Return
  <2> QED
    BY <2>1, <2>2, <2>3, LoopIdles
<1>4. ASSUME NEW e \in Entry, BackoffEnds(PaymentQ, e)
      PROVE  PayInv' /\ ServeInv'
  <2>1. /\ UNCHANGED hand
        /\ \A q \in FollowUpQs : queue'[q] = queue[q] /\ backoff'[q] = backoff[q]
    BY <1>1, <1>4, FourQueues DEF BackoffEnds, Wake, WakeLost
  <2> QED
    BY <1>4, <2>1, QuietKept DEF BackoffEnds, inputVars, accountVars, keyVars, loopVars
<1> QED
  BY <1>2, <1>3, <1>4

\* A row that was read as CONFIRMED belongs to a payment that Platega may charge
\* back, but can no longer cancel.
LEMMA NotCanceled ==
    ASSUME LedgerInv, NEW j \in Job, JobReached(j), status[j.payment] = "CONFIRMED",
           j.status # "CONFIRMED"
    PROVE  j.status = "CHARGEBACKED"
<1>1. j.payment \in Payments /\ j.status \in FinalStatus
  BY DEF Job
<1>2. Reached(j.payment, "CONFIRMED")
  BY <1>1 DEF LedgerInv, GatewayInv, RowsReached, FinalStatus
<1>3. gw[j.payment] = j.status
  BY DEF JobReached, Reached
<1>4. gw[j.payment] # "CANCELED"
  BY <1>1, <1>2 DEF Reached, LedgerInv, FreeUnsettled
<1> QED
  BY <1>1, <1>3, <1>4 DEF FinalStatus

\* The job in the hands of the loop is true.
LEMMA LoopHolds ==
    ASSUME LedgerInv, hand[PaymentQ] # Nil
    PROVE  /\ hand[PaymentQ].job \in Job
           /\ hand[PaymentQ].job.payment \in Payments
           /\ hand[PaymentQ].job.status \in FinalStatus
           /\ JobReached(hand[PaymentQ].job)
BY FourQueues, HandReached DEF LedgerInv, GatewayInv, ReachedJobs

\* EnsureOnce: the key is new, so the payment is not booked (not undone) yet.
LEMMA ClaimPaymentLedger ==
    ASSUME LedgerInv, ClaimPayment
    PROVE  PayInv' /\ ServeInv'
<1> DEFINE k == hand[PaymentQ].job
<1>1. /\ hand[PaymentQ] # Nil /\ stage[PaymentQ] = "taken"
      /\ UNCHANGED <<kind, ledger, reward, devexp>>
      /\ hand \in [Queues -> Entry \cup {Nil}] /\ stage \in [Queues -> Stage]
      /\ \A q \in FollowUpQs : /\ queue'[q] = queue[q] /\ hand'[q] = hand[q]
                               /\ backoff'[q] = backoff[q] /\ stage'[q] = stage[q]
  BY LedgerTypes, FourQueues DEF ClaimPayment, Advance, Finish, Return, queueVars,
     inputVars, accountVars, keyVars
<1>2. CASE Finish(PaymentQ, "taken") /\ UNCHANGED keyVars
  <2>1. stage'[PaymentQ] = "idle" /\ UNCHANGED once
    BY <1>1, <1>2, FourQueues DEF Finish, keyVars
  <2> QED
    BY <1>1, <2>1, LoopIdles
<1>3. CASE /\ Advance(PaymentQ, "taken", "claimed") /\ k \notin once /\ once' = once \cup {k}
           /\ seen' = IF k.status = "CONFIRMED" THEN "NONE" ELSE status[k.payment]
  <2>1. hand' = hand /\ stage'[PaymentQ] = "claimed"
    BY <1>1, <1>3, FourQueues DEF Advance, queueVars
  <2>2. \A j : ~Carries(j, "confirmed")' /\ (Carries(j, "claimed")' => j = k)
    BY <2>1 DEF Carries
  <2>3. k \in Job /\ JobReached(k)
    BY <1>1, LoopHolds
  <2>4. k.status # "CONFIRMED" /\ seen' = "CONFIRMED" => k.status = "CHARGEBACKED"
    BY <1>3, <2>3, NotCanceled
  <2>5. PayInv /\ ServeInv /\ QueueTypeOK
    BY LedgerTypes DEF LedgerInv
  <2>6. Claims'
    <3> SUFFICES ASSUME NEW j \in Job, Carries(j, "claimed")'
                 PROVE  /\ j \in once'
                        /\ j.status # "CONFIRMED" /\ seen' = "CONFIRMED"
                               => j.status = "CHARGEBACKED"
      BY DEF Claims
    <3>1. j = k
      BY <2>2
    <3> QED
      BY <1>3, <2>4, <3>1
  <2>7. Books'
    <3> SUFFICES ASSUME NEW p \in Payments
                 PROVE  /\ ledger[p].credits \in {0, 1}
                        /\ ledger[p].credits = 1 => FollowUp(p) \in once'
                        /\ Carries(FollowUp(p), "claimed")' => ledger[p].credits = 0
                        /\ Carries(FollowUp(p), "confirmed")' => ledger[p].credits = 1
      BY <1>1 DEF Books, FollowUp
    <3>1. /\ ledger[p].credits \in {0, 1}
          /\ ledger[p].credits = 1 => FollowUp(p) \in once
      BY <2>5 DEF PayInv, Books
    <3>2. /\ Carries(FollowUp(p), "claimed")' => FollowUp(p) = k
          /\ ~Carries(FollowUp(p), "confirmed")'
      BY <2>1 DEF Carries, FollowUp
    <3> QED
      BY <1>3, <3>1, <3>2
  <2>8. Undoes'
    <3> SUFFICES ASSUME NEW p \in Payments
                 PROVE  /\ ledger[p].debits \in {0, 1}
                        /\ ledger[p].debits = 1 => Chargeback(p) \in once'
                        /\ Carries(Chargeback(p), "claimed")' => ledger[p].debits = 0
                        /\ ledger[p].debits = 0 =>
                               /\ ledger[p].cuts = 0 /\ ledger[p].clawbacks = 0
                               /\ reward[p] # "reverted"
      BY <1>1 DEF Undoes, Chargeback
    <3>1. /\ ledger[p].debits \in {0, 1}
          /\ ledger[p].debits = 1 => Chargeback(p) \in once
          /\ ledger[p].debits = 0 => /\ ledger[p].cuts = 0 /\ ledger[p].clawbacks = 0
                                     /\ reward[p] # "reverted"
      BY <2>5 DEF PayInv, Undoes
    <3>2. Carries(Chargeback(p), "claimed")' => Chargeback(p) = k
      BY <2>1 DEF Carries, Chargeback
    <3> QED
      BY <1>3, <3>1, <3>2
  <2>9. \A p \in Payments : Awaited(p)' => Awaited(p)
    BY <1>1, <2>1 DEF Awaited, Carries, FollowUp
  <2>10. ServeInv'
    BY <1>1, <2>5, <2>9, ServeKept
  <2> QED
    BY <2>6, <2>7, <2>8, <2>10 DEF PayInv
<1> QED
  BY <1>2, <1>3 DEF ClaimPayment, IsNew

\* Counting up one column of one row leaves the rest of the ledger alone.
LEMMA CountedUp ==
    ASSUME NEW L \in [Payments -> LedgerRow], NEW p \in Payments, NEW M,
           NEW c \in {"credits", "grants", "bonuses", "payouts"},
           M = CASE c = "credits" -> [L EXCEPT ![p].credits = @ + 1]
                 [] c = "grants"  -> [L EXCEPT ![p].grants = @ + 1]
                 [] c = "bonuses" -> [L EXCEPT ![p].bonuses = @ + 1]
                 [] c = "payouts" -> [L EXCEPT ![p].payouts = @ + 1]
    PROVE  /\ \A r \in Payments \ {p} : M[r] = L[r]
           /\ M[p].credits   = IF c = "credits" THEN L[p].credits + 1 ELSE L[p].credits
           /\ M[p].grants    = IF c = "grants"  THEN L[p].grants + 1  ELSE L[p].grants
           /\ M[p].bonuses   = IF c = "bonuses" THEN L[p].bonuses + 1 ELSE L[p].bonuses
           /\ M[p].payouts   = IF c = "payouts" THEN L[p].payouts + 1 ELSE L[p].payouts
           /\ M[p].debits = L[p].debits /\ M[p].cuts = L[p].cuts
           /\ M[p].clawbacks = L[p].clawbacks
<1>1. L[p] \in LedgerRow
  OBVIOUS
<1>2. CASE c = "credits"
  BY <1>1, <1>2 DEF LedgerRow
<1>3. CASE c = "grants"
  BY <1>1, <1>3 DEF LedgerRow
<1>4. CASE c = "bonuses"
  BY <1>1, <1>4 DEF LedgerRow
<1>5. CASE c = "payouts"
  BY <1>1, <1>5 DEF LedgerRow
<1> QED
  BY <1>2, <1>3, <1>4, <1>5

\* The confirming transaction books a payment that is not booked.
LEMMA ConfirmPaymentLedger ==
    ASSUME LedgerInv, ConfirmPayment
    PROVE  PayInv' /\ ServeInv'
<1>1. PICK p : p = ThePayment(PaymentQ)
  OBVIOUS
<1>2. /\ hand[PaymentQ] # Nil /\ stage[PaymentQ] = "claimed"
      /\ hand[PaymentQ].job.status = "CONFIRMED"
      /\ stage' = [stage EXCEPT ![PaymentQ] = "confirmed"]
      /\ UNCHANGED <<queue, hand, backoff, kind, reward, once, devexp>>
      /\ ledger' = [ledger EXCEPT ![p].credits = @ + 1]
  BY <1>1 DEF ConfirmPayment, Advance, queueVars, inputVars, keyVars
<1>3. /\ p \in Payments /\ FollowUp(p) \in Job /\ hand[PaymentQ].job = FollowUp(p)
  BY <1>1, <1>2, LoopHolds, ConfirmedJob DEF ThePayment
<1>4. Carries(FollowUp(p), "claimed")
  BY <1>2, <1>3 DEF Carries
<1>5. PayInv /\ ServeInv /\ QueueTypeOK
  BY LedgerTypes DEF LedgerInv
<1>6. ledger[p].credits = 0 /\ FollowUp(p) \in once
  BY <1>3, <1>4, <1>5 DEF PayInv, Books, Claims
<1>7. /\ \A r \in Payments \ {p} : ledger'[r] = ledger[r]
      /\ ledger'[p].credits = 1 /\ ledger'[p].grants = ledger[p].grants
      /\ ledger'[p].bonuses = ledger[p].bonuses /\ ledger'[p].payouts = ledger[p].payouts
      /\ ledger'[p].debits = ledger[p].debits /\ ledger'[p].cuts = ledger[p].cuts
      /\ ledger'[p].clawbacks = ledger[p].clawbacks
  <2>1. ledger \in [Payments -> LedgerRow]
    BY LedgerTypes
  <2> QED
    BY <1>2, <1>3, <1>6, <2>1, CountedUp
<1>8. stage'[PaymentQ] = "confirmed" /\ \A q \in FollowUpQs : stage'[q] = stage[q]
  BY <1>2, FourQueues, LedgerTypes
<1>9. \A j : ~Carries(j, "claimed")' /\ (Carries(j, "confirmed")' <=> j = FollowUp(p))
  <2> SUFFICES ASSUME NEW j
               PROVE  ~Carries(j, "claimed")' /\ (Carries(j, "confirmed")' <=> j = FollowUp(p))
    OBVIOUS
  <2> QED
    BY <1>2, <1>3, <1>8 DEF Carries
<1>10. \A r \in Payments : FollowUp(r) = FollowUp(p) => r = p
  BY DEF FollowUp
<1>11. Claims'
  BY <1>9 DEF Claims
<1>12. Books'
  <2> SUFFICES ASSUME NEW r \in Payments
               PROVE  /\ ledger'[r].credits \in {0, 1}
                      /\ ledger'[r].credits = 1 => FollowUp(r) \in once
                      /\ Carries(FollowUp(r), "claimed")' => ledger'[r].credits = 0
                      /\ Carries(FollowUp(r), "confirmed")' => ledger'[r].credits = 1
    BY <1>2 DEF Books, FollowUp
  <2>1. CASE r = p
    BY <1>6, <1>7, <1>9, <2>1
  <2>2. CASE r # p
    <3>1. ledger[r].credits \in {0, 1} /\ (ledger[r].credits = 1 => FollowUp(r) \in once)
      BY <1>5 DEF PayInv, Books
    <3> QED
      BY <1>7, <1>9, <1>10, <2>2, <3>1
  <2> QED
    BY <2>1, <2>2
<1>13. Undoes'
  <2>1. \A r \in Payments : /\ ledger'[r].debits = ledger[r].debits
                            /\ ledger'[r].cuts = ledger[r].cuts
                            /\ ledger'[r].clawbacks = ledger[r].clawbacks
    BY <1>7
  <2>2. \A r : ~Carries(Chargeback(r), "claimed")'
    BY <1>8 DEF Carries
  <2> QED
    BY <1>2, <1>5, <2>1, <2>2 DEF PayInv, Undoes, Chargeback
<1>14. \A r \in Payments : Awaited(r)' => Awaited(r)
  <2> SUFFICES ASSUME NEW r \in Payments, Awaited(r)'
               PROVE  Awaited(r)
    OBVIOUS
  <2>1. CASE r = p
    BY <1>6, <2>1 DEF Awaited
  <2>2. CASE r # p
    <3>1. ~Carries(FollowUp(r), "confirmed")'
      BY <1>2, <1>3, <2>2 DEF Carries, FollowUp
    <3> QED
      BY <1>7, <2>2, <3>1 DEF Awaited, Carries, FollowUp
  <2> QED
    BY <2>1, <2>2
<1>15. ServeInv'
  <2>1. \A r \in Payments : /\ ledger'[r].grants = ledger[r].grants
                            /\ ledger'[r].bonuses = ledger[r].bonuses
                            /\ ledger'[r].payouts = ledger[r].payouts
    BY <1>7
  <2> QED
    BY <1>2, <1>5, <1>8, <1>14, <2>1, ServeKept
<1> QED
  BY <1>11, <1>12, <1>13, <1>15 DEF PayInv

\* What undoing a payment for the first time does to the ledger.
LEMMA UndoLedger ==
    ASSUME LedgerInv, NEW p \in Payments, Undo(p), ledger[p].debits = 0
    PROVE  /\ \E cut \in {0, 1}, back \in {0, ledger[p].payouts} :
                  /\ "RewardLookup" \notin Faults => back = ledger[p].payouts
                  /\ ledger' = [ledger EXCEPT ![p] =
                         [ledger[p] EXCEPT !.debits = 1, !.cuts = cut, !.clawbacks = back]]
           /\ \A r \in Payments \ {p} : ledger'[r] = ledger[r] /\ reward'[r] = reward[r]
           /\ reward'[p] = "none" <=> reward[p] = "none"
<1> DEFINE c == IF kind[p] = "expansion" THEN expanded ELSE hasSub
           row == ledger[p]
<1>1. row \in LedgerRow /\ reward \in [Payments -> {"none", "immediate", "reverted"}]
      /\ ledger \in [Payments -> LedgerRow]
  BY LedgerTypes
<1>2. /\ row.cuts = 0 /\ row.clawbacks = 0 /\ reward[p] # "reverted"
      /\ row.payouts \in {0, 1} /\ (row.payouts = 0 <=> reward[p] = "none")
  BY DEF LedgerInv, PayInv, Undoes, ServeInv, Rewards
<1>3. row.payouts = IF reward[p] = "immediate" THEN 1 ELSE 0
  BY <1>1, <1>2
<1>4. PICK b \in Reclaims(p) :
        /\ ledger' = [ledger EXCEPT ![p] = Undone(row, c, b)]
        /\ reward' = [reward EXCEPT ![p] = IF b THEN "reverted" ELSE @]
  BY DEF Undo
<1>5. /\ b \in BOOLEAN /\ (b => reward[p] = "immediate")
      /\ "RewardLookup" \notin Faults => (b <=> reward[p] = "immediate")
  BY <1>4 DEF Reclaims
<1>6. PICK cut \in {0, 1} : cut = IF c THEN 1 ELSE 0
  OBVIOUS
<1>7. PICK back \in {0, row.payouts} : back = IF b THEN 1 ELSE 0
  BY <1>3, <1>5
<1>8. "RewardLookup" \notin Faults => back = row.payouts
  BY <1>3, <1>5, <1>7
<1> HIDE DEF c, row
<1>9. Undone(row, c, b) =
          [row EXCEPT !.debits = 1, !.cuts = cut, !.clawbacks = back]
  <2>1. row.debits = 0
    BY DEF row
  <2>2. Undone(row, c, b) = [row EXCEPT !.debits = 0 + 1, !.cuts = IF c THEN 0 + 1 ELSE 0,
                                        !.clawbacks = IF b THEN 0 + 1 ELSE 0]
    BY <1>1, <1>2, <2>1 DEF Undone, LedgerRow
  <2>3. 0 + 1 = 1
    OBVIOUS
  <2> QED
    BY <1>6, <1>7, <2>2, <2>3
<1>10. ledger' = [ledger EXCEPT ![p] =
          [row EXCEPT !.debits = 1, !.cuts = cut, !.clawbacks = back]]
  BY <1>4, <1>9
<1>11. reward'[p] = "none" <=> reward[p] = "none"
  BY <1>1, <1>4, <1>5
<1> QED
  BY <1>1, <1>4, <1>6, <1>7, <1>8, <1>10, <1>11 DEF row

\* The reverting transaction undoes a payment that is not undone.
LEMMA RevertPaymentLedger ==
    ASSUME LedgerInv, RevertPayment
    PROVE  /\ PayInv' /\ ServeInv'
           /\ \/ UNCHANGED ledger
              \/ \E p \in Payments : gw[p] = "CHARGEBACKED" /\ ledger[p].debits = 0 /\ Undo(p)
<1>1. PICK k : k = hand[PaymentQ].job
  OBVIOUS
<1>2. /\ hand[PaymentQ] # Nil /\ stage[PaymentQ] = "claimed" /\ k.status # "CONFIRMED"
      /\ stage' = [stage EXCEPT ![PaymentQ] = "idle"]
      /\ hand' = [hand EXCEPT ![PaymentQ] = Nil]
      /\ UNCHANGED <<queue, backoff, kind, once, devexp>>
  BY <1>1 DEF RevertPayment, Finish, Return, inputVars, keyVars
<1>3. PayInv /\ ServeInv /\ QueueTypeOK
  BY LedgerTypes DEF LedgerInv
<1>4. k \in Job /\ k.payment \in Payments /\ JobReached(k) /\ Carries(k, "claimed")
  BY <1>1, <1>2, LoopHolds DEF Carries
<1>5. /\ stage'[PaymentQ] = "idle"
      /\ \A q \in FollowUpQs : /\ queue'[q] = queue[q] /\ hand'[q] = hand[q]
                               /\ backoff'[q] = backoff[q] /\ stage'[q] = stage[q]
  BY <1>2, FourQueues, LedgerTypes
<1>6. CASE UNCHANGED <<ledger, reward>>
  BY <1>2, <1>5, <1>6, LoopIdles
<1>7. CASE WasConfirmed /\ Undo(k.payment)
  <2>1. PICK p \in Payments : p = k.payment
    BY <1>4
  <2>2. k.status = "CHARGEBACKED" /\ k \in once
    BY <1>2, <1>3, <1>4, <1>7 DEF PayInv, Claims, WasConfirmed
  <2>3. k = Chargeback(p) /\ gw[p] = "CHARGEBACKED"
    BY <1>4, <2>1, <2>2 DEF Job, Chargeback, JobReached, Reached
  <2>4. ledger[p].debits = 0
    BY <1>3, <1>4, <2>3 DEF PayInv, Undoes
  <2>5. Undo(p)
    BY <1>7, <2>1
  <2>6. PICK cut \in {0, 1}, back \in {0, ledger[p].payouts} :
          /\ "RewardLookup" \notin Faults => back = ledger[p].payouts
          /\ ledger' = [ledger EXCEPT ![p] =
                 [ledger[p] EXCEPT !.debits = 1, !.cuts = cut, !.clawbacks = back]]
    BY <2>4, <2>5, UndoLedger
  <2>7. /\ \A r \in Payments \ {p} : ledger'[r] = ledger[r] /\ reward'[r] = reward[r]
        /\ (reward'[p] = "none") <=> (reward[p] = "none")
    BY <2>4, <2>5, UndoLedger
  <2>8. /\ ledger'[p].debits = 1 /\ ledger'[p].credits = ledger[p].credits
        /\ ledger'[p].grants = ledger[p].grants /\ ledger'[p].bonuses = ledger[p].bonuses
        /\ ledger'[p].payouts = ledger[p].payouts
    BY <2>6, LedgerTypes DEF LedgerRow
  <2>9. \A j : ~Carries(j, "claimed")' /\ ~Carries(j, "confirmed")'
    BY <1>5 DEF Carries
  <2>10. Claims'
    BY <2>9 DEF Claims
  <2>11. Books'
    <3>1. \A r \in Payments : ledger'[r].credits = ledger[r].credits
      BY <2>7, <2>8
    <3>2. \A r : ~Carries(FollowUp(r), "claimed")' /\ ~Carries(FollowUp(r), "confirmed")'
      BY <1>5 DEF Carries
    <3> QED
      BY <1>2, <1>3, <3>1, <3>2 DEF PayInv, Books, FollowUp
  <2>12. Undoes'
    <3> SUFFICES ASSUME NEW r \in Payments
                 PROVE  /\ ledger'[r].debits \in {0, 1}
                        /\ ledger'[r].debits = 1 => Chargeback(r) \in once
                        /\ ledger'[r].debits = 0 =>
                               /\ ledger'[r].cuts = 0 /\ ledger'[r].clawbacks = 0
                               /\ reward'[r] # "reverted"
      BY <1>2, <1>5 DEF Undoes, Chargeback, Carries
    <3>1. CASE r = p
      BY <2>2, <2>3, <2>8, <3>1
    <3>2. CASE r # p
      BY <1>3, <2>7, <3>2 DEF PayInv, Undoes
    <3> QED
      BY <3>1, <3>2
  <2>13. ServeInv'
    <3>1. \A r \in Payments : /\ ledger'[r].grants = ledger[r].grants
                              /\ ledger'[r].bonuses = ledger[r].bonuses
                              /\ ledger'[r].payouts = ledger[r].payouts
                              /\ (reward'[r] = "none") <=> (reward[r] = "none")
      BY <2>7, <2>8
    <3>2. \A r \in Payments : ledger'[r].credits = ledger[r].credits
      BY <2>7, <2>8
    <3>3. \A r \in Payments : Awaited(r)' => Awaited(r)
      BY <1>5, <3>2 DEF Awaited, Carries, FollowUp
    <3> QED
      BY <1>2, <1>3, <1>5, <3>1, <3>3, ServeKept
  <2> QED
    BY <2>3, <2>4, <2>5, <2>10, <2>11, <2>12, <2>13 DEF PayInv
<1>8. \/ WasConfirmed /\ Undo(k.payment)
      \/ UNCHANGED <<ledger, reward>>
  BY <1>1 DEF RevertPayment
<1> QED
  BY <1>6, <1>7, <1>8

\* The follow-up jobs of a payment: see DispatchFollowUps.
FollowUpsOf(p) == {ActivationQ(p)} \cup (IF kind[p] = "free" THEN {} ELSE {RewardQ})

\* A job that carries a payment to its follow-up queues finds none there.
LEMMA NoneYet ==
    ASSUME LedgerInv, NEW p \in Payments, Carries(FollowUp(p), "confirmed")
    PROVE  /\ \A q \in FollowUpQs : ~Alive(q, FollowUp(p))
           /\ ledger[p].credits = 1 /\ ledger[p].grants = 0
           /\ ledger[p].bonuses = 0 /\ ledger[p].payouts = 0
           /\ FollowUpsOf(p) \subseteq FollowUpQs
<1>1. Awaited(p) /\ FollowUp(p) \in Job /\ FollowUp(p).payment = p
  BY FollowUpJob DEF Awaited, FollowUp
<1>2. \A q \in FollowUpQs : ~Alive(q, FollowUp(p))
  BY <1>1 DEF LedgerInv, ServeInv, Proper, Wanted
<1>3. ledger[p].credits = 1 /\ ledger[p].grants = 0 /\ ledger[p].bonuses = 0
      /\ ledger[p].payouts = 0
  BY <1>1 DEF LedgerInv, PayInv, Books, ServeInv, Serves
<1>4. FollowUpsOf(p) \subseteq FollowUpQs
  BY FourQueues DEF FollowUpsOf, ActivationQ
<1> QED
  BY <1>2, <1>3, <1>4

\* The loop of payment:process lets go of a booked payment, having pushed the
\* jobs of S, and of all its copies elsewhere no queue has more than before.
LEMMA LetGo ==
    ASSUME LedgerInv, UNCHANGED <<kind, ledger, reward, once, devexp>>,
           stage'[PaymentQ] = "idle",
           NEW p, NEW S \in SUBSET FollowUpQs,
           S = {} \/ (p \in Payments /\ Carries(FollowUp(p), "confirmed") /\ S \subseteq FollowUpsOf(p)),
           \A q \in FollowUpQs : /\ \A j \in Job : Alive(q, j)' => Alive(q, j) \/ (q \in S /\ j = FollowUp(p))
                                 /\ \A j \in Job : Alone(q, j) => Alone(q, j)'
                                 /\ \/ hand'[q] = hand[q] /\ stage'[q] = stage[q]
                                    \/ hand'[q] = Nil,
           \A f \in Entry : Waits(ActivateQ, f)' => \/ Waits(ActivateQ, f)
                                                    \/ (S # {} /\ f = [job |-> FollowUp(p), retries |-> 0])
    PROVE  PayInv' /\ ServeInv'
<1>1. PayInv /\ ServeInv /\ QueueTypeOK
  BY LedgerTypes DEF LedgerInv
<1>2. \A j : ~Carries(j, "claimed")' /\ ~Carries(j, "confirmed")'
  BY DEF Carries
<1>3. PayInv'
  BY <1>1, <1>2, PayKept
<1>4. \A r \in Payments : Awaited(r)' <=> ledger[r].credits = 0
  BY DEF Awaited, Carries
<1>5. \A r \in Payments : Awaited(r)' => Awaited(r)
  BY <1>4 DEF Awaited
<1>6. Rewards' /\ Serves'
  BY <1>1, <1>5 DEF ServeInv, Rewards, Serves
<1>7. ASSUME NEW q \in FollowUpQs
      PROVE  Proper(q)'
  <2> SUFFICES ASSUME NEW j \in Job
               PROVE  /\ Alone(q, j)'
                      /\ Alive(q, j)' => j.status = "CONFIRMED" /\ Wanted(q, j.payment)'
    BY DEF Proper
  <2>1. /\ Alone(q, j) /\ (Alive(q, j) => j.status = "CONFIRMED" /\ Wanted(q, j.payment))
        /\ j.payment \in Payments
    BY <1>1 DEF ServeInv, Proper, Job
  <2>2. Wanted(q, j.payment) => Wanted(q, j.payment)'
    BY <1>5, <2>1 DEF Wanted
  <2>3. ASSUME q \in S, j = FollowUp(p)
        PROVE  j.status = "CONFIRMED" /\ Wanted(q, j.payment)'
    <3>1. p \in Payments /\ Carries(FollowUp(p), "confirmed") /\ q \in FollowUpsOf(p)
      BY <2>3
    <3>2. j.payment = p /\ j.status = "CONFIRMED"
      BY <2>3 DEF FollowUp
    <3>3. ledger[p].credits = 1 /\ ledger[p].bonuses = 0 /\ ledger[p].payouts = 0
      BY <3>1, NoneYet
    <3>4. ~Awaited(p)'
      BY <1>4, <3>1, <3>3
    <3>5. /\ q = ActivateQ => kind[p] # "expansion"
          /\ q = ExpandQ => kind[p] = "expansion"
          /\ q = RewardQ => kind[p] # "free"
      BY <3>1, FourQueues DEF FollowUpsOf, ActivationQ
    <3>6. Wanted(q, p)'
      BY <3>3, <3>4, <3>5 DEF Wanted
    <3> QED
      BY <3>2, <3>6
  <2> QED
    BY <2>1, <2>2, <2>3
<1>8. GrantsCounted'
  <2>1. ASSUME NEW f \in Entry, Waits(ActivateQ, f)'
        PROVE  ledger[f.job.payment].grants <= f.retries
    <3>1. CASE Waits(ActivateQ, f)
      BY <1>1, <3>1 DEF ServeInv, GrantsCounted
    <3>2. CASE S # {} /\ f = [job |-> FollowUp(p), retries |-> 0]
      BY <3>2, NoneYet DEF FollowUp
    <3> QED
      BY <2>1, <3>1, <3>2
  <2> QED
    BY <1>1, <2>1, FourQueues DEF ServeInv, GrantsCounted, ThePayment
<1>9. ExpandedOnce'
  BY <1>1, FourQueues DEF ServeInv, ExpandedOnce, ThePayment
<1> QED
  BY <1>3, <1>6, <1>7, <1>8, <1>9 DEF ServeInv

\* The pushes after the confirming commit, some of which may fail.
LEMMA DispatchLedger ==
    ASSUME LedgerInv, DispatchFollowUps
    PROVE  PayInv' /\ ServeInv'
<1>1. PICK p : p = ThePayment(PaymentQ)
  OBVIOUS
<1>2. PICK S \in SUBSET FollowUpsOf(p) : PushFollowUp(p, S)
  BY <1>1 DEF DispatchFollowUps, FollowUpsOf
<1>3. /\ hand[PaymentQ] # Nil /\ stage[PaymentQ] = "confirmed"
      /\ hand' = [hand EXCEPT ![PaymentQ] = Nil] /\ stage' = [stage EXCEPT ![PaymentQ] = "idle"]
      /\ UNCHANGED <<backoff, kind, ledger, reward, once, devexp>>
  BY DEF DispatchFollowUps, inputVars, accountVars, keyVars
<1>4. hand[PaymentQ].job.status = "CONFIRMED"
  BY <1>3 DEF LedgerInv, GatewayInv, ConfirmedStage
<1>5. p \in Payments /\ FollowUp(p) \in Job /\ Carries(FollowUp(p), "confirmed")
  BY <1>1, <1>3, <1>4, LoopHolds, ConfirmedJob DEF ThePayment, Carries
<1>6. S \in SUBSET FollowUpQs /\ S \subseteq FollowUpsOf(p)
  BY <1>5, NoneYet
<1> DEFINE e == [job |-> FollowUp(p), retries |-> 0]
<1>7. e \in Entry /\ e.job = FollowUp(p)
  BY <1>5, NewEntry
<1>8. stage'[PaymentQ] = "idle"
  BY <1>3, FourQueues, LedgerTypes
<1>9. ASSUME NEW q \in FollowUpQs
      PROVE  /\ \A j \in Job : Alive(q, j)' => Alive(q, j) \/ (q \in S /\ j = FollowUp(p))
             /\ \A j \in Job : Alone(q, j) => Alone(q, j)'
             /\ hand'[q] = hand[q] /\ stage'[q] = stage[q]
             /\ \A f \in Entry : Waits(q, f)' => Waits(q, f) \/ (q \in S /\ f = e)
  <2>1. q \in Queues /\ QueueTypeOK /\ ~Alive(q, FollowUp(p))
    BY <1>5, FourQueues, LedgerTypes, NoneYet
  <2>2. hand'[q] = hand[q] /\ stage'[q] = stage[q] /\ backoff'[q] = backoff[q]
    BY <1>3, FourQueues, LedgerTypes
  <2>3. CASE q \in S
    <3>1. queue'[q] = Append(queue[q], e)
      BY <1>2, <2>1, <2>3 DEF PushFollowUp
    <3> HIDE DEF e
    <3>2. /\ \A f \in Entry : Waits(q, f)' => Waits(q, f) \/ f = e
          /\ \A j : Alive(q, j)' <=> Alive(q, j) \/ j = e.job
          /\ \A j : Alone(q, j) /\ j # e.job => Alone(q, j)'
          /\ ~Alive(q, e.job) => Alone(q, e.job)'
      BY <1>7, <2>1, <2>2, <3>1, AppendCopies
    <3>3. ASSUME NEW j \in Job, Alone(q, j)
          PROVE  Alone(q, j)'
      <4>1. CASE j = e.job
        BY <1>7, <2>1, <3>2, <4>1
      <4>2. CASE j # e.job
        BY <3>2, <3>3, <4>2
      <4> QED
        BY <4>1, <4>2
    <3> QED
      BY <1>7, <2>2, <2>3, <3>2, <3>3
  <2>4. CASE q \notin S
    <3>1. queue'[q] = queue[q]
      BY <1>2, <2>1, <2>4 DEF PushFollowUp
    <3> QED
      BY <2>1, <2>2, <3>1, QueueStill
  <2> QED
    BY <2>3, <2>4
<1> QED
  BY <1>3, <1>5, <1>6, <1>8, <1>9, FourQueues, LetGo

\* A crash drops what the worker held in memory, between the two pushes too.
LEMMA CrashLedger ==
    ASSUME LedgerInv, WorkerCrash
    PROVE  PayInv' /\ ServeInv'
<1>1. PICK p : p = ThePayment(PaymentQ)
  OBVIOUS
<1>2. UNCHANGED <<kind, ledger, reward, once, devexp>> /\ WorkerStops
      /\ stage' = [q \in Queues |-> "idle"]
  BY DEF WorkerCrash, inputVars, accountVars, keyVars
<1>3. stage'[PaymentQ] = "idle" /\ \A q \in FollowUpQs : hand'[q] = Nil
  BY <1>2, FourQueues DEF WorkerStops
<1> DEFINE e == [job |-> FollowUp(p), retries |-> 0]
<1>4. CASE UNCHANGED queue
  <2>1. ASSUME NEW q \in FollowUpQs
        PROVE  /\ \A j \in Job : Alive(q, j)' => Alive(q, j)
               /\ \A j \in Job : Alone(q, j) => Alone(q, j)'
               /\ \A f \in Entry : Waits(q, f)' => Waits(q, f)
    <3>1. q \in Queues /\ QueueTypeOK /\ queue'[q] = queue[q]
      BY <1>4, FourQueues, LedgerTypes
    <3>2. CASE Entry = {}
      BY <1>2, <3>1, <3>2 DEF WorkerStops, Alive, Listed, InHand, Sleeping,
         Alone, ListedOnce, SleepsOnce
    <3>3. CASE Entry # {}
      <4>1. PICK g : g \in Entry
        BY <3>3
      <4> QED
        BY <1>2, <3>1, <4>1, StopCopies
    <3> QED
      BY <3>2, <3>3
  <2> QED
    BY <1>2, <1>3, <2>1, FourQueues, LetGo
<1>5. CASE /\ hand[PaymentQ] # Nil /\ stage[PaymentQ] = "confirmed"
           /\ PushFollowUp(p, {ActivationQ(p)})
  <2>1. hand[PaymentQ].job.status = "CONFIRMED"
    BY <1>5 DEF LedgerInv, GatewayInv, ConfirmedStage
  <2>2. p \in Payments /\ FollowUp(p) \in Job /\ Carries(FollowUp(p), "confirmed")
    BY <1>1, <1>5, <2>1, LoopHolds, ConfirmedJob DEF ThePayment, Carries
  <2>3. {ActivationQ(p)} \in SUBSET FollowUpQs /\ {ActivationQ(p)} \subseteq FollowUpsOf(p)
    BY <2>2, NoneYet DEF FollowUpsOf
  <2>4. e \in Entry /\ e.job = FollowUp(p)
    BY <2>2, NewEntry
  <2>5. ASSUME NEW q \in FollowUpQs
        PROVE  /\ \A j \in Job : Alive(q, j)' => Alive(q, j) \/ (q \in {ActivationQ(p)} /\ j = FollowUp(p))
               /\ \A j \in Job : Alone(q, j) => Alone(q, j)'
               /\ \A f \in Entry : Waits(q, f)' => Waits(q, f) \/ f = e
    <3>1. q \in Queues /\ QueueTypeOK /\ ~Alive(q, e.job)
      BY <2>2, <2>4, FourQueues, LedgerTypes, NoneYet
    <3>2. queue'[q] = IF q = ActivationQ(p) THEN Append(queue[q], e) ELSE queue[q]
      BY <1>5, <3>1 DEF PushFollowUp
    <3> HIDE DEF e
    <3> QED
      BY <1>2, <2>4, <3>1, <3>2, StopCopies
  <2> QED
    BY <1>2, <1>3, <2>2, <2>3, <2>5, FourQueues, LetGo
<1> QED
  BY <1>1, <1>4, <1>5 DEF WorkerCrash

-----------------------------------------------------------------------------
(* The loops of the follow-up queues.                                      *)

\* Serves survives a step that serves only payments that passed.
LEMMA ServesKept ==
    ASSUME Serves, \A p \in Payments : Awaited(p)' <=> Awaited(p),
           \A p \in Payments : Awaited(p) => /\ ledger'[p].grants = ledger[p].grants
                                             /\ ledger'[p].bonuses = ledger[p].bonuses
                                             /\ ledger'[p].payouts = ledger[p].payouts
    PROVE  Serves'
BY DEF Serves

\* BRPOP, a failed handler and the end of a backoff of a follow-up queue.
LEMMA FollowUpLoopLedger ==
    ASSUME LedgerInv, NEW q \in FollowUpQs,
           TakeJob(q) \/ HandlerFails(q) \/ \E e \in Entry : BackoffEnds(q, e)
    PROVE  PayInv' /\ ServeInv'
<1>1. /\ q \in Queues /\ q # PaymentQ /\ PaymentQ \in Queues /\ QueueTypeOK
      /\ queue \in [Queues -> Seq(Entry)] /\ hand \in [Queues -> Entry \cup {Nil}]
      /\ backoff \in [Queues -> [Entry -> Nat]] /\ stage \in [Queues -> Stage]
  BY FourQueues, LedgerTypes DEF QueueTypeOK
<1>2. UNCHANGED <<kind, ledger, reward, once, devexp, seen>>
  BY <1>1 DEF TakeJob, HandlerFails, BackoffEnds, inputVars, accountVars, keyVars, loopVars
<1>3. /\ hand'[PaymentQ] = hand[PaymentQ] /\ stage'[PaymentQ] = stage[PaymentQ]
      /\ \A r \in FollowUpQs \ {q} : /\ queue'[r] = queue[r] /\ hand'[r] = hand[r]
                                     /\ backoff'[r] = backoff[r] /\ stage'[r] = stage[r]
  <2>1. CASE TakeJob(q)
    BY <1>1, <2>1, FourQueues DEF TakeJob, Pop
  <2>2. CASE HandlerFails(q)
    BY <1>1, <2>2, FourQueues DEF HandlerFails, Requeue, BuryLost, Return
  <2>3. CASE \E e \in Entry : BackoffEnds(q, e)
    BY <1>1, <2>3, FourQueues DEF BackoffEnds, Wake, WakeLost, loopVars
  <2> QED
    BY <2>1, <2>2, <2>3
<1>4. PayInv /\ ServeInv
  BY DEF LedgerInv
<1>5. /\ \A j, s : Carries(j, s)' <=> Carries(j, s)
      /\ \A p \in Payments : Awaited(p)' <=> Awaited(p)
  BY <1>2, <1>3, AwaitedSame
<1>6. PayInv'
  BY <1>2, <1>4, <1>5, PayKept
<1>7. Rewards' /\ Serves'
  BY <1>2, <1>4, <1>5, ServesKept DEF ServeInv, Rewards
<1>8. /\ \A j \in Job : Alive(q, j)' => Alive(q, j)
      /\ \A j \in Job : Alone(q, j) => Alone(q, j)'
      /\ \A f \in Entry : Waits(q, f)' =>
            \/ Waits(q, f)
            \/ HandlerFails(q) /\ MayRetry(hand[q]) /\ f = Retried(hand[q])
      /\ \/ /\ hand'[q] \in Entry /\ hand'[q] # Nil /\ Waits(q, hand'[q])
            /\ stage'[q] = "taken"
         \/ hand'[q] = Nil
         \/ hand'[q] = hand[q] /\ stage'[q] = stage[q]
  <2>1. CASE TakeJob(q)
    BY <1>1, <2>1, PopCopies DEF TakeJob
  <2>2. CASE HandlerFails(q)
    BY <1>1, <2>2, RequeueCopies, ReturnCopies DEF HandlerFails, BuryLost
  <2>3. ASSUME NEW e \in Entry, BackoffEnds(q, e)
        PROVE  /\ \A j \in Job : Alive(q, j)' => Alive(q, j)
               /\ \A j \in Job : Alone(q, j) => Alone(q, j)'
               /\ \A f \in Entry : Waits(q, f)' => Waits(q, f)
               /\ hand'[q] = hand[q] /\ stage'[q] = stage[q]
    <3>1. Wake(q, e) \/ WakeLost(q, e)
      BY <2>3 DEF BackoffEnds
    <3>2. hand'[q] = hand[q] /\ stage'[q] = stage[q]
      BY <2>3, <3>1 DEF BackoffEnds, Wake, WakeLost, loopVars
    <3> QED
      BY <1>1, <3>1, <3>2, WakeCopies
  <2> QED
    BY <2>1, <2>2, <2>3
<1>9. \A r \in FollowUpQs : Proper(r)'
  <2>1. \A r \in FollowUpQs, p \in Payments : Wanted(r, p) => Wanted(r, p)'
    BY <1>2, <1>5 DEF Wanted
  <2>2. \A j \in Job : j.payment \in Payments
    BY DEF Job
  <2> QED
    BY <1>3, <1>4, <1>8, <2>1, <2>2, FollowUpKept
<1>10. GrantsCounted'
  <2>1. GrantsCounted
    BY <1>4 DEF ServeInv
  <2>2. CASE q # ActivateQ
    <3>1. /\ hand'[ActivateQ] = hand[ActivateQ] /\ stage'[ActivateQ] = stage[ActivateQ]
          /\ \A f : Waits(ActivateQ, f)' <=> Waits(ActivateQ, f)
      BY <1>3, <2>2, FourQueues, QueueStill
    <3> QED
      BY <1>2, <2>1, <3>1 DEF GrantsCounted, ThePayment
  <2>3. CASE q = ActivateQ
    <3>1. ASSUME NEW f \in Entry, Waits(ActivateQ, f)'
          PROVE  ledger'[f.job.payment].grants <= f.retries
      <4>1. CASE Waits(ActivateQ, f)
        BY <1>2, <2>1, <4>1 DEF GrantsCounted
      <4>2. CASE HandlerFails(q) /\ MayRetry(hand[q]) /\ f = Retried(hand[q])
        <5>1. hand[q] # Nil /\ hand[q] \in Entry
          BY <1>1, <4>2 DEF HandlerFails
        <5>2. f.job.payment = ThePayment(q) /\ f.retries = hand[q].retries + 1
          BY <4>2, <5>1 DEF Retried, Entry, ThePayment
        <5> QED
          BY <1>2, <2>1, <2>3, <5>1, <5>2 DEF GrantsCounted
      <4> QED
        BY <1>8, <2>3, <3>1, <4>1, <4>2
    <3>2. CASE hand'[q] \in Entry /\ hand'[q] # Nil /\ Waits(q, hand'[q]) /\ stage'[q] = "taken"
      <4>1. ledger[hand'[q].job.payment].grants <= hand'[q].retries
        BY <2>1, <2>3, <3>2 DEF GrantsCounted
      <4>2. /\ hand'[q].job.payment \in Payments /\ hand'[q].retries \in Nat
            /\ ledger[hand'[q].job.payment].grants \in Nat
        BY <3>2, LedgerTypes, QueueAssumption DEF Entry, Job, LedgerRow
      <4> QED
        BY <1>2, <2>3, <3>1, <3>2, <4>1, <4>2 DEF GrantsCounted, ThePayment
    <3>3. CASE hand'[q] = Nil
      BY <2>3, <3>1, <3>3 DEF GrantsCounted
    <3>4. CASE hand'[q] = hand[q] /\ stage'[q] = stage[q]
      BY <1>2, <2>1, <2>3, <3>1, <3>4 DEF GrantsCounted, ThePayment
    <3> QED
      BY <1>8, <3>2, <3>3, <3>4
  <2> QED
    BY <2>2, <2>3
<1>11. ExpandedOnce'
  <2>1. ExpandedOnce
    BY <1>4 DEF ServeInv
  <2>2. \/ hand'[ExpandQ] = hand[ExpandQ] /\ stage'[ExpandQ] = stage[ExpandQ]
        \/ hand'[ExpandQ] = Nil
        \/ stage'[ExpandQ] = "taken"
    BY <1>3, <1>8, FourQueues
  <2> QED
    BY <1>2, <2>1, <2>2 DEF ExpandedOnce, ThePayment
<1> QED
  BY <1>6, <1>7, <1>9, <1>10, <1>11 DEF ServeInv

\* A follow-up handler that returns: its payment has no job left in the queue.
LEMMA ReturnFacts ==
    ASSUME LedgerInv, NEW q \in FollowUpQs, NEW from, Finish(q, from)
    PROVE  /\ hand[q] # Nil /\ stage[q] = from
           /\ hand'[q] = Nil /\ stage'[q] = "idle"
           /\ hand'[PaymentQ] = hand[PaymentQ] /\ stage'[PaymentQ] = stage[PaymentQ]
           /\ \A r \in FollowUpQs \ {q} : /\ queue'[r] = queue[r] /\ hand'[r] = hand[r]
                                          /\ backoff'[r] = backoff[r] /\ stage'[r] = stage[r]
           /\ \A j \in Job : Alive(q, j)' => Alive(q, j)
           /\ \A j \in Job : Alone(q, j) => Alone(q, j)'
           /\ \A j \in Job : Alive(q, j)' => j.payment # ThePayment(q)
           /\ \A r \in FollowUpQs, f \in Entry : Waits(r, f)' => Waits(r, f)
<1>1. /\ q \in Queues /\ q # PaymentQ /\ PaymentQ \in Queues /\ QueueTypeOK
      /\ queue \in [Queues -> Seq(Entry)] /\ hand \in [Queues -> Entry \cup {Nil}]
      /\ backoff \in [Queues -> [Entry -> Nat]] /\ stage \in [Queues -> Stage]
  BY FourQueues, LedgerTypes DEF QueueTypeOK
<1>2. /\ hand[q] # Nil /\ stage[q] = from /\ Return(q)
      /\ stage' = [stage EXCEPT ![q] = "idle"]
      /\ hand' = [hand EXCEPT ![q] = Nil] /\ UNCHANGED <<queue, backoff>>
  BY DEF Finish, Return
<1>3. /\ hand'[q] = Nil /\ stage'[q] = "idle"
      /\ hand'[PaymentQ] = hand[PaymentQ] /\ stage'[PaymentQ] = stage[PaymentQ]
      /\ \A r \in FollowUpQs \ {q} : /\ queue'[r] = queue[r] /\ hand'[r] = hand[r]
                                     /\ backoff'[r] = backoff[r] /\ stage'[r] = stage[r]
  BY <1>1, <1>2, FourQueues
<1>4. Proper(q)
  BY DEF LedgerInv, ServeInv
<1>5. ASSUME NEW j \in Job, Alive(q, j)'
      PROVE  j.payment # ThePayment(q)
  <2>1. Alone(q, j) /\ j.status = "CONFIRMED" /\ j = FollowUp(j.payment)
    BY <1>1, <1>2, <1>4, <1>5, ReturnCopies, ConfirmedJob DEF Proper
  <2>2. j # hand[q].job
    BY <1>1, <1>2, <1>5, <2>1, ReturnCopies
  <2> QED
    BY <1>2, <1>1, <1>4, <2>1, <2>2, HandFacts
<1>6. \A r \in FollowUpQs, f \in Entry : Waits(r, f)' => Waits(r, f)
  BY <1>2 DEF Waits
<1> QED
  BY <1>1, <1>2, <1>3, <1>5, <1>6, ReturnCopies

\* Each attempt to activate extends the subscription once.
LEMMA ExtendLedger ==
    ASSUME LedgerInv, ExtendSubscription
    PROVE  PayInv' /\ ServeInv'
<1>1. PICK p : p = ThePayment(ActivateQ)
  OBVIOUS
<1>2. /\ hand[ActivateQ] # Nil /\ stage[ActivateQ] = "taken"
      /\ stage' = [stage EXCEPT ![ActivateQ] = "extended"]
      /\ UNCHANGED <<queue, hand, backoff, kind, reward, once, devexp, seen>>
      /\ ledger' = [ledger EXCEPT ![p].grants = @ + 1]
  BY <1>1 DEF ExtendSubscription, Advance, queueVars, inputVars, keyVars
<1>3. PayInv /\ ServeInv /\ QueueTypeOK /\ Proper(ActivateQ) /\ Proper(ExpandQ)
  BY LedgerTypes, FourQueues DEF LedgerInv, ServeInv
<1>4. p \in Payments /\ Wanted(ActivateQ, p) /\ hand[ActivateQ].retries \in Nat
  BY <1>1, <1>2, <1>3, HandFacts, FourQueues, QueueAssumption
<1>5. /\ \A r \in Payments \ {p} : ledger'[r] = ledger[r]
      /\ ledger'[p].grants = ledger[p].grants + 1 /\ ledger[p].grants \in Nat
      /\ \A r \in Payments : /\ ledger'[r].credits = ledger[r].credits
                             /\ ledger'[r].bonuses = ledger[r].bonuses
                             /\ ledger'[r].payouts = ledger[r].payouts
                             /\ ledger'[r].debits = ledger[r].debits
                             /\ ledger'[r].cuts = ledger[r].cuts
                             /\ ledger'[r].clawbacks = ledger[r].clawbacks
  <2>1. ledger \in [Payments -> LedgerRow]
    BY LedgerTypes
  <2>2. ledger[p].grants \in Nat
    BY <1>4, <2>1 DEF LedgerRow
  <2> QED
    BY <1>2, <1>4, <2>1, <2>2, CountedUp
<1>6. /\ stage'[ActivateQ] = "extended" /\ stage'[PaymentQ] = stage[PaymentQ]
      /\ stage'[ExpandQ] = stage[ExpandQ]
  BY <1>2, FourQueues, LedgerTypes
<1>7. /\ \A j, s : Carries(j, s)' <=> Carries(j, s)
      /\ \A r \in Payments : Awaited(r)' <=> Awaited(r)
  BY <1>2, <1>5, <1>6, AwaitedSame
<1>8. PayInv'
  BY <1>2, <1>3, <1>5, <1>7, PayKept
<1>9. Rewards' /\ Serves'
  BY <1>2, <1>3, <1>4, <1>5, <1>7, ServesKept DEF ServeInv, Rewards, Wanted
<1>10. ASSUME NEW q \in FollowUpQs
       PROVE  Proper(q)'
  <2>1. \A r \in Payments : Wanted(q, r) => Wanted(q, r)'
    BY <1>2, <1>5, <1>7 DEF Wanted
  <2> QED
    BY <1>2, <1>3, <2>1, ProperStill DEF ServeInv
<1>11. GrantsCounted'
  <2>1. ASSUME NEW f \in Entry, Waits(ActivateQ, f)'
        PROVE  ledger'[f.job.payment].grants <= f.retries
    <3>1. Waits(ActivateQ, f)
      BY <1>2, <2>1 DEF Waits
    <3>2. f.job.payment \in Payments \ {p}
      BY <1>1, <1>2, <1>3, <3>1, WaitFacts, FourQueues
    <3> QED
      BY <1>3, <1>5, <3>1, <3>2 DEF ServeInv, GrantsCounted
  <2>2. ledger[p].grants <= hand[ActivateQ].retries
    BY <1>1, <1>2, <1>3 DEF ServeInv, GrantsCounted
  <2>3. ThePayment(ActivateQ)' = p /\ hand'[ActivateQ] = hand[ActivateQ]
    BY <1>1, <1>2 DEF ThePayment
  <2>4. /\ ledger'[p].grants <= hand[ActivateQ].retries + 1 /\ ledger'[p].grants > 0
    BY <1>4, <1>5, <2>2
  <2> QED
    BY <1>6, <2>1, <2>3, <2>4 DEF GrantsCounted
<1>12. ExpandedOnce'
  <2>1. kind[p] # "expansion"
    BY <1>4 DEF Wanted
  <2>2. ExpandedOnce
    BY <1>3 DEF ServeInv
  <2>3. ASSUME hand[ExpandQ] # Nil
        PROVE  ThePayment(ExpandQ) \in Payments \ {p}
    BY <1>3, <2>1, <2>3, HandFacts, FourQueues DEF Wanted
  <2>4. \A r \in Payments : kind[r] = "expansion" => ledger'[r].grants = ledger[r].grants
    BY <1>5, <2>1
  <2> QED
    BY <1>2, <1>5, <1>6, <2>2, <2>3, <2>4 DEF ExpandedOnce, ThePayment
<1> QED
  BY <1>8, <1>9, <1>10, <1>11, <1>12 DEF ServeInv

\* The bonus is paid, or fails for good, when its job leaves the queue.
LEMMA BonusLedger ==
    ASSUME LedgerInv, CreditBonus
    PROVE  PayInv' /\ ServeInv'
<1>1. PICK p : p = ThePayment(ActivateQ)
  OBVIOUS
<1>2. /\ Finish(ActivateQ, "extended")
      /\ UNCHANGED <<kind, reward, once, devexp, seen>>
      /\ ledger' = [ledger EXCEPT ![p].bonuses = @ + 1] \/ ledger' = ledger
  BY <1>1 DEF CreditBonus, inputVars, keyVars
<1>3. PayInv /\ ServeInv /\ QueueTypeOK /\ Proper(ActivateQ) /\ hand[ActivateQ] # Nil
  BY <1>2, LedgerTypes, FourQueues DEF LedgerInv, ServeInv, Finish
<1>4. p \in Payments /\ Wanted(ActivateQ, p)
  BY <1>1, <1>3, HandFacts, FourQueues
<1>5. /\ \A r \in Payments \ {p} : ledger'[r] = ledger[r]
      /\ \A r \in Payments : /\ ledger'[r].credits = ledger[r].credits
                             /\ ledger'[r].grants = ledger[r].grants
                             /\ ledger'[r].payouts = ledger[r].payouts
                             /\ ledger'[r].debits = ledger[r].debits
                             /\ ledger'[r].cuts = ledger[r].cuts
                             /\ ledger'[r].clawbacks = ledger[r].clawbacks
  <2>1. ledger \in [Payments -> LedgerRow]
    BY LedgerTypes
  <2>2. CASE ledger' = ledger
    BY <2>2
  <2>3. CASE ledger' = [ledger EXCEPT ![p].bonuses = @ + 1]
    BY <1>4, <2>1, <2>3, CountedUp
  <2> QED
    BY <1>2, <2>2, <2>3
<1>6. /\ hand'[ActivateQ] = Nil
      /\ hand'[PaymentQ] = hand[PaymentQ] /\ stage'[PaymentQ] = stage[PaymentQ]
      /\ \A r \in FollowUpQs \ {ActivateQ} : /\ queue'[r] = queue[r] /\ hand'[r] = hand[r]
                                             /\ backoff'[r] = backoff[r] /\ stage'[r] = stage[r]
      /\ \A j \in Job : /\ Alive(ActivateQ, j)' => Alive(ActivateQ, j)
                        /\ Alone(ActivateQ, j) => Alone(ActivateQ, j)'
                        /\ Alive(ActivateQ, j)' => j.payment # p
      /\ \A f \in Entry : Waits(ActivateQ, f)' => Waits(ActivateQ, f)
  BY <1>1, <1>2, ReturnFacts, FourQueues
<1>7. /\ \A j, s : Carries(j, s)' <=> Carries(j, s)
      /\ \A r \in Payments : Awaited(r)' <=> Awaited(r)
  BY <1>5, <1>6, AwaitedSame
<1>8. PayInv'
  BY <1>2, <1>3, <1>5, <1>7, PayKept
<1>9. Rewards' /\ Serves'
  <2>1. Rewards'
    BY <1>2, <1>3, <1>5 DEF ServeInv, Rewards
  <2>2. \A r \in Payments : Awaited(r) => r # p
    BY <1>4 DEF Wanted
  <2> QED
    BY <1>3, <1>5, <1>7, <2>1, <2>2, ServesKept DEF ServeInv
<1>10. \A r \in FollowUpQs : Proper(r)'
  <2>1. ASSUME NEW j \in Job, Alive(ActivateQ, j)', Wanted(ActivateQ, j.payment)
        PROVE  Wanted(ActivateQ, j.payment)'
    <3>1. j.payment \in Payments \ {p}
      BY <1>6, <2>1 DEF Job
    <3> QED
      BY <1>2, <1>5, <1>7, <2>1, <3>1, FourQueues DEF Wanted
  <2>2. \A r \in FollowUpQs \ {ActivateQ}, s \in Payments : Wanted(r, s) => Wanted(r, s)'
    BY <1>2, <1>5, <1>7 DEF Wanted
  <2> QED
    BY <1>3, <1>6, <2>1, <2>2, FollowUpKept, FourQueues
<1>11. GrantsCounted'
  <2>1. \A f \in Entry : f.job.payment \in Payments
    BY DEF Entry, Job
  <2> QED
    BY <1>3, <1>5, <1>6, <2>1 DEF ServeInv, GrantsCounted
<1>12. ExpandedOnce'
  <2>1. hand[ExpandQ] # Nil => ThePayment(ExpandQ) \in Payments
    BY <1>3, FourQueues, HandType
  <2> QED
    BY <1>2, <1>3, <1>5, <1>6, <2>1, FourQueues DEF ServeInv, ExpandedOnce, ThePayment
<1> QED
  BY <1>8, <1>9, <1>10, <1>11, <1>12 DEF ServeInv

\* The key of an expansion that was never tried.
LEMMA ClaimExpansionLedger ==
    ASSUME LedgerInv, ClaimExpansion
    PROVE  PayInv' /\ ServeInv'
<1>1. PICK p : p = ThePayment(ExpandQ)
  OBVIOUS
<1>2. /\ hand[ExpandQ] # Nil
      /\ UNCHANGED <<kind, ledger, reward, once, seen>>
      /\ devexp' = devexp \cup {p} \/ devexp' = devexp
  BY <1>1 DEF ClaimExpansion, Advance, Finish, inputVars, accountVars, keyVars
<1>3. PayInv /\ ServeInv /\ QueueTypeOK /\ Proper(ExpandQ)
  BY LedgerTypes, FourQueues DEF LedgerInv, ServeInv
<1>4. p \in Payments /\ Wanted(ExpandQ, p)
  BY <1>1, <1>2, <1>3, HandFacts, FourQueues
<1>5. /\ hand'[PaymentQ] = hand[PaymentQ] /\ stage'[PaymentQ] = stage[PaymentQ]
      /\ \A r \in FollowUpQs \ {ExpandQ} : /\ queue'[r] = queue[r] /\ hand'[r] = hand[r]
                                           /\ backoff'[r] = backoff[r] /\ stage'[r] = stage[r]
      /\ \A j \in Job : /\ Alive(ExpandQ, j)' => Alive(ExpandQ, j)
                        /\ Alone(ExpandQ, j) => Alone(ExpandQ, j)'
      /\ \/ hand'[ExpandQ] = Nil
         \/ /\ hand'[ExpandQ] = hand[ExpandQ] /\ p \notin devexp /\ p \in devexp'
  <2>1. CASE Finish(ExpandQ, "taken")
    BY <2>1, ReturnFacts, FourQueues
  <2>2. CASE Advance(ExpandQ, "taken", "claimed") /\ p \notin devexp /\ devexp' = devexp \cup {p}
    <3>1. UNCHANGED <<queue, hand, backoff>> /\ stage' = [stage EXCEPT ![ExpandQ] = "claimed"]
      BY <2>2 DEF Advance, queueVars
    <3>2. \A j \in Job : /\ Alive(ExpandQ, j)' => Alive(ExpandQ, j)
                         /\ Alone(ExpandQ, j) => Alone(ExpandQ, j)'
      BY <3>1, QueueStill, FourQueues
    <3> QED
      BY <2>2, <3>1, <3>2, FourQueues, LedgerTypes
  <2> QED
    BY <1>1, <2>1, <2>2 DEF ClaimExpansion
<1>6. /\ \A j, s : Carries(j, s)' <=> Carries(j, s)
      /\ \A r \in Payments : Awaited(r)' <=> Awaited(r)
  BY <1>2, <1>5, AwaitedSame
<1>7. PayInv'
  BY <1>2, <1>3, <1>6, PayKept
<1>8. Rewards' /\ Serves'
  BY <1>2, <1>3, <1>6, ServesKept DEF ServeInv, Rewards
<1>9. \A r \in FollowUpQs : Proper(r)'
  <2>1. \A r \in FollowUpQs, s \in Payments : Wanted(r, s) => Wanted(r, s)'
    BY <1>2, <1>6 DEF Wanted
  <2>2. \A j \in Job : j.payment \in Payments
    BY DEF Job
  <2> QED
    BY <1>3, <1>5, <2>1, <2>2, FollowUpKept, FourQueues
<1>10. GrantsCounted'
  <2>1. /\ hand'[ActivateQ] = hand[ActivateQ] /\ stage'[ActivateQ] = stage[ActivateQ]
        /\ \A f : Waits(ActivateQ, f)' <=> Waits(ActivateQ, f)
    BY <1>5, FourQueues, QueueStill
  <2> QED
    BY <1>2, <1>3, <2>1 DEF ServeInv, GrantsCounted, ThePayment
<1>11. ExpandedOnce'
  <2>1. \A r \in Payments : kind[r] = "expansion" /\ r \notin devexp => ledger[r].grants = 0
    BY <1>3 DEF ServeInv, ExpandedOnce
  <2>2. \A r \in Payments : kind[r] = "expansion" /\ r \notin devexp' => ledger[r].grants = 0
    BY <1>2, <2>1
  <2>3. CASE hand'[ExpandQ] = Nil
    BY <1>2, <2>2, <2>3 DEF ExpandedOnce
  <2>4. CASE hand'[ExpandQ] = hand[ExpandQ] /\ p \notin devexp /\ p \in devexp'
    <3>1. ledger[p].grants = 0
      BY <1>4, <2>1, <2>4, FourQueues DEF Wanted
    <3>2. ThePayment(ExpandQ)' = p
      BY <1>1, <2>4 DEF ThePayment
    <3> QED
      BY <1>2, <2>2, <2>4, <3>1, <3>2 DEF ExpandedOnce
  <2> QED
    BY <1>5, <2>3, <2>4
<1> QED
  BY <1>7, <1>8, <1>9, <1>10, <1>11 DEF ServeInv

\* An expansion is bought under its key, or dropped.
LEMMA ExpandLedger ==
    ASSUME LedgerInv, ExpandDevices
    PROVE  PayInv' /\ ServeInv'
<1>1. PICK p : p = ThePayment(ExpandQ)
  OBVIOUS
<1>2. /\ Finish(ExpandQ, "claimed") /\ hand[ExpandQ] # Nil /\ stage[ExpandQ] = "claimed"
      /\ UNCHANGED <<kind, reward, once, devexp, seen>>
      /\ ledger' = [ledger EXCEPT ![p].grants = @ + 1] \/ ledger' = ledger
  BY <1>1 DEF ExpandDevices, Finish, inputVars, keyVars
<1>3. PayInv /\ ServeInv /\ QueueTypeOK /\ Proper(ExpandQ) /\ Proper(ActivateQ)
  BY LedgerTypes, FourQueues DEF LedgerInv, ServeInv
<1>4. p \in Payments /\ Wanted(ExpandQ, p) /\ p \in devexp
  BY <1>1, <1>2, <1>3, HandFacts, FourQueues DEF ServeInv, ExpandedOnce
<1>5. /\ \A r \in Payments \ {p} : ledger'[r] = ledger[r]
      /\ \A r \in Payments : /\ ledger'[r].credits = ledger[r].credits
                             /\ ledger'[r].bonuses = ledger[r].bonuses
                             /\ ledger'[r].payouts = ledger[r].payouts
                             /\ ledger'[r].debits = ledger[r].debits
                             /\ ledger'[r].cuts = ledger[r].cuts
                             /\ ledger'[r].clawbacks = ledger[r].clawbacks
  <2>1. ledger \in [Payments -> LedgerRow]
    BY LedgerTypes
  <2>2. CASE ledger' = ledger
    BY <2>2
  <2>3. CASE ledger' = [ledger EXCEPT ![p].grants = @ + 1]
    BY <1>4, <2>1, <2>3, CountedUp
  <2> QED
    BY <1>2, <2>2, <2>3
<1>6. /\ hand'[ExpandQ] = Nil
      /\ hand'[PaymentQ] = hand[PaymentQ] /\ stage'[PaymentQ] = stage[PaymentQ]
      /\ \A r \in FollowUpQs \ {ExpandQ} : /\ queue'[r] = queue[r] /\ hand'[r] = hand[r]
                                           /\ backoff'[r] = backoff[r] /\ stage'[r] = stage[r]
      /\ \A j \in Job : /\ Alive(ExpandQ, j)' => Alive(ExpandQ, j)
                        /\ Alone(ExpandQ, j) => Alone(ExpandQ, j)'
      /\ \A f \in Entry : Waits(ActivateQ, f)' => Waits(ActivateQ, f)
  BY <1>1, <1>2, ReturnFacts, FourQueues
<1>7. /\ \A j, s : Carries(j, s)' <=> Carries(j, s)
      /\ \A r \in Payments : Awaited(r)' <=> Awaited(r)
  BY <1>5, <1>6, AwaitedSame
<1>8. PayInv'
  BY <1>2, <1>3, <1>5, <1>7, PayKept
<1>9. Rewards' /\ Serves'
  <2>1. Rewards'
    BY <1>2, <1>3, <1>5 DEF ServeInv, Rewards
  <2>2. \A r \in Payments : Awaited(r) => r # p
    BY <1>4 DEF Wanted
  <2> QED
    BY <1>3, <1>5, <1>7, <2>1, <2>2, ServesKept DEF ServeInv
<1>10. \A r \in FollowUpQs : Proper(r)'
  <2>1. \A r \in FollowUpQs, s \in Payments : Wanted(r, s) => Wanted(r, s)'
    BY <1>2, <1>5, <1>7 DEF Wanted
  <2>2. \A j \in Job : j.payment \in Payments
    BY DEF Job
  <2> QED
    BY <1>3, <1>6, <2>1, <2>2, FollowUpKept, FourQueues
<1>11. kind[p] = "expansion"
  BY <1>4, FourQueues DEF Wanted
<1>12. GrantsCounted'
  <2>1. ASSUME NEW f \in Entry, Waits(ActivateQ, f)'
        PROVE  ledger'[f.job.payment].grants <= f.retries
    <3>1. Waits(ActivateQ, f)
      BY <1>6, <2>1
    <3>2. f.job.payment \in Payments \ {p}
      BY <1>3, <1>11, <3>1, WaitFacts, FourQueues DEF Wanted
    <3> QED
      BY <1>3, <1>5, <3>1, <3>2 DEF ServeInv, GrantsCounted
  <2>2. hand[ActivateQ] # Nil => ThePayment(ActivateQ) \in Payments \ {p}
    BY <1>3, <1>11, HandFacts, FourQueues DEF Wanted
  <2>3. /\ hand'[ActivateQ] = hand[ActivateQ] /\ stage'[ActivateQ] = stage[ActivateQ]
        /\ ThePayment(ActivateQ)' = ThePayment(ActivateQ)
    BY <1>6, FourQueues DEF ThePayment
  <2>4. GrantsCounted
    BY <1>3 DEF ServeInv
  <2> QED
    BY <1>5, <2>1, <2>2, <2>3, <2>4 DEF GrantsCounted
<1>13. ExpandedOnce'
  BY <1>2, <1>3, <1>4, <1>5, <1>6 DEF ServeInv, ExpandedOnce
<1> QED
  BY <1>8, <1>9, <1>10, <1>12, <1>13 DEF ServeInv

\* The reward is paid when its only job leaves the queue.
LEMMA RewardLedger ==
    ASSUME LedgerInv, PayReward
    PROVE  PayInv' /\ ServeInv'
<1>1. PICK p : p = ThePayment(RewardQ)
  OBVIOUS
<1>2. /\ Finish(RewardQ, "taken") /\ hand[RewardQ] # Nil
      /\ UNCHANGED <<kind, once, devexp, seen>>
      /\ \/ /\ ledger' = [ledger EXCEPT ![p].payouts = @ + 1]
            /\ reward' = [reward EXCEPT ![p] = IF @ = "none" THEN "immediate" ELSE @]
         \/ ledger' = ledger /\ reward' = reward
  BY <1>1 DEF PayReward, Finish, inputVars, keyVars
<1>3. PayInv /\ ServeInv /\ QueueTypeOK /\ Proper(RewardQ)
  BY LedgerTypes, FourQueues DEF LedgerInv, ServeInv
<1>4. p \in Payments /\ Wanted(RewardQ, p) /\ ledger[p].payouts = 0 /\ reward[p] = "none"
  BY <1>1, <1>2, <1>3, HandFacts, FourQueues DEF Wanted, ServeInv, Rewards
<1>5. /\ \A r \in Payments \ {p} : ledger'[r] = ledger[r] /\ reward'[r] = reward[r]
      /\ \A r \in Payments : /\ ledger'[r].credits = ledger[r].credits
                             /\ ledger'[r].grants = ledger[r].grants
                             /\ ledger'[r].bonuses = ledger[r].bonuses
                             /\ ledger'[r].debits = ledger[r].debits
                             /\ ledger'[r].cuts = ledger[r].cuts
                             /\ ledger'[r].clawbacks = ledger[r].clawbacks
      /\ \/ ledger'[p].payouts = 1 /\ reward'[p] = "immediate"
         \/ ledger'[p].payouts = 0 /\ reward'[p] = "none"
  <2>1. ledger \in [Payments -> LedgerRow]
        /\ reward \in [Payments -> {"none", "immediate", "reverted"}]
    BY LedgerTypes
  <2>2. CASE ledger' = ledger /\ reward' = reward
    BY <1>4, <2>2
  <2>3. CASE /\ ledger' = [ledger EXCEPT ![p].payouts = @ + 1]
             /\ reward' = [reward EXCEPT ![p] = IF @ = "none" THEN "immediate" ELSE @]
    <3>1. ledger'[p].payouts = 0 + 1 /\ reward'[p] = "immediate"
      BY <1>4, <2>1, <2>3, CountedUp
    <3>2. \A r \in Payments \ {p} : reward'[r] = reward[r]
      BY <2>1, <2>3
    <3> QED
      BY <1>4, <2>1, <2>3, <3>1, <3>2, CountedUp
  <2> QED
    BY <1>2, <2>2, <2>3
<1>6. /\ hand'[RewardQ] = Nil
      /\ hand'[PaymentQ] = hand[PaymentQ] /\ stage'[PaymentQ] = stage[PaymentQ]
      /\ \A r \in FollowUpQs \ {RewardQ} : /\ queue'[r] = queue[r] /\ hand'[r] = hand[r]
                                           /\ backoff'[r] = backoff[r] /\ stage'[r] = stage[r]
      /\ \A j \in Job : /\ Alive(RewardQ, j)' => Alive(RewardQ, j)
                        /\ Alone(RewardQ, j) => Alone(RewardQ, j)'
                        /\ Alive(RewardQ, j)' => j.payment # p
      /\ \A f \in Entry : Waits(ActivateQ, f)' => Waits(ActivateQ, f)
  BY <1>1, <1>2, ReturnFacts, FourQueues
<1>7. /\ \A j, s : Carries(j, s)' <=> Carries(j, s)
      /\ \A r \in Payments : Awaited(r)' <=> Awaited(r)
  BY <1>5, <1>6, AwaitedSame
<1>8. PayInv'
  <2>1. \A r \in Payments : reward'[r] = "reverted" => reward[r] = "reverted"
    BY <1>5
  <2> QED
    BY <1>2, <1>3, <1>5, <1>7, <2>1, PayKept
<1>9. Rewards' /\ Serves'
  <2>1. Rewards'
    <3> SUFFICES ASSUME NEW r \in Payments
                 PROVE  /\ ledger'[r].payouts \in {0, 1}
                        /\ (ledger'[r].payouts = 0) <=> (reward'[r] = "none")
      BY DEF Rewards
    <3>1. CASE r = p
      BY <1>5, <3>1
    <3>2. CASE r # p
      BY <1>3, <1>5, <3>2 DEF ServeInv, Rewards
    <3> QED
      BY <3>1, <3>2
  <2>2. \A r \in Payments : Awaited(r) => r # p
    BY <1>4 DEF Wanted
  <2> QED
    BY <1>3, <1>5, <1>7, <2>1, <2>2, ServesKept DEF ServeInv
<1>10. \A r \in FollowUpQs : Proper(r)'
  <2>1. ASSUME NEW j \in Job, Alive(RewardQ, j)', Wanted(RewardQ, j.payment)
        PROVE  Wanted(RewardQ, j.payment)'
    <3>1. j.payment \in Payments \ {p}
      BY <1>6, <2>1 DEF Job
    <3> QED
      BY <1>2, <1>5, <1>7, <2>1, <3>1, FourQueues DEF Wanted
  <2>2. \A r \in FollowUpQs \ {RewardQ}, s \in Payments : Wanted(r, s) => Wanted(r, s)'
    BY <1>2, <1>5, <1>7 DEF Wanted
  <2> QED
    BY <1>3, <1>6, <2>1, <2>2, FollowUpKept, FourQueues
<1>11. GrantsCounted'
  <2>1. \A f \in Entry : f.job.payment \in Payments
    BY DEF Entry, Job
  <2>2. hand[ActivateQ] # Nil => ThePayment(ActivateQ) \in Payments
    BY <1>3, FourQueues, HandType
  <2>3. /\ hand'[ActivateQ] = hand[ActivateQ] /\ stage'[ActivateQ] = stage[ActivateQ]
        /\ ThePayment(ActivateQ)' = ThePayment(ActivateQ)
    BY <1>6, FourQueues DEF ThePayment
  <2> QED
    BY <1>3, <1>5, <1>6, <2>1, <2>2, <2>3 DEF ServeInv, GrantsCounted
<1>12. ExpandedOnce'
  <2>1. hand[ExpandQ] # Nil => ThePayment(ExpandQ) \in Payments
    BY <1>3, FourQueues, HandType
  <2> QED
    BY <1>2, <1>3, <1>5, <1>6, <2>1, FourQueues DEF ServeInv, ExpandedOnce, ThePayment
<1> QED
  BY <1>8, <1>9, <1>10, <1>11, <1>12 DEF ServeInv

-----------------------------------------------------------------------------
(* The invariant, and what every step is in PaymentLedger.                 *)

\* LedgerInv holds at the start.
LEMMA LedgerInit ==
    ASSUME Init
    PROVE  LedgerInv
<1>1. GatewayInv /\ FreeUnsettled
  BY GatewayInit DEF Init, WorkerInit, FreeUnsettled
<1>2. /\ hand = [q \in Queues |-> Nil] /\ queue = [q \in Queues |-> <<>>]
      /\ backoff = [q \in Queues |-> [e \in Entry |-> 0]]
      /\ reward = [p \in Payments |-> "none"] /\ ledger = [p \in Payments |-> EmptyRow]
  BY DEF Init, WorkerInit, QueueInit
<1>3. \A q \in Queues : /\ hand[q] = Nil /\ queue[q] = <<>>
                        /\ \A e \in Entry : ~(backoff[q][e] > 0)
  BY <1>2
<1>4. \A j, s : ~Carries(j, s)
  BY <1>3, FourQueues DEF Carries
<1>5. \A q \in Queues : /\ DOMAIN queue[q] = {}
                        /\ \A e \in Entry : ~Waits(q, e)
  BY <1>3 DEF Waits
<1>6. \A q \in Queues, j \in Job : ~Alive(q, j) /\ Alone(q, j)
  BY <1>3, <1>5 DEF Alive, Alone, Listed, InHand, Sleeping, ListedOnce, SleepsOnce
<1>7. \A p \in Payments :
        /\ ledger[p].credits = 0 /\ ledger[p].debits = 0 /\ ledger[p].grants = 0
        /\ ledger[p].cuts = 0 /\ ledger[p].bonuses = 0 /\ ledger[p].payouts = 0
        /\ ledger[p].clawbacks = 0 /\ reward[p] = "none"
  BY <1>2 DEF EmptyRow
<1>8. PayInv
  BY <1>4, <1>7 DEF PayInv, Claims, Books, Undoes
<1>9. ServeInv
  <2>1. \A q \in FollowUpQs : Proper(q)
    BY <1>6, FourQueues DEF Proper
  <2> QED
    BY <1>3, <1>5, <1>7, <2>1, FourQueues
       DEF ServeInv, Rewards, Serves, GrantsCounted, ExpandedOnce
<1> QED
  BY <1>1, <1>8, <1>9 DEF LedgerInv

\* Every step keeps LedgerInv.
LEMMA LedgerStep ==
    ASSUME LedgerInv, Next
    PROVE  LedgerInv'
<1>1. GatewayInv'
  BY GatewayStep DEF LedgerInv
<1>2. FreeUnsettled'
  BY FreeKept
<1>3. ASSUME WorkerAction PROVE PayInv' /\ ServeInv'
  <2>1. ASSUME NEW q \in Queues,
               TakeJob(q) \/ HandlerFails(q) \/ \E e \in Entry : BackoffEnds(q, e)
        PROVE  PayInv' /\ ServeInv'
    <3>1. CASE q = PaymentQ
      BY <2>1, <3>1, PaymentLoopLedger
    <3>2. CASE q # PaymentQ
      BY <2>1, <3>2, FourQueues, FollowUpLoopLedger
    <3> QED
      BY <3>1, <3>2
  <2> QED
    BY <1>3, <2>1, InputLedger, ClaimPaymentLedger, ConfirmPaymentLedger,
       DispatchLedger, RevertPaymentLedger, ExtendLedger, BonusLedger,
       ClaimExpansionLedger, ExpandLedger, RewardLedger DEF WorkerAction
<1>4. ASSUME AskAction \/ ApiRestart PROVE PayInv' /\ ServeInv'
  BY <1>4, AskLedger
<1>5. ASSUME WorkerRestart PROVE PayInv' /\ ServeInv'
  BY <1>5, CrashLedger DEF WorkerRestart
<1>6. PayInv' /\ ServeInv'
  BY <1>3, <1>4, <1>5, NextSplit
<1> QED
  BY <1>1, <1>2, <1>6 DEF LedgerInv

\* A step that does nothing keeps LedgerInv.
LEMMA LedgerStutters ==
    ASSUME LedgerInv, UNCHANGED vars
    PROVE  LedgerInv'
<1>1. GatewayInv'
  <2>1. TypeOK'
    BY WorkerSame DEF LedgerInv, GatewayInv, TypeOK, vars, pollVars
  <2>2. UNCHANGED <<queueVars, inputVars, gatewayVars, loopVars, kind, gw, status, poll, todo>>
    BY DEF vars, workerVars, pollVars, inputVars, gatewayVars
  <2> QED
    BY <2>1, <2>2, AskRows, AsksSame, AskLeaves DEF LedgerInv, GatewayInv
<1>2. PayInv' /\ ServeInv' /\ UNCHANGED <<kind, gw>>
  BY AskLedger
<1> QED
  BY <1>1, <1>2 DEF LedgerInv, FreeUnsettled

\* What the handlers write is an entry of PaymentLedger.
LEMMA HandlerRefines ==
    ASSUME LedgerInv,
           \/ ConfirmPayment \/ RevertPayment \/ ExtendSubscription
           \/ CreditBonus \/ ExpandDevices \/ PayReward
    PROVE  [Ledger!Next]_<<kind, gw, ledger>>
<1>1. UNCHANGED <<kind, gw>>
  BY DEF ConfirmPayment, RevertPayment, ExtendSubscription, CreditBonus, ExpandDevices,
         PayReward, inputVars, gatewayVars
<1>2. /\ QueueTypeOK /\ ledger \in [Payments -> LedgerRow]
      /\ Proper(ActivateQ) /\ Proper(ExpandQ) /\ Proper(RewardQ)
  BY LedgerTypes, FourQueues DEF LedgerInv, ServeInv
<1>3. ASSUME NEW q \in FollowUpQs, hand[q] # Nil
      PROVE  Ledger!Booked(ThePayment(q))
  <2>1. q \in Queues /\ Proper(q)
    BY <1>3, FourQueues DEF LedgerInv, ServeInv
  <2>2. /\ ThePayment(q) \in Payments /\ Wanted(q, ThePayment(q))
        /\ hand[q].job = FollowUp(ThePayment(q))
    BY <1>2, <1>3, <2>1, HandFacts
  <2>3. Reached(ThePayment(q), "CONFIRMED")
    BY <1>3, <2>1, <2>2, HandReached DEF LedgerInv, GatewayInv, FollowUp
  <2>4. ledger[ThePayment(q)].credits = 1
    BY <2>2 DEF Wanted, Awaited, LedgerInv, PayInv, Books
  <2> QED
    BY <2>3, <2>4 DEF Ledger!Booked, Ledger!Paid, Reached
<1>4. CASE ConfirmPayment
  <2>1. PICK p : p = ThePayment(PaymentQ)
    OBVIOUS
  <2>2. /\ hand[PaymentQ] # Nil /\ stage[PaymentQ] = "claimed"
        /\ hand[PaymentQ].job.status = "CONFIRMED"
        /\ ledger' = [ledger EXCEPT ![p] = [ledger[p] EXCEPT !.credits = ledger[p].credits + 1]]
    BY <1>4, <2>1 DEF ConfirmPayment, Advance
  <2>3. /\ p \in Payments /\ hand[PaymentQ].job = FollowUp(p) /\ Reached(p, "CONFIRMED")
    BY <2>1, <2>2, LoopHolds, ConfirmedJob DEF ThePayment, JobReached
  <2>4. ledger[p].credits = 0
    BY <2>2, <2>3 DEF Carries, LedgerInv, PayInv, Books
  <2>5. ledger[p].credits + 1 = 1
    BY <2>4
  <2>6. Ledger!Enter(p, [ledger[p] EXCEPT !.credits = 1])
    BY <1>1, <2>2, <2>5 DEF Ledger!Enter
  <2>7. Ledger!Paid(p)
    BY <2>3 DEF Ledger!Paid, Reached
  <2>8. Ledger!Book(p)
    BY <2>4, <2>6, <2>7 DEF Ledger!Book
  <2> QED
    BY <2>3, <2>8 DEF Ledger!Next
<1>5. CASE RevertPayment
  <2>1. CASE UNCHANGED ledger
    BY <1>1, <2>1
  <2>2. ASSUME NEW p \in Payments, gw[p] = "CHARGEBACKED", ledger[p].debits = 0, Undo(p)
        PROVE  Ledger!Next
    <3>1. PICK cut \in {0, 1}, back \in {0, ledger[p].payouts} :
            /\ "RewardLookup" \notin Faults => back = ledger[p].payouts
            /\ ledger' = [ledger EXCEPT ![p] =
                   [ledger[p] EXCEPT !.debits = 1, !.cuts = cut, !.clawbacks = back]]
      BY <2>2, UndoLedger
    <3>2. Ledger!Enter(p, [ledger[p] EXCEPT !.debits = 1, !.cuts = cut,
                                            !.clawbacks = back])
      BY <1>1, <3>1 DEF Ledger!Enter
    <3>3. Ledger!Undo(p)
      BY <2>2, <3>1, <3>2 DEF Ledger!Undo
    <3> QED
      BY <3>3 DEF Ledger!Next
  <2> QED
    BY <1>5, <2>1, <2>2, RevertPaymentLedger
<1>6. CASE ExtendSubscription
  <2>1. PICK p : p = ThePayment(ActivateQ)
    OBVIOUS
  <2>2. /\ hand[ActivateQ] # Nil /\ stage[ActivateQ] = "taken"
        /\ ledger' = [ledger EXCEPT ![p] = [ledger[p] EXCEPT !.grants = ledger[p].grants + 1]]
    BY <1>6, <2>1 DEF ExtendSubscription, Advance
  <2>3. /\ p \in Payments /\ Wanted(ActivateQ, p) /\ Ledger!Booked(p)
        /\ hand[ActivateQ].retries \in 0..MaxJobRetries
    BY <1>2, <1>3, <2>1, <2>2, HandFacts, FourQueues
  <2>4. ledger[p].grants <= hand[ActivateQ].retries /\ ledger[p].grants \in Nat
    BY <1>2, <2>1, <2>2, <2>3 DEF LedgerInv, ServeInv, GrantsCounted, LedgerRow
  <2>5. ledger[p].grants < MaxJobRetries + 1 /\ kind[p] # "expansion"
    BY <2>3, <2>4, QueueAssumption DEF Wanted
  <2>6. Ledger!Enter(p, [ledger[p] EXCEPT !.grants = ledger[p].grants + 1])
    BY <1>1, <2>2 DEF Ledger!Enter
  <2>7. Ledger!Grant(p)
    BY <2>3, <2>5, <2>6 DEF Ledger!Grant
  <2> QED
    BY <2>3, <2>7 DEF Ledger!Next
<1>7. CASE CreditBonus
  <2>1. PICK p : p = ThePayment(ActivateQ)
    OBVIOUS
  <2>2. /\ hand[ActivateQ] # Nil /\ stage[ActivateQ] = "extended"
        /\ \/ ledger' = [ledger EXCEPT ![p] = [ledger[p] EXCEPT !.bonuses = ledger[p].bonuses + 1]]
           \/ UNCHANGED ledger
    BY <1>7, <2>1 DEF CreditBonus, Finish
  <2>3. p \in Payments /\ Wanted(ActivateQ, p)
    BY <1>2, <2>1, <2>2, HandFacts, FourQueues
  <2>4. ledger[p].grants > 0
    BY <2>1, <2>2 DEF LedgerInv, ServeInv, GrantsCounted
  <2>5. kind[p] # "expansion" /\ ledger[p].bonuses = 0
    BY <2>3 DEF Wanted
  <2>6. CASE ledger' = [ledger EXCEPT ![p] = [ledger[p] EXCEPT !.bonuses = ledger[p].bonuses + 1]]
    <3>1. ledger[p].bonuses + 1 = 1
      BY <2>5
    <3>2. Ledger!Enter(p, [ledger[p] EXCEPT !.bonuses = 1])
      BY <1>1, <2>6, <3>1 DEF Ledger!Enter
    <3>3. Ledger!PayBonus(p)
      BY <2>4, <2>5, <3>2 DEF Ledger!PayBonus
    <3> QED
      BY <2>3, <3>3 DEF Ledger!Next
  <2> QED
    BY <1>1, <2>2, <2>6
<1>8. CASE ExpandDevices
  <2>1. PICK p : p = ThePayment(ExpandQ)
    OBVIOUS
  <2>2. /\ hand[ExpandQ] # Nil /\ stage[ExpandQ] = "claimed"
        /\ \/ ledger' = [ledger EXCEPT ![p] = [ledger[p] EXCEPT !.grants = ledger[p].grants + 1]]
           \/ UNCHANGED ledger
    BY <1>8, <2>1 DEF ExpandDevices, Finish
  <2>3. p \in Payments /\ Wanted(ExpandQ, p) /\ Ledger!Booked(p)
    BY <1>2, <1>3, <2>1, <2>2, HandFacts, FourQueues
  <2>4. ledger[p].grants = 0
    BY <2>1, <2>2 DEF LedgerInv, ServeInv, ExpandedOnce
  <2>5. kind[p] = "expansion"
    BY <2>3, FourQueues DEF Wanted
  <2>6. CASE ledger' = [ledger EXCEPT ![p] = [ledger[p] EXCEPT !.grants = ledger[p].grants + 1]]
    <3>1. Ledger!Enter(p, [ledger[p] EXCEPT !.grants = ledger[p].grants + 1])
      BY <1>1, <2>6 DEF Ledger!Enter
    <3>2. Ledger!Grant(p)
      BY <2>3, <2>4, <2>5, <3>1 DEF Ledger!Grant
    <3> QED
      BY <2>3, <3>2 DEF Ledger!Next
  <2> QED
    BY <1>1, <2>2, <2>6
<1>9. CASE PayReward
  <2>1. PICK p : p = ThePayment(RewardQ)
    OBVIOUS
  <2>2. /\ hand[RewardQ] # Nil
        /\ \/ ledger' = [ledger EXCEPT ![p] = [ledger[p] EXCEPT !.payouts = ledger[p].payouts + 1]]
           \/ UNCHANGED ledger
    BY <1>9, <2>1 DEF PayReward, Finish
  <2>3. p \in Payments /\ Wanted(RewardQ, p) /\ Ledger!Booked(p)
    BY <1>2, <1>3, <2>1, <2>2, HandFacts, FourQueues
  <2>4. kind[p] # "free" /\ ledger[p].payouts = 0
    BY <2>3 DEF Wanted
  <2>5. CASE ledger' = [ledger EXCEPT ![p] = [ledger[p] EXCEPT !.payouts = ledger[p].payouts + 1]]
    <3>1. ledger[p].payouts + 1 = 1
      BY <2>4
    <3>2. Ledger!Enter(p, [ledger[p] EXCEPT !.payouts = 1])
      BY <1>1, <2>5, <3>1 DEF Ledger!Enter
    <3>3. Ledger!PayReward(p)
      BY <2>3, <2>4, <3>2 DEF Ledger!PayReward
    <3> QED
      BY <2>3, <3>3 DEF Ledger!Next
  <2> QED
    BY <1>1, <2>2, <2>5
<1> QED
  BY <1>4, <1>5, <1>6, <1>7, <1>8, <1>9

\* Every step of the pipeline is a step of PaymentLedger or stutters.
LEMMA StepRefines ==
    ASSUME LedgerInv, Next
    PROVE  [Ledger!Next]_<<kind, gw, ledger>>
<1>1. ASSUME NEW p \in Payments, PaidCheckout(p)
      PROVE  Ledger!Next
  <2>1. /\ kind[p] # "free" /\ status[p] = "NONE" /\ gw' = [gw EXCEPT ![p] = "PENDING"]
        /\ UNCHANGED <<kind, ledger>>
    BY <1>1 DEF PaidCheckout, InitiatePayment, InitiateDeviceExpansionPayment,
       OpenTransaction, inputVars, accountVars
  <2>2. gw[p] = "NONE"
    BY <2>1 DEF LedgerInv, GatewayInv, PendingKnown
  <2>3. Ledger!Settle(p, "PENDING")
    BY <2>1, <2>2 DEF Ledger!Settle
  <2> QED
    BY <2>3 DEF Ledger!Next
<1>2. ASSUME NEW p \in Payments, NEW s \in FinalStatus, GatewaySettles(p, s)
      PROVE  Ledger!Next
  <2>1. /\ <<gw[p], s>> \in Settlements /\ gw' = [gw EXCEPT ![p] = s]
        /\ UNCHANGED <<kind, ledger>>
    BY <1>2 DEF GatewaySettles, inputVars, accountVars
  <2>2. kind[p] # "free"
    BY <2>1 DEF LedgerInv, FreeUnsettled, Settlements
  <2>3. Ledger!Settle(p, s)
    BY <2>1, <2>2 DEF Ledger!Settle, Settlements
  <2> QED
    BY <2>3 DEF Ledger!Next, FinalStatus
<1>3. CASE WorkerAction
  <2>1. CASE \/ \E p \in Payments : InitiateFreePayment(p)
             \/ \E h \in Job : WebhookLost(h) \/ EnqueueWebhook(h) \/ FailWebhook(h)
             \/ \E q \in Queues : TakeJob(q) \/ HandlerFails(q)
             \/ \E q \in Queues, e \in Entry : BackoffEnds(q, e)
             \/ ClaimPayment \/ DispatchFollowUps \/ ClaimExpansion
    <3>1. UNCHANGED <<kind, gw, ledger>>
      BY <2>1 DEF InitiateFreePayment, WebhookLost, EnqueueWebhook, FailWebhook, TakeJob,
         HandlerFails, BackoffEnds, ClaimPayment, DispatchFollowUps, ClaimExpansion,
         inputVars, gatewayVars, accountVars
    <3> QED
      BY <3>1
  <2> QED
    BY <1>1, <1>2, <1>3, <2>1, HandlerRefines DEF WorkerAction
<1>4. CASE AskAction \/ ApiRestart
  BY <1>4, AskLedger
<1>5. CASE WorkerRestart
  <2>1. UNCHANGED <<kind, gw, ledger>>
    BY <1>5 DEF WorkerRestart, WorkerCrash, inputVars, gatewayVars, accountVars
  <2> QED
    BY <2>1
<1> QED
  BY <1>3, <1>4, <1>5, NextSplit

\* Repeated webhooks, polls, the sweep, retries, lost jobs and crashes never book
\* a payment twice or before Platega confirmed it, never undo it twice, never pay
\* its reward or bonus twice, and grant its time at most once per attempt: the
\* pipeline implements PaymentLedger.
THEOREM PipelineKeepsLedger == Spec => ImplementsLedger
<1>1. Init => LedgerInv
  BY LedgerInit
<1>2. LedgerInv /\ [Next]_vars => LedgerInv'
  BY LedgerStep, LedgerStutters
<1>3. Init => Ledger!Init
  BY DEF Init, WorkerInit, Ledger!Init, EmptyRow, Ledger!EmptyRow
<1>4. LedgerInv /\ [Next]_vars => [Ledger!Next]_<<kind, gw, ledger>>
  <2>1. ASSUME LedgerInv, UNCHANGED vars
        PROVE  UNCHANGED <<kind, gw, ledger>>
    BY <2>1, AskLedger
  <2> QED
    BY <2>1, StepRefines
<1> QED
  BY <1>1, <1>2, <1>3, <1>4, PTL DEF Spec, ImplementsLedger, Ledger!Spec

-----------------------------------------------------------------------------
(* Single follow-up jobs.                                                  *)

\* A set whose elements are all equal has at most one.
LEMMA AtMostOne ==
    ASSUME NEW S, \A x, y \in S : x = y
    PROVE  Cardinality(S) <= 1 /\ (S = {} => Cardinality(S) = 0)
<1>1. CASE S = {}
  BY <1>1, FS_EmptySet
<1>2. ASSUME NEW x \in S PROVE Cardinality(S) = 1
  <2>1. S = {x}
    OBVIOUS
  <2> QED
    BY <2>1, FS_Singleton
<1> QED
  BY <1>1, <1>2

\* A place of a follow-up job is where the worker finds it.
LEMMA PlaceOfCopy ==
    ASSUME QueueTypeOK, NEW q \in Queues, NEW p \in Payments, NEW x \in Copies(q, p)
    PROVE  \/ \E i \in DOMAIN queue[q] :
                  queue[q][i].job = FollowUp(p) /\ x = <<"listed", i, 0>>
           \/ InHand(q, FollowUp(p)) /\ x = <<"in hand", 0, 0>>
           \/ \E e \in Entry : \E n \in 1..backoff[q][e] :
                  e.job = FollowUp(p) /\ backoff[q][e] > 0 /\ x = <<"asleep", e.retries, n>>
<1>1. CASE x \in {<<"listed", i, 0>> : i \in {i \in DOMAIN queue[q] : queue[q][i].job = FollowUp(p)}}
  BY <1>1
<1>2. CASE x \in UNION {{<<"asleep", e.retries, n>> : n \in 1..backoff[q][e]} :
                            e \in {e \in Entry : e.job = FollowUp(p)}}
  <2>1. PICK e \in Entry : e.job = FollowUp(p) /\ x \in {<<"asleep", e.retries, n>> : n \in 1..backoff[q][e]}
    BY <1>2
  <2>2. PICK n \in 1..backoff[q][e] : x = <<"asleep", e.retries, n>>
    BY <2>1
  <2>3. backoff[q][e] \in Nat
    BY QueueAt
  <2>4. backoff[q][e] > 0
    BY <2>2, <2>3
  <2> QED
    BY <2>1, <2>2, <2>4
<1>3. CASE InHand(q, FollowUp(p)) /\ x = <<"in hand", 0, 0>>
  BY <1>3
<1> QED
  BY <1>1, <1>2, <1>3 DEF Copies

\* A job that is nowhere has no copies, and one that is alone has at most one.
LEMMA AloneCopies ==
    ASSUME QueueTypeOK, NEW q \in Queues, NEW p \in Payments
    PROVE  /\ ~Alive(q, FollowUp(p)) => Copies(q, p) = {}
           /\ Alone(q, FollowUp(p)) => \A x, y \in Copies(q, p) : x = y
<1>1. ASSUME NEW x \in Copies(q, p) PROVE Alive(q, FollowUp(p))
  BY PlaceOfCopy DEF Alive, Listed, Sleeping
<1>2. ASSUME Alone(q, FollowUp(p)), NEW x \in Copies(q, p), NEW y \in Copies(q, p)
      PROVE  x = y
  <2>1. CASE Listed(q, FollowUp(p))
    <3>1. /\ ~InHand(q, FollowUp(p))
          /\ \A e \in Entry : e.job = FollowUp(p) => ~(backoff[q][e] > 0)
      BY <1>2, <2>1 DEF Alone, Sleeping
    <3>2. PICK i \in DOMAIN queue[q] : queue[q][i].job = FollowUp(p) /\ x = <<"listed", i, 0>>
      BY <3>1, PlaceOfCopy
    <3>3. PICK k \in DOMAIN queue[q] : queue[q][k].job = FollowUp(p) /\ y = <<"listed", k, 0>>
      BY <3>1, PlaceOfCopy
    <3>4. i = k
      BY <1>2, <3>2, <3>3 DEF Alone, ListedOnce
    <3> QED
      BY <3>2, <3>3, <3>4
  <2>2. CASE InHand(q, FollowUp(p))
    <3>1. /\ \A i \in DOMAIN queue[q] : queue[q][i].job # FollowUp(p)
          /\ \A e \in Entry : e.job = FollowUp(p) => ~(backoff[q][e] > 0)
      BY <1>2, <2>2 DEF Alone, Sleeping, Listed
    <3>2. x = <<"in hand", 0, 0>>
      BY <3>1, PlaceOfCopy
    <3>3. y = <<"in hand", 0, 0>>
      BY <3>1, PlaceOfCopy
    <3> QED
      BY <3>2, <3>3
  <2>3. CASE Sleeping(q, FollowUp(p))
    <3>1. /\ ~InHand(q, FollowUp(p))
          /\ \A i \in DOMAIN queue[q] : queue[q][i].job # FollowUp(p)
      BY <1>2, <2>3 DEF Alone, Listed
    <3>2. PICK e \in Entry : \E n \in 1..backoff[q][e] :
              e.job = FollowUp(p) /\ backoff[q][e] > 0 /\ x = <<"asleep", e.retries, n>>
      BY <3>1, PlaceOfCopy
    <3>3. PICK f \in Entry : \E n \in 1..backoff[q][f] :
              f.job = FollowUp(p) /\ backoff[q][f] > 0 /\ y = <<"asleep", f.retries, n>>
      BY <3>1, PlaceOfCopy
    <3>4. e = f /\ backoff[q][e] = 1
      BY <1>2, <3>2, <3>3 DEF Alone, SleepsOnce
    <3>5. \A n \in 1..backoff[q][e] : n = 1
      BY <3>4
    <3> QED
      BY <3>2, <3>3, <3>4, <3>5
  <2> QED
    BY <1>1, <2>1, <2>2, <2>3 DEF Alive
<1> QED
  BY <1>1, <1>2

\* LedgerInv leaves a payment one copy of each follow-up job, and none before
\* its booking.
LEMMA LedgerCopies ==
    ASSUME LedgerInv
    PROVE  SingleFollowUp
<1> SUFFICES ASSUME NEW p \in Payments, NEW q \in Queues \ {PaymentQ}
             PROVE  Cardinality(Copies(q, p)) <= (IF ledger[p].credits = 0 THEN 0 ELSE 1)
  BY DEF SingleFollowUp
<1>1. /\ QueueTypeOK /\ FollowUp(p) \in Job /\ FollowUp(p).payment = p
      /\ q \in Queues /\ Proper(q)
  BY LedgerTypes, FollowUpJob, FourQueues DEF LedgerInv, ServeInv, FollowUp
<1>2. /\ Alone(q, FollowUp(p))
      /\ Alive(q, FollowUp(p)) => ledger[p].credits # 0
  BY <1>1 DEF Proper, Wanted, Awaited
<1>3. /\ \A x, y \in Copies(q, p) : x = y
      /\ ledger[p].credits = 0 => Copies(q, p) = {}
  BY <1>1, <1>2, AloneCopies
<1>4. Cardinality(Copies(q, p)) <= 1 /\ (Copies(q, p) = {} => Cardinality(Copies(q, p)) = 0)
  BY <1>3, AtMostOne
<1> QED
  BY <1>3, <1>4

\* A payment has at most one activation and one reward job, and none before its
\* booking has committed, whatever was delivered twice, polled, retried or lost:
\* handleReferralReward and handleSubscriptionActivate have no other protection
\* against running twice.
THEOREM OneFollowUpEach == Spec => []SingleFollowUp
<1>1. Init => LedgerInv
  BY LedgerInit
<1>2. LedgerInv /\ [Next]_vars => LedgerInv'
  BY LedgerStep, LedgerStutters
<1>3. LedgerInv => SingleFollowUp
  BY LedgerCopies
<1> QED
  BY <1>1, <1>2, <1>3, PTL DEF Spec

-----------------------------------------------------------------------------
(* Booked rows.                                                            *)

\* No call fails that would lose a job, a key or a status check on its way:
\* Redis takes every push, the one to the dead-letter list included, the
\* transaction of handlePaymentProcess commits once its key is set, and neither
\* process is killed.  Webhooks may be lost, Platega, Remnawave, the keys, the
\* reward's look-up, the polls' writes and the sweep may fail.
LossFree ==
    Faults \cap {"Enqueue", "Requeue", "DeadLetter", "PaymentTx", "WorkerCrash", "ApiCrash"} = {}

\* An asker is about to push the confirming job of p.
Pushing(p) ==
    \E x \in Askers : poll[x] # Nil /\ poll[x].payment = p /\ poll[x].pc = "push"

\* The LTV of p is booked, or will be, or waits for an operator.
Underway(p) ==
    \/ ledger[p].credits = 1
    \/ Alive(PaymentQ, FollowUp(p))
    \/ FollowUp(p) \in dead[PaymentQ]
    \/ Pushing(p)

\* A key pay:processed:<tx>:CONFIRMED that exists stands for a booked payment or
\* for the transaction that is about to book it: a job that is skipped for its
\* key is not missed.
KeyBooked ==
    \A p \in Payments : FollowUp(p) \in once =>
        ledger[p].credits = 1 \/ Carries(FollowUp(p), "claimed")

BookInv == KeyBooked /\ ConfirmedIsBooked

LEMMA BookedMeans ==
    ConfirmedIsBooked <=> \A p \in Payments : status[p] = "CONFIRMED" => Underway(p)
BY DEF ConfirmedIsBooked, Underway, Pushing

\* What keeps BookInv: no booking is undone, no key set but by a claim, no claim
\* given up but by booking, no row confirmed and no job dropped in vain.
LEMMA BookKept ==
    ASSUME BookInv,
           \A p \in Payments : ledger[p].credits = 1 => ledger'[p].credits = 1,
           \A p \in Payments : FollowUp(p) \in once' =>
               FollowUp(p) \in once \/ Carries(FollowUp(p), "claimed")',
           \A p \in Payments : Carries(FollowUp(p), "claimed") =>
               ledger'[p].credits = 1 \/ Carries(FollowUp(p), "claimed")',
           \A p \in Payments : status'[p] = "CONFIRMED" =>
               status[p] = "CONFIRMED" \/ Underway(p)',
           \A p \in Payments : Underway(p) => Underway(p)'
    PROVE  BookInv'
<1>1. KeyBooked'
  <2> SUFFICES ASSUME NEW p \in Payments, FollowUp(p) \in once'
               PROVE  ledger'[p].credits = 1 \/ Carries(FollowUp(p), "claimed")'
    BY DEF KeyBooked, FollowUp
  <2> QED
    BY DEF BookInv, KeyBooked
<1>2. \A p \in Payments : status'[p] = "CONFIRMED" => Underway(p)'
  BY BookedMeans DEF BookInv
<1>3. ConfirmedIsBooked'
  BY <1>2 DEF ConfirmedIsBooked, Underway, Pushing
<1> QED
  BY <1>1, <1>3 DEF BookInv

\* A step that leaves the loop of payment:process where it is.
LEMMA BookQuiet ==
    ASSUME BookInv, UNCHANGED once,
           \A p \in Payments : ledger'[p].credits = ledger[p].credits,
           hand'[PaymentQ] = hand[PaymentQ], stage'[PaymentQ] = stage[PaymentQ],
           dead[PaymentQ] \subseteq dead'[PaymentQ],
           \A j \in Job : Alive(PaymentQ, j) => Alive(PaymentQ, j)',
           \A p \in Payments : Pushing(p) => Underway(p)',
           \A p \in Payments : status'[p] = "CONFIRMED" =>
               status[p] = "CONFIRMED" \/ Underway(p)'
    PROVE  BookInv'
<1>1. \A j, s : Carries(j, s)' <=> Carries(j, s)
  BY AwaitedSame
<1>2. ASSUME NEW p \in Payments, Underway(p)
      PROVE  Underway(p)'
  <2>1. CASE ledger[p].credits = 1
    BY <2>1 DEF Underway
  <2>2. CASE Alive(PaymentQ, FollowUp(p))
    <3>1. Alive(PaymentQ, FollowUp(p))'
      BY <2>2, FollowUpJob DEF FollowUp
    <3> QED
      BY <3>1 DEF Underway
  <2>3. CASE FollowUp(p) \in dead[PaymentQ]
    BY <2>3 DEF Underway, FollowUp
  <2>4. CASE Pushing(p)
    BY <2>4
  <2> QED
    BY <1>2, <2>1, <2>2, <2>3, <2>4 DEF Underway
<1> QED
  BY <1>1, <1>2, BookKept

\* A push to payment:process is a job there.
LEMMA PushAlive ==
    ASSUME QueueTypeOK, NEW j \in Job, Push(PaymentQ, j)
    PROVE  /\ UNCHANGED <<hand, dead>>
           /\ Alive(PaymentQ, j)'
           /\ \A k : Alive(PaymentQ, k) => Alive(PaymentQ, k)'
<1> DEFINE e == [job |-> j, retries |-> 0]
<1>1. e \in Entry /\ e.job = j
  BY NewEntry
<1>2. queue'[PaymentQ] = Append(queue[PaymentQ], e) /\ UNCHANGED <<hand, backoff, dead>>
  BY FourQueues DEF Push, QueueTypeOK
<1> HIDE DEF e
<1>3. \A k : Alive(PaymentQ, k)' <=> Alive(PaymentQ, k) \/ k = e.job
  BY <1>1, <1>2, FourQueues, AppendCopies
<1> QED
  BY <1>1, <1>2, <1>3

\* Without a push the queue of payments stands still.
LEMMA QueuesIdle ==
    ASSUME UNCHANGED queueVars
    PROVE  /\ UNCHANGED <<hand, dead>>
           /\ \A k : Alive(PaymentQ, k) => Alive(PaymentQ, k)'
BY FourQueues, QueueStill DEF queueVars

\* Whoever is about to push stays so while the checks stand still.
LEMMA PushingSame ==
    ASSUME UNCHANGED poll
    PROVE  \A p \in Payments : Pushing(p) => Underway(p)'
BY DEF Pushing, Underway

\* The checkout, Platega and its webhook.
LEMMA BookInput ==
    ASSUME LossFree, LedgerInv, BookInv, UNCHANGED poll,
           \/ \E p \in Payments : PaidCheckout(p) \/ InitiateFreePayment(p)
           \/ \E p \in Payments, s \in FinalStatus : GatewaySettles(p, s)
           \/ \E h \in Job : WebhookLost(h) \/ EnqueueWebhook(h) \/ FailWebhook(h)
    PROVE  BookInv'
<1>1. QueueTypeOK /\ status \in [Payments -> RowStatus] /\ "Enqueue" \notin Faults
  BY LedgerTypes DEF WorkerTypeOK, LossFree
<1>2. \A p \in Payments : Pushing(p) => Underway(p)'
  BY PushingSame
<1>3. UNCHANGED <<once, ledger, stage>>
  BY DEF PaidCheckout, InitiatePayment, InitiateDeviceExpansionPayment, OpenTransaction,
     InitiateFreePayment, GatewaySettles, WebhookLost, EnqueueWebhook, FailWebhook,
     accountVars, keyVars, loopVars
<1>4. ASSUME UNCHANGED queueVars,
             \A p \in Payments : status'[p] = "CONFIRMED" => status[p] = "CONFIRMED"
      PROVE  BookInv'
  BY <1>2, <1>3, <1>4, QueuesIdle, BookQuiet
<1>5. ASSUME NEW j \in Job, Push(PaymentQ, j),
             \A p \in Payments : status'[p] = "CONFIRMED" => status[p] = "CONFIRMED" \/ j = FollowUp(p)
      PROVE  BookInv'
  <2>1. /\ UNCHANGED <<hand, dead>> /\ Alive(PaymentQ, j)'
        /\ \A k : Alive(PaymentQ, k) => Alive(PaymentQ, k)'
    BY <1>1, <1>5, PushAlive
  <2>2. ASSUME NEW p \in Payments, j = FollowUp(p)
        PROVE  Underway(p)'
    BY <2>1, <2>2 DEF Underway, FollowUp
  <2> QED
    BY <1>2, <1>3, <1>5, <2>1, <2>2, BookQuiet
<1>6. ASSUME NEW p \in Payments, PaidCheckout(p)
      PROVE  BookInv'
  <2>1. UNCHANGED queueVars /\ status' = [status EXCEPT ![p] = "PENDING"]
    BY <1>6 DEF PaidCheckout, InitiatePayment, InitiateDeviceExpansionPayment, OpenTransaction
  <2> QED
    BY <1>1, <1>4, <2>1
<1>7. ASSUME NEW p \in Payments, InitiateFreePayment(p)
      PROVE  BookInv'
  <2>1. Push(PaymentQ, FollowUp(p)) /\ status' = [status EXCEPT ![p] = "CONFIRMED"]
    BY <1>1, <1>7 DEF InitiateFreePayment, FollowUp
  <2> QED
    BY <1>1, <1>5, <2>1, FollowUpJob
<1>8. ASSUME NEW p \in Payments, NEW s \in FinalStatus, GatewaySettles(p, s)
      PROVE  BookInv'
  BY <1>4, <1>8 DEF GatewaySettles
<1>9. ASSUME NEW h \in Job, WebhookLost(h) \/ FailWebhook(h)
      PROVE  BookInv'
  BY <1>4, <1>9 DEF WebhookLost, FailWebhook
<1>10. ASSUME NEW h \in Job, EnqueueWebhook(h)
       PROVE  BookInv'
  BY <1>5, <1>10 DEF EnqueueWebhook
<1> QED
  BY <1>6, <1>7, <1>8, <1>9, <1>10

\* The status checks, the sweep and the clock.  A check that read CONFIRMED
\* writes the row only on its way to the push.
LEMMA BookAsk ==
    ASSUME LossFree, TypeOK, LedgerInv, BookInv, AskAction
    PROVE  BookInv'
<1>1. /\ QueueTypeOK /\ status \in [Payments -> RowStatus] /\ "Enqueue" \notin Faults
      /\ poll \in [Askers -> Check \cup {Nil}]
  BY LedgerTypes DEF WorkerTypeOK, LossFree, TypeOK
<1>2. ASSUME UNCHANGED <<queueVars, once, ledger, stage>>,
             \A p \in Payments : status'[p] = "CONFIRMED" => status[p] = "CONFIRMED" \/ Underway(p)',
             \A x \in Askers : poll[x] # Nil /\ poll[x].pc = "push" => poll'[x] = poll[x]
      PROVE  BookInv'
  <2>1. ASSUME NEW p \in Payments, Pushing(p)
        PROVE  Underway(p)'
    <3>1. Pushing(p)'
      BY <1>2, <2>1 DEF Pushing
    <3> QED
      BY <3>1 DEF Underway
  <2> QED
    BY <1>2, <2>1, QueuesIdle, BookQuiet
<1>3. ASSUME NEW x \in Askers, WriteExpired(x)
      PROVE  BookInv'
  <2>1. /\ UNCHANGED <<queueVars, once, ledger, stage>>
        /\ poll[x].pc = "expire" /\ poll' = [poll EXCEPT ![x] = Nil]
    BY <1>3 DEF WriteExpired, accountVars, keyVars, loopVars
  <2>2. \A p \in Payments : status'[p] = "CONFIRMED" => status[p] = "CONFIRMED"
    BY <1>1, <1>3 DEF WriteExpired
  <2>3. \A y \in Askers : poll[y] # Nil /\ poll[y].pc = "push" => poll'[y] = poll[y]
    BY <1>1, <2>1
  <2> QED
    BY <1>2, <2>1, <2>2, <2>3
<1>4. ASSUME NEW x \in Askers, AskGateway(x)
      PROVE  BookInv'
  <2>1. /\ UNCHANGED <<queueVars, once, ledger, stage, status>>
        /\ poll[x].pc = "ask" /\ \E c : poll' = [poll EXCEPT ![x] = c]
    BY <1>4 DEF AskGateway, workerVars, accountVars, keyVars, loopVars
  <2>2. \A y \in Askers : poll[y] # Nil /\ poll[y].pc = "push" => poll'[y] = poll[y]
    BY <1>1, <2>1
  <2> QED
    BY <1>2, <2>1, <2>2
<1>5. ASSUME NEW x \in Askers, WriteAnswer(x)
      PROVE  BookInv'
  <2>1. PICK c : c = poll[x]
    OBVIOUS
  <2>2. /\ UNCHANGED <<queueVars, once, ledger, stage>>
        /\ c # Nil /\ c.pc = "write"
        /\ status' = [status EXCEPT ![c.payment] = c.answer] \/ UNCHANGED status
        /\ poll' = [poll EXCEPT ![x] = IF c.answer = "CONFIRMED" THEN [c EXCEPT !.pc = "push"]
                                                                 ELSE Nil]
    BY <1>5, <2>1 DEF WriteAnswer, Announces, accountVars, keyVars, loopVars
  <2>3. c \in Check
    BY <1>1, <2>1, <2>2
  <2>4. ASSUME NEW p \in Payments, status'[p] = "CONFIRMED", status[p] # "CONFIRMED"
        PROVE  Underway(p)'
    <3>1. p = c.payment /\ c.answer = "CONFIRMED"
      BY <1>1, <2>2, <2>4
    <3>2. poll'[x] = [c EXCEPT !.pc = "push"]
      BY <1>1, <2>2, <3>1
    <3>3. poll'[x] # Nil
      <4>1. [c EXCEPT !.pc = "push"] \in Check
        BY <2>3 DEF Check
      <4> QED
        BY <3>2, <4>1, PollAssumption
    <3>4. poll'[x].payment = p /\ poll'[x].pc = "push"
      BY <2>3, <3>1, <3>2 DEF Check
    <3> QED
      BY <3>3, <3>4 DEF Underway, Pushing
  <2>5. \A y \in Askers : poll[y] # Nil /\ poll[y].pc = "push" => poll'[y] = poll[y]
    BY <1>1, <2>1, <2>2
  <2> QED
    BY <1>2, <2>2, <2>4, <2>5
<1>6. ASSUME NEW x \in Askers, PushAnswer(x)
      PROVE  BookInv'
  <2>1. PICK c : c = poll[x]
    OBVIOUS
  <2>2. /\ UNCHANGED <<once, ledger, stage, status>>
        /\ c # Nil /\ Push(PaymentQ, [payment |-> c.payment, status |-> "CONFIRMED"])
        /\ poll' = [poll EXCEPT ![x] = Nil]
    BY <1>1, <1>6, <2>1 DEF PushAnswer, accountVars, keyVars, loopVars
  <2>3. c \in Check /\ c.payment \in Payments
    BY <1>1, <2>1, <2>2 DEF Check
  <2>4. FollowUp(c.payment) \in Job /\ Push(PaymentQ, FollowUp(c.payment))
    BY <2>2, <2>3, FollowUpJob DEF FollowUp
  <2>5. /\ UNCHANGED <<hand, dead>>
        /\ Alive(PaymentQ, FollowUp(c.payment))'
        /\ \A k : Alive(PaymentQ, k) => Alive(PaymentQ, k)'
    <3>1. PICK j : j = FollowUp(c.payment)
      OBVIOUS
    <3>2. Alive(PaymentQ, j)' /\ UNCHANGED <<hand, dead>>
          /\ \A k : Alive(PaymentQ, k) => Alive(PaymentQ, k)'
      BY <1>1, <2>4, <3>1, PushAlive
    <3> QED
      BY <3>1, <3>2 DEF FollowUp
  <2>6. ASSUME NEW p \in Payments, Pushing(p)
        PROVE  Underway(p)'
    <3>1. PICK y \in Askers : poll[y] # Nil /\ poll[y].payment = p /\ poll[y].pc = "push"
      BY <2>6 DEF Pushing
    <3>2. CASE y = x
      BY <2>1, <2>5, <3>1, <3>2 DEF Underway, FollowUp
    <3>3. CASE y # x
      <4>1. poll'[y] = poll[y]
        BY <1>1, <2>2, <3>3
      <4>2. Pushing(p)'
        BY <3>1, <4>1 DEF Pushing
      <4> QED
        BY <4>2 DEF Underway
    <3> QED
      BY <3>2, <3>3
  <2> QED
    BY <2>2, <2>5, <2>6, BookQuiet
<1>7. ASSUME UNCHANGED workerVars,
             \A x \in Askers : poll[x] # Nil /\ poll[x].pc = "push" => poll'[x] = poll[x]
      PROVE  BookInv'
  BY <1>2, <1>7 DEF workerVars, accountVars, keyVars, loopVars
<1>8. ASSUME NEW x \in Askers, NEW p \in Payments, StartPoll(x, p)
      PROVE  BookInv'
  <2>1. PICK pc : ReadPending(x, p, pc)
    BY <1>8 DEF StartPoll, UserCheckPaymentStatus, AdminCheckPaymentStatus
  <2> QED
    BY <1>1, <1>7, <2>1 DEF ReadPending
<1>9. ASSUME NEW p \in Payments,
             TimePasses(p) \/ TouchPayment(p) \/ SyncKeyExpires(p)
      PROVE  BookInv'
  BY <1>7, <1>9 DEF TimePasses, TouchPayment, SyncKeyExpires, pollVars
<1>10. ASSUME NEW p \in Payments, SyncNext(p)
       PROVE  BookInv'
  BY <1>1, <1>7, <1>10 DEF SyncNext
<1>11. CASE ListStale
  BY <1>7, <1>11 DEF ListStale
<1>12. CASE MarkExpiredPayments
  <2>1. /\ UNCHANGED <<queueVars, once, ledger, stage, poll>>
        /\ \A p \in Payments : status'[p] = "CONFIRMED" => status[p] = "CONFIRMED"
    BY <1>12 DEF MarkExpiredPayments, accountVars, keyVars, loopVars
  <2> QED
    BY <1>2, <2>1
<1> QED
  BY <1>3, <1>4, <1>5, <1>6, <1>8, <1>9, <1>10, <1>11, <1>12 DEF AskAction, CheckStep

\* The loops of the other queues and their handlers.
LEMMA BookFollowUps ==
    ASSUME LedgerInv, BookInv, UNCHANGED poll,
           \/ \E q \in FollowUpQs : TakeJob(q) \/ HandlerFails(q) \/ \E e \in Entry : BackoffEnds(q, e)
           \/ ExtendSubscription \/ CreditBonus
           \/ ClaimExpansion \/ ExpandDevices \/ PayReward
    PROVE  BookInv'
<1>1. /\ queue \in [Queues -> Seq(Entry)] /\ hand \in [Queues -> Entry \cup {Nil}]
      /\ backoff \in [Queues -> [Entry -> Nat]] /\ dead \in [Queues -> SUBSET Job]
      /\ stage \in [Queues -> Stage] /\ ledger \in [Payments -> LedgerRow]
  BY LedgerTypes DEF QueueTypeOK
<1>2. \A p \in Payments : Pushing(p) => Underway(p)'
  BY PushingSame
<1>3. ASSUME UNCHANGED <<once, status>>,
             \A p \in Payments : ledger'[p].credits = ledger[p].credits,
             queue'[PaymentQ] = queue[PaymentQ], hand'[PaymentQ] = hand[PaymentQ],
             backoff'[PaymentQ] = backoff[PaymentQ], dead'[PaymentQ] = dead[PaymentQ],
             stage'[PaymentQ] = stage[PaymentQ]
      PROVE  BookInv'
  <2>1. \A j : Alive(PaymentQ, j) => Alive(PaymentQ, j)'
    BY <1>3, FourQueues, QueueStill
  <2> QED
    BY <1>2, <1>3, <2>1, BookQuiet
<1>4. ASSUME NEW q \in FollowUpQs,
             TakeJob(q) \/ HandlerFails(q) \/ \E e \in Entry : BackoffEnds(q, e)
      PROVE  BookInv'
  <2>1. UNCHANGED <<once, status, ledger>>
    BY <1>4 DEF TakeJob, HandlerFails, BackoffEnds, accountVars, keyVars
  <2>2. q \in Queues /\ q # PaymentQ /\ PaymentQ \in Queues
    BY FourQueues
  <2>3. CASE TakeJob(q)
    BY <1>1, <1>3, <2>1, <2>2, <2>3 DEF TakeJob, Pop
  <2>4. CASE HandlerFails(q)
    BY <1>1, <1>3, <2>1, <2>2, <2>4 DEF HandlerFails, Requeue, Bury, BuryLost, Return
  <2>5. CASE \E e \in Entry : BackoffEnds(q, e)
    BY <1>1, <1>3, <2>1, <2>2, <2>5 DEF BackoffEnds, Wake, WakeLost, loopVars
  <2> QED
    BY <1>4, <2>3, <2>4, <2>5
<1>5. ASSUME NEW q \in FollowUpQs, NEW from, NEW to, Advance(q, from, to) \/ Finish(q, from)
      PROVE  /\ queue'[PaymentQ] = queue[PaymentQ] /\ hand'[PaymentQ] = hand[PaymentQ]
             /\ backoff'[PaymentQ] = backoff[PaymentQ] /\ dead'[PaymentQ] = dead[PaymentQ]
             /\ stage'[PaymentQ] = stage[PaymentQ]
  BY <1>1, <1>5, FourQueues DEF Advance, Finish, Return, queueVars
<1>6. CASE ExtendSubscription
  <2>1. \A p \in Payments : ledger'[p].credits = ledger[p].credits
    BY <1>1, <1>6 DEF ExtendSubscription, LedgerRow
  <2> QED
    BY <1>3, <1>5, <1>6, <2>1, FourQueues DEF ExtendSubscription, keyVars
<1>7. CASE CreditBonus
  <2>1. \A p \in Payments : ledger'[p].credits = ledger[p].credits
    BY <1>1, <1>7 DEF CreditBonus, LedgerRow
  <2> QED
    BY <1>3, <1>5, <1>7, <2>1, FourQueues DEF CreditBonus, keyVars
<1>8. CASE ClaimExpansion
  <2>1. UNCHANGED <<once, status, ledger>>
    BY <1>8 DEF ClaimExpansion, accountVars, keyVars
  <2> QED
    BY <1>3, <1>5, <1>8, <2>1, FourQueues DEF ClaimExpansion
<1>9. CASE ExpandDevices
  <2>1. \A p \in Payments : ledger'[p].credits = ledger[p].credits
    <3>1. PICK s : s = ThePayment(ExpandQ)
      OBVIOUS
    <3>2. UNCHANGED ledger \/ ledger' = [ledger EXCEPT ![s].grants = ledger[s].grants + 1]
      BY <1>9, <3>1 DEF ExpandDevices
    <3>3. CASE UNCHANGED ledger
      BY <3>3
    <3>4. CASE ledger' = [ledger EXCEPT ![s].grants = ledger[s].grants + 1]
      BY <1>1, <3>4 DEF LedgerRow
    <3> QED
      BY <3>2, <3>3, <3>4
  <2> QED
    BY <1>3, <1>5, <1>9, <2>1, FourQueues DEF ExpandDevices, keyVars
<1>10. CASE PayReward
  <2>1. \A p \in Payments : ledger'[p].credits = ledger[p].credits
    <3>1. PICK s : s = ThePayment(RewardQ)
      OBVIOUS
    <3>2. UNCHANGED ledger \/ ledger' = [ledger EXCEPT ![s].payouts = ledger[s].payouts + 1]
      BY <1>10, <3>1 DEF PayReward
    <3>3. CASE UNCHANGED ledger
      BY <3>3
    <3>4. CASE ledger' = [ledger EXCEPT ![s].payouts = ledger[s].payouts + 1]
      BY <1>1, <3>4 DEF LedgerRow
    <3> QED
      BY <3>2, <3>3, <3>4
  <2> QED
    BY <1>3, <1>5, <1>10, <2>1, FourQueues DEF PayReward, keyVars
<1> QED
  BY <1>4, <1>6, <1>7, <1>8, <1>9, <1>10

\* The loop of payment:process lets go of a job only when the payment is booked,
\* the job is no confirmation, or it waits again or is in the dead-letter list.
LEMMA BookPaymentLoop ==
    ASSUME LossFree, LedgerInv, BookInv, UNCHANGED poll,
           \/ TakeJob(PaymentQ) \/ HandlerFails(PaymentQ)
           \/ \E e \in Entry : BackoffEnds(PaymentQ, e)
           \/ ClaimPayment \/ ConfirmPayment \/ DispatchFollowUps \/ RevertPayment
    PROVE  BookInv'
<1>1. /\ QueueTypeOK /\ PaymentQ \in Queues
      /\ queue \in [Queues -> Seq(Entry)] /\ hand \in [Queues -> Entry \cup {Nil}]
      /\ backoff \in [Queues -> [Entry -> Nat]] /\ dead \in [Queues -> SUBSET Job]
      /\ stage \in [Queues -> Stage] /\ ledger \in [Payments -> LedgerRow]
      /\ status \in [Payments -> RowStatus]
  BY FourQueues, LedgerTypes DEF QueueTypeOK, WorkerTypeOK
<1>2. \A p \in Payments : Pushing(p) => Underway(p)'
  BY PushingSame
\* A step that books nothing, sets no key and has no claim to give up.
<1>3. ASSUME UNCHANGED once,
             \A p \in Payments : ledger'[p].credits = ledger[p].credits,
             \A p \in Payments : ~Carries(FollowUp(p), "claimed"),
             dead[PaymentQ] \subseteq dead'[PaymentQ],
             \A p \in Payments : Alive(PaymentQ, FollowUp(p)) => Underway(p)',
             \A p \in Payments : status'[p] = "CONFIRMED" => status[p] = "CONFIRMED"
      PROVE  BookInv'
  <2>1. ASSUME NEW p \in Payments, Underway(p)
        PROVE  Underway(p)'
    <3>1. CASE ledger[p].credits = 1
      BY <1>3, <3>1 DEF Underway
    <3>2. CASE FollowUp(p) \in dead[PaymentQ]
      BY <1>3, <3>2 DEF Underway, FollowUp
    <3> QED
      BY <1>2, <1>3, <2>1, <3>1, <3>2 DEF Underway
  <2> QED
    BY <1>3, <2>1, BookKept
<1>4. CASE TakeJob(PaymentQ)
  <2>1. /\ UNCHANGED <<once, ledger, status, dead>> /\ Pop(PaymentQ) /\ hand[PaymentQ] = Nil
    BY <1>4 DEF TakeJob, Pop, accountVars, keyVars
  <2>2. \A j : Alive(PaymentQ, j)' <=> Alive(PaymentQ, j)
    BY <1>1, <2>1, PopCopies
  <2>3. ASSUME NEW p \in Payments, Alive(PaymentQ, FollowUp(p)) PROVE Underway(p)'
    <3>1. Alive(PaymentQ, FollowUp(p))'
      BY <2>2, <2>3 DEF FollowUp
    <3> QED
      BY <3>1 DEF Underway
  <2> QED
    BY <1>3, <2>1, <2>3 DEF Carries
<1>5. CASE HandlerFails(PaymentQ)
  <2>1. /\ UNCHANGED <<once, ledger, status>> /\ Requeue(PaymentQ) /\ hand[PaymentQ] # Nil
        /\ \E f \in Faults : <<PaymentQ, stage[PaymentQ], f>> \in Failures
    BY <1>5 DEF HandlerFails, LossFree, accountVars, keyVars
  <2>2. stage[PaymentQ] # "claimed"
    BY <2>1 DEF Failures, LossFree, PaymentQ, ActivateQ, ExpandQ, RewardQ
  <2>3. \A j : Alive(PaymentQ, j) => Alive(PaymentQ, j)' \/ j \in dead'[PaymentQ]
    BY <1>1, <2>1, RequeueCopies
  <2>4. dead[PaymentQ] \subseteq dead'[PaymentQ]
    BY <1>1, <2>1 DEF Requeue, Bury
  <2>5. ASSUME NEW p \in Payments, Alive(PaymentQ, FollowUp(p)) PROVE Underway(p)'
    <3>1. Alive(PaymentQ, FollowUp(p))' \/ FollowUp(p)' \in dead'[PaymentQ]
      BY <2>3, <2>5 DEF FollowUp
    <3> QED
      BY <3>1 DEF Underway
  <2> QED
    BY <1>3, <2>1, <2>2, <2>4, <2>5 DEF Carries
<1>6. ASSUME NEW e \in Entry, BackoffEnds(PaymentQ, e)
      PROVE  BookInv'
  <2>1. /\ UNCHANGED <<once, ledger, status, stage>> /\ Wake(PaymentQ, e)
    BY <1>6 DEF BackoffEnds, LossFree, accountVars, keyVars, loopVars
  <2>2. UNCHANGED <<hand, dead>> /\ \A j : Alive(PaymentQ, j) => Alive(PaymentQ, j)'
    BY <1>1, <2>1, WakeCopies DEF Wake
  <2> QED
    BY <1>2, <2>1, <2>2, BookQuiet
<1>7. CASE RevertPayment
  <2>1. PICK j : j = hand[PaymentQ].job
    OBVIOUS
  <2>2. /\ UNCHANGED once /\ Return(PaymentQ) /\ hand[PaymentQ] # Nil /\ stage[PaymentQ] = "claimed"
        /\ j.status # "CONFIRMED" /\ status' = [status EXCEPT ![j.payment] = j.status]
    BY <1>7, <2>1 DEF RevertPayment, RevertedRow, Finish, keyVars
  <2>3. \A p \in Payments : FollowUp(p) # j
    BY <2>2 DEF FollowUp
  <2>4. UNCHANGED dead /\ \A k : Alive(PaymentQ, k) /\ k # j => Alive(PaymentQ, k)'
    BY <1>1, <2>1, <2>2, ReturnCopies DEF Return
  <2>5. \A p \in Payments : ledger'[p].credits = ledger[p].credits
    <3>1. CASE UNCHANGED ledger
      BY <3>1
    <3>2. ASSUME NEW r \in Payments, ledger[r].debits = 0, Undo(r)
          PROVE  \A p \in Payments : ledger'[p].credits = ledger[p].credits
      <4>1. PICK cut \in {0, 1}, back \in {0, ledger[r].payouts} :
              /\ "RewardLookup" \notin Faults => back = ledger[r].payouts
              /\ ledger' = [ledger EXCEPT ![r] =
                     [ledger[r] EXCEPT !.debits = 1, !.cuts = cut, !.clawbacks = back]]
        BY <3>2, UndoLedger
      <4> QED
        BY <1>1, <4>1 DEF LedgerRow
    <3> QED
      BY <1>7, <3>1, <3>2, RevertPaymentLedger
  <2>6. ASSUME NEW p \in Payments, Alive(PaymentQ, FollowUp(p)) PROVE Underway(p)'
    <3>1. Alive(PaymentQ, FollowUp(p))'
      BY <2>3, <2>4, <2>6 DEF FollowUp
    <3> QED
      BY <3>1 DEF Underway
  <2>7. \A p \in Payments : status'[p] = "CONFIRMED" => status[p] = "CONFIRMED"
    BY <1>1, <2>2
  <2> QED
    BY <1>3, <2>1, <2>2, <2>3, <2>4, <2>5, <2>6, <2>7 DEF Carries
<1>8. CASE ClaimPayment
  <2>1. PICK j : j = hand[PaymentQ].job
    OBVIOUS
  <2>2. CASE Finish(PaymentQ, "taken") /\ ~IsNew(j) /\ UNCHANGED <<ledger, status, once>>
    <3>1. /\ Return(PaymentQ) /\ hand[PaymentQ] # Nil /\ stage[PaymentQ] = "taken" /\ j \in once
      BY <2>2 DEF Finish, IsNew
    <3>2. UNCHANGED dead /\ \A k : Alive(PaymentQ, k) /\ k # j => Alive(PaymentQ, k)'
      BY <1>1, <2>1, <3>1, ReturnCopies DEF Return
    <3>3. ASSUME NEW p \in Payments, Alive(PaymentQ, FollowUp(p)) PROVE Underway(p)'
      <4>1. CASE FollowUp(p) = j
        <5>1. ledger[p].credits = 1
          BY <3>1, <4>1 DEF BookInv, KeyBooked, Carries
        <5> QED
          BY <2>2, <5>1 DEF Underway
      <4>2. CASE FollowUp(p) # j
        <5>1. Alive(PaymentQ, FollowUp(p))'
          BY <3>2, <3>3, <4>2 DEF FollowUp
        <5> QED
          BY <5>1 DEF Underway
      <4> QED
        BY <4>1, <4>2
    <3> QED
      BY <1>3, <2>2, <3>1, <3>2, <3>3 DEF Carries
  <2>3. CASE Advance(PaymentQ, "taken", "claimed") /\ once' = once \cup {j} /\ UNCHANGED <<ledger, status>>
    <3>1. /\ UNCHANGED queueVars /\ hand[PaymentQ] # Nil
          /\ stage[PaymentQ] = "taken" /\ stage'[PaymentQ] = "claimed"
      BY <1>1, <2>3 DEF Advance
    <3>2. UNCHANGED <<hand, dead>> /\ \A k : Alive(PaymentQ, k) => Alive(PaymentQ, k)'
      BY <3>1, QueuesIdle
    <3>3. ASSUME NEW p \in Payments, Underway(p) PROVE Underway(p)'
      <4>1. Alive(PaymentQ, FollowUp(p)) => Alive(PaymentQ, FollowUp(p))'
        BY <3>2 DEF FollowUp
      <4>2. FollowUp(p)' = FollowUp(p)
        BY DEF FollowUp
      <4> QED
        BY <1>2, <2>3, <3>2, <3>3, <4>1, <4>2 DEF Underway
    <3>4. \A p \in Payments : /\ ~Carries(FollowUp(p), "claimed")
                              /\ FollowUp(p) = j => Carries(FollowUp(p), "claimed")'
      BY <2>1, <3>1, <3>2 DEF Carries, FollowUp
    <3> QED
      BY <2>3, <3>3, <3>4, BookKept
  <2> QED
    BY <1>8, <2>1, <2>2, <2>3 DEF ClaimPayment, accountVars, keyVars
<1>9. CASE ConfirmPayment
  <2>1. PICK p : p = ThePayment(PaymentQ)
    OBVIOUS
  <2>2. /\ hand[PaymentQ] # Nil /\ stage[PaymentQ] = "claimed" /\ hand[PaymentQ].job.status = "CONFIRMED"
        /\ UNCHANGED <<queueVars, once>>
        /\ ledger' = [ledger EXCEPT ![p].credits = ledger[p].credits + 1]
        /\ status' = [status EXCEPT ![p] = "CONFIRMED"]
    BY <1>9, <2>1 DEF ConfirmPayment, Advance, keyVars
  <2>3. /\ p \in Payments /\ hand[PaymentQ].job = FollowUp(p) /\ Carries(FollowUp(p), "claimed")
    BY <2>1, <2>2, LoopHolds, ConfirmedJob DEF ThePayment, Carries
  <2>4. ledger[p].credits = 0
    BY <2>3 DEF LedgerInv, PayInv, Books
  <2>5. ledger'[p].credits = 1 /\ \A r \in Payments \ {p} : ledger'[r] = ledger[r]
    BY <1>1, <2>2, <2>3, <2>4 DEF LedgerRow
  <2>6. Underway(p)'
    BY <2>5 DEF Underway
  <2>7. ASSUME NEW r \in Payments, Underway(r) PROVE Underway(r)'
    <3>1. CASE r = p
      BY <2>6, <3>1
    <3>2. CASE r # p
      <4>1. ledger'[r] = ledger[r]
        BY <2>5, <3>2
      <4>2. Alive(PaymentQ, FollowUp(r)) => Alive(PaymentQ, FollowUp(r))'
        BY <2>2, QueuesIdle DEF FollowUp
      <4>3. FollowUp(r)' = FollowUp(r) /\ UNCHANGED dead
        BY <2>2 DEF FollowUp, queueVars
      <4> QED
        BY <1>2, <2>7, <4>1, <4>2, <4>3 DEF Underway
    <3> QED
      BY <3>1, <3>2
  <2>8. \A r \in Payments : Carries(FollowUp(r), "claimed") => r = p
    BY <2>3 DEF Carries, FollowUp
  <2>9. \A r \in Payments : status'[r] = "CONFIRMED" => status[r] = "CONFIRMED" \/ r = p
    BY <1>1, <2>2
  <2>10. \A r \in Payments : ledger[r].credits = 1 => ledger'[r].credits = 1
    BY <2>5
  <2> QED
    BY <2>2, <2>5, <2>6, <2>7, <2>8, <2>9, <2>10, BookKept
<1>10. CASE DispatchFollowUps
  <2>1. PICK p : p = ThePayment(PaymentQ)
    OBVIOUS
  <2>2. PICK S \in SUBSET FollowUpsOf(p) : PushFollowUp(p, S)
    BY <1>10, <2>1 DEF DispatchFollowUps, FollowUpsOf
  <2>3. /\ hand[PaymentQ] # Nil /\ stage[PaymentQ] = "confirmed"
        /\ hand' = [hand EXCEPT ![PaymentQ] = Nil]
        /\ UNCHANGED <<backoff, dead, ledger, once, status>>
    BY <1>10 DEF DispatchFollowUps, accountVars, keyVars
  <2>4. hand[PaymentQ].job.status = "CONFIRMED"
    BY <2>3 DEF LedgerInv, GatewayInv, ConfirmedStage
  <2>5. p \in Payments /\ hand[PaymentQ].job = FollowUp(p) /\ Carries(FollowUp(p), "confirmed")
    BY <2>1, <2>3, <2>4, LoopHolds, ConfirmedJob DEF ThePayment, Carries
  <2>6. ledger[p].credits = 1 /\ PaymentQ \notin S
    BY <2>5, NoneYet, FourQueues
  <2>7. queue'[PaymentQ] = queue[PaymentQ]
    BY <1>1, <2>2, <2>6 DEF PushFollowUp
  <2>8. ASSUME NEW r \in Payments, Alive(PaymentQ, FollowUp(r)) PROVE Underway(r)'
    <3>1. CASE r = p
      BY <2>3, <2>6, <3>1 DEF Underway
    <3>2. CASE r # p
      <4>1. ~InHand(PaymentQ, FollowUp(r))
        BY <2>5, <3>2 DEF InHand, FollowUp
      <4>2. Listed(PaymentQ, FollowUp(r))' \/ Sleeping(PaymentQ, FollowUp(r))'
        BY <2>3, <2>7, <2>8, <4>1 DEF Alive, Listed, Sleeping, FollowUp
      <4> QED
        BY <4>2 DEF Underway, Alive
    <3> QED
      BY <3>1, <3>2
  <2> QED
    BY <1>3, <2>3, <2>8 DEF Carries
<1> QED
  BY <1>4, <1>5, <1>6, <1>7, <1>8, <1>9, <1>10

\* BookInv holds at the start.
LEMMA BookInit ==
    ASSUME Init
    PROVE  BookInv
<1>1. once = {} /\ status = [p \in Payments |-> "NONE"]
  BY DEF Init, WorkerInit
<1> QED
  BY <1>1 DEF BookInv, KeyBooked, ConfirmedIsBooked

\* Every step keeps BookInv when nothing that carries a confirmation is lost.
LEMMA BookStep ==
    ASSUME LossFree, TypeOK, LedgerInv, BookInv, Next
    PROVE  BookInv'
<1>1. ASSUME WorkerAction, Keep
      PROVE  BookInv'
  <2>1. UNCHANGED poll
    BY <1>1 DEF Keep
  <2>2. ASSUME NEW q \in Queues,
               TakeJob(q) \/ HandlerFails(q) \/ \E e \in Entry : BackoffEnds(q, e)
        PROVE  BookInv'
    <3>1. CASE q = PaymentQ
      BY <2>1, <2>2, <3>1, BookPaymentLoop
    <3>2. CASE q # PaymentQ
      BY <2>1, <2>2, <3>2, FourQueues, BookFollowUps
    <3> QED
      BY <3>1, <3>2
  <2> QED
    BY <1>1, <2>1, <2>2, BookInput, BookPaymentLoop, BookFollowUps DEF WorkerAction
<1>2. ASSUME AskAction
      PROVE  BookInv'
  BY <1>2, BookAsk
<1>3. ~WorkerRestart /\ ~ApiRestart
  BY DEF WorkerRestart, WorkerCrash, ApiRestart, LossFree
<1> QED
  BY <1>1, <1>2, <1>3, NextSplit

\* A step that does nothing keeps BookInv.
LEMMA BookStutters ==
    ASSUME BookInv, UNCHANGED vars
    PROVE  BookInv'
<1>1. UNCHANGED <<once, ledger, hand, stage, dead, status, poll>>
  BY DEF vars, workerVars, queueVars, accountVars, keyVars, loopVars, pollVars
<1>2. \A j : Alive(PaymentQ, j) => Alive(PaymentQ, j)'
  BY QueuesIdle DEF vars, workerVars
<1> QED
  BY <1>1, <1>2, PushingSame, BookQuiet

\* As long as no push, no confirming transaction and no process is lost, a row
\* that says CONFIRMED, though a poll wrote it ahead of the worker, is booked or
\* on its way there: the job it waits for is queued, running, asleep or about to
\* be pushed, or lies in the dead-letter list.  Lost webhooks, refused keys, and
\* failing polls, sweeps and panel calls cannot strand it.
THEOREM ConfirmedRowsAreBooked == LossFree => (Spec => []ConfirmedIsBooked)
<1> SUFFICES ASSUME LossFree PROVE Spec => []ConfirmedIsBooked
  OBVIOUS
<1>1. Init => LedgerInv /\ BookInv
  BY LedgerInit, BookInit
<1>2. LedgerInv /\ BookInv /\ [Next]_vars => LedgerInv' /\ BookInv'
  <2>1. LedgerInv => TypeOK
    BY DEF LedgerInv, GatewayInv
  <2> QED
    BY <2>1, LedgerStep, LedgerStutters, BookStep, BookStutters
<1>3. BookInv => ConfirmedIsBooked
  BY DEF BookInv
<1> QED
  BY <1>1, <1>2, <1>3, PTL DEF Spec
=============================================================================
